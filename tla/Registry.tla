------------------------------ MODULE Registry ------------------------------
(***************************************************************************)
(* Drivers and vehicles entering, leaving and rejoining the fleet          *)
(* (src/src/features/fleet/service.ts and reactivate-driver.ts), and the   *)
(* membership changes of src/src/features/accounts/service.ts that decide  *)
(* who may act.                                                            *)
(***************************************************************************)
EXTENDS FleetTables

(* Creating a row touches no row of another session: one step.             *)
CreateDriver ==
    /\ \E d \in Drivers :
          /\ driver[d].status = "ABSENT"
          /\ driver' = [driver EXCEPT ![d] = [status |-> "ACTIVE", rev |-> 1]]
    /\ UNCHANGED <<vehicle, member, assignment, key, wave, txVars>>

(* A vehicle arrives with its keys; one already out of the fleet (deFleet) *)
(* is recorded INACTIVE with a closed service period.                      *)
CreateVehicle ==
    /\ \E v \in Vehicles, retired \in BOOLEAN, n \in 0..MaxSlot :
          /\ vehicle[v].status = "ABSENT"
          /\ vehicle' = [vehicle EXCEPT ![v] =
                 [status |-> IF retired THEN "INACTIVE" ELSE "ACTIVE",
                  periods |-> IF retired THEN 0 ELSE 1]]
          /\ Room(key, n, KeyIds)
          /\ \E ids \in [1..n -> KeyIds] :
                /\ \A i \in 1..n : NewId(key, KeyIds, ids[i])
                /\ \A i, j \in 1..n : i # j => ids[i] # ids[j]
                /\ key' = key \cup
                     {[id |-> ids[i], vehicle |-> v, slot |-> i, status |-> "ACTIVE",
                       holder |-> "OFFICE", version |-> 1, replaces |-> Nil] : i \in 1..n}
    /\ UNCHANGED <<driver, member, assignment, wave, txVars>>

BeginDriver(s) ==
    \E u \in Users, d \in Drivers :
        /\ driver[d].status # "ABSENT"
        /\ driver[d].rev < MaxRev
        /\ \/ \E op \in {"driverUpdate", "driverArchive"} :
                 Begin(s, [op |-> op, user |-> u, driver |-> d])
           \/ Begin(s, [op |-> "driverReactivate", user |-> u, driver |-> d,
                        saw |-> driver[d]])

(* The profile's own fields; its status is untouched.                      *)
UpdateDriver(r) ==
    /\ driver' = [driver EXCEPT ![r.driver].rev = @ + 1]
    /\ UNCHANGED <<vehicle, member, assignment, key, wave>>

(* Mutant: keys in the driver's hands are forgotten.                       *)
CanArchiveDriver_KeysForgotten(r) ==
    /\ ~ DriverInActiveWave(r.driver)
    /\ \A a \in OpenAssignments : a.driver # r.driver

CanArchiveDriver(r) ==
    /\ ~ DriverInActiveWave(r.driver)
    /\ \A k \in key : k.holder # r.driver
    /\ \A a \in OpenAssignments : a.driver # r.driver

(* The linked account loses access with the profile, unless it has been    *)
(* promoted; its row is written, so a transaction reading it must end.     *)
ArchiveDriver(s, r) ==
    LET u == AccountOf[r.driver]
        linked == u # Nil /\ member[u].role = "DRIVER"
    IN  /\ driver' = [driver EXCEPT ![r.driver] = [status |-> "INACTIVE", rev |-> @.rev + 1]]
        /\ \/ /\ linked
              /\ \A t \in Sessions \ {s} : <<"member", u>> \notin held[t]
              /\ member' = [member EXCEPT ![u].active = FALSE]
           \/ ~ linked /\ UNCHANGED member
        /\ UNCHANGED <<vehicle, assignment, key, wave>>

CanReactivateDriver(r) ==
    driver[r.driver].rev = r.saw.rev /\ driver[r.driver].status = "INACTIVE"

ReactivateDriver(r) ==
    /\ driver' = [driver EXCEPT ![r.driver] = [status |-> "ACTIVE", rev |-> @.rev + 1]]
    /\ UNCHANGED <<vehicle, member, assignment, key, wave>>

BeginVehicle(s) ==
    \E u \in Users, v \in Vehicles :
        /\ vehicle[v].status # "ABSENT"
        /\ \/ \E op \in {"vehicleArchive", "vehicleReactivate"} :
                 Begin(s, [op |-> op, user |-> u, vehicle |-> v])
           \/ \E n \in 0..MaxSlot :
                 Begin(s, [op |-> "vehicleUpdate", user |-> u, vehicle |-> v,
                           keyCount |-> n])

(* The form shows the number of usable keys and must still be right; what  *)
(* it changes otherwise (model, ownership, provider) is not modelled.      *)
CanUpdateVehicle(r) ==
    Cardinality({k \in key : k.vehicle = r.vehicle /\ k.status = "ACTIVE"}) = r.keyCount

UpdateVehicle(r) == UNCHANGED tables

CanArchiveVehicle(r) ==
    /\ ~ VehicleInActiveWave(r.vehicle)
    /\ VehicleActive(r.vehicle)
    /\ \A a \in OpenAssignments : a.vehicle # r.vehicle
    /\ \A k \in key : k.vehicle = r.vehicle => k.holder \notin Drivers

(* Every open service period ends with the archival.                       *)
ArchiveVehicle(r) ==
    /\ vehicle' = [vehicle EXCEPT ![r.vehicle] = [status |-> "INACTIVE", periods |-> 0]]
    /\ UNCHANGED <<driver, member, assignment, key, wave>>

CanReactivateVehicle(r) == vehicle[r.vehicle].status = "INACTIVE"

ReactivateVehicle(r) ==
    /\ vehicle' = [vehicle EXCEPT ![r.vehicle] =
                      [status |-> "ACTIVE", periods |-> @.periods + 1]]
    /\ UNCHANGED <<driver, member, assignment, key, wave>>

(* Mutant: access is granted without locking the linked profile, which an  *)
(* archival under way may have checked already.                            *)
ChangeAccount_StaleDriver ==
    /\ "account" \in Ops
    /\ \E u \in Users, role \in Roles, active \in BOOLEAN :
          /\ \A s \in Sessions : <<"member", u>> \notin held[s]
          /\ role = "DRIVER" => \E d \in Drivers : AccountOf[d] = u
          /\ member' = [member EXCEPT ![u] = [role |-> role, active |-> active]]
    /\ UNCHANGED <<vehicle, driver, assignment, key, wave, txVars>>

(* changeAccount locks the linked profile and the membership for its whole *)
(* transaction, so it is one step between the transactions that hold them. *)
(* Access as a driver needs an active profile.                             *)
ChangeAccount ==
    /\ "account" \in Ops
    /\ \E u \in Users, role \in Roles, active \in BOOLEAN :
          /\ <<role, active>> # <<member[u].role, member[u].active>>
          /\ \A s \in Sessions : /\ <<"member", u>> \notin held[s]
                                 /\ \A d \in Drivers : AccountOf[d] = u =>
                                       <<"driver", d>> \notin held[s]
          /\ role = "DRIVER" => \E d \in Drivers :
                AccountOf[d] = u /\ (active => DriverActive(d))
          /\ member' = [member EXCEPT ![u] = [role |-> role, active |-> active]]
    /\ UNCHANGED <<vehicle, driver, assignment, key, wave, txVars>>
=============================================================================
