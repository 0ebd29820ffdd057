-------------------------------- MODULE Keys --------------------------------
(***************************************************************************)
(* Physical vehicle keys: mutateKey (src/src/features/keys/service.ts).    *)
(* A key change names the version the client saw.  The vehicle of a key is *)
(* read before any lock is held; a row never changes its vehicle.          *)
(***************************************************************************)
EXTENDS FleetTables

SlotsTaken(v) == {k.slot : k \in {x \in key : x.vehicle = v /\ x.status = "ACTIVE"}}

FreshKey(i, v, slot, replaces) ==
    [id |-> i, vehicle |-> v, slot |-> slot, status |-> "ACTIVE",
     holder |-> "OFFICE", version |-> 1, replaces |-> replaces]

(* Mutant: a retired key is changed like any other.                        *)
Current_RetiredToo(r, k) == k.id = r.saw.id /\ k.version = r.saw.version

(* The row the client saw, still usable, seen under the vehicle lock.      *)
Current(r, k) == k.id = r.saw.id /\ k.version = r.saw.version /\ k.status = "ACTIVE"

BeginKeyCreate(s) ==
    /\ Room(key, 1, KeyIds)
    /\ \E u \in Users, v \in Vehicles :
          /\ vehicle[v].status # "ABSENT"
          /\ Begin(s, [op |-> "keyCreate", user |-> u, vehicle |-> v])

CanCreateKey(r) == VehicleActive(r.vehicle) /\ (1..MaxSlot) \ SlotsTaken(r.vehicle) # {}

CreateKey(r) ==
    /\ \E i \in KeyIds, slot \in (1..MaxSlot) \ SlotsTaken(r.vehicle) :
          /\ NewId(key, KeyIds, i)
          /\ \A t \in (1..MaxSlot) \ SlotsTaken(r.vehicle) : slot <= t
          /\ key' = key \cup {FreshKey(i, r.vehicle, slot, Nil)}
    /\ UNCHANGED <<vehicle, driver, member, assignment, wave>>

BeginKeyTransfer(s) ==
    \E u \in Users, k \in key, to \in Holders :
        /\ k.version < MaxVersion
        /\ Begin(s, [op |-> "keyTransfer", user |-> u, saw |-> k, to |-> to])

CanTransferKey(r) ==
    /\ r.to \in Drivers => DriverActive(r.to) /\ VehicleActive(r.saw.vehicle)
    /\ \E k \in key : Current(r, k) /\ k.holder # r.to

TransferKey(r) ==
    /\ \E k \in key :
          /\ Current(r, k)
          /\ key' = (key \ {k})
                    \cup {[k EXCEPT !.holder = r.to, !.version = @ + 1]}
    /\ UNCHANGED <<vehicle, driver, member, assignment, wave>>

BeginKeyRetire(s) ==
    \E u \in Users, k \in key, op \in {"keyRetire", "keyReplace"} :
        /\ k.version < MaxVersion
        /\ op = "keyReplace" => Room(key, 1, KeyIds)
        /\ Begin(s, [op |-> op, user |-> u, saw |-> k])

(* Mutant: a key is retired wherever it is.                                *)
CanRetireKey_AnyHolder(r) ==
    /\ r.op = "keyReplace" => VehicleActive(r.saw.vehicle)
    /\ \E k \in key : Current(r, k)

(* A key a driver holds must come back, or be reported missing, first.     *)
CanRetireKey(r) ==
    /\ r.op = "keyReplace" => VehicleActive(r.saw.vehicle)
    /\ \E k \in key : Current(r, k) /\ k.holder \notin Drivers

RetireKey(r) ==
    /\ \E k \in key :
          LET retired == [k EXCEPT !.status = "RETIRED", !.version = @ + 1]
          IN  /\ Current(r, k)
              /\ \/ /\ r.op = "keyRetire"
                    /\ key' = (key \ {k}) \cup {retired}
                 \/ /\ r.op = "keyReplace"
                    /\ \E i \in KeyIds :
                          /\ NewId(key, KeyIds, i)
                          /\ key' = (key \ {k}) \cup
                                 {retired, FreshKey(i, k.vehicle, k.slot, k.id)}
    /\ UNCHANGED <<vehicle, driver, member, assignment, wave>>
=============================================================================
