---------------------------- MODULE Assignments ----------------------------
(***************************************************************************)
(* Vehicle assignments: assignVehicle and the close branch of mutateFleet  *)
(* (src/src/features/fleet/service.ts).  Each operation is the request a   *)
(* client makes, the condition the transaction checks under its locks, and *)
(* the rows it writes.                                                     *)
(***************************************************************************)
EXTENDS FleetTables

BeginAssign(s) ==
    /\ Room(assignment, 1, AssignmentIds)
    /\ \E u \in Users, v \in Vehicles, d \in Drivers :
          /\ vehicle[v].status # "ABSENT"
          /\ Begin(s, [op |-> "assign", user |-> u, vehicle |-> v, driver |-> d])

(* Mutant: only the vehicle's open assignment is looked for.               *)
CanAssign_DriverForgotten(r) ==
    /\ VehicleActive(r.vehicle)
    /\ DriverActive(r.driver)
    /\ \A a \in OpenAssignments : a.vehicle # r.vehicle

CanAssign(r) ==
    /\ VehicleActive(r.vehicle)
    /\ DriverActive(r.driver)
    /\ \A a \in OpenAssignments : a.vehicle # r.vehicle /\ a.driver # r.driver

Assign(r) ==
    /\ \E i \in AssignmentIds :
          /\ NewId(assignment, AssignmentIds, i)
          /\ assignment' = assignment \cup {[id |-> i, vehicle |-> r.vehicle,
                                             driver |-> r.driver, open |-> TRUE]}
    /\ UNCHANGED <<vehicle, driver, member, key, wave>>

(* The vehicle to lock is read before any lock is held; a row never        *)
(* changes its vehicle.                                                    *)
BeginClose(s) ==
    \E u \in Users, a \in assignment :
        Begin(s, [op |-> "close", user |-> u, id |-> a.id, vehicle |-> a.vehicle])

CanClose(r) == \E a \in OpenAssignments : a.id = r.id

Close(r) ==
    /\ \E a \in OpenAssignments :
          /\ a.id = r.id
          /\ assignment' = (assignment \ {a}) \cup {[a EXCEPT !.open = FALSE]}
    /\ UNCHANGED <<vehicle, driver, member, key, wave>>
=============================================================================
