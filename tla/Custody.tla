------------------------------ MODULE Custody ------------------------------
(***************************************************************************)
(* What the fleet core promises, without transactions, tables or versions: *)
(* who is in the fleet, who drives what, who holds which key and who is on *)
(* a tour, changed one committed operation at a time.  Fleet implements it.*)
(***************************************************************************)
EXTENDS Integers

CONSTANTS Vehicles, Drivers, KeyIds, WaveIds

VARIABLES
    fleet,     \* vehicles in service
    crew,      \* drivers in service
    assigned,  \* who currently drives what
    out,       \* keys in a driver's hands
    tours      \* waves under way and their participants

custodyVars == <<fleet, crew, assigned, out, tours>>

Pair == Vehicles \X Drivers

Idle(v) == /\ \A p \in assigned : p[1] # v
           /\ \A o \in out : o.vehicle # v
           /\ \A t \in tours, p \in Pair : p \in t.pairs => p[1] # v

Released(d) == /\ \A p \in assigned : p[2] # d
               /\ \A o \in out : o.driver # d
               /\ \A t \in tours, p \in Pair : p \in t.pairs => p[2] # d

CustodyInit ==
    /\ fleet \subseteq Vehicles /\ crew \subseteq Drivers
    /\ assigned = {} /\ out = {} /\ tours = {}

JoinFleet(v) == fleet' = fleet \cup {v} /\ UNCHANGED <<crew, assigned, out, tours>>

LeaveFleet(v) ==
    /\ Idle(v)
    /\ fleet' = fleet \ {v}
    /\ UNCHANGED <<crew, assigned, out, tours>>

JoinCrew(d) == crew' = crew \cup {d} /\ UNCHANGED <<fleet, assigned, out, tours>>

LeaveCrew(d) ==
    /\ Released(d)
    /\ crew' = crew \ {d}
    /\ UNCHANGED <<fleet, assigned, out, tours>>

HandOver(v, d) ==
    /\ v \in fleet /\ d \in crew
    /\ \A p \in assigned : p[1] # v /\ p[2] # d
    /\ assigned' = assigned \cup {<<v, d>>}
    /\ UNCHANGED <<fleet, crew, out, tours>>

Return(v, d) ==
    /\ assigned' = assigned \ {<<v, d>>}
    /\ UNCHANGED <<fleet, crew, out, tours>>

(* A key goes to a driver from the office or from another driver.          *)
TakeKey(k, v, d) ==
    /\ v \in fleet /\ d \in crew
    /\ out' = {o \in out : o.key # k} \cup {[key |-> k, vehicle |-> v, driver |-> d]}
    /\ UNCHANGED <<fleet, crew, assigned, tours>>

GiveBack(k) ==
    /\ out' = {o \in out : o.key # k}
    /\ UNCHANGED <<fleet, crew, assigned, tours>>

Depart(w, pairs) ==
    /\ pairs # {}
    /\ \A p \in pairs : p[1] \in fleet /\ p[2] \in crew
    /\ \A t \in tours, p \in pairs, q \in Pair : q \in t.pairs =>
          p[1] # q[1] /\ p[2] # q[2]
    /\ \A t \in tours : t.wave # w
    /\ tours' = tours \cup {[wave |-> w, pairs |-> pairs]}
    /\ UNCHANGED <<fleet, crew, assigned, out>>

Finish(w) ==
    /\ tours' = {t \in tours : t.wave # w}
    /\ UNCHANGED <<fleet, crew, assigned, out>>

CustodyNext ==
    \/ \E v \in Vehicles : JoinFleet(v) \/ LeaveFleet(v)
    \/ \E d \in Drivers : JoinCrew(d) \/ LeaveCrew(d)
    \/ \E v \in Vehicles, d \in Drivers : HandOver(v, d) \/ Return(v, d)
    \/ \E k \in KeyIds, v \in Vehicles, d \in Drivers : TakeKey(k, v, d)
    \/ \E k \in KeyIds : GiveBack(k)
    \/ \E w \in WaveIds : Finish(w) \/ \E pairs \in SUBSET Pair : Depart(w, pairs)

CustodySpec == CustodyInit /\ [][CustodyNext]_custodyVars
=============================================================================
