---------------------------- MODULE FleetTables ----------------------------
(***************************************************************************)
(* The tables the fleet operations of Fahriva share, and the transactions  *)
(* that change them.                                                       *)
(*                                                                         *)
(* A table is the set of its rows.  A transaction of the service layer     *)
(* (src/features/{fleet,keys,waves}/service.ts) has the same three parts   *)
(* everywhere: SELECT ... FOR UPDATE of the rows it is about, one          *)
(* statement per row; reads that decide whether it is refused; the actor's *)
(* membership, locked and read again; writes and COMMIT.  Each part is a   *)
(* step here, so transactions of other sessions may come between them:     *)
(* PostgreSQL runs them at READ COMMITTED and only the row locks keep what *)
(* was read true until it is acted upon.  keys and close read part of      *)
(* their rows after the membership; here every row is read before it.      *)
(***************************************************************************)
EXTENDS Integers, FiniteSets

CONSTANTS
    Vehicles, Drivers,          \* identifiers
    Pos,                        \* position of an identifier in sorted order
    Users,                      \* members of the organisation
    Sessions,                   \* concurrent requests (one transaction each)
    AssignmentIds, KeyIds, WaveIds,
    MaxSlot,                    \* key slots of a vehicle (4 in the code)
    MaxVersion, MaxRev,         \* bounds: keys and waves at this version, and
                                \* drivers at this revision, are left alone
    SeedVehicles, SeedDrivers,  \* registered before the behaviour starts
    AccountOf,                  \* the user linked to a driver profile, or Nil
    Ops,                        \* the operations clients call in this instance
    Nil

VARIABLES
    vehicle,     \* Vehicle: status and number of open service periods
    driver,      \* DriverProfile: status and revision (updatedAt)
    member,      \* Membership: role and active
    assignment,  \* VehicleAssignment
    key,         \* VehicleKey
    wave,        \* Wave with its WaveParticipants
    phase,       \* what each session's transaction is doing
    req,         \* the request it serves
    todo,        \* row locks it still has to take
    held         \* row locks it holds

tables  == <<vehicle, driver, member, assignment, key, wave>>
txVars  == <<phase, req, todo, held>>
vars    == <<vehicle, driver, member, assignment, key, wave,
             phase, req, todo, held>>

AllOps == {"assign", "close",
           "keyCreate", "keyTransfer", "keyRetire", "keyReplace",
           "waveCreate", "waveUpdate", "waveProgress", "waveStart",
           "waveComplete",
           "driverUpdate", "driverArchive", "driverReactivate",
           "vehicleUpdate", "vehicleArchive", "vehicleReactivate", "account"}

ASSUME FleetAssumption ==
    /\ Pos \in [Vehicles \cup Drivers -> Nat]
    /\ \A x, y \in Vehicles : Pos[x] = Pos[y] => x = y
    /\ \A x, y \in Drivers : Pos[x] = Pos[y] => x = y
    /\ SeedVehicles \subseteq Vehicles /\ SeedDrivers \subseteq Drivers
    /\ MaxSlot \in Nat /\ MaxVersion \in Nat /\ MaxRev \in Nat
    /\ AccountOf \in [Drivers -> Users \cup {Nil}]
    /\ \A d, e \in Drivers : AccountOf[d] = AccountOf[e] /\ AccountOf[d] # Nil => d = e
    /\ Nil \notin Users \cup KeyIds
    /\ Drivers \cap {"OFFICE", "MISSING"} = {}
    /\ Ops \subseteq AllOps

-----------------------------------------------------------------------------
(* Rows.                                                                   *)

Statuses == {"ABSENT", "ACTIVE", "INACTIVE"}     \* ABSENT: no such row yet
Roles    == {"ADMIN", "DISPATCHER", "DRIVER"}    \* ADMIN: and SUPER_ADMIN
Holders  == Drivers \cup {"OFFICE", "MISSING"}   \* location and driverId
Pairs    == Vehicles \X Drivers                  \* a WaveParticipant

VehicleRow    == [status : Statuses, periods : Int]
DriverRow     == [status : Statuses, rev : Nat]
MemberRow     == [role : Roles, active : BOOLEAN]
AssignmentRow == [id : AssignmentIds, vehicle : Vehicles, driver : Drivers,
                  open : BOOLEAN]
KeyRow        == [id : KeyIds, vehicle : Vehicles, slot : 1..MaxSlot,
                  status : {"ACTIVE", "RETIRED"}, holder : Holders,
                  version : Nat, replaces : KeyIds \cup {Nil}]
WaveRow       == [id : WaveIds, status : {"PLANNED", "ACTIVE", "COMPLETED"},
                  pairs : SUBSET Pairs, done : BOOLEAN, version : Nat]

VehicleActive(v) == vehicle[v].status = "ACTIVE"
DriverActive(d)  == driver[d].status = "ACTIVE"
OpenAssignments  == {a \in assignment : a.open}
ActiveWaves      == {w \in wave : w.status = "ACTIVE"}
InActiveWave(v, d) == \E w \in ActiveWaves : \E p \in w.pairs : p[1] = v \/ p[2] = d
VehicleInActiveWave(v) == \E w \in ActiveWaves : \E p \in w.pairs : p[1] = v
DriverInActiveWave(d)  == \E w \in ActiveWaves : \E p \in w.pairs : p[2] = d

(* Bound: n more rows still fit when every request under way is served.    *)
Creates == {"assign", "keyCreate", "keyReplace", "waveCreate"}

Room(table, n, ids) ==
    Cardinality(table) + n
      + Cardinality({s \in Sessions : phase[s] # "idle" /\ req[s].op \in Creates})
    <= Cardinality(ids)

NewId(table, ids, i) == i \in ids /\ \A row \in table : row.id # i

-----------------------------------------------------------------------------
(* Requests: the operation, the principal and what the client sends.  Of   *)
(* the row the client saw (saw), only its version reaches the service.     *)

AssignRequest == [op : {"assign"}, user : Users, vehicle : Vehicles, driver : Drivers]
CloseRequest  == [op : {"close"}, user : Users, id : AssignmentIds, vehicle : Vehicles]
KeyRequest ==
    [op : {"keyCreate"}, user : Users, vehicle : Vehicles]
    \cup [op : {"keyTransfer"}, user : Users, saw : KeyRow, to : Holders]
    \cup [op : {"keyRetire", "keyReplace"}, user : Users, saw : KeyRow]
WaveRequest ==
    [op : {"waveCreate"}, user : Users, pairs : SUBSET Pairs, done : BOOLEAN]
    \cup [op : {"waveUpdate"}, user : Users, saw : WaveRow,
          pairs : SUBSET Pairs, done : BOOLEAN]
    \cup [op : {"waveProgress"}, user : Users, saw : WaveRow, done : BOOLEAN]
    \cup [op : {"waveStart"}, user : Users, saw : WaveRow, pairs : SUBSET Pairs]
    \cup [op : {"waveComplete"}, user : Users, saw : WaveRow]
RegistryRequest ==
    [op : {"driverUpdate", "driverArchive"}, user : Users, driver : Drivers]
    \cup [op : {"driverReactivate"}, user : Users, driver : Drivers, saw : DriverRow]
    \cup [op : {"vehicleUpdate"}, user : Users, vehicle : Vehicles, keyCount : Nat]
    \cup [op : {"vehicleArchive", "vehicleReactivate"}, user : Users,
          vehicle : Vehicles]

Request == AssignRequest \cup CloseRequest \cup KeyRequest \cup WaveRequest
           \cup RegistryRequest

(* Operations that never look at the membership again inside the           *)
(* transaction: they run on the principal loaded with the request.         *)
Unchecked == {"driverUpdate", "driverArchive", "vehicleUpdate",
              "vehicleArchive", "vehicleReactivate"}

(* Roles an operation is reserved to.                                      *)
RolesFor(op) ==
    IF op \in {"keyCreate", "keyRetire", "keyReplace", "driverArchive",
               "driverReactivate", "vehicleArchive", "vehicleReactivate"}
    THEN {"ADMIN"} ELSE {"ADMIN", "DISPATCHER"}

Permitted(u, op) == member[u].active /\ member[u].role \in RolesFor(op)

-----------------------------------------------------------------------------
(* Row locks.  FOR UPDATE excludes every other session; the membership of  *)
(* the actor is only locked FOR SHARE.                                     *)

Rows == ({"wave"} \X WaveIds) \cup ({"vehicle"} \X Vehicles)
        \cup ({"driver"} \X Drivers) \cup ({"member"} \X Users)

TableRank == [wave |-> 1, vehicle |-> 2, driver |-> 3, member |-> 4]

(* Mutant: rows are locked in whatever order the request names them.       *)
Precedes_Unsorted(r, q) == r # q

(* The order in which every transaction takes its locks.                   *)
Precedes(r, q) ==
    \/ TableRank[r[1]] < TableRank[q[1]]
    \/ r[1] = q[1] /\ r[1] \in {"vehicle", "driver"} /\ Pos[r[2]] < Pos[q[2]]

Free(s, row) ==
    \A t \in Sessions \ {s} : row \in held[t] => row[1] = "member"

(* The rows a request locks.  A start locks the participants it finds on   *)
(* the wave, so they are unknown until the wave itself is locked.          *)
LocksVehicle(r, v) ==
    \/ /\ r.op \in {"assign", "close", "keyCreate", "vehicleUpdate",
                    "vehicleArchive", "vehicleReactivate"}
       /\ v = r.vehicle
    \/ /\ r.op \in {"keyTransfer", "keyRetire", "keyReplace"}
       /\ v = r.saw.vehicle
    \/ /\ r.op \in {"waveCreate", "waveUpdate", "waveStart"}
       /\ \E p \in r.pairs : v = p[1]

LocksDriver(r, d) ==
    \/ /\ r.op \in {"assign", "driverUpdate", "driverArchive", "driverReactivate"}
       /\ d = r.driver
    \/ r.op = "keyTransfer" /\ d = r.to
    \/ /\ r.op \in {"waveCreate", "waveUpdate", "waveStart"}
       /\ \E p \in r.pairs : d = p[2]

LocksWave(r, w) ==
    /\ r.op \in {"waveUpdate", "waveProgress", "waveStart", "waveComplete"}
    /\ w = r.saw.id

LocksOnRows(r) ==
    ({"wave"} \X {w \in WaveIds : LocksWave(r, w)})
    \cup ({"vehicle"} \X {v \in Vehicles : LocksVehicle(r, v)})
    \cup ({"driver"} \X {d \in Drivers : LocksDriver(r, d)})

(* Mutant: an assignment locks only its vehicle, a key change nothing.     *)
Locks_TooFew(r) ==
    {q \in LocksOnRows(r) : /\ r.op = "assign" => q[1] = "vehicle"
                            /\ r.op \in {"keyCreate", "keyRetire"} => FALSE}
    \cup {m \in {<<"member", r.user>>} : r.op \notin Unchecked}

Locks(r) ==
    LocksOnRows(r) \cup {m \in {<<"member", r.user>>} : r.op \notin Unchecked}

-----------------------------------------------------------------------------
(* The steps every transaction is made of.                                 *)

(* A request arrives at an idle session; its principal is authorised       *)
(* against the membership of that moment.                                  *)
Begin(s, r) ==
    /\ r.op \in Ops
    /\ Permitted(r.user, r.op)
    /\ phase' = [phase EXCEPT ![s] = "locking"]
    /\ req' = [req EXCEPT ![s] = r]
    /\ todo' = [todo EXCEPT ![s] = Locks(r)]
    /\ UNCHANGED <<tables, held>>

(* The next SELECT ... FOR UPDATE; it waits while the row is taken.  The   *)
(* membership comes last, after the reads.                                 *)
LockRow(s) ==
    \E row \in todo[s] :
        /\ phase[s] = IF row[1] = "member" THEN "checked" ELSE "locking"
        /\ \A q \in todo[s] \ {row} : Precedes(row, q)
        /\ Free(s, row)
        /\ ~ (row[1] = "wave" /\ req[s].op = "waveStart")
        /\ held' = [held EXCEPT ![s] = @ \cup {row}]
        /\ todo' = [todo EXCEPT ![s] = @ \ {row}]
        /\ UNCHANGED <<tables, phase, req>>

(* COMMIT or ROLLBACK: the session is idle and its locks are gone.         *)
End(s) ==
    /\ phase' = [phase EXCEPT ![s] = "idle"]
    /\ todo' = [todo EXCEPT ![s] = {}]
    /\ held' = [held EXCEPT ![s] = {}]
    /\ req' = [req EXCEPT ![s] = Nil]

(* A rollback the code does not decide: the connection is lost or the      *)
(* interactive transaction runs into its timeout.                          *)
Abort(s) ==
    /\ phase[s] # "idle"
    /\ End(s)
    /\ UNCHANGED tables
=============================================================================
