------------------------------- MODULE Fleet -------------------------------
(***************************************************************************)
(* The fleet core of Fahrvia: assignments, keys, waves and the registry of *)
(* drivers and vehicles, running concurrently on one database.             *)
(***************************************************************************)
EXTENDS Assignments, Keys, Waves, Registry

FreshVehicle(v) == [status |-> IF v \in SeedVehicles THEN "ACTIVE" ELSE "ABSENT",
                    periods |-> IF v \in SeedVehicles THEN 1 ELSE 0]
FreshDriver(d)  == [status |-> IF d \in SeedDrivers THEN "ACTIVE" ELSE "ABSENT",
                    rev |-> 1]

(* Linked accounts are driver accounts; the other members administrate.    *)
Init ==
    /\ vehicle = [v \in Vehicles |-> FreshVehicle(v)]
    /\ driver = [d \in Drivers |-> FreshDriver(d)]
    /\ member = [u \in Users |->
                   IF \E d \in Drivers : AccountOf[d] = u
                   THEN [role |-> "DRIVER",
                         active |-> \E d \in SeedDrivers : AccountOf[d] = u]
                   ELSE [role |-> "ADMIN", active |-> TRUE]]
    /\ assignment = {} /\ key = {} /\ wave = {}
    /\ phase = [s \in Sessions |-> "idle"]
    /\ req = [s \in Sessions |-> Nil]
    /\ todo = [s \in Sessions |-> {}]
    /\ held = [s \in Sessions |-> {}]

-----------------------------------------------------------------------------
(* What a transaction checks once it holds its locks.                      *)

Admissible(r) ==
    /\ r.op = "assign"            => CanAssign(r)
    /\ r.op = "close"             => CanClose(r)
    /\ r.op = "keyCreate"         => CanCreateKey(r)
    /\ r.op = "keyTransfer"       => CanTransferKey(r)
    /\ r.op \in {"keyRetire", "keyReplace"} => CanRetireKey(r)
    /\ r.op = "waveCreate"        => CanCreateWave(r)
    /\ r.op = "waveUpdate"        => CanUpdateWave(r)
    /\ r.op = "waveProgress"      => CanProgressWave(r)
    /\ r.op = "waveStart"         => CanStartWave(r)
    /\ r.op = "waveComplete"      => CanCompleteWave(r)
    /\ r.op = "driverArchive"     => CanArchiveDriver(r)
    /\ r.op = "driverReactivate"  => CanReactivateDriver(r)
    /\ r.op = "vehicleUpdate"     => CanUpdateVehicle(r)
    /\ r.op = "vehicleArchive"    => CanArchiveVehicle(r)
    /\ r.op = "vehicleReactivate" => CanReactivateVehicle(r)

(* Every row is locked; only the actor's membership may be outstanding.    *)
Ready(s) == phase[s] = "locking" /\ todo[s] \subseteq {"member"} \X Users

Check(s) ==
    /\ Ready(s)
    /\ Admissible(req[s])
    /\ phase' = [phase EXCEPT ![s] = "checked"]
    /\ UNCHANGED <<tables, req, todo, held>>

(* The actor's membership, read again under the lock on it.                *)
Rechecking(s) == phase[s] = "checked" /\ todo[s] = {} /\ req[s].op \notin Unchecked

Authorise(s) ==
    /\ Rechecking(s)
    /\ Permitted(req[s].user, req[s].op)
    /\ phase' = [phase EXCEPT ![s] = "authorised"]
    /\ UNCHANGED <<tables, req, todo, held>>

(* An AppError (403, 409 or 422): the transaction rolls back.              *)
Refuse(s) ==
    /\ \/ Ready(s) /\ ~ Admissible(req[s])
       \/ Rechecking(s) /\ ~ Permitted(req[s].user, req[s].op)
    /\ End(s)
    /\ UNCHANGED tables

(* The writes of the operation and COMMIT.                                 *)
Write(s, r) ==
    \/ r.op = "assign"            /\ Assign(r)
    \/ r.op = "close"             /\ Close(r)
    \/ r.op = "keyCreate"         /\ CreateKey(r)
    \/ r.op = "keyTransfer"       /\ TransferKey(r)
    \/ r.op \in {"keyRetire", "keyReplace"} /\ RetireKey(r)
    \/ r.op = "waveCreate"        /\ CreateWave(r)
    \/ r.op = "waveUpdate"        /\ UpdateWave(r)
    \/ r.op = "waveProgress"      /\ ProgressWave(r)
    \/ r.op = "waveStart"         /\ StartWave(r)
    \/ r.op = "waveComplete"      /\ CompleteWave(r)
    \/ r.op = "driverUpdate"      /\ UpdateDriver(r)
    \/ r.op = "driverArchive"     /\ ArchiveDriver(s, r)
    \/ r.op = "driverReactivate"  /\ ReactivateDriver(r)
    \/ r.op = "vehicleUpdate"     /\ UpdateVehicle(r)
    \/ r.op = "vehicleArchive"    /\ ArchiveVehicle(r)
    \/ r.op = "vehicleReactivate" /\ ReactivateVehicle(r)

Decided(s) ==
    phase[s] = "authorised" \/ (phase[s] = "checked" /\ req[s].op \in Unchecked)

Commit(s) ==
    /\ Decided(s)
    /\ Write(s, req[s])
    /\ End(s)

Arrive(s) ==
    /\ phase[s] = "idle"
    /\ \/ BeginAssign(s) \/ BeginClose(s)
       \/ BeginKeyCreate(s) \/ BeginKeyTransfer(s) \/ BeginKeyRetire(s)
       \/ BeginWaveCreate(s) \/ BeginWaveUpdate(s) \/ BeginWaveProgress(s)
       \/ BeginWaveStart(s) \/ BeginWaveComplete(s)
       \/ BeginDriver(s) \/ BeginVehicle(s)

Lock(s) == LockRow(s) \/ LockWave(s)

Next ==
    \/ \E s \in Sessions : \/ Arrive(s) \/ Lock(s) \/ Check(s)
                           \/ Authorise(s) \/ Refuse(s) \/ Commit(s) \/ Abort(s)
    \/ CreateDriver \/ CreateVehicle \/ ChangeAccount

Spec == Init /\ [][Next]_vars

(* A request that has arrived is served: its statements are executed, and  *)
(* PostgreSQL queues the waiters of a row, so none is passed over forever. *)
Fairness ==
    \A s \in Sessions : /\ WF_vars(Check(s) \/ Authorise(s) \/ Refuse(s))
                        /\ SF_vars(Commit(s))
                        /\ SF_vars(Lock(s))

FairSpec == Spec /\ Fairness

-----------------------------------------------------------------------------
TypeOK ==
    /\ vehicle \in [Vehicles -> VehicleRow]
    /\ driver \in [Drivers -> DriverRow]
    /\ member \in [Users -> MemberRow]
    /\ assignment \subseteq AssignmentRow
    /\ key \subseteq KeyRow
    /\ wave \subseteq WaveRow
    /\ phase \in [Sessions -> {"idle", "locking", "checked", "authorised"}]
    /\ req \in [Sessions -> Request \cup {Nil}]
    /\ todo \in [Sessions -> SUBSET Rows]
    /\ held \in [Sessions -> SUBSET Rows]

(* What a transaction checked still holds when it commits, whatever other  *)
(* transactions committed in between: the reads after the row locks of     *)
(* fleet, keys and waves are never stale, and the re-read membership never *)
(* revoked.                                                                *)
ChecksStillHold ==
    \A s \in Sessions :
        /\ phase[s] \in {"checked", "authorised"} => Admissible(req[s])
        /\ phase[s] = "authorised" => Permitted(req[s].user, req[s].op)

(* A client changes only what it saw: a transaction that passed the version *)
(* check is about a row that is exactly the one its client had loaded.     *)
NoLostUpdate ==
    \A s \in Sessions : phase[s] \in {"checked", "authorised"} =>
        LET r == req[s] IN
        /\ r.op \in {"keyTransfer", "keyRetire", "keyReplace"} => r.saw \in key
        /\ r.op \in {"waveUpdate", "waveProgress", "waveStart", "waveComplete"} =>
              r.saw \in wave
        /\ r.op = "driverReactivate" => r.saw = driver[r.driver]

(* One current vehicle per driver and one driver per vehicle, for which    *)
(* assignVehicle relies on its two row locks.                              *)
OneOpenAssignment ==
    \A a, b \in OpenAssignments :
        a.vehicle = b.vehicle \/ a.driver = b.driver => a = b

(* A driver or vehicle outside the fleet has nothing outstanding: no open  *)
(* assignment, no key in a driver's hands, no wave under way.              *)
ArchivedHoldsNothing ==
    /\ \A d \in Drivers : ~ DriverActive(d) =>
          /\ \A a \in OpenAssignments : a.driver # d
          /\ \A k \in key : k.holder # d
          /\ ~ DriverInActiveWave(d)
    /\ \A v \in Vehicles : ~ VehicleActive(v) =>
          /\ \A a \in OpenAssignments : a.vehicle # v
          /\ \A k \in key : k.vehicle = v => k.holder \notin Drivers
          /\ ~ VehicleInActiveWave(v)

(* No driver and no vehicle is in two waves under way (mutateWave).        *)
OneActiveWave ==
    \A w, x \in ActiveWaves : \A p \in w.pairs, q \in x.pairs :
        p[1] = q[1] \/ p[2] = q[2] => w = x

(* Keys: the usable keys of a vehicle have different slots, no driver      *)
(* holds a retired one, and a key is replaced once, by a key of the same   *)
(* vehicle and slot (mutateKey).                                           *)
KeysConsistent ==
    /\ \A j, k \in key : j.vehicle = k.vehicle /\ j.slot = k.slot
          /\ j.status = "ACTIVE" /\ k.status = "ACTIVE" => j = k
    /\ \A k \in key : k.status = "RETIRED" => k.holder \notin Drivers
    /\ \A j, k \in key : j.replaces = k.id =>
          /\ k.status = "RETIRED" /\ k.vehicle = j.vehicle /\ k.slot = j.slot
          /\ \A i \in key : i.replaces = k.id => i = j

(* A vehicle of the fleet has one open service period, another has none.   *)
ServicePeriodOpen ==
    \A v \in Vehicles : vehicle[v].periods = IF VehicleActive(v) THEN 1 ELSE 0

(* Vehicles and drivers are in at most one pair at work, by assignments    *)
(* and by the waves under way.                                             *)
PairsExclusive == OneOpenAssignment /\ OneActiveWave

(* Who leaves the fleet leaves nothing outstanding and no open period.     *)
LeavesSettled == ArchivedHoldsNothing /\ ServicePeriodOpen

(* An active driver account belongs to an active driver: archiving a       *)
(* driver and changing an account never leave one behind.                  *)
AccountNeedsDriver ==
    \A d \in Drivers : LET u == AccountOf[d] IN
        u # Nil /\ member[u].active /\ member[u].role = "DRIVER" => DriverActive(d)

(* Every transaction takes its locks in one order, so no two wait for each *)
(* other ("the same vehicle-first order" of keys/service.ts).              *)
Waits(s, t) == \E row \in todo[s] :
    /\ \A q \in todo[s] \ {row} : Precedes(row, q)
    /\ row[1] # "member" /\ row \in held[t] /\ t # s
NoDeadlock ==
    \A W \in (SUBSET Sessions) \ {{}} : \E s \in W : \A t \in W : ~ Waits(s, t)

(* What is over stays over: an ended assignment is not reopened, a retired *)
(* key and a completed wave never change and no row disappears.            *)
HistoryFrozen ==
    [][ /\ \A a \in assignment : ~ a.open => a \in assignment'
        /\ \A k \in key : k.status = "RETIRED" => k \in key'
        /\ \A w \in wave : w.status = "COMPLETED" => w \in wave'
        /\ \A a \in assignment : \E b \in assignment' :
              b.id = a.id /\ b.vehicle = a.vehicle /\ b.driver = a.driver
        /\ \A k \in key : \E j \in key' : j.id = k.id /\ j.vehicle = k.vehicle
      ]_tables

(* Each committed transaction is one atomic step of Custody: row locks make *)
(* READ COMMITTED transactions behave as if they ran alone.                *)
Abstract == INSTANCE Custody WITH
    fleet    <- {v \in Vehicles : VehicleActive(v)},
    crew     <- {d \in Drivers : DriverActive(d)},
    assigned <- {<<a.vehicle, a.driver>> : a \in OpenAssignments},
    out      <- {[key |-> k.id, vehicle |-> k.vehicle, driver |-> k.holder] :
                     k \in {x \in key : x.holder \in Drivers}},
    tours    <- {[wave |-> w.id, pairs |-> w.pairs] : w \in ActiveWaves}

ImplementsCustody == Abstract!CustodySpec

(* Every request is answered.                                              *)
Answered == \A s \in Sessions : phase[s] # "idle" ~> phase[s] = "idle"
=============================================================================
