---------------------------- MODULE FleetSafety ----------------------------
(***************************************************************************)
(* The invariant of FleetInvariant holds, and with it the safety           *)
(* properties of Fleet, for every number of sessions, vehicles, drivers,   *)
(* keys and waves.  At the end: no deadlock, and Fleet implements Custody. *)
(***************************************************************************)
EXTENDS FleetLocks, FiniteOrder

Inductive == TypeInv /\ Exclusive /\ Covered /\ Identified /\ Anchored /\ ChecksStillHold

LEMMA InductiveIsIInv == Inductive <=> IInv
  BY DEF Inductive, IInv, TypeInv, LockInv, RowInv

LEMMA InitInductive == Init => Inductive
  <1>1. Init => TypeInv
    BY InitType
  <1>2. Init => Exclusive /\ Covered /\ Anchored /\ ChecksStillHold
    BY DEF Init, Exclusive, Covered, Anchored, ChecksStillHold, UnderWay, Passed
  <1>3. Init => Identified
    BY DEF Init, Identified
  <1>4. QED
    BY <1>1, <1>2, <1>3 DEF Inductive

-----------------------------------------------------------------------------
(* Steps outside a session's transaction.                                  *)

LEMMA NewVehicle ==
    ASSUME TablesOK, CreateVehicle
    PROVE  \E v \in Vehicles :
              /\ vehicle[v].status = "ABSENT" /\ vehicle'[v].status # "ABSENT"
              /\ \A x \in Vehicles : x # v => vehicle'[x] = vehicle[x]
              /\ key \subseteq key'
              /\ \A k \in key' \ key :
                    /\ k.vehicle = v /\ k.holder = "OFFICE" /\ k.status = "ACTIVE"
                    /\ k.replaces = Nil
                    /\ \A j \in key : j.id # k.id
              /\ \A j, k \in key' \ key : j.id = k.id \/ j.slot = k.slot => j = k
              /\ UNCHANGED <<driver, member, assignment, wave, txVars>>
  <1>1. PICK v \in Vehicles, retired \in BOOLEAN, n \in 0..MaxSlot :
          /\ vehicle[v].status = "ABSENT"
          /\ vehicle' = [vehicle EXCEPT ![v] =
                 [status |-> IF retired THEN "INACTIVE" ELSE "ACTIVE",
                  periods |-> IF retired THEN 0 ELSE 1]]
          /\ \E ids \in [1..n -> KeyIds] :
                /\ \A i \in 1..n : NewId(key, KeyIds, ids[i])
                /\ \A i, j \in 1..n : i # j => ids[i] # ids[j]
                /\ key' = key \cup
                     {[id |-> ids[i], vehicle |-> v, slot |-> i, status |-> "ACTIVE",
                       holder |-> "OFFICE", version |-> 1, replaces |-> Nil] : i \in 1..n}
    BY Zenon DEF CreateVehicle
  <1>2. PICK ids \in [1..n -> KeyIds] :
          /\ \A i \in 1..n : NewId(key, KeyIds, ids[i])
          /\ \A i, j \in 1..n : i # j => ids[i] # ids[j]
          /\ key' = key \cup
               {[id |-> ids[i], vehicle |-> v, slot |-> i, status |-> "ACTIVE",
                 holder |-> "OFFICE", version |-> 1, replaces |-> Nil] : i \in 1..n}
    BY <1>1
  <1>3. vehicle'[v].status # "ABSENT" /\ \A x \in Vehicles : x # v => vehicle'[x] = vehicle[x]
    BY <1>1 DEF TablesOK
  <1>4. \A k \in key' \ key : \E i \in 1..n :
          /\ k.id = ids[i] /\ k.slot = i /\ k.vehicle = v /\ k.holder = "OFFICE"
          /\ k.status = "ACTIVE" /\ k.replaces = Nil
          /\ k = [id |-> ids[i], vehicle |-> v, slot |-> i, status |-> "ACTIVE",
                  holder |-> "OFFICE", version |-> 1, replaces |-> Nil]
    BY <1>2
  <1>5. \A k \in key' \ key : \A j \in key : j.id # k.id
    BY <1>2, <1>4 DEF NewId
  <1>6. \A j, k \in key' \ key : j.id = k.id \/ j.slot = k.slot => j = k
    <2>1. SUFFICES ASSUME NEW j \in key' \ key, NEW k \in key' \ key,
                          j.id = k.id \/ j.slot = k.slot
                   PROVE  j = k
      OBVIOUS
    <2>2. PICK a \in 1..n : /\ j.id = ids[a] /\ j.slot = a
                           /\ j = [id |-> ids[a], vehicle |-> v, slot |-> a,
                                   status |-> "ACTIVE", holder |-> "OFFICE",
                                   version |-> 1, replaces |-> Nil]
      BY <1>4
    <2>3. PICK b \in 1..n : /\ k.id = ids[b] /\ k.slot = b
                           /\ k = [id |-> ids[b], vehicle |-> v, slot |-> b,
                                   status |-> "ACTIVE", holder |-> "OFFICE",
                                   version |-> 1, replaces |-> Nil]
      BY <1>4
    <2>4. a = b
      BY <1>2, <2>1, <2>2, <2>3
    <2>5. QED
      BY <2>2, <2>3, <2>4
  <1>7. key \subseteq key'
    BY <1>2
  <1>8. UNCHANGED <<driver, member, assignment, wave, txVars>>
    BY DEF CreateVehicle
  <1>9. QED
    BY <1>1, <1>3, <1>4, <1>5, <1>6, <1>7, <1>8

LEMMA NewDriver ==
    ASSUME TablesOK, CreateDriver
    PROVE  \E d \in Drivers :
              /\ driver[d].status = "ABSENT" /\ driver'[d].status = "ACTIVE"
              /\ \A x \in Drivers : x # d => driver'[x] = driver[x]
              /\ UNCHANGED <<vehicle, member, assignment, key, wave, txVars>>
  BY DEF CreateDriver, TablesOK

-----------------------------------------------------------------------------
(* Identified and Anchored.                                                *)

LEMMA ArriveAnchored ==
    ASSUME TypeInv, Identified, NEW s \in Sessions, Arrive(s)
    PROVE  \E r : Begin(s, r) /\ AnchoredRequest(r)
  <1>1. CASE BeginAssign(s) \/ BeginKeyCreate(s) \/ BeginWaveCreate(s) \/ BeginDriver(s)
    <2> DEFINE Plain == {"assign", "keyCreate", "waveCreate", "driverUpdate",
                         "driverArchive", "driverReactivate"}
    <2>1. \A r : r.op \in Plain => AnchoredRequest(r)
      BY DEF AnchoredRequest
    <2>2. CASE BeginAssign(s)
      BY <2>1, <2>2 DEF BeginAssign
    <2>3. CASE BeginKeyCreate(s)
      BY <2>1, <2>3 DEF BeginKeyCreate
    <2>4. CASE BeginWaveCreate(s)
      BY <2>1, <2>4 DEF BeginWaveCreate
    <2>5. CASE BeginDriver(s)
      BY <2>1, <2>5 DEF BeginDriver
    <2>6. QED
      BY <1>1, <2>2, <2>3, <2>4, <2>5
  <1>2. CASE BeginClose(s)
    BY <1>2 DEF BeginClose, AnchoredRequest
  <1>3. CASE BeginKeyTransfer(s) \/ BeginKeyRetire(s)
    <2>1. \A r, k : k \in key /\ r.op \in {"keyTransfer", "keyRetire", "keyReplace"}
                       /\ r.saw = k => AnchoredRequest(r)
      BY DEF AnchoredRequest
    <2>2. CASE BeginKeyTransfer(s)
      BY <2>1, <2>2 DEF BeginKeyTransfer
    <2>3. CASE BeginKeyRetire(s)
      <3>1. PICK u \in Users, k \in key, op \in {"keyRetire", "keyReplace"} :
              Begin(s, [op |-> op, user |-> u, saw |-> k])
        BY <2>3 DEF BeginKeyRetire
      <3>2. QED
        BY <2>1, <3>1
    <2>4. QED
      BY <1>3, <2>2, <2>3
  <1>4. CASE BeginWaveUpdate(s) \/ BeginWaveProgress(s) \/ BeginWaveStart(s) \/ BeginWaveComplete(s)
    <2>1. \A r, w : /\ w \in wave /\ r.saw = w
                    /\ r.op \in {"waveUpdate", "waveProgress", "waveStart", "waveComplete"}
                    => AnchoredRequest(r)
      BY DEF AnchoredRequest
    <2>2. CASE BeginWaveUpdate(s)
      BY <2>1, <2>2 DEF BeginWaveUpdate
    <2>3. CASE BeginWaveProgress(s)
      BY <2>1, <2>3 DEF BeginWaveProgress
    <2>4. CASE BeginWaveStart(s)
      BY <2>1, <2>4 DEF BeginWaveStart
    <2>5. CASE BeginWaveComplete(s)
      BY <2>1, <2>5 DEF BeginWaveComplete
    <2>6. QED
      BY <1>4, <2>2, <2>3, <2>4, <2>5
  <1>5. CASE BeginVehicle(s)
    <2>1. \A r : r.op \in {"vehicleArchive", "vehicleReactivate"} => AnchoredRequest(r)
      BY DEF AnchoredRequest
    <2>2. \A r : r.op = "vehicleUpdate" /\ vehicle[r.vehicle].status # "ABSENT"
                   => AnchoredRequest(r)
      BY DEF AnchoredRequest
    <2>3. PICK u \in Users, v \in Vehicles :
            /\ vehicle[v].status # "ABSENT"
            /\ \/ \E op \in {"vehicleArchive", "vehicleReactivate"} :
                     Begin(s, [op |-> op, user |-> u, vehicle |-> v])
               \/ \E n \in 0..MaxSlot :
                     Begin(s, [op |-> "vehicleUpdate", user |-> u, vehicle |-> v,
                               keyCount |-> n])
      BY <1>5 DEF BeginVehicle
    <2>4. CASE \E op \in {"vehicleArchive", "vehicleReactivate"} :
                 Begin(s, [op |-> op, user |-> u, vehicle |-> v])
      BY <2>1, <2>4
    <2>5. CASE \E n \in 0..MaxSlot :
                 Begin(s, [op |-> "vehicleUpdate", user |-> u, vehicle |-> v, keyCount |-> n])
      BY <2>2, <2>3, <2>5
    <2>6. QED
      BY <2>3, <2>4, <2>5
  <1>6. QED
    BY <1>1, <1>2, <1>3, <1>4, <1>5 DEF Arrive

LEMMA CommitAnchored ==
    ASSUME Inductive, NEW s \in Sessions, Commit(s)
    PROVE  Identified' /\ Anchored'
  <1>1. req[s] \in Request /\ Passed(s) /\ UnderWay(s)
    BY DEF Commit, Decided, Inductive, TypeInv, Busy, UnderWay, Passed
  <1>2. TablesOK
    BY DEF Inductive, TypeInv, TypeOK, TablesOK
  <1>3. Admissible(req[s]) /\ LocksOnRows(req[s]) \subseteq held[s] /\ AnchoredRequest(req[s])
    BY <1>1 DEF Inductive, ChecksStillHold, Covered, Anchored, Passed
  <1>4. StartPairs(req[s])
    <2>1. SUFFICES ASSUME req[s].op = "waveStart" PROVE StartPairs(req[s])
      BY DEF StartPairs
    <2>2. req[s].saw.id \in WaveIds
      BY <1>1, <2>1, RequestShape DEF WaveRequest, WaveRow
    <2>3. <<"wave", req[s].saw.id>> \in held[s]
      BY <1>1, <1>3, <2>1, <2>2, LocksWaveRow DEF LocksWave
    <2>4. QED
      BY <1>1, <2>1, <2>3 DEF Inductive, Anchored
  <1>5. Frame(held[s])
    BY <1>1, <1>2, <1>3, <1>4, Framed DEF Commit, Inductive
  <1>6. Identified' /\ RowsKept
    BY <1>1, <1>2, <1>3, Kept DEF Commit, Inductive
  <1>7. Anchored'
    <2>1. SUFFICES ASSUME NEW t \in Sessions, UnderWay(t)'
                   PROVE  /\ AnchoredRequest(req[t])'
                          /\ req'[t].op = "waveStart"
                               /\ <<"wave", req'[t].saw.id>> \in held'[t]
                             => StartPairs(req[t])'
      BY DEF Anchored
    <2>2. t # s /\ req'[t] = req[t] /\ held'[t] = held[t] /\ UnderWay(t)
      BY <2>1 DEF Commit, End, UnderWay, Inductive, TypeInv, TypeOK
    <2>3. AnchoredRequest(req[t]) /\ req[t] \in Request
      BY <2>2 DEF Inductive, Anchored, TypeInv, Busy
    <2>4. req[t].op = "vehicleUpdate" => req[t].vehicle \in Vehicles
      BY <2>3, RequestShape DEF RegistryRequest
    <2>5. AnchoredRequest(req[t])'
      BY <1>6, <2>2, <2>3, <2>4 DEF RowsKept, AnchoredRequest
    <2>6. ASSUME req[t].op = "waveStart", <<"wave", req[t].saw.id>> \in held[t]
          PROVE  StartPairs(req[t])'
      <3>1. <<"wave", req[t].saw.id>> \notin held[s]
        BY <2>2, <2>6 DEF Inductive, Exclusive
      <3>2. StartPairs(req[t])
        BY <2>2, <2>6 DEF Inductive, Anchored
      <3>3. PICK x \in wave : x.id = req[t].saw.id
        BY <2>3, <2>6 DEF AnchoredRequest
      <3>4. \A w \in wave' : w.id = req[t].saw.id => w \in wave
        BY <1>5, <3>1, <3>3 DEF Frame
      <3>5. QED
        BY <2>2, <3>2, <3>4 DEF StartPairs
    <2>7. QED
      BY <2>2, <2>5, <2>6
  <1>8. QED
    BY <1>6, <1>7

LEMMA RowStep ==
    ASSUME Inductive, [Next]_vars
    PROVE  Identified' /\ Anchored'
  <1> USE DEF Inductive
  <1>1. CASE \E s \in Sessions : Arrive(s)
    <2>1. PICK s \in Sessions : Arrive(s)
      BY <1>1
    <2>2. PICK r : Begin(s, r) /\ AnchoredRequest(r)
      BY <2>1, ArriveAnchored
    <2>3. held[s] = {}
      BY <2>1 DEF Arrive, Covered, UnderWay
    <2>4. UNCHANGED <<tables, held>> /\ req' = [req EXCEPT ![s] = r]
      BY <2>2 DEF Begin
    <2>5. \A t \in Sessions : t # s => UnderWay(t)' = UnderWay(t) /\ req'[t] = req[t]
      BY <2>2 DEF Begin, UnderWay, TypeInv, TypeOK
    <2>6. req'[s] = r
      BY <2>4 DEF TypeInv, TypeOK
    <2>9. Identified'
      BY <2>4 DEF Identified, tables
    <2>10. Anchored'
      <3>1. SUFFICES ASSUME NEW t \in Sessions, UnderWay(t)'
                     PROVE  /\ AnchoredRequest(req[t])'
                            /\ req'[t].op = "waveStart"
                                 /\ <<"wave", req'[t].saw.id>> \in held'[t]
                               => StartPairs(req[t])'
        BY DEF Anchored
      <3>2. CASE t = s
        BY <2>2, <2>3, <2>4, <2>6, <3>2 DEF AnchoredRequest, tables
      <3>3. CASE t # s
        <4>1. UnderWay(t) /\ req'[t] = req[t] /\ held'[t] = held[t]
          BY <2>4, <2>5, <3>1, <3>3
        <4>2. /\ AnchoredRequest(req[t])
              /\ req[t].op = "waveStart" /\ <<"wave", req[t].saw.id>> \in held[t]
                   => StartPairs(req[t])
          BY <4>1 DEF Anchored
        <4>3. QED
          BY <2>4, <4>1, <4>2 DEF AnchoredRequest, StartPairs, tables
      <3>4. QED
        BY <3>2, <3>3
    <2>11. QED
      BY <2>9, <2>10
  <1>2. CASE \E s \in Sessions : LockRow(s) \/ LockWave(s)
    <2>1. PICK s \in Sessions : LockRow(s) \/ LockWave(s)
      BY <1>2
    <2>2. UNCHANGED <<tables, phase>>
      BY <2>1 DEF LockRow, LockWave
    <2>3. Identified'
      BY <2>2 DEF Identified, tables
    <2>5. CASE LockRow(s)
      <3>1. PICK row \in todo[s] : /\ ~ (row[1] = "wave" /\ req[s].op = "waveStart")
                                   /\ held' = [held EXCEPT ![s] = @ \cup {row}]
                                   /\ UNCHANGED req
        BY <2>5 DEF LockRow
      <3>2. \A t \in Sessions : req[t].op = "waveStart" /\ <<"wave", req[t].saw.id>> \in held'[t]
              => <<"wave", req[t].saw.id>> \in held[t]
        BY <3>1 DEF TypeInv, TypeOK
      <3>3. QED
        BY <2>2, <2>3, <3>1, <3>2
        DEF Anchored, UnderWay, AnchoredRequest, StartPairs, tables
    <2>6. CASE LockWave(s)
      <3>1. PICK w \in wave : /\ w.id = req[s].saw.id
                              /\ req' = [req EXCEPT ![s] = [req[s] EXCEPT !.pairs = w.pairs]]
        BY <2>6 DEF LockWave
      <3>2. phase[s] = "locking" /\ req[s].op = "waveStart" /\ req[s] \in Request
        BY <2>6 DEF LockWave, TypeInv, Busy, UnderWay
      <3> DEFINE r == [req[s] EXCEPT !.pairs = w.pairs]
      <3>3. r.op = "waveStart" /\ r.saw = req[s].saw /\ r.pairs = w.pairs /\ req'[s] = r
        BY <3>1, <3>2, RequestShape DEF WaveRequest, TypeInv, TypeOK
      <3> HIDE DEF r
      <3>4. AnchoredRequest(r) /\ StartPairs(r)
        BY <3>1, <3>3 DEF AnchoredRequest, StartPairs, Identified
      <3>5. \A t \in Sessions \ {s} : req'[t] = req[t] /\ held'[t] = held[t]
        BY <2>6, <3>1 DEF LockWave, TypeInv, TypeOK
      <3>6. QED
        BY <2>2, <2>3, <3>3, <3>4, <3>5
        DEF Anchored, UnderWay, AnchoredRequest, StartPairs, tables
    <2>7. QED
      BY <2>1, <2>5, <2>6
  <1>3. CASE \E s \in Sessions : Check(s) \/ Authorise(s)
    <2>1. PICK s \in Sessions : Check(s) \/ Authorise(s)
      BY <1>3
    <2>2. UNCHANGED <<tables, req, held>> /\ \A t \in Sessions : UnderWay(t)' = UnderWay(t)
      BY <2>1 DEF Check, Ready, Authorise, Rechecking, UnderWay, TypeInv, TypeOK
    <2>3. QED
      BY <2>2 DEF Identified, Anchored, AnchoredRequest, StartPairs, tables
  <1>4. CASE \E s \in Sessions : Refuse(s) \/ Abort(s)
    <2>1. PICK s \in Sessions : Refuse(s) \/ Abort(s)
      BY <1>4
    <2>2. UNCHANGED tables
      BY <2>1 DEF Refuse, Abort
    <2>3. \A t \in Sessions : UnderWay(t)' => UnderWay(t) /\ req'[t] = req[t] /\ held'[t] = held[t]
      BY <2>1 DEF Refuse, Abort, End, UnderWay, TypeInv, TypeOK
    <2>4. QED
      BY <2>2, <2>3 DEF Identified, Anchored, AnchoredRequest, StartPairs, tables
  <1>5. CASE \E s \in Sessions : Commit(s)
    BY <1>5, CommitAnchored
  <1>6. CASE CreateVehicle
    <2>1. TablesOK
      BY DEF TypeInv, TypeOK, TablesOK
    <2>2. PICK v \in Vehicles :
              /\ vehicle[v].status = "ABSENT" /\ vehicle'[v].status # "ABSENT"
              /\ \A x \in Vehicles : x # v => vehicle'[x] = vehicle[x]
              /\ key \subseteq key'
              /\ \A k \in key' \ key : k.vehicle = v /\ \A j \in key : j.id # k.id
              /\ \A j, k \in key' \ key : j.id = k.id => j = k
              /\ UNCHANGED <<assignment, wave, txVars>>
      BY <1>6, <2>1, NewVehicle
    <2>3. \A k \in key : k.vehicle \in Vehicles
      BY <2>1 DEF TablesOK, KeyRow
    <2>4. \A x \in Vehicles : vehicle[x].status # "ABSENT" => vehicle'[x].status # "ABSENT"
      BY <2>2
    <2>5. Identified'
      <3>1. \A k \in key' : vehicle'[k.vehicle].status # "ABSENT"
        BY <2>2, <2>3, <2>4 DEF Identified
      <3>2. (\A j, k \in key : j.id = k.id => j = k)'
        BY <2>2 DEF Identified
      <3>3. QED
        BY <2>2, <3>1, <3>2 DEF Identified
    <2>6. \A t \in Sessions : UnderWay(t) /\ req[t].op = "vehicleUpdate" => req[t].vehicle \in Vehicles
      BY RequestShape DEF RegistryRequest, TypeInv, Busy
    <2>7. Anchored'
      BY <2>2, <2>4, <2>6 DEF Anchored, AnchoredRequest, StartPairs, UnderWay, txVars
    <2>8. QED
      BY <2>5, <2>7
  <1>7. CASE CreateDriver \/ ChangeAccount
    BY <1>7
    DEF CreateDriver, ChangeAccount, txVars, Identified, Anchored, AnchoredRequest, StartPairs,
        UnderWay
  <1>8. CASE UNCHANGED vars
    BY <1>8 DEF vars, Identified, Anchored, AnchoredRequest, StartPairs, UnderWay
  <1>9. QED
    BY <1>1, <1>2, <1>3, <1>4, <1>5, <1>6, <1>7, <1>8 DEF Next, Lock

-----------------------------------------------------------------------------
(* ChecksStillHold.                                                        *)

(* A registration does not change the outcome of a check.                  *)
LEMMA RegistrationHarmless ==
    ASSUME TablesOK, NEW r \in Request, AnchoredRequest(r), Admissible(r),
           CreateDriver \/ CreateVehicle
    PROVE  Admissible(r)'
  <1>1. CASE CreateDriver
    <2>1. PICK d \in Drivers :
              /\ driver[d].status = "ABSENT" /\ driver'[d].status = "ACTIVE"
              /\ \A x \in Drivers : x # d => driver'[x] = driver[x]
              /\ UNCHANGED <<vehicle, member, assignment, key, wave, txVars>>
      BY <1>1, NewDriver
    <2>2. \A x \in Drivers : DriverActive(x) => DriverActive(x)'
      BY <2>1 DEF DriverActive
    <2>3. CASE r.op = "assign"
      <3>1. r.driver \in Drivers
        BY <2>3, RequestShape DEF AssignRequest
      <3>2. QED
        BY <2>1, <2>2, <2>3, <3>1 DEF Admissible, CanAssign, VehicleActive, OpenAssignments
    <2>4. CASE r.op \in {"close", "keyCreate", "keyRetire", "keyReplace", "waveProgress",
                         "waveComplete", "driverUpdate", "driverArchive", "vehicleUpdate",
                         "vehicleArchive", "vehicleReactivate"}
      BY <2>1, <2>4
      DEF Admissible, CanClose, CanCreateKey, CanRetireKey, CanProgressWave, CanCompleteWave,
          CanArchiveDriver, CanUpdateVehicle, CanArchiveVehicle, CanReactivateVehicle,
          VehicleActive, OpenAssignments, SlotsTaken, Current, InStatus, ActiveWaves,
          DriverInActiveWave, VehicleInActiveWave
    <2>5. CASE r.op = "keyTransfer"
      BY <2>1, <2>2, <2>5 DEF Admissible, CanTransferKey, VehicleActive, Current
    <2>6. CASE r.op \in {"waveCreate", "waveUpdate", "waveStart"}
      <3>1. \A p \in r.pairs : p[2] \in Drivers
        BY <2>6, RequestShape DEF WaveRequest, Pairs
      <3>2. AllActive(r.pairs) => AllActive(r.pairs)'
        BY <2>1, <2>2, <3>1 DEF AllActive, VehicleActive
      <3>3. QED
        BY <2>1, <2>6, <3>2
        DEF Admissible, CanCreateWave, CanUpdateWave, CanStartWave, InStatus, ActiveWaves,
            DriverInActiveWave, VehicleInActiveWave
    <2>7. CASE r.op = "driverReactivate"
      <3>1. r.driver \in Drivers
        BY <2>7, RequestShape DEF RegistryRequest
      <3>2. QED
        BY <2>1, <2>7, <3>1 DEF Admissible, CanReactivateDriver
    <2>8. QED
      BY <2>3, <2>4, <2>5, <2>6, <2>7, RequestShape DEF AllOps
  <1>2. CASE CreateVehicle
    <2>1. PICK v \in Vehicles :
              /\ vehicle[v].status = "ABSENT"
              /\ \A x \in Vehicles : x # v => vehicle'[x] = vehicle[x]
              /\ key \subseteq key'
              /\ \A k \in key' \ key : k.vehicle = v /\ k.holder = "OFFICE"
              /\ UNCHANGED <<driver, member, assignment, wave, txVars>>
      BY <1>2, NewVehicle
    <2>2. /\ \A x \in Vehicles : VehicleActive(x) => VehicleActive(x)'
          /\ ~ VehicleActive(v)
      BY <2>1 DEF VehicleActive
    <2>3. \A x : x # v => \A k : k \in key' /\ k.vehicle = x <=> k \in key /\ k.vehicle = x
      BY <2>1
    <2>4. CASE r.op \in {"assign", "close"}
      <3>1. r.vehicle \in Vehicles
        BY <2>4, RequestShape DEF AssignRequest, CloseRequest
      <3>2. QED
        BY <2>1, <2>2, <2>4, <3>1
        DEF Admissible, CanAssign, CanClose, DriverActive, OpenAssignments
    <2>5. CASE r.op = "keyCreate"
      <3>1. r.vehicle \in Vehicles /\ VehicleActive(r.vehicle)
        BY <2>5, RequestShape DEF KeyRequest, Admissible, CanCreateKey
      <3>2. SlotsTaken(r.vehicle)' = SlotsTaken(r.vehicle)
        BY <2>2, <2>3, <3>1 DEF SlotsTaken
      <3>3. QED
        BY <2>2, <2>5, <3>1, <3>2 DEF Admissible, CanCreateKey
    <2>6. CASE r.op \in {"keyTransfer", "keyRetire", "keyReplace"}
      <3>1. r.saw.vehicle \in Vehicles
        BY <2>6, RequestShape DEF KeyRequest, KeyRow
      <3>2. QED
        BY <2>1, <2>2, <2>6, <3>1
        DEF Admissible, CanTransferKey, CanRetireKey, DriverActive, Current
    <2>7. CASE r.op \in {"waveCreate", "waveUpdate", "waveStart"}
      <3>1. \A p \in r.pairs : p[1] \in Vehicles
        BY <2>7, RequestShape DEF WaveRequest, Pairs
      <3>2. AllActive(r.pairs) => AllActive(r.pairs)'
        BY <2>1, <2>2, <3>1 DEF AllActive, DriverActive
      <3>3. QED
        BY <2>1, <2>7, <3>2
        DEF Admissible, CanCreateWave, CanUpdateWave, CanStartWave, InStatus, ActiveWaves,
            DriverInActiveWave, VehicleInActiveWave
    <2>8. CASE r.op \in {"waveProgress", "waveComplete", "driverUpdate", "driverReactivate"}
      BY <2>1, <2>8
      DEF Admissible, CanProgressWave, CanCompleteWave, CanReactivateDriver, InStatus
    <2>9. CASE r.op = "driverArchive"
      <3>1. r.driver # "OFFICE"
        BY <2>9, RequestShape, FleetAssumption DEF RegistryRequest
      <3>2. QED
        BY <2>1, <2>9, <3>1
        DEF Admissible, CanArchiveDriver, OpenAssignments, ActiveWaves, DriverInActiveWave
    <2>10. CASE r.op = "vehicleUpdate"
      <3>1. r.vehicle # v
        BY <2>1, <2>10 DEF AnchoredRequest
      <3>2. {k \in key : k.vehicle = r.vehicle /\ k.status = "ACTIVE"}' =
              {k \in key : k.vehicle = r.vehicle /\ k.status = "ACTIVE"}
        BY <2>3, <3>1
      <3>3. QED
        BY <2>10, <3>2 DEF Admissible, CanUpdateVehicle
    <2>11. CASE r.op \in {"vehicleArchive", "vehicleReactivate"}
      <3>1. r.vehicle \in Vehicles /\ r.vehicle # v
        BY <2>1, <2>2, <2>11, RequestShape
        DEF RegistryRequest, Admissible, CanArchiveVehicle, CanReactivateVehicle
      <3>2. vehicle'[r.vehicle] = vehicle[r.vehicle]
        BY <2>1, <3>1
      <3>3. QED
        BY <2>1, <2>3, <2>11, <3>1, <3>2
        DEF Admissible, CanArchiveVehicle, CanReactivateVehicle, VehicleActive, OpenAssignments,
            ActiveWaves, VehicleInActiveWave
    <2>12. QED
      BY <2>4, <2>5, <2>6, <2>7, <2>8, <2>9, <2>10, <2>11, RequestShape DEF AllOps
  <1>3. QED
    BY <1>1, <1>2

(* A commit of s leaves every check of another session true.               *)
LEMMA CommitHarmless ==
    ASSUME Inductive, NEW s \in Sessions, Commit(s), NEW t \in Sessions, t # s, Passed(t)
    PROVE  /\ Admissible(req[t])'
           /\ phase[t] = "authorised" => Permitted(req[t].user, req[t].op)'
  <1>1. /\ req[s] \in Request /\ req[t] \in Request
        /\ Passed(s) /\ UnderWay(s) /\ UnderWay(t)
    BY DEF Commit, Decided, Inductive, TypeInv, Busy, UnderWay, Passed
  <1>2. TablesOK
    BY DEF Inductive, TypeInv, TypeOK, TablesOK
  <1>3. /\ Admissible(req[s]) /\ LocksOnRows(req[s]) \subseteq held[s] /\ AnchoredRequest(req[s])
        /\ Admissible(req[t]) /\ LocksOnRows(req[t]) \subseteq held[t] /\ AnchoredRequest(req[t])
    BY <1>1 DEF Inductive, ChecksStillHold, Covered, Anchored, Passed
  <1>4. Frame(held[s])
    <2>1. StartPairs(req[s])
      <3>1. SUFFICES ASSUME req[s].op = "waveStart" PROVE StartPairs(req[s])
        BY DEF StartPairs
      <3>2. req[s].saw.id \in WaveIds
        BY <1>1, <3>1, RequestShape DEF WaveRequest, WaveRow
      <3>3. <<"wave", req[s].saw.id>> \in held[s]
        BY <1>1, <1>3, <3>1, <3>2, LocksWaveRow DEF LocksWave
      <3>4. QED
        BY <1>1, <3>1, <3>3 DEF Inductive, Anchored
    <2>2. QED
      BY <1>1, <1>2, <1>3, <2>1, Framed DEF Commit, Inductive
  <1>5. LocksOnRows(req[t]) \cap held[s] = {}
    BY <1>1, <1>3, LocksSplit DEF Inductive, Exclusive
  <1>6. req'[t] = req[t]
    BY DEF Commit, End, Inductive, TypeInv, TypeOK
  <1>7. \A r \in Request : r = req[t] => Admissible(r)'
    <2>1. SUFFICES ASSUME NEW r \in Request, r = req[t] PROVE Admissible(r)'
      OBVIOUS
    <2>2. LocksOnRows(r) \cap held[s] = {} /\ AnchoredRequest(r) /\ Admissible(r)
      BY <1>3, <1>5, <2>1
    <2>3. Identified
      BY DEF Inductive
    <2>4. QED
      BY <1>2, <1>4, <2>2, <2>3, Stable
  <1>8. Admissible(req[t])'
    <2>1. req[t] \in Request
      BY <1>1
    <2>2. QED
      BY <1>6, <1>7, <2>1
      DEF Admissible, CanAssign, CanClose, CanCreateKey, CanTransferKey, CanRetireKey,
          CanCreateWave, CanUpdateWave, CanProgressWave, CanStartWave, CanCompleteWave,
          CanArchiveDriver, CanReactivateDriver, CanUpdateVehicle, CanArchiveVehicle,
          CanReactivateVehicle, InStatus, Current, VehicleActive, DriverActive, AllActive,
          VehicleInActiveWave, DriverInActiveWave, SlotsTaken
  <1>9. ASSUME phase[t] = "authorised" PROVE Permitted(req[t].user, req[t].op)'
    <2>1. /\ Permitted(req[t].user, req[t].op) /\ <<"member", req[t].user>> \in held[t]
          /\ req[t].user \in Users
      BY <1>1, <1>9, RequestShape DEF Inductive, ChecksStillHold, Covered
    <2>2. member'[req[t].user] = member[req[t].user]
      <3>1. CASE UNCHANGED member
        BY <3>1
      <3>2. CASE ArchiveDriver(s, req[s])
        BY <1>2, <2>1, <3>2 DEF ArchiveDriver, TablesOK
      <3>3. QED
        BY <3>1, <3>2
        DEF Commit, Write, Assign, Close, CreateKey, TransferKey, RetireKey, CreateWave,
            UpdateWave, ProgressWave, StartWave, CompleteWave, Put, UpdateDriver,
            ReactivateDriver, UpdateVehicle, ArchiveVehicle, ReactivateVehicle, tables
    <2>3. QED
      BY <1>6, <2>1, <2>2 DEF Permitted
  <1>10. QED
    BY <1>8, <1>9

LEMMA ChecksStep ==
    ASSUME Inductive, [Next]_vars
    PROVE  ChecksStillHold'
  <1> USE DEF Inductive
  <1>0. TablesOK
    BY DEF TypeInv, TypeOK, TablesOK
  <1>1. ASSUME UNCHANGED tables,
               \A t \in Sessions : Passed(t)' =>
                   /\ UNCHANGED req[t]
                   /\ Passed(t) \/ Admissible(req[t])
                   /\ phase'[t] = "authorised" =>
                         phase[t] = "authorised" \/ Permitted(req[t].user, req[t].op)
        PROVE  ChecksStillHold'
    <2>1. SUFFICES ASSUME NEW t \in Sessions, Passed(t)'
                   PROVE  /\ Admissible(req[t])'
                          /\ phase'[t] = "authorised" => Permitted(req[t].user, req[t].op)'
      BY DEF ChecksStillHold, Passed
    <2>2. /\ Admissible(req[t])
          /\ phase'[t] = "authorised" => Permitted(req[t].user, req[t].op)
      BY <1>1, <2>1 DEF ChecksStillHold, Passed
    <2>3. UNCHANGED <<vehicle, driver, member, assignment, key, wave>> /\ req'[t] = req[t]
      BY <1>1, <2>1 DEF tables
    <2>4. QED
      BY <2>2, <2>3
      DEF Admissible, CanAssign, CanClose, CanCreateKey, CanTransferKey, CanRetireKey,
          CanCreateWave, CanUpdateWave, CanProgressWave, CanStartWave, CanCompleteWave,
          CanArchiveDriver, CanReactivateDriver, CanUpdateVehicle, CanArchiveVehicle,
          CanReactivateVehicle, InStatus, Current, VehicleActive, DriverActive, OpenAssignments,
          ActiveWaves, VehicleInActiveWave, DriverInActiveWave, AllActive, SlotsTaken, Permitted
  <1>2. CASE \E s \in Sessions : Arrive(s)
    <2>1. PICK s \in Sessions : \E r : Begin(s, r)
      BY <1>2, ArriveAnchored
    <2>2. QED
      BY <1>1, <2>1 DEF Begin, Passed, TypeInv, TypeOK
  <1>3. CASE \E s \in Sessions : LockRow(s) \/ LockWave(s)
    <2>1. PICK s \in Sessions : LockRow(s) \/ LockWave(s)
      BY <1>3
    <2>2. UNCHANGED <<tables, phase>> /\ \A t \in Sessions : Passed(t) => req'[t] = req[t]
      BY <2>1 DEF LockRow, LockWave, Passed, TypeInv, TypeOK
    <2>3. QED
      BY <1>1, <2>2 DEF Passed
  <1>4. CASE \E s \in Sessions : Check(s) \/ Authorise(s)
    <2>1. PICK s \in Sessions : Check(s) \/ Authorise(s)
      BY <1>4
    <2>2. CASE Check(s)
      BY <1>1, <2>2 DEF Check, Passed, TypeInv, TypeOK
    <2>3. CASE Authorise(s)
      BY <1>1, <2>3 DEF Authorise, Rechecking, Passed, TypeInv, TypeOK
    <2>4. QED
      BY <2>1, <2>2, <2>3
  <1>5. CASE \E s \in Sessions : Refuse(s) \/ Abort(s)
    <2>1. PICK s \in Sessions : End(s) /\ UNCHANGED tables
      BY <1>5 DEF Refuse, Abort
    <2>2. QED
      BY <1>1, <2>1 DEF End, Passed, TypeInv, TypeOK
  <1>6. CASE \E s \in Sessions : Commit(s)
    <2>1. PICK s \in Sessions : Commit(s)
      BY <1>6
    <2>2. \A t \in Sessions : Passed(t)' => t # s /\ Passed(t) /\ phase'[t] = phase[t]
      BY <2>1 DEF Commit, End, Passed, TypeInv, TypeOK
    <2>3. QED
      BY <2>1, <2>2, CommitHarmless DEF ChecksStillHold, Passed
  <1>7. CASE CreateDriver \/ CreateVehicle
    <2>1. UNCHANGED <<member, txVars>>
      BY <1>7 DEF CreateDriver, CreateVehicle
    <2>2. SUFFICES ASSUME NEW t \in Sessions, Passed(t)
                   PROVE  Admissible(req[t])'
      BY <2>1 DEF ChecksStillHold, Passed, Permitted, txVars
    <2>3. req[t] \in Request /\ AnchoredRequest(req[t]) /\ Admissible(req[t]) /\ req'[t] = req[t]
      BY <2>1, <2>2 DEF ChecksStillHold, Passed, Anchored, UnderWay, TypeInv, Busy, txVars
    <2>4. \A r \in Request : r = req[t] => Admissible(r)'
      BY <1>0, <1>7, <2>3, RegistrationHarmless
    <2>5. QED
      BY <2>3, <2>4
      DEF Admissible, CanAssign, CanClose, CanCreateKey, CanTransferKey, CanRetireKey,
          CanCreateWave, CanUpdateWave, CanProgressWave, CanStartWave, CanCompleteWave,
          CanArchiveDriver, CanReactivateDriver, CanUpdateVehicle, CanArchiveVehicle,
          CanReactivateVehicle, InStatus, Current
  <1>8. CASE ChangeAccount
    <2>1. PICK u \in Users : /\ \A s \in Sessions : <<"member", u>> \notin held[s]
                            /\ \E row : member' = [member EXCEPT ![u] = row]
                            /\ UNCHANGED <<vehicle, driver, assignment, key, wave, txVars>>
      BY <1>8 DEF ChangeAccount
    <2>2. SUFFICES ASSUME NEW t \in Sessions, Passed(t)
                   PROVE  /\ Admissible(req[t])'
                          /\ phase[t] = "authorised" => Permitted(req[t].user, req[t].op)'
      BY <2>1 DEF ChecksStillHold, Passed, txVars
    <2>3. req[t] \in Request /\ req'[t] = req[t]
      BY <2>1, <2>2 DEF Passed, UnderWay, TypeInv, Busy, txVars
    <2>4. /\ Admissible(req[t])
          /\ phase[t] = "authorised" => Permitted(req[t].user, req[t].op) /\ req[t].user # u
      BY <2>1, <2>2 DEF ChecksStillHold, Passed, Covered
    <2>5. phase[t] = "authorised" => Permitted(req[t].user, req[t].op)'
      BY <2>1, <2>3, <2>4, RequestShape DEF Permitted, TypeInv, TypeOK
    <2>6. Admissible(req[t])'
      BY <2>1, <2>3, <2>4
      DEF Admissible, CanAssign, CanClose, CanCreateKey, CanTransferKey, CanRetireKey,
          CanCreateWave, CanUpdateWave, CanProgressWave, CanStartWave, CanCompleteWave,
          CanArchiveDriver, CanReactivateDriver, CanUpdateVehicle, CanArchiveVehicle,
          CanReactivateVehicle, InStatus, Current, VehicleActive, DriverActive, OpenAssignments,
          ActiveWaves, VehicleInActiveWave, DriverInActiveWave, AllActive, SlotsTaken
    <2>7. QED
      BY <2>5, <2>6
  <1>9. CASE UNCHANGED vars
    BY <1>1, <1>9 DEF vars, tables, Passed
  <1>10. QED
    BY <1>2, <1>3, <1>4, <1>5, <1>6, <1>7, <1>8, <1>9 DEF Next, Lock

(* The invariant holds in every reachable state.                           *)
THEOREM Invariance == Spec => []Inductive
  <1>1. Inductive /\ [Next]_vars => Inductive'
    <2>1. SUFFICES ASSUME Inductive, [Next]_vars PROVE Inductive'
      OBVIOUS
    <2>2. TypeInv' /\ Exclusive' /\ Covered'
      BY <2>1, TypeStep, LockDiscipline DEF Inductive
    <2>3. Identified' /\ Anchored' /\ ChecksStillHold'
      BY <2>1, RowStep, ChecksStep
    <2>4. QED
      BY <2>2, <2>3 DEF Inductive
  <1>2. QED
    BY <1>1, InitInductive, PTL DEF Spec

(* What a transaction of mutateFleet, mutateKey or mutateWave has checked  *)
(* under its row locks is still true when it writes, and the membership it *)
(* re-read still allows it.                                                *)
THEOREM ChecksHold == Spec => []ChecksStillHold
  <1>1. Inductive => ChecksStillHold
    BY DEF Inductive
  <1>2. QED
    BY <1>1, Invariance, PTL

-----------------------------------------------------------------------------
(* The safety properties of Fleet.                                         *)

(* Request r is served: its checks hold and its writes happen.             *)
Served(s, r) == /\ r \in Request /\ Admissible(r) /\ AnchoredRequest(r) /\ StartPairs(r)
                /\ Write(s, r)

(* What can happen to the tables in a step.                                *)
LEMMA TableStep ==
    ASSUME Inductive, [Next]_vars
    PROVE  \/ UNCHANGED tables
           \/ CreateDriver \/ CreateVehicle \/ ChangeAccount
           \/ \E s \in Sessions : \E r : Served(s, r)
  <1>1. CASE \E s \in Sessions : Arrive(s)
    <2>1. PICK s \in Sessions : \E r : Begin(s, r)
      BY <1>1, ArriveAnchored DEF Inductive
    <2>2. QED
      BY <2>1 DEF Begin
  <1>2. CASE \E s \in Sessions : Lock(s) \/ Check(s) \/ Authorise(s) \/ Refuse(s) \/ Abort(s)
    BY <1>2 DEF Lock, LockRow, LockWave, Check, Authorise, Refuse, Abort
  <1>3. CASE \E s \in Sessions : Commit(s)
    <2>1. PICK s \in Sessions : Commit(s)
      BY <1>3
    <2>2. req[s] \in Request /\ Passed(s) /\ UnderWay(s)
      BY <2>1 DEF Commit, Decided, Inductive, TypeInv, Busy, UnderWay, Passed
    <2>3. Admissible(req[s]) /\ LocksOnRows(req[s]) \subseteq held[s] /\ AnchoredRequest(req[s])
      BY <2>2 DEF Inductive, ChecksStillHold, Covered, Anchored, Passed
    <2>4. StartPairs(req[s])
      <3>1. SUFFICES ASSUME req[s].op = "waveStart" PROVE StartPairs(req[s])
        BY DEF StartPairs
      <3>2. req[s].saw.id \in WaveIds
        BY <2>2, <3>1, RequestShape DEF WaveRequest, WaveRow
      <3>3. <<"wave", req[s].saw.id>> \in held[s]
        BY <2>2, <2>3, <3>1, <3>2, LocksWaveRow DEF LocksWave
      <3>4. QED
        BY <2>2, <3>1, <3>3 DEF Inductive, Anchored
    <2>5. QED
      BY <2>1, <2>2, <2>3, <2>4 DEF Commit, Served
  <1>4. CASE UNCHANGED vars
    BY <1>4 DEF vars, tables
  <1>5. QED
    BY <1>1, <1>2, <1>3, <1>4 DEF Next

(* The tables an operation leaves alone.                                   *)
LEMMA WriteFrame ==
    ASSUME NEW s, NEW r, Write(s, r)
    PROVE  /\ r.op \notin {"assign", "close"} => UNCHANGED assignment
           /\ r.op \notin {"keyCreate", "keyTransfer", "keyRetire", "keyReplace"} => UNCHANGED key
           /\ r.op \notin {"waveCreate", "waveUpdate", "waveProgress", "waveStart",
                          "waveComplete"} => UNCHANGED wave
           /\ r.op \notin {"driverUpdate", "driverArchive", "driverReactivate"} => UNCHANGED driver
           /\ r.op \notin {"vehicleArchive", "vehicleReactivate"} => UNCHANGED vehicle
  BY DEF Write, Assign, Close, CreateKey, TransferKey, RetireKey, CreateWave, UpdateWave,
         ProgressWave, StartWave, CompleteWave, Put, UpdateDriver, ArchiveDriver,
         ReactivateDriver, UpdateVehicle, ArchiveVehicle, ReactivateVehicle, tables

(* How the open assignments change.                                        *)
LEMMA AssignmentStep ==
    ASSUME TablesOK, NEW s, NEW r, Served(s, r)
    PROVE  \/ /\ CanAssign(r) /\ r.vehicle \in Vehicles /\ r.driver \in Drivers
              /\ UNCHANGED <<vehicle, driver, key, wave>>
              /\ \E a : /\ a.vehicle = r.vehicle /\ a.driver = r.driver
                        /\ OpenAssignments' = OpenAssignments \cup {a}
           \/ OpenAssignments' \subseteq OpenAssignments
  <1>1. CASE r.op = "assign"
    <2>1. CanAssign(r) /\ Assign(r) /\ r.vehicle \in Vehicles /\ r.driver \in Drivers
      BY <1>1, RequestShape DEF Served, Admissible, Write, AssignRequest
    <2>2. PICK i : assignment' = assignment \cup {[id |-> i, vehicle |-> r.vehicle,
                                                   driver |-> r.driver, open |-> TRUE]}
      BY <2>1 DEF Assign
    <2> DEFINE a == [id |-> i, vehicle |-> r.vehicle, driver |-> r.driver, open |-> TRUE]
    <2>3. a.open /\ a.vehicle = r.vehicle /\ a.driver = r.driver
      OBVIOUS
    <2>4. OpenAssignments' = OpenAssignments \cup {a}
      BY <2>2, <2>3 DEF OpenAssignments
    <2>5. QED
      BY <2>1, <2>3, <2>4 DEF Assign
  <1>2. CASE r.op = "close"
    <2>1. PICK a \in assignment :
            assignment' = (assignment \ {a}) \cup {[a EXCEPT !.open = FALSE]}
      BY <1>2 DEF Served, Write, Close, OpenAssignments
    <2>2. [a EXCEPT !.open = FALSE].open = FALSE
      BY DEF TablesOK, AssignmentRow
    <2>3. QED
      BY <2>1, <2>2 DEF OpenAssignments
  <1>3. CASE r.op \notin {"assign", "close"}
    BY <1>3, WriteFrame DEF Served, OpenAssignments
  <1>4. QED
    BY <1>1, <1>2, <1>3

(* One current vehicle per driver and one driver per vehicle: the checks   *)
(* of assignVehicle under its two row locks suffice, without the unique    *)
(* indexes of the database.                                                *)
THEOREM AssignmentsExclusive == Spec => []OneOpenAssignment
  <1>1. Init => OneOpenAssignment
    BY DEF Init, OneOpenAssignment, OpenAssignments
  <1>2. OneOpenAssignment /\ Inductive /\ [Next]_vars => OneOpenAssignment'
    <2>1. SUFFICES ASSUME OneOpenAssignment, Inductive, [Next]_vars PROVE OneOpenAssignment'
      OBVIOUS
    <2>2. CASE UNCHANGED assignment
      BY <2>1, <2>2 DEF OneOpenAssignment, OpenAssignments
    <2>3. CASE \E s \in Sessions : \E r : Served(s, r)
      <3>1. PICK s, r : Served(s, r)
        BY <2>3
      <3>2. TablesOK
        BY <2>1 DEF Inductive, TypeInv, TypeOK, TablesOK
      <3>3. CASE OpenAssignments' \subseteq OpenAssignments
        BY <2>1, <3>3 DEF OneOpenAssignment
      <3>4. CASE /\ CanAssign(r)
                 /\ \E a : /\ a.vehicle = r.vehicle /\ a.driver = r.driver
                           /\ OpenAssignments' = OpenAssignments \cup {a}
        BY <2>1, <3>4 DEF OneOpenAssignment, CanAssign
      <3>5. QED
        BY <3>1, <3>2, <3>3, <3>4, AssignmentStep
    <2>4. QED
      BY <2>1, <2>2, <2>3, TableStep DEF tables, CreateDriver, CreateVehicle, ChangeAccount
  <1>3. QED
    BY <1>1, <1>2, Invariance, PTL DEF Spec

(* How the waves under way change.                                         *)
LEMMA TourStep ==
    ASSUME TablesOK, Identified, NEW s, NEW r, Served(s, r)
    PROVE  \/ /\ CanStartWave(r) /\ r.pairs \subseteq Pairs
              /\ UNCHANGED <<vehicle, driver, assignment, key>>
              /\ \E w \in WaveRow : /\ w.pairs = r.pairs /\ w.id = r.saw.id
                                    /\ ActiveWaves' = ActiveWaves \cup {w}
           \/ \E w \in ActiveWaves, x \in WaveRow :
                 /\ x.pairs = w.pairs /\ x.id = w.id
                 /\ ActiveWaves' = (ActiveWaves \ {w}) \cup {x}
           \/ ActiveWaves' \subseteq ActiveWaves
  <1>1. CASE r.op = "waveCreate"
    <2>1. PICK i : wave' = wave \cup {[id |-> i, status |-> "PLANNED", pairs |-> r.pairs,
                                       done |-> r.done, version |-> 1]}
      BY <1>1 DEF Served, Write, CreateWave
    <2>2. QED
      BY <2>1 DEF ActiveWaves
  <1>2. CASE r.op \in {"waveUpdate", "waveProgress", "waveStart", "waveComplete"}
    <2>1. PICK w \in wave, row \in WaveRow :
              /\ w.id = r.saw.id /\ row.id = w.id /\ row.version = w.version + 1
              /\ wave' = (wave \ {w}) \cup {row}
              /\ r.op = "waveUpdate" => row.status = w.status
              /\ r.op = "waveProgress" => row.status = w.status /\ row.pairs = w.pairs
              /\ r.op = "waveStart" => row.status = "ACTIVE" /\ row.pairs = w.pairs
              /\ r.op = "waveComplete" => row.status = "COMPLETED"
              /\ UNCHANGED <<vehicle, driver, member, assignment, key>>
      BY <1>2, WaveChange DEF Served, Write
    <2>2. CASE r.op = "waveUpdate"
      <3>1. w.status = "PLANNED"
        BY <2>1, <2>2 DEF Served, Admissible, CanUpdateWave, InStatus, Identified
      <3>2. QED
        BY <2>1, <2>2, <3>1 DEF ActiveWaves
    <2>3. CASE r.op = "waveProgress"
      <3>1. w.status = "ACTIVE"
        BY <2>1, <2>3 DEF Served, Admissible, CanProgressWave, InStatus, Identified
      <3>2. w \in ActiveWaves /\ ActiveWaves' = (ActiveWaves \ {w}) \cup {row}
        BY <2>1, <2>3, <3>1 DEF ActiveWaves
      <3>3. QED
        BY <2>1, <2>3, <3>2
    <2>4. CASE r.op = "waveStart"
      <3>1. w.status = "PLANNED" /\ CanStartWave(r) /\ w.pairs = r.pairs
        BY <2>1, <2>4 DEF Served, Admissible, CanStartWave, InStatus, Identified, StartPairs
      <3>2. ActiveWaves' = ActiveWaves \cup {row}
        BY <2>1, <2>4, <3>1 DEF ActiveWaves
      <3>3. r.pairs \subseteq Pairs
        BY <2>4, RequestShape DEF Served, WaveRequest
      <3>4. QED
        BY <2>1, <2>4, <3>1, <3>2, <3>3
    <2>5. CASE r.op = "waveComplete"
      BY <2>1, <2>5 DEF ActiveWaves
    <2>6. QED
      BY <1>2, <2>2, <2>3, <2>4, <2>5
  <1>3. CASE r.op \notin {"waveCreate", "waveUpdate", "waveProgress", "waveStart", "waveComplete"}
    BY <1>3, WriteFrame DEF Served, ActiveWaves
  <1>4. QED
    BY <1>1, <1>2, <1>3

(* No driver and no vehicle is in two waves under way: mutateWave's check  *)
(* at the start suffices, for waves started at the same time too.          *)
THEOREM ToursExclusive == Spec => []OneActiveWave
  <1>1. Init => OneActiveWave
    BY DEF Init, OneActiveWave, ActiveWaves
  <1>2. OneActiveWave /\ Inductive /\ [Next]_vars => OneActiveWave'
    <2>1. SUFFICES ASSUME OneActiveWave, Inductive, [Next]_vars PROVE OneActiveWave'
      OBVIOUS
    <2>2. CASE UNCHANGED wave
      BY <2>1, <2>2 DEF OneActiveWave, ActiveWaves
    <2>3. CASE \E s \in Sessions : \E r : Served(s, r)
      <3>1. PICK s, r : Served(s, r)
        BY <2>3
      <3>2. TablesOK /\ Identified
        BY <2>1 DEF Inductive, TypeInv, TypeOK, TablesOK
      <3>3. CASE ActiveWaves' \subseteq ActiveWaves
        BY <2>1, <3>3 DEF OneActiveWave
      <3>4. CASE /\ CanStartWave(r)
                 /\ \E w \in WaveRow : /\ w.pairs = r.pairs
                                       /\ ActiveWaves' = ActiveWaves \cup {w}
        <4>1. PICK w \in WaveRow : w.pairs = r.pairs /\ ActiveWaves' = ActiveWaves \cup {w}
          BY <3>4
        <4>2. \A x \in ActiveWaves : \A p \in x.pairs, q \in w.pairs :
                p[1] # q[1] /\ p[2] # q[2]
          BY <3>4, <4>1 DEF CanStartWave, VehicleInActiveWave, DriverInActiveWave
        <4>3. QED
          BY <2>1, <4>1, <4>2 DEF OneActiveWave
      <3>5. CASE \E w \in ActiveWaves, x \in WaveRow :
                   /\ x.pairs = w.pairs
                   /\ ActiveWaves' = (ActiveWaves \ {w}) \cup {x}
        BY <2>1, <3>5 DEF OneActiveWave
      <3>6. QED
        BY <3>1, <3>2, <3>3, <3>4, <3>5, TourStep
    <2>4. QED
      BY <2>1, <2>2, <2>3, TableStep DEF tables, CreateDriver, CreateVehicle, ChangeAccount
  <1>3. QED
    BY <1>1, <1>2, Invariance, PTL DEF Spec

(* What is outstanding with a driver, or with a vehicle.                   *)
UsesDriver(d) == \/ \E a \in OpenAssignments : a.driver = d
                 \/ \E k \in key : k.holder = d
                 \/ DriverInActiveWave(d)

UsesVehicle(v) == \/ \E a \in OpenAssignments : a.vehicle = v
                  \/ \E k \in key : k.vehicle = v /\ k.holder \in Drivers
                  \/ VehicleInActiveWave(v)

LEMMA ArchivedMeans ==
    ArchivedHoldsNothing <=> /\ \A d \in Drivers : UsesDriver(d) => DriverActive(d)
                             /\ \A v \in Vehicles : UsesVehicle(v) => VehicleActive(v)
  BY DEF ArchivedHoldsNothing, UsesDriver, UsesVehicle

(* Keys: what is new in a driver's hands was checked.                      *)
LEMMA KeyUse ==
    ASSUME TablesOK, Identified, NEW s, NEW r, Served(s, r), NEW k \in key', k.holder \in Drivers
    PROVE  \/ \E j \in key : j.vehicle = k.vehicle /\ j.holder = k.holder
           \/ /\ DriverActive(k.holder) /\ VehicleActive(k.vehicle)
              /\ UNCHANGED <<vehicle, driver>>
  <1>1. CASE r.op = "keyCreate"
    <2>1. PICK i \in KeyIds, slot \in 1..MaxSlot :
            key' = key \cup {FreshKey(i, r.vehicle, slot, Nil)}
      BY <1>1 DEF Served, Write, CreateKey
    <2>2. FreshKey(i, r.vehicle, slot, Nil).holder \notin Drivers
      BY FleetAssumption DEF FreshKey
    <2>3. QED
      BY <2>1, <2>2
  <1>2. CASE r.op \in {"keyTransfer", "keyRetire", "keyReplace"}
    <2>1. PICK j \in key, row \in KeyRow, added \in SUBSET KeyRow :
              /\ Current(r, j)
              /\ key' = (key \ {j}) \cup {row} \cup added
              /\ row.vehicle = j.vehicle
              /\ r.op = "keyTransfer" => row.holder = r.to /\ added = {}
              /\ r.op # "keyTransfer" => row.holder = j.holder
              /\ \/ added = {}
                 \/ \E i \in KeyIds : added = {FreshKey(i, j.vehicle, j.slot, j.id)}
              /\ UNCHANGED <<vehicle, driver>>
      BY <1>2, KeyChange DEF Served, Write
    <2>2. k \notin added
      BY <2>1, FleetAssumption DEF FreshKey
    <2>3. CASE k \in key
      BY <2>3
    <2>4. CASE k = row /\ r.op # "keyTransfer"
      BY <2>1, <2>4
    <2>5. CASE k = row /\ r.op = "keyTransfer"
      <3>1. DriverActive(r.to) /\ VehicleActive(r.saw.vehicle)
        BY <2>1, <2>5 DEF Served, Admissible, CanTransferKey
      <3>2. j.vehicle = r.saw.vehicle
        BY <2>1, <2>5 DEF Served, AnchoredRequest, Current, Identified
      <3>3. QED
        BY <2>1, <2>5, <3>1, <3>2
    <2>6. QED
      BY <2>1, <2>2, <2>3, <2>4, <2>5
  <1>3. CASE r.op \notin {"keyCreate", "keyTransfer", "keyRetire", "keyReplace"}
    BY <1>3, WriteFrame DEF Served
  <1>4. QED
    BY <1>1, <1>2, <1>3

(* Nothing new is outstanding with a driver or vehicle out of the fleet.   *)
LEMMA NewUse ==
    ASSUME TablesOK, Identified, NEW s, NEW r, Served(s, r)
    PROVE  /\ \A d \in Drivers : UsesDriver(d)' =>
                 UsesDriver(d) \/ (DriverActive(d) /\ UNCHANGED driver)
           /\ \A v \in Vehicles : UsesVehicle(v)' =>
                 UsesVehicle(v) \/ (VehicleActive(v) /\ UNCHANGED vehicle)
  <1>1. \A a \in OpenAssignments' :
          \/ a \in OpenAssignments
          \/ /\ VehicleActive(a.vehicle) /\ DriverActive(a.driver)
             /\ UNCHANGED <<vehicle, driver>>
    BY AssignmentStep DEF CanAssign
  <1>2. \A w \in ActiveWaves' :
          \/ \E x \in ActiveWaves : x.pairs = w.pairs
          \/ /\ \A p \in w.pairs : VehicleActive(p[1]) /\ DriverActive(p[2])
             /\ UNCHANGED <<vehicle, driver>>
    <2>1. CASE /\ CanStartWave(r)
               /\ UNCHANGED <<vehicle, driver, assignment, key>>
               /\ \E w \in WaveRow : /\ w.pairs = r.pairs
                                     /\ ActiveWaves' = ActiveWaves \cup {w}
      BY <2>1 DEF CanStartWave, AllActive
    <2>2. CASE \E w \in ActiveWaves, x \in WaveRow :
                 /\ x.pairs = w.pairs
                 /\ ActiveWaves' = (ActiveWaves \ {w}) \cup {x}
      BY <2>2
    <2>3. CASE ActiveWaves' \subseteq ActiveWaves
      BY <2>3
    <2>4. QED
      BY <2>1, <2>2, <2>3, TourStep
  <1>3. \A k \in key' : k.holder \in Drivers =>
          \/ \E j \in key : j.vehicle = k.vehicle /\ j.holder = k.holder
          \/ /\ DriverActive(k.holder) /\ VehicleActive(k.vehicle)
             /\ UNCHANGED <<vehicle, driver>>
    BY KeyUse
  <1>4. ASSUME NEW d \in Drivers, UsesDriver(d)'
        PROVE  UsesDriver(d) \/ (DriverActive(d) /\ UNCHANGED driver)
    <2>1. CASE \E a \in OpenAssignments' : a.driver = d
      BY <1>1, <2>1 DEF UsesDriver
    <2>2. CASE \E k \in key' : k.holder = d
      BY <1>3, <1>4, <2>2 DEF UsesDriver
    <2>3. CASE DriverInActiveWave(d)'
      BY <1>2, <2>3 DEF UsesDriver, DriverInActiveWave
    <2>4. QED
      BY <1>4, <2>1, <2>2, <2>3 DEF UsesDriver
  <1>5. ASSUME NEW v \in Vehicles, UsesVehicle(v)'
        PROVE  UsesVehicle(v) \/ (VehicleActive(v) /\ UNCHANGED vehicle)
    <2>1. CASE \E a \in OpenAssignments' : a.vehicle = v
      BY <1>1, <2>1 DEF UsesVehicle
    <2>2. CASE \E k \in key' : k.vehicle = v /\ k.holder \in Drivers
      BY <1>3, <1>5, <2>2 DEF UsesVehicle
    <2>3. CASE VehicleInActiveWave(v)'
      BY <1>2, <2>3 DEF UsesVehicle, VehicleInActiveWave
    <2>4. QED
      BY <1>5, <2>1, <2>2, <2>3 DEF UsesVehicle
  <1>6. QED
    BY <1>4, <1>5

(* Only an archival takes a driver or vehicle out of the fleet, and it has *)
(* checked that nothing is outstanding.                                    *)
LEMMA Leaving ==
    ASSUME TablesOK, NEW s, NEW r, Served(s, r)
    PROVE  /\ \A d \in Drivers : DriverActive(d) /\ ~ DriverActive(d)' =>
                 ~ UsesDriver(d) /\ UNCHANGED <<assignment, key, wave>>
           /\ \A v \in Vehicles : VehicleActive(v) /\ ~ VehicleActive(v)' =>
                 ~ UsesVehicle(v) /\ UNCHANGED <<assignment, key, wave>>
  <1>1. ASSUME NEW d \in Drivers, DriverActive(d), ~ DriverActive(d)'
        PROVE  ~ UsesDriver(d) /\ UNCHANGED <<assignment, key, wave>>
    <2>1. r.op \in {"driverUpdate", "driverArchive", "driverReactivate"}
      BY <1>1, WriteFrame DEF Served, DriverActive
    <2>2. r.driver \in Drivers
      BY <2>1, RequestShape DEF Served, RegistryRequest
    <2>3. r.op = "driverArchive" /\ r.driver = d
      BY <1>1, <2>1, <2>2
      DEF Served, Write, UpdateDriver, ArchiveDriver, ReactivateDriver, DriverActive, TablesOK,
          DriverRow
    <2>4. CanArchiveDriver(r) /\ ArchiveDriver(s, r)
      BY <2>3 DEF Served, Admissible, Write
    <2>5. QED
      BY <2>3, <2>4 DEF CanArchiveDriver, ArchiveDriver, UsesDriver
  <1>2. ASSUME NEW v \in Vehicles, VehicleActive(v), ~ VehicleActive(v)'
        PROVE  ~ UsesVehicle(v) /\ UNCHANGED <<assignment, key, wave>>
    <2>1. r.op \in {"vehicleArchive", "vehicleReactivate"}
      BY <1>2, WriteFrame DEF Served, VehicleActive
    <2>2. r.vehicle \in Vehicles
      BY <2>1, RequestShape DEF Served, RegistryRequest
    <2>3. r.op = "vehicleArchive" /\ r.vehicle = v
      BY <1>2, <2>1, <2>2
      DEF Served, Write, ArchiveVehicle, ReactivateVehicle, VehicleActive, TablesOK
    <2>4. CanArchiveVehicle(r) /\ ArchiveVehicle(r)
      BY <2>3 DEF Served, Admissible, Write
    <2>5. QED
      BY <2>3, <2>4 DEF CanArchiveVehicle, ArchiveVehicle, UsesVehicle
  <1>3. QED
    BY <1>1, <1>2

(* A driver or vehicle out of the fleet has nothing outstanding, although  *)
(* archival, assignment, key transfer and wave start look at each other's  *)
(* tables in different transactions.                                       *)
THEOREM ArchivedIdle == Spec => []ArchivedHoldsNothing
  <1>1. Init => ArchivedHoldsNothing
    BY DEF Init, ArchivedHoldsNothing, OpenAssignments, ActiveWaves, DriverInActiveWave,
           VehicleInActiveWave
  <1>2. ArchivedHoldsNothing /\ Inductive /\ [Next]_vars => ArchivedHoldsNothing'
    <2>1. SUFFICES ASSUME ArchivedHoldsNothing, Inductive, [Next]_vars
                   PROVE  ArchivedHoldsNothing'
      OBVIOUS
    <2>2. TablesOK /\ Identified
      BY <2>1 DEF Inductive, TypeInv, TypeOK, TablesOK
    <2>3. /\ \A d \in Drivers : UsesDriver(d) => DriverActive(d)
          /\ \A v \in Vehicles : UsesVehicle(v) => VehicleActive(v)
      BY <2>1, ArchivedMeans
    <2>4. CASE UNCHANGED <<vehicle, driver, assignment, key, wave>>
      BY <2>1, <2>4
      DEF ArchivedHoldsNothing, OpenAssignments, ActiveWaves, DriverInActiveWave,
          VehicleInActiveWave, DriverActive, VehicleActive
    <2>5. CASE CreateDriver
      <3>1. PICK d \in Drivers :
              /\ driver[d].status = "ABSENT" /\ driver'[d].status = "ACTIVE"
              /\ \A x \in Drivers : x # d => driver'[x] = driver[x]
              /\ UNCHANGED <<vehicle, assignment, key, wave>>
        BY <2>2, <2>5, NewDriver
      <3>2. QED
        BY <2>1, <3>1
        DEF ArchivedHoldsNothing, OpenAssignments, ActiveWaves, DriverInActiveWave,
            VehicleInActiveWave, DriverActive, VehicleActive
    <2>6. CASE CreateVehicle
      <3>1. PICK v \in Vehicles :
              /\ vehicle[v].status = "ABSENT"
              /\ \A x \in Vehicles : x # v => vehicle'[x] = vehicle[x]
              /\ \A k \in key' \ key : k.holder = "OFFICE"
              /\ UNCHANGED <<driver, assignment, wave>>
        BY <2>2, <2>6, NewVehicle
      <3>2. \A k \in key' : k.holder \in Drivers => k \in key
        BY <3>1, FleetAssumption
      <3>3. \A x \in Vehicles : ~ VehicleActive(x)' => ~ VehicleActive(x)
        BY <3>1 DEF VehicleActive
      <3>4. QED
        BY <2>1, <3>1, <3>2, <3>3
        DEF ArchivedHoldsNothing, OpenAssignments, ActiveWaves, DriverInActiveWave,
            VehicleInActiveWave, DriverActive
    <2>7. CASE \E s \in Sessions : \E r : Served(s, r)
      <3>1. PICK s, r : Served(s, r)
        BY <2>7
      <3>2. ASSUME NEW d \in Drivers, UsesDriver(d)' PROVE DriverActive(d)'
        <4>1. DriverActive(d)
          BY <2>2, <2>3, <3>1, <3>2, NewUse
        <4>2. UNCHANGED <<assignment, key, wave>> => UsesDriver(d)
          BY <3>2 DEF UsesDriver, OpenAssignments, DriverInActiveWave, ActiveWaves
        <4>3. QED
          BY <2>2, <3>1, <4>1, <4>2, Leaving
      <3>3. ASSUME NEW v \in Vehicles, UsesVehicle(v)' PROVE VehicleActive(v)'
        <4>1. VehicleActive(v)
          BY <2>2, <2>3, <3>1, <3>3, NewUse
        <4>2. UNCHANGED <<assignment, key, wave>> => UsesVehicle(v)
          BY <3>3 DEF UsesVehicle, OpenAssignments, VehicleInActiveWave, ActiveWaves
        <4>3. QED
          BY <2>2, <3>1, <4>1, <4>2, Leaving
      <3>4. QED
        BY <3>2, <3>3 DEF ArchivedHoldsNothing, UsesDriver, UsesVehicle
    <2>8. QED
      BY <2>1, <2>4, <2>5, <2>6, <2>7, TableStep DEF tables, ChangeAccount
  <1>3. QED
    BY <1>1, <1>2, Invariance, PTL DEF Spec

(* A replacement names a key that exists.                                  *)
Replaced == \A j \in key : j.replaces = Nil \/ \E k \in key : k.id = j.replaces

KeyInv == KeysConsistent /\ Replaced

(* The rows of keys that one operation rewrites, and the one it adds.      *)
LEMMA KeyStep ==
    ASSUME TablesOK, Identified, KeyInv, NEW s, NEW r, Served(s, r)
    PROVE  KeyInv'
  <1>0. \A k \in key : k.id \in KeyIds /\ k.id # Nil
    BY FleetAssumption DEF TablesOK, KeyRow
  <1>1. CASE r.op = "keyCreate"
    <2>1. PICK i \in KeyIds, slot \in (1..MaxSlot) \ SlotsTaken(r.vehicle) :
            NewId(key, KeyIds, i) /\ key' = key \cup {FreshKey(i, r.vehicle, slot, Nil)}
      BY <1>1 DEF Served, Write, CreateKey
    <2> DEFINE new == FreshKey(i, r.vehicle, slot, Nil)
    <2>2. /\ new.id = i /\ new.vehicle = r.vehicle /\ new.slot = slot /\ new.status = "ACTIVE"
          /\ new.replaces = Nil /\ i # Nil
      BY FleetAssumption DEF FreshKey
    <2>3. key' = key \cup {new} /\ \A k \in key : k.id # i
      BY <2>1 DEF NewId
    <2>4. \A k \in key : k.vehicle = r.vehicle /\ k.status = "ACTIVE" => k.slot # slot
      BY <2>1 DEF SlotsTaken
    <2> HIDE DEF new
    <2>5. Replaced'
      BY <2>2, <2>3 DEF KeyInv, Replaced
    <2>6. \A j \in key : j.replaces # i
      BY <2>2, <2>3 DEF KeyInv, Replaced
    <2>7. (\A j, k \in key : j.vehicle = k.vehicle /\ j.slot = k.slot
              /\ j.status = "ACTIVE" /\ k.status = "ACTIVE" => j = k)'
      BY <2>2, <2>3, <2>4 DEF KeyInv, KeysConsistent
    <2>8. (\A k \in key : k.status = "RETIRED" => k.holder \notin Drivers)'
      BY <2>2, <2>3 DEF KeyInv, KeysConsistent
    <2>9. (\A j, k \in key : j.replaces = k.id =>
              /\ k.status = "RETIRED" /\ k.vehicle = j.vehicle /\ k.slot = j.slot
              /\ \A x \in key : x.replaces = k.id => x = j)'
      BY <1>0, <2>2, <2>3, <2>6 DEF KeyInv, KeysConsistent
    <2>10. QED
      BY <2>5, <2>7, <2>8, <2>9 DEF KeyInv, KeysConsistent
  <1>2. CASE r.op \in {"keyTransfer", "keyRetire", "keyReplace"}
    <2>1. PICK k \in key, row \in KeyRow, added \in SUBSET KeyRow :
              /\ Current(r, k)
              /\ key' = (key \ {k}) \cup {row} \cup added
              /\ row.id = k.id /\ row.vehicle = k.vehicle /\ row.slot = k.slot
              /\ row.replaces = k.replaces
              /\ r.op = "keyTransfer" => row.status = k.status /\ added = {}
              /\ r.op # "keyTransfer" => row.holder = k.holder /\ row.status = "RETIRED"
              /\ \/ added = {}
                 \/ \E i \in KeyIds : /\ NewId(key, KeyIds, i)
                                      /\ added = {FreshKey(i, k.vehicle, k.slot, k.id)}
      BY <1>2, KeyChange DEF Served, Write
    <2>2. k.status = "ACTIVE" /\ \A j \in key : j.replaces # k.id
      BY <2>1 DEF Current, KeyInv, KeysConsistent
    <2>3. r.op # "keyTransfer" => k.holder \notin Drivers
      BY <1>2, <2>1 DEF Served, Admissible, CanRetireKey, Current, Identified
    <2>4. \A j \in added : /\ j.vehicle = k.vehicle /\ j.slot = k.slot /\ j.status = "ACTIVE"
                           /\ j.replaces = k.id /\ j.id \in KeyIds
                           /\ \A x \in key : x.id # j.id
                           /\ added = {j}
      BY <2>1 DEF FreshKey, NewId
    <2>5. Replaced'
      BY <2>1, <2>4 DEF KeyInv, Replaced
    <2>6. (\A j, x \in key : j.vehicle = x.vehicle /\ j.slot = x.slot
              /\ j.status = "ACTIVE" /\ x.status = "ACTIVE" => j = x)'
      <3>1. \A x \in key : x.vehicle = k.vehicle /\ x.slot = k.slot /\ x.status = "ACTIVE" => x = k
        BY <2>2 DEF KeyInv, KeysConsistent
      <3>2. CASE r.op = "keyTransfer"
        BY <2>1, <2>2, <3>1, <3>2 DEF KeyInv, KeysConsistent
      <3>3. CASE r.op # "keyTransfer"
        BY <2>1, <2>4, <3>1, <3>3 DEF KeyInv, KeysConsistent
      <3>4. QED
        BY <3>2, <3>3
    <2>7. (\A x \in key : x.status = "RETIRED" => x.holder \notin Drivers)'
      BY <2>1, <2>2, <2>3, <2>4 DEF KeyInv, KeysConsistent
    <2>8. ASSUME NEW j \in key', NEW x \in key', j.replaces = x.id
          PROVE  /\ x.status = "RETIRED" /\ x.vehicle = j.vehicle /\ x.slot = j.slot
                 /\ \A y \in key' : y.replaces = x.id => y = j
      <3>1. x \notin added
        <4>1. \A y \in key : y.replaces # Nil => \E z \in key : z.id = y.replaces
          BY DEF KeyInv, Replaced
        <4>2. SUFFICES ASSUME x \in added PROVE FALSE
          OBVIOUS
        <4>3. x.id # Nil /\ \A y \in key : y.id # x.id
          BY <2>4, <4>2, FleetAssumption
        <4>4. CASE j \in added
          BY <2>4, <2>8, <4>3, <4>4
        <4>5. CASE j \in key \/ j = row
          BY <2>1, <2>8, <4>1, <4>3, <4>5
        <4>6. QED
          BY <2>1, <4>4, <4>5
      <3>2. CASE j \in added
        <4>1. x.id = k.id /\ r.op # "keyTransfer"
          BY <2>1, <2>4, <2>8, <3>2
        <4>2. x = row
          BY <2>1, <3>1, <4>1 DEF Identified
        <4>3. \A y \in key' : y.replaces = x.id => y \in added
          BY <2>1, <2>2, <4>1
        <4>4. QED
          BY <2>1, <2>4, <3>2, <4>1, <4>2, <4>3
      <3>3. CASE j \notin added
        <4>1. PICK j0 \in key : /\ j0.replaces = j.replaces /\ j0.vehicle = j.vehicle
                                /\ j0.slot = j.slot
                                /\ j = IF j0 = k THEN row ELSE j0
          BY <2>1, <3>3
        <4>2. x \in key /\ x # k
          BY <2>1, <2>2, <2>8, <3>1, <4>1
        <4>3. /\ x.status = "RETIRED" /\ x.vehicle = j.vehicle /\ x.slot = j.slot
              /\ \A y \in key : y.replaces = x.id => y = j0
          BY <2>8, <4>1, <4>2 DEF KeyInv, KeysConsistent
        <4>4. x.id # k.id
          BY <4>2 DEF Identified
        <4>5. \A y \in key' : y.replaces = x.id => y = j
          BY <2>1, <2>4, <4>1, <4>3, <4>4
        <4>6. QED
          BY <4>3, <4>5
      <3>4. QED
        BY <3>2, <3>3
    <2>9. QED
      BY <2>5, <2>6, <2>7, <2>8 DEF KeyInv, KeysConsistent
  <1>3. CASE r.op \notin {"keyCreate", "keyTransfer", "keyRetire", "keyReplace"}
    BY <1>3, WriteFrame DEF Served, KeyInv, KeysConsistent, Replaced
  <1>4. QED
    BY <1>1, <1>2, <1>3

(* Usable keys of a vehicle keep different slots, a retired key is in no   *)
(* driver's hands and is replaced at most once, in its own slot: mutateKey *)
(* and the creation of a vehicle choose slots under the vehicle lock only. *)
THEOREM KeysSound == Spec => []KeysConsistent
  <1>1. Init => KeyInv
    BY DEF Init, KeyInv, KeysConsistent, Replaced
  <1>2. KeyInv /\ Inductive /\ [Next]_vars => KeyInv'
    <2>1. SUFFICES ASSUME KeyInv, Inductive, [Next]_vars PROVE KeyInv'
      OBVIOUS
    <2>2. TablesOK /\ Identified
      BY <2>1 DEF Inductive, TypeInv, TypeOK, TablesOK
    <2>3. CASE UNCHANGED key
      BY <2>1, <2>3 DEF KeyInv, KeysConsistent, Replaced
    <2>4. CASE CreateVehicle
      <3>1. PICK v \in Vehicles :
              /\ vehicle[v].status = "ABSENT"
              /\ key \subseteq key'
              /\ \A k \in key' \ key :
                    /\ k.vehicle = v /\ k.holder = "OFFICE" /\ k.status = "ACTIVE"
                    /\ k.replaces = Nil
                    /\ \A j \in key : j.id # k.id
              /\ \A j, k \in key' \ key : j.id = k.id \/ j.slot = k.slot => j = k
        BY <2>2, <2>4, NewVehicle
      <3>2. \A k \in key : k.vehicle # v
        BY <2>2, <3>1 DEF Identified
      <3>3. Replaced'
        BY <2>1, <3>1 DEF KeyInv, Replaced
      <3>4. (\A j, k \in key : j.vehicle = k.vehicle /\ j.slot = k.slot
                /\ j.status = "ACTIVE" /\ k.status = "ACTIVE" => j = k)'
        BY <2>1, <3>1, <3>2 DEF KeyInv, KeysConsistent
      <3>5. (\A k \in key : k.status = "RETIRED" => k.holder \notin Drivers)'
        BY <2>1, <3>1 DEF KeyInv, KeysConsistent
      <3>6. key' \subseteq KeyRow
        BY <2>1, TypeStep DEF Inductive, TypeInv, TypeOK
      <3>7. \A k \in key' : k.id # Nil
        BY <3>6, FleetAssumption DEF KeyRow
      <3>8. \A j, k \in key' : j.replaces = k.id => j \in key /\ k \in key
        BY <2>1, <3>1, <3>7 DEF KeyInv, Replaced
      <3>9. (\A j, k \in key : j.replaces = k.id =>
                /\ k.status = "RETIRED" /\ k.vehicle = j.vehicle /\ k.slot = j.slot
                /\ \A x \in key : x.replaces = k.id => x = j)'
        BY <2>1, <3>8 DEF KeyInv, KeysConsistent
      <3>10. QED
        BY <3>3, <3>4, <3>5, <3>9 DEF KeyInv, KeysConsistent
    <2>5. CASE \E s \in Sessions : \E r : Served(s, r)
      BY <2>1, <2>2, <2>5, KeyStep
    <2>6. QED
      BY <2>1, <2>3, <2>4, <2>5, TableStep DEF tables, CreateDriver, ChangeAccount
  <1>3. KeyInv => KeysConsistent
    BY DEF KeyInv
  <1>4. QED
    BY <1>1, <1>2, <1>3, Invariance, PTL DEF Spec

-----------------------------------------------------------------------------
(* Versions: what a client saw, and what it changes.                       *)

(* A served request counts up the version of every row it changes.         *)
LEMMA VersionsGrow ==
    ASSUME TablesOK, Identified, NEW s, NEW r, Served(s, r)
    PROVE  /\ \A k \in key' : \/ k \in key
                              \/ \E j \in key : j.id = k.id /\ j.version < k.version
                              \/ \A j \in key : j.id # k.id
           /\ \A w \in wave' : \/ w \in wave
                               \/ \E x \in wave : x.id = w.id /\ x.version < w.version
                               \/ \A x \in wave : x.id # w.id
           /\ \A d \in Drivers : \/ driver'[d] = driver[d]
                                 \/ /\ driver[d].rev < driver'[d].rev
                                    /\ driver[d].status # "ABSENT" => driver'[d].status # "ABSENT"
  <1>1. \A k \in key' : \/ k \in key
                        \/ \E j \in key : j.id = k.id /\ j.version < k.version
                        \/ \A j \in key : j.id # k.id
    <2>1. CASE r.op = "keyCreate"
      <3>1. PICK i \in KeyIds, slot \in 1..MaxSlot :
              NewId(key, KeyIds, i) /\ key' = key \cup {FreshKey(i, r.vehicle, slot, Nil)}
        BY <2>1 DEF Served, Write, CreateKey
      <3>2. FreshKey(i, r.vehicle, slot, Nil).id = i
        BY DEF FreshKey
      <3>3. QED
        BY <3>1, <3>2 DEF NewId
    <2>2. CASE r.op \in KeyOps
      <3>1. PICK k \in key, row \in KeyRow, added \in SUBSET KeyRow :
              /\ key' = (key \ {k}) \cup {row} \cup added
              /\ row.id = k.id /\ row.version = k.version + 1
              /\ \/ added = {}
                 \/ \E i \in KeyIds : /\ NewId(key, KeyIds, i)
                                      /\ added = {FreshKey(i, k.vehicle, k.slot, k.id)}
        BY <2>2, KeyChange DEF Served, Write, KeyOps
      <3>2. k.version < row.version
        BY <3>1 DEF TablesOK, KeyRow
      <3>3. \A j \in added : \A x \in key : x.id # j.id
        BY <3>1 DEF FreshKey, NewId
      <3>4. QED
        BY <3>1, <3>2, <3>3
    <2>3. QED
      BY <2>1, <2>2, WriteFrame DEF Served, KeyOps
  <1>2. \A w \in wave' : \/ w \in wave
                         \/ \E x \in wave : x.id = w.id /\ x.version < w.version
                         \/ \A x \in wave : x.id # w.id
    <2>1. CASE r.op = "waveCreate"
      <3>1. PICK i \in WaveIds :
              /\ NewId(wave, WaveIds, i)
              /\ wave' = wave \cup {[id |-> i, status |-> "PLANNED", pairs |-> r.pairs,
                                     done |-> r.done, version |-> 1]}
        BY <2>1 DEF Served, Write, CreateWave
      <3>2. QED
        BY <3>1 DEF NewId
    <2>2. CASE r.op \in WaveOps
      <3>1. PICK w \in wave, row \in WaveRow :
              /\ row.id = w.id /\ row.version = w.version + 1
              /\ wave' = (wave \ {w}) \cup {row}
        BY <2>2, WaveChange DEF Served, Write, WaveOps
      <3>2. w.version < row.version
        BY <3>1 DEF TablesOK, WaveRow
      <3>3. QED
        BY <3>1, <3>2
    <2>3. QED
      BY <2>1, <2>2, WriteFrame DEF Served, WaveOps
  <1>3. \A d \in Drivers : \/ driver'[d] = driver[d]
                           \/ /\ driver[d].rev < driver'[d].rev
                              /\ driver[d].status # "ABSENT" => driver'[d].status # "ABSENT"
    <2>1. CASE r.op \in {"driverUpdate", "driverArchive", "driverReactivate"}
      <3>1. r.driver \in Drivers
        BY <2>1, RequestShape DEF Served, RegistryRequest
      <3>2. \A d \in Drivers : driver[d] \in DriverRow
        BY DEF TablesOK
      <3>3. \A d \in Drivers : d # r.driver => driver'[d] = driver[d]
        BY <2>1 DEF Served, Write, UpdateDriver, ArchiveDriver, ReactivateDriver, TablesOK
      <3>4. /\ driver'[r.driver].rev = driver[r.driver].rev + 1
            /\ driver[r.driver].status # "ABSENT" => driver'[r.driver].status # "ABSENT"
        BY <2>1, <3>1, <3>2
        DEF Served, Write, UpdateDriver, ArchiveDriver, ReactivateDriver, TablesOK, DriverRow
      <3>5. QED
        BY <3>1, <3>2, <3>3, <3>4 DEF DriverRow
    <2>2. QED
      BY <2>1, WriteFrame DEF Served
  <1>4. QED
    BY <1>1, <1>2, <1>3

(* What a client saw stays the row itself or falls behind it.              *)
LEMMA VersionsStep ==
    ASSUME Inductive, [Next]_vars, NEW r \in Request, AnchoredRequest(r), VersionedRequest(r)
    PROVE  VersionedRequest(r)'
  <1>1. TablesOK /\ Identified
    BY DEF Inductive, TypeInv, TypeOK, TablesOK
  <1>2. TablesOK'
    BY TypeStep DEF Inductive, TypeInv, TypeOK, TablesOK
  <1>3. /\ r.op \in KeyOps => r.saw \in KeyRow
        /\ r.op \in WaveOps => r.saw \in WaveRow
        /\ r.op = "driverReactivate" => r.saw \in DriverRow /\ r.driver \in Drivers
    BY RequestShape DEF KeyRequest, WaveRequest, RegistryRequest, KeyOps, WaveOps
  <1>4. CASE UNCHANGED <<driver, key, wave>>
    BY <1>4 DEF VersionedRequest
  <1>5. CASE CreateDriver
    <2>1. PICK d \in Drivers :
            /\ driver[d].status = "ABSENT"
            /\ \A x \in Drivers : x # d => driver'[x] = driver[x]
            /\ UNCHANGED <<key, wave>>
      BY <1>1, <1>5, NewDriver
    <2>2. r.op = "driverReactivate" => r.driver # d
      BY <2>1 DEF VersionedRequest
    <2>3. QED
      BY <1>3, <2>1, <2>2 DEF VersionedRequest
  <1>6. CASE CreateVehicle
    <2>1. /\ \A k \in key' \ key : \A j \in key : j.id # k.id
          /\ UNCHANGED <<driver, wave>>
      BY <1>1, <1>6, NewVehicle
    <2>2. r.op \in KeyOps => \A k \in key' : k.id = r.saw.id => k \in key
      BY <2>1 DEF AnchoredRequest, KeyOps
    <2>3. QED
      BY <2>1, <2>2 DEF VersionedRequest
  <1>7. CASE \E s \in Sessions : \E q : Served(s, q)
    <2>1. PICK s, q : Served(s, q)
      BY <1>7
    <2>2. ASSUME r.op \in KeyOps, NEW k \in key', k.id = r.saw.id
          PROVE  r.saw.version < k.version \/ r.saw = k
      <3>1. r.saw.version \in Nat /\ k.version \in Nat
        BY <1>2, <1>3, <2>2 DEF KeyRow, TablesOK
      <3>2. CASE k \in key
        BY <2>2, <3>2 DEF VersionedRequest
      <3>3. CASE \E j \in key : j.id = k.id /\ j.version < k.version
        <4>1. PICK j \in key : j.id = k.id /\ j.version < k.version
          BY <3>3
        <4>2. j.version \in Nat /\ (r.saw.version < j.version \/ r.saw = j)
          BY <1>1, <2>2, <4>1 DEF VersionedRequest, KeyRow, TablesOK
        <4>3. QED
          BY <3>1, <4>1, <4>2
      <3>4. QED
        BY <1>1, <2>1, <2>2, <3>2, <3>3, VersionsGrow DEF AnchoredRequest, KeyOps
    <2>3. ASSUME r.op \in WaveOps, NEW w \in wave', w.id = r.saw.id
          PROVE  r.saw.version < w.version \/ r.saw = w
      <3>1. r.saw.version \in Nat /\ w.version \in Nat
        BY <1>2, <1>3, <2>3 DEF WaveRow, TablesOK
      <3>2. CASE w \in wave
        BY <2>3, <3>2 DEF VersionedRequest
      <3>3. CASE \E x \in wave : x.id = w.id /\ x.version < w.version
        <4>1. PICK x \in wave : x.id = w.id /\ x.version < w.version
          BY <3>3
        <4>2. x.version \in Nat /\ (r.saw.version < x.version \/ r.saw = x)
          BY <1>1, <2>3, <4>1 DEF VersionedRequest, WaveRow, TablesOK
        <4>3. QED
          BY <3>1, <4>1, <4>2
      <3>4. QED
        BY <1>1, <2>1, <2>3, <3>2, <3>3, VersionsGrow DEF AnchoredRequest, WaveOps
    <2>4. ASSUME r.op = "driverReactivate"
          PROVE  r.saw.rev < driver'[r.driver].rev \/ r.saw = driver'[r.driver]
      <3>1. r.saw.rev \in Nat /\ driver[r.driver].rev \in Nat /\ driver'[r.driver].rev \in Nat
        BY <1>1, <1>2, <1>3, <2>4 DEF DriverRow, TablesOK
      <3>2. \/ driver'[r.driver] = driver[r.driver]
            \/ driver[r.driver].rev < driver'[r.driver].rev
        BY <1>1, <1>3, <2>1, <2>4, VersionsGrow
      <3>3. r.saw.rev < driver[r.driver].rev \/ r.saw = driver[r.driver]
        BY <2>4 DEF VersionedRequest
      <3>4. QED
        BY <3>1, <3>2, <3>3
    <2>5. r.op = "driverReactivate" => driver'[r.driver].status # "ABSENT"
      BY <1>1, <1>3, <2>1, VersionsGrow DEF VersionedRequest
    <2>6. QED
      BY <2>2, <2>3, <2>4, <2>5 DEF VersionedRequest
  <1>8. QED
    BY <1>4, <1>5, <1>6, <1>7, TableStep DEF tables, ChangeAccount

LEMMA ArriveVersioned ==
    ASSUME TypeInv, Identified, NEW s \in Sessions, Arrive(s)
    PROVE  \E r : Begin(s, r) /\ VersionedRequest(r)
  <1>1. \A r, k : r.op \in KeyOps /\ r.saw = k /\ k \in key => VersionedRequest(r)
    BY DEF VersionedRequest, KeyOps, WaveOps, Identified
  <1>2. \A r, w : r.op \in WaveOps /\ r.saw = w /\ w \in wave => VersionedRequest(r)
    BY DEF VersionedRequest, KeyOps, WaveOps, Identified
  <1>3. \A r : r.op \notin KeyOps \cup WaveOps \cup {"driverReactivate"} => VersionedRequest(r)
    BY DEF VersionedRequest
  <1>4. CASE BeginAssign(s)
    BY <1>3, <1>4 DEF BeginAssign, KeyOps, WaveOps
  <1>5. CASE BeginClose(s)
    BY <1>3, <1>5 DEF BeginClose, KeyOps, WaveOps
  <1>6. CASE BeginKeyCreate(s)
    BY <1>3, <1>6 DEF BeginKeyCreate, KeyOps, WaveOps
  <1>7. CASE BeginKeyTransfer(s)
    BY <1>1, <1>7 DEF BeginKeyTransfer, KeyOps
  <1>8. CASE BeginKeyRetire(s)
    <2>1. PICK u \in Users, k \in key, op \in {"keyRetire", "keyReplace"} :
            Begin(s, [op |-> op, user |-> u, saw |-> k])
      BY <1>8 DEF BeginKeyRetire
    <2>2. QED
      BY <1>1, <2>1 DEF KeyOps
  <1>9. CASE BeginWaveCreate(s)
    BY <1>3, <1>9 DEF BeginWaveCreate, KeyOps, WaveOps
  <1>10. CASE BeginWaveUpdate(s)
    BY <1>2, <1>10 DEF BeginWaveUpdate, WaveOps
  <1>11. CASE BeginWaveProgress(s)
    BY <1>2, <1>11 DEF BeginWaveProgress, WaveOps
  <1>12. CASE BeginWaveStart(s)
    BY <1>2, <1>12 DEF BeginWaveStart, WaveOps
  <1>13. CASE BeginWaveComplete(s)
    BY <1>2, <1>13 DEF BeginWaveComplete, WaveOps
  <1>14. CASE BeginDriver(s)
    <2>1. PICK u \in Users, d \in Drivers :
            /\ driver[d].status # "ABSENT"
            /\ \/ \E op \in {"driverUpdate", "driverArchive"} :
                     Begin(s, [op |-> op, user |-> u, driver |-> d])
               \/ Begin(s, [op |-> "driverReactivate", user |-> u, driver |-> d,
                            saw |-> driver[d]])
      BY <1>14 DEF BeginDriver
    <2>2. CASE \E op \in {"driverUpdate", "driverArchive"} :
                 Begin(s, [op |-> op, user |-> u, driver |-> d])
      BY <1>3, <2>2 DEF KeyOps, WaveOps
    <2>3. CASE Begin(s, [op |-> "driverReactivate", user |-> u, driver |-> d,
                         saw |-> driver[d]])
      BY <2>1, <2>3 DEF VersionedRequest, KeyOps, WaveOps
    <2>4. QED
      BY <2>1, <2>2, <2>3
  <1>15. CASE BeginVehicle(s)
    <2>1. \E r : Begin(s, r) /\ r.op \in {"vehicleArchive", "vehicleReactivate", "vehicleUpdate"}
      <3>1. PICK u \in Users, v \in Vehicles :
              \/ \E op \in {"vehicleArchive", "vehicleReactivate"} :
                    Begin(s, [op |-> op, user |-> u, vehicle |-> v])
              \/ \E n \in 0..MaxSlot :
                    Begin(s, [op |-> "vehicleUpdate", user |-> u, vehicle |-> v, keyCount |-> n])
        BY <1>15 DEF BeginVehicle
      <3>2. CASE \E op \in {"vehicleArchive", "vehicleReactivate"} :
                   Begin(s, [op |-> op, user |-> u, vehicle |-> v])
        BY <3>2
      <3>3. CASE \E n \in 0..MaxSlot :
                   Begin(s, [op |-> "vehicleUpdate", user |-> u, vehicle |-> v, keyCount |-> n])
        BY <3>3
      <3>4. QED
        BY <3>1, <3>2, <3>3
    <2>2. QED
      BY <1>3, <2>1 DEF KeyOps, WaveOps
  <1>16. QED
    BY <1>4, <1>5, <1>6, <1>7, <1>8, <1>9, <1>10, <1>11, <1>12, <1>13, <1>14, <1>15 DEF Arrive

(* A request under way has just arrived, or is what it was before but for  *)
(* the participants a start has read from its wave.                        *)
LEMMA RequestStep ==
    ASSUME Inductive, [Next]_vars, NEW s \in Sessions, UnderWay(s)'
    PROVE  \/ \E r : Begin(s, r) /\ VersionedRequest(r)
           \/ UnderWay(s) /\ req'[s] = req[s]
           \/ /\ UnderWay(s) /\ req[s].op = "waveStart" /\ req'[s].op = "waveStart"
              /\ req'[s].saw = req[s].saw
  <1> USE DEF Inductive
  <1>1. CASE \E t \in Sessions : Arrive(t)
    <2>1. PICK t \in Sessions : Arrive(t)
      BY <1>1
    <2>2. PICK r : Begin(t, r) /\ VersionedRequest(r)
      BY <2>1, ArriveVersioned
    <2>3. t # s => UnderWay(s) /\ req'[s] = req[s]
      BY <2>2 DEF Begin, UnderWay, TypeInv, TypeOK
    <2>4. QED
      BY <2>2, <2>3
  <1>2. CASE \E t \in Sessions : LockRow(t)
    BY <1>2 DEF LockRow, UnderWay
  <1>3. CASE \E t \in Sessions : LockWave(t)
    <2>1. PICK t \in Sessions : LockWave(t)
      BY <1>3
    <2>2. PICK w \in wave : req' = [req EXCEPT ![t] = [req[t] EXCEPT !.pairs = w.pairs]]
      BY <2>1 DEF LockWave
    <2>3. phase' = phase /\ req[t].op = "waveStart" /\ req[t] \in Request
      BY <2>1 DEF LockWave, TypeInv, Busy, UnderWay
    <2>4. [req[t] EXCEPT !.pairs = w.pairs].op = "waveStart"
          /\ [req[t] EXCEPT !.pairs = w.pairs].saw = req[t].saw
      BY <2>3, RequestShape DEF WaveRequest
    <2>5. QED
      BY <2>2, <2>3, <2>4 DEF UnderWay, TypeInv, TypeOK
  <1>4. CASE \E t \in Sessions : Check(t) \/ Authorise(t) \/ Refuse(t) \/ Commit(t) \/ Abort(t)
    BY <1>4
    DEF Check, Ready, Authorise, Rechecking, Refuse, Commit, Abort, End, UnderWay, TypeInv, TypeOK
  <1>5. CASE CreateDriver \/ CreateVehicle \/ ChangeAccount \/ UNCHANGED vars
    BY <1>5 DEF CreateDriver, CreateVehicle, ChangeAccount, txVars, vars, UnderWay
  <1>6. QED
    BY <1>1, <1>2, <1>3, <1>4, <1>5 DEF Next, Lock

(* A client changes only what it saw: a transaction that has passed the    *)
(* version check of mutateKey or mutateWave, or compared updatedAt in      *)
(* reactivateDriver, is about a row exactly as its client had loaded it.   *)
THEOREM LostUpdatesExcluded == Spec => []NoLostUpdate
  <1>1. Init => Versioned
    BY DEF Init, Versioned, UnderWay
  <1>2. Versioned /\ Inductive /\ [Next]_vars => Versioned'
    <2>1. SUFFICES ASSUME Versioned, Inductive, [Next]_vars, NEW s \in Sessions, UnderWay(s)'
                   PROVE  VersionedRequest(req[s])'
      BY DEF Versioned
    <2>2. CASE \E r : Begin(s, r) /\ VersionedRequest(r)
      <3>1. PICK r : Begin(s, r) /\ VersionedRequest(r)
        BY <2>2
      <3>2. req'[s] = r /\ UNCHANGED tables
        BY <2>1, <3>1 DEF Begin, Inductive, TypeInv, TypeOK
      <3>3. QED
        BY <3>1, <3>2 DEF VersionedRequest, tables
    <2>3. CASE UnderWay(s)
      <3>1. req[s] \in Request /\ AnchoredRequest(req[s]) /\ VersionedRequest(req[s])
        BY <2>1, <2>3 DEF Inductive, TypeInv, Busy, Anchored, Versioned
      <3>2. \A r \in Request : r = req[s] => VersionedRequest(r)'
        BY <2>1, <3>1, VersionsStep
      <3>3. CASE req'[s] = req[s]
        BY <3>1, <3>2, <3>3 DEF VersionedRequest
      <3>4. CASE /\ req[s].op = "waveStart" /\ req'[s].op = "waveStart"
                 /\ req'[s].saw = req[s].saw
        BY <3>1, <3>2, <3>4 DEF VersionedRequest, WaveOps, KeyOps
      <3>5. CASE \E r : Begin(s, r) /\ VersionedRequest(r)
        BY <2>2, <3>5
      <3>6. QED
        BY <2>1, <3>3, <3>4, <3>5, RequestStep
    <2>4. QED
      BY <2>1, <2>2, <2>3, RequestStep
  <1>3. Versioned /\ Inductive => NoLostUpdate
    <2>1. SUFFICES ASSUME Versioned, Inductive, NEW s \in Sessions, Passed(s)
                   PROVE  /\ req[s].op \in KeyOps => req[s].saw \in key
                          /\ req[s].op \in WaveOps => req[s].saw \in wave
                          /\ req[s].op = "driverReactivate" => req[s].saw = driver[req[s].driver]
      BY DEF NoLostUpdate, Passed, KeyOps, WaveOps
    <2>2. /\ req[s] \in Request /\ VersionedRequest(req[s]) /\ Admissible(req[s])
      BY <2>1 DEF Inductive, TypeInv, Busy, UnderWay, Passed, ChecksStillHold, Versioned
    <2>3. TablesOK
      BY <2>1 DEF Inductive, TypeInv, TypeOK, TablesOK
    <2>4. req[s].op \in KeyOps => req[s].saw \in key
      <3>1. SUFFICES ASSUME req[s].op \in KeyOps PROVE req[s].saw \in key
        OBVIOUS
      <3>2. PICK k \in key : Current(req[s], k)
        BY <2>2, <3>1 DEF Admissible, CanTransferKey, CanRetireKey, KeyOps
      <3>3. k.version \in Nat
        BY <2>3 DEF TablesOK, KeyRow
      <3>4. QED
        BY <2>2, <3>1, <3>2, <3>3 DEF VersionedRequest, Current
    <2>5. req[s].op \in WaveOps => req[s].saw \in wave
      <3>1. SUFFICES ASSUME req[s].op \in WaveOps PROVE req[s].saw \in wave
        OBVIOUS
      <3>2. PICK w \in wave, status \in {"PLANNED", "ACTIVE"} : InStatus(req[s], w, status)
        BY <2>2, <3>1
        DEF Admissible, CanUpdateWave, CanProgressWave, CanStartWave, CanCompleteWave, WaveOps
      <3>3. w.version \in Nat
        BY <2>3 DEF TablesOK, WaveRow
      <3>4. QED
        BY <2>2, <3>1, <3>2, <3>3 DEF VersionedRequest, InStatus
    <2>6. req[s].op = "driverReactivate" => req[s].saw = driver[req[s].driver]
      <3>1. SUFFICES ASSUME req[s].op = "driverReactivate"
                     PROVE  req[s].saw = driver[req[s].driver]
        OBVIOUS
      <3>2. driver[req[s].driver].rev = req[s].saw.rev /\ req[s].driver \in Drivers
        BY <2>2, <3>1, RequestShape DEF Admissible, CanReactivateDriver, RegistryRequest
      <3>3. driver[req[s].driver].rev \in Nat
        BY <2>3, <3>2 DEF TablesOK, DriverRow
      <3>4. QED
        BY <2>2, <3>1, <3>2, <3>3 DEF VersionedRequest
    <2>7. QED
      BY <2>4, <2>5, <2>6
  <1>4. QED
    BY <1>1, <1>2, <1>3, Invariance, PTL DEF Spec

-----------------------------------------------------------------------------
(* A vehicle of the fleet has one open service period, another has none:   *)
(* archival and reactivation come in turns, whoever calls them.            *)
THEOREM ServicePeriodsSound == Spec => []ServicePeriodOpen
  <1>1. Init => ServicePeriodOpen
    BY DEF Init, ServicePeriodOpen, FreshVehicle, VehicleActive
  <1>2. ServicePeriodOpen /\ Inductive /\ [Next]_vars => ServicePeriodOpen'
    <2>1. SUFFICES ASSUME ServicePeriodOpen, Inductive, [Next]_vars PROVE ServicePeriodOpen'
      OBVIOUS
    <2>2. TablesOK
      BY <2>1 DEF Inductive, TypeInv, TypeOK, TablesOK
    <2>3. CASE UNCHANGED vehicle
      BY <2>1, <2>3 DEF ServicePeriodOpen, VehicleActive
    <2>4. CASE CreateVehicle
      <3>1. PICK v \in Vehicles, retired \in BOOLEAN :
              vehicle' = [vehicle EXCEPT ![v] =
                 [status |-> IF retired THEN "INACTIVE" ELSE "ACTIVE",
                  periods |-> IF retired THEN 0 ELSE 1]]
        BY <2>4, Zenon DEF CreateVehicle
      <3>2. QED
        BY <2>1, <2>2, <3>1 DEF ServicePeriodOpen, VehicleActive, TablesOK
    <2>5. CASE \E s \in Sessions : \E r : Served(s, r)
      <3>1. PICK s, r : Served(s, r)
        BY <2>5
      <3>2. CASE r.op \in {"vehicleArchive", "vehicleReactivate"}
        <4>1. r.vehicle \in Vehicles
          BY <3>1, <3>2, RequestShape DEF Served, RegistryRequest
        <4>2. CASE r.op = "vehicleArchive"
          BY <2>1, <2>2, <3>1, <4>1, <4>2
          DEF Served, Write, ArchiveVehicle, ServicePeriodOpen, VehicleActive, TablesOK
        <4>3. CASE r.op = "vehicleReactivate"
          <5>1. vehicle[r.vehicle].status = "INACTIVE" /\ ReactivateVehicle(r)
            BY <3>1, <4>3 DEF Served, Admissible, CanReactivateVehicle, Write
          <5>2. vehicle[r.vehicle].periods = 0
            BY <2>1, <4>1, <5>1 DEF ServicePeriodOpen, VehicleActive
          <5>3. QED
            BY <2>1, <2>2, <4>1, <5>1, <5>2
            DEF ReactivateVehicle, ServicePeriodOpen, VehicleActive, TablesOK
        <4>4. QED
          BY <3>2, <4>2, <4>3
      <3>3. QED
        BY <2>3, <3>1, <3>2, WriteFrame DEF Served
    <2>6. QED
      BY <2>1, <2>3, <2>4, <2>5, TableStep DEF tables, CreateDriver, ChangeAccount
  <1>3. QED
    BY <1>1, <1>2, Invariance, PTL DEF Spec

(* An active driver account belongs to an active driver, whatever order    *)
(* archivals and account changes commit in.                                *)
THEOREM AccountsSound == Spec => []AccountNeedsDriver
  <1>1. Init => AccountNeedsDriver
    BY FleetAssumption DEF Init, AccountNeedsDriver, FreshDriver, DriverActive
  <1>2. AccountNeedsDriver /\ Inductive /\ [Next]_vars => AccountNeedsDriver'
    <2>1. SUFFICES ASSUME AccountNeedsDriver, Inductive, [Next]_vars, NEW d \in Drivers,
                          AccountOf[d] # Nil, member'[AccountOf[d]].active,
                          member'[AccountOf[d]].role = "DRIVER"
                   PROVE  DriverActive(d)'
      BY DEF AccountNeedsDriver
    <2>2. TablesOK /\ AccountOf[d] \in Users
      BY <2>1, FleetAssumption DEF Inductive, TypeInv, TypeOK, TablesOK
    <2>3. CASE UNCHANGED <<driver, member>>
      BY <2>1, <2>3 DEF AccountNeedsDriver, DriverActive
    <2>4. CASE CreateDriver
      BY <2>1, <2>2, <2>4 DEF CreateDriver, AccountNeedsDriver, DriverActive, TablesOK
    <2>5. CASE ChangeAccount
      <3>1. PICK u \in Users, role \in Roles, active \in BOOLEAN :
              /\ role = "DRIVER" => \E e \in Drivers :
                    AccountOf[e] = u /\ (active => DriverActive(e))
              /\ member' = [member EXCEPT ![u] = [role |-> role, active |-> active]]
              /\ UNCHANGED driver
        BY <2>5 DEF ChangeAccount
      <3>2. CASE u = AccountOf[d]
        BY <2>1, <2>2, <3>1, <3>2, FleetAssumption DEF TablesOK, DriverActive
      <3>3. CASE u # AccountOf[d]
        BY <2>1, <2>2, <3>1, <3>3 DEF TablesOK, DriverActive, AccountNeedsDriver
      <3>4. QED
        BY <3>2, <3>3
    <2>6. CASE \E s \in Sessions : \E r : Served(s, r)
      <3>1. PICK s, r : Served(s, r)
        BY <2>6
      <3>2. CASE r.op = "driverArchive"
        <4>1. ArchiveDriver(s, r) /\ r.driver \in Drivers
          BY <3>1, <3>2, RequestShape DEF Served, Write, RegistryRequest
        <4>2. \A u \in Users : member'[u] = member[u] \/ ~ member'[u].active
          BY <2>2, <4>1 DEF ArchiveDriver, TablesOK, MemberRow
        <4>3. DriverActive(d) /\ member[AccountOf[d]].role = "DRIVER"
          BY <2>1, <2>2, <4>2 DEF AccountNeedsDriver
        <4>4. d # r.driver
          BY <2>1, <2>2, <4>1, <4>3 DEF ArchiveDriver, TablesOK, MemberRow
        <4>5. QED
          BY <2>2, <4>1, <4>3, <4>4 DEF ArchiveDriver, TablesOK, DriverActive
      <3>3. CASE r.op # "driverArchive"
        <4>1. UNCHANGED member
          BY <3>1, <3>3
          DEF Served, Write, Assign, Close, CreateKey, TransferKey, RetireKey, CreateWave,
              UpdateWave, ProgressWave, StartWave, CompleteWave, Put, UpdateDriver,
              ReactivateDriver, UpdateVehicle, ArchiveVehicle, ReactivateVehicle, tables
        <4>2. DriverActive(d)
          BY <2>1, <4>1 DEF AccountNeedsDriver
        <4>3. CASE r.op \in {"driverUpdate", "driverReactivate"}
          <5>1. r.driver \in Drivers
            BY <3>1, <4>3, RequestShape DEF Served, RegistryRequest
          <5>2. \A e \in Drivers : driver[e] \in DriverRow
            BY <2>2 DEF TablesOK
          <5>3. QED
            BY <2>2, <3>1, <4>2, <4>3, <5>1, <5>2
            DEF Served, Write, UpdateDriver, ReactivateDriver, DriverActive, TablesOK, DriverRow
        <4>4. QED
          BY <3>1, <3>3, <4>2, <4>3, WriteFrame DEF Served, DriverActive
      <3>4. QED
        BY <3>2, <3>3
    <2>7. QED
      BY <2>1, <2>3, <2>4, <2>5, <2>6, TableStep DEF tables, CreateVehicle
  <1>3. QED
    BY <1>1, <1>2, Invariance, PTL DEF Spec

(* Vehicles and drivers are in at most one pair at work.                   *)
THEOREM PairsAlwaysExclusive == Spec => []PairsExclusive
  <1>1. OneOpenAssignment /\ OneActiveWave => PairsExclusive
    BY DEF PairsExclusive
  <1>2. QED
    BY <1>1, AssignmentsExclusive, ToursExclusive, PTL

(* Nobody leaves the fleet with something outstanding or a period open.    *)
THEOREM LeavingSettles == Spec => []LeavesSettled
  <1>1. ArchivedHoldsNothing /\ ServicePeriodOpen => LeavesSettled
    BY DEF LeavesSettled
  <1>2. QED
    BY <1>1, ArchivedIdle, ServicePeriodsSound, PTL

-----------------------------------------------------------------------------
(* What is over stays over.                                                *)

LEMMA RowsOutlive ==
    ASSUME TablesOK, Identified, NEW s, NEW r, Served(s, r)
    PROVE  /\ \A a \in assignment : ~ a.open => a \in assignment'
           /\ \A k \in key : k.status = "RETIRED" => k \in key'
           /\ \A w \in wave : w.status = "COMPLETED" => w \in wave'
           /\ \A a \in assignment : \E b \in assignment' :
                 b.id = a.id /\ b.vehicle = a.vehicle /\ b.driver = a.driver
           /\ \A k \in key : \E j \in key' : j.id = k.id /\ j.vehicle = k.vehicle
  <1>1. /\ \A a \in assignment : ~ a.open => a \in assignment'
        /\ \A a \in assignment : \E b \in assignment' :
              b.id = a.id /\ b.vehicle = a.vehicle /\ b.driver = a.driver
    <2>1. CASE r.op = "assign"
      BY <2>1 DEF Served, Write, Assign
    <2>2. CASE r.op = "close"
      <3>1. PICK a \in OpenAssignments :
              assignment' = (assignment \ {a}) \cup {[a EXCEPT !.open = FALSE]}
        BY <2>2 DEF Served, Write, Close
      <3>2. a \in AssignmentRow /\ a.open
        BY <3>1 DEF OpenAssignments, TablesOK
      <3>3. PICK b : b = [a EXCEPT !.open = FALSE]
        OBVIOUS
      <3>4. b.id = a.id /\ b.vehicle = a.vehicle /\ b.driver = a.driver
        BY <3>2, <3>3 DEF AssignmentRow
      <3>5. QED
        BY <3>1, <3>2, <3>3, <3>4
    <2>3. CASE r.op \notin {"assign", "close"}
      BY <2>3, WriteFrame DEF Served
    <2>4. QED
      BY <2>1, <2>2, <2>3
  <1>2. /\ \A k \in key : k.status = "RETIRED" => k \in key'
        /\ \A k \in key : \E j \in key' : j.id = k.id /\ j.vehicle = k.vehicle
    <2>1. CASE r.op = "keyCreate"
      BY <2>1 DEF Served, Write, CreateKey
    <2>2. CASE r.op \in {"keyTransfer", "keyRetire", "keyReplace"}
      <3>1. PICK k \in key, row \in KeyRow, added \in SUBSET KeyRow :
              /\ Current(r, k)
              /\ key' = (key \ {k}) \cup {row} \cup added
              /\ row.id = k.id /\ row.vehicle = k.vehicle
        BY <2>2, KeyChange DEF Served, Write
      <3>2. k.status # "RETIRED"
        BY <3>1 DEF Current
      <3>3. QED
        BY <3>1, <3>2
    <2>3. CASE r.op \notin {"keyCreate", "keyTransfer", "keyRetire", "keyReplace"}
      BY <2>3, WriteFrame DEF Served
    <2>4. QED
      BY <2>1, <2>2, <2>3
  <1>3. \A w \in wave : w.status = "COMPLETED" => w \in wave'
    <2>1. CASE r.op = "waveCreate"
      BY <2>1 DEF Served, Write, CreateWave
    <2>2. CASE r.op \in {"waveUpdate", "waveProgress", "waveStart", "waveComplete"}
      <3>1. PICK w \in wave, row \in WaveRow :
              w.id = r.saw.id /\ wave' = (wave \ {w}) \cup {row}
        BY <2>2, WaveChange DEF Served, Write
      <3>2. PICK x \in wave, status \in {"PLANNED", "ACTIVE"} : InStatus(r, x, status)
        BY <2>2 DEF Served, Admissible, CanUpdateWave, CanProgressWave, CanStartWave,
                    CanCompleteWave
      <3>3. w.status # "COMPLETED"
        BY <3>1, <3>2 DEF InStatus, Identified
      <3>4. QED
        BY <3>1, <3>3
    <2>3. CASE r.op \notin {"waveCreate", "waveUpdate", "waveProgress", "waveStart",
                            "waveComplete"}
      BY <2>3, WriteFrame DEF Served
    <2>4. QED
      BY <2>1, <2>2, <2>3
  <1>4. QED
    BY <1>1, <1>2, <1>3

(* No operation of assignVehicle, mutateFleet, mutateKey or mutateWave     *)
(* reopens what is closed: ended assignments, retired keys and completed   *)
(* waves never change, and no assignment or key disappears.                *)
THEOREM HistoryStays == Spec => HistoryFrozen
  <1> DEFINE Frozen == /\ \A a \in assignment : ~ a.open => a \in assignment'
                       /\ \A k \in key : k.status = "RETIRED" => k \in key'
                       /\ \A w \in wave : w.status = "COMPLETED" => w \in wave'
                       /\ \A a \in assignment : \E b \in assignment' :
                             b.id = a.id /\ b.vehicle = a.vehicle /\ b.driver = a.driver
                       /\ \A k \in key : \E j \in key' : j.id = k.id /\ j.vehicle = k.vehicle
  <1>1. Inductive /\ [Next]_vars => [Frozen]_tables
    <2>1. SUFFICES ASSUME Inductive, [Next]_vars PROVE Frozen \/ UNCHANGED tables
      OBVIOUS
    <2>2. TablesOK /\ Identified
      BY <2>1 DEF Inductive, TypeInv, TypeOK, TablesOK
    <2>3. CASE \E s \in Sessions : \E r : Served(s, r)
      BY <2>2, <2>3, RowsOutlive
    <2>4. CASE CreateVehicle
      BY <2>2, <2>4, NewVehicle
    <2>5. CASE CreateDriver \/ ChangeAccount
      BY <2>5 DEF CreateDriver, ChangeAccount
    <2>6. QED
      BY <2>1, <2>3, <2>4, <2>5, TableStep
  <1>2. QED
    BY <1>1, Invariance, PTL DEF Spec, HistoryFrozen


-----------------------------------------------------------------------------
(* The order of the row locks.                                             *)

LEMMA PrecedesOrders ==
    ASSUME NEW p \in Rows, NEW q \in Rows, NEW r \in Rows
    PROVE  /\ ~ Precedes(p, p)
           /\ Precedes(p, q) => ~ Precedes(q, p)
           /\ Precedes(p, q) /\ Precedes(q, r) => Precedes(p, r)
  <1>1. \A x \in Rows : /\ x[1] \in {"wave", "vehicle", "driver", "member"}
                        /\ x[1] \in {"vehicle", "driver"} => Pos[x[2]] \in Nat
    BY FleetAssumption DEF Rows
  <1>2. /\ TableRank["wave"] = 1 /\ TableRank["vehicle"] = 2 /\ TableRank["driver"] = 3
        /\ TableRank["member"] = 4
    BY DEF TableRank
  <1>3. QED
    BY <1>1, <1>2 DEF Precedes

(* A transaction takes its locks in this order, and finitely many          *)
(* transactions are under way.                                             *)
LockOrder == \A s \in Sessions : \A p \in held[s], q \in todo[s] : Precedes(p, q)
Quiet     == \A s \in Sessions : phase[s] = "idle" => todo[s] = {}
Working   == {s \in Sessions : phase[s] # "idle"}
QueueInv  == LockOrder /\ Quiet /\ IsFiniteSet(Working)

LEMMA QueueStep ==
    ASSUME Inductive, QueueInv, [Next]_vars
    PROVE  QueueInv'
  <1>0. /\ phase \in [Sessions -> {"idle", "locking", "checked", "authorised"}]
        /\ todo \in [Sessions -> SUBSET Rows] /\ held \in [Sessions -> SUBSET Rows]
        /\ req \in [Sessions -> Request \cup {Nil}]
    BY DEF Inductive, TypeInv, TypeOK
  <1>1. ASSUME NEW s \in Sessions, Arrive(s) PROVE QueueInv'
    <2>1. PICK r : Begin(s, r)
      BY <1>1, ArriveAnchored DEF Inductive
    <2>2. held[s] = {}
      BY <1>1 DEF Arrive, Inductive, Covered, UnderWay
    <2>3. LockOrder' /\ Quiet'
      BY <1>0, <2>1, <2>2 DEF Begin, QueueInv, LockOrder, Quiet
    <2>4. Working' \subseteq Working \cup {s}
      BY <1>0, <2>1 DEF Begin, Working
    <2>5. QED
      BY <2>3, <2>4, OneMore DEF QueueInv
  <1>2. ASSUME NEW s \in Sessions, LockRow(s) PROVE QueueInv'
    <2>1. PICK row \in todo[s] :
            /\ phase[s] = IF row[1] = "member" THEN "checked" ELSE "locking"
            /\ \A q \in todo[s] \ {row} : Precedes(row, q)
            /\ held' = [held EXCEPT ![s] = @ \cup {row}]
            /\ todo' = [todo EXCEPT ![s] = @ \ {row}]
            /\ UNCHANGED phase
      BY <1>2 DEF LockRow
    <2>2. LockOrder'
      BY <1>0, <2>1 DEF QueueInv, LockOrder
    <2>3. Quiet' /\ Working' = Working
      BY <1>0, <2>1 DEF QueueInv, Quiet, Working
    <2>4. QED
      BY <2>2, <2>3 DEF QueueInv
  <1>3. ASSUME NEW s \in Sessions, LockWave(s) PROVE QueueInv'
    <2> DEFINE first == <<"wave", req[s].saw.id>>
    <2>1. PICK w \in wave :
            /\ w.id = req[s].saw.id
            /\ todo' = [todo EXCEPT ![s] =
                           Locks([req[s] EXCEPT !.pairs = w.pairs]) \ {<<"wave", w.id>>}]
            /\ first \in todo[s] /\ phase[s] = "locking" /\ req[s].op = "waveStart"
            /\ held' = [held EXCEPT ![s] = @ \cup {first}]
            /\ UNCHANGED phase
      BY <1>3 DEF LockWave
    <2>2. held[s] = {}
      <3>1. SUFFICES ASSUME NEW p \in held[s] PROVE FALSE
        OBVIOUS
      <3>2. p \in Rows /\ Precedes(p, first)
        BY <1>0, <2>1 DEF QueueInv, LockOrder
      <3>3. p[1] \in {"wave", "vehicle", "driver", "member"}
        BY <3>2 DEF Rows
      <3>4. QED
        BY <3>2, <3>3 DEF Precedes, TableRank
    <2>3. PICK r : r = [req[s] EXCEPT !.pairs = w.pairs]
      OBVIOUS
    <2>4. req[s] \in WaveRequest /\ req[s].op = "waveStart"
      BY <1>0, <2>1, RequestShape DEF Inductive, TypeInv, Busy, UnderWay
    <2>5. r.op = "waveStart" /\ r.saw = req[s].saw
      BY <2>3, <2>4 DEF WaveRequest
    <2>6. \A q \in Locks(r) \ {first} : Precedes(first, q)
      <3>1. SUFFICES ASSUME NEW q \in Locks(r), q # first PROVE Precedes(first, q)
        OBVIOUS
      <3>2. q[1] \in {"vehicle", "driver", "member"}
        BY <2>5, <3>1 DEF Locks, LocksOnRows, LocksWave
      <3>3. QED
        BY <3>2 DEF Precedes, TableRank
    <2>7. LockOrder'
      BY <1>0, <2>1, <2>2, <2>3, <2>6 DEF QueueInv, LockOrder
    <2>8. Quiet' /\ Working' = Working
      BY <1>0, <2>1 DEF QueueInv, Quiet, Working
    <2>9. QED
      BY <2>7, <2>8 DEF QueueInv
  <1>4. ASSUME NEW s \in Sessions, Check(s) \/ Authorise(s) PROVE QueueInv'
    <2>1. phase[s] # "idle" /\ UNCHANGED <<todo, held>>
          /\ \E p \in {"checked", "authorised"} : phase' = [phase EXCEPT ![s] = p]
      BY <1>4 DEF Check, Authorise, Ready, Rechecking
    <2>2. Working' = Working /\ Quiet' /\ LockOrder'
      BY <1>0, <2>1 DEF QueueInv, Quiet, Working, LockOrder
    <2>3. QED
      BY <2>2 DEF QueueInv
  <1>5. ASSUME NEW s \in Sessions, End(s) PROVE QueueInv'
    <2>1. LockOrder' /\ Quiet' /\ Working' \subseteq Working
      BY <1>0, <1>5 DEF End, QueueInv, Quiet, Working, LockOrder
    <2>2. QED
      BY <2>1, FS_Subset DEF QueueInv
  <1>6. CASE UNCHANGED txVars
    BY <1>6 DEF txVars, QueueInv, LockOrder, Quiet, Working
  <1>7. QED
    BY <1>1, <1>2, <1>3, <1>4, <1>5, <1>6
    DEF Next, Lock, Refuse, Commit, Abort, CreateDriver, CreateVehicle, ChangeAccount, vars,
        txVars

(* No set of transactions of assignVehicle, mutateFleet, mutateKey and     *)
(* mutateWave can wait for itself: waves come before vehicles, vehicles    *)
(* before drivers, both sorted, and the membership comes last.             *)
THEOREM DeadlockFree == Spec => []NoDeadlock
  <1>1. Init => QueueInv
    <2>1. ASSUME Init PROVE LockOrder /\ Quiet /\ Working = {}
      BY <2>1 DEF Init, LockOrder, Quiet, Working
    <2>2. QED
      BY <2>1, FS_EmptySet DEF QueueInv
  <1>2. Inductive /\ QueueInv => NoDeadlock
    <2>1. SUFFICES ASSUME Inductive, QueueInv, NEW W \in SUBSET Sessions, W # {},
                          \A s \in W : \E t \in W : Waits(s, t)
                   PROVE  FALSE
      BY DEF NoDeadlock
    <2> DEFINE Next1(s, p) == p \in todo[s] /\ \A q \in todo[s] \ {p} : Precedes(p, q)
               R == {st \in W \X W : \E p, q \in Rows : /\ Next1(st[1], p)
                                                        /\ Next1(st[2], q)
                                                        /\ Precedes(p, q)}
    <2>2. \A s \in W : todo[s] \subseteq Rows /\ held[s] \subseteq Rows
      BY <2>1 DEF Inductive, TypeInv, TypeOK
    <2>3. \A s \in W : \E p \in Rows : Next1(s, p)
      BY <2>1, <2>2 DEF Waits
    <2>4. \A s \in W : \A p, q \in Rows : Next1(s, p) /\ Next1(s, q) => p = q
      BY PrecedesOrders
    <2>5. \A s \in W : \E t \in W : <<s, t>> \in R
      <3>1. SUFFICES ASSUME NEW s \in W PROVE \E t \in W : <<s, t>> \in R
        OBVIOUS
      <3>2. PICK t \in W : Waits(s, t)
        BY <2>1
      <3>3. PICK p \in Rows : Next1(s, p) /\ p \in held[t]
        BY <2>2, <3>2 DEF Waits
      <3>4. PICK q \in Rows : Next1(t, q)
        BY <2>3
      <3>5. Precedes(p, q)
        BY <2>1, <3>3, <3>4 DEF QueueInv, LockOrder
      <3>6. QED
        BY <3>3, <3>4, <3>5
    <2>6. IsFiniteSet(W)
      <3>1. W \subseteq Working
        BY <2>1, <2>3 DEF QueueInv, Quiet, Working
      <3>2. IsFiniteSet(Working)
        BY <2>1 DEF QueueInv
      <3>3. QED
        BY <3>1, <3>2, FS_Subset
    <2>7. \A s \in W : <<s, s>> \notin R
      BY <2>4, PrecedesOrders
    <2>8. \A s, t, u \in W : <<s, t>> \in R /\ <<t, u>> \in R => <<s, u>> \in R
      <3>1. SUFFICES ASSUME NEW s \in W, NEW t \in W, NEW u \in W,
                            <<s, t>> \in R, <<t, u>> \in R
                     PROVE  <<s, u>> \in R
        OBVIOUS
      <3>2. PICK p \in Rows, q \in Rows : Next1(s, p) /\ Next1(t, q) /\ Precedes(p, q)
        BY <3>1
      <3>3. PICK x \in Rows, y \in Rows : Next1(t, x) /\ Next1(u, y) /\ Precedes(x, y)
        BY <3>1
      <3>4. q = x
        BY <2>4, <3>2, <3>3
      <3>5. Precedes(p, y)
        BY <3>2, <3>3, <3>4, PrecedesOrders
      <3>6. QED
        BY <3>2, <3>3, <3>5
    <2>9. QED
      <3> HIDE DEF R
      <3>1. \E s \in W : \A t \in W : <<s, t>> \notin R
        BY <2>1, <2>6, <2>7, <2>8, MaximalElement
      <3>2. QED
        BY <2>5, <3>1
  <1>3. Inductive /\ QueueInv /\ [Next]_vars => QueueInv'
    BY QueueStep
  <1>4. QED
    BY <1>1, <1>2, <1>3, Invariance, PTL DEF Spec

-----------------------------------------------------------------------------
(* Fleet implements Custody.  What Custody sees of the tables:             *)

Serving == {v \in Vehicles : VehicleActive(v)}
Crew    == {d \in Drivers : DriverActive(d)}
Driven  == {<<a.vehicle, a.driver>> : a \in OpenAssignments}
Handed  == {[key |-> k.id, vehicle |-> k.vehicle, driver |-> k.holder] :
               k \in {x \in key : x.holder \in Drivers}}
Touring == {[wave |-> w.id, pairs |-> w.pairs] : w \in ActiveWaves}

seen == <<Serving, Crew, Driven, Handed, Touring>>

LEMMA Unseen ==
    /\ UNCHANGED vehicle => UNCHANGED Serving
    /\ UNCHANGED driver => UNCHANGED Crew
    /\ UNCHANGED assignment => UNCHANGED Driven
    /\ UNCHANGED key => UNCHANGED Handed
    /\ UNCHANGED wave => UNCHANGED Touring
  BY DEF Serving, Crew, Driven, Handed, Touring, VehicleActive, DriverActive,
         OpenAssignments, ActiveWaves

LEMMA HandedMeans ==
    ASSUME NEW o
    PROVE  o \in Handed <=> \E k \in key : /\ k.holder \in Drivers
                                           /\ o = [key |-> k.id, vehicle |-> k.vehicle,
                                                   driver |-> k.holder]
  BY DEF Handed

LEMMA TouringMeans ==
    ASSUME NEW t
    PROVE  t \in Touring <=> \E w \in wave : /\ w.status = "ACTIVE"
                                             /\ t = [wave |-> w.id, pairs |-> w.pairs]
  BY DEF Touring, ActiveWaves

(* assignVehicle hands a vehicle over or takes it back.                    *)
LEMMA AssignmentSeen ==
    ASSUME TablesOK, Identified, OneOpenAssignment, NEW s, NEW r, Served(s, r),
           r.op \in {"assign", "close"}
    PROVE  Abstract!CustodyNext
  <1>1. UNCHANGED <<Serving, Crew, Handed, Touring>>
    BY Unseen, WriteFrame DEF Served
  <1>2. CASE r.op = "assign"
    <2>1. CanAssign(r) /\ Assign(r) /\ r.vehicle \in Vehicles /\ r.driver \in Drivers
      BY <1>2, RequestShape DEF Served, Admissible, Write, AssignRequest
    <2>2. PICK i : assignment' = assignment \cup {[id |-> i, vehicle |-> r.vehicle,
                                                   driver |-> r.driver, open |-> TRUE]}
      BY <2>1 DEF Assign
    <2> DEFINE a == [id |-> i, vehicle |-> r.vehicle, driver |-> r.driver, open |-> TRUE]
    <2>3. a.open /\ a.vehicle = r.vehicle /\ a.driver = r.driver
      OBVIOUS
    <2>4. OpenAssignments' = OpenAssignments \cup {a}
      BY <2>2, <2>3 DEF OpenAssignments
    <2>5. Driven' = Driven \cup {<<r.vehicle, r.driver>>}
      BY <2>3, <2>4 DEF Driven
    <2>6. r.vehicle \in Serving /\ r.driver \in Crew
          /\ \A p \in Driven : p[1] # r.vehicle /\ p[2] # r.driver
      BY <2>1 DEF CanAssign, Serving, Crew, Driven
    <2>7. Abstract!HandOver(r.vehicle, r.driver)
      BY <1>1, <2>5, <2>6 DEF Abstract!HandOver, Serving, Crew, Driven, Handed, Touring
    <2>8. QED
      BY <2>1, <2>7 DEF Abstract!CustodyNext
  <1>3. CASE r.op = "close"
    <2>1. PICK a \in OpenAssignments :
            assignment' = (assignment \ {a}) \cup {[a EXCEPT !.open = FALSE]}
      BY <1>3 DEF Served, Write, Close
    <2>2. a \in AssignmentRow /\ [a EXCEPT !.open = FALSE].open = FALSE
      BY <2>1 DEF TablesOK, AssignmentRow, OpenAssignments
    <2>3. OpenAssignments' = OpenAssignments \ {a}
      BY <2>1, <2>2 DEF OpenAssignments
    <2>4. \A b \in OpenAssignments : <<b.vehicle, b.driver>> = <<a.vehicle, a.driver>> => b = a
      BY <2>1 DEF OneOpenAssignment
    <2>5. Driven' = Driven \ {<<a.vehicle, a.driver>>}
      BY <2>1, <2>3, <2>4 DEF Driven
    <2>6. Abstract!Return(a.vehicle, a.driver)
      BY <1>1, <2>5 DEF Abstract!Return, Serving, Crew, Driven, Handed, Touring
    <2>7. a.vehicle \in Vehicles /\ a.driver \in Drivers
      BY <2>2 DEF AssignmentRow
    <2>8. QED
      BY <2>6, <2>7 DEF Abstract!CustodyNext
  <1>4. QED
    BY <1>2, <1>3

(* A transfer gives a key to a driver or back to the office; the other     *)
(* operations of mutateKey move no key.                                    *)
LEMMA KeySeen ==
    ASSUME TablesOK, Identified, NEW s, NEW r, Served(s, r),
           r.op \in {"keyCreate", "keyTransfer", "keyRetire", "keyReplace"}
    PROVE  Abstract!CustodyNext \/ UNCHANGED seen
  <1>1. UNCHANGED <<Serving, Crew, Driven, Touring>>
    BY Unseen, WriteFrame DEF Served
  <1>2. CASE r.op = "keyCreate"
    <2>1. PICK i \in KeyIds, slot \in 1..MaxSlot :
            key' = key \cup {FreshKey(i, r.vehicle, slot, Nil)}
      BY <1>2 DEF Served, Write, CreateKey
    <2>2. FreshKey(i, r.vehicle, slot, Nil).holder \notin Drivers
      BY FleetAssumption DEF FreshKey
    <2>3. {x \in key : x.holder \in Drivers}' = {x \in key : x.holder \in Drivers}
      BY <2>1, <2>2
    <2>4. QED
      BY <1>1, <2>3 DEF Handed, seen
  <1>3. CASE r.op \in {"keyTransfer", "keyRetire", "keyReplace"}
    <2>1. PICK k \in key, row \in KeyRow, added \in SUBSET KeyRow :
              /\ Current(r, k)
              /\ key' = (key \ {k}) \cup {row} \cup added
              /\ row.id = k.id /\ row.vehicle = k.vehicle
              /\ r.op = "keyTransfer" => row.holder = r.to /\ added = {}
              /\ r.op # "keyTransfer" => row.holder = k.holder
              /\ \/ added = {}
                 \/ \E i \in KeyIds : added = {FreshKey(i, k.vehicle, k.slot, k.id)}
      BY <1>3, KeyChange DEF Served, Write
    <2>2. \A x \in added : x.holder \notin Drivers
      BY <2>1, FleetAssumption DEF FreshKey
    <2>3. k.id \in KeyIds /\ k.vehicle \in Vehicles
      BY <2>1 DEF TablesOK, KeyRow
    <2>4. CASE r.op # "keyTransfer"
      <3>1. k.holder \notin Drivers
        BY <1>3, <2>1, <2>4 DEF Served, Admissible, CanRetireKey, Current, Identified
      <3>2. {x \in key : x.holder \in Drivers}' = {x \in key : x.holder \in Drivers}
        BY <2>1, <2>2, <2>4, <3>1
      <3>3. QED
        BY <1>1, <3>2 DEF Handed, seen
    <2>5. CASE r.op = "keyTransfer"
      <3>1. \A x \in key : x.id = k.id => x = k
        BY <2>1 DEF Identified
      <3>2. key' = (key \ {k}) \cup {row} /\ row.holder = r.to
        BY <2>1, <2>5
      <3>3. CASE r.to \in Drivers
        <4> DEFINE given == [key |-> k.id, vehicle |-> k.vehicle, driver |-> r.to]
        <4>1. DriverActive(r.to) /\ VehicleActive(r.saw.vehicle)
          BY <2>5, <3>3 DEF Served, Admissible, CanTransferKey
        <4>2. k.vehicle = r.saw.vehicle
          BY <2>1, <2>5 DEF Served, AnchoredRequest, Current, Identified
        <4>3. ASSUME NEW o
              PROVE  o \in Handed' <=> o = given \/ (o \in Handed /\ o.key # k.id)
          <5>1. o \in Handed' <=> \E x \in key' : /\ x.holder \in Drivers
                                                  /\ o = [key |-> x.id, vehicle |-> x.vehicle,
                                                          driver |-> x.holder]
            BY DEF Handed
          <5>2. CASE o \in Handed'
            <6>1. PICK x \in key' : /\ x.holder \in Drivers
                                    /\ o = [key |-> x.id, vehicle |-> x.vehicle,
                                            driver |-> x.holder]
              BY <5>1, <5>2
            <6>2. CASE x = row
              BY <2>1, <3>2, <5>2, <6>1, <6>2
            <6>3. CASE x \in key \ {k}
              BY <3>1, <5>2, <6>1, <6>3, HandedMeans
            <6>4. QED
              BY <3>2, <6>1, <6>2, <6>3
          <5>3. CASE o = given
            <6>1. row \in key' /\ row.holder \in Drivers
              BY <3>2, <3>3
            <6>2. o = [key |-> row.id, vehicle |-> row.vehicle, driver |-> row.holder]
              BY <2>1, <3>2, <5>3
            <6>3. QED
              BY <5>1, <5>3, <6>1, <6>2
          <5>4. CASE o \in Handed /\ o.key # k.id
            <6>1. PICK x \in key : /\ x.holder \in Drivers
                                   /\ o = [key |-> x.id, vehicle |-> x.vehicle,
                                           driver |-> x.holder]
              BY <5>4, HandedMeans
            <6>2. x \in key'
              BY <3>2, <5>4, <6>1
            <6>3. QED
              BY <5>1, <5>4, <6>1, <6>2
          <5>5. QED
            BY <5>2, <5>3, <5>4
        <4>4. Handed' = {o \in Handed : o.key # k.id} \cup {given}
          BY <4>3
        <4>5. Abstract!TakeKey(k.id, k.vehicle, r.to)
          BY <1>1, <2>3, <3>3, <4>1, <4>2, <4>4
          DEF Abstract!TakeKey, Serving, Crew, Driven, Handed, Touring
        <4>6. QED
          BY <2>3, <3>3, <4>5 DEF Abstract!CustodyNext
      <3>4. CASE r.to \notin Drivers
        <4>1. {x \in key : x.holder \in Drivers}' = {x \in key : x.holder \in Drivers} \ {k}
          BY <3>2, <3>4
        <4>2. Handed' = {o \in Handed : o.key # k.id}
          BY <3>1, <4>1 DEF Handed
        <4>3. Abstract!GiveBack(k.id)
          BY <1>1, <4>2 DEF Abstract!GiveBack, Serving, Crew, Driven, Handed, Touring
        <4>4. QED
          BY <2>3, <4>3 DEF Abstract!CustodyNext
      <3>5. QED
        BY <3>3, <3>4
    <2>6. QED
      BY <2>4, <2>5
  <1>4. QED
    BY <1>2, <1>3

(* A start of mutateWave is a departure and a completion a return; changes *)
(* of a plan, and progress, are not seen.                                  *)
LEMMA WaveSeen ==
    ASSUME TablesOK, Identified, NEW s, NEW r, Served(s, r),
           r.op \in {"waveCreate", "waveUpdate", "waveProgress", "waveStart", "waveComplete"}
    PROVE  Abstract!CustodyNext \/ UNCHANGED seen
  <1>1. UNCHANGED <<Serving, Crew, Driven, Handed>>
    BY Unseen, WriteFrame DEF Served
  <1>2. CASE r.op = "waveCreate"
    <2>1. PICK i : wave' = wave \cup {[id |-> i, status |-> "PLANNED", pairs |-> r.pairs,
                                       done |-> r.done, version |-> 1]}
      BY <1>2 DEF Served, Write, CreateWave
    <2>2. UNCHANGED ActiveWaves
      BY <2>1 DEF ActiveWaves
    <2>3. QED
      BY <1>1, <2>2 DEF Touring, seen
  <1>3. CASE r.op \in {"waveUpdate", "waveProgress", "waveStart", "waveComplete"}
    <2>1. PICK w \in wave, row \in WaveRow :
              /\ w.id = r.saw.id /\ row.id = w.id
              /\ wave' = (wave \ {w}) \cup {row}
              /\ r.op = "waveUpdate" => row.status = w.status
              /\ r.op = "waveProgress" => row.status = w.status /\ row.pairs = w.pairs
              /\ r.op = "waveStart" => row.status = "ACTIVE" /\ row.pairs = w.pairs
              /\ r.op = "waveComplete" => row.status = "COMPLETED"
      BY <1>3, WaveChange DEF Served, Write
    <2>2. w.id \in WaveIds /\ \A x \in wave : x.id = w.id => x = w
      BY <2>1 DEF TablesOK, WaveRow, Identified
    <2>3. CASE r.op = "waveUpdate"
      <3>1. w.status = "PLANNED"
        BY <2>1, <2>3 DEF Served, Admissible, CanUpdateWave, InStatus, Identified
      <3>2. UNCHANGED ActiveWaves
        BY <2>1, <2>3, <3>1 DEF ActiveWaves
      <3>3. QED
        BY <1>1, <3>2 DEF Touring, seen
    <2>4. CASE r.op = "waveProgress"
      <3>1. ActiveWaves' = (ActiveWaves \ {w}) \cup {x \in {row} : w.status = "ACTIVE"}
        BY <2>1, <2>4 DEF ActiveWaves
      <3>2. w.status = "ACTIVE" <=> w \in ActiveWaves
        BY <2>1 DEF ActiveWaves
      <3>3. UNCHANGED Touring
        BY <2>1, <2>4, <3>1, <3>2 DEF Touring
      <3>4. QED
        BY <1>1, <3>3 DEF seen
    <2>5. CASE r.op = "waveStart"
      <3>1. w.status = "PLANNED" /\ CanStartWave(r) /\ w.pairs = r.pairs
        BY <2>1, <2>5 DEF Served, Admissible, CanStartWave, InStatus, Identified, StartPairs
      <3>2. ActiveWaves' = ActiveWaves \cup {row}
        BY <2>1, <2>5, <3>1 DEF ActiveWaves
      <3>3. Touring' = Touring \cup {[wave |-> w.id, pairs |-> r.pairs]}
        BY <2>1, <2>5, <3>1, <3>2 DEF Touring
      <3>4. r.pairs \in SUBSET Pairs
        BY <2>5, RequestShape DEF Served, WaveRequest
      <3>5. /\ r.pairs # {}
            /\ \A p \in r.pairs : p[1] \in Serving /\ p[2] \in Crew
        BY <3>1, <3>4 DEF CanStartWave, AllActive, Serving, Crew, Pairs
      <3>6. \A t \in Touring : /\ t.wave # w.id
                               /\ \A p \in r.pairs, q \in t.pairs : p[1] # q[1] /\ p[2] # q[2]
        <4>1. SUFFICES ASSUME NEW t \in Touring
                       PROVE  /\ t.wave # w.id
                              /\ \A p \in r.pairs, q \in t.pairs : p[1] # q[1] /\ p[2] # q[2]
          OBVIOUS
        <4>2. PICK x \in ActiveWaves : t = [wave |-> x.id, pairs |-> x.pairs]
          BY DEF Touring
        <4>3. x.id # w.id
          BY <2>2, <3>1, <4>2 DEF ActiveWaves
        <4>4. QED
          BY <3>1, <4>2, <4>3 DEF CanStartWave, VehicleInActiveWave, DriverInActiveWave
      <3>7. Abstract!Depart(w.id, r.pairs)
        BY <1>1, <3>3, <3>5, <3>6
        DEF Abstract!Depart, Serving, Crew, Driven, Handed, Touring
      <3>8. r.pairs \in SUBSET Abstract!Pair
        BY <3>4 DEF Pairs, Abstract!Pair
      <3>9. QED
        BY <2>2, <3>7, <3>8 DEF Abstract!CustodyNext
    <2>6. CASE r.op = "waveComplete"
      <3>1. ActiveWaves' = {x \in ActiveWaves : x.id # w.id}
        BY <2>1, <2>2, <2>6 DEF ActiveWaves
      <3>2. Touring' = {t \in Touring : t.wave # w.id}
        BY <3>1 DEF Touring
      <3>3. Abstract!Finish(w.id)
        BY <1>1, <3>2 DEF Abstract!Finish, Serving, Crew, Driven, Handed, Touring
      <3>4. QED
        BY <2>2, <3>3 DEF Abstract!CustodyNext
    <2>7. QED
      BY <1>3, <2>3, <2>4, <2>5, <2>6
  <1>4. QED
    BY <1>2, <1>3

(* Who leaves is released; what mutateFleet changes otherwise is not seen. *)
LEMMA DriverSeen ==
    ASSUME TablesOK, NEW s, NEW r, Served(s, r),
           r.op \in {"driverUpdate", "driverArchive", "driverReactivate"}
    PROVE  Abstract!CustodyNext \/ UNCHANGED seen
  <1>1. UNCHANGED <<Serving, Driven, Handed, Touring>>
    BY Unseen, WriteFrame DEF Served
  <1>2. r.driver \in Drivers
    BY RequestShape DEF Served, RegistryRequest
  <1>3. CASE r.op = "driverUpdate"
    <2>1. \A d \in Drivers : DriverActive(d)' = DriverActive(d)
      BY <1>2, <1>3 DEF Served, Write, UpdateDriver, DriverActive, TablesOK, DriverRow
    <2>2. QED
      BY <1>1, <2>1 DEF Crew, seen
  <1>4. CASE r.op = "driverArchive"
    <2>1. CanArchiveDriver(r) /\ ArchiveDriver(s, r)
      BY <1>4 DEF Served, Admissible, Write
    <2>2. Crew' = Crew \ {r.driver}
      BY <1>2, <2>1 DEF ArchiveDriver, Crew, DriverActive, TablesOK
    <2>3. /\ \A p \in Driven : p[2] # r.driver
          /\ \A o \in Handed : o.driver # r.driver
          /\ \A t \in Touring : \A p \in t.pairs : p[2] # r.driver
      BY <2>1 DEF CanArchiveDriver, DriverInActiveWave, Driven, Handed, Touring
    <2>4. Abstract!LeaveCrew(r.driver)
      BY <1>1, <2>2, <2>3
      DEF Abstract!LeaveCrew, Abstract!Released, Serving, Crew, Driven, Handed, Touring
    <2>5. QED
      BY <1>2, <2>4 DEF Abstract!CustodyNext
  <1>5. CASE r.op = "driverReactivate"
    <2>1. Crew' = Crew \cup {r.driver}
      BY <1>2, <1>5 DEF Served, Write, ReactivateDriver, Crew, DriverActive, TablesOK
    <2>2. Abstract!JoinCrew(r.driver)
      BY <1>1, <2>1 DEF Abstract!JoinCrew, Serving, Crew, Driven, Handed, Touring
    <2>3. QED
      BY <1>2, <2>2 DEF Abstract!CustodyNext
  <1>6. QED
    BY <1>3, <1>4, <1>5

LEMMA VehicleSeen ==
    ASSUME TablesOK, NEW s, NEW r, Served(s, r),
           r.op \in {"vehicleUpdate", "vehicleArchive", "vehicleReactivate"}
    PROVE  Abstract!CustodyNext \/ UNCHANGED seen
  <1>1. UNCHANGED <<Crew, Driven, Handed, Touring>>
    BY Unseen, WriteFrame DEF Served
  <1>2. r.vehicle \in Vehicles
    BY RequestShape DEF Served, RegistryRequest
  <1>3. CASE r.op = "vehicleUpdate"
    BY <1>1, <1>3, Unseen, WriteFrame DEF Served, seen
  <1>4. CASE r.op = "vehicleArchive"
    <2>1. CanArchiveVehicle(r) /\ ArchiveVehicle(r)
      BY <1>4 DEF Served, Admissible, Write
    <2>2. Serving' = Serving \ {r.vehicle}
      BY <1>2, <2>1 DEF ArchiveVehicle, Serving, VehicleActive, TablesOK
    <2>3. /\ \A p \in Driven : p[1] # r.vehicle
          /\ \A o \in Handed : o.vehicle # r.vehicle
          /\ \A t \in Touring : \A p \in t.pairs : p[1] # r.vehicle
      BY <2>1 DEF CanArchiveVehicle, VehicleInActiveWave, Driven, Handed, Touring
    <2>4. Abstract!LeaveFleet(r.vehicle)
      BY <1>1, <2>2, <2>3
      DEF Abstract!LeaveFleet, Abstract!Idle, Serving, Crew, Driven, Handed, Touring
    <2>5. QED
      BY <1>2, <2>4 DEF Abstract!CustodyNext
  <1>5. CASE r.op = "vehicleReactivate"
    <2>1. Serving' = Serving \cup {r.vehicle}
      BY <1>2, <1>5 DEF Served, Write, ReactivateVehicle, Serving, VehicleActive, TablesOK
    <2>2. Abstract!JoinFleet(r.vehicle)
      BY <1>1, <2>1 DEF Abstract!JoinFleet, Serving, Crew, Driven, Handed, Touring
    <2>3. QED
      BY <1>2, <2>2 DEF Abstract!CustodyNext
  <1>6. QED
    BY <1>3, <1>4, <1>5

(* New rows: a driver joins the crew, a vehicle the fleet or neither.      *)
LEMMA CreationSeen ==
    ASSUME TablesOK, CreateDriver \/ CreateVehicle \/ ChangeAccount
    PROVE  Abstract!CustodyNext \/ UNCHANGED seen
  <1>1. CASE CreateDriver
    <2>1. PICK d \in Drivers : /\ driver'[d].status = "ACTIVE"
                               /\ \A x \in Drivers : x # d => driver'[x] = driver[x]
                               /\ UNCHANGED <<vehicle, assignment, key, wave>>
      BY <1>1, NewDriver
    <2>2. Crew' = Crew \cup {d}
      BY <2>1 DEF Crew, DriverActive
    <2>3. UNCHANGED <<Serving, Driven, Handed, Touring>>
      BY <2>1, Unseen
    <2>4. Abstract!JoinCrew(d)
      BY <2>2, <2>3 DEF Abstract!JoinCrew, Serving, Crew, Driven, Handed, Touring
    <2>5. QED
      BY <2>4 DEF Abstract!CustodyNext
  <1>2. CASE CreateVehicle
    <2>1. PICK v \in Vehicles : /\ vehicle[v].status = "ABSENT"
                                /\ \A x \in Vehicles : x # v => vehicle'[x] = vehicle[x]
                                /\ key \subseteq key'
                                /\ \A k \in key' \ key : k.holder = "OFFICE"
                                /\ UNCHANGED <<driver, assignment, wave>>
      BY <1>2, NewVehicle
    <2>2. {x \in key : x.holder \in Drivers}' = {x \in key : x.holder \in Drivers}
      BY <2>1, FleetAssumption
    <2>3. UNCHANGED <<Crew, Driven, Handed, Touring>>
      BY <2>1, <2>2, Unseen DEF Handed
    <2>4. CASE VehicleActive(v)'
      <3>1. Serving' = Serving \cup {v}
        BY <2>1, <2>4 DEF Serving, VehicleActive
      <3>2. Abstract!JoinFleet(v)
        BY <2>3, <3>1 DEF Abstract!JoinFleet, Serving, Crew, Driven, Handed, Touring
      <3>3. QED
        BY <3>2 DEF Abstract!CustodyNext
    <2>5. CASE ~ VehicleActive(v)'
      <3>1. Serving' = Serving
        BY <2>1, <2>5 DEF Serving, VehicleActive
      <3>2. QED
        BY <2>3, <3>1 DEF seen
    <2>6. QED
      BY <2>4, <2>5
  <1>3. CASE ChangeAccount
    BY <1>3, Unseen DEF ChangeAccount, seen
  <1>4. QED
    BY <1>1, <1>2, <1>3

LEMMA StepSeen ==
    ASSUME Inductive, OneOpenAssignment, [Next]_vars
    PROVE  Abstract!CustodyNext \/ UNCHANGED seen
  <1>1. TablesOK /\ Identified
    BY DEF Inductive, TypeInv, TypeOK, TablesOK
  <1>2. CASE UNCHANGED tables
    BY <1>2, Unseen DEF tables, seen
  <1>3. CASE CreateDriver \/ CreateVehicle \/ ChangeAccount
    BY <1>1, <1>3, CreationSeen
  <1>4. CASE \E s \in Sessions : \E r : Served(s, r)
    <2>1. PICK s, r : Served(s, r)
      BY <1>4
    <2>2. r.op \in AllOps \ {"account"}
      BY <2>1, RequestShape DEF Served
    <2>3. QED
      BY <1>1, <2>1, <2>2, AssignmentSeen, KeySeen, WaveSeen, DriverSeen, VehicleSeen
      DEF AllOps
  <1>5. QED
    BY <1>2, <1>3, <1>4, TableStep

(* Fleet implements Custody: however the transactions of the four services *)
(* interleave, what they commit is a sequence of hand-overs and returns of *)
(* vehicles, keys and tours and of joiners and leavers of the fleet, each  *)
(* allowed by the state it meets.                                          *)
THEOREM FleetIsCustody == Spec => ImplementsCustody
  <1>1. Init => Abstract!CustodyInit
    <2>1. ASSUME Init PROVE /\ Serving \subseteq Vehicles /\ Crew \subseteq Drivers
                            /\ Driven = {} /\ Handed = {} /\ Touring = {}
      BY <2>1 DEF Init, Serving, Crew, Driven, Handed, Touring, OpenAssignments, ActiveWaves
    <2>2. QED
      BY <2>1 DEF Abstract!CustodyInit, Serving, Crew, Driven, Handed, Touring
  <1>2. Inductive /\ OneOpenAssignment /\ [Next]_vars =>
            [Abstract!CustodyNext]_(Abstract!custodyVars)
    <2>1. UNCHANGED seen => UNCHANGED Abstract!custodyVars
      BY DEF seen, Abstract!custodyVars, Serving, Crew, Driven, Handed, Touring
    <2>2. QED
      BY <2>1, StepSeen
  <1>3. QED
    BY <1>1, <1>2, Invariance, AssignmentsExclusive, PTL
    DEF Spec, ImplementsCustody, Abstract!CustodySpec
=============================================================================
