----------------------------- MODULE FleetLocks -----------------------------
(***************************************************************************)
(* Row locks make READ COMMITTED transactions of the fleet safe: a         *)
(* transaction that commits changes only what its locks cover (Frame), so  *)
(* what another transaction checked under its own locks stays true         *)
(* (Stable).  From this, the invariant of FleetInvariant and the safety    *)
(* properties of Fleet.                                                    *)
(***************************************************************************)
EXTENDS FleetInvariant, TLAPS

TypeInv == TypeOK /\ Busy

(* What an operation's request consists of.                                *)
LEMMA RequestShape ==
    ASSUME NEW r \in Request
    PROVE  /\ r.user \in Users
           /\ r.op \in AllOps \ {"account"}
           /\ r.op = "assign" => r \in AssignRequest
           /\ r.op = "close" => r \in CloseRequest
           /\ r.op \in {"keyCreate", "keyTransfer", "keyRetire", "keyReplace"} =>
                 r \in KeyRequest
           /\ r.op \in {"waveCreate", "waveUpdate", "waveProgress", "waveStart",
                        "waveComplete"} => r \in WaveRequest
           /\ r.op \in {"driverUpdate", "driverArchive", "driverReactivate",
                        "vehicleUpdate", "vehicleArchive", "vehicleReactivate"} =>
                 r \in RegistryRequest
  <1>1. CASE r \in AssignRequest \cup CloseRequest
    BY <1>1 DEF AssignRequest, CloseRequest, AllOps
  <1>2. CASE r \in KeyRequest
    BY <1>2 DEF KeyRequest, AllOps
  <1>3. CASE r \in WaveRequest
    BY <1>3 DEF WaveRequest, AllOps
  <1>4. CASE r \in RegistryRequest
    BY <1>4 DEF RegistryRequest, AllOps
  <1>5. QED
    BY <1>1, <1>2, <1>3, <1>4 DEF Request

LEMMA LocksType == ASSUME NEW r \in Request PROVE Locks(r) \subseteq Rows
  BY RequestShape DEF Locks, LocksOnRows, Rows

-----------------------------------------------------------------------------
(* Type correctness.                                                       *)

LEMMA InitType == Init => TypeInv
  BY FleetAssumption
  DEF Init, TypeInv, TypeOK, Busy, UnderWay, FreshVehicle, FreshDriver, VehicleRow, DriverRow,
      Statuses, MemberRow, Roles

LEMMA BeginType ==
    ASSUME TypeInv, NEW s \in Sessions, NEW r \in Request, Begin(s, r)
    PROVE  TypeInv'
  BY LocksType DEF TypeInv, TypeOK, Busy, UnderWay, Begin, tables

LEMMA ArriveType ==
    ASSUME TypeInv, NEW s \in Sessions, Arrive(s)
    PROVE  TypeInv'
  <1>1. \E r \in Request : Begin(s, r)
    <2>1. CASE BeginAssign(s)
      <3>1. PICK u \in Users, v \in Vehicles, d \in Drivers :
              Begin(s, [op |-> "assign", user |-> u, vehicle |-> v, driver |-> d])
        BY <2>1 DEF BeginAssign
      <3>2. [op |-> "assign", user |-> u, vehicle |-> v, driver |-> d] \in Request
        BY DEF Request, AssignRequest
      <3>3. QED
        BY <3>1, <3>2
    <2>2. CASE BeginClose(s)
      <3>1. PICK u \in Users, a \in assignment :
              Begin(s, [op |-> "close", user |-> u, id |-> a.id, vehicle |-> a.vehicle])
        BY <2>2 DEF BeginClose
      <3>2. a \in AssignmentRow
        BY DEF TypeInv, TypeOK
      <3>3. [op |-> "close", user |-> u, id |-> a.id, vehicle |-> a.vehicle] \in Request
        BY <3>2 DEF AssignmentRow, Request, CloseRequest
      <3>4. QED
        BY <3>1, <3>3
    <2>3. CASE BeginKeyCreate(s) \/ BeginKeyTransfer(s) \/ BeginKeyRetire(s)
      <3>1. \A k \in key : k \in KeyRow
        BY DEF TypeInv, TypeOK
      <3>2. \E r \in KeyRequest : Begin(s, r)
        BY <2>3, <3>1 DEF BeginKeyCreate, BeginKeyTransfer, BeginKeyRetire, KeyRequest
      <3>3. QED
        BY <3>2 DEF Request
    <2>4. CASE \/ BeginWaveCreate(s) \/ BeginWaveUpdate(s) \/ BeginWaveProgress(s)
               \/ BeginWaveStart(s) \/ BeginWaveComplete(s)
      <3>1. \A w \in wave : w \in WaveRow
        BY DEF TypeInv, TypeOK
      <3>2. Participants \subseteq SUBSET Pairs
        BY DEF Participants
      <3>3. \E r \in WaveRequest : Begin(s, r)
        BY <2>4, <3>1, <3>2
        DEF BeginWaveCreate, BeginWaveUpdate, BeginWaveProgress, BeginWaveStart,
            BeginWaveComplete, WaveRequest
      <3>4. QED
        BY <3>3 DEF Request
    <2>5. CASE BeginDriver(s) \/ BeginVehicle(s)
      <3>1. \A d \in Drivers : driver[d] \in DriverRow
        BY DEF TypeInv, TypeOK
      <3>2. 0..MaxSlot \subseteq Nat
        BY FleetAssumption
      <3>3. \E r \in RegistryRequest : Begin(s, r)
        BY <2>5, <3>1, <3>2 DEF BeginDriver, BeginVehicle, RegistryRequest
      <3>4. QED
        BY <3>3 DEF Request
    <2>6. QED
      BY <2>1, <2>2, <2>3, <2>4, <2>5 DEF Arrive
  <1>2. QED
    BY <1>1, BeginType

(* Steps of a transaction that leave the tables alone.                     *)
LEMMA QuietType ==
    ASSUME TypeInv, NEW s \in Sessions,
           LockRow(s) \/ LockWave(s) \/ Check(s) \/ Authorise(s) \/ Refuse(s) \/ Abort(s)
    PROVE  TypeInv'
  <1> USE DEF TypeInv, TypeOK, Busy, UnderWay, tables
  <1>1. CASE LockRow(s)
    BY <1>1 DEF LockRow
  <1>2. CASE LockWave(s)
    <2>1. PICK w \in wave :
            LET r == [req[s] EXCEPT !.pairs = w.pairs]
            IN  /\ req' = [req EXCEPT ![s] = r]
                /\ todo' = [todo EXCEPT ![s] = Locks(r) \ {<<"wave", w.id>>}]
      BY <1>2 DEF LockWave
    <2> DEFINE r == [req[s] EXCEPT !.pairs = w.pairs]
    <2>2. req[s] \in Request /\ req[s].op = "waveStart"
      BY <1>2 DEF LockWave
    <2>3. req[s] \in [op : {"waveStart"}, user : Users, saw : WaveRow, pairs : SUBSET Pairs]
      BY <2>2, RequestShape DEF WaveRequest
    <2>4. w.pairs \in SUBSET Pairs
      BY DEF WaveRow
    <2>5. r \in Request
      BY <2>3, <2>4 DEF Request, WaveRequest
    <2>6. Locks(r) \subseteq Rows
      BY <2>5, LocksType
    <2>7. <<"wave", req[s].saw.id>> \in Rows
      BY <2>3 DEF WaveRow, Rows
    <2>8. QED
      BY <1>2, <2>1, <2>5, <2>6, <2>7 DEF LockWave
  <1>3. CASE Check(s)
    BY <1>3 DEF Check, Ready
  <1>4. CASE Authorise(s)
    BY <1>4 DEF Authorise, Rechecking
  <1>5. CASE Refuse(s) \/ Abort(s)
    BY <1>5 DEF Refuse, Abort, End
  <1>6. QED
    BY <1>1, <1>2, <1>3, <1>4, <1>5

(* The tables keep their types; what a transaction writes is one of these. *)
TablesOK ==
    /\ vehicle \in [Vehicles -> VehicleRow]
    /\ driver \in [Drivers -> DriverRow]
    /\ member \in [Users -> MemberRow]
    /\ assignment \subseteq AssignmentRow
    /\ key \subseteq KeyRow
    /\ wave \subseteq WaveRow

LEMMA AssignmentWriteType ==
    ASSUME TablesOK, NEW r \in Request,
           \/ r.op = "assign" /\ Assign(r)
           \/ r.op = "close" /\ Close(r)
    PROVE  TablesOK'
  <1> USE DEF TablesOK
  <1>1. CASE r.op = "assign" /\ Assign(r)
    <2>1. r.vehicle \in Vehicles /\ r.driver \in Drivers
      BY <1>1, RequestShape DEF AssignRequest
    <2>2. PICK i \in AssignmentIds :
            assignment' = assignment \cup {[id |-> i, vehicle |-> r.vehicle,
                                            driver |-> r.driver, open |-> TRUE]}
      BY <1>1 DEF Assign
    <2>3. [id |-> i, vehicle |-> r.vehicle, driver |-> r.driver, open |-> TRUE]
            \in AssignmentRow
      BY <2>1 DEF AssignmentRow
    <2>4. QED
      BY <1>1, <2>2, <2>3 DEF Assign
  <1>2. CASE r.op = "close" /\ Close(r)
    BY <1>2 DEF Close, OpenAssignments, AssignmentRow
  <1>3. QED
    BY <1>1, <1>2

LEMMA KeyWriteType ==
    ASSUME TablesOK, NEW r \in Request,
           \/ r.op = "keyCreate" /\ CreateKey(r)
           \/ r.op = "keyTransfer" /\ TransferKey(r)
           \/ r.op \in {"keyRetire", "keyReplace"} /\ RetireKey(r)
    PROVE  TablesOK'
  <1> USE DEF TablesOK
  <1>1. CASE r.op = "keyCreate" /\ CreateKey(r)
    <2>1. r.vehicle \in Vehicles
      BY <1>1, RequestShape DEF KeyRequest
    <2>2. QED
      BY <1>1, <2>1 DEF CreateKey, FreshKey, KeyRow, Holders
  <1>2. CASE r.op = "keyTransfer" /\ TransferKey(r)
    <2>1. r.to \in Holders
      BY <1>2, RequestShape DEF KeyRequest
    <2>2. \A k \in key : k.version + 1 \in Nat
      BY DEF KeyRow
    <2>3. \A k \in key : [k EXCEPT !.holder = r.to, !.version = @ + 1] \in KeyRow
      BY <2>1, <2>2 DEF KeyRow
    <2>4. QED
      BY <1>2, <2>3 DEF TransferKey
  <1>3. CASE r.op \in {"keyRetire", "keyReplace"} /\ RetireKey(r)
    <2>1. PICK k \in key :
            LET retired == [k EXCEPT !.status = "RETIRED", !.version = @ + 1]
            IN  \/ key' = (key \ {k}) \cup {retired}
                \/ \E i \in KeyIds : key' = (key \ {k}) \cup
                                 {retired, FreshKey(i, k.vehicle, k.slot, k.id)}
      BY <1>3 DEF RetireKey
    <2>2. k \in KeyRow /\ k.version + 1 \in Nat
      BY DEF KeyRow
    <2>3. [k EXCEPT !.status = "RETIRED", !.version = @ + 1] \in KeyRow
      BY <2>2 DEF KeyRow
    <2>4. \A i \in KeyIds : FreshKey(i, k.vehicle, k.slot, k.id) \in KeyRow
      BY <2>2 DEF FreshKey, KeyRow, Holders
    <2>5. QED
      BY <1>3, <2>1, <2>3, <2>4 DEF RetireKey
  <1>4. QED
    BY <1>1, <1>2, <1>3

LEMMA PutType ==
    ASSUME TablesOK, NEW w \in wave, NEW new \in WaveRow, Put(w, new)
    PROVE  TablesOK'
  <1>1. new.version + 1 \in Nat
    BY DEF WaveRow
  <1>2. [new EXCEPT !.version = @ + 1] \in WaveRow
    BY <1>1 DEF WaveRow
  <1>3. QED
    BY <1>2 DEF Put, TablesOK

LEMMA WaveWriteType ==
    ASSUME TablesOK, NEW r \in Request,
           \/ r.op = "waveCreate" /\ CreateWave(r)
           \/ r.op = "waveUpdate" /\ UpdateWave(r)
           \/ r.op = "waveProgress" /\ ProgressWave(r)
           \/ r.op = "waveStart" /\ StartWave(r)
           \/ r.op = "waveComplete" /\ CompleteWave(r)
    PROVE  TablesOK'
  <1>0. \A w \in wave : w \in WaveRow
    BY DEF TablesOK
  <1>1. CASE r.op = "waveCreate" /\ CreateWave(r)
    <2>1. r.pairs \in SUBSET Pairs /\ r.done \in BOOLEAN
      BY <1>1, RequestShape DEF WaveRequest
    <2>2. wave' \subseteq WaveRow
      BY <1>1, <1>0, <2>1 DEF CreateWave, WaveRow
    <2>3. QED
      BY <1>1, <2>2 DEF CreateWave, TablesOK
  <1>2. CASE r.op = "waveUpdate" /\ UpdateWave(r)
    <2>1. r.pairs \in SUBSET Pairs /\ r.done \in BOOLEAN
      BY <1>2, RequestShape DEF WaveRequest
    <2>2. \A w \in wave : [w EXCEPT !.pairs = r.pairs, !.done = r.done] \in WaveRow
      BY <1>0, <2>1 DEF WaveRow
    <2>3. QED
      BY <1>2, <2>2, PutType DEF UpdateWave
  <1>3. CASE r.op = "waveProgress" /\ ProgressWave(r)
    <2>1. r.done \in BOOLEAN
      BY <1>3, RequestShape DEF WaveRequest
    <2>2. \A w \in wave : [w EXCEPT !.done = r.done] \in WaveRow
      BY <1>0, <2>1 DEF WaveRow
    <2>3. QED
      BY <1>3, <2>2, PutType DEF ProgressWave
  <1>4. CASE StartWave(r) \/ CompleteWave(r)
    <2>1. \A w \in wave : /\ [w EXCEPT !.status = "ACTIVE"] \in WaveRow
                          /\ [w EXCEPT !.status = "COMPLETED"] \in WaveRow
      BY <1>0 DEF WaveRow
    <2>2. QED
      BY <1>4, <2>1, PutType DEF StartWave, CompleteWave
  <1>5. QED
    BY <1>1, <1>2, <1>3, <1>4

LEMMA RegistryWriteType ==
    ASSUME TablesOK, NEW s \in Sessions, NEW r \in Request,
           \/ r.op = "driverUpdate" /\ UpdateDriver(r)
           \/ r.op = "driverArchive" /\ ArchiveDriver(s, r)
           \/ r.op = "driverReactivate" /\ ReactivateDriver(r)
           \/ r.op = "vehicleUpdate" /\ UpdateVehicle(r)
           \/ r.op = "vehicleArchive" /\ ArchiveVehicle(r)
           \/ r.op = "vehicleReactivate" /\ ReactivateVehicle(r)
    PROVE  TablesOK'
  <1> USE DEF TablesOK
  <1>1. CASE r.op \in {"driverUpdate", "driverArchive", "driverReactivate"}
    <2>1. r.driver \in Drivers
      BY <1>1, RequestShape DEF RegistryRequest
    <2>2. AccountOf[r.driver] # Nil => AccountOf[r.driver] \in Users
      BY <2>1, FleetAssumption
    <2>3. driver[r.driver] \in DriverRow /\ driver[r.driver].rev + 1 \in Nat
      BY <2>1 DEF DriverRow
    <2>4. CASE r.op = "driverUpdate" /\ UpdateDriver(r)
      BY <2>1, <2>3, <2>4 DEF UpdateDriver, DriverRow
    <2>5. CASE r.op = "driverArchive" /\ ArchiveDriver(s, r)
      <3>1. driver' \in [Drivers -> DriverRow]
        BY <2>1, <2>3, <2>5 DEF ArchiveDriver, DriverRow, Statuses
      <3>2. member' \in [Users -> MemberRow]
        BY <2>2, <2>5 DEF ArchiveDriver, MemberRow
      <3>3. QED
        BY <2>5, <3>1, <3>2 DEF ArchiveDriver
    <2>6. CASE r.op = "driverReactivate" /\ ReactivateDriver(r)
      BY <2>1, <2>3, <2>6 DEF ReactivateDriver, DriverRow, Statuses
    <2>7. QED
      BY <1>1, <2>4, <2>5, <2>6
  <1>2. CASE r.op \in {"vehicleUpdate", "vehicleArchive", "vehicleReactivate"}
    <2>1. r.vehicle \in Vehicles
      BY <1>2, RequestShape DEF RegistryRequest
    <2>2. QED
      BY <1>2, <2>1
      DEF UpdateVehicle, ArchiveVehicle, ReactivateVehicle, VehicleRow, Statuses, tables
  <1>3. QED
    BY <1>1, <1>2

LEMMA CommitType ==
    ASSUME TypeInv, NEW s \in Sessions, Commit(s)
    PROVE  TypeInv'
  <1>1. req[s] \in Request
    BY DEF Commit, Decided, TypeInv, Busy, UnderWay
  <1>2. TablesOK
    BY DEF TypeInv, TypeOK, TablesOK
  <1>3. TablesOK'
    BY <1>1, <1>2, AssignmentWriteType, KeyWriteType, WaveWriteType, RegistryWriteType
    DEF Commit, Write
  <1>4. QED
    BY <1>3 DEF Commit, End, TypeInv, TypeOK, Busy, UnderWay, TablesOK

LEMMA OutsideType ==
    ASSUME TypeInv, CreateDriver \/ CreateVehicle \/ ChangeAccount
    PROVE  TypeInv'
  <1> USE DEF TypeInv, TypeOK, Busy, UnderWay, txVars
  <1>1. CASE CreateDriver
    BY <1>1 DEF CreateDriver, DriverRow, Statuses
  <1>2. CASE CreateVehicle
    <2>1. PICK v \in Vehicles, retired \in BOOLEAN, n \in 0..MaxSlot :
            /\ vehicle' = [vehicle EXCEPT ![v] =
                   [status |-> IF retired THEN "INACTIVE" ELSE "ACTIVE",
                    periods |-> IF retired THEN 0 ELSE 1]]
            /\ \E ids \in [1..n -> KeyIds] :
                  /\ \A i \in 1..n : NewId(key, KeyIds, ids[i])
                  /\ \A i, j \in 1..n : i # j => ids[i] # ids[j]
                  /\ key' = key \cup
                       {[id |-> ids[i], vehicle |-> v, slot |-> i, status |-> "ACTIVE",
                         holder |-> "OFFICE", version |-> 1, replaces |-> Nil] : i \in 1..n}
      BY <1>2, Zenon DEF CreateVehicle
    <2>2. PICK ids \in [1..n -> KeyIds] :
            key' = key \cup
              {[id |-> ids[i], vehicle |-> v, slot |-> i, status |-> "ACTIVE",
                holder |-> "OFFICE", version |-> 1, replaces |-> Nil] : i \in 1..n}
      BY <2>1
    <2>3. \A i \in 1..n : i \in 1..MaxSlot /\ ids[i] \in KeyIds
      <3>1. MaxSlot \in Nat /\ n \in 0..MaxSlot /\ ids \in [1..n -> KeyIds]
        BY FleetAssumption
      <3>2. \A i \in 1..n : i \in 1..MaxSlot
        BY <3>1, SMT
      <3>3. QED
        BY <3>1, <3>2
    <2>4. key' \subseteq KeyRow
      BY <2>2, <2>3 DEF KeyRow, Holders
    <2>5. vehicle' \in [Vehicles -> VehicleRow]
      BY <2>1 DEF VehicleRow, Statuses
    <2>6. QED
      BY <1>2, <2>4, <2>5 DEF CreateVehicle
  <1>3. CASE ChangeAccount
    BY <1>3 DEF ChangeAccount, MemberRow, Roles
  <1>4. QED
    BY <1>1, <1>2, <1>3

LEMMA TypeStep == TypeInv /\ [Next]_vars => TypeInv'
  <1> SUFFICES ASSUME TypeInv, [Next]_vars PROVE TypeInv'
    OBVIOUS
  <1>1. CASE \E s \in Sessions : Arrive(s)
    BY <1>1, ArriveType
  <1>2. CASE \E s \in Sessions : Lock(s) \/ Check(s) \/ Authorise(s) \/ Refuse(s) \/ Abort(s)
    BY <1>2, QuietType DEF Lock
  <1>3. CASE \E s \in Sessions : Commit(s)
    BY <1>3, CommitType
  <1>4. CASE CreateDriver \/ CreateVehicle \/ ChangeAccount
    BY <1>4, OutsideType
  <1>5. CASE UNCHANGED vars
    BY <1>5 DEF vars, TypeInv, TypeOK, Busy, UnderWay
  <1>6. QED
    BY <1>1, <1>2, <1>3, <1>4, <1>5 DEF Next

(* Every variable keeps its type, and a transaction under way a request:   *)
(* no operation of mutateFleet, mutateKey or mutateWave writes a row the   *)
(* schema would not hold.                                                  *)
THEOREM TypeInvariant == Spec => []TypeInv
  <1>1. QED
    BY InitType, TypeStep, PTL DEF Spec

(* TypeOK alone, as the runs check it.                                      *)
THEOREM TypeCorrect == Spec => []TypeOK
  <1>1. TypeInv => TypeOK
    BY DEF TypeInv
  <1>2. QED
    BY <1>1, TypeInvariant, PTL

-----------------------------------------------------------------------------
(* Row locks.                                                              *)

(* What a step may change that holds the row locks h.                      *)
Frame(h) ==
    /\ \A v \in Vehicles : <<"vehicle", v>> \notin h => vehicle'[v] = vehicle[v]
    /\ \A d \in Drivers : <<"driver", d>> \notin h => driver'[d] = driver[d]
    /\ \A a \in assignment' \ assignment : a.open =>
          <<"vehicle", a.vehicle>> \in h /\ <<"driver", a.driver>> \in h
    /\ \A a \in assignment \ assignment' : <<"vehicle", a.vehicle>> \in h
    /\ \A k \in key' \ key :
          /\ <<"vehicle", k.vehicle>> \in h
          /\ k.holder \in Drivers => <<"driver", k.holder>> \in h
    /\ \A k \in key \ key' : <<"vehicle", k.vehicle>> \in h
    /\ \A w \in wave' \ wave : w.status = "ACTIVE" =>
          \/ \A p \in w.pairs : <<"vehicle", p[1]>> \in h /\ <<"driver", p[2]>> \in h
          \/ \E x \in ActiveWaves : x.pairs = w.pairs
    /\ \A w \in wave \ wave' : <<"wave", w.id>> \in h
    /\ \A w \in wave' \ wave : <<"wave", w.id>> \in h \/ \A x \in wave : x.id # w.id

-----------------------------------------------------------------------------
(* Stable: the checks of request r survive a step that holds none of its   *)
(* row locks.                                                              *)

LEMMA LocksVehicleRow ==
    ASSUME NEW r \in Request, NEW v \in Vehicles, LocksVehicle(r, v)
    PROVE  <<"vehicle", v>> \in LocksOnRows(r)
  BY DEF LocksOnRows

LEMMA LocksDriverRow ==
    ASSUME NEW r \in Request, NEW d \in Drivers, LocksDriver(r, d)
    PROVE  <<"driver", d>> \in LocksOnRows(r)
  BY DEF LocksOnRows

LEMMA LocksWaveRow ==
    ASSUME NEW r \in Request, NEW w \in WaveIds, LocksWave(r, w)
    PROVE  <<"wave", w>> \in LocksOnRows(r)
  BY DEF LocksOnRows

LEMMA StableAssignment ==
    ASSUME TablesOK, Identified, NEW r \in Request, NEW h, AnchoredRequest(r),
           LocksOnRows(r) \cap h = {}, Frame(h), r.op \in {"assign", "close"},
           Admissible(r)
    PROVE  Admissible(r)'
  <1>1. CASE r.op = "assign"
    <2>1. r.vehicle \in Vehicles /\ r.driver \in Drivers
      BY <1>1, RequestShape DEF AssignRequest
    <2>2. <<"vehicle", r.vehicle>> \notin h /\ <<"driver", r.driver>> \notin h
      BY <1>1, <2>1, LocksVehicleRow, LocksDriverRow DEF LocksVehicle, LocksDriver
    <2>3. CanAssign(r)
      BY <1>1 DEF Admissible
    <2>4. CanAssign(r)'
      BY <2>1, <2>2, <2>3 DEF CanAssign, Frame, VehicleActive, DriverActive, OpenAssignments
    <2>5. QED
      BY <1>1, <2>4 DEF Admissible
  <1>2. CASE r.op = "close"
    <2>1. r.vehicle \in Vehicles
      BY <1>2, RequestShape DEF CloseRequest
    <2>2. <<"vehicle", r.vehicle>> \notin h
      BY <1>2, <2>1, LocksVehicleRow DEF LocksVehicle
    <2>3. PICK a \in OpenAssignments : a.id = r.id
      BY <1>2 DEF Admissible, CanClose
    <2>4. a.vehicle = r.vehicle
      BY <1>2, <2>3 DEF AnchoredRequest, Identified, OpenAssignments
    <2>5. a \in OpenAssignments'
      BY <2>2, <2>4 DEF Frame, OpenAssignments
    <2>6. QED
      BY <1>2, <2>3, <2>5 DEF Admissible, CanClose
  <1>3. QED
    BY <1>1, <1>2

(* Keys of a vehicle whose row is not in h stay as they are.               *)
LEMMA KeysOfVehicle ==
    ASSUME NEW h, Frame(h), NEW v, <<"vehicle", v>> \notin h
    PROVE  {k \in key : k.vehicle = v}' = {k \in key : k.vehicle = v}
  BY DEF Frame

LEMMA StableKey ==
    ASSUME TablesOK, Identified, NEW r \in Request, NEW h, AnchoredRequest(r),
           LocksOnRows(r) \cap h = {}, Frame(h),
           r.op \in {"keyCreate", "keyTransfer", "keyRetire", "keyReplace"},
           Admissible(r)
    PROVE  Admissible(r)'
  <1>1. CASE r.op = "keyCreate"
    <2>1. r.vehicle \in Vehicles
      BY <1>1, RequestShape DEF KeyRequest
    <2>2. <<"vehicle", r.vehicle>> \notin h
      BY <1>1, <2>1, LocksVehicleRow DEF LocksVehicle
    <2>3. {k \in key : k.vehicle = r.vehicle}' = {k \in key : k.vehicle = r.vehicle}
      BY <2>2, KeysOfVehicle
    <2>4. SlotsTaken(r.vehicle)' = SlotsTaken(r.vehicle)
      BY <2>3 DEF SlotsTaken
    <2>5. VehicleActive(r.vehicle) => VehicleActive(r.vehicle)'
      BY <2>1, <2>2 DEF Frame, VehicleActive
    <2>6. CanCreateKey(r)'
      BY <1>1, <2>4, <2>5 DEF Admissible, CanCreateKey
    <2>7. QED
      BY <1>1, <2>6 DEF Admissible
  <1>2. CASE r.op \in {"keyTransfer", "keyRetire", "keyReplace"}
    <2>1. r.saw.vehicle \in Vehicles
      BY <1>2, RequestShape DEF KeyRequest, KeyRow
    <2>2. <<"vehicle", r.saw.vehicle>> \notin h
      BY <1>2, <2>1, LocksVehicleRow DEF LocksVehicle
    <2>3. \A k \in key : Current(r, k) => k \in key'
      BY <1>2, <2>2 DEF Frame, Current, AnchoredRequest, Identified
    <2>4. VehicleActive(r.saw.vehicle) => VehicleActive(r.saw.vehicle)'
      BY <2>1, <2>2 DEF Frame, VehicleActive
    <2>5. CASE r.op = "keyTransfer"
      <3>1. r.to \in Drivers /\ DriverActive(r.to) => DriverActive(r.to)'
        BY <2>5, LocksDriverRow DEF LocksDriver, Frame, DriverActive
      <3>2. CanTransferKey(r)
        BY <2>5 DEF Admissible
      <3>3. CanTransferKey(r)'
        BY <2>3, <2>4, <3>1, <3>2 DEF CanTransferKey, Current
      <3>4. QED
        BY <2>5, <3>3 DEF Admissible
    <2>6. CASE r.op \in {"keyRetire", "keyReplace"}
      <3>1. CanRetireKey(r)
        BY <2>6 DEF Admissible
      <3>2. CanRetireKey(r)'
        BY <2>3, <2>4, <3>1 DEF CanRetireKey, Current
      <3>3. QED
        BY <2>6, <3>2 DEF Admissible
    <2>7. QED
      BY <1>2, <2>5, <2>6
  <1>3. QED
    BY <1>1, <1>2

LEMMA StableParticipants ==
    ASSUME NEW r \in Request, NEW h, LocksOnRows(r) \cap h = {}, Frame(h),
           r.op \in {"waveCreate", "waveUpdate", "waveStart"}, AllActive(r.pairs)
    PROVE  AllActive(r.pairs)'
  <1>1. r.pairs \subseteq Pairs
    BY RequestShape DEF WaveRequest
  <1>2. SUFFICES ASSUME NEW p \in r.pairs PROVE VehicleActive(p[1])' /\ DriverActive(p[2])'
    BY DEF AllActive
  <1>3. p[1] \in Vehicles /\ p[2] \in Drivers
    BY <1>1 DEF Pairs
  <1>4. <<"vehicle", p[1]>> \notin h /\ <<"driver", p[2]>> \notin h
    BY <1>3, LocksVehicleRow, LocksDriverRow DEF LocksVehicle, LocksDriver
  <1>5. QED
    BY <1>3, <1>4 DEF AllActive, Frame, VehicleActive, DriverActive

(* A vehicle or driver outside h is not taken on tour.                     *)
LEMMA StableTour ==
    ASSUME NEW h, Frame(h)
    PROVE  /\ \A v : <<"vehicle", v>> \notin h /\ VehicleInActiveWave(v)' => VehicleInActiveWave(v)
           /\ \A d : <<"driver", d>> \notin h /\ DriverInActiveWave(d)' => DriverInActiveWave(d)
  <1>1. \A w \in ActiveWaves' :
          \/ \A p \in w.pairs : <<"vehicle", p[1]>> \in h /\ <<"driver", p[2]>> \in h
          \/ \E x \in ActiveWaves : x.pairs = w.pairs
    BY DEF Frame, ActiveWaves
  <1>2. QED
    BY <1>1 DEF VehicleInActiveWave, DriverInActiveWave

LEMMA StableWave ==
    ASSUME TablesOK, Identified, NEW r \in Request, NEW h,
           LocksOnRows(r) \cap h = {}, Frame(h),
           r.op \in {"waveCreate", "waveUpdate", "waveProgress", "waveStart", "waveComplete"},
           Admissible(r)
    PROVE  Admissible(r)'
  <1>1. CASE r.op = "waveCreate"
    BY <1>1, StableParticipants DEF Admissible, CanCreateWave
  <1>2. CASE r.op \in {"waveUpdate", "waveProgress", "waveStart", "waveComplete"}
    <2>1. r.saw.id \in WaveIds
      BY <1>2, RequestShape DEF WaveRequest, WaveRow
    <2>2. <<"wave", r.saw.id>> \notin h
      BY <1>2, <2>1, LocksWaveRow DEF LocksWave
    <2>3. \A w \in wave : \A status : InStatus(r, w, status) => w \in wave'
      BY <2>2 DEF Frame, InStatus
    <2>4. CASE r.op = "waveUpdate"
      <3>1. CanUpdateWave(r)'
        BY <2>3, <2>4, StableParticipants DEF Admissible, CanUpdateWave, InStatus
      <3>2. QED
        BY <2>4, <3>1 DEF Admissible
    <2>5. CASE r.op = "waveStart"
      <3>1. CanStartWave(r)
        BY <2>5 DEF Admissible
      <3>2. AllActive(r.pairs)'
        BY <2>5, <3>1, StableParticipants DEF CanStartWave
      <3>3. \A p \in r.pairs : ~ VehicleInActiveWave(p[1])' /\ ~ DriverInActiveWave(p[2])'
        <4>1. SUFFICES ASSUME NEW p \in r.pairs
                       PROVE  ~ VehicleInActiveWave(p[1])' /\ ~ DriverInActiveWave(p[2])'
          OBVIOUS
        <4>2. p[1] \in Vehicles /\ p[2] \in Drivers
          BY <2>5, RequestShape DEF WaveRequest, Pairs
        <4>3. <<"vehicle", p[1]>> \notin h /\ <<"driver", p[2]>> \notin h
          BY <2>5, <4>2, LocksVehicleRow, LocksDriverRow DEF LocksVehicle, LocksDriver
        <4>4. QED
          BY <3>1, <4>3, StableTour DEF CanStartWave
      <3>4. CanStartWave(r)'
        BY <2>3, <3>1, <3>2, <3>3 DEF CanStartWave, InStatus
      <3>5. QED
        BY <2>5, <3>4 DEF Admissible
    <2>6. CASE r.op \in {"waveProgress", "waveComplete"}
      <3>1. /\ CanProgressWave(r) => CanProgressWave(r)'
            /\ CanCompleteWave(r) => CanCompleteWave(r)'
        BY <2>3 DEF CanProgressWave, CanCompleteWave, InStatus
      <3>2. QED
        BY <2>6, <3>1 DEF Admissible
    <2>7. QED
      BY <1>2, <2>4, <2>5, <2>6
  <1>3. QED
    BY <1>1, <1>2

LEMMA StableDriver ==
    ASSUME TablesOK, NEW r \in Request, NEW h, LocksOnRows(r) \cap h = {}, Frame(h),
           r.op \in {"driverUpdate", "driverArchive", "driverReactivate"}, Admissible(r)
    PROVE  Admissible(r)'
  <1>1. r.driver \in Drivers
    BY RequestShape DEF RegistryRequest
  <1>2. <<"driver", r.driver>> \notin h
    BY <1>1, LocksDriverRow DEF LocksDriver
  <1>3. CanReactivateDriver(r) => CanReactivateDriver(r)'
    BY <1>1, <1>2 DEF Frame, CanReactivateDriver
  <1>4. CanArchiveDriver(r) => CanArchiveDriver(r)'
    <2>1. ~ DriverInActiveWave(r.driver) => ~ DriverInActiveWave(r.driver)'
      BY <1>2, StableTour
    <2>2. (\A k \in key : k.holder # r.driver) => (\A k \in key' : k.holder # r.driver)
      BY <1>1, <1>2 DEF Frame
    <2>3. (\A a \in OpenAssignments : a.driver # r.driver) =>
             (\A a \in OpenAssignments' : a.driver # r.driver)
      BY <1>2 DEF Frame, OpenAssignments
    <2>4. QED
      BY <2>1, <2>2, <2>3 DEF CanArchiveDriver
  <1>5. QED
    BY <1>3, <1>4 DEF Admissible

LEMMA StableVehicle ==
    ASSUME TablesOK, NEW r \in Request, NEW h, LocksOnRows(r) \cap h = {}, Frame(h),
           r.op \in {"vehicleUpdate", "vehicleArchive", "vehicleReactivate"}, Admissible(r)
    PROVE  Admissible(r)'
  <1>1. r.vehicle \in Vehicles
    BY RequestShape DEF RegistryRequest
  <1>2. <<"vehicle", r.vehicle>> \notin h
    BY <1>1, LocksVehicleRow DEF LocksVehicle
  <1>3. vehicle'[r.vehicle] = vehicle[r.vehicle]
    BY <1>1, <1>2 DEF Frame
  <1>4. \A k : k \in key' /\ k.vehicle = r.vehicle <=> k \in key /\ k.vehicle = r.vehicle
    BY <1>2, KeysOfVehicle
  <1>5. CanUpdateVehicle(r) => CanUpdateVehicle(r)'
    <2>1. {k \in key : k.vehicle = r.vehicle /\ k.status = "ACTIVE"}' =
            {k \in key : k.vehicle = r.vehicle /\ k.status = "ACTIVE"}
      BY <1>4
    <2>2. QED
      BY <2>1 DEF CanUpdateVehicle
  <1>6. CanArchiveVehicle(r) => CanArchiveVehicle(r)'
    <2>1. ~ VehicleInActiveWave(r.vehicle) => ~ VehicleInActiveWave(r.vehicle)'
      BY <1>2, StableTour
    <2>2. (\A a \in OpenAssignments : a.vehicle # r.vehicle) =>
             (\A a \in OpenAssignments' : a.vehicle # r.vehicle)
      BY <1>2 DEF Frame, OpenAssignments
    <2>3. QED
      BY <1>3, <1>4, <2>1, <2>2 DEF CanArchiveVehicle, VehicleActive
  <1>7. CanReactivateVehicle(r) => CanReactivateVehicle(r)'
    BY <1>3 DEF CanReactivateVehicle
  <1>8. QED
    BY <1>5, <1>6, <1>7 DEF Admissible

LEMMA Stable ==
    ASSUME TablesOK, Identified, NEW r \in Request, NEW h, AnchoredRequest(r),
           LocksOnRows(r) \cap h = {}, Frame(h), Admissible(r)
    PROVE  Admissible(r)'
  <1>1. r.op \in AllOps \ {"account"}
    BY RequestShape
  <1>2. QED
    BY <1>1, StableAssignment, StableKey, StableWave, StableDriver, StableVehicle DEF AllOps

-----------------------------------------------------------------------------
(* Framed: what a transaction writes is covered by its row locks.          *)

LEMMA FramedAssignment ==
    ASSUME TablesOK, Identified, NEW r \in Request, NEW h, AnchoredRequest(r),
           LocksOnRows(r) \subseteq h,
           \/ r.op = "assign" /\ Assign(r)
           \/ r.op = "close" /\ Close(r)
    PROVE  Frame(h)
  <1>1. CASE r.op = "assign" /\ Assign(r)
    <2>1. r.vehicle \in Vehicles /\ r.driver \in Drivers
      BY <1>1, RequestShape DEF AssignRequest
    <2>2. <<"vehicle", r.vehicle>> \in h /\ <<"driver", r.driver>> \in h
      BY <1>1, <2>1, LocksVehicleRow, LocksDriverRow DEF LocksVehicle, LocksDriver
    <2>3. QED
      BY <1>1, <2>2 DEF Assign, Frame
  <1>2. CASE r.op = "close" /\ Close(r)
    <2>1. r.vehicle \in Vehicles
      BY <1>2, RequestShape DEF CloseRequest
    <2>2. <<"vehicle", r.vehicle>> \in h
      BY <1>2, <2>1, LocksVehicleRow DEF LocksVehicle
    <2>3. PICK a \in OpenAssignments :
            a.id = r.id /\ assignment' = (assignment \ {a}) \cup {[a EXCEPT !.open = FALSE]}
      BY <1>2 DEF Close
    <2>4. a.vehicle = r.vehicle
      BY <1>2, <2>3 DEF AnchoredRequest, Identified, OpenAssignments
    <2>5. a \in AssignmentRow
      BY DEF TablesOK, OpenAssignments
    <2>6. [a EXCEPT !.open = FALSE].open = FALSE
      BY <2>5 DEF AssignmentRow
    <2>7. QED
      BY <1>2, <2>2, <2>3, <2>4, <2>6 DEF Close, Frame
  <1>3. QED
    BY <1>1, <1>2

LEMMA FramedKey ==
    ASSUME TablesOK, Identified, NEW r \in Request, NEW h, AnchoredRequest(r),
           LocksOnRows(r) \subseteq h, Admissible(r),
           \/ r.op = "keyCreate" /\ CreateKey(r)
           \/ r.op = "keyTransfer" /\ TransferKey(r)
           \/ r.op \in {"keyRetire", "keyReplace"} /\ RetireKey(r)
    PROVE  Frame(h)
  <1>1. CASE r.op = "keyCreate" /\ CreateKey(r)
    <2>1. r.vehicle \in Vehicles
      BY <1>1, RequestShape DEF KeyRequest
    <2>2. <<"vehicle", r.vehicle>> \in h
      BY <1>1, <2>1, LocksVehicleRow DEF LocksVehicle
    <2>3. PICK i \in KeyIds, slot \in 1..MaxSlot :
            key' = key \cup {FreshKey(i, r.vehicle, slot, Nil)}
      BY <1>1 DEF CreateKey
    <2>4. QED
      BY <1>1, <2>2, <2>3, FleetAssumption DEF CreateKey, FreshKey, Frame
  <1>2. CASE r.op \in {"keyTransfer", "keyRetire", "keyReplace"}
    <2>1. r.saw.vehicle \in Vehicles
      BY <1>2, RequestShape DEF KeyRequest, KeyRow
    <2>2. <<"vehicle", r.saw.vehicle>> \in h
      BY <1>2, <2>1, LocksVehicleRow DEF LocksVehicle
    <2>3. \A k \in key : Current(r, k) => k.vehicle = r.saw.vehicle /\ k \in KeyRow
      BY <1>2 DEF AnchoredRequest, Identified, Current, TablesOK
    <2>4. CASE r.op = "keyTransfer" /\ TransferKey(r)
      <3>1. PICK k \in key : /\ Current(r, k)
                            /\ key' = (key \ {k}) \cup
                                   {[k EXCEPT !.holder = r.to, !.version = @ + 1]}
        BY <2>4 DEF TransferKey
      <3> DEFINE new == [k EXCEPT !.holder = r.to, !.version = @ + 1]
      <3>2. new.vehicle = r.saw.vehicle /\ new.holder = r.to
        BY <2>3, <3>1 DEF KeyRow
      <3>3. r.to \in Drivers => <<"driver", r.to>> \in h
        BY <2>4, LocksDriverRow DEF LocksDriver
      <3>4. key' \ key \subseteq {new} /\ key \ key' \subseteq {k}
        BY <3>1
      <3>5. QED
        BY <2>2, <2>3, <2>4, <3>1, <3>2, <3>3, <3>4 DEF TransferKey, Frame
    <2>5. CASE r.op \in {"keyRetire", "keyReplace"} /\ RetireKey(r)
      <3>1. PICK k \in key :
              LET retired == [k EXCEPT !.status = "RETIRED", !.version = @ + 1]
              IN  /\ Current(r, k)
                  /\ \/ key' = (key \ {k}) \cup {retired}
                     \/ \E i \in KeyIds : key' = (key \ {k}) \cup
                                     {retired, FreshKey(i, k.vehicle, k.slot, k.id)}
        BY <2>5 DEF RetireKey
      <3> DEFINE retired == [k EXCEPT !.status = "RETIRED", !.version = @ + 1]
      <3>2. k.holder \notin Drivers
        BY <2>5, <3>1 DEF Admissible, CanRetireKey, Current, Identified
      <3>3. retired.vehicle = r.saw.vehicle /\ retired.holder = k.holder
        BY <2>3, <3>1 DEF KeyRow
      <3>4. \A i \in KeyIds :
              LET new == FreshKey(i, k.vehicle, k.slot, k.id)
              IN  new.vehicle = r.saw.vehicle /\ new.holder \notin Drivers
        BY <2>3, <3>1, FleetAssumption DEF FreshKey
      <3>5. key \ key' \subseteq {k}
        BY <3>1
      <3>6. \A j \in key' \ key : j.vehicle = r.saw.vehicle /\ j.holder \notin Drivers
        BY <3>1, <3>2, <3>3, <3>4
      <3>7. QED
        BY <2>2, <2>3, <2>5, <3>1, <3>5, <3>6 DEF RetireKey, Frame
    <2>6. QED
      BY <1>2, <2>4, <2>5
  <1>3. QED
    BY <1>1, <1>2

(* What Put leaves of a wave.                                              *)
LEMMA PutRow ==
    ASSUME TablesOK, NEW w \in wave, NEW new \in WaveRow, Put(w, new)
    PROVE  \E row \in WaveRow :
              /\ wave' = (wave \ {w}) \cup {row}
              /\ row.id = new.id /\ row.status = new.status /\ row.pairs = new.pairs
              /\ row.done = new.done /\ row.version = new.version + 1
              /\ UNCHANGED <<vehicle, driver, member, assignment, key>>
  <1>1. new.version + 1 \in Nat
    BY DEF WaveRow
  <1>2. [new EXCEPT !.version = @ + 1] \in WaveRow
    BY <1>1 DEF WaveRow
  <1>3. WITNESS [new EXCEPT !.version = @ + 1] \in WaveRow
  <1>4. QED
    BY <1>1 DEF Put, WaveRow

(* What the operations on an existing wave write.                          *)
LEMMA WaveChange ==
    ASSUME TablesOK, NEW r \in Request,
           \/ r.op = "waveUpdate" /\ UpdateWave(r)
           \/ r.op = "waveProgress" /\ ProgressWave(r)
           \/ r.op = "waveStart" /\ StartWave(r)
           \/ r.op = "waveComplete" /\ CompleteWave(r)
    PROVE  \E w \in wave, row \in WaveRow :
              /\ w.id = r.saw.id /\ row.id = w.id /\ row.version = w.version + 1
              /\ wave' = (wave \ {w}) \cup {row}
              /\ r.op = "waveUpdate" => row.status = w.status
              /\ r.op = "waveProgress" => row.status = w.status /\ row.pairs = w.pairs
              /\ r.op = "waveStart" => row.status = "ACTIVE" /\ row.pairs = w.pairs
              /\ r.op = "waveComplete" => row.status = "COMPLETED"
              /\ UNCHANGED <<vehicle, driver, member, assignment, key>>
  <1>0. \A w \in wave : w \in WaveRow
    BY DEF TablesOK
  <1>1. CASE r.op = "waveUpdate" /\ UpdateWave(r)
    <2>1. PICK w \in wave : /\ w.id = r.saw.id
                           /\ Put(w, [w EXCEPT !.pairs = r.pairs, !.done = r.done])
      BY <1>1 DEF UpdateWave
    <2>2. r.pairs \in SUBSET Pairs /\ r.done \in BOOLEAN
      BY <1>1, RequestShape DEF WaveRequest
    <2> DEFINE new == [w EXCEPT !.pairs = r.pairs, !.done = r.done]
    <2>3. new \in WaveRow /\ new.id = w.id /\ new.version = w.version /\ new.status = w.status
      BY <1>0, <2>2 DEF WaveRow
    <2>4. PICK row \in WaveRow :
              /\ wave' = (wave \ {w}) \cup {row}
              /\ row.id = new.id /\ row.status = new.status /\ row.pairs = new.pairs
              /\ row.done = new.done /\ row.version = new.version + 1
              /\ UNCHANGED <<vehicle, driver, member, assignment, key>>
      BY <2>1, <2>3, PutRow
    <2>5. QED
      BY <1>1, <2>1, <2>3, <2>4
  <1>2. CASE r.op = "waveProgress" /\ ProgressWave(r)
    <2>1. PICK w \in wave : w.id = r.saw.id /\ Put(w, [w EXCEPT !.done = r.done])
      BY <1>2 DEF ProgressWave
    <2>2. r.done \in BOOLEAN
      BY <1>2, RequestShape DEF WaveRequest
    <2> DEFINE new == [w EXCEPT !.done = r.done]
    <2>3. /\ new \in WaveRow /\ new.id = w.id /\ new.version = w.version
          /\ new.status = w.status /\ new.pairs = w.pairs
      BY <1>0, <2>2 DEF WaveRow
    <2>4. PICK row \in WaveRow :
              /\ wave' = (wave \ {w}) \cup {row}
              /\ row.id = new.id /\ row.status = new.status /\ row.pairs = new.pairs
              /\ row.done = new.done /\ row.version = new.version + 1
              /\ UNCHANGED <<vehicle, driver, member, assignment, key>>
      BY <2>1, <2>3, PutRow
    <2>5. QED
      BY <1>2, <2>1, <2>3, <2>4
  <1>3. CASE r.op = "waveStart" /\ StartWave(r)
    <2>1. PICK w \in wave : w.id = r.saw.id /\ Put(w, [w EXCEPT !.status = "ACTIVE"])
      BY <1>3 DEF StartWave
    <2> DEFINE new == [w EXCEPT !.status = "ACTIVE"]
    <2>2. /\ new \in WaveRow /\ new.id = w.id /\ new.version = w.version
          /\ new.status = "ACTIVE" /\ new.pairs = w.pairs
      BY <1>0 DEF WaveRow
    <2>3. PICK row \in WaveRow :
              /\ wave' = (wave \ {w}) \cup {row}
              /\ row.id = new.id /\ row.status = new.status /\ row.pairs = new.pairs
              /\ row.done = new.done /\ row.version = new.version + 1
              /\ UNCHANGED <<vehicle, driver, member, assignment, key>>
      BY <2>1, <2>2, PutRow
    <2>4. QED
      BY <1>3, <2>1, <2>2, <2>3
  <1>4. CASE r.op = "waveComplete" /\ CompleteWave(r)
    <2>1. PICK w \in wave : w.id = r.saw.id /\ Put(w, [w EXCEPT !.status = "COMPLETED"])
      BY <1>4 DEF CompleteWave
    <2> DEFINE new == [w EXCEPT !.status = "COMPLETED"]
    <2>2. new \in WaveRow /\ new.id = w.id /\ new.version = w.version /\ new.status = "COMPLETED"
      BY <1>0 DEF WaveRow
    <2>3. PICK row \in WaveRow :
              /\ wave' = (wave \ {w}) \cup {row}
              /\ row.id = new.id /\ row.status = new.status /\ row.pairs = new.pairs
              /\ row.done = new.done /\ row.version = new.version + 1
              /\ UNCHANGED <<vehicle, driver, member, assignment, key>>
      BY <2>1, <2>2, PutRow
    <2>4. QED
      BY <1>4, <2>1, <2>2, <2>3
  <1>5. QED
    BY <1>1, <1>2, <1>3, <1>4

LEMMA FramedWave ==
    ASSUME TablesOK, Identified, NEW r \in Request, NEW h, StartPairs(r),
           LocksOnRows(r) \subseteq h, Admissible(r),
           \/ r.op = "waveCreate" /\ CreateWave(r)
           \/ r.op = "waveUpdate" /\ UpdateWave(r)
           \/ r.op = "waveProgress" /\ ProgressWave(r)
           \/ r.op = "waveStart" /\ StartWave(r)
           \/ r.op = "waveComplete" /\ CompleteWave(r)
    PROVE  Frame(h)
  <1>1. CASE r.op = "waveCreate" /\ CreateWave(r)
    BY <1>1 DEF CreateWave, Frame, NewId
  <1>2. CASE r.op # "waveCreate"
    <2>1. r.saw.id \in WaveIds
      BY <1>2, RequestShape DEF WaveRequest, WaveRow
    <2>2. <<"wave", r.saw.id>> \in h
      BY <1>2, <2>1, LocksWaveRow DEF LocksWave
    <2>3. PICK w \in wave, row \in WaveRow :
              /\ w.id = r.saw.id /\ row.id = w.id /\ row.version = w.version + 1
              /\ wave' = (wave \ {w}) \cup {row}
              /\ r.op = "waveUpdate" => row.status = w.status
              /\ r.op = "waveProgress" => row.status = w.status /\ row.pairs = w.pairs
              /\ r.op = "waveStart" => row.status = "ACTIVE" /\ row.pairs = w.pairs
              /\ r.op = "waveComplete" => row.status = "COMPLETED"
              /\ UNCHANGED <<vehicle, driver, member, assignment, key>>
      BY <1>2, WaveChange
    <2>4. CASE r.op = "waveUpdate"
      <3>1. w.status = "PLANNED"
        BY <2>3, <2>4 DEF Admissible, CanUpdateWave, InStatus, Identified
      <3>2. QED
        BY <2>2, <2>3, <2>4, <3>1 DEF Frame
    <2>5. CASE r.op = "waveProgress"
      <3>1. w.status = "ACTIVE"
        BY <2>3, <2>5 DEF Admissible, CanProgressWave, InStatus, Identified
      <3>2. QED
        BY <2>2, <2>3, <2>5, <3>1 DEF Frame, ActiveWaves
    <2>6. CASE r.op = "waveStart"
      <3>1. w.pairs = r.pairs
        BY <2>3, <2>6 DEF StartPairs
      <3>2. \A p \in r.pairs : <<"vehicle", p[1]>> \in h /\ <<"driver", p[2]>> \in h
        <4>1. r.pairs \subseteq Pairs
          BY <2>6, RequestShape DEF WaveRequest
        <4>2. QED
          BY <2>6, <4>1, LocksVehicleRow, LocksDriverRow DEF LocksVehicle, LocksDriver, Pairs
      <3>3. QED
        BY <2>2, <2>3, <2>6, <3>1, <3>2 DEF Frame
    <2>7. CASE r.op = "waveComplete"
      BY <2>2, <2>3, <2>7 DEF Frame
    <2>8. QED
      BY <1>2, <2>4, <2>5, <2>6, <2>7
  <1>3. QED
    BY <1>1, <1>2

LEMMA FramedRegistry ==
    ASSUME TablesOK, NEW s, NEW r \in Request, NEW h, LocksOnRows(r) \subseteq h,
           \/ r.op = "driverUpdate" /\ UpdateDriver(r)
           \/ r.op = "driverArchive" /\ ArchiveDriver(s, r)
           \/ r.op = "driverReactivate" /\ ReactivateDriver(r)
           \/ r.op = "vehicleUpdate" /\ UpdateVehicle(r)
           \/ r.op = "vehicleArchive" /\ ArchiveVehicle(r)
           \/ r.op = "vehicleReactivate" /\ ReactivateVehicle(r)
    PROVE  Frame(h)
  <1>1. CASE r.op \in {"driverUpdate", "driverArchive", "driverReactivate"}
    <2>1. r.driver \in Drivers
      BY <1>1, RequestShape DEF RegistryRequest
    <2>2. <<"driver", r.driver>> \in h
      BY <1>1, <2>1, LocksDriverRow DEF LocksDriver
    <2>3. \A d \in Drivers : d # r.driver => driver'[d] = driver[d]
      BY <1>1 DEF UpdateDriver, ArchiveDriver, ReactivateDriver, TablesOK
    <2>4. UNCHANGED <<vehicle, assignment, key, wave>>
      BY <1>1 DEF UpdateDriver, ArchiveDriver, ReactivateDriver
    <2>5. QED
      BY <2>2, <2>3, <2>4 DEF Frame
  <1>2. CASE r.op \in {"vehicleUpdate", "vehicleArchive", "vehicleReactivate"}
    <2>1. r.vehicle \in Vehicles
      BY <1>2, RequestShape DEF RegistryRequest
    <2>2. <<"vehicle", r.vehicle>> \in h
      BY <1>2, <2>1, LocksVehicleRow DEF LocksVehicle
    <2>3. \A v \in Vehicles : v # r.vehicle => vehicle'[v] = vehicle[v]
      BY <1>2 DEF UpdateVehicle, ArchiveVehicle, ReactivateVehicle, TablesOK, tables
    <2>4. UNCHANGED <<driver, assignment, key, wave>>
      BY <1>2 DEF UpdateVehicle, ArchiveVehicle, ReactivateVehicle, tables
    <2>5. QED
      BY <2>2, <2>3, <2>4 DEF Frame
  <1>3. QED
    BY <1>1, <1>2

LEMMA Framed ==
    ASSUME TablesOK, Identified, NEW s, NEW r \in Request, NEW h, AnchoredRequest(r),
           StartPairs(r), LocksOnRows(r) \subseteq h, Admissible(r), Write(s, r)
    PROVE  Frame(h)
  BY FramedAssignment, FramedKey, FramedWave, FramedRegistry DEF Write

-----------------------------------------------------------------------------
(* The lock discipline: Exclusive and Covered.                             *)

LEMMA LocksSplit ==
    ASSUME NEW r \in Request
    PROVE  /\ LocksOnRows(r) \subseteq Locks(r)
           /\ \A row \in LocksOnRows(r) : row[1] # "member"
           /\ r.op \notin Unchecked => <<"member", r.user>> \in Locks(r)
  BY DEF Locks, LocksOnRows

LEMMA LockingSteps ==
    ASSUME TypeInv, Exclusive, Covered, NEW s \in Sessions, LockRow(s) \/ LockWave(s)
    PROVE  Exclusive' /\ Covered'
  <1>1. CASE LockRow(s)
    <2>1. PICK row \in todo[s] :
            /\ phase[s] = IF row[1] = "member" THEN "checked" ELSE "locking"
            /\ Free(s, row)
            /\ held' = [held EXCEPT ![s] = @ \cup {row}]
            /\ todo' = [todo EXCEPT ![s] = @ \ {row}]
            /\ UNCHANGED <<tables, phase, req>>
      BY <1>1 DEF LockRow
    <2>2. Exclusive'
      BY <2>1 DEF Exclusive, Free, TypeInv, TypeOK
    <2>3. Covered'
      BY <2>1 DEF Covered, UnderWay, Passed, TypeInv, TypeOK
    <2>4. QED
      BY <2>2, <2>3
  <1>2. CASE LockWave(s)
    <2> DEFINE row == <<"wave", req[s].saw.id>>
    <2>1. PICK w \in wave :
            LET r == [req[s] EXCEPT !.pairs = w.pairs]
            IN  /\ w.id = req[s].saw.id
                /\ req' = [req EXCEPT ![s] = r]
                /\ todo' = [todo EXCEPT ![s] = Locks(r) \ {<<"wave", w.id>>}]
      BY <1>2 DEF LockWave
    <2>2. /\ phase[s] = "locking" /\ UNCHANGED phase /\ Free(s, row)
          /\ held' = [held EXCEPT ![s] = @ \cup {row}]
      BY <1>2 DEF LockWave
    <2>3. Exclusive'
      BY <2>2 DEF Exclusive, Free, TypeInv, TypeOK
    <2>4. Covered'
      BY <2>1, <2>2 DEF Covered, UnderWay, Passed, TypeInv, TypeOK
    <2>5. QED
      BY <2>3, <2>4
  <1>3. QED
    BY <1>1, <1>2

LEMMA LockDiscipline ==
    ASSUME TypeInv, Exclusive, Covered, [Next]_vars
    PROVE  Exclusive' /\ Covered'
  <1>1. CASE \E s \in Sessions : Arrive(s)
    <2>1. PICK s \in Sessions : Arrive(s)
      BY <1>1
    <2>2. phase[s] = "idle" /\ \E r : Begin(s, r)
      BY <2>1
      DEF Arrive, BeginAssign, BeginClose, BeginKeyCreate, BeginKeyTransfer,
          BeginKeyRetire, BeginWaveCreate, BeginWaveUpdate, BeginWaveProgress,
          BeginWaveStart, BeginWaveComplete, BeginDriver, BeginVehicle
    <2>3. QED
      BY <2>2 DEF Begin, Exclusive, Covered, UnderWay, Passed, TypeInv, TypeOK
  <1>2. CASE \E s \in Sessions : LockRow(s) \/ LockWave(s)
    BY <1>2, LockingSteps
  <1>3. CASE \E s \in Sessions : Check(s) \/ Authorise(s)
    <2>1. PICK s \in Sessions : Check(s) \/ Authorise(s)
      BY <1>3
    <2>2. UnderWay(s) /\ req[s] \in Request
      BY <2>1 DEF Check, Ready, Authorise, Rechecking, UnderWay, TypeInv, Busy
    <2>3. CASE Check(s)
      <3>1. LocksOnRows(req[s]) \subseteq held[s]
        <4>1. SUFFICES ASSUME NEW row \in LocksOnRows(req[s]) PROVE row \in held[s]
          OBVIOUS
        <4>2. row[1] # "member" /\ row \in held[s] \cup todo[s]
          BY <2>2, LocksSplit DEF Covered
        <4>3. todo[s] \subseteq {"member"} \X Users
          BY <2>3 DEF Check, Ready
        <4>4. QED
          BY <4>2, <4>3
      <3>2. QED
        BY <2>2, <2>3, <3>1 DEF Check, Exclusive, Covered, UnderWay, Passed, TypeInv, TypeOK
    <2>4. CASE Authorise(s)
      <3>1. req[s].op \notin Unchecked /\ <<"member", req[s].user>> \in held[s]
        BY <2>2, <2>4, LocksSplit DEF Authorise, Rechecking, Covered
      <3>2. phase[s] = "checked"
        BY <2>4 DEF Authorise, Rechecking
      <3>3. QED
        BY <2>4, <3>1, <3>2
        DEF Authorise, Exclusive, Covered, UnderWay, Passed, TypeInv, TypeOK
    <2>5. QED
      BY <2>1, <2>3, <2>4
  <1>4. CASE \E s \in Sessions : Refuse(s) \/ Abort(s) \/ Commit(s)
    <2>1. PICK s \in Sessions : End(s)
      BY <1>4 DEF Refuse, Abort, Commit
    <2>2. QED
      BY <2>1 DEF End, Exclusive, Covered, UnderWay, Passed, TypeInv, TypeOK
  <1>5. CASE CreateDriver \/ CreateVehicle \/ ChangeAccount
    BY <1>5 DEF CreateDriver, CreateVehicle, ChangeAccount, txVars, Exclusive, Covered,
                UnderWay, Passed
  <1>6. CASE UNCHANGED vars
    BY <1>6 DEF vars, Exclusive, Covered, UnderWay, Passed
  <1>7. QED
    BY <1>1, <1>2, <1>3, <1>4, <1>5, <1>6 DEF Next, Lock

-----------------------------------------------------------------------------
(* Rows keep their identity: Identified, and what requests rely on.        *)

RowsKept ==
    /\ \A a \in assignment : \E b \in assignment' : b.id = a.id /\ b.vehicle = a.vehicle
    /\ \A k \in key : \E j \in key' : j.id = k.id /\ j.vehicle = k.vehicle
    /\ \A w \in wave : \E x \in wave' : x.id = w.id
    /\ \A v \in Vehicles : vehicle[v].status # "ABSENT" => vehicle'[v].status # "ABSENT"

LEMMA KeptAssignment ==
    ASSUME TablesOK, Identified, NEW r \in Request,
           \/ r.op = "assign" /\ Assign(r)
           \/ r.op = "close" /\ Close(r)
    PROVE  Identified' /\ RowsKept
  <1>1. UNCHANGED <<vehicle, key, wave>>
    BY DEF Assign, Close
  <1>2. (\A a, b \in assignment : a.id = b.id => a = b)'
    <2>1. CASE Assign(r)
      <3>1. PICK i \in AssignmentIds :
              /\ NewId(assignment, AssignmentIds, i)
              /\ assignment' = assignment \cup {[id |-> i, vehicle |-> r.vehicle,
                                                 driver |-> r.driver, open |-> TRUE]}
        BY <2>1 DEF Assign
      <3> DEFINE new == [id |-> i, vehicle |-> r.vehicle, driver |-> r.driver, open |-> TRUE]
      <3>2. new.id = i /\ assignment' = assignment \cup {new}
        BY <3>1
      <3> HIDE DEF new
      <3>3. QED
        BY <3>1, <3>2 DEF NewId, Identified
    <2>2. CASE Close(r)
      <3>1. PICK a \in assignment :
              assignment' = (assignment \ {a}) \cup {[a EXCEPT !.open = FALSE]}
        BY <2>2 DEF Close, OpenAssignments
      <3> DEFINE new == [a EXCEPT !.open = FALSE]
      <3>2. new.id = a.id /\ assignment' = (assignment \ {a}) \cup {new}
        BY <3>1 DEF TablesOK, AssignmentRow
      <3> HIDE DEF new
      <3>3. QED
        BY <3>2 DEF Identified
    <2>3. QED
      BY <2>1, <2>2
  <1>3. \A a \in assignment : \E b \in assignment' : b.id = a.id /\ b.vehicle = a.vehicle
    <2>1. CASE Assign(r)
      BY <2>1 DEF Assign
    <2>2. CASE Close(r)
      <3>1. PICK a \in assignment :
              assignment' = (assignment \ {a}) \cup {[a EXCEPT !.open = FALSE]}
        BY <2>2 DEF Close, OpenAssignments
      <3> DEFINE new == [a EXCEPT !.open = FALSE]
      <3>2. /\ new.id = a.id /\ new.vehicle = a.vehicle
            /\ assignment' = (assignment \ {a}) \cup {new}
        BY <3>1 DEF TablesOK, AssignmentRow
      <3> HIDE DEF new
      <3>3. QED
        BY <3>2
    <2>3. QED
      BY <2>1, <2>2
  <1>4. QED
    BY <1>1, <1>2, <1>3 DEF Identified, RowsKept

(* What the operations on an existing key write.                           *)
LEMMA KeyChange ==
    ASSUME TablesOK, NEW r \in Request,
           \/ r.op = "keyTransfer" /\ TransferKey(r)
           \/ r.op \in {"keyRetire", "keyReplace"} /\ RetireKey(r)
    PROVE  \E k \in key, row \in KeyRow, added \in SUBSET KeyRow :
              /\ Current(r, k)
              /\ key' = (key \ {k}) \cup {row} \cup added
              /\ row.id = k.id /\ row.vehicle = k.vehicle /\ row.slot = k.slot
              /\ row.version = k.version + 1 /\ row.replaces = k.replaces
              /\ r.op = "keyTransfer" =>
                    row.holder = r.to /\ row.status = k.status /\ added = {}
              /\ r.op # "keyTransfer" => row.holder = k.holder /\ row.status = "RETIRED"
              /\ \/ added = {}
                 \/ \E i \in KeyIds : /\ NewId(key, KeyIds, i)
                                      /\ added = {FreshKey(i, k.vehicle, k.slot, k.id)}
              /\ UNCHANGED <<vehicle, driver, member, assignment, wave>>
  <1>0. \A k \in key : k \in KeyRow /\ k.version + 1 \in Nat
    BY DEF TablesOK, KeyRow
  <1>1. CASE r.op = "keyTransfer" /\ TransferKey(r)
    <2>1. PICK k \in key : /\ Current(r, k)
                          /\ key' = (key \ {k}) \cup
                                 {[k EXCEPT !.holder = r.to, !.version = @ + 1]}
      BY <1>1 DEF TransferKey
    <2> DEFINE row == [k EXCEPT !.holder = r.to, !.version = @ + 1]
    <2>2. r.to \in Holders
      BY <1>1, RequestShape DEF KeyRequest
    <2>3. /\ row \in KeyRow /\ row.id = k.id /\ row.vehicle = k.vehicle /\ row.slot = k.slot
          /\ row.version = k.version + 1 /\ row.replaces = k.replaces
          /\ row.holder = r.to /\ row.status = k.status
      BY <1>0, <2>2 DEF KeyRow
    <2>4. key' = (key \ {k}) \cup {row} \cup {}
      BY <2>1
    <2>5. {} \in SUBSET KeyRow
      OBVIOUS
    <2> HIDE DEF row
    <2>6. QED
      BY <1>1, <2>1, <2>3, <2>4, <2>5 DEF TransferKey
  <1>2. CASE r.op \in {"keyRetire", "keyReplace"} /\ RetireKey(r)
    <2>1. PICK k \in key :
            LET retired == [k EXCEPT !.status = "RETIRED", !.version = @ + 1]
            IN  /\ Current(r, k)
                /\ \/ key' = (key \ {k}) \cup {retired}
                   \/ \E i \in KeyIds :
                         /\ NewId(key, KeyIds, i)
                         /\ key' = (key \ {k}) \cup
                                {retired, FreshKey(i, k.vehicle, k.slot, k.id)}
      BY <1>2 DEF RetireKey
    <2> DEFINE row == [k EXCEPT !.status = "RETIRED", !.version = @ + 1]
    <2>2. /\ row \in KeyRow /\ row.id = k.id /\ row.vehicle = k.vehicle /\ row.slot = k.slot
          /\ row.version = k.version + 1 /\ row.replaces = k.replaces
          /\ row.holder = k.holder /\ row.status = "RETIRED"
      BY <1>0 DEF KeyRow
    <2>3. \A i \in KeyIds : FreshKey(i, k.vehicle, k.slot, k.id) \in KeyRow
      BY <1>0 DEF FreshKey, KeyRow, Holders
    <2>4. Current(r, k)
      BY <2>1
    <2> HIDE DEF row
    <2>5. CASE key' = (key \ {k}) \cup {row}
      <3>1. key' = (key \ {k}) \cup {row} \cup {} /\ {} \in SUBSET KeyRow
        BY <2>5
      <3>2. QED
        BY <1>2, <2>2, <2>4, <3>1 DEF RetireKey
    <2>6. CASE \E i \in KeyIds : /\ NewId(key, KeyIds, i)
                                 /\ key' = (key \ {k}) \cup
                                        {row, FreshKey(i, k.vehicle, k.slot, k.id)}
      <3>1. PICK i \in KeyIds : /\ NewId(key, KeyIds, i)
                               /\ key' = (key \ {k}) \cup
                                      {row, FreshKey(i, k.vehicle, k.slot, k.id)}
        BY <2>6
      <3> DEFINE added == {FreshKey(i, k.vehicle, k.slot, k.id)}
      <3>2. key' = (key \ {k}) \cup {row} \cup added /\ added \in SUBSET KeyRow
        BY <2>3, <3>1
      <3>3. QED
        BY <1>2, <2>2, <2>4, <3>1, <3>2 DEF RetireKey
    <2>7. QED
      BY <2>1, <2>5, <2>6 DEF row
  <1>3. QED
    BY <1>1, <1>2

LEMMA KeptKey ==
    ASSUME TablesOK, Identified, NEW r \in Request, Admissible(r),
           \/ r.op = "keyCreate" /\ CreateKey(r)
           \/ r.op = "keyTransfer" /\ TransferKey(r)
           \/ r.op \in {"keyRetire", "keyReplace"} /\ RetireKey(r)
    PROVE  Identified' /\ RowsKept
  <1>1. CASE r.op = "keyCreate" /\ CreateKey(r)
    <2>1. VehicleActive(r.vehicle)
      BY <1>1 DEF Admissible, CanCreateKey
    <2>2. QED
      BY <1>1, <2>1
      DEF CreateKey, NewId, FreshKey, VehicleActive, Identified, RowsKept
  <1>2. CASE r.op # "keyCreate"
    <2>1. PICK k \in key, row \in KeyRow, added \in SUBSET KeyRow :
              /\ key' = (key \ {k}) \cup {row} \cup added
              /\ row.id = k.id /\ row.vehicle = k.vehicle
              /\ \/ added = {}
                 \/ \E i \in KeyIds : /\ NewId(key, KeyIds, i)
                                      /\ added = {FreshKey(i, k.vehicle, k.slot, k.id)}
              /\ UNCHANGED <<vehicle, driver, member, assignment, wave>>
      BY <1>2, KeyChange
    <2>2. \A j \in added : /\ j.vehicle = k.vehicle
                           /\ \A x \in key : x.id # j.id
                           /\ added = {j}
      BY <2>1 DEF NewId, FreshKey
    <2>3. QED
      BY <2>1, <2>2 DEF Identified, RowsKept
  <1>3. QED
    BY <1>1, <1>2

LEMMA KeptWave ==
    ASSUME TablesOK, Identified, NEW r \in Request,
           \/ r.op = "waveCreate" /\ CreateWave(r)
           \/ r.op = "waveUpdate" /\ UpdateWave(r)
           \/ r.op = "waveProgress" /\ ProgressWave(r)
           \/ r.op = "waveStart" /\ StartWave(r)
           \/ r.op = "waveComplete" /\ CompleteWave(r)
    PROVE  Identified' /\ RowsKept
  <1>1. CASE r.op = "waveCreate" /\ CreateWave(r)
    BY <1>1 DEF CreateWave, NewId, Identified, RowsKept
  <1>2. CASE r.op # "waveCreate"
    <2>1. PICK w \in wave, row \in WaveRow :
              /\ row.id = w.id
              /\ wave' = (wave \ {w}) \cup {row}
              /\ UNCHANGED <<vehicle, driver, member, assignment, key>>
      BY <1>2, WaveChange
    <2>2. QED
      BY <2>1 DEF Identified, RowsKept
  <1>3. QED
    BY <1>1, <1>2

LEMMA KeptRegistry ==
    ASSUME TablesOK, Identified, NEW s, NEW r \in Request,
           \/ r.op = "driverUpdate" /\ UpdateDriver(r)
           \/ r.op = "driverArchive" /\ ArchiveDriver(s, r)
           \/ r.op = "driverReactivate" /\ ReactivateDriver(r)
           \/ r.op = "vehicleUpdate" /\ UpdateVehicle(r)
           \/ r.op = "vehicleArchive" /\ ArchiveVehicle(r)
           \/ r.op = "vehicleReactivate" /\ ReactivateVehicle(r)
    PROVE  Identified' /\ RowsKept
  <1>1. UNCHANGED <<assignment, key, wave>>
    BY DEF UpdateDriver, ArchiveDriver, ReactivateDriver, UpdateVehicle, ArchiveVehicle,
           ReactivateVehicle, tables
  <1>2. \A v \in Vehicles : vehicle[v].status # "ABSENT" => vehicle'[v].status # "ABSENT"
    BY DEF UpdateDriver, ArchiveDriver, ReactivateDriver, UpdateVehicle, ArchiveVehicle,
           ReactivateVehicle, tables, TablesOK
  <1>3. \A k \in key : k.vehicle \in Vehicles
    BY DEF TablesOK, KeyRow
  <1>4. QED
    BY <1>1, <1>2, <1>3 DEF Identified, RowsKept

LEMMA Kept ==
    ASSUME TablesOK, Identified, NEW s, NEW r \in Request, Admissible(r), Write(s, r)
    PROVE  Identified' /\ RowsKept
  BY KeptAssignment, KeptKey, KeptWave, KeptRegistry DEF Write
=============================================================================
