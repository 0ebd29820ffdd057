--------------------------- MODULE FleetInvariant ---------------------------
(***************************************************************************)
(* The inductive invariant of Fleet: why row locks keep what a transaction *)
(* has read.                                                               *)
(***************************************************************************)
EXTENDS Fleet

UnderWay(s) == phase[s] # "idle"
Passed(s)   == phase[s] \in {"checked", "authorised"}

(* A transaction under way serves a request.                               *)
Busy == \A s \in Sessions : UnderWay(s) => req[s] \in Request

(* A row is locked by one session, a membership perhaps by several readers.*)
Exclusive ==
    \A s, t \in Sessions : \A row \in held[s] \cap held[t] :
        s # t => row[1] = "member"

(* A transaction holds, or will still take, every lock of its request; it  *)
(* holds them all when it checks, and the membership when it is authorised.*)
Covered ==
    \A s \in Sessions :
        /\ ~ UnderWay(s) => held[s] = {}
        /\ UnderWay(s) => Locks(req[s]) \subseteq held[s] \cup todo[s]
        /\ Passed(s) => LocksOnRows(req[s]) \subseteq held[s]
        /\ phase[s] = "authorised" => /\ req[s].op \notin Unchecked
                                      /\ <<"member", req[s].user>> \in held[s]

(* Identifiers are keys of their tables, and keys belong to known vehicles.*)
Identified ==
    /\ \A a, b \in assignment : a.id = b.id => a = b
    /\ \A j, k \in key : j.id = k.id => j = k
    /\ \A w, x \in wave : w.id = x.id => w = x
    /\ \A k \in key : vehicle[k.vehicle].status # "ABSENT"

(* What a request says of a row before it is locked is not changed by      *)
(* anyone; a start that has locked its wave knows its participants.        *)
AnchoredRequest(r) ==
    /\ r.op = "close" => \E a \in assignment : a.id = r.id /\ a.vehicle = r.vehicle
    /\ r.op \in {"keyTransfer", "keyRetire", "keyReplace"} =>
          \E k \in key : k.id = r.saw.id /\ k.vehicle = r.saw.vehicle
    /\ r.op \in {"waveUpdate", "waveProgress", "waveStart", "waveComplete"} =>
          \E w \in wave : w.id = r.saw.id
    /\ r.op = "vehicleUpdate" => vehicle[r.vehicle].status # "ABSENT"

StartPairs(r) ==
    r.op = "waveStart" => \A w \in wave : w.id = r.saw.id => w.pairs = r.pairs

Anchored ==
    \A s \in Sessions : UnderWay(s) =>
        /\ AnchoredRequest(req[s])
        /\ req[s].op = "waveStart" /\ <<"wave", req[s].saw.id>> \in held[s] =>
              StartPairs(req[s])

(* A client's copy of a row is the row itself for as long as the version   *)
(* is the same.                                                            *)
KeyOps  == {"keyTransfer", "keyRetire", "keyReplace"}
WaveOps == {"waveUpdate", "waveProgress", "waveStart", "waveComplete"}

VersionedRequest(r) ==
    /\ r.op \in KeyOps =>
          \A k \in key : k.id = r.saw.id => r.saw.version < k.version \/ r.saw = k
    /\ r.op \in WaveOps =>
          \A w \in wave : w.id = r.saw.id => r.saw.version < w.version \/ r.saw = w
    /\ r.op = "driverReactivate" =>
          /\ driver[r.driver].status # "ABSENT"
          /\ r.saw.rev < driver[r.driver].rev \/ r.saw = driver[r.driver]

Versioned == \A s \in Sessions : UnderWay(s) => VersionedRequest(req[s])

LockInv == Busy /\ Exclusive /\ Covered
RowInv  == Identified /\ Anchored

IInv == TypeOK /\ LockInv /\ RowInv /\ ChecksStillHold
=============================================================================
