-------------------------- MODULE WorkTimeInvariant --------------------------
(***************************************************************************)
(* The inductive invariant of WorkTime: which locks a transaction has when *)
(* it trusts what it read, and what the rows say of one another.           *)
(***************************************************************************)
EXTENDS WorkTime

UnderWay(s) == phase[s] # "idle"

TablesOK ==
    /\ driverActive \in [Drivers -> BOOLEAN]
    /\ member \in [Users -> MemberRow]
    /\ entry \in [EntryIds -> EntryRow]
    /\ event \subseteq EventRow
    /\ correction \subseteq CorrectionRow

(* What is known of a request's rows before they are locked.  Versions     *)
(* only grow, and a row is the same for as long as its version is.         *)
Known(r) ==
    /\ HasEntry(r) => r.entry \in EntryIds /\ Exists(r.entry)
    /\ OwnOnly(r) /\ HasEntry(r) => r.version <= entry[r.entry].version
    /\ r.op = "start" => r.version = 0
    /\ r.op \in {"create", "update"} => Proper(r.span)
    /\ r.op = "request" => r.proposal.end # Nil
    /\ r.op = "approve" =>
          /\ r.saw.version <= entry[r.entry].version
          /\ r.saw.version = entry[r.entry].version => entry[r.entry] = r.saw

Busy == \A s \in Sessions : UnderWay(s) => req[s] \in Request /\ Known(req[s])

(* A row is locked by one session, a membership perhaps by several readers.*)
Exclusive ==
    \A s, t \in Sessions : \A row \in held[s] \cap held[t] :
        s # t => row[1] = "member"

(* The entry a driver's transaction did not find belongs to someone else,  *)
(* or has come back at a version the driver never saw.                     *)
Missed(r) ==
    /\ OwnOnly(r) /\ HasEntry(r)
    /\ entry[r.entry].driver # r.user \/ r.version < entry[r.entry].version

(* A transaction holds, or will still take, every lock of its request, the *)
(* ones it learns from its entry included.                                 *)
Cover(s) ==
    /\ ~ UnderWay(s) => held[s] = {}
    /\ UnderWay(s) =>
          /\ \A row \in Locks(req[s]) :
                \/ row \in held[s] \cup todo[s]
                \/ row[1] = "entry" /\ Missed(req[s])
          /\ HasEntry(req[s]) /\ <<"entry", req[s].entry>> \in held[s] =>
                Learnt(req[s]) \subseteq held[s] \cup todo[s]
    /\ phase[s] = "checked" =>
          /\ todo[s] = {}
          /\ OwnOnly(req[s]) => req[s].at \in Times

Covered == \A s \in Sessions : Cover(s)

(* A booking is at or after every time its open shift has.                 *)
Latest(e, t) ==
    /\ e.start <= t
    /\ e.paused = Nil => e.break <= t - e.start
    /\ e.paused # Nil => e.paused <= t /\ e.break < e.paused - e.start

EntrySound(i) ==
    LET e == entry[i] IN
    /\ ~ Exists(i) => e.clock = "NONE" /\ e.version = 0
    /\ e.paused # Nil <=> e.clock = "PAUSED"
    /\ e.clock = "FINISHED" => e.end # Nil
    /\ e.clock \in {"RUNNING", "PAUSED"} =>
          e.end = Nil /\ e.status # "APPROVED" /\ \E v \in event : v.entry = i /\ Latest(e, v.at)
    /\ Exists(i) => Proper(e)

(* A request for a correction is about its entry: the very row while it is *)
(* pending at the row's version, an earlier one once it was approved.      *)
CorrectionSound(c) ==
    LET e == entry[c.entry] IN
    /\ Exists(c.entry) /\ e.driver = c.driver /\ Proper(c.proposal) /\ c.proposal.end # Nil
    /\ c.version <= e.version
    /\ c.status = "PENDING" /\ c.version = e.version => c.before = SpanOf(e)
    /\ c.status = "APPROVED" => c.version < e.version
    /\ \A b \in correction \ {c} :
          /\ b.id # c.id
          /\ b.entry = c.entry /\ b.status = c.status /\ c.status # "REJECTED" =>
                c.status = "APPROVED" /\ b.version # c.version

RowsSound ==
    /\ \A i \in EntryIds : EntrySound(i)
    /\ \A v \in event : Exists(v.entry)
    /\ \A c \in correction : CorrectionSound(c)

IInv ==
    /\ TypeOK
    /\ Busy
    /\ Exclusive
    /\ Covered
    /\ RowsSound
    /\ ChecksStand
    /\ NoOverlap
    /\ BookedOnce
=============================================================================
