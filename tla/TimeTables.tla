----------------------------- MODULE TimeTables -----------------------------
(***************************************************************************)
(* Work time at Fahriva: the tables its three services share               *)
(* (features/work-time/clock.ts, corrections.ts and the work-times part of *)
(* features/operations/service.ts) and the transactions that change them.  *)
(*                                                                         *)
(* Every transaction locks entry, drivers and the actor's membership, in   *)
(* this order, then reads, then writes.  The lock of an entry tells which  *)
(* driver to lock next.  The clock of a server may stand still or step     *)
(* back: a transaction reads whatever time it shows.                       *)
(***************************************************************************)
EXTENDS Integers, FiniteSets

CONSTANTS
    Drivers,        \* driver profiles, each with the account linked to it
    Admins,         \* the other members of the organisation
    Pos,            \* position of a driver identifier in sorted order
    Sessions,       \* concurrent requests (one transaction each)
    EntryIds, CorrectionIds,
    RequestIds,     \* identifiers clients give their clock commands
    Times,          \* what a server clock can show
    Proposals,      \* times an administrator enters or a driver proposes
    MaxVersion,     \* bound: entries at this version are left alone
    Ops,            \* the operations clients call in this instance
    Nil

VARIABLES
    driverActive,   \* DriverProfile.status
    member,         \* Membership: role and active
    entry,          \* WorkTimeEntry
    event,          \* WorkTimeClockEvent
    correction,     \* WorkTimeCorrection
    phase,          \* what each session's transaction is doing
    req,            \* the request it serves
    todo,           \* row locks it still has to take
    held            \* row locks it holds

people  == <<driverActive, member>>
sheets  == <<entry, event, correction>>
tables  == <<driverActive, member, entry, event, correction>>
vars    == <<driverActive, member, entry, event, correction,
             phase, req, todo, held>>

Users    == Drivers \cup Admins
ClockOps == {"start", "pause", "resume", "finish"}
TimeOps  == {"create", "update", "approve"}
AllOps   == ClockOps \cup TimeOps \cup {"request", "decide", "staff"}

Span == [start : Times, end : Times \cup {Nil}, break : Nat]

ASSUME TimeAssumption ==
    /\ Times \subseteq Nat /\ Proposals \subseteq Span
    /\ MaxVersion \in Nat
    /\ Pos \in [Drivers -> Nat]
    /\ \A c, d \in Drivers : Pos[c] = Pos[d] => c = d
    /\ Nil \notin Times \cup EntryIds /\ Drivers # {} /\ Times # {}
    /\ Ops \subseteq AllOps

-----------------------------------------------------------------------------
(* Rows.  An entry whose status is ABSENT does not exist yet.              *)

EntryRow ==
    [driver : Drivers, start : Times, end : Times \cup {Nil}, break : Nat,
     clock : {"NONE", "RUNNING", "PAUSED", "FINISHED"}, paused : Times \cup {Nil},
     status : {"ABSENT", "OPEN", "SUBMITTED", "APPROVED"}, version : Nat]

EventRow == [entry : EntryIds, user : Drivers, rid : RequestIds,
             action : ClockOps, version : Nat, at : Times]

CorrectionRow ==
    [id : CorrectionIds, entry : EntryIds, driver : Drivers, version : Nat,
     proposal : Span, before : Span, status : {"PENDING", "APPROVED", "REJECTED"}]

MemberRow == [role : {"ADMIN", "DISPATCHER", "DRIVER"}, active : BOOLEAN]

Exists(i)  == entry[i].status # "ABSENT"
SpanOf(e)  == [start |-> e.start, end |-> e.end, break |-> e.break]

(* Two shifts meet: each begins before the other has ended.                *)
Meets(e, f) ==
    /\ e.end = Nil \/ f.start < e.end
    /\ f.end = Nil \/ e.start < f.end

Proper(x) == x.end # Nil => x.start < x.end /\ x.break < x.end - x.start

(* Mutant: a shift that is still open is not looked at.                    *)
Clear_EndedOnly(d, x, i) ==
    \A j \in EntryIds \ {i} :
        Exists(j) /\ entry[j].driver = d /\ entry[j].end # Nil => ~ Meets(x, entry[j])

(* Nothing else of driver d meets x.                                       *)
Clear(d, x, i) ==
    \A j \in EntryIds \ {i} :
        Exists(j) /\ entry[j].driver = d => ~ Meets(x, entry[j])

(* Bound: every request under way still finds an identifier.               *)
Room == Cardinality({i \in EntryIds : Exists(i)})
        + Cardinality({s \in Sessions : phase[s] # "idle"
                          /\ req[s].op \in {"start", "create"}})
        < Cardinality(EntryIds)

-----------------------------------------------------------------------------
(* Requests.  at is the server time the transaction reads, 0 before; of    *)
(* the row an approver saw, only the version reaches the service.          *)

ClockRequest == [op : ClockOps, user : Drivers, rid : RequestIds,
                 entry : EntryIds \cup {Nil}, version : Nat, at : Nat]
CorrectionRequest ==
    [op : {"request"}, user : Drivers, id : CorrectionIds, entry : EntryIds,
     version : Nat, proposal : Span, at : Nat]
    \cup [op : {"decide"}, user : Users, id : CorrectionIds, entry : EntryIds,
          verdict : {"APPROVED", "REJECTED"}, at : Nat]
TimeRequest ==
    [op : {"create"}, user : Users, driver : Drivers, span : Span, at : Nat]
    \cup [op : {"update"}, user : Users, entry : EntryIds, driver : Drivers,
          span : Span, at : Nat]
    \cup [op : {"approve"}, user : Users, entry : EntryIds, saw : EntryRow, at : Nat]

Request == ClockRequest \cup CorrectionRequest \cup TimeRequest

HasEntry(r) == r.op \in {"pause", "resume", "finish", "request", "decide",
                         "update", "approve"}
OwnOnly(r)  == r.op \in ClockOps \cup {"request"}     \* only the actor's entries

(* The operations that read the actor's membership in their transaction.   *)
Rechecked(r) == r.op \in ClockOps \cup {"request", "decide"}

RoleFor(op) == IF op \in ClockOps \cup {"request"} THEN "DRIVER" ELSE "ADMIN"

Permitted(u, op) ==
    /\ member[u] = [role |-> RoleFor(op), active |-> TRUE]
    /\ RoleFor(op) = "DRIVER" => driverActive[u]

-----------------------------------------------------------------------------
(* Row locks.                                                              *)

Rows == ({"entry"} \X EntryIds) \cup ({"driver"} \X Drivers) \cup ({"member"} \X Users)

TableRank == [entry |-> 1, driver |-> 2, member |-> 3]

(* Mutant: an amendment locks its two drivers in any order.                *)
Precedes_Unsorted(r, q) ==
    TableRank[r[1]] < TableRank[q[1]] \/ (r[1] = "driver" /\ q[1] = "driver")

Precedes(r, q) ==
    \/ TableRank[r[1]] < TableRank[q[1]]
    \/ r[1] = "driver" /\ q[1] = "driver" /\ Pos[r[2]] < Pos[q[2]]

Free(s, row) ==
    \A t \in Sessions \ {s} : row \in held[t] => row[1] = "member"

(* The locks known before any row is read.                                 *)
Locks(r) ==
    {q \in {"entry"} \X EntryIds : HasEntry(r) /\ q[2] = r.entry}
    \cup {q \in {"driver"} \X Drivers :
            \/ OwnOnly(r) /\ q[2] = r.user
            \/ r.op \in {"create", "update"} /\ q[2] = r.driver}
    \cup {q \in {"member"} \X Users : Rechecked(r) /\ q[2] = r.user}

(* Mutant: a decision and an amendment lock their entry only.              *)
Learnt_Nothing(r) == {}

(* The driver lock an entry asks for, once it is locked itself.            *)
Learnt(r) ==
    {q \in {"driver"} \X Drivers :
        r.op \in {"decide", "update"} /\ q[2] = entry[r.entry].driver}

-----------------------------------------------------------------------------
(* The steps every transaction is made of.                                 *)

(* A request arrives at an idle session, from a member who has the role.   *)
Begin(s, r) ==
    /\ r.op \in Ops
    /\ Permitted(r.user, r.op)
    /\ phase' = [phase EXCEPT ![s] = "locking"]
    /\ req' = [req EXCEPT ![s] = r]
    /\ todo' = [todo EXCEPT ![s] = Locks(r)]
    /\ UNCHANGED <<tables, held>>

NextLock(s, row) ==
    /\ phase[s] = "locking" /\ row \in todo[s]
    /\ \A q \in todo[s] \ {row} : Precedes(row, q)

LockRow(s) ==
    \E row \in todo[s] :
        /\ NextLock(s, row)
        /\ Free(s, row)
        /\ row[1] = "entry" /\ OwnOnly(req[s]) => entry[row[2]].driver = req[s].user
        /\ held' = [held EXCEPT ![s] = @ \cup {row}]
        /\ todo' = [todo EXCEPT ![s] = (@ \ {row})
                        \cup {q \in Learnt(req[s]) : row[1] = "entry"}]
        /\ UNCHANGED <<tables, phase, req>>

(* The driver's entry belongs to someone else by now: the statement finds  *)
(* no row to lock and the transaction goes on.                             *)
MissRow(s) ==
    /\ \E row \in todo[s] :
        /\ NextLock(s, row)
        /\ OwnOnly(req[s]) /\ row[1] = "entry" /\ entry[row[2]].driver # req[s].user
        /\ todo' = [todo EXCEPT ![s] = @ \ {row}]
    /\ UNCHANGED <<tables, phase, req, held>>

(* COMMIT or ROLLBACK.                                                     *)
End(s) ==
    /\ phase' = [phase EXCEPT ![s] = "idle"]
    /\ req' = [req EXCEPT ![s] = Nil]
    /\ todo' = [todo EXCEPT ![s] = {}]
    /\ held' = [held EXCEPT ![s] = {}]

(* The connection is lost or the transaction times out.                    *)
Abort(s) ==
    /\ phase[s] # "idle"
    /\ End(s)
    /\ UNCHANGED tables
=============================================================================
