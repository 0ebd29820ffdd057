----------------------------- MODULE StockTables -----------------------------
(***************************************************************************)
(* The tables of inventory and notifications, and the transactions that    *)
(* change them (src/src/features/{inventory,notifications}).               *)
(*                                                                         *)
(* Every transaction locks its rows one by one (Path), reads and decides   *)
(* (Check), then writes and commits; a write to rows it has not locked     *)
(* waits for them in the commit.  The scheduled reminder job is a session  *)
(* that works through a list of its own.                                   *)
(***************************************************************************)
EXTENDS Integers, FiniteSets, Sequences

CONSTANTS
    Items, Holders, Users,      \* inventory, vehicles and drivers, members
    SuperAdmins,                \* members whose access nobody changes
    Issues,                     \* request identifiers of issues; each names
                                \* the custody record it creates
    Plain,                      \* notifications that are no stock alerts
    Sessions, Jobs,             \* HTTP requests and runs of the reminder job
    Quantities,                 \* pieces in one movement
    MaxStock,                   \* 2^31 - 1 in the code
    MaxAttempts,                \* 5 in the code
    MaxVersion, MaxEpisode,     \* bounds: settings and notifications at this
                                \* version, items in this shortage are left alone
    MaxSubjects,                \* bound: items and notifications about nothing else
    MaxFaults,                  \* bound: transactions that fail
    Ops, Nil

VARIABLES
    item,       \* InventoryItem, Nil before it is created
    custody,    \* InventoryCustody by its request, Nil before it is issued
    note,       \* Notification by identifier
    rank,       \* Membership (and driver profile): what a user may do
    active,     \* status of vehicles and drivers
    phase, req, todo, held,     \* transactions: stage, request, rows to lock, locked
    due, left,  \* a job run: reminders due when it began, still to be visited
    faults      \* failures so far

tables == <<item, custody, note, rank, active>>
tx     == <<phase, req, todo, held>>
run    == <<due, left>>
vars   == <<item, custody, note, rank, active, phase, req, todo, held, due, left, faults>>

Txs == Sessions \cup Jobs

ASSUME StockAssumption ==
    /\ Quantities \subseteq Nat \ {0} /\ MaxStock \in Nat
    /\ MaxAttempts \in Nat /\ MaxVersion \in Nat /\ MaxEpisode \in Nat
    /\ MaxSubjects \in Nat /\ MaxFaults \in Nat
    /\ Sessions \cap Jobs = {} /\ SuperAdmins \subseteq Users
    /\ \A x \in Items : x # Nil
    /\ \A u \in Users : u # Nil

-----------------------------------------------------------------------------
(* Rows.  The identifier of an alert is a hash of item, shortage and       *)
(* person, that of a reminder a hash of its origin's version and attempt.  *)

AlertIds    == {"stock"} \X Items \X Nat \X Users
PlainIds    == {"plain"} \X Plain
OriginIds   == AlertIds \cup PlainIds
ReminderIds == {"reminder"} \X OriginIds \X Nat \X Nat
NoteIds     == OriginIds \cup ReminderIds

ItemRow    == [stock : Int, min : Nat, low : BOOLEAN, episode : Nat,
               recipient : Users \cup {Nil}, version : Nat]
CustodyRow == [item : Items, holder : Holders, quantity : Nat, returned : Nat,
               by : Users, version : Nat]
NoteRow    == [item : Items \cup {Nil}, origin : OriginIds \cup {Nil},
               recipient : Users, owner : Users \cup {Nil}, action : BOOLEAN,
               staffOnly : BOOLEAN, ack : BOOLEAN, resolved : BOOLEAN,
               next : {"never", "later", "due"},
               status : {"NONE", "PENDING", "RETRY", "FAILED", "CREATED", "CANCELLED"},
               attempts : Nat, version : Nat]

(* Nil is none of the things it stands in for.                             *)
ASSUME NilAssumption ==
    /\ Nil \notin ItemRow /\ Nil \notin CustodyRow /\ Nil \notin OriginIds
    /\ Nil \notin [item : Items, holder : Holders, out : Int]

Stocked   == {i \in Items : item[i] # Nil}
Issued    == {c \in Issues : custody[c] # Nil}
Notes     == DOMAIN note
Room      == Cardinality(Stocked) + Cardinality(Notes \cap PlainIds) < MaxSubjects
IsStaff(u) == rank[u] = "staff"

(* A new notification plans one reminder, a day later.                     *)
Fresh(i, u, staffOnly) ==
    [item |-> i, origin |-> Nil, recipient |-> u, owner |-> Nil, action |-> FALSE,
     staffOnly |-> staffOnly, ack |-> FALSE, resolved |-> FALSE,
     next |-> "later", status |-> "PENDING", attempts |-> 0, version |-> 1]

(* The table with rows added or replaced; the table with rows changed.     *)
Put(t, n, row) == [m \in DOMAIN t \cup {n} |-> IF m = n THEN row ELSE t[m]]
Resolved(t, S) == [m \in DOMAIN t |-> IF m \in S THEN [t[m] EXCEPT !.resolved = TRUE]
                                      ELSE t[m]]

-----------------------------------------------------------------------------
(* Row locks.                                                              *)

Rows == ({"item"} \X Items) \cup ({"holder"} \X Holders)
        \cup ({"member"} \X Users) \cup ({"note"} \X NoteIds)

Free(s, row) == \A t \in Txs \ {s} : row \in held[t] => row[1] = "member"

(* Mutant: an issue locks its item only.                                   *)
Path_NoHolder(r) ==
    IF r.op \in {"issue", "adjust", "return"}
    THEN <<<<"item", r.item>>, <<"member", r.user>>>> ELSE <<>>

(* The rows a transaction locks, in its order.                             *)
Path(r) ==
    IF r.op = "issue"
    THEN <<<<"item", r.item>>, <<"holder", r.holder>>, <<"member", r.user>>>>
    ELSE IF r.op \in {"adjust", "update", "configure", "return"}
    THEN <<<<"item", r.item>>, <<"member", r.user>>>>
    ELSE IF r.op = "reconcile" THEN <<<<"item", r.item>>>>
    ELSE IF r.op = "remind" THEN <<<<"note", r.note>>>>
    ELSE <<<<"note", r.note>>, <<"member", r.user>>>>

Begin(s, r) ==
    /\ phase[s] = "idle"
    /\ r.op \in Ops
    /\ phase' = [phase EXCEPT ![s] = "locking"]
    /\ req' = [req EXCEPT ![s] = r]
    /\ todo' = [todo EXCEPT ![s] = Path(r)]
    /\ UNCHANGED <<tables, held, due, faults>>

LockRow(s) ==
    /\ phase[s] = "locking" /\ todo[s] # <<>>
    /\ Free(s, Head(todo[s]))
    /\ held' = [held EXCEPT ![s] = @ \cup {Head(todo[s])}]
    /\ todo' = [todo EXCEPT ![s] = Tail(@)]
    /\ UNCHANGED <<tables, phase, req, run, faults>>

Ready(s) == phase[s] = "locking" /\ todo[s] = <<>>

End(s) ==
    /\ phase' = [phase EXCEPT ![s] = "idle"]
    /\ req' = [req EXCEPT ![s] = Nil]
    /\ todo' = [todo EXCEPT ![s] = <<>>]
    /\ held' = [held EXCEPT ![s] = {}]
=============================================================================
