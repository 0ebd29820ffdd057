------------------------------ MODULE Stockroom ------------------------------
(***************************************************************************)
(* Inventory and notifications on one database: movements of stock,        *)
(* settings, reconciliation, the workflow of notifications and the         *)
(* reminder job run concurrently.                                          *)
(***************************************************************************)
EXTENDS Inventory, Notifications

ASSUME StockOpsAssumption == Ops \subseteq InventoryOps \cup NoteOps \cup {"remind"}

Init ==
    /\ item = [i \in Items |-> Nil]
    /\ custody = [c \in Issues |-> Nil]
    /\ note = [n \in {} |-> Nil]
    /\ rank \in [Users -> {"staff", "driver"}]
    /\ \A u \in SuperAdmins : rank[u] = "staff"
    /\ active = [h \in Holders |-> TRUE]
    /\ phase = [s \in Txs |-> "idle"]
    /\ req = [s \in Txs |-> Nil]
    /\ todo = [s \in Txs |-> <<>>]
    /\ held = [s \in Txs |-> {}]
    /\ due = [j \in Jobs |-> {}] /\ left = [j \in Jobs |-> {}]
    /\ faults = 0

-----------------------------------------------------------------------------
Admissible(r) ==
    /\ r.op \in InventoryOps \ {"reconcile"} => IsStaff(r.user)
    /\ r.op = "issue"     => CanIssue(r)
    /\ r.op = "return"    => CanReturn(r)
    /\ r.op = "adjust"    => CanAdjust(r)
    /\ r.op = "update"    => CanUpdate(r)
    /\ r.op = "configure" => CanConfigure(r)
    /\ r.op \in NoteOps   => CanHandle(r)

(* The person named must be active staff; that membership is not locked.   *)
Person(r) ==
    /\ r.op = "configure" /\ r.recipient # Nil => IsStaff(r.recipient)
    /\ r.op = "assign" => IsStaff(r.owner)

Granted(r) == Admissible(r) /\ Person(r) /\ IsNew(r)

Check(s) ==
    /\ Ready(s) /\ req[s].op # "remind" /\ Granted(req[s])
    /\ phase' = [phase EXCEPT ![s] = "checked"]
    /\ UNCHANGED <<tables, req, todo, held, run, faults>>

Refuse(s) ==
    /\ Ready(s) /\ req[s].op # "remind" /\ ~ Granted(req[s])
    /\ End(s)
    /\ UNCHANGED <<tables, run, faults>>

(* Rows the writes of a transaction touch although it has not locked them: *)
(* the alerts that end with a shortage, the reminders of a completed       *)
(* notification, and the item a reminder refers to (its foreign key).      *)
Touches(s) ==
    LET r == req[s]
    IN  IF phase[s] = "checked" /\ r.op \in InventoryOps
        THEN {"note"} \X {n \in Open(r.item) : ~ Evaluated(Written(r)).low}
        ELSE IF phase[s] = "checked" /\ r.op = "complete"
        THEN {"note"} \X OpenReminders(r.note)
        ELSE IF phase[s] = "create" THEN {"item"} \X ({note[r.note].item} \ {Nil})
        ELSE {}

Writing(s) == phase[s] \in {"checked", "cancel", "retry", "create"}

(* Mutant: the writes overwrite what others have locked.                   *)
Commit_Unreferenced(s) ==
    /\ Writing(s)
    /\ IsNew(req[s])
    /\ \/ phase[s] = "checked" /\ req[s].op \in InventoryOps /\ SaveStock(req[s])
       \/ phase[s] = "checked" /\ req[s].op \in NoteOps /\ SaveNote(req[s])
       \/ phase[s] # "checked" /\ SaveReminder(s)
    /\ End(s)
    /\ UNCHANGED <<left, faults>>

Commit(s) ==
    /\ Writing(s)
    /\ IsNew(req[s])
    /\ \A row \in Touches(s) : Free(s, row)
    /\ \/ phase[s] = "checked" /\ req[s].op \in InventoryOps /\ SaveStock(req[s])
       \/ phase[s] = "checked" /\ req[s].op \in NoteOps /\ SaveNote(req[s])
       \/ phase[s] # "checked" /\ SaveReminder(s)
    /\ End(s)
    /\ UNCHANGED <<left, faults>>

(* A rollback the code does not decide.  It ends the run of a job: the     *)
(* error leaves the loop and the process.                                  *)
RollBack(s) ==
    /\ End(s)
    /\ left' = [j \in Jobs |-> IF j = s THEN {} ELSE left[j]]
    /\ UNCHANGED <<tables, due>>

(* Issues of two items share no lock: of two under one identifier the      *)
(* later insert meets the unique index and its transaction rolls back.     *)
Collide(s) ==
    /\ phase[s] = "checked" /\ ~ IsNew(req[s])
    /\ RollBack(s)
    /\ UNCHANGED faults

Fail(s) ==
    /\ phase[s] # "idle" /\ faults < MaxFaults
    /\ RollBack(s)
    /\ faults' = faults + 1

Waits(s) == IF phase[s] = "locking" /\ todo[s] # <<>> THEN {Head(todo[s])} ELSE Touches(s)
WaitsFor(s, t) ==
    s # t /\ \E row \in Waits(s) : row \in held[t] /\ row[1] # "member"

(* A stock change holds the item and needs the alert, a reminder job holds *)
(* the alert and needs the item: PostgreSQL ends either of them.           *)
BreakDeadlock(s) ==
    /\ \E t \in Txs : WaitsFor(s, t) /\ WaitsFor(t, s)
    /\ RollBack(s)
    /\ UNCHANGED faults

-----------------------------------------------------------------------------
(* Accounts and the fleet, elsewhere: a user changes role, is blocked or   *)
(* archived; a vehicle or driver is archived or reactivated.               *)
Staff ==
    /\ \/ \E u \in Users \ SuperAdmins, x \in {"staff", "driver", "none"} :
            /\ rank[u] # x
            /\ \A s \in Txs : <<"member", u>> \notin held[s]
            /\ rank' = [rank EXCEPT ![u] = x] /\ UNCHANGED active
       \/ \E h \in Holders :
            /\ \A s \in Txs : <<"holder", h>> \notin held[s]
            /\ active' = [active EXCEPT ![h] = ~ @] /\ UNCHANGED rank
    /\ UNCHANGED <<item, custody, note, tx, run, faults>>

Arrive(s) == BeginStock(s) \/ BeginSettings(s) \/ BeginReconcile(s) \/ BeginHandling(s)

Next ==
    \/ \E s \in Sessions : Arrive(s)
    \/ \E s \in Sessions : Check(s) \/ Refuse(s) \/ Collide(s)
    \/ \E j \in Jobs : StartRun(j) \/ Visit(j) \/ Look(j) \/ Skip(j)
    \/ \E s \in Txs : LockRow(s) \/ Commit(s) \/ Fail(s) \/ BreakDeadlock(s)
    \/ CreateItem \/ Notify \/ ComesDue \/ Staff

Spec == Init /\ [][Next]_vars

(* The jobs are scheduled every few minutes, time passes, PostgreSQL hands *)
(* a row to its waiters in turn and ends a deadlock; it may pick the same  *)
(* victim, but the other side of that deadlock then gets through.          *)
Step(s) == Check(s) \/ Refuse(s) \/ LockRow(s) \/ Commit(s) \/ Collide(s)
Fairness ==
    /\ \A s \in Sessions : SF_vars(Step(s)) /\ SF_vars(BeginReconcile(s))
    /\ \A j \in Jobs : /\ SF_vars(LockRow(j) \/ Look(j) \/ Skip(j)) /\ SF_vars(Commit(j))
                       /\ WF_vars(StartRun(j)) /\ SF_vars(Visit(j))
    /\ WF_vars(\E s \in Txs : BreakDeadlock(s))
    /\ WF_vars(ComesDue)

FairSpec == Spec /\ Fairness

-----------------------------------------------------------------------------
Requests == InventoryRequest \cup NoteRequest

Ids(T) == {"stock"} \X Items \X T \X Users \cup PlainIds

(* Rows, requests and runs stay within their types.                        *)
TypeOK ==
    /\ item \in [Items -> ItemRow \cup {Nil}]
    /\ custody \in [Issues -> CustodyRow \cup {Nil}]
    /\ \A n \in Notes : n \in NoteIds /\ note[n] \in NoteRow
    /\ rank \in [Users -> {"staff", "driver", "none"}]
    /\ active \in [Holders -> BOOLEAN]
    /\ phase \in [Txs -> {"idle", "locking", "checked", "cancel", "retry", "create"}]
    /\ req \in [Txs -> Requests \cup {Nil}]
    /\ \A s \in Txs : phase[s] # "idle" => req[s] \in Requests
    /\ todo \in [Txs -> Seq(Rows)] /\ held \in [Txs -> SUBSET Rows]
    /\ due \in [Jobs -> SUBSET OriginIds] /\ left \in [Jobs -> SUBSET OriginIds]
    /\ faults \in Nat

(* Stock never goes negative or over the column's width, no loan is given  *)
(* back beyond its quantity.                                               *)
PiecesBounded ==
    /\ \A i \in Stocked : item[i].stock \in 0..MaxStock
    /\ \A c \in Issued : custody[c].returned \in 0..custody[c].quantity

(* What a transaction found under its locks is true until it commits; only *)
(* the identifier of an issue may be taken meanwhile.                      *)
ChecksStand ==
    \A s \in Txs : /\ phase[s] = "checked" => Admissible(req[s])
                   /\ phase[s] \in {"cancel", "retry", "create"} => StillDue(s)

(* An open alert or reminder of an item belongs to the shortage the item   *)
(* is in: evaluateStockAlert opens one per shortage and person and ends    *)
(* them all, those of the reminder job included, when stock recovers.      *)
AlertOf(n) == IF note[n].origin = Nil THEN n ELSE note[n].origin

AlertsFollowStock ==
    /\ \A i \in Stocked : item[i].low <=> item[i].stock < item[i].min
    /\ \A i \in Stocked : \A n \in Open(i) :
         item[i].low /\ AlertOf(n)[3] = item[i].episode

(* A reminder in the inbox has an open origin: completing a notification   *)
(* or recovering from a shortage takes its reminders along, whatever the   *)
(* job is doing.  The job makes one reminder per plan, under an identifier *)
(* not used before, or it could never pass that row again.                 *)
RemindersFollow ==
    /\ \A m \in Notes : note[m].origin # Nil /\ ~ note[m].resolved
                          => ~ note[note[m].origin].resolved
    /\ \A m, n \in Notes : /\ note[m].origin # Nil /\ note[m].origin = note[n].origin
                           /\ m[3] = n[3]
                           => m = n
    /\ \A j \in Jobs : phase[j] = "create" => ReminderId(req[j].note) \notin Notes

(* Stock and loans are those of a store that lends and takes back one      *)
(* request at a time, each request once (issueInventory, returnInventory). *)
TheStore == INSTANCE Store WITH
    shelf <- [i \in Items |-> IF item[i] = Nil THEN 0 ELSE item[i].stock],
    loan  <- [c \in Issues |->
                IF custody[c] = Nil THEN Nil
                ELSE [item |-> custody[c].item, holder |-> custody[c].holder,
                      out |-> Outstanding(c)]]
ImplementsStore == TheStore!Spec

(* Every planned reminder ends in a reminder, a visible failure, a         *)
(* cancellation or the end of its notification, although runs fail and     *)
(* notifications are reassigned and planned again meanwhile.               *)
Pending(n) ==
    /\ n \in Notes
    /\ note[n].status \in {"PENDING", "RETRY"} /\ ~ note[n].resolved
RemindersSettle ==
    \A n \in Ids(1..MaxEpisode) : Pending(n) ~> ~ Pending(n)

(* A person responsible who may be alerted is alerted: what evaluation     *)
(* skipped while they were not available, reconciliation makes up for.     *)
Unalerted(i) ==
    /\ item[i] # Nil
    /\ LET u == item[i].recipient
       IN  /\ item[i].low /\ u # Nil /\ rank[u] = "staff"
           /\ <<"stock", i, item[i].episode, u>> \notin Notes
AlertsReach == \A i \in Items : Unalerted(i) ~> ~ Unalerted(i)
=============================================================================
