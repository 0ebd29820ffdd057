------------------------------ MODULE Inventory ------------------------------
(***************************************************************************)
(* Stock, custody and low-stock alerts: src/features/inventory and the     *)
(* inventory part of src/features/operations/service.ts.  Every write of   *)
(* an item is followed by evaluateStockAlert in its transaction.           *)
(***************************************************************************)
EXTENDS StockTables

IssueRequest  == [op : {"issue"}, user : Users, item : Items, holder : Holders,
                  quantity : Quantities, request : Issues]
ReturnRequest == [op : {"return"}, user : Users, item : Items, loan : Issues,
                  quantity : Quantities, version : Nat]
ItemRequest   ==
    [op : {"adjust"}, user : Users, item : Items, quantity : Int]
    \cup [op : {"update"}, user : Users, item : Items, stock : Int, min : Nat,
          version : Nat]
    \cup [op : {"configure"}, user : Users, item : Items, min : Nat,
          recipient : Users \cup {Nil}, version : Nat]
    \cup [op : {"reconcile"}, item : Items]
InventoryRequest == IssueRequest \cup ReturnRequest \cup ItemRequest

InventoryOps == {"issue", "return", "adjust", "update", "configure", "reconcile"}

-----------------------------------------------------------------------------
(* Requests arrive with what their client saw; issues with an identifier   *)
(* that may have been used before.  The guards on version and episode are  *)
(* bounds.                                                                 *)

Open(i)   == {n \in Notes : note[n].item = i /\ ~ note[n].resolved}
Roomy(i)  == item[i].episode < MaxEpisode + (IF item[i].low THEN 1 ELSE 0)
Outstanding(c) == custody[c].quantity - custody[c].returned

BeginStock(s) ==
    /\ \E u \in {u \in Users : IsStaff(u)}, i \in Stocked, q \in Quantities :
         /\ Roomy(i)
         /\ \/ \E h \in Holders, c \in Issues :
                 Begin(s, [op |-> "issue", user |-> u, item |-> i, holder |-> h,
                           quantity |-> q, request |-> c])
            \/ \E c \in Issued :
                 /\ custody[c].item = i /\ Outstanding(c) > 0
                 /\ Begin(s, [op |-> "return", user |-> u, item |-> i, loan |-> c,
                              quantity |-> q, version |-> custody[c].version])
            \/ \E sign \in {1, -1} :
                 Begin(s, [op |-> "adjust", user |-> u, item |-> i,
                           quantity |-> sign * q])
    /\ UNCHANGED left

BeginSettings(s) ==
    /\ \E u \in {u \in Users : IsStaff(u)}, i \in Stocked, m \in Quantities \cup {0} :
         /\ Roomy(i)
         /\ item[i].version < MaxVersion
         /\ \/ Begin(s, [op |-> "update", user |-> u, item |-> i, min |-> m,
                         stock |-> item[i].stock, version |-> item[i].version])
            \/ \E to \in Users \cup {Nil} :
                 Begin(s, [op |-> "configure", user |-> u, item |-> i, min |-> m,
                           recipient |-> to, version |-> item[i].version])
    /\ UNCHANGED left

(* Mutant: only items whose mark is wrong are visited.                     *)
BeginReconcile_Marks(s) ==
    /\ \E i \in Stocked :
         /\ item[i].low # (item[i].stock < item[i].min)
         /\ Begin(s, [op |-> "reconcile", item |-> i])
    /\ UNCHANGED left

(* reconcileStockAlerts visits the items that are low or marked so.        *)
BeginReconcile(s) ==
    /\ \E i \in Stocked :
         /\ item[i].stock < item[i].min \/ item[i].low
         /\ Begin(s, [op |-> "reconcile", item |-> i])
    /\ UNCHANGED left

-----------------------------------------------------------------------------
(* What a transaction checks under its locks.  An issue under a used       *)
(* identifier writes nothing, whether it is answered or refused (mutant:   *)
(* the identifier is not looked up).                                       *)

IsNew_Unread(r) == TRUE

IsNew(r) == r.op = "issue" => custody[r.request] = Nil

CanIssue(r) ==
    /\ active[r.holder]
    /\ item[r.item].stock >= r.quantity

CanReturn(r) ==
    /\ custody[r.loan].version = r.version
    /\ r.quantity <= Outstanding(r.loan)
    /\ item[r.item].stock + r.quantity <= MaxStock

(* The upper bound is the column's: an overflow fails the statement.       *)
CanAdjust(r) ==
    /\ item[r.item].stock + r.quantity >= 0
    /\ item[r.item].stock + r.quantity <= MaxStock

CanUpdate(r) ==
    /\ r.stock = item[r.item].stock
    /\ r.min # item[r.item].min => r.version = item[r.item].version

CanConfigure(r) == r.version = item[r.item].version

-----------------------------------------------------------------------------
(* evaluateStockAlert: the shortage flag and its count, then the alert of  *)
(* this shortage or the end of all alerts.                                 *)

Evaluated(x) ==
    LET low == x.stock < x.min
    IN  [x EXCEPT !.low = low, !.episode = IF low /\ ~ x.low THEN @ + 1 ELSE @]

Alerts(i, x) ==
    LET id == <<"stock", i, x.episode, x.recipient>>
    IN  IF ~ x.low THEN Resolved(note, Open(i))
        ELSE IF x.recipient = Nil \/ id \in Notes \/ rank[x.recipient] # "staff"
        THEN note
        ELSE Put(note, id, Fresh(i, x.recipient, FALSE))

(* The item as the operation writes it.                                    *)
Moved(i, q) == [item[i] EXCEPT !.stock = @ + q]

Written(r) ==
    IF r.op = "issue" THEN Moved(r.item, - r.quantity)
    ELSE IF r.op \in {"return", "adjust"} THEN Moved(r.item, r.quantity)
    ELSE IF r.op = "update"
    THEN [item[r.item] EXCEPT !.min = r.min,
                              !.version = IF r.min # item[r.item].min THEN @ + 1 ELSE @]
    ELSE IF r.op = "configure"
    THEN [item[r.item] EXCEPT !.min = r.min, !.recipient = r.recipient,
                              !.version = @ + 1]
    ELSE item[r.item]

Loan(r) == [item |-> r.item, holder |-> r.holder, quantity |-> r.quantity,
            returned |-> 0, by |-> r.user, version |-> 1]
Back(r) == [custody[r.loan] EXCEPT !.returned = @ + r.quantity, !.version = @ + 1]

Lent(r) ==
    IF r.op = "issue" THEN [custody EXCEPT ![r.request] = Loan(r)]
    ELSE IF r.op = "return" THEN [custody EXCEPT ![r.loan] = Back(r)]
    ELSE custody

SaveStock(r) ==
    /\ item' = [item EXCEPT ![r.item] = Evaluated(Written(r))]
    /\ custody' = Lent(r)
    /\ note' = Alerts(r.item, Evaluated(Written(r)))
    /\ UNCHANGED <<rank, active, due>>

(* operations create: nobody else can name the new row, so it is one step. *)
CreateItem ==
    /\ Room
    /\ \E i \in Items \ Stocked, n, m \in Quantities \cup {0} :
         /\ n <= MaxStock
         /\ item' = [item EXCEPT ![i] =
              Evaluated([stock |-> n, min |-> m, low |-> FALSE, episode |-> 0,
                         recipient |-> Nil, version |-> 1])]
    /\ \E u \in Users : IsStaff(u)
    /\ UNCHANGED <<custody, note, rank, active, tx, run, faults>>
=============================================================================
