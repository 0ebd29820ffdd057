----------------------------- MODULE StockSafety -----------------------------
(***************************************************************************)
(* What holds of Stockroom for any number of items, requests and jobs.     *)
(*                                                                         *)
(* A row is locked by one transaction (memberships by several readers),    *)
(* and a transaction that has checked holds every row its check read.      *)
(* Nobody else writes those rows, so the check stands; and what is written *)
(* on a check that stands keeps pieces and alerts in order.                *)
(***************************************************************************)
EXTENDS Stockroom, TLAPS

RemindPhases == {"cancel", "retry", "create"}
UnderWay(s)  == phase[s] # "idle"

(* A transaction holds, or will still lock, every row of its request.      *)
Locked(s, row) == row \in held[s] \/ \E k \in 1..Len(todo[s]) : todo[s][k] = row

Exclusive ==
    \A s, t \in Txs : \A row \in held[s] \cap held[t] : s # t => row[1] = "member"

(* What a transaction works on exists.                                     *)
Anchor(r) ==
    /\ r.op \in InventoryOps => item[r.item] \in ItemRow
    /\ r.op = "return" => custody[r.loan] \in CustodyRow /\ custody[r.loan].item = r.item
    /\ r.op \in NoteOps \cup {"remind"} => r.note \in Notes

(* One transaction: its rows exist and are locked, its check stands, and   *)
(* only jobs remind.                                                       *)
Own(s) ==
    /\ UnderWay(s) => /\ \A k \in 1..Len(Path(req[s])) : Locked(s, Path(req[s])[k])
                      /\ Anchor(req[s])
    /\ Writing(s) => todo[s] = <<>>
    /\ phase[s] = "checked" => req[s].op # "remind" /\ Admissible(req[s])
    /\ phase[s] \in RemindPhases => s \in Jobs /\ req[s].op = "remind" /\ StillDue(s)

LockInv == Exclusive /\ \A s \in Txs : Own(s)
RunsOn  == \A j \in Jobs : left[j] \subseteq Notes

(* Reminders name their origin, and what refers to an item follows it.     *)
NotesSound ==
    /\ \A n \in Notes : note[n].origin = Nil => n \in OriginIds
    /\ \A n \in Notes : note[n].item # Nil => note[n].item \in Stocked

RowInv  == NotesSound /\ PiecesBounded /\ AlertsFollowStock

IInv == TypeOK /\ LockInv /\ RunsOn /\ RowInv

-----------------------------------------------------------------------------
LEMMA RequestShape ==
    ASSUME NEW r \in Requests
    PROVE  /\ r.op \in InventoryOps \cup NoteOps \cup {"remind"}
           /\ r.op \in InventoryOps => r.item \in Items
           /\ r.op \in (InventoryOps \ {"reconcile"}) \cup NoteOps => r.user \in Users
           /\ r.op = "issue" => r.holder \in Holders /\ r.request \in Issues
           /\ r.op = "return" => r.loan \in Issues /\ r.version \in Nat
           /\ r.op \in {"issue", "return"} => r.quantity \in Quantities
           /\ r.op = "adjust" => r.quantity \in Int
           /\ r.op \in {"update", "configure"} => r.min \in Nat /\ r.version \in Nat
           /\ r.op = "configure" => r.recipient \in Users \cup {Nil}
           /\ r.op \in NoteOps => r.note \in NoteIds /\ r.version \in Nat
           /\ r.op = "assign" => r.owner \in Users /\ r.when \in {"later", "due"}
           /\ r.op = "remind" => r.note \in OriginIds
  <1> USE DEF InventoryOps, NoteOps
  <1>1. CASE r \in IssueRequest
    BY <1>1 DEF IssueRequest
  <1>2. CASE r \in ReturnRequest
    BY <1>2 DEF ReturnRequest
  <1>3. CASE r \in ItemRequest
    BY <1>3 DEF ItemRequest
  <1>4. CASE r \in NoteRequest
    BY <1>4 DEF NoteRequest, NoteIds
  <1>5. QED
    BY <1>1, <1>2, <1>3, <1>4 DEF Requests, InventoryRequest

(* The rows of a path.                                                     *)
LEMMA PathMeans ==
    ASSUME NEW r \in Requests
    PROVE  /\ Path(r) \in Seq(Rows)
           /\ \A H : (\A k \in 1..Len(Path(r)) : Path(r)[k] \in H) =>
                /\ r.op \in InventoryOps => <<"item", r.item>> \in H
                /\ r.op \in (InventoryOps \ {"reconcile"}) \cup NoteOps =>
                     <<"member", r.user>> \in H
                /\ r.op = "issue" => <<"holder", r.holder>> \in H
                /\ r.op \in NoteOps \cup {"remind"} => <<"note", r.note>> \in H
  <1> USE RequestShape DEF InventoryOps, NoteOps
  <1>1. CASE r.op = "issue"
    BY <1>1 DEF Path, Rows
  <1>2. CASE r.op \in {"adjust", "update", "configure", "return"}
    <2>1. Path(r) = <<<<"item", r.item>>, <<"member", r.user>>>>
      BY <1>2 DEF Path
    <2>2. <<"item", r.item>> \in Rows /\ <<"member", r.user>> \in Rows
      BY <1>2 DEF Rows
    <2>3. QED
      BY <1>2, <2>1, <2>2
  <1>3. CASE r.op = "reconcile"
    BY <1>3 DEF Path, Rows
  <1>4. CASE r.op = "remind"
    BY <1>4 DEF Path, Rows, NoteIds
  <1>5. CASE r.op \in NoteOps
    <2>1. Path(r) = <<<<"note", r.note>>, <<"member", r.user>>>>
      BY <1>5 DEF Path
    <2>2. <<"note", r.note>> \in Rows /\ <<"member", r.user>> \in Rows
      BY <1>5 DEF Rows
    <2>3. QED
      BY <1>5, <2>1, <2>2
  <1>6. QED
    BY <1>1, <1>2, <1>3, <1>4, <1>5

(* Who writes holds every row of the request.                              *)
LEMMA WriterHolds ==
    ASSUME TypeOK, NEW s \in Txs, Own(s), UnderWay(s), todo[s] = <<>>
    PROVE  /\ req[s].op \in InventoryOps => <<"item", req[s].item>> \in held[s]
           /\ req[s].op \in (InventoryOps \ {"reconcile"}) \cup NoteOps =>
                <<"member", req[s].user>> \in held[s]
           /\ req[s].op = "issue" => <<"holder", req[s].holder>> \in held[s]
           /\ req[s].op \in NoteOps \cup {"remind"} => <<"note", req[s].note>> \in held[s]
  <1>1. req[s] \in Requests
    BY DEF TypeOK, UnderWay
  <1>2. \A k \in 1..Len(Path(req[s])) : Path(req[s])[k] \in held[s]
    BY DEF Own, Locked
  <1>3. QED
    BY <1>1, <1>2, PathMeans

-----------------------------------------------------------------------------
(* What the writes of a transaction leave behind.                          *)

LEMMA EvaluatedRow ==
    ASSUME NEW x \in ItemRow
    PROVE  /\ Evaluated(x) \in ItemRow
           /\ Evaluated(x).stock = x.stock /\ Evaluated(x).min = x.min
           /\ Evaluated(x).low <=> x.stock < x.min
           /\ x.low => Evaluated(x).episode = x.episode
           /\ Evaluated(x).recipient = x.recipient
  <1>1. CASE x.stock < x.min
    <2>1. PICK e : e = IF x.low THEN x.episode ELSE x.episode + 1
      OBVIOUS
    <2>2. e \in Nat
      BY <2>1 DEF ItemRow
    <2>3. Evaluated(x) = [x EXCEPT !.low = TRUE, !.episode = e]
      BY <1>1, <2>1 DEF ItemRow, Evaluated
    <2>4. QED
      BY <1>1, <2>1, <2>2, <2>3 DEF ItemRow
  <1>2. CASE ~ (x.stock < x.min)
    <2>0. (x.stock < x.min) = FALSE
      BY <1>2
    <2>1. Evaluated(x) = [x EXCEPT !.low = FALSE, !.episode = x.episode]
      BY <2>0, Zenon DEF Evaluated
    <2>2. QED
      BY <1>2, <2>1 DEF ItemRow
  <1>3. QED
    BY <1>1, <1>2

LEMMA WrittenRow ==
    ASSUME TypeOK, NEW r \in Requests, r.op \in InventoryOps, Anchor(r)
    PROVE  /\ Written(r) \in ItemRow
           /\ Written(r).low = item[r.item].low
           /\ Written(r).episode = item[r.item].episode
           /\ r.op = "issue" => Written(r).stock = item[r.item].stock - r.quantity
           /\ r.op \in {"return", "adjust"} => Written(r).stock = item[r.item].stock + r.quantity
           /\ r.op \in {"update", "configure", "reconcile"} =>
                Written(r).stock = item[r.item].stock
  <1> DEFINE x == item[r.item]
  <1>1. x \in ItemRow /\ x.version \in Nat /\ x.version + 1 \in Nat /\ x.stock \in Int
    BY DEF Anchor, ItemRow
  <1>2. CASE r.op = "issue"
    <2>0. r.quantity \in Nat
      BY <1>2, RequestShape, StockAssumption DEF InventoryOps
    <2>1. x.stock + (- r.quantity) \in Int
      BY <1>1, <2>0
    <2>2. Written(r) = [x EXCEPT !.stock = x.stock + (- r.quantity)]
      BY <1>1, <1>2 DEF Written, Moved, ItemRow
    <2>3. QED
      BY <1>1, <1>2, <2>1, <2>2 DEF ItemRow
  <1>3. CASE r.op \in {"return", "adjust"}
    <2>0. r.quantity \in Int
      <3>1. CASE r.op = "return"
        <4>1. r.quantity \in Nat
          BY <3>1, RequestShape, StockAssumption
        <4>2. QED
          BY <4>1
      <3>2. CASE r.op = "adjust"
        BY <3>2, RequestShape
      <3>3. QED
        BY <1>3, <3>1, <3>2
    <2>1. x.stock + r.quantity \in Int
      BY <1>1, <2>0
    <2>2. Written(r) = [x EXCEPT !.stock = x.stock + r.quantity]
      BY <1>1, <1>3 DEF Written, Moved, ItemRow
    <2>3. QED
      BY <1>1, <1>3, <2>1, <2>2 DEF ItemRow
  <1>4. CASE r.op = "update"
    <2>1. r.min \in Nat
      BY <1>4, RequestShape
    <2>2. PICK v : v = (IF r.min # x.min THEN x.version + 1 ELSE x.version)
      OBVIOUS
    <2>3. v \in Nat
      BY <1>1, <2>2
    <2>4. Written(r) = [x EXCEPT !.min = r.min, !.version = v]
      BY <1>1, <1>4, <2>2 DEF Written, ItemRow
    <2>5. QED
      BY <1>1, <1>4, <2>1, <2>3, <2>4 DEF ItemRow
  <1>5. CASE r.op = "configure"
    <2>1. r.min \in Nat /\ r.recipient \in Users \cup {Nil}
      BY <1>5, RequestShape
    <2>2. Written(r) = [x EXCEPT !.min = r.min, !.recipient = r.recipient, !.version = x.version + 1]
      BY <1>1, <1>5 DEF Written, ItemRow
    <2>3. QED
      BY <1>1, <1>5, <2>1, <2>2 DEF ItemRow
  <1>6. CASE r.op = "reconcile"
    BY <1>1, <1>6 DEF Written
  <1>7. QED
    BY <1>2, <1>3, <1>4, <1>5, <1>6 DEF InventoryOps

LEMMA FreshRow ==
    ASSUME NEW i \in Items \cup {Nil}, NEW u \in Users, NEW b \in BOOLEAN
    PROVE  /\ Fresh(i, u, b) \in NoteRow /\ Fresh(i, u, b).item = i
           /\ Fresh(i, u, b).origin = Nil /\ ~ Fresh(i, u, b).resolved
  BY DEF Fresh, NoteRow

(* The notifications as they were, but for the alerts of an item that ends *)
(* its shortage, and a new alert.                                          *)
LEMMA AlertsEffect ==
    ASSUME TypeOK, NEW i \in Items, NEW x \in ItemRow
    PROVE  /\ Notes \subseteq DOMAIN Alerts(i, x)
           /\ \A n \in DOMAIN Alerts(i, x) : n \in NoteIds /\ Alerts(i, x)[n] \in NoteRow
           /\ \A n \in Notes :
                \/ Alerts(i, x)[n] = note[n]
                \/ /\ n \in Open(i) /\ ~ x.low
                   /\ Alerts(i, x)[n] = [note[n] EXCEPT !.resolved = TRUE]
           /\ ~ x.low => \A n \in Open(i) : Alerts(i, x)[n].resolved
           /\ \A n \in DOMAIN Alerts(i, x) \ Notes :
                /\ x.low /\ n \in OriginIds /\ n[3] = x.episode
                /\ Alerts(i, x)[n].item = i /\ Alerts(i, x)[n].origin = Nil
  <1> DEFINE id == <<"stock", i, x.episode, x.recipient>>
  <1>1. \A n \in Notes : n \in NoteIds /\ note[n] \in NoteRow
    BY DEF TypeOK, Notes
  <1>2. CASE ~ x.low
    <2>1. Alerts(i, x) = [m \in Notes |-> IF m \in Open(i) THEN [note[m] EXCEPT !.resolved = TRUE]
                                          ELSE note[m]]
      BY <1>2 DEF Alerts, Resolved, Notes
    <2>2. \A n \in Notes : [note[n] EXCEPT !.resolved = TRUE] \in NoteRow
                          /\ [note[n] EXCEPT !.resolved = TRUE].resolved
      BY <1>1 DEF NoteRow
    <2>3. Open(i) \subseteq Notes
      BY DEF Open
    <2>4. QED
      BY <1>1, <1>2, <2>1, <2>2, <2>3
  <1>3. CASE x.low /\ Alerts(i, x) = note
    BY <1>1, <1>3 DEF Notes
  <1>4. CASE x.low /\ x.recipient # Nil /\ id \notin Notes
             /\ Alerts(i, x) = Put(note, id, Fresh(i, x.recipient, FALSE))
    <2>1. x.recipient \in Users /\ x.episode \in Nat
      BY <1>4 DEF ItemRow
    <2>2. id \in OriginIds /\ id \in NoteIds /\ id[3] = x.episode
      BY <2>1 DEF OriginIds, AlertIds, NoteIds
    <2>3. Fresh(i, x.recipient, FALSE) \in NoteRow /\ Fresh(i, x.recipient, FALSE).item = i
          /\ Fresh(i, x.recipient, FALSE).origin = Nil
      BY <2>1, FreshRow
    <2>4. Alerts(i, x) = [m \in Notes \cup {id} |-> IF m = id THEN Fresh(i, x.recipient, FALSE)
                                                 ELSE note[m]]
      BY <1>4 DEF Put, Notes
    <2>5. QED
      BY <1>1, <1>4, <2>2, <2>3, <2>4
  <1>5. QED
    BY <1>2, <1>3, <1>4 DEF Alerts

LEMMA LoanRows ==
    ASSUME TypeOK, NEW r \in Requests, Anchor(r)
    PROVE  /\ r.op = "issue" => Loan(r) \in CustodyRow
           /\ r.op = "return" =>
                /\ Back(r) \in CustodyRow /\ Back(r).item = custody[r.loan].item
                /\ Back(r).holder = custody[r.loan].holder
                /\ Back(r).quantity = custody[r.loan].quantity
                /\ Back(r).returned = custody[r.loan].returned + r.quantity
  <1>1. CASE r.op = "issue"
    <2>1. /\ r.item \in Items /\ r.holder \in Holders /\ r.quantity \in Nat
          /\ r.user \in Users
      BY <1>1, RequestShape, StockAssumption DEF InventoryOps
    <2>2. QED
      BY <1>1, <2>1 DEF Loan, CustodyRow
  <1>2. CASE r.op = "return"
    <2>1. r.quantity \in Nat
      BY <1>2, RequestShape, StockAssumption
    <2>2. custody[r.loan] \in CustodyRow
      BY <1>2 DEF Anchor
    <2>3. custody[r.loan].returned + r.quantity \in Nat /\ custody[r.loan].version + 1 \in Nat
      BY <2>1, <2>2 DEF CustodyRow
    <2>4. QED
      BY <1>2, <2>2, <2>3 DEF Back, CustodyRow
  <1>3. QED
    BY <1>1, <1>2

(* The notifications a stock transaction leaves.                           *)
SameNote(m) == note'[m].item = note[m].item /\ note'[m].origin = note[m].origin

NotesGrow ==
    /\ Notes \subseteq Notes' /\ \A n \in Notes' : n \in NoteIds /\ note'[n] \in NoteRow
    /\ \A n \in Notes : SameNote(n) /\ (note[n].resolved => note'[n].resolved)

LEMMA SaveStockEffect ==
    ASSUME TypeOK, NEW r \in Requests, r.op \in InventoryOps, Anchor(r), SaveStock(r)
    PROVE  /\ r.item \in Items /\ item[r.item] \in ItemRow
           /\ item' \in [Items -> ItemRow \cup {Nil}] /\ item'[r.item] \in ItemRow
           /\ \A i \in Items \ {r.item} : item'[i] = item[i]
           /\ custody' \in [Issues -> CustodyRow \cup {Nil}]
           /\ \A c \in Issues : \/ custody'[c] = custody[c]
                                \/ r.op = "issue" /\ c = r.request /\ custody'[c] = Loan(r)
                                \/ r.op = "return" /\ c = r.loan /\ custody'[c] = Back(r)
           /\ NotesGrow
           /\ \A n \in Notes : \/ note'[n] = note[n]
                               \/ /\ n \in Open(r.item) /\ ~ Evaluated(Written(r)).low
                                  /\ note'[n] = [note[n] EXCEPT !.resolved = TRUE]
           /\ ~ Evaluated(Written(r)).low => \A n \in Open(r.item) : note'[n].resolved
           /\ \A n \in Notes' \ Notes :
                /\ Evaluated(Written(r)).low /\ n \in OriginIds
                /\ n[3] = Evaluated(Written(r)).episode
                /\ note'[n].item = r.item /\ note'[n].origin = Nil
  <1> DEFINE x == Evaluated(Written(r))
  <1>1. r.item \in Items /\ item[r.item] \in ItemRow
    BY RequestShape DEF Anchor
  <1>2. x \in ItemRow
    BY WrittenRow, EvaluatedRow
  <1>3. item' = [item EXCEPT ![r.item] = x] /\ custody' = Lent(r) /\ note' = Alerts(r.item, x)
    BY DEF SaveStock
  <1>4. /\ item' \in [Items -> ItemRow \cup {Nil}] /\ item'[r.item] \in ItemRow
        /\ \A i \in Items \ {r.item} : item'[i] = item[i]
    BY <1>1, <1>2, <1>3 DEF TypeOK
  <1>5. /\ custody' \in [Issues -> CustodyRow \cup {Nil}]
        /\ \A c \in Issues : \/ custody'[c] = custody[c]
                             \/ r.op = "issue" /\ c = r.request /\ custody'[c] = Loan(r)
                             \/ r.op = "return" /\ c = r.loan /\ custody'[c] = Back(r)
    <2>1. custody \in [Issues -> CustodyRow \cup {Nil}]
      BY DEF TypeOK
    <2>2. CASE r.op = "issue"
      <3>1. custody' = [custody EXCEPT ![r.request] = Loan(r)]
        BY <1>3, <2>2 DEF Lent
      <3>2. r.request \in Issues /\ Loan(r) \in CustodyRow
        BY <2>2, LoanRows, RequestShape
      <3>3. QED
        BY <2>1, <2>2, <3>1, <3>2
    <2>3. CASE r.op = "return"
      <3>1. custody' = [custody EXCEPT ![r.loan] = Back(r)]
        BY <1>3, <2>3 DEF Lent
      <3>2. r.loan \in Issues /\ Back(r) \in CustodyRow
        BY <2>3, LoanRows, RequestShape
      <3>3. QED
        BY <2>1, <2>3, <3>1, <3>2
    <2>4. CASE r.op \notin {"issue", "return"}
      <3>1. custody' = custody
        BY <1>3, <2>4 DEF Lent
      <3>2. QED
        BY <2>1, <3>1
    <2>5. QED
      BY <2>2, <2>3, <2>4
  <1>6. /\ Notes \subseteq Notes'
        /\ \A n \in Notes' : n \in NoteIds /\ note'[n] \in NoteRow
        /\ \A n \in Notes : \/ note'[n] = note[n]
                            \/ /\ n \in Open(r.item) /\ ~ x.low
                               /\ note'[n] = [note[n] EXCEPT !.resolved = TRUE]
        /\ ~ x.low => \A n \in Open(r.item) : note'[n].resolved
        /\ \A n \in Notes' \ Notes : /\ x.low /\ n \in OriginIds /\ n[3] = x.episode
                                     /\ note'[n].item = r.item /\ note'[n].origin = Nil
    <2>1. Notes' = DOMAIN Alerts(r.item, x)
      BY <1>3 DEF Notes
    <2> HIDE DEF x
    <2>2. QED
      BY <1>1, <1>2, <1>3, <2>1, AlertsEffect
  <1>7. NotesGrow
    <2>1. \A n \in Notes : note[n] \in NoteRow
      BY DEF TypeOK
    <2>2. \A n \in Notes : LET y == [note[n] EXCEPT !.resolved = TRUE]
                         IN  y.item = note[n].item /\ y.origin = note[n].origin /\ y.resolved
      BY <2>1 DEF NoteRow
    <2> HIDE DEF x
    <2>3. QED
      BY <1>6, <2>2 DEF NotesGrow, SameNote
  <1>8. QED
    BY <1>1, <1>4, <1>5, <1>6, <1>7

(* A notification whose reminder is planned anew.                          *)
Planned(n, a, status, next) ==
    [n EXCEPT !.attempts = a, !.status = status, !.next = next]

Alike(m, n) == m.item = n.item /\ m.origin = n.origin /\ (m.resolved <=> n.resolved)

LEMMA PlannedRow ==
    ASSUME NEW n \in NoteRow, NEW a \in Nat, NEW next \in {"never", "later", "due"},
           NEW status \in {"NONE", "PENDING", "RETRY", "FAILED", "CREATED", "CANCELLED"}
    PROVE  Planned(n, a, status, next) \in NoteRow /\ Alike(Planned(n, a, status, next), n)
  <1> DEFINE x == [n EXCEPT !.attempts = a]
             y == [x EXCEPT !.status = status]
             z == Planned(n, a, status, next)
  <1>1. x \in NoteRow /\ x.item = n.item /\ x.origin = n.origin /\ (x.resolved <=> n.resolved)
    BY DEF NoteRow
  <1>2. y \in NoteRow /\ y.item = n.item /\ y.origin = n.origin /\ (y.resolved <=> n.resolved)
    <2> HIDE DEF x
    <2>1. QED
      BY <1>1 DEF NoteRow
  <1>3. z = [y EXCEPT !.next = next]
    BY DEF NoteRow, Planned
  <1>4. z \in NoteRow /\ z.item = n.item /\ z.origin = n.origin /\ (z.resolved <=> n.resolved)
    <2> HIDE DEF y, z
    <2>1. QED
      BY <1>2, <1>3 DEF NoteRow
  <1>5. QED
    BY <1>4 DEF Alike

LEMMA HandledRow ==
    ASSUME TypeOK, NEW r \in Requests, r.op \in NoteOps, r.note \in Notes
    PROVE  /\ Handled(r) \in NoteRow
           /\ Handled(r).item = note[r.note].item /\ Handled(r).origin = note[r.note].origin
           /\ note[r.note].resolved => Handled(r).resolved
  <1> DEFINE n == [note[r.note] EXCEPT !.version = @ + 1]
  <1>1. note[r.note] \in NoteRow
    BY DEF TypeOK
  <1>2. note[r.note].version + 1 \in Nat
    BY <1>1 DEF NoteRow
  <1>3. /\ n \in NoteRow /\ n.item = note[r.note].item /\ n.origin = note[r.note].origin
        /\ (n.resolved <=> note[r.note].resolved)
    BY <1>1, <1>2 DEF NoteRow
  <1> HIDE DEF n
  <1>4. CASE r.op = "acknowledge"
    <2>1. CASE n.action
      <3>1. Handled(r) = [n EXCEPT !.ack = TRUE]
        BY <1>4, <2>1 DEF Handled, n
      <3>2. QED
        BY <1>3, <3>1 DEF NoteRow
    <2>2. CASE ~ n.action
      <3>1. Handled(r) = [n EXCEPT !.ack = TRUE, !.next = "never", !.status = "CANCELLED"]
        BY <1>4, <2>2 DEF Handled, n
      <3>2. QED
        BY <1>3, <3>1 DEF NoteRow
    <2>3. QED
      BY <2>1, <2>2
  <1>5. CASE r.op = "assign"
    <2> DEFINE y == [n EXCEPT !.owner = r.owner, !.staffOnly = TRUE, !.action = TRUE,
                              !.ack = FALSE]
    <2>1. r.owner \in Users /\ r.when \in {"later", "due"}
      BY <1>5, RequestShape
    <2>2. y \in NoteRow /\ y.item = n.item /\ y.origin = n.origin /\ (y.resolved <=> n.resolved)
      BY <1>3, <2>1 DEF NoteRow
    <2>3. Handled(r) = Planned(y, 0, "PENDING", r.when)
      <3>1. Handled(r) = [n EXCEPT !.owner = r.owner, !.staffOnly = TRUE, !.action = TRUE,
                                   !.ack = FALSE, !.status = "PENDING", !.attempts = 0,
                                   !.next = r.when]
        BY <1>5 DEF Handled, n
      <3>2. QED
        BY <1>3, <3>1 DEF NoteRow, Planned
    <2> HIDE DEF y
    <2>4. QED
      <3>1. 0 \in Nat
        OBVIOUS
      <3>2. Handled(r) \in NoteRow /\ Alike(Handled(r), y)
        BY <2>1, <2>2, <2>3, <3>1, PlannedRow
      <3>3. QED
        BY <1>3, <2>2, <3>2 DEF Alike
  <1>6. CASE r.op = "complete"
    <2>1. Handled(r) = [n EXCEPT !.resolved = TRUE, !.next = "never", !.status = "CANCELLED"]
      BY <1>6 DEF Handled, n
    <2>2. QED
      BY <1>3, <2>1 DEF NoteRow
  <1>7. CASE r.op = "retry"
    <2>1. Handled(r) = Planned(n, 0, "PENDING", "due")
      <3>1. Handled(r) = [n EXCEPT !.attempts = 0, !.next = "due", !.status = "PENDING"]
        BY <1>7 DEF Handled, n
      <3>2. QED
        BY <1>3, <3>1 DEF NoteRow, Planned
    <2>2. Handled(r) \in NoteRow /\ Alike(Handled(r), n)
      BY <1>3, <2>1, PlannedRow
    <2>3. QED
      BY <1>3, <2>2 DEF Alike
  <1>8. QED
    BY <1>4, <1>5, <1>6, <1>7 DEF NoteOps

(* What a job may find due is what it found when it began, less what was   *)
(* handled since.                                                          *)
DueShrinks(n) ==
    /\ due' \in [Jobs -> SUBSET OriginIds]
    /\ \A j \in Jobs : due'[j] = due[j] \/ due'[j] = due[j] \ {n}

LEMMA SaveNoteEffect ==
    ASSUME TypeOK, NEW r \in Requests, r.op \in NoteOps, r.note \in Notes, SaveNote(r)
    PROVE  /\ NotesGrow /\ Notes' = Notes /\ DueShrinks(r.note)
           /\ \A m \in Notes \ {r.note} :
                note'[m] = note[m] \/ (r.op = "complete" /\ m \in OpenReminders(r.note))
  <1>1. \A n \in Notes : n \in NoteIds /\ note[n] \in NoteRow
    BY DEF TypeOK
  <1>2. /\ DOMAIN Completed(r) = Notes
        /\ \A m \in Notes : \/ Completed(r)[m] = note[m]
                            \/ /\ r.op = "complete" /\ m \in OpenReminders(r.note)
                               /\ Completed(r)[m] = [note[m] EXCEPT !.resolved = TRUE]
    <2>1. CASE r.op = "complete"
      <3>1. Completed(r) = [m \in Notes |-> IF m \in OpenReminders(r.note)
                                            THEN [note[m] EXCEPT !.resolved = TRUE] ELSE note[m]]
        BY <2>1 DEF Completed, Resolved, Notes
      <3>2. QED
        BY <2>1, <3>1
    <2>2. CASE r.op # "complete"
      BY <2>2 DEF Completed, Notes
    <2>3. QED
      BY <2>1, <2>2
  <1>3. \A m \in Notes : LET y == [note[m] EXCEPT !.resolved = TRUE]
                       IN  y \in NoteRow /\ y.item = note[m].item /\ y.origin = note[m].origin
                           /\ y.resolved
    BY <1>1 DEF NoteRow
  <1>4. /\ Handled(r) \in NoteRow /\ Handled(r).item = note[r.note].item
        /\ Handled(r).origin = note[r.note].origin
        /\ note[r.note].resolved => Handled(r).resolved
    BY HandledRow
  <1>5. note' = [Completed(r) EXCEPT ![r.note] = Handled(r)]
    BY DEF SaveNote
  <1>6. Notes' = Notes /\ note'[r.note] = Handled(r)
        /\ \A m \in Notes \ {r.note} : note'[m] = Completed(r)[m]
    BY <1>2, <1>5 DEF Notes
  <1>7. NotesGrow
    <2>1. ASSUME NEW m \in Notes
          PROVE  note'[m] \in NoteRow /\ SameNote(m) /\ (note[m].resolved => note'[m].resolved)
      <3>1. CASE m = r.note
        BY <1>4, <1>6, <3>1 DEF SameNote
      <3>2. CASE m # r.note /\ Completed(r)[m] = note[m]
        BY <1>1, <1>6, <3>2 DEF SameNote
      <3>3. CASE m # r.note /\ Completed(r)[m] = [note[m] EXCEPT !.resolved = TRUE]
        BY <1>3, <1>6, <3>3 DEF SameNote
      <3>4. QED
        BY <1>2, <3>1, <3>2, <3>3
    <2>2. QED
      BY <1>1, <1>6, <2>1 DEF NotesGrow
  <1>8. DueShrinks(r.note)
    BY DEF SaveNote, DueShrinks, TypeOK
  <1>9. QED
    BY <1>2, <1>6, <1>7, <1>8

LEMMA SaveReminderEffect ==
    ASSUME TypeOK, NEW j \in Jobs, req[j].note \in Notes, req[j].note \in OriginIds,
           SaveReminder(j)
    PROVE  /\ NotesGrow /\ DueShrinks(req[j].note)
           /\ \A m \in Notes \ {req[j].note} : note'[m] = note[m]
           /\ \A m \in Notes' \ Notes :
                /\ note'[m].origin = req[j].note /\ note'[m].origin # Nil
                /\ note'[m].item = note[req[j].note].item
  <1> DEFINE n == req[j].note
  <1>1. \A m \in Notes : m \in NoteIds /\ note[m] \in NoteRow
    BY DEF TypeOK
  <1>2. /\ note[n] \in NoteRow /\ note[n].attempts \in Nat /\ note[n].attempts + 1 \in Nat
        /\ n # Nil /\ note[n].version \in Nat /\ n \in Notes /\ n \in OriginIds
    BY <1>1, NilAssumption DEF NoteRow
  <1>3. DueShrinks(n)
    BY DEF SaveReminder, DueShrinks, TypeOK
  <1>4. CASE /\ phase[j] = "cancel"
             /\ note' = [note EXCEPT ![n].next = "never", ![n].status = "CANCELLED"]
    <2>1. note' = [note EXCEPT ![n] = Planned(note[n], note[n].attempts, "CANCELLED", "never")]
      BY <1>2, <1>4 DEF Planned, NoteRow, Notes
    <2>2. /\ Planned(note[n], note[n].attempts, "CANCELLED", "never") \in NoteRow
          /\ Alike(Planned(note[n], note[n].attempts, "CANCELLED", "never"), note[n])
      BY <1>2, PlannedRow
    <2>3. QED
      BY <1>1, <1>2, <1>3, <2>1, <2>2 DEF Alike, NotesGrow, SameNote, Notes
  <1>5. CASE /\ phase[j] = "retry"
             /\ note' = [note EXCEPT ![n] = IF note[n].attempts + 1 >= MaxAttempts
                                            THEN Tried(n, "FAILED", "never")
                                            ELSE Tried(n, "RETRY", "later")]
    <2>1. PICK x : x = IF note[n].attempts + 1 >= MaxAttempts
                       THEN Tried(n, "FAILED", "never") ELSE Tried(n, "RETRY", "later")
      OBVIOUS
    <2>2. \/ x = Planned(note[n], note[n].attempts + 1, "FAILED", "never")
          \/ x = Planned(note[n], note[n].attempts + 1, "RETRY", "later")
      BY <1>2, <2>1 DEF Planned, Tried, NoteRow
    <2>3. x \in NoteRow /\ Alike(x, note[n])
      BY <1>2, <2>2, PlannedRow
    <2>4. note' = [note EXCEPT ![n] = x]
      BY <1>5, <2>1
    <2>5. QED
      BY <1>1, <1>2, <1>3, <2>3, <2>4 DEF Alike, NotesGrow, SameNote, Notes
  <1>6. CASE /\ phase[j] = "create"
             /\ note' = Put([note EXCEPT ![n] = Tried(n, "CREATED", "never")],
                            ReminderId(n), Reminder(n))
             /\ ReminderId(n) \notin Notes
    <2>1. Tried(n, "CREATED", "never") = Planned(note[n], note[n].attempts + 1, "CREATED", "never")
      BY <1>2 DEF Planned, Tried, NoteRow
    <2>2. PICK x : x = Tried(n, "CREATED", "never")
      OBVIOUS
    <2>3. x \in NoteRow /\ Alike(x, note[n])
      BY <1>2, <2>1, <2>2, PlannedRow
    <2>4. ReminderId(n) \in NoteIds
      BY <1>2 DEF ReminderId, ReminderIds, NoteIds
    <2>5. /\ Reminder(n) \in NoteRow /\ Reminder(n).origin = n
          /\ Reminder(n).item = note[n].item
      <3>1. PICK f : f = Fresh(note[n].item, Owner(n), note[n].staffOnly)
        OBVIOUS
      <3>2. /\ note[n].item \in Items \cup {Nil} /\ Owner(n) \in Users
            /\ note[n].staffOnly \in BOOLEAN
        BY <1>2 DEF Owner, NoteRow
      <3>3. f \in NoteRow /\ f.item = note[n].item
        BY <3>1, <3>2, FreshRow
      <3>4. Reminder(n) = [f EXCEPT !.origin = n, !.next = "never", !.status = "NONE"]
        BY <3>1 DEF Reminder
      <3>5. QED
        BY <1>2, <3>3, <3>4 DEF NoteRow
    <2>6. /\ Notes' = Notes \cup {ReminderId(n)}
          /\ \A m \in Notes' : note'[m] = IF m = ReminderId(n) THEN Reminder(n)
                                        ELSE IF m = n THEN x ELSE note[m]
      BY <1>2, <1>6, <2>2 DEF Put, Notes
    <2>7. \A m \in Notes : /\ note'[m] = IF m = n THEN x ELSE note[m]
                           /\ note'[m] \in NoteRow /\ SameNote(m)
                           /\ note[m].resolved => note'[m].resolved
      BY <1>1, <1>6, <2>3, <2>6 DEF Alike, SameNote
    <2>8. NotesGrow
      BY <1>1, <2>4, <2>5, <2>6, <2>7 DEF NotesGrow
    <2>9. QED
      BY <1>2, <1>3, <2>5, <2>6, <2>7, <2>8
  <1>7. QED
    BY <1>4, <1>5, <1>6 DEF SaveReminder, Notes

-----------------------------------------------------------------------------
(* Rows others rely on.                                                    *)

NoteKept(n) ==
    \/ note'[n] = note[n]
    \/ note[n].next = "later" /\ note'[n] = [note[n] EXCEPT !.next = "due"]

(* What a transaction that has checked has read is as it was.              *)
Intact(t) ==
    LET r == req[t]
    IN  /\ r.op \in InventoryOps => item'[r.item] = item[r.item]
        /\ r.op = "return" => custody'[r.loan] = custody[r.loan]
        /\ r.op = "issue" => active'[r.holder] = active[r.holder]
        /\ r.op \in (InventoryOps \ {"reconcile"}) \cup NoteOps =>
             rank'[r.user] = rank[r.user]
        /\ r.op \in NoteOps \cup {"remind"} => NoteKept(r.note)
        /\ t \in Jobs /\ r.op = "remind" /\ r.note \in due[t] => r.note \in due'[t]

(* Rows last: none disappears, and a loan remains one of its item.         *)
Lasting ==
    /\ \A i \in Items : item[i] \in ItemRow => item'[i] \in ItemRow
    /\ \A c \in Issues : custody[c] \in CustodyRow =>
         custody'[c] \in CustodyRow /\ custody'[c].item = custody[c].item
    /\ Notes \subseteq Notes'

SameTx(t) ==
    phase'[t] = phase[t] /\ req'[t] = req[t] /\ todo'[t] = todo[t] /\ held'[t] = held[t]

LEMMA OtherStands ==
    ASSUME TypeOK, NEW t \in Txs, Own(t), SameTx(t), Lasting, Writing(t) => Intact(t)
    PROVE  Own(t)'
  <1>0. PICK r : r = req[t]
    OBVIOUS
  <1>1. UnderWay(t) => r \in Requests /\ Anchor(r)
    BY <1>0 DEF TypeOK, UnderWay, Own
  <1>2. UnderWay(t) => Anchor(r)'
    BY <1>1, RequestShape DEF Lasting, Anchor, InventoryOps, NoteOps
  <1>3. ASSUME phase[t] = "checked" PROVE Admissible(r)'
    <2>1. r \in Requests /\ Admissible(r) /\ Intact(t) /\ Anchor(r) /\ r.op # "remind"
      BY <1>0, <1>1, <1>3 DEF Own, Writing, UnderWay
    <2>2. CASE r.op \in InventoryOps
      BY <1>0, <2>1, <2>2 DEF Intact, Admissible, IsStaff, CanIssue, CanReturn, CanAdjust, CanUpdate,
                        CanConfigure, Outstanding, InventoryOps, NoteOps
    <2>3. CASE r.op \in NoteOps
      <3>1. rank'[r.user] = rank[r.user] /\ NoteKept(r.note) /\ r.note \in Notes
        BY <1>0, <2>1, <2>3 DEF Intact, Anchor
      <3>2. note[r.note] \in NoteRow /\ CanHandle(r)
        BY <2>1, <2>3, <3>1 DEF TypeOK, Admissible
      <3>3. /\ note'[r.note].recipient = note[r.note].recipient
            /\ note'[r.note].owner = note[r.note].owner
            /\ note'[r.note].item = note[r.note].item
            /\ note'[r.note].origin = note[r.note].origin
            /\ note'[r.note].status = note[r.note].status
            /\ note'[r.note].version = note[r.note].version
            /\ (note'[r.note].staffOnly <=> note[r.note].staffOnly)
            /\ (note'[r.note].ack <=> note[r.note].ack)
            /\ (note'[r.note].resolved <=> note[r.note].resolved)
        BY <3>1, <3>2 DEF NoteKept, NoteRow
      <3>4. CanHandle(r)'
        BY <3>1, <3>2, <3>3 DEF CanHandle, InScope, Owner, IsStaff
      <3>5. QED
        BY <2>3, <3>4 DEF Admissible, InventoryOps, NoteOps
    <2>4. QED
      BY <2>1, <2>2, <2>3, RequestShape
  <1>4. ASSUME phase[t] \in RemindPhases PROVE StillDue(t)'
    <2>1. /\ StillDue(t) /\ Intact(t) /\ t \in Jobs /\ r.op = "remind" /\ r.note \in Notes
          /\ req'[t] = r
      BY <1>0, <1>4 DEF Own, Writing, RemindPhases, SameTx, UnderWay, Anchor
    <2>2. note[r.note].next = "due"
      BY <1>0, <2>1 DEF StillDue, IsDue
    <2>3. note'[r.note] = note[r.note] /\ r.note \in due'[t]
      BY <1>0, <2>1, <2>2 DEF Intact, NoteKept, StillDue
    <2>4. QED
      BY <1>0, <2>1, <2>3 DEF StillDue, IsDue
  <1>5. QED
    BY <1>0, <1>2, <1>3, <1>4 DEF Own, SameTx, UnderWay, Writing, Locked, RemindPhases

-----------------------------------------------------------------------------
(* Steps that change no table.                                             *)

LEMMA Together ==
    ASSUME IInv, TypeOK', NEW s, \A t \in Txs \ {s} : SameTx(t) /\ (Writing(t) => Intact(t)),
           Lasting, s \in Txs => Own(s)', Exclusive', RunsOn', RowInv'
    PROVE  IInv'
  <1>1. ASSUME NEW t \in Txs \ {s} PROVE Own(t)'
    BY <1>1, OtherStands DEF IInv, LockInv
  <1>2. QED
    BY <1>1 DEF IInv, LockInv

Quiet(s) ==
    /\ UNCHANGED tables
    /\ \A t \in Txs \ {s} : SameTx(t) /\ (t \in Jobs => due'[t] = due[t])

LEMMA QuietStep ==
    ASSUME IInv, TypeOK', NEW s \in Txs, Quiet(s), Own(s)', Exclusive', RunsOn'
    PROVE  IInv'
  <1>1. UNCHANGED <<item, custody, note, rank, active>>
    BY DEF Quiet, tables
  <1>2. Lasting /\ \A t \in Txs \ {s} : SameTx(t) /\ Intact(t)
    BY <1>1 DEF Lasting, Quiet, Intact, NoteKept, Notes
  <1>3. RowInv'
    BY <1>1 DEF IInv, RowInv, NotesSound, PiecesBounded, AlertsFollowStock, Notes, Stocked,
                Issued, Open, AlertOf
  <1>4. QED
    BY <1>2, <1>3, Together

(* The transaction of s ends: it holds nothing and promises nothing.       *)
LEMMA Ended ==
    ASSUME TypeOK, Exclusive, NEW s \in Txs, End(s)
    PROVE  /\ phase' \in [Txs -> {"idle", "locking", "checked", "cancel", "retry", "create"}]
           /\ req' \in [Txs -> Requests \cup {Nil}]
           /\ \A t \in Txs : phase'[t] # "idle" => req'[t] \in Requests
           /\ todo' \in [Txs -> Seq(Rows)] /\ held' \in [Txs -> SUBSET Rows]
           /\ Own(s)' /\ Exclusive' /\ \A t \in Txs \ {s} : SameTx(t)
  <1>1. phase'[s] = "idle"
    BY DEF End, TypeOK
  <1>2. Own(s)'
    BY <1>1 DEF Own, UnderWay, Writing, RemindPhases
  <1>3. \A t \in Txs \ {s} : SameTx(t)
    BY DEF End, TypeOK, SameTx
  <1>4. /\ phase' \in [Txs -> {"idle", "locking", "checked", "cancel", "retry", "create"}]
        /\ req' \in [Txs -> Requests \cup {Nil}]
        /\ held' \in [Txs -> SUBSET Rows]
    BY DEF End, TypeOK
  <1>5. todo' \in [Txs -> Seq(Rows)]
    BY DEF End, TypeOK
  <1>6. \A t \in Txs : phase'[t] # "idle" => req'[t] \in Requests
    BY <1>1, <1>3 DEF TypeOK, SameTx
  <1>7. Exclusive'
    <2>1. held'[s] = {}
      BY DEF End, TypeOK
    <2>2. QED
      BY <1>3, <2>1 DEF Exclusive, SameTx
  <1>8. QED
    BY <1>2, <1>3, <1>4, <1>5, <1>6, <1>7

(* A transaction that ends without a write.                                *)
LEMMA EndKeeps ==
    ASSUME IInv, NEW s \in Txs, End(s), UNCHANGED <<tables, due>>, faults' \in Nat,
           left' \in [Jobs -> SUBSET OriginIds], \A j \in Jobs : left'[j] \subseteq left[j]
    PROVE  IInv'
  <1>1. UNCHANGED <<item, custody, note, rank, active, due>>
    BY DEF tables
  <1>2. TypeOK'
    BY <1>1, Ended DEF IInv, LockInv, TypeOK, Notes
  <1>3. RunsOn'
    BY <1>1 DEF IInv, RunsOn, Notes
  <1>4. Quiet(s)
    BY <1>1, Ended DEF IInv, LockInv, Quiet, tables
  <1>5. QED
    BY <1>2, <1>3, <1>4, Ended, QuietStep DEF IInv, LockInv

(* A request is accepted.                                                  *)
LEMMA BeginKeeps ==
    ASSUME IInv, NEW s \in Txs, NEW r \in Requests, Begin(s, r), Anchor(r),
           left' \in [Jobs -> SUBSET OriginIds], RunsOn'
    PROVE  IInv'
  <1>1. UNCHANGED <<item, custody, note, rank, active, held, due, faults>>
    BY DEF Begin, tables
  <1>2. /\ phase'[s] = "locking" /\ req'[s] = r /\ todo'[s] = Path(r)
        /\ \A t \in Txs \ {s} : SameTx(t)
    BY <1>1 DEF IInv, TypeOK, Begin, SameTx
  <1>3. Path(r) \in Seq(Rows)
    BY PathMeans
  <1>4. /\ phase' \in [Txs -> {"idle", "locking", "checked", "cancel", "retry", "create"}]
        /\ req' \in [Txs -> Requests \cup {Nil}] /\ todo' \in [Txs -> Seq(Rows)]
    BY <1>3 DEF IInv, TypeOK, Begin
  <1>5. \A t \in Txs : phase'[t] # "idle" => req'[t] \in Requests
    BY <1>2 DEF IInv, TypeOK, SameTx
  <1>6. TypeOK'
    BY <1>1, <1>4, <1>5 DEF IInv, TypeOK, Notes
  <1>7. Anchor(r)'
    BY <1>1 DEF Anchor, Notes
  <1>8. \A k \in 1..Len(Path(r)) : Locked(s, Path(r)[k])'
    BY <1>2 DEF Locked
  <1>9. Own(s)'
    BY <1>2, <1>7, <1>8 DEF Own, Writing, RemindPhases, UnderWay
  <1>10. Exclusive'
    BY <1>1 DEF IInv, LockInv, Exclusive
  <1>11. Quiet(s)
    BY <1>1, <1>2 DEF Quiet, tables
  <1>12. QED
    BY <1>6, <1>9, <1>10, <1>11, QuietStep

LEMMA ArriveKeeps ==
    ASSUME IInv, NEW s \in Txs, Arrive(s)
    PROVE  IInv'
  <1>1. PICK r : Begin(s, r) /\ r \in Requests /\ Anchor(r)
    <2>1. \A i \in Stocked : i \in Items /\ item[i] \in ItemRow
                          /\ item[i].version \in Nat /\ item[i].stock \in Int
      BY DEF IInv, TypeOK, Stocked, ItemRow
    <2>2. CASE BeginStock(s)
      <3>1. PICK u \in Users, i \in Stocked, q \in Quantities :
              \/ \E h \in Holders, c \in Issues :
                   Begin(s, [op |-> "issue", user |-> u, item |-> i, holder |-> h,
                             quantity |-> q, request |-> c])
              \/ \E c \in Issued :
                   /\ custody[c].item = i
                   /\ Begin(s, [op |-> "return", user |-> u, item |-> i, loan |-> c,
                                quantity |-> q, version |-> custody[c].version])
              \/ \E sign \in {1, -1} :
                   Begin(s, [op |-> "adjust", user |-> u, item |-> i,
                             quantity |-> sign * q])
        BY <2>2 DEF BeginStock
      <3>2. CASE \E h \in Holders, c \in Issues :
                   Begin(s, [op |-> "issue", user |-> u, item |-> i, holder |-> h,
                             quantity |-> q, request |-> c])
        BY <2>1, <3>2 DEF Requests, InventoryRequest, IssueRequest, Anchor, NoteOps
      <3>3. CASE \E c \in Issued :
                   /\ custody[c].item = i
                   /\ Begin(s, [op |-> "return", user |-> u, item |-> i, loan |-> c,
                                quantity |-> q, version |-> custody[c].version])
        <4>1. \A c \in Issued : c \in Issues /\ custody[c] \in CustodyRow
                             /\ custody[c].version \in Nat
          BY DEF IInv, TypeOK, Issued, CustodyRow
        <4>2. QED
          BY <2>1, <3>3, <4>1 DEF Requests, InventoryRequest, ReturnRequest, Anchor, NoteOps
      <3>4. CASE \E sign \in {1, -1} :
                   Begin(s, [op |-> "adjust", user |-> u, item |-> i, quantity |-> sign * q])
        <4>1. PICK sign \in {1, -1} :
                Begin(s, [op |-> "adjust", user |-> u, item |-> i, quantity |-> sign * q])
          BY <3>4
        <4>2. PICK n : n = sign * q
          OBVIOUS
        <4>3. n \in Int
          BY <4>1, <4>2, StockAssumption
        <4>4. Begin(s, [op |-> "adjust", user |-> u, item |-> i, quantity |-> n])
          BY <4>1, <4>2
        <4>5. QED
          BY <2>1, <4>3, <4>4 DEF Requests, InventoryRequest, ItemRequest, Anchor, NoteOps
      <3>5. QED
        BY <3>1, <3>2, <3>3, <3>4
    <2>3. CASE BeginSettings(s)
      <3>1. PICK u \in Users, i \in Stocked, m \in Quantities \cup {0} :
              \/ Begin(s, [op |-> "update", user |-> u, item |-> i, min |-> m,
                           stock |-> item[i].stock, version |-> item[i].version])
              \/ \E to \in Users \cup {Nil} :
                   Begin(s, [op |-> "configure", user |-> u, item |-> i, min |-> m,
                             recipient |-> to, version |-> item[i].version])
        BY <2>3 DEF BeginSettings
      <3>2. m \in Nat
        BY StockAssumption
      <3>3. CASE Begin(s, [op |-> "update", user |-> u, item |-> i, min |-> m,
                           stock |-> item[i].stock, version |-> item[i].version])
        BY <2>1, <3>2, <3>3 DEF Requests, InventoryRequest, ItemRequest, Anchor, NoteOps
      <3>4. CASE \E to \in Users \cup {Nil} :
                   Begin(s, [op |-> "configure", user |-> u, item |-> i, min |-> m,
                             recipient |-> to, version |-> item[i].version])
        BY <2>1, <3>2, <3>4 DEF Requests, InventoryRequest, ItemRequest, Anchor, NoteOps
      <3>5. QED
        BY <3>1, <3>3, <3>4
    <2>4. CASE BeginReconcile(s)
      BY <2>1, <2>4 DEF BeginReconcile, Requests, InventoryRequest, ItemRequest, Anchor, NoteOps
    <2>5. CASE BeginHandling(s)
      <3>1. PICK u \in Users, n \in Notes :
              \/ \E op \in {"acknowledge", "complete", "retry"} :
                   Begin(s, [op |-> op, user |-> u, note |-> n, version |-> note[n].version])
              \/ \E to \in Users, when \in {"later", "due"} :
                   Begin(s, [op |-> "assign", user |-> u, note |-> n, owner |-> to,
                             when |-> when, version |-> note[n].version])
        BY <2>5 DEF BeginHandling
      <3>2. n \in OriginIds \cup ReminderIds /\ note[n].version \in Nat
        BY DEF IInv, TypeOK, NoteIds, NoteRow
      <3>3. CASE \E op \in {"acknowledge", "complete", "retry"} :
                   Begin(s, [op |-> op, user |-> u, note |-> n, version |-> note[n].version])
        BY <3>2, <3>3 DEF Requests, NoteRequest, Anchor, InventoryOps
      <3>4. CASE \E to \in Users, when \in {"later", "due"} :
                   Begin(s, [op |-> "assign", user |-> u, note |-> n, owner |-> to,
                             when |-> when, version |-> note[n].version])
        BY <3>2, <3>4 DEF Requests, NoteRequest, Anchor, InventoryOps
      <3>5. QED
        BY <3>1, <3>3, <3>4
    <2>6. QED
      BY <2>2, <2>3, <2>4, <2>5 DEF Arrive
  <1>2. left' = left
    BY DEF Arrive, BeginStock, BeginSettings, BeginReconcile, BeginHandling
  <1>3. note' = note
    BY <1>1 DEF Begin, tables
  <1>4. RunsOn' /\ left' \in [Jobs -> SUBSET OriginIds]
    BY <1>2, <1>3 DEF IInv, RunsOn, TypeOK, Notes
  <1>5. QED
    BY <1>1, <1>4, BeginKeeps

LEMMA RunKeeps ==
    ASSUME IInv, NEW j \in Jobs, StartRun(j) \/ Visit(j)
    PROVE  IInv'
  <1>1. j \in Txs
    BY DEF Txs
  <1>2. CASE StartRun(j)
    <2> DEFINE S == {n \in Notes : IsDue(n)}
    <2>1. S \subseteq Notes /\ S \subseteq OriginIds
      BY DEF IInv, RowInv, NotesSound, IsDue
    <2>2. UNCHANGED <<item, custody, note, rank, active, phase, req, todo, held, faults>>
          /\ phase[j] = "idle"
      BY <1>2 DEF StartRun, tables, tx
    <2>3. left' = [left EXCEPT ![j] = S] /\ due' = [due EXCEPT ![j] = S]
      BY <1>2 DEF StartRun
    <2> HIDE DEF S
    <2>4. TypeOK'
      BY <2>1, <2>2, <2>3 DEF IInv, TypeOK, Notes
    <2>5. RunsOn'
      BY <2>1, <2>2, <2>3 DEF IInv, TypeOK, RunsOn, Notes
    <2>6. Quiet(j)
      BY <2>2, <2>3 DEF IInv, TypeOK, Quiet, SameTx, tables
    <2>7. Own(j)' /\ Exclusive'
      BY <1>1, <2>2 DEF IInv, LockInv, Own, UnderWay, Writing, RemindPhases, Exclusive
    <2>8. QED
      BY <1>1, <2>4, <2>5, <2>6, <2>7, QuietStep
  <1>3. CASE Visit(j)
    <2>1. PICK n \in left[j] : /\ Begin(j, [op |-> "remind", note |-> n])
                               /\ left' = [left EXCEPT ![j] = @ \ {n}]
      BY <1>3 DEF Visit
    <2>2. n \in OriginIds /\ n \in Notes
      BY DEF IInv, TypeOK, RunsOn
    <2>3. [op |-> "remind", note |-> n] \in Requests /\ Anchor([op |-> "remind", note |-> n])
      BY <2>2 DEF Requests, NoteRequest, Anchor, InventoryOps
    <2>4. note' = note
      BY <2>1 DEF Begin, tables
    <2>5. RunsOn' /\ left' \in [Jobs -> SUBSET OriginIds]
      BY <2>1, <2>4 DEF IInv, TypeOK, RunsOn, Notes
    <2>6. QED
      BY <1>1, <2>1, <2>3, <2>5, BeginKeeps
  <1>4. QED
    BY <1>2, <1>3

LEMMA LockKeeps ==
    ASSUME IInv, NEW s \in Txs, LockRow(s)
    PROVE  IInv'
  <1> DEFINE row == Head(todo[s])
  <1>1. UNCHANGED <<item, custody, note, rank, active, phase, req, due, left, faults>>
        /\ phase[s] = "locking"
    BY DEF LockRow, tables, run
  <1>2. /\ todo[s] \in Seq(Rows) /\ todo[s] # <<>> /\ row \in Rows
        /\ Tail(todo[s]) \in Seq(Rows)
    BY DEF IInv, TypeOK, LockRow
  <1>3. /\ held' = [held EXCEPT ![s] = held[s] \cup {row}]
        /\ todo' = [todo EXCEPT ![s] = Tail(todo[s])]
    BY DEF LockRow
  <1>4. /\ held'[s] = held[s] \cup {row} /\ todo'[s] = Tail(todo[s])
        /\ \A t \in Txs \ {s} : SameTx(t)
    BY <1>1, <1>3 DEF IInv, TypeOK, SameTx
  <1>5. TypeOK'
    BY <1>1, <1>2, <1>3 DEF IInv, TypeOK, Notes
  <1>6. ASSUME NEW x, Locked(s, x) PROVE Locked(s, x)'
    <2>1. CASE x \in held[s]
      BY <1>4, <2>1 DEF Locked
    <2>2. CASE \E k \in 1..Len(todo[s]) : todo[s][k] = x
      <3>1. PICK k \in 1..Len(todo[s]) : todo[s][k] = x
        BY <2>2
      <3>2. CASE k = 1
        BY <1>2, <1>4, <3>1, <3>2 DEF Locked
      <3>3. CASE k # 1
        <4>1. k - 1 \in 1..Len(Tail(todo[s])) /\ Tail(todo[s])[k - 1] = x
          BY <1>2, <3>1, <3>3
        <4>2. QED
          BY <1>4, <4>1 DEF Locked
      <3>4. QED
        BY <3>2, <3>3
    <2>3. QED
      BY <1>6, <2>1, <2>2 DEF Locked
  <1>7. Own(s)'
    BY <1>1, <1>6 DEF IInv, LockInv, Own, UnderWay, Writing, RemindPhases, Anchor, Notes
  <1>8. Exclusive'
    <2>1. \A t \in Txs \ {s} : row \in held[t] => row[1] = "member"
      BY DEF LockRow, Free
    <2> HIDE DEF row
    <2>2. QED
      BY <1>4, <2>1 DEF IInv, LockInv, Exclusive, SameTx
  <1>9. Quiet(s)
    BY <1>1, <1>4 DEF Quiet, tables
  <1>10. RunsOn'
    BY <1>1 DEF IInv, RunsOn, Notes
  <1>11. QED
    BY <1>5, <1>7, <1>8, <1>9, <1>10, QuietStep

LEMMA CheckKeeps ==
    ASSUME IInv, NEW s \in Txs, Check(s) \/ (s \in Jobs /\ Look(s))
    PROVE  IInv'
  <1>1. /\ UNCHANGED <<item, custody, note, rank, active, req, todo, held, due, left, faults>>
        /\ phase[s] = "locking" /\ todo[s] = <<>>
    BY DEF Check, Look, Ready, tables, run
  <1>2. PICK p : /\ phase' = [phase EXCEPT ![s] = p] /\ p \in {"checked"} \cup RemindPhases
                 /\ p = "checked" => Check(s)
                 /\ p \in RemindPhases => s \in Jobs /\ Look(s)
    BY DEF Check, Look, Decision, RemindPhases
  <1>3. /\ phase'[s] = p /\ \A t \in Txs \ {s} : SameTx(t)
        /\ phase' \in [Txs -> {"idle", "locking", "checked", "cancel", "retry", "create"}]
    BY <1>1, <1>2 DEF IInv, TypeOK, SameTx, RemindPhases
  <1>4. TypeOK'
    BY <1>1, <1>3 DEF IInv, TypeOK, Notes, SameTx
  <1>5. Anchor(req[s]) /\ \A k \in 1..Len(Path(req[s])) : Locked(s, Path(req[s])[k])
    BY <1>1 DEF IInv, LockInv, Own, UnderWay
  <1>6. /\ Anchor(req[s])'
        /\ (\A k \in 1..Len(Path(req[s])) : Locked(s, Path(req[s])[k]))'
    BY <1>1, <1>5 DEF Anchor, Locked, Notes
  <1>7. p = "checked" => (req[s].op # "remind" /\ Admissible(req[s]))'
    <2>1. p = "checked" => req[s].op # "remind" /\ Admissible(req[s])
      BY <1>2 DEF Check, Granted
    <2>2. QED
      BY <1>1, <2>1 DEF Admissible, CanIssue, CanReturn, CanAdjust, CanUpdate, CanConfigure,
                        CanHandle, InScope, Owner, Outstanding, IsStaff
  <1>8. p \in RemindPhases => (s \in Jobs /\ req[s].op = "remind" /\ StillDue(s))'
    <2>1. p \in RemindPhases => s \in Jobs /\ req[s].op = "remind" /\ StillDue(s)
      BY <1>2 DEF Look
    <2>2. QED
      BY <1>1, <2>1 DEF StillDue, IsDue
  <1>9. Own(s)'
    BY <1>1, <1>3, <1>6, <1>7, <1>8 DEF Own
  <1>10. Exclusive' /\ RunsOn'
    BY <1>1 DEF IInv, LockInv, Exclusive, RunsOn, Notes
  <1>11. Quiet(s)
    BY <1>1, <1>3 DEF Quiet, tables
  <1>12. QED
    BY <1>4, <1>9, <1>10, <1>11, QuietStep

LEMMA GiveUpKeeps ==
    ASSUME IInv, NEW s \in Txs,
           Refuse(s) \/ (s \in Jobs /\ Skip(s)) \/ Collide(s) \/ Fail(s) \/ BreakDeadlock(s)
    PROVE  IInv'
  <1>1. left \in [Jobs -> SUBSET OriginIds] /\ faults \in Nat
    BY DEF IInv, TypeOK
  <1>2. CASE Refuse(s) \/ (s \in Jobs /\ Skip(s))
    <2>1. End(s) /\ UNCHANGED <<tables, due>> /\ left' = left /\ faults' = faults
      BY <1>2 DEF Refuse, Skip, run
    <2>2. QED
      BY <1>1, <2>1, EndKeeps
  <1>3. CASE Collide(s) \/ Fail(s) \/ BreakDeadlock(s)
    <2>1. RollBack(s) /\ (faults' = faults \/ faults' = faults + 1)
      BY <1>3 DEF Collide, Fail, BreakDeadlock
    <2>2. End(s) /\ UNCHANGED <<tables, due>>
          /\ left' = [j \in Jobs |-> IF j = s THEN {} ELSE left[j]]
      BY <2>1 DEF RollBack
    <2>3. left' \in [Jobs -> SUBSET OriginIds] /\ \A j \in Jobs : left'[j] \subseteq left[j]
      BY <1>1, <2>2
    <2>4. faults' \in Nat
      BY <1>1, <2>1
    <2>5. QED
      BY <2>2, <2>3, <2>4, EndKeeps
  <1>4. QED
    BY <1>2, <1>3

-----------------------------------------------------------------------------
(* The commit of a stock transaction.                                      *)

(* What the transaction of s may write under its locks.                    *)
MayStore(s) ==
    LET r == req[s]
    IN  /\ r \in Requests /\ r.op \in InventoryOps /\ Anchor(r) /\ Admissible(r) /\ IsNew(r)
        /\ SaveStock(r) /\ <<"item", r.item>> \in held[s]
        /\ ~ Evaluated(Written(r)).low =>
             \A n \in Open(r.item) : Free(s, <<"note", n>>)

LEMMA StoreMeans ==
    ASSUME IInv, NEW s \in Txs, Commit(s), phase[s] = "checked", req[s].op \in InventoryOps
    PROVE  MayStore(s)
  <1>1. /\ req[s] \in Requests /\ Anchor(req[s]) /\ Admissible(req[s])
        /\ todo[s] = <<>> /\ UnderWay(s) /\ Own(s)
    BY DEF IInv, TypeOK, LockInv, Own, UnderWay, Writing
  <1>2. <<"item", req[s].item>> \in held[s]
    BY <1>1, WriterHolds DEF IInv
  <1>3. SaveStock(req[s]) /\ IsNew(req[s])
    BY DEF Commit, InventoryOps, NoteOps
  <1>4. Touches(s) = {"note"} \X {n \in Open(req[s].item) : ~ Evaluated(Written(req[s])).low}
    BY DEF Touches
  <1>5. \A row \in Touches(s) : Free(s, row)
    BY DEF Commit
  <1>6. ~ Evaluated(Written(req[s])).low => \A n \in Open(req[s].item) : Free(s, <<"note", n>>)
    BY <1>4, <1>5
  <1>7. QED
    BY <1>1, <1>2, <1>3, <1>6 DEF MayStore

LEMMA StoreLasting ==
    ASSUME TypeOK, NEW s \in Txs, MayStore(s)
    PROVE  Lasting
  <1> DEFINE r == req[s]
  <1>1. /\ item'[r.item] \in ItemRow /\ \A i \in Items \ {r.item} : item'[i] = item[i]
        /\ NotesGrow
        /\ \A c \in Issues : \/ custody'[c] = custody[c]
                             \/ r.op = "issue" /\ c = r.request /\ custody'[c] = Loan(r)
                             \/ r.op = "return" /\ c = r.loan /\ custody'[c] = Back(r)
    BY SaveStockEffect DEF MayStore
  <1>2. /\ r.op = "issue" => custody[r.request] = Nil
        /\ r.op = "return" => /\ Back(r) \in CustodyRow
                              /\ Back(r).item = custody[r.loan].item
    BY LoanRows DEF MayStore, IsNew
  <1>3. QED
    BY <1>1, <1>2, NilAssumption DEF Lasting, NotesGrow

LEMMA StoreIntact ==
    ASSUME IInv, NEW s \in Txs, MayStore(s), UNCHANGED <<rank, active, due>>,
           NEW t \in Txs \ {s}, Writing(t)
    PROVE  Intact(t)
  <1>0. PICK r, q : r = req[s] /\ q = req[t]
    OBVIOUS
  <1>1. /\ r \in Requests /\ Anchor(r) /\ <<"item", r.item>> \in held[s] /\ SaveStock(r)
        /\ r.op \in InventoryOps /\ IsNew(r)
        /\ ~ Evaluated(Written(r)).low => \A n \in Open(r.item) : Free(s, <<"note", n>>)
    BY <1>0 DEF MayStore
  <1>2. UnderWay(t) /\ q \in Requests /\ Anchor(q) /\ todo[t] = <<>> /\ Own(t)
    BY <1>0 DEF IInv, TypeOK, LockInv, Own, UnderWay, Writing
  <1>3. /\ q.op \in InventoryOps => <<"item", q.item>> \in held[t]
        /\ q.op \in NoteOps \cup {"remind"} => <<"note", q.note>> \in held[t]
    BY <1>0, <1>2, WriterHolds DEF IInv
  <1>4. q.op \in InventoryOps => q.item # r.item
    BY <1>1, <1>3 DEF IInv, LockInv, Exclusive
  <1>5. q.op \in InventoryOps => item'[q.item] = item[q.item]
    BY <1>1, <1>2, <1>4, SaveStockEffect, RequestShape DEF IInv
  <1>6. q.op = "return" => custody'[q.loan] = custody[q.loan]
    <2>1. SUFFICES ASSUME q.op = "return", custody'[q.loan] # custody[q.loan] PROVE FALSE
      OBVIOUS
    <2>2. q.loan \in Issues /\ custody[q.loan] \in CustodyRow /\ custody[q.loan].item = q.item
      BY <1>2, <2>1, RequestShape DEF Anchor
    <2>3. (r.op = "issue" /\ q.loan = r.request) \/ (r.op = "return" /\ q.loan = r.loan)
      BY <1>1, <2>1, <2>2, SaveStockEffect DEF IInv
    <2>4. r.op = "issue" => custody[r.request] = Nil
      BY <1>1 DEF IsNew
    <2>5. r.op = "return" => custody[r.loan].item = r.item
      BY <1>1 DEF Anchor
    <2>6. QED
      BY <1>4, <2>1, <2>2, <2>3, <2>4, <2>5, NilAssumption DEF InventoryOps
  <1>7. q.op \in NoteOps \cup {"remind"} => note'[q.note] = note[q.note]
    <2>1. SUFFICES ASSUME q.op \in NoteOps \cup {"remind"}, note'[q.note] # note[q.note]
                   PROVE  FALSE
      OBVIOUS
    <2>2. q.note \in Notes
      BY <1>2, <2>1 DEF Anchor
    <2>3. q.note \in Open(r.item) /\ ~ Evaluated(Written(r)).low
      BY <1>1, <2>1, <2>2, SaveStockEffect DEF IInv
    <2>4. Free(s, <<"note", q.note>>) /\ <<"note", q.note>> \in held[t]
      BY <1>1, <1>3, <2>1, <2>3
    <2>5. QED
      BY <2>4 DEF Free
  <1>8. QED
    BY <1>0, <1>5, <1>6, <1>7 DEF Intact, NoteKept

LEMMA StoreBounded ==
    ASSUME IInv, NEW s \in Txs, MayStore(s)
    PROVE  PiecesBounded'
  <1>0. PICK r : r = req[s]
    OBVIOUS
  <1>1. /\ r \in Requests /\ Anchor(r) /\ SaveStock(r) /\ r.op \in InventoryOps /\ Admissible(r)
    BY <1>0 DEF MayStore
  <1>2. /\ r.item \in Items /\ item[r.item] \in ItemRow /\ Written(r) \in ItemRow
        /\ item' = [item EXCEPT ![r.item] = Evaluated(Written(r))]
        /\ Evaluated(Written(r)).stock = Written(r).stock
    BY <1>1, SaveStockEffect, WrittenRow, EvaluatedRow DEF IInv, SaveStock
  <1>3. r.item \in Stocked /\ item[r.item].stock \in 0..MaxStock
    BY <1>2, NilAssumption DEF IInv, RowInv, PiecesBounded, Stocked
  <1>4. Written(r).stock \in 0..MaxStock
    <2>1. CASE r.op = "issue"
      <3>1. r.quantity \in Nat /\ item[r.item].stock >= r.quantity
        BY <1>1, <2>1, RequestShape, StockAssumption DEF Admissible, CanIssue
      <3>2. Written(r).stock = item[r.item].stock - r.quantity
        BY <1>1, <2>1, WrittenRow DEF IInv
      <3>3. QED
        BY <1>3, <3>1, <3>2, StockAssumption
    <2>2. CASE r.op = "return"
      <3>1. r.quantity \in Nat
        BY <1>1, <2>2, RequestShape, StockAssumption
      <3>2. item[r.item].stock + r.quantity <= MaxStock
        BY <1>1, <2>2 DEF Admissible, CanReturn
      <3>3. Written(r).stock = item[r.item].stock + r.quantity
        BY <1>1, <2>2, WrittenRow DEF IInv
      <3>4. QED
        BY <1>3, <3>1, <3>2, <3>3, StockAssumption
    <2>3. CASE r.op = "adjust"
      <3>1. r.quantity \in Int
        BY <1>1, <2>3, RequestShape
      <3>2. item[r.item].stock + r.quantity >= 0 /\ item[r.item].stock + r.quantity <= MaxStock
        BY <1>1, <2>3 DEF Admissible, CanAdjust
      <3>3. Written(r).stock = item[r.item].stock + r.quantity
        BY <1>1, <2>3, WrittenRow DEF IInv
      <3>4. QED
        BY <1>3, <3>1, <3>2, <3>3, StockAssumption
    <2>4. CASE r.op \in {"update", "configure", "reconcile"}
      <3>1. Written(r).stock = item[r.item].stock
        BY <1>1, <2>4, WrittenRow DEF IInv
      <3>2. QED
        BY <1>3, <3>1
    <2>5. QED
      BY <1>1, <2>1, <2>2, <2>3, <2>4 DEF InventoryOps
  <1>5. \A i \in Stocked' : item'[i].stock \in 0..MaxStock
    <2>1. \A i \in Items \ {r.item} : item'[i] = item[i]
      BY <1>1, SaveStockEffect DEF IInv
    <2>2. item'[r.item].stock \in 0..MaxStock
      BY <1>2, <1>4 DEF IInv, TypeOK
    <2>3. QED
      BY <2>1, <2>2 DEF IInv, RowInv, PiecesBounded, Stocked
  <1>6. ASSUME NEW c \in Issued' PROVE custody'[c].returned \in 0..custody'[c].quantity
    <2>1. c \in Issues /\ custody'[c] # Nil
      BY DEF Issued
    <2>2. CASE custody'[c] = custody[c]
      BY <2>1, <2>2 DEF IInv, RowInv, PiecesBounded, Issued
    <2>3. CASE r.op = "issue" /\ custody'[c] = Loan(r)
      <3>1. r.quantity \in Nat
        BY <1>1, <2>3, RequestShape, StockAssumption
      <3>2. QED
        BY <2>3, <3>1 DEF Loan
    <2>4. CASE r.op = "return" /\ c = r.loan /\ custody'[c] = Back(r)
      <3>1. /\ custody[c] \in CustodyRow /\ r.quantity \in Nat
            /\ custody[c].quantity \in Nat /\ custody[c].returned \in Nat
        BY <1>1, <2>4, RequestShape, StockAssumption DEF Anchor, CustodyRow
      <3>2. r.quantity <= custody[c].quantity - custody[c].returned
        BY <1>1, <2>4 DEF Admissible, CanReturn, Outstanding
      <3>3. custody'[c].quantity = custody[c].quantity
            /\ custody'[c].returned = custody[c].returned + r.quantity
        BY <1>1, <2>4, LoanRows DEF IInv
      <3>4. QED
        BY <3>1, <3>2, <3>3
    <2>5. QED
      BY <1>1, <2>1, <2>2, <2>3, <2>4, SaveStockEffect DEF IInv
  <1>7. QED
    BY <1>5, <1>6 DEF PiecesBounded

LEMMA StoreAlerts ==
    ASSUME IInv, NEW s \in Txs, MayStore(s)
    PROVE  NotesSound' /\ AlertsFollowStock'
  <1>0. PICK r, x : r = req[s] /\ x = Evaluated(Written(r))
    OBVIOUS
  <1>1. /\ r \in Requests /\ Anchor(r) /\ SaveStock(r) /\ r.op \in InventoryOps
    BY <1>0 DEF MayStore
  <1>2. /\ r.item \in Items /\ item[r.item] \in ItemRow /\ Written(r) \in ItemRow
        /\ item'[r.item] = x /\ x \in ItemRow
        /\ \A i \in Items \ {r.item} : item'[i] = item[i]
    BY <1>0, <1>1, SaveStockEffect, WrittenRow, EvaluatedRow DEF IInv, TypeOK, SaveStock
  <1>3. r.item \in Stocked /\ Stocked \subseteq Stocked'
    BY <1>2, NilAssumption DEF Stocked
  <1>4. /\ NotesGrow
        /\ \A n \in Notes : \/ note'[n] = note[n]
                            \/ n \in Open(r.item) /\ ~ x.low
        /\ ~ x.low => \A n \in Open(r.item) : note'[n].resolved
        /\ \A n \in Notes' \ Notes :
             /\ x.low /\ n \in OriginIds /\ n[3] = x.episode
             /\ note'[n].item = r.item /\ note'[n].origin = Nil
    BY <1>0, <1>1, SaveStockEffect DEF IInv
  <1>5. /\ x.low <=> x.stock < x.min
        /\ item[r.item].low => x.episode = item[r.item].episode
    BY <1>0, <1>1, <1>2, WrittenRow, EvaluatedRow DEF IInv
  <1>6. NotesSound'
    BY <1>3, <1>4 DEF IInv, RowInv, NotesSound, NotesGrow, SameNote
  <1>7. \A i \in Stocked' : item'[i].low <=> item'[i].stock < item'[i].min
    BY <1>2, <1>5 DEF IInv, RowInv, AlertsFollowStock, Stocked
  <1>8. ASSUME NEW i \in Stocked', NEW n \in Open(i)'
        PROVE  item'[i].low /\ AlertOf(n)'[3] = item'[i].episode
    <2>1. i \in Items /\ n \in Notes' /\ note'[n].item = i /\ ~ note'[n].resolved
      BY DEF Stocked, Open
    <2>2. CASE n \in Notes
      <3>1. n \in Open(i) /\ AlertOf(n)' = AlertOf(n) /\ i \in Stocked
        BY <1>3, <1>4, <2>1, <2>2, StockAssumption
           DEF NotesGrow, SameNote, Open, AlertOf, IInv, RowInv, NotesSound, Stocked, TypeOK
      <3>2. item[i].low /\ AlertOf(n)[3] = item[i].episode
        BY <3>1 DEF IInv, RowInv, AlertsFollowStock
      <3>3. CASE i # r.item
        BY <1>2, <2>1, <3>1, <3>2, <3>3
      <3>4. CASE i = r.item
        BY <1>2, <1>4, <1>5, <2>1, <3>1, <3>2, <3>4
      <3>5. QED
        BY <3>3, <3>4
    <2>3. CASE n \notin Notes
      BY <1>2, <1>4, <2>1, <2>3 DEF AlertOf
    <2>4. QED
      BY <2>2, <2>3
  <1>9. QED
    BY <1>6, <1>7, <1>8 DEF AlertsFollowStock

-----------------------------------------------------------------------------
(* Steps that change notifications only.                                   *)

(* A new notification is about no item, or reminds of an open origin.      *)
Follows(m) ==
    \/ note'[m].item = Nil /\ (note'[m].origin = Nil => m \in OriginIds)
    \/ \E n \in Notes : /\ note'[m].origin = n /\ note'[m].origin # Nil
                        /\ note'[m].item = note[n].item
                        /\ note[n].origin = Nil /\ ~ note[n].resolved

LEMMA NotesAlone ==
    ASSUME TypeOK, RowInv, UNCHANGED <<item, custody>>, NotesGrow,
           \A m \in Notes' \ Notes : Follows(m)
    PROVE  RowInv'
  <1>1. PiecesBounded' /\ Stocked' = Stocked
    BY DEF RowInv, PiecesBounded, Stocked, Issued
  <1>2. NotesSound'
    <2>1. ASSUME NEW m \in Notes'
          PROVE  /\ note'[m].origin = Nil => m \in OriginIds
                 /\ note'[m].item # Nil => note'[m].item \in Stocked
      <3>1. CASE m \in Notes
        BY <3>1 DEF RowInv, NotesSound, NotesGrow, SameNote
      <3>2. CASE m \notin Notes
        BY <3>2 DEF RowInv, NotesSound, Follows
      <3>3. QED
        BY <3>1, <3>2
    <2>2. QED
      BY <1>1, <2>1 DEF NotesSound
  <1>3. ASSUME NEW i \in Stocked, NEW m \in Open(i)'
        PROVE  item[i].low /\ AlertOf(m)'[3] = item[i].episode
    <2>1. /\ m \in Notes' /\ note'[m].item = i /\ ~ note'[m].resolved /\ i # Nil
      BY StockAssumption DEF Open, Stocked
    <2>2. CASE m \in Notes
      <3>1. m \in Open(i) /\ AlertOf(m)' = AlertOf(m)
        BY <2>1, <2>2 DEF NotesGrow, SameNote, Open, AlertOf
      <3>2. QED
        BY <3>1 DEF RowInv, AlertsFollowStock
    <2>3. CASE m \notin Notes
      <3>1. PICK n \in Notes : /\ note'[m].origin = n /\ note'[m].origin # Nil
                               /\ note'[m].item = note[n].item
                               /\ note[n].origin = Nil /\ ~ note[n].resolved
        BY <2>1, <2>3 DEF Follows
      <3>2. n \in Open(i) /\ AlertOf(m)' = n /\ AlertOf(n) = n
        BY <2>1, <3>1 DEF Open, AlertOf
      <3>3. QED
        BY <3>2 DEF RowInv, AlertsFollowStock
    <2>4. QED
      BY <2>2, <2>3
  <1>4. \A i \in Stocked : item[i].low <=> item[i].stock < item[i].min
    BY DEF RowInv, AlertsFollowStock
  <1>5. AlertsFollowStock'
    BY <1>1, <1>3, <1>4 DEF AlertsFollowStock
  <1>6. QED
    BY <1>1, <1>2, <1>5 DEF RowInv

LEMMA NotesLast ==
    ASSUME NotesGrow, UNCHANGED <<item, custody>>
    PROVE  Lasting
  BY DEF NotesGrow, Lasting

(* The commit of a transaction on a notification, or of a reminder.        *)
LEMMA NoteIntact ==
    ASSUME IInv, NEW s \in Txs, Commit(s), UNCHANGED <<item, custody, rank, active>>,
           NEW n, <<"note", n>> \in held[s], DueShrinks(n),
           \A m \in Notes \ {n} : note'[m] = note[m] \/ <<"note", m>> \in Touches(s),
           NEW t \in Txs \ {s}, Writing(t)
    PROVE  Intact(t)
  <1>0. PICK q : q = req[t]
    OBVIOUS
  <1>1. UnderWay(t) /\ q \in Requests /\ Anchor(q) /\ todo[t] = <<>> /\ Own(t)
    BY <1>0 DEF IInv, TypeOK, LockInv, Own, UnderWay, Writing
  <1>2. ASSUME q.op \in NoteOps \cup {"remind"}
        PROVE  note'[q.note] = note[q.note] /\ q.note # n
    <2>1. q.note \in Notes /\ <<"note", q.note>> \in held[t]
      BY <1>0, <1>1, <1>2, WriterHolds DEF IInv, Anchor
    <2>2. q.note # n
      BY <2>1 DEF IInv, LockInv, Exclusive
    <2>3. <<"note", q.note>> \notin Touches(s)
      BY <2>1 DEF Commit, Free
    <2>4. QED
      BY <2>1, <2>2, <2>3
  <1>3. t \in Jobs /\ q.op = "remind" /\ q.note \in due[t] => q.note \in due'[t]
    BY <1>2 DEF DueShrinks
  <1>4. QED
    BY <1>0, <1>2, <1>3 DEF Intact, NoteKept

(* The tables after a commit are well-formed.                              *)
LEMMA CommitType ==
    ASSUME TypeOK, Exclusive, NEW s \in Txs, End(s), UNCHANGED <<left, faults, rank, active>>,
           item' \in [Items -> ItemRow \cup {Nil}], NotesGrow,
           custody' \in [Issues -> CustodyRow \cup {Nil}],
           due' \in [Jobs -> SUBSET OriginIds]
    PROVE  TypeOK'
  BY Ended DEF TypeOK, NotesGrow

LEMMA CommitKeeps ==
    ASSUME IInv, NEW s \in Txs, Commit(s)
    PROVE  IInv'
  <1>1. /\ End(s) /\ UNCHANGED <<left, faults>> /\ Writing(s) /\ UnderWay(s) /\ Own(s)
        /\ req[s] \in Requests /\ Anchor(req[s]) /\ todo[s] = <<>>
    BY DEF Commit, Writing, UnderWay, IInv, LockInv, Own, TypeOK
  <1>2. Own(s)' /\ Exclusive' /\ \A t \in Txs \ {s} : SameTx(t)
    BY <1>1, Ended DEF IInv, LockInv
  <1>3. NotesGrow => RunsOn'
    BY <1>1 DEF IInv, RunsOn, NotesGrow
  <1>4. CASE phase[s] = "checked" /\ req[s].op \in InventoryOps
    <2>1. MayStore(s)
      BY <1>4, StoreMeans
    <2>2. UNCHANGED <<rank, active, due>>
      BY <2>1 DEF MayStore, SaveStock
    <2>3. /\ item' \in [Items -> ItemRow \cup {Nil}] /\ NotesGrow
          /\ custody' \in [Issues -> CustodyRow \cup {Nil}]
      BY <2>1, SaveStockEffect DEF MayStore, IInv
    <2>4. TypeOK'
      BY <1>1, <2>2, <2>3, CommitType DEF IInv, LockInv, TypeOK
    <2>5. RowInv'
      BY <2>1, StoreBounded, StoreAlerts DEF RowInv
    <2>6. QED
      BY <1>2, <1>3, <2>1, <2>2, <2>3, <2>4, <2>5, StoreLasting, StoreIntact, Together DEF IInv
  <1>5. CASE phase[s] = "checked" /\ req[s].op \in NoteOps
    <2>0. PICK r : r = req[s]
      OBVIOUS
    <2>1. SaveNote(r) /\ r \in Requests /\ r.op \in NoteOps /\ r.note \in Notes
          /\ <<"note", r.note>> \in held[s]
      BY <1>1, <1>5, <2>0, WriterHolds DEF Commit, Anchor, IInv, InventoryOps, NoteOps
    <2>2. UNCHANGED <<item, custody, rank, active>>
      BY <2>1 DEF SaveNote
    <2>3. /\ NotesGrow /\ Notes' = Notes /\ DueShrinks(r.note)
          /\ \A m \in Notes \ {r.note} :
                note'[m] = note[m] \/ (r.op = "complete" /\ m \in OpenReminders(r.note))
      BY <2>1, SaveNoteEffect DEF IInv
    <2>4. r.op = "complete" => Touches(s) = {"note"} \X OpenReminders(r.note)
      BY <1>5, <2>0 DEF Touches, InventoryOps
    <2>5. \A m \in Notes \ {r.note} : note'[m] = note[m] \/ <<"note", m>> \in Touches(s)
      BY <2>3, <2>4
    <2>6. \A t \in Txs \ {s} : Writing(t) => Intact(t)
      BY <2>1, <2>2, <2>3, <2>5, NoteIntact
    <2>7. TypeOK'
      BY <1>1, <2>2, <2>3, CommitType DEF IInv, LockInv, TypeOK, DueShrinks
    <2>8. RowInv'
      BY <2>2, <2>3, NotesAlone DEF IInv
    <2>9. QED
      BY <1>2, <1>3, <2>2, <2>3, <2>6, <2>7, <2>8, NotesLast, Together
  <1>6. CASE phase[s] # "checked"
    <2>0. PICK n : n = req[s].note
      OBVIOUS
    <2>1. /\ s \in Jobs /\ req[s].op = "remind" /\ StillDue(s) /\ SaveReminder(s)
      BY <1>1, <1>6 DEF Commit, Writing, Own, RemindPhases
    <2>2. /\ n \in Notes /\ n \in OriginIds /\ <<"note", n>> \in held[s]
          /\ note[n].origin = Nil /\ ~ note[n].resolved
      BY <1>1, <2>0, <2>1, RequestShape, WriterHolds DEF Anchor, StillDue, IsDue, IInv
    <2>3. UNCHANGED <<item, custody, rank, active>>
      BY <2>1 DEF SaveReminder
    <2>4. /\ NotesGrow /\ DueShrinks(n) /\ \A m \in Notes \ {n} : note'[m] = note[m]
          /\ \A m \in Notes' \ Notes : /\ note'[m].origin = n /\ note'[m].origin # Nil
                                       /\ note'[m].item = note[n].item
      BY <2>0, <2>1, <2>2, SaveReminderEffect DEF IInv
    <2>5. \A t \in Txs \ {s} : Writing(t) => Intact(t)
      BY <2>2, <2>3, <2>4, NoteIntact
    <2>6. TypeOK'
      BY <1>1, <2>3, <2>4, CommitType DEF IInv, LockInv, TypeOK, DueShrinks
    <2>7. RowInv'
      BY <2>2, <2>3, <2>4, NotesAlone DEF IInv, Follows
    <2>8. QED
      BY <1>2, <1>3, <2>3, <2>4, <2>5, <2>6, <2>7, NotesLast, Together
  <1>7. QED
    BY <1>4, <1>5, <1>6 DEF Commit

-----------------------------------------------------------------------------
(* Steps of nobody's transaction.                                          *)

AllSame == UNCHANGED <<phase, req, todo, held, due, left, faults>>

LEMMA Elsewhere ==
    ASSUME IInv, TypeOK', AllSame, Lasting, \A t \in Txs : Writing(t) => Intact(t), RowInv'
    PROVE  IInv'
  <1>1. \A t \in Txs : SameTx(t)
    BY DEF AllSame, SameTx
  <1>2. ASSUME NEW t \in Txs PROVE Own(t)'
    BY <1>1, OtherStands DEF IInv, LockInv
  <1>3. Exclusive' /\ RunsOn'
    BY DEF AllSame, IInv, LockInv, Exclusive, RunsOn, Lasting
  <1>4. QED
    BY <1>2, <1>3 DEF IInv, LockInv

LEMMA WriterRows ==
    ASSUME IInv, NEW t \in Txs, Writing(t)
    PROVE  /\ req[t] \in Requests /\ Anchor(req[t])
           /\ req[t].op \in (InventoryOps \ {"reconcile"}) \cup NoteOps =>
                <<"member", req[t].user>> \in held[t]
           /\ req[t].op = "issue" => <<"holder", req[t].holder>> \in held[t]
  <1>1. UnderWay(t) /\ Own(t) /\ todo[t] = <<>> /\ Anchor(req[t]) /\ req[t] \in Requests
    BY DEF IInv, LockInv, Own, UnderWay, Writing, TypeOK
  <1>2. QED
    BY <1>1, WriterHolds DEF IInv

LEMMA CreateKeeps ==
    ASSUME IInv, CreateItem
    PROVE  IInv'
  <1>1. PICK i \in Items \ Stocked, n, m \in Quantities \cup {0} :
           /\ n <= MaxStock
           /\ item' = [item EXCEPT ![i] =
                Evaluated([stock |-> n, min |-> m, low |-> FALSE, episode |-> 0,
                           recipient |-> Nil, version |-> 1])]
    BY DEF CreateItem
  <1>2. UNCHANGED <<custody, note, rank, active>> /\ AllSame
    BY DEF CreateItem, AllSame, tx, run
  <1>3. n \in Nat /\ m \in Nat /\ item[i] = Nil
    BY StockAssumption DEF Stocked
  <1>4. PICK x : x = [stock |-> n, min |-> m, low |-> FALSE, episode |-> 0,
                      recipient |-> Nil, version |-> 1]
    OBVIOUS
  <1>5. x \in ItemRow /\ x.stock = n /\ x.min = m
    BY <1>3, <1>4 DEF ItemRow
  <1>6. PICK y : y = Evaluated(x)
    OBVIOUS
  <1>7. y \in ItemRow /\ y.stock \in 0..MaxStock /\ (y.low <=> y.stock < y.min)
    BY <1>1, <1>3, <1>5, <1>6, EvaluatedRow, StockAssumption
  <1>8. item' = [item EXCEPT ![i] = y]
    BY <1>1, <1>4, <1>6
  <1>9. /\ item' \in [Items -> ItemRow \cup {Nil}] /\ item'[i] = y
        /\ \A k \in Items \ {i} : item'[k] = item[k]
    BY <1>7, <1>8 DEF IInv, TypeOK
  <1>10. TypeOK'
    BY <1>2, <1>9 DEF IInv, TypeOK, AllSame, Notes
  <1>11. Lasting
    BY <1>2, <1>3, <1>7, <1>9, NilAssumption DEF Lasting, Notes
  <1>12. ASSUME NEW t \in Txs, Writing(t) PROVE Intact(t)
    <2>1. req[t] \in Requests /\ Anchor(req[t])
      BY <1>12, WriterRows
    <2>2. req[t].op \in InventoryOps => item'[req[t].item] = item[req[t].item]
      BY <1>3, <1>9, <2>1, NilAssumption, RequestShape DEF Anchor
    <2>3. QED
      BY <1>2, <2>2 DEF Intact, NoteKept, AllSame
  <1>13. NotesSound /\ PiecesBounded /\ AlertsFollowStock /\ Notes' = Notes
    BY <1>2 DEF IInv, RowInv, Notes
  <1>14. Stocked \subseteq Stocked' /\ Stocked' \subseteq Stocked \cup {i}
    BY <1>3, <1>7, <1>9 DEF Stocked
  <1>15. NotesSound'
    BY <1>2, <1>13, <1>14 DEF NotesSound
  <1>16. PiecesBounded'
    BY <1>2, <1>7, <1>9, <1>13, <1>14 DEF PiecesBounded, Stocked, Issued
  <1>17. AlertsFollowStock'
    <2>1. \A k \in Stocked' : item'[k].low <=> item'[k].stock < item'[k].min
      BY <1>7, <1>9, <1>13, <1>14 DEF AlertsFollowStock, Stocked
    <2>2. ASSUME NEW k \in Stocked', NEW z \in Open(k)'
          PROVE  item'[k].low /\ AlertOf(z)'[3] = item'[k].episode
      <3>1. z \in Open(k) /\ AlertOf(z)' = AlertOf(z) /\ k \in Items
        BY <1>2 DEF Open, AlertOf, Notes, Stocked
      <3>2. k \in Stocked
        BY <3>1, <1>13, StockAssumption DEF NotesSound, Open
      <3>3. k # i
        BY <3>2
      <3>4. QED
        BY <1>9, <1>13, <3>1, <3>2, <3>3 DEF AlertsFollowStock
    <2>3. QED
      BY <2>1, <2>2 DEF AlertsFollowStock
  <1>18. QED
    BY <1>2, <1>10, <1>11, <1>12, <1>15, <1>16, <1>17, Elsewhere DEF RowInv

LEMMA NoteStepKeeps ==
    ASSUME IInv, Notify \/ ComesDue
    PROVE  IInv'
  <1>1. UNCHANGED <<item, custody, rank, active>> /\ AllSame
    BY DEF Notify, ComesDue, AllSame, tx, run
  <1>2. \A m \in Notes : m \in NoteIds /\ note[m] \in NoteRow
    BY DEF IInv, TypeOK
  <1>3. /\ NotesGrow /\ \A m \in Notes : NoteKept(m)
        /\ \A m \in Notes' \ Notes : Follows(m)
    <2>1. CASE Notify
      <3>1. PICK k \in Plain, u \in Users, b \in BOOLEAN :
              /\ <<"plain", k>> \notin Notes
              /\ note' = Put(note, <<"plain", k>>, Fresh(Nil, u, b))
        BY <2>1 DEF Notify
      <3>2. PICK id, f : id = <<"plain", k>> /\ f = Fresh(Nil, u, b)
        OBVIOUS
      <3>3. /\ id \in NoteIds /\ id \in OriginIds /\ id \notin Notes
            /\ f \in NoteRow /\ f.item = Nil /\ f.origin = Nil
        BY <3>1, <3>2, FreshRow DEF NoteIds, OriginIds, PlainIds
      <3>4. /\ Notes' = Notes \cup {id} /\ note'[id] = f
            /\ \A m \in Notes : note'[m] = note[m]
        BY <3>1, <3>2, <3>3 DEF Put, Notes
      <3>5. QED
        BY <1>2, <3>3, <3>4 DEF NotesGrow, SameNote, NoteKept, Follows
    <2>2. CASE ComesDue
      <3>1. PICK n \in Notes : /\ note[n].next = "later"
                               /\ note' = [note EXCEPT ![n].next = "due"]
        BY <2>2 DEF ComesDue
      <3>2. PICK x : x = [note[n] EXCEPT !.next = "due"]
        OBVIOUS
      <3>3. /\ x \in NoteRow /\ x.item = note[n].item /\ x.origin = note[n].origin
            /\ x.resolved <=> note[n].resolved
        BY <1>2, <3>2 DEF NoteRow
      <3>4. /\ Notes' = Notes /\ note'[n] = x
            /\ \A m \in Notes \ {n} : note'[m] = note[m]
        BY <3>1, <3>2 DEF Notes
      <3>5. QED
        BY <1>2, <3>1, <3>2, <3>3, <3>4 DEF NotesGrow, SameNote, NoteKept
    <2>3. QED
      BY <2>1, <2>2
  <1>4. TypeOK'
    BY <1>1, <1>3 DEF IInv, TypeOK, AllSame, NotesGrow
  <1>5. ASSUME NEW t \in Txs, Writing(t) PROVE Intact(t)
    BY <1>1, <1>3, <1>5, WriterRows DEF Intact, Anchor, AllSame
  <1>6. Lasting /\ RowInv'
    BY <1>1, <1>3, NotesLast, NotesAlone DEF IInv
  <1>7. QED
    BY <1>1, <1>4, <1>5, <1>6, Elsewhere

LEMMA StaffKeeps ==
    ASSUME IInv, Staff
    PROVE  IInv'
  <1>1. UNCHANGED <<item, custody, note>> /\ AllSame
    BY DEF Staff, AllSame, tx, run
  <1>2. /\ rank' \in [Users -> {"staff", "driver", "none"}] /\ active' \in [Holders -> BOOLEAN]
        /\ \A u \in Users : rank'[u] = rank[u] \/ \A s \in Txs : <<"member", u>> \notin held[s]
        /\ \A h \in Holders : active'[h] = active[h]
                             \/ \A s \in Txs : <<"holder", h>> \notin held[s]
    <2>1. rank \in [Users -> {"staff", "driver", "none"}] /\ active \in [Holders -> BOOLEAN]
      BY DEF IInv, TypeOK
    <2>2. CASE \E u \in Users \ SuperAdmins, x \in {"staff", "driver", "none"} :
                 /\ \A s \in Txs : <<"member", u>> \notin held[s]
                 /\ rank' = [rank EXCEPT ![u] = x] /\ UNCHANGED active
      BY <2>1, <2>2
    <2>3. CASE \E h \in Holders :
                 /\ \A s \in Txs : <<"holder", h>> \notin held[s]
                 /\ active' = [active EXCEPT ![h] = ~ @] /\ UNCHANGED rank
      BY <2>1, <2>3
    <2>4. QED
      BY <2>2, <2>3 DEF Staff
  <1>3. TypeOK'
    BY <1>1, <1>2 DEF IInv, TypeOK, AllSame, Notes
  <1>4. ASSUME NEW t \in Txs, Writing(t) PROVE Intact(t)
    BY <1>1, <1>2, <1>4, WriterRows, RequestShape DEF Intact, NoteKept, AllSame
  <1>5. Lasting
    BY <1>1 DEF Lasting, Notes
  <1>6. RowInv'
    BY <1>1 DEF IInv, RowInv, NotesSound, PiecesBounded, AlertsFollowStock, Notes, Stocked,
                Issued, Open, AlertOf
  <1>7. QED
    BY <1>1, <1>3, <1>4, <1>5, <1>6, Elsewhere

-----------------------------------------------------------------------------
LEMMA InitHolds == Init => IInv
  <1> SUFFICES ASSUME Init PROVE IInv
    OBVIOUS
  <1>1. TypeOK
    BY DEF Init, TypeOK, Notes
  <1>2. Exclusive /\ \A s \in Txs : Own(s)
    BY DEF Init, Exclusive, Own, UnderWay, Writing, RemindPhases
  <1>3. RunsOn
    BY DEF Init, RunsOn
  <1>4. RowInv
    BY DEF Init, RowInv, NotesSound, PiecesBounded, AlertsFollowStock, Notes, Stocked, Issued
  <1>5. QED
    BY <1>1, <1>2, <1>3, <1>4 DEF IInv, LockInv

LEMMA StepKeeps == IInv /\ [Next]_vars => IInv'
  <1> SUFFICES ASSUME IInv, [Next]_vars PROVE IInv'
    OBVIOUS
  <1>1. ASSUME NEW s \in Sessions, Arrive(s) PROVE IInv'
    BY <1>1, ArriveKeeps DEF Txs
  <1>2. ASSUME NEW s \in Sessions, Check(s) PROVE IInv'
    BY <1>2, CheckKeeps DEF Txs
  <1>3. ASSUME NEW s \in Sessions, Refuse(s) \/ Collide(s) PROVE IInv'
    BY <1>3, GiveUpKeeps DEF Txs
  <1>4. ASSUME NEW j \in Jobs, StartRun(j) \/ Visit(j) PROVE IInv'
    BY <1>4, RunKeeps
  <1>5. ASSUME NEW j \in Jobs, Look(j) PROVE IInv'
    BY <1>5, CheckKeeps DEF Txs
  <1>6. ASSUME NEW j \in Jobs, Skip(j) PROVE IInv'
    BY <1>6, GiveUpKeeps DEF Txs
  <1>7. ASSUME NEW s \in Txs, LockRow(s) PROVE IInv'
    BY <1>7, LockKeeps
  <1>8. ASSUME NEW s \in Txs, Commit(s) PROVE IInv'
    BY <1>8, CommitKeeps
  <1>9. ASSUME NEW s \in Txs, Fail(s) \/ BreakDeadlock(s) PROVE IInv'
    BY <1>9, GiveUpKeeps
  <1>10. CASE CreateItem \/ Notify \/ ComesDue \/ Staff
    BY <1>10, CreateKeeps, NoteStepKeeps, StaffKeeps
  <1>11. CASE UNCHANGED vars
    <2>1. UNCHANGED <<item, custody, note, rank, active>> /\ AllSame
      BY <1>11 DEF vars, AllSame
    <2>2. TypeOK' /\ Lasting /\ \A t \in Txs : Intact(t)
      BY <2>1 DEF IInv, TypeOK, AllSame, Lasting, Intact, NoteKept, Notes
    <2>3. RowInv'
      BY <2>1 DEF IInv, RowInv, NotesSound, PiecesBounded, AlertsFollowStock, Notes, Stocked,
                  Issued, Open, AlertOf
    <2>4. QED
      BY <2>1, <2>2, <2>3, Elsewhere
  <1>12. QED
    BY <1>1, <1>2, <1>3, <1>4, <1>5, <1>6, <1>7, <1>8, <1>9, <1>10, <1>11 DEF Next

LEMMA Invariance == Spec => []IInv
  BY InitHolds, StepKeeps, PTL DEF Spec

(* Rows, requests and runs stay within their types.                        *)
THEOREM StockTyped == Spec => []TypeOK
  BY Invariance, PTL DEF IInv

(* Whatever stock sessions, reminder jobs and account changes do to each   *)
(* other, what a transaction found under its row locks in custody.ts,      *)
(* alerts.ts and notifications/service.ts is true when it commits.         *)
THEOREM ChecksAlwaysStand == Spec => []ChecksStand
  <1>1. IInv => ChecksStand
    BY DEF IInv, LockInv, Own, ChecksStand, RemindPhases
  <1>2. QED
    BY <1>1, Invariance, PTL

(* evaluateStockAlert and the reminder job together: an open notification  *)
(* of an item belongs to the shortage the item is in.                      *)
THEOREM AlertsAlwaysFollow == Spec => []AlertsFollowStock
  BY Invariance, PTL DEF IInv, RowInv

(* Stock is never negative nor beyond its column, and no loan is returned  *)
(* beyond its quantity (issueInventory, returnInventory, adjust).          *)
THEOREM PiecesAlwaysBounded == Spec => []PiecesBounded
  BY Invariance, PTL DEF IInv, RowInv

-----------------------------------------------------------------------------
(* Reminders and their origins.                                            *)

(* A reminder stands for one plan of its origin, whose version it bears in *)
(* its identifier; while the origin plans another, that has a version of   *)
(* its own.                                                                *)
Traced(m) ==
    LET o == note[m].origin
    IN  o # Nil => /\ m \in ReminderIds /\ m[2] = o
                   /\ o \in Notes /\ note[o].origin = Nil /\ note[m].item = note[o].item
                   /\ m[3] <= note[o].version
                   /\ note[o].next # "never" => m[3] < note[o].version
                   /\ note[o].resolved => note[m].resolved

OnePerPlan ==
    \A m, n \in Notes :
      note[m].origin # Nil /\ note[m].origin = note[n].origin /\ m[3] = n[3] => m = n

RemindInv == OnePerPlan /\ \A m \in Notes : Traced(m)

(* Who plans again does so under a new version.                            *)
Replans(o) ==
    /\ note[o].version <= note'[o].version
    /\ note'[o].next # "never" =>
         note[o].next # "never" \/ note[o].version < note'[o].version

(* A notification that ends takes its reminders along.                     *)
EndsAll(o) ==
    ~ note[o].resolved /\ note'[o].resolved =>
      \A m \in Notes : note[m].origin = o => note'[m].resolved

(* A reminder uses up the plan of its origin.                              *)
Reminds(m) ==
    LET o == note'[m].origin
    IN  o # Nil => /\ o \in Notes /\ note[o].origin = Nil /\ note'[m].item = note[o].item
                   /\ note[o].next # "never" /\ note'[o].next = "never"
                   /\ note'[o].version = note[o].version /\ ~ note'[o].resolved
                   /\ m = ReminderId(o)

Remind ==
    /\ NotesGrow
    /\ \A o \in Notes : note[o].origin = Nil => Replans(o) /\ EndsAll(o)
    /\ \A m \in Notes' \ Notes : Reminds(m)

LEMMA RemindKeeps ==
    ASSUME TypeOK, NotesSound, RemindInv, Remind
    PROVE  RemindInv'
  <1>1. \A n \in Notes : n \in NoteIds /\ note[n] \in NoteRow /\ note[n].version \in Nat
    BY DEF TypeOK, NoteRow
  <1>2. \A n \in Notes' : n \in NoteIds /\ note'[n] \in NoteRow /\ note'[n].version \in Nat
    BY DEF Remind, NotesGrow, NoteRow
  <1>3. \A n \in Notes : n \in Notes' /\ note'[n].item = note[n].item /\ note'[n].origin = note[n].origin
                        /\ (note[n].resolved => note'[n].resolved)
    BY DEF Remind, NotesGrow, SameNote
  <1>4. ASSUME NEW m \in Notes, note[m].origin # Nil
        PROVE  Traced(m)'
    <2>1. PICK o \in Notes : o = note[m].origin
      BY <1>4 DEF RemindInv, Traced
    <2>2. /\ m \in ReminderIds /\ m[2] = o /\ note[o].origin = Nil /\ note[m].item = note[o].item
          /\ m[3] <= note[o].version /\ (note[o].next # "never" => m[3] < note[o].version)
          /\ (note[o].resolved => note[m].resolved)
      BY <1>4, <2>1 DEF RemindInv, Traced
    <2>3. Replans(o) /\ EndsAll(o)
      BY <2>2 DEF Remind
    <2>4. m[3] \in Nat
      BY <2>2 DEF ReminderIds
    <2>5. m[3] <= note'[o].version /\ (note'[o].next # "never" => m[3] < note'[o].version)
      BY <1>1, <1>2, <1>3, <2>1, <2>2, <2>3, <2>4 DEF Replans
    <2>6. note'[o].resolved => note'[m].resolved
      BY <1>3, <2>1, <2>2, <2>3 DEF EndsAll
    <2>7. QED
      BY <1>3, <2>1, <2>2, <2>5, <2>6 DEF Traced
  <1>5. ASSUME NEW m \in Notes' \ Notes, note'[m].origin # Nil
        PROVE  Traced(m)' /\ m[3] = note[note'[m].origin].version
    <2>1. PICK o \in Notes : /\ o = note'[m].origin /\ note[o].origin = Nil
                             /\ note'[m].item = note[o].item
                             /\ note'[o].next = "never" /\ note'[o].version = note[o].version
                             /\ ~ note'[o].resolved /\ m = ReminderId(o)
      BY <1>5 DEF Remind, Reminds
    <2>2. o \in OriginIds /\ note[o].attempts + 1 \in Nat
      BY <1>1, <2>1 DEF NotesSound, NoteRow
    <2>3. PICK v \in Nat, a \in Nat : v = note[o].version /\ a = note[o].attempts + 1
      BY <1>1, <2>2
    <2>4. m = <<"reminder", o, v, a>>
      BY <2>1, <2>3 DEF ReminderId
    <2>5. m \in ReminderIds /\ m[2] = o /\ m[3] = v
      BY <2>2, <2>3, <2>4 DEF ReminderIds
    <2>6. /\ o \in Notes' /\ note'[o].origin = Nil /\ note'[m].item = note'[o].item
          /\ m[3] <= note'[o].version
      <3>1. o \in Notes' /\ note'[o].item = note[o].item /\ note'[o].origin = note[o].origin
        BY <1>3
      <3>2. note'[m].item = note[o].item /\ note[o].origin = Nil
        BY <2>1
      <3>3. note'[o].version = note[o].version
        BY <2>1
      <3>4. note'[o].version = v
        BY <2>3, <3>3, Zenon
      <3>5. m[3] <= v
        BY <2>3, <2>5
      <3>6. QED BY <3>1, <3>2, <3>4, <3>5
    <2>7. Traced(m)'
      BY <2>1, <2>5, <2>6 DEF Traced
    <2>8. QED
      BY <2>1, <2>3, <2>5, <2>7
  <1>6. ASSUME NEW m \in Notes', NEW n \in Notes', note'[m].origin # Nil,
               note'[m].origin = note'[n].origin, m[3] = n[3]
        PROVE  m = n
    <2>1. CASE m \in Notes /\ n \in Notes
      BY <1>3, <1>6, <2>1 DEF RemindInv, OnePerPlan
    <2>2. CASE m \in Notes' \ Notes /\ n \in Notes' \ Notes
      BY <1>6, <2>2 DEF Remind, Reminds
    <2>3. ASSUME NEW k \in Notes, NEW j \in Notes' \ Notes, note'[j].origin # Nil,
                 note'[k].origin = note'[j].origin
          PROVE  k[3] # j[3]
      <3>1. PICK o \in Notes : o = note'[j].origin /\ note[o].next # "never"
        BY <2>3 DEF Remind, Reminds
      <3>2. note[k].origin = o /\ o # Nil
        BY <1>3, <2>3, <3>1
      <3>3. k \in ReminderIds /\ k[3] < note[o].version
        BY <3>1, <3>2 DEF RemindInv, Traced
      <3>4. k[3] \in Nat
        BY <3>3 DEF ReminderIds
      <3>5. j[3] = note[o].version
        BY <1>5, <2>3, <3>1
      <3>6. QED BY <1>1, <3>1, <3>3, <3>4, <3>5
    <2>4. QED
      BY <1>6, <2>1, <2>2, <2>3
  <1>7. QED
    <2>1. ASSUME NEW m \in Notes' PROVE Traced(m)'
      <3>1. CASE m \in Notes
        <4>1. CASE note[m].origin = Nil
          BY <1>3, <3>1, <4>1 DEF Traced
        <4>2. CASE note[m].origin # Nil
          BY <1>4, <3>1, <4>2
        <4>3. QED BY <4>1, <4>2
      <3>2. CASE m \notin Notes /\ note'[m].origin # Nil
        BY <1>5, <3>2
      <3>3. CASE note'[m].origin = Nil
        BY <3>3 DEF Traced
      <3>4. QED BY <3>1, <3>2, <3>3
    <2>2. OnePerPlan'
      BY <1>6 DEF OnePerPlan
    <2>3. QED BY <2>1, <2>2 DEF RemindInv

(* Who ends the alerts of an item ends the reminders about it.             *)
LEMMA StockReminds ==
    ASSUME IInv, RemindInv, NEW s \in Txs, MayStore(s)
    PROVE  Remind
  <1>0. PICK r, x : r = req[s] /\ x = Evaluated(Written(r))
    OBVIOUS
  <1>1. r \in Requests /\ Anchor(r) /\ SaveStock(r) /\ r.op \in InventoryOps
    BY <1>0 DEF MayStore
  <1>2. /\ NotesGrow
        /\ \A n \in Notes : \/ note'[n] = note[n]
                            \/ /\ n \in Open(r.item) /\ ~ x.low
                               /\ note'[n] = [note[n] EXCEPT !.resolved = TRUE]
        /\ ~ x.low => \A n \in Open(r.item) : note'[n].resolved
        /\ \A n \in Notes' \ Notes : note'[n].origin = Nil
    BY <1>0, <1>1, SaveStockEffect DEF IInv
  <1>3. \A n \in Notes : note[n] \in NoteRow /\ note[n].version \in Nat
    BY DEF IInv, TypeOK, NoteRow
  <1>4. \A n \in Notes : note'[n].version = note[n].version /\ note'[n].next = note[n].next
    BY <1>2, <1>3 DEF NoteRow
  <1>5. ASSUME NEW o \in Notes, note[o].origin = Nil
        PROVE  Replans(o) /\ EndsAll(o)
    <2>1. Replans(o)
      BY <1>3, <1>4 DEF Replans
    <2>2. ASSUME ~ note[o].resolved, note'[o].resolved, NEW m \in Notes, note[m].origin = o
          PROVE  note'[m].resolved
      <3>1. o \in Open(r.item) /\ ~ x.low
        BY <1>2, <2>2
      <3>2. o # Nil
        BY <1>5, NilAssumption DEF IInv, RowInv, NotesSound
      <3>3. note[m].item = r.item
        BY <2>2, <3>1, <3>2 DEF RemindInv, Traced, Open
      <3>4. CASE note[m].resolved
        BY <1>2, <3>4 DEF NotesGrow
      <3>5. CASE ~ note[m].resolved
        BY <1>2, <3>1, <3>3, <3>5 DEF Open
      <3>6. QED BY <3>4, <3>5
    <2>3. QED BY <2>1, <2>2 DEF EndsAll
  <1>6. QED
    BY <1>2, <1>5 DEF Remind, Reminds

(* Who handles a notification plans it under its next version.             *)
LEMMA HandledPlan ==
    ASSUME TypeOK, NEW r \in Requests, r.op \in NoteOps, r.note \in Notes
    PROVE  /\ Handled(r).version = note[r.note].version + 1
           /\ r.op # "complete" => (Handled(r).resolved <=> note[r.note].resolved)
  <1> DEFINE n == [note[r.note] EXCEPT !.version = @ + 1]
  <1>1. note[r.note] \in NoteRow /\ note[r.note].version \in Nat
    BY DEF TypeOK, NoteRow
  <1>2. /\ n \in NoteRow /\ n.version = note[r.note].version + 1
        /\ (n.resolved <=> note[r.note].resolved)
    BY <1>1 DEF NoteRow
  <1> HIDE DEF n
  <1>3. CASE r.op = "acknowledge"
    <2>1. \/ Handled(r) = [n EXCEPT !.ack = TRUE]
          \/ Handled(r) = [n EXCEPT !.ack = TRUE, !.next = "never", !.status = "CANCELLED"]
      BY <1>3 DEF Handled, n
    <2>2. QED
      BY <1>2, <2>1 DEF NoteRow
  <1>4. CASE r.op = "assign"
    <2>1. Handled(r) = [n EXCEPT !.owner = r.owner, !.staffOnly = TRUE, !.action = TRUE,
                                 !.ack = FALSE, !.status = "PENDING", !.attempts = 0,
                                 !.next = r.when]
      BY <1>4 DEF Handled, n
    <2>2. QED
      BY <1>2, <2>1 DEF NoteRow
  <1>5. CASE r.op = "complete"
    <2>1. Handled(r) = [n EXCEPT !.resolved = TRUE, !.next = "never", !.status = "CANCELLED"]
      BY <1>5 DEF Handled, n
    <2>2. QED
      BY <1>2, <1>5, <2>1 DEF NoteRow
  <1>6. CASE r.op = "retry"
    <2>1. Handled(r) = [n EXCEPT !.attempts = 0, !.next = "due", !.status = "PENDING"]
      BY <1>6 DEF Handled, n
    <2>2. QED
      BY <1>2, <2>1 DEF NoteRow
  <1>7. QED
    BY <1>3, <1>4, <1>5, <1>6 DEF NoteOps

LEMMA HandlingReminds ==
    ASSUME IInv, RemindInv, NEW r \in Requests, r.op \in NoteOps, r.note \in Notes,
           CanHandle(r), SaveNote(r)
    PROVE  Remind
  <1>1. /\ NotesGrow /\ Notes' = Notes
        /\ \A m \in Notes \ {r.note} :
             note'[m] = note[m] \/ (r.op = "complete" /\ m \in OpenReminders(r.note))
    BY SaveNoteEffect DEF IInv
  <1>2. note[r.note].origin = Nil /\ r.note # Nil /\ ~ note[r.note].resolved
    BY NilAssumption DEF CanHandle, IInv, RowInv, NotesSound
  <1>3. \A n \in Notes : note[n] \in NoteRow /\ note[n].version \in Nat
    BY DEF IInv, TypeOK, NoteRow
  <1>4. note' = [Completed(r) EXCEPT ![r.note] = Handled(r)] /\ DOMAIN Completed(r) = Notes
    BY DEF SaveNote, Completed, Resolved, Notes
  <1>5. /\ note'[r.note] = Handled(r)
        /\ \A m \in Notes \ {r.note} : note'[m] = Completed(r)[m]
    BY <1>4
  <1>6. ASSUME r.op = "complete", NEW m \in OpenReminders(r.note)
        PROVE  note'[m].resolved
    <2>1. m \in Notes \ {r.note}
      BY <1>2 DEF OpenReminders
    <2>2. Completed(r)[m] = [note[m] EXCEPT !.resolved = TRUE]
      BY <1>6, <2>1 DEF Completed, Resolved, Notes
    <2>3. QED
      BY <1>3, <1>5, <2>1, <2>2 DEF NoteRow
  <1>7. ASSUME NEW o \in Notes, note[o].origin = Nil
        PROVE  Replans(o) /\ EndsAll(o)
    <2>1. CASE o # r.note
      <3>1. o \notin OpenReminders(r.note)
        BY <1>2, <1>7 DEF OpenReminders
      <3>2. note'[o] = note[o]
        BY <1>1, <2>1, <3>1
      <3>3. QED
        BY <1>3, <3>2 DEF Replans, EndsAll
    <2>2. CASE o = r.note
      <3>1. /\ note'[o].version = note[o].version + 1
            /\ r.op # "complete" => ~ note'[o].resolved
        BY <1>2, <1>5, <2>2, HandledPlan DEF IInv
      <3>2. Replans(o)
        BY <1>3, <3>1 DEF Replans
      <3>3. ASSUME note'[o].resolved, NEW m \in Notes, note[m].origin = o
            PROVE  note'[m].resolved
        <4>1. r.op = "complete"
          BY <3>1, <3>3
        <4>2. CASE note[m].resolved
          BY <1>1, <4>2 DEF NotesGrow
        <4>3. CASE ~ note[m].resolved
          BY <1>6, <2>2, <3>3, <4>1, <4>3 DEF OpenReminders
        <4>4. QED BY <4>2, <4>3
      <3>4. QED BY <3>2, <3>3 DEF EndsAll
    <2>3. QED BY <2>1, <2>2
  <1>8. QED
    BY <1>1, <1>7 DEF Remind

(* The job spends the plan that it found due.                              *)
LEMMA JobReminds ==
    ASSUME IInv, NEW j \in Jobs, StillDue(j), req[j].note \in Notes, SaveReminder(j)
    PROVE  Remind
  <1>0. PICK n : n = req[j].note
    OBVIOUS
  <1>1. /\ n \in Notes /\ note[n].origin = Nil /\ ~ note[n].resolved /\ note[n].next = "due"
        /\ n \in OriginIds /\ n # Nil
    BY <1>0, NilAssumption DEF StillDue, IsDue, IInv, RowInv, NotesSound
  <1>2. /\ NotesGrow /\ \A m \in Notes \ {n} : note'[m] = note[m]
        /\ \A m \in Notes' \ Notes : /\ note'[m].origin = n
                                     /\ note'[m].item = note[n].item
    BY <1>0, <1>1, SaveReminderEffect DEF IInv
  <1>3. \A m \in Notes : note[m] \in NoteRow /\ note[m].version \in Nat
    BY DEF IInv, TypeOK, NoteRow
  <1>4. /\ note'[n].version = note[n].version /\ (note'[n].resolved <=> note[n].resolved)
        /\ \A m \in Notes' \ Notes : m = ReminderId(n) /\ note'[n].next = "never"
    <2>1. CASE note' = [note EXCEPT ![n].next = "never", ![n].status = "CANCELLED"]
      BY <1>1, <1>3, <2>1 DEF NoteRow, Notes
    <2>2. CASE note' = [note EXCEPT ![n] = IF note[n].attempts + 1 >= MaxAttempts
                                           THEN Tried(n, "FAILED", "never")
                                           ELSE Tried(n, "RETRY", "later")]
      <3>1. Notes' = Notes /\ \E status, next : note'[n] = Tried(n, status, next)
        BY <1>1, <2>2 DEF Notes
      <3>2. QED
        BY <1>1, <1>3, <3>1 DEF Tried, NoteRow
    <2>3. CASE /\ ReminderId(n) \notin Notes
               /\ note' = Put([note EXCEPT ![n] = Tried(n, "CREATED", "never")],
                              ReminderId(n), Reminder(n))
      <3>1. /\ Notes' = Notes \cup {ReminderId(n)}
            /\ note'[n] = Tried(n, "CREATED", "never")
        BY <1>1, <2>3 DEF Put, Notes
      <3>2. QED
        BY <1>1, <1>3, <3>1 DEF Tried, NoteRow
    <2>4. QED
      BY <1>0, <2>1, <2>2, <2>3 DEF SaveReminder
  <1>5. ASSUME NEW o \in Notes, note[o].origin = Nil
        PROVE  Replans(o) /\ EndsAll(o)
    <2>1. note'[o].version = note[o].version /\ (note'[o].resolved <=> note[o].resolved)
      BY <1>2, <1>4
    <2>2. note'[o].next # "never" => note[o].next # "never"
      BY <1>1, <1>2
    <2>3. QED
      BY <1>3, <2>1, <2>2 DEF Replans, EndsAll
  <1>6. QED
    BY <1>1, <1>2, <1>4, <1>5 DEF Remind, Reminds

(* Nobody else plans, ends or makes a reminder.                            *)
LEMMA OtherReminds ==
    ASSUME IInv, Notify \/ ComesDue
    PROVE  Remind
  <1>1. \A m \in Notes : m \in NoteIds /\ note[m] \in NoteRow /\ note[m].version \in Nat
    BY DEF IInv, TypeOK, NoteRow
  <1>2. CASE Notify
    <2>1. PICK k \in Plain, u \in Users, b \in BOOLEAN :
            /\ <<"plain", k>> \notin Notes
            /\ note' = Put(note, <<"plain", k>>, Fresh(Nil, u, b))
      BY <1>2 DEF Notify
    <2>2. PICK id, f : id = <<"plain", k>> /\ f = Fresh(Nil, u, b)
      OBVIOUS
    <2>3. id \in NoteIds /\ id \notin Notes /\ f \in NoteRow /\ f.origin = Nil
      BY <2>1, <2>2, FreshRow DEF NoteIds, OriginIds, PlainIds
    <2>4. Notes' = Notes \cup {id} /\ note'[id] = f /\ \A m \in Notes : note'[m] = note[m]
      BY <2>1, <2>2, <2>3 DEF Put, Notes
    <2>5. \A o \in Notes : Replans(o) /\ EndsAll(o)
      BY <1>1, <2>4 DEF Replans, EndsAll
    <2>6. QED
      BY <1>1, <2>3, <2>4, <2>5 DEF Remind, Reminds, NotesGrow, SameNote
  <1>3. CASE ComesDue
    <2>1. PICK n \in Notes : /\ note[n].next = "later"
                             /\ note' = [note EXCEPT ![n].next = "due"]
      BY <1>3 DEF ComesDue
    <2>2. PICK x : x = [note[n] EXCEPT !.next = "due"]
      OBVIOUS
    <2>3. /\ x \in NoteRow /\ x.item = note[n].item /\ x.origin = note[n].origin
          /\ (x.resolved <=> note[n].resolved) /\ x.version = note[n].version
      BY <1>1, <2>2 DEF NoteRow
    <2>4. Notes' = Notes /\ note'[n] = x /\ \A m \in Notes \ {n} : note'[m] = note[m]
      BY <2>1, <2>2 DEF Notes
    <2>5. \A o \in Notes : /\ note'[o].version = note[o].version
                           /\ (note'[o].resolved <=> note[o].resolved)
                           /\ (note'[o].next # "never" => note[o].next # "never")
      BY <2>1, <2>3, <2>4
    <2>6. \A o \in Notes : Replans(o) /\ EndsAll(o)
      BY <1>1, <2>5 DEF Replans, EndsAll
    <2>7. QED
      BY <1>1, <2>3, <2>4, <2>6 DEF Remind, NotesGrow, SameNote
  <1>4. QED BY <1>2, <1>3

LEMMA RemindStep == IInv /\ RemindInv /\ [Next]_vars => RemindInv'
  <1> SUFFICES ASSUME IInv, RemindInv, [Next]_vars PROVE RemindInv'
    OBVIOUS
  <1>1. CASE note' = note
    BY <1>1 DEF RemindInv, OnePerPlan, Traced, Notes
  <1>2. ASSUME NEW s \in Txs, Commit(s) PROVE Remind
    <2>1. /\ Writing(s) /\ Own(s) /\ UnderWay(s) /\ req[s] \in Requests /\ Anchor(req[s])
      BY <1>2 DEF Commit, Writing, UnderWay, IInv, LockInv, Own, TypeOK
    <2>2. CASE phase[s] = "checked" /\ req[s].op \in InventoryOps
      BY <1>2, <2>2, StoreMeans, StockReminds
    <2>3. CASE phase[s] = "checked" /\ req[s].op \in NoteOps
      <3>1. SaveNote(req[s]) /\ CanHandle(req[s]) /\ req[s].note \in Notes
        BY <1>2, <2>1, <2>3 DEF Commit, Own, Admissible, Anchor, InventoryOps, NoteOps
      <3>2. QED
        BY <2>1, <2>3, <3>1, HandlingReminds
    <2>4. CASE phase[s] # "checked"
      <3>1. s \in Jobs /\ req[s].op = "remind" /\ StillDue(s) /\ SaveReminder(s)
        BY <1>2, <2>1, <2>4 DEF Commit, Writing, Own, RemindPhases
      <3>2. req[s].note \in Notes
        BY <2>1, <3>1 DEF Anchor
      <3>3. QED
        BY <3>1, <3>2, JobReminds
    <2>5. QED
      BY <1>2, <2>2, <2>3, <2>4 DEF Commit
  <1>3. Remind => RemindInv'
    BY RemindKeeps DEF IInv, RowInv
  <1>4. ASSUME NEW s \in Txs,
               Arrive(s) \/ Check(s) \/ Refuse(s) \/ Collide(s) \/ LockRow(s) \/ Fail(s)
               \/ BreakDeadlock(s) \/ StartRun(s) \/ Visit(s) \/ Look(s) \/ Skip(s)
        PROVE  note' = note
    <2>1. \A r : Begin(s, r) => note' = note
      BY DEF Begin, tables
    <2>2. CASE Arrive(s)
      BY <2>1, <2>2 DEF Arrive, BeginStock, BeginSettings, BeginReconcile, BeginHandling
    <2>3. CASE Visit(s)
      BY <2>1, <2>3 DEF Visit
    <2>4. CASE Collide(s) \/ Fail(s) \/ BreakDeadlock(s)
      BY <2>4 DEF Collide, Fail, BreakDeadlock, RollBack, tables
    <2>5. CASE Check(s) \/ Refuse(s) \/ LockRow(s) \/ StartRun(s) \/ Look(s) \/ Skip(s)
      BY <2>5 DEF Check, Refuse, LockRow, StartRun, Look, Skip, tables
    <2>6. QED BY <1>4, <2>2, <2>3, <2>4, <2>5
  <1>5. ASSUME CreateItem \/ Staff \/ UNCHANGED vars PROVE note' = note
    BY <1>5 DEF CreateItem, Staff, vars
  <1>6. QED
    BY <1>1, <1>2, <1>3, <1>4, <1>5, OtherReminds DEF Next, Txs

(* Reminders end with their origin and no plan makes two of them; the job  *)
(* never meets an identifier it has used before, which would stop it at    *)
(* that row for good (runNotificationReminders, updateNotification).       *)
THEOREM RemindersAlwaysFollow == Spec => []RemindersFollow
  <1>1. Init => RemindInv
    BY DEF Init, RemindInv, OnePerPlan, Notes
  <1>2. IInv /\ RemindInv => RemindersFollow
    <2> SUFFICES ASSUME IInv, RemindInv PROVE RemindersFollow
      OBVIOUS
    <2>1. ASSUME NEW m \in Notes, note[m].origin # Nil, ~ note[m].resolved
          PROVE  ~ note[note[m].origin].resolved
      BY <2>1 DEF RemindInv, Traced
    <2>2. ASSUME NEW j \in Jobs, phase[j] = "create", ReminderId(req[j].note) \in Notes
          PROVE  FALSE
      <3>0. PICK m, n : m = ReminderId(n) /\ n = req[j].note
        OBVIOUS
      <3>1. StillDue(j) /\ m \in Notes
        BY <2>2, <3>0 DEF IInv, LockInv, Own, RemindPhases, Txs
      <3>2. note[n].next = "due"
        BY <3>0, <3>1 DEF StillDue, IsDue
      <3>3. m = <<"reminder", n, note[n].version, note[n].attempts + 1>>
        BY <3>0 DEF ReminderId
      <3>4. m \notin OriginIds
        BY <3>3 DEF OriginIds, AlertIds, PlainIds
      <3>5. note[m].origin # Nil
        BY <3>1, <3>4 DEF IInv, RowInv, NotesSound
      <3>6. note[m].origin = n
        BY <3>1, <3>3, <3>5 DEF RemindInv, Traced
      <3>7. m[3] < note[n].version /\ m[3] = note[n].version /\ n \in Notes
        BY <3>1, <3>2, <3>3, <3>5, <3>6 DEF RemindInv, Traced
      <3>8. note[n].version \in Nat
        BY <3>7 DEF IInv, TypeOK, NoteRow
      <3>9. QED BY <3>7, <3>8
    <2>3. QED
      BY <2>1, <2>2 DEF RemindersFollow, RemindInv, OnePerPlan
  <1>3. QED
    BY <1>1, <1>2, RemindStep, Invariance, PTL DEF Spec

-----------------------------------------------------------------------------
(* The store.                                                              *)

Shelf == [i \in Items |-> IF item[i] = Nil THEN 0 ELSE item[i].stock]
Lending == [c \in Issues |->
              IF custody[c] = Nil THEN Nil
              ELSE [item |-> custody[c].item, holder |-> custody[c].holder,
                    out |-> Outstanding(c)]]

LEMMA InitStores == Init => TheStore!Init
  BY DEF Init, TheStore!Init

(* Another stock of one item, the loans as they were.                      *)
LEMMA Restocks ==
    ASSUME TypeOK, PiecesBounded', NEW i \in Items, UNCHANGED custody,
           item' \in [Items -> ItemRow \cup {Nil}],
           \A k \in Items \ {i} : item'[k] = item[k]
    PROVE  TheStore!Restock(i)
  <1>1. Shelf'[i] \in Nat
    BY StockAssumption DEF Shelf, PiecesBounded, Stocked
  <1>2. Shelf' = [Shelf EXCEPT ![i] = Shelf'[i]]
    BY DEF Shelf
  <1>3. Lending' = Lending
    BY DEF Lending, Outstanding
  <1>4. QED
    BY <1>1, <1>2, <1>3 DEF TheStore!Restock, Shelf, Lending

LEMMA StoreSimulates ==
    ASSUME IInv, NEW s \in Txs, MayStore(s)
    PROVE  TheStore!Next
  <1>0. PICK r : r = req[s]
    OBVIOUS
  <1>1. /\ r \in Requests /\ Anchor(r) /\ SaveStock(r) /\ r.op \in InventoryOps /\ Admissible(r)
        /\ IsNew(r)
    BY <1>0 DEF MayStore
  <1>2. /\ r.item \in Items /\ item[r.item] \in ItemRow /\ item[r.item] # Nil
        /\ item' \in [Items -> ItemRow \cup {Nil}]
        /\ item'[r.item] \in ItemRow /\ item'[r.item] # Nil
        /\ \A k \in Items \ {r.item} : item'[k] = item[k]
        /\ item'[r.item].stock = Written(r).stock
        /\ custody \in [Issues -> CustodyRow \cup {Nil}]
        /\ custody' \in [Issues -> CustodyRow \cup {Nil}]
    <2>1. /\ r.item \in Items /\ item[r.item] \in ItemRow /\ item'[r.item] \in ItemRow
          /\ item' \in [Items -> ItemRow \cup {Nil}]
          /\ \A k \in Items \ {r.item} : item'[k] = item[k]
          /\ custody' \in [Issues -> CustodyRow \cup {Nil}]
      BY <1>1, SaveStockEffect DEF IInv
    <2>2. Evaluated(Written(r)).stock = Written(r).stock
      BY <1>1, WrittenRow, EvaluatedRow DEF IInv
    <2>3. item'[r.item] = Evaluated(Written(r)) /\ custody \in [Issues -> CustodyRow \cup {Nil}]
      BY <1>1, <2>1 DEF SaveStock, IInv, TypeOK
    <2>4. item[r.item] # Nil /\ item'[r.item] # Nil
      BY <2>1, NilAssumption
    <2>5. QED
      BY <2>1, <2>2, <2>3, <2>4
  <1>3. PICK q : q = Written(r).stock
    OBVIOUS
  <1>4. Shelf' = [Shelf EXCEPT ![r.item] = q]
    BY <1>2, <1>3 DEF Shelf
  <1>5. Shelf[r.item] = item[r.item].stock
    BY <1>2 DEF Shelf
  <1>6. CASE r.op = "issue"
    <2>1. /\ r.request \in Issues /\ r.holder \in Holders /\ r.quantity \in Quantities
          /\ r.quantity \in Nat /\ item[r.item].stock >= r.quantity
          /\ custody[r.request] = Nil /\ q = item[r.item].stock - r.quantity
      BY <1>1, <1>3, <1>6, RequestShape, WrittenRow, StockAssumption
         DEF Admissible, CanIssue, IsNew, IInv
    <2>2. custody' = [custody EXCEPT ![r.request] = Loan(r)]
      BY <1>1, <1>6 DEF SaveStock, Lent
    <2>3. Loan(r) # Nil /\ Loan(r).item = r.item /\ Loan(r).holder = r.holder
          /\ Loan(r).quantity - Loan(r).returned = r.quantity
      <3>1. Loan(r) \in CustodyRow
        BY <1>1, <1>6, LoanRows DEF IInv
      <3>2. QED
        BY <2>1, <3>1, NilAssumption DEF Loan
    <2>4. Lending' = [Lending EXCEPT ![r.request] =
                        [item |-> r.item, holder |-> r.holder, out |-> r.quantity]]
      BY <1>2, <2>1, <2>2, <2>3 DEF Lending, Outstanding
    <2>5. TheStore!Lend(r.request, r.item, r.holder, r.quantity)
      BY <1>4, <1>5, <2>1, <2>4 DEF TheStore!Lend, Shelf, Lending
    <2>6. QED
      BY <1>2, <2>1, <2>5 DEF TheStore!Next
  <1>7. CASE r.op = "return"
    <2>1. /\ r.loan \in Issues /\ r.quantity \in Quantities /\ r.quantity \in Nat
          /\ custody[r.loan] \in CustodyRow /\ custody[r.loan] # Nil
          /\ custody[r.loan].item = r.item /\ Outstanding(r.loan) >= r.quantity
          /\ q = item[r.item].stock + r.quantity
      <3>1. r.loan \in Issues /\ r.quantity \in Quantities /\ r.quantity \in Nat
        BY <1>1, <1>7, RequestShape, StockAssumption
      <3>2. custody[r.loan] \in CustodyRow /\ custody[r.loan].item = r.item
        BY <1>1, <1>7 DEF Anchor
      <3>3. r.quantity <= Outstanding(r.loan)
        BY <1>1, <1>7 DEF Admissible, CanReturn
      <3>4. Outstanding(r.loan) \in Int
        BY <3>2 DEF Outstanding, CustodyRow
      <3>5. QED
        BY <1>1, <1>3, <1>7, <3>1, <3>2, <3>3, <3>4, WrittenRow, NilAssumption DEF IInv
    <2>2. custody' = [custody EXCEPT ![r.loan] = Back(r)]
      BY <1>1, <1>7 DEF SaveStock, Lent
    <2>3. /\ Back(r) # Nil /\ Back(r).item = custody[r.loan].item
          /\ Back(r).holder = custody[r.loan].holder
          /\ Back(r).quantity - Back(r).returned = Outstanding(r.loan) - r.quantity
      <3>1. /\ Back(r) \in CustodyRow /\ Back(r).item = custody[r.loan].item
            /\ Back(r).holder = custody[r.loan].holder
            /\ Back(r).quantity = custody[r.loan].quantity
            /\ Back(r).returned = custody[r.loan].returned + r.quantity
        BY <1>1, <1>7, LoanRows DEF IInv
      <3>2. QED
        BY <2>1, <3>1, NilAssumption DEF Outstanding, CustodyRow
    <2>4. PICK b : b = [item |-> custody[r.loan].item, holder |-> custody[r.loan].holder,
                        out |-> Outstanding(r.loan) - r.quantity]
      OBVIOUS
    <2>5. Lending' = [Lending EXCEPT ![r.loan] = b]
      BY <1>2, <2>1, <2>2, <2>3, <2>4 DEF Lending, Outstanding
    <2>6. /\ Lending[r.loan] = [item |-> custody[r.loan].item, holder |-> custody[r.loan].holder,
                                out |-> Outstanding(r.loan)]
          /\ Lending[r.loan].out = Outstanding(r.loan) /\ Lending[r.loan].item = r.item
          /\ b = [Lending[r.loan] EXCEPT !.out = @ - r.quantity]
      BY <2>1, <2>4 DEF Lending
    <2>7. Lending[r.loan] # Nil
      <3>1. Outstanding(r.loan) \in Int /\ custody[r.loan].item \in Items
            /\ custody[r.loan].holder \in Holders
        BY <2>1 DEF Outstanding, CustodyRow
      <3>2. QED
        BY <2>6, <3>1, NilAssumption
    <2>8. Shelf' = [Shelf EXCEPT ![Lending[r.loan].item] = @ + r.quantity]
      BY <1>4, <1>5, <2>1, <2>6
    <2>9. Lending' = [Lending EXCEPT ![r.loan].out = @ - r.quantity]
      BY <2>5, <2>6
    <2>10. TheStore!GiveBack(r.loan, r.quantity)
      BY <2>1, <2>6, <2>7, <2>8, <2>9 DEF TheStore!GiveBack, Shelf, Lending
    <2>11. QED
      BY <2>1, <2>10 DEF TheStore!Next
  <1>8. CASE r.op \notin {"issue", "return"}
    <2>1. custody' = custody
      BY <1>1, <1>8 DEF SaveStock, Lent
    <2>2. TheStore!Restock(r.item)
      BY <1>2, <2>1, StoreBounded, Restocks DEF IInv
    <2>3. QED
      BY <1>2, <2>2 DEF TheStore!Next
  <1>9. QED
    BY <1>6, <1>7, <1>8

LEMMA StepSimulates == IInv /\ IInv' /\ [Next]_vars => [TheStore!Next]_(TheStore!vars)
  <1> SUFFICES ASSUME IInv, IInv', [Next]_vars
               PROVE  TheStore!Next \/ UNCHANGED TheStore!vars
    OBVIOUS
  <1>1. CASE UNCHANGED <<item, custody>>
    <2>1. Shelf' = Shelf /\ Lending' = Lending
      BY <1>1 DEF Shelf, Lending, Outstanding
    <2>2. QED
      BY <2>1 DEF TheStore!vars, Shelf, Lending
  <1>2. CASE CreateItem
    <2>1. PICK i \in Items : \A k \in Items \ {i} : item'[k] = item[k]
      BY <1>2 DEF CreateItem, IInv, TypeOK
    <2>2. TheStore!Restock(i)
      BY <1>2, <2>1, Restocks DEF CreateItem, IInv, RowInv, TypeOK
    <2>3. QED
      BY <2>2 DEF TheStore!Next
  <1>3. ASSUME NEW s \in Txs, Commit(s) PROVE TheStore!Next \/ UNCHANGED <<item, custody>>
    <2>1. CASE phase[s] = "checked" /\ req[s].op \in InventoryOps
      BY <1>3, <2>1, StoreMeans, StoreSimulates
    <2>2. CASE ~ (phase[s] = "checked" /\ req[s].op \in InventoryOps)
      BY <1>3, <2>2 DEF Commit, SaveNote, SaveReminder
    <2>3. QED
      BY <2>1, <2>2
  <1>4. CASE ~ CreateItem /\ \A s \in Txs : ~ Commit(s)
    <2>1. ASSUME NEW s \in Sessions, Arrive(s) PROVE UNCHANGED <<item, custody>>
      <3>1. ASSUME NEW r, Begin(s, r) PROVE UNCHANGED <<item, custody>>
        BY <3>1 DEF Begin, tables
      <3>2. \E r : Begin(s, r)
        BY <2>1, Zenon DEF Arrive, BeginStock, BeginSettings, BeginReconcile, BeginHandling
      <3>3. QED
        BY <3>1, <3>2
    <2>2. ASSUME NEW s \in Sessions, Check(s) \/ Refuse(s) \/ Collide(s)
          PROVE  UNCHANGED <<item, custody>>
      BY <2>2 DEF Check, Refuse, Collide, RollBack, tables
    <2>3. ASSUME NEW j \in Jobs, StartRun(j) \/ Visit(j) \/ Look(j) \/ Skip(j)
          PROVE  UNCHANGED <<item, custody>>
      BY <2>3 DEF StartRun, Visit, Begin, Look, Skip, tables
    <2>4. ASSUME NEW s \in Txs, LockRow(s) \/ Fail(s) \/ BreakDeadlock(s)
          PROVE  UNCHANGED <<item, custody>>
      BY <2>4 DEF LockRow, Fail, BreakDeadlock, RollBack, tables
    <2>5. ASSUME Notify \/ ComesDue \/ Staff \/ UNCHANGED vars PROVE UNCHANGED <<item, custody>>
      BY <2>5 DEF Notify, ComesDue, Staff, vars
    <2>6. QED
      <3>1. UNCHANGED <<item, custody>>
        BY <1>4, <2>1, <2>2, <2>3, <2>4, <2>5 DEF Next
      <3>2. QED
        BY <1>1, <3>1
  <1>5. QED
    BY <1>1, <1>2, <1>3, <1>4

(* issueInventory, returnInventory, adjustments and new items, with their  *)
(* locks, replays and rollbacks, implement a store that lends and takes    *)
(* back one request at a time.                                             *)
THEOREM StoreImplemented == Spec => ImplementsStore
  BY InitStores, StepSimulates, Invariance, PTL DEF Spec, ImplementsStore, TheStore!Spec
=============================================================================
