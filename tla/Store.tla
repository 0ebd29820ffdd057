-------------------------------- MODULE Store --------------------------------
(***************************************************************************)
(* What the inventory promises, without transactions: pieces are on the    *)
(* shelf or on loan, each request lends once, nothing is given back twice. *)
(***************************************************************************)
EXTENDS Integers

CONSTANTS Items, Holders, Issues, Quantities, Nil

VARIABLES
    shelf,      \* pieces of each item in the store
    loan        \* what each request lent: item, holder, pieces still out

vars == <<shelf, loan>>

Init == shelf = [i \in Items |-> 0] /\ loan = [c \in Issues |-> Nil]

(* A delivery, a withdrawal or a correction.                               *)
Restock(i) ==
    /\ shelf'[i] \in Nat
    /\ shelf' = [shelf EXCEPT ![i] = shelf'[i]]
    /\ UNCHANGED loan

Lend(c, i, h, q) ==
    /\ loan[c] = Nil
    /\ shelf[i] >= q
    /\ shelf' = [shelf EXCEPT ![i] = @ - q]
    /\ loan' = [loan EXCEPT ![c] = [item |-> i, holder |-> h, out |-> q]]

GiveBack(c, q) ==
    /\ loan[c] # Nil
    /\ loan[c].out >= q
    /\ shelf' = [shelf EXCEPT ![loan[c].item] = @ + q]
    /\ loan' = [loan EXCEPT ![c].out = @ - q]

Next ==
    \/ \E i \in Items : Restock(i)
    \/ \E c \in Issues, i \in Items, h \in Holders, q \in Quantities : Lend(c, i, h, q)
    \/ \E c \in Issues, q \in Quantities : GiveBack(c, q)

Spec == Init /\ [][Next]_vars
=============================================================================
