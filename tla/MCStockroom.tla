----------------------------- MODULE MCStockroom -----------------------------
(* Instances of Stockroom for TLC; each .cfg picks the operations it runs.  *)
EXTENDS Stockroom, TLC

CONSTANTS i1, i2, h1, h2, u1, u2, c1, c2, p1, s1, s2, j1, j2


CustodyOps  == {"issue", "return", "adjust", "configure", "remind",
                "acknowledge", "complete", "retry", "assign"}
AlertOps    == {"adjust", "update", "configure", "reconcile", "remind",
                "acknowledge", "complete", "retry", "assign"}

(* Bound: loans are examined on items nobody watches.  A message, or an    *)
(* item with a threshold and the alert it raises, meets both jobs and one  *)
(* session, or two sessions while no job is under way and no reminder yet. *)
Active(T) == {s \in T : phase[s] # "idle"}
Doing(ops) == \E s \in Active(Sessions) : req[s].op \in ops
Watched == \E i \in Stocked : item[i].min > 0 \/ item[i].recipient # Nil

OneTopic ==
    /\ Stocked = {} \/ Notes \cap PlainIds = {}
    /\ Notes # {} => \/ Cardinality(Active(Sessions)) < 2
                     \/ \A j \in Jobs : phase[j] = "idle" /\ left[j] = {} /\ Notes \subseteq OriginIds
    /\ Stocked # {} => ~ Doing(NoteOps)
    /\ Doing({"configure"}) => Cardinality(Active(Txs)) = 1 /\ Notes = {}
    /\ Watched => /\ Issued = {} /\ ~ Doing({"issue", "return"})
                  /\ \A i \in Stocked : item[i].version < 3 /\ item[i].min < 2

(* Bound: two items and two holders are examined for issues of a piece     *)
(* under one identifier.                                                   *)
OneIdentifier ==
    /\ active[h2]
    /\ Cardinality(Stocked) = 1 =>
        \A s \in Sessions : phase[s] # "idle" /\ req[s].op = "issue" => req[s].holder = h1
    /\ Cardinality(Stocked) = 2 =>
        /\ \A u \in Users : rank[u] = "staff"
        /\ \A h \in Holders : active[h]
        /\ \A i \in Items : item[i].min = 0 /\ item[i].stock < 2 /\ item[i].episode = 0
        /\ \A i \in Items : item[i].version = 1
        /\ \A c \in Issued : custody[c].quantity = 1 /\ custody[c].returned = 0
        /\ \A s \in Sessions : phase[s] # "idle" => req[s].op = "issue" /\ req[s].quantity = 1

Symmetric == Permutations({i1, i2}) \cup Permutations({s1, s2})
             \cup Permutations({c1, c2}) \cup Permutations({j1, j2})
=============================================================================
