------------------------------ MODULE MCAccess ------------------------------
(* An instance of Access for TLC: a super-administrator, an administrator  *)
(* and places for the accounts to come.                                    *)
EXTENDS Access, TLC

CONSTANTS u1, u2, u3, u4, d1, d2, e1, e2, e3, i1, i2, t1, t2, s1, s2

Roles1 == [u \in Users |-> IF u = u1 THEN "SUPER_ADMIN" ELSE IF u = u2 THEN "ADMIN" ELSE Nil]
Emails1 == [d \in Drivers |-> IF d = d1 THEN e1 ELSE e2]
SomeOffers == {[role |-> "ADMIN", driver |-> Nil, email |-> e1],
               [role |-> "DRIVER", driver |-> d1, email |-> Nil],
               [role |-> "DRIVER", driver |-> d2, email |-> Nil]}
SomeRights == {[role |-> "ADMIN", active |-> FALSE], [role |-> "DISPATCHER", active |-> TRUE],
               [role |-> "DRIVER", active |-> TRUE]}

(* With the first driver only: besides an invitation and its mails one     *)
(* thing happens - an account or the driver changes, an invitation expires *)
(* or there is another one; once one is closed requests come one by one.   *)
Made == {i \in Invitations : invitation[i] # Nil}
Busy == {s \in Sessions : phase[s] # "idle"}
Changes == {u \in Users : Exists(u) /\ member[u].version > 1}
           \cup {d \in Drivers : ~ driver[d].active \/ driver[d].email # SeedEmail[d]}
           \cup {i \in Made : \/ invitation[i].age = "expired"
                             \/ invitation[i].email # e1}
Closed == \E i \in Made : ~ Pending(i)
OneDriver ==
    /\ driver[d2] = [active |-> TRUE, email |-> SeedEmail[d2], account |-> Nil]
    /\ \A i \in Made : invitation[i].driver # d2
    /\ \A s \in Busy : req[s].op = "invite" => req[s].driver # d2
Quiet ==
    /\ OneDriver
    /\ Cardinality(Changes) + Cardinality(Made) < 3
    /\ Closed => Cardinality(Busy) < 2

(* With both drivers: two accounts are made, invitations and acceptances   *)
(* run at once and the addresses of drivers change and change back.        *)
Enrolling ==
    /\ \A u \in Users : Exists(u) => member[u].version = 1
    /\ \A d \in Drivers : driver[d].active
    /\ \A i \in Made : invitation[i].age = "new" /\ invitation[i].by = u1
    /\ \A t \in Tokens : mail[t].state \in {"unused", "sending"}
    /\ \A s \in Busy : \/ req[s].op = "accept"
                       \/ req[s].op = "invite" /\ req[s].user = u1

Calm == Quiet \/ Enrolling
Symmetric == Permutations({s1, s2}) \cup Permutations({t1, t2}) \cup Permutations({i1, i2})
             \cup Permutations({u3, u4})
=============================================================================
