----------------------------- MODULE MCWorkTime -----------------------------
(* Instances of WorkTime for TLC; each .cfg picks the operations it runs.   *)
EXTENDS WorkTime, TLC

CONSTANTS s1, s2, d1, d2, a1, a2, e1, e2, c1, c2, r1, r2, r3, r4

Order == [d \in Drivers |-> IF d = d1 THEN 1 ELSE 2]

X(a, b, p) == [start |-> a, end |-> b, break |-> p]
SheetProposals   == {X(0, 1, 0), X(0, 2, 1), X(1, Nil, 0)}
CorrectProposals == {X(0, 2, 0), X(2, 3, 0)}

SheetOps      == AllOps
CorrectionOps == {"create", "update", "approve", "request", "decide", "start", "finish"}

SessionSymmetry    == Permutations({s1, s2})
SheetSymmetry      == SessionSymmetry \cup Permutations({e1, e2}) \cup Permutations({r1, r2, r3, r4})
CorrectionSymmetry == SessionSymmetry \cup Permutations({c1, c2}) \cup Permutations({e1, e2})

(* Either two corrections of one entry, or two entries and the clock.      *)
Asked    == {req[s] : s \in {t \in Sessions : phase[t] # "idle"}}
Entries  == {i \in EntryIds : Exists(i)}
OnClock  == event # {} \/ \E r \in Asked : r.op \in {"start", "finish"}
OneSubject ==
    OnClock \/ Cardinality(Entries) > 1
      => Cardinality(correction) < 2 /\ \A i \in Entries : entry[i].version < 2

(* Either one shift of the clock with all its commands, while access comes *)
(* and goes, or three commands that begin and end shifts, beside the       *)
(* office and corrections, which change a shift twice.                     *)
Clocked == \/ \E v \in event : v.action \in {"pause", "resume"}
           \/ \E r \in Asked : r.op \in {"pause", "resume"}
           \/ \E d \in Drivers : ~ (driverActive[d] /\ member[d].active /\ member[d].role = "DRIVER")
Filed   == \/ correction # {} \/ Cardinality(Entries) > 1
           \/ \E i \in Entries : entry[i].clock = "NONE"
           \/ \E r \in Asked : r.op \notin ClockOps
ClockOrOffice ==
    IF Clocked THEN ~ Filed
    ELSE /\ Filed => \A r \in Asked : r.op \in ClockOps => r.version < 3
         /\ Filed => \A i \in Entries : entry[i].version < 3
         /\ Filed => \E q \in RequestIds : \A r \in Asked \cup event : "rid" \in DOMAIN r => r.rid # q
=============================================================================
