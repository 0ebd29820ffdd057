------------------------------ MODULE MCFleet ------------------------------
(* Instances of Fleet for TLC; each .cfg picks the operations it runs.      *)
EXTENDS FleetInvariant, TLC

CONSTANTS s1, s2, v1, v2, v3, d1, d2, u1, u2, a1, a2, k1, k2, w1, w2

Order       == [x \in Vehicles \cup Drivers |-> IF x \in {v1, d1} THEN 1
                                              ELSE IF x = v3 THEN 3 ELSE 2]
NoAccounts  == [d \in Drivers |-> Nil]
OneAccount  == [d \in Drivers |-> IF d = d1 THEN u2 ELSE Nil]

CustodyOps  == {"assign", "close", "keyCreate", "keyTransfer", "keyRetire",
                "waveCreate", "waveUpdate", "waveStart", "waveProgress",
                "waveComplete", "driverArchive", "driverReactivate",
                "vehicleArchive", "vehicleReactivate"}
TourOps     == {"assign", "waveCreate", "waveStart"}
KeyRunOps   == {"keyCreate", "keyTransfer", "keyRetire", "keyReplace",
                "vehicleUpdate", "driverArchive"}
ConflictOps == TourOps \cup KeyRunOps
AccountOps  == {"account", "assign", "driverUpdate", "driverArchive",
                "driverReactivate"}

SessionSymmetry  == Permutations({s1, s2})
ConflictSymmetry == SessionSymmetry \cup Permutations({a1, a2})
                      \cup Permutations({w1, w2}) \cup Permutations({k1, k2})

(* Either tours and assignments of v1 and v2, or the keys of v3, which is  *)
(* registered first.                                                       *)
Asked   == {req[s] : s \in {t \in Sessions : phase[t] # "idle"}}
OnTour  == assignment # {} \/ wave # {} \/ \E r \in Asked : r.op \in TourOps
OnKeys  == \/ vehicle[v3].status # "ABSENT" \/ \E d \in Drivers : ~ DriverActive(d)
           \/ \E r \in Asked : r.op \in KeyRunOps
OnlyNew(r) == CASE r.op \in {"keyCreate", "vehicleUpdate"} -> r.vehicle = v3
                [] OTHER -> TRUE
OneSubject == ~ (OnTour /\ OnKeys) /\ \A r \in Asked : OnlyNew(r)
=============================================================================
