------------------------------- MODULE Waves -------------------------------
(***************************************************************************)
(* Delivery waves: mutateWave (src/src/features/waves/service.ts).         *)
(* packages and delivered are abstracted to done: whether every package    *)
(* has been recorded as delivered.                                         *)
(***************************************************************************)
EXTENDS FleetTables

(* waveInput: no driver and no vehicle twice in one wave.                  *)
Participants == {pairs \in SUBSET Pairs : \A p, q \in pairs :
                     p[1] = q[1] \/ p[2] = q[2] => p = q}

AllActive(pairs) == \A p \in pairs : VehicleActive(p[1]) /\ DriverActive(p[2])

BeginWaveCreate(s) ==
    /\ Room(wave, 1, WaveIds)
    /\ \E u \in Users, pairs \in Participants, done \in BOOLEAN :
          Begin(s, [op |-> "waveCreate", user |-> u, pairs |-> pairs, done |-> done])

CanCreateWave(r) == AllActive(r.pairs)

CreateWave(r) ==
    /\ \E i \in WaveIds :
          /\ NewId(wave, WaveIds, i)
          /\ wave' = wave \cup {[id |-> i, status |-> "PLANNED", pairs |-> r.pairs,
                                 done |-> r.done, version |-> 1]}
    /\ UNCHANGED <<vehicle, driver, member, assignment, key>>

BeginWaveUpdate(s) ==
    \E u \in Users, w \in wave, pairs \in Participants, done \in BOOLEAN :
        /\ w.version < MaxVersion
        /\ Begin(s, [op |-> "waveUpdate", user |-> u, saw |-> w,
                     pairs |-> pairs, done |-> done])

BeginWaveProgress(s) ==
    \E u \in Users, w \in wave, done \in BOOLEAN :
        /\ w.version < MaxVersion
        /\ Begin(s, [op |-> "waveProgress", user |-> u, saw |-> w, done |-> done])

(* The participants of a start are not sent by the client.                 *)
BeginWaveStart(s) ==
    \E u \in Users, w \in wave :
        /\ w.version < MaxVersion
        /\ Begin(s, [op |-> "waveStart", user |-> u, saw |-> w, pairs |-> {}])

BeginWaveComplete(s) ==
    \E u \in Users, w \in wave :
        /\ w.version < MaxVersion
        /\ Begin(s, [op |-> "waveComplete", user |-> u, saw |-> w])

(* The wave row is locked first; the participants to lock are read from it.*)
LockWave(s) ==
    /\ phase[s] = "locking"
    /\ req[s].op = "waveStart"
    /\ <<"wave", req[s].saw.id>> \in todo[s]
    /\ Free(s, <<"wave", req[s].saw.id>>)
    /\ \E w \in wave :
          LET r == [req[s] EXCEPT !.pairs = w.pairs]
          IN  /\ w.id = req[s].saw.id
              /\ req' = [req EXCEPT ![s] = r]
              /\ todo' = [todo EXCEPT ![s] = Locks(r) \ {<<"wave", w.id>>}]
    /\ held' = [held EXCEPT ![s] = @ \cup {<<"wave", req[s].saw.id>>}]
    /\ UNCHANGED <<tables, phase>>

(* The row the client saw, in the status the operation needs.              *)
InStatus(r, w, status) == w.id = r.saw.id /\ w.version = r.saw.version /\ w.status = status

CanUpdateWave(r) ==
    /\ \E w \in wave : InStatus(r, w, "PLANNED")
    /\ AllActive(r.pairs)

(* Mutant: what was true when the wave was planned is trusted.             *)
CanStartWave_PlannedIsEnough(r) ==
    /\ \E w \in wave : InStatus(r, w, "PLANNED")
    /\ r.pairs # {}
    /\ \A p \in r.pairs : ~ VehicleInActiveWave(p[1]) /\ ~ DriverInActiveWave(p[2])

CanStartWave(r) ==
    /\ \E w \in wave : InStatus(r, w, "PLANNED")
    /\ r.pairs # {}
    /\ AllActive(r.pairs)
    /\ \A p \in r.pairs : ~ VehicleInActiveWave(p[1]) /\ ~ DriverInActiveWave(p[2])

CanProgressWave(r) == \E w \in wave : InStatus(r, w, "ACTIVE")

CanCompleteWave(r) == \E w \in wave : InStatus(r, w, "ACTIVE") /\ w.done

(* Mutant: a change keeps the version.                                     *)
Put_SameVersion(w, new) ==
    /\ wave' = (wave \ {w}) \cup {new}
    /\ UNCHANGED <<vehicle, driver, member, assignment, key>>

(* Every change of a wave counts its version up.                           *)
Put(w, new) ==
    /\ wave' = (wave \ {w}) \cup {[new EXCEPT !.version = @ + 1]}
    /\ UNCHANGED <<vehicle, driver, member, assignment, key>>

UpdateWave(r) ==
    \E w \in wave : w.id = r.saw.id /\ Put(w, [w EXCEPT !.pairs = r.pairs, !.done = r.done])

StartWave(r) ==
    \E w \in wave : w.id = r.saw.id /\ Put(w, [w EXCEPT !.status = "ACTIVE"])

ProgressWave(r) ==
    \E w \in wave : w.id = r.saw.id /\ Put(w, [w EXCEPT !.done = r.done])

CompleteWave(r) ==
    \E w \in wave : w.id = r.saw.id /\ Put(w, [w EXCEPT !.status = "COMPLETED"])
=============================================================================
