---------------------------- MODULE ScoreSafety ----------------------------
(***************************************************************************)
(* What holds of ScoreImports for any number of sessions and imports.      *)
(*                                                                         *)
(* A snapshot differs from the imports in rows marked dirty only; a commit *)
(* that gets through updates the rows it decided about, so none of them    *)
(* was dirty and the decision is about the imports as they are.            *)
(***************************************************************************)
EXTENDS ScoreImports, FiniteOrder

Previewing(s) == phase[s] \in {"stored", "locked", "looked"} /\ req[s].op = "preview"

(* What a session has in each phase.                                       *)
Shape(s) ==
    /\ phase[s] # "idle" => req[s] \in Request
    /\ phase[s] \in {"stored", "looked", "undo"} => req[s].op = "preview"
    /\ phase[s] = "begun" => req[s].op # "preview"
    /\ phase[s] \in {"locked", "looked"} => week = s
    /\ phase[s] = "looked" => req[s].seen = Current(import)

(* A snapshot and the imports differ in dirty rows only.                   *)
Honest(s) ==
    Reading(s) =>
        /\ snap[s] \in [Imports -> ImportRow]
        /\ \A i \in Imports \ dirty[s] : snap[s][i] = import[i]

(* Previews under way are about imports of their own.                      *)
Fresh(s) ==
    Previewing(s) =>
        /\ ~ Exists(req[s].id)
        /\ \A t \in Sessions \ {s} : Previewing(t) => req[t].id # req[s].id

IInv ==
    /\ TypeOK
    /\ OneCurrent(import)
    /\ \A s \in Sessions : Shape(s) /\ Honest(s) /\ Fresh(s)

-----------------------------------------------------------------------------
LEMMA RequestShape ==
    ASSUME NEW r \in Request
    PROVE  /\ r.id \in Imports
           /\ r.op \in {"preview", "commit", "revert"}
           /\ r.op = "preview" => r.content \in Contents /\ r.seen \in Imports \cup {Nil}
           /\ r.op = "commit" => r.confirm \in BOOLEAN
  BY DEF Request

LEMMA CurrentMeans ==
    ASSUME NEW t, OneCurrent(t)
    PROVE  /\ Current(t) \in Imports \cup {Nil}
           /\ \A i \in Imports : t[i].status = "COMMITTED" <=> Current(t) = i
  <1>1. CASE \E i \in Imports : t[i].status = "COMMITTED"
    <2>1. Current(t) \in Imports /\ t[Current(t)].status = "COMMITTED"
      BY <1>1 DEF Current
    <2>2. QED
      BY <2>1 DEF OneCurrent
  <1>2. CASE ~ \E i \in Imports : t[i].status = "COMMITTED"
    <2>1. Current(t) = Nil
      BY <1>2 DEF Current
    <2>2. QED
      BY <1>2, <2>1, ScoreAssumption
  <1>3. QED
    BY <1>1, <1>2

(* A step of session s that changes the rows W of imports at most.         *)
StepOf(s, W) ==
    /\ W \subseteq Imports /\ \A i \in Imports \ W : import'[i] = import[i]
    /\ Current(import') = Current(import) \/ week = s
    /\ \A t \in Sessions \ {s} :
          /\ phase'[t] = phase[t] /\ req'[t] = req[t] /\ snap'[t] = snap[t]
          /\ Reading(t) => dirty[t] \cup W \subseteq dirty'[t]
          /\ week = t => week' = t
          /\ Previewing(t) => req[t].id \notin W

LEMMA StepKeeps ==
    ASSUME IInv, TypeOK', OneCurrent(import'), NEW s \in Sessions, NEW W, StepOf(s, W),
           Shape(s)', Honest(s)', Fresh(s)'
    PROVE  IInv'
  <1> USE DEF StepOf
  <1>1. SUFFICES ASSUME NEW t \in Sessions \ {s}
                 PROVE  Shape(t)' /\ Honest(t)' /\ Fresh(t)'
    BY DEF IInv
  <1>2. Shape(t) /\ Honest(t) /\ Fresh(t)
    BY <1>1 DEF IInv
  <1>3. Shape(t)'
    BY <1>1, <1>2, ScoreAssumption DEF Shape
  <1>4. Honest(t)'
    <2>1. SUFFICES ASSUME Reading(t)' PROVE Honest(t)'
      BY DEF Honest
    <2>2. Reading(t)
      BY <1>1, <2>1 DEF Reading
    <2>3. snap'[t] = snap[t] /\ snap[t] \in [Imports -> ImportRow]
          /\ \A i \in Imports \ dirty[t] : snap[t][i] = import[i]
      BY <1>1, <1>2, <2>2 DEF Honest
    <2>4. dirty[t] \cup W \subseteq dirty'[t]
      BY <1>1, <2>2
    <2>5. QED
      BY <2>3, <2>4 DEF Honest
  <1>5. Fresh(t)'
    <2>1. SUFFICES ASSUME Previewing(t)'
                   PROVE  /\ ~ Exists(req[t].id)'
                          /\ \A u \in Sessions \ {t} : Previewing(u)' => req'[u].id # req'[t].id
      BY DEF Fresh
    <2>2. Previewing(t) /\ req'[t] = req[t] /\ req[t].id \notin W /\ ~ Exists(req[t].id)
      BY <1>1, <1>2, <2>1 DEF Previewing, Fresh
    <2>3. req[t].id \in Imports
      BY <1>1, <1>2, <2>2, RequestShape DEF Shape, Previewing
    <2>4. ~ Exists(req[t].id)'
      <3>1. import'[req[t].id] = import[req[t].id]
        BY <2>2, <2>3
      <3>2. QED
        BY <2>2, <3>1 DEF Exists
    <2>5. ASSUME NEW u \in Sessions \ {t}, Previewing(u)' PROVE req'[u].id # req'[t].id
      <3>1. CASE u = s
        BY <1>1, <2>1, <2>5, <3>1 DEF Fresh
      <3>2. CASE u # s
        <4>1. Previewing(u) /\ req'[u] = req[u]
          BY <2>5, <3>2 DEF Previewing
        <4>2. QED
          BY <1>2, <2>2, <2>5, <4>1 DEF Fresh
      <3>3. QED
        BY <3>1, <3>2
    <2>6. QED
      BY <2>4, <2>5
  <1>6. QED
    BY <1>3, <1>4, <1>5

-----------------------------------------------------------------------------
(* One lemma for each action.                                              *)

(* A session that ends or gives up leaves the imports alone.               *)
LEMMA GiveUpKeeps ==
    ASSUME IInv, NEW s \in Sessions, UNCHANGED import, bytes' \subseteq Imports,
           dirty' \in [Sessions -> SUBSET Imports],
           \A t \in Sessions \ {s} : dirty'[t] = dirty[t],
           End(s) \/ (phase[s] # "idle" /\ req[s].op = "preview" /\ Undo(s))
    PROVE  IInv'
  <1>1. TypeOK'
    BY DEF IInv, TypeOK, End, Undo
  <1>2. phase'[s] \in {"idle", "undo"} /\ (phase'[s] = "undo" =>
           req'[s] = req[s] /\ req[s] \in Request /\ req[s].op = "preview")
    BY DEF IInv, TypeOK, End, Undo, Shape
  <1>3. Shape(s)' /\ Honest(s)' /\ Fresh(s)'
    BY <1>2 DEF Shape, Honest, Fresh, Reading, Previewing
  <1>4. \A t \in Sessions \ {s} :
           /\ phase'[t] = phase[t] /\ req'[t] = req[t] /\ snap'[t] = snap[t]
           /\ week = t => week' = t
    BY DEF End, Undo, IInv, TypeOK
  <1>5. OneCurrent(import') /\ StepOf(s, {})
    BY <1>4 DEF IInv, StepOf
  <1>6. QED
    BY <1>1, <1>3, <1>5, StepKeeps

LEMMA UploadKeeps == ASSUME IInv, NEW s \in Sessions, Upload(s) PROVE IInv'
  <1>1. PICK i \in Imports, c \in Contents :
          /\ ~ Exists(i) /\ i \notin bytes
          /\ \A t \in Sessions : phase[t] # "idle" => req[t].id # i
          /\ bytes' = bytes \cup {i}
          /\ req' = [req EXCEPT ![s] = [op |-> "preview", id |-> i, content |-> c,
                                        seen |-> Nil]]
    BY DEF Upload
  <1>2. PICK r : r = [op |-> "preview", id |-> i, content |-> c, seen |-> Nil]
    OBVIOUS
  <1>3. r \in Request /\ r.id = i /\ r.op = "preview"
    BY <1>2 DEF Request
  <1>4. /\ req' = [req EXCEPT ![s] = r] /\ phase' = [phase EXCEPT ![s] = "stored"]
        /\ UNCHANGED <<import, snap, dirty, week>>
    BY <1>1, <1>2 DEF Upload
  <1>5. TypeOK' /\ req'[s] = r /\ phase'[s] = "stored"
    BY <1>1, <1>3, <1>4 DEF IInv, TypeOK
  <1>6. Shape(s)' /\ Honest(s)'
    BY <1>3, <1>5 DEF Shape, Honest, Reading
  <1>7. \A t \in Sessions \ {s} : phase'[t] = phase[t] /\ req'[t] = req[t]
    BY <1>4 DEF IInv, TypeOK
  <1>8. Fresh(s)'
    BY <1>1, <1>3, <1>4, <1>5, <1>7 DEF Fresh, Exists, Previewing
  <1>9. OneCurrent(import') /\ StepOf(s, {})
    BY <1>4, <1>7 DEF IInv, StepOf
  <1>10. QED
    BY <1>5, <1>6, <1>8, <1>9, StepKeeps

LEMMA BeginKeeps == ASSUME IInv, NEW s \in Sessions, BeginChange(s) PROVE IInv'
  <1>1. PICK i \in Imports : \E r \in {[op |-> "commit", id |-> i, confirm |-> TRUE],
                                       [op |-> "commit", id |-> i, confirm |-> FALSE],
                                       [op |-> "revert", id |-> i]} :
          Exists(i) /\ req' = [req EXCEPT ![s] = r]
    BY DEF BeginChange
  <1>2. PICK r : /\ r \in {[op |-> "commit", id |-> i, confirm |-> TRUE],
                           [op |-> "commit", id |-> i, confirm |-> FALSE],
                           [op |-> "revert", id |-> i]}
                 /\ req' = [req EXCEPT ![s] = r]
    BY <1>1
  <1>3. r \in Request /\ r.op \in {"commit", "revert"} /\ r.id = i
    <2>1. CASE r = [op |-> "commit", id |-> i, confirm |-> TRUE]
      BY <2>1, Zenon DEF Request
    <2>2. CASE r = [op |-> "commit", id |-> i, confirm |-> FALSE]
      BY <2>2, Zenon DEF Request
    <2>3. CASE r = [op |-> "revert", id |-> i]
      BY <2>3 DEF Request
    <2>4. QED
      BY <1>2, <2>1, <2>2, <2>3
  <1>4. /\ phase' = [phase EXCEPT ![s] = "begun"]
        /\ snap' = [snap EXCEPT ![s] = import]
        /\ dirty' = [dirty EXCEPT ![s] = {}]
        /\ UNCHANGED <<import, bytes, week>>
    BY DEF BeginChange, store
  <1>5. /\ TypeOK' /\ req'[s] = r /\ phase'[s] = "begun" /\ snap'[s] = import
        /\ \A t \in Sessions \ {s} : /\ phase'[t] = phase[t] /\ req'[t] = req[t]
                                     /\ snap'[t] = snap[t] /\ dirty'[t] = dirty[t]
    BY <1>2, <1>3, <1>4 DEF IInv, TypeOK
  <1>6. Shape(s)' /\ Honest(s)' /\ Fresh(s)'
    BY <1>3, <1>4, <1>5 DEF Shape, Honest, Fresh, Previewing, IInv, TypeOK
  <1>7. OneCurrent(import') /\ StepOf(s, {})
    BY <1>4, <1>5 DEF IInv, StepOf
  <1>8. QED
    BY <1>5, <1>6, <1>7, StepKeeps

LEMMA LockKeeps == ASSUME IInv, NEW s \in Sessions, Lock(s) PROVE IInv'
  <1>1. /\ week = Nil /\ week' = s /\ phase' = [phase EXCEPT ![s] = "locked"]
        /\ phase[s] \in {"stored", "begun"}
        /\ UNCHANGED <<import, bytes, req, snap, dirty>>
    BY DEF Lock, store
  <1>2. /\ TypeOK' /\ phase'[s] = "locked"
        /\ \A t \in Sessions \ {s} : phase'[t] = phase[t] /\ week # t
    BY <1>1, ScoreAssumption DEF IInv, TypeOK
  <1>3. Shape(s) /\ Honest(s) /\ Fresh(s)
    BY DEF IInv
  <1>4. Shape(s)' /\ Honest(s)'
    BY <1>1, <1>2, <1>3 DEF Shape, Honest, Reading
  <1>5. Fresh(s)'
    <2>1. Previewing(s)' => Previewing(s)
      BY <1>1, <1>3 DEF Previewing, Shape, IInv, TypeOK
    <2>2. \A t \in Sessions \ {s} : Previewing(t)' = Previewing(t)
      BY <1>1, <1>2 DEF Previewing
    <2>3. QED
      BY <1>1, <1>3, <2>1, <2>2 DEF Fresh, Exists
  <1>6. OneCurrent(import') /\ StepOf(s, {})
    BY <1>1, <1>2 DEF IInv, StepOf
  <1>7. QED
    BY <1>2, <1>4, <1>5, <1>6, StepKeeps

LEMMA LookKeeps == ASSUME IInv, NEW s \in Sessions, Look(s) PROVE IInv'
  <1>1. PICK c : c = Current(import)
    OBVIOUS
  <1>2. /\ phase[s] = "locked" /\ req[s].op = "preview"
        /\ req' = [req EXCEPT ![s] = [req[s] EXCEPT !.seen = c]]
        /\ phase' = [phase EXCEPT ![s] = "looked"]
        /\ UNCHANGED <<import, bytes, snap, dirty, week>>
    BY <1>1 DEF Look, store, IInv, TypeOK
  <1>3. Shape(s) /\ Fresh(s) /\ req[s] \in Request /\ c \in Imports \cup {Nil}
    BY <1>1, <1>2, CurrentMeans DEF IInv, Shape
  <1>4. PICK r : r = [req[s] EXCEPT !.seen = c]
    OBVIOUS
  <1>5. r \in Request /\ r.op = "preview" /\ r.id = req[s].id /\ r.seen = c
    BY <1>2, <1>3, <1>4 DEF Request
  <1>6. /\ TypeOK' /\ req'[s] = r /\ phase'[s] = "looked"
        /\ \A t \in Sessions \ {s} : phase'[t] = phase[t] /\ req'[t] = req[t]
    BY <1>2, <1>4, <1>5 DEF IInv, TypeOK
  <1>7. Shape(s)' /\ Honest(s)'
    BY <1>1, <1>2, <1>3, <1>5, <1>6 DEF Shape, Honest, Reading
  <1>8. Fresh(s)'
    <2>1. \A t \in Sessions \ {s} : Previewing(t)' = Previewing(t)
      BY <1>6 DEF Previewing
    <2>2. Previewing(s) /\ r.id = req[s].id
      BY <1>2, <1>5 DEF Previewing
    <2>3. QED
      BY <1>2, <1>3, <1>6, <2>1, <2>2 DEF Fresh, Exists
  <1>9. OneCurrent(import') /\ StepOf(s, {})
    BY <1>2, <1>6 DEF IInv, StepOf
  <1>10. QED
    BY <1>6, <1>7, <1>8, <1>9, StepKeeps

(* Record and Change end the session and change imports.                   *)
LEMMA ChangedRows ==
    ASSUME IInv, NEW s \in Sessions, phase'[s] \in {"idle", "undo"}, NEW W, Changed(W),
           W \subseteq Imports,
           \A t \in Sessions \ {s} : phase'[t] = phase[t] /\ req'[t] = req[t]
    PROVE  /\ dirty' \in [Sessions -> SUBSET Imports]
           /\ \A t \in Sessions \ {s} : Reading(t) => dirty[t] \cup W \subseteq dirty'[t]
  <1>1. \A t \in Sessions \ {s} : Reading(t)' = Reading(t)
    BY DEF Reading
  <1>2. QED
    BY <1>1 DEF Changed, IInv, TypeOK

LEMMA RecordKeeps == ASSUME IInv, NEW s \in Sessions, Record(s) PROVE IInv'
  <1>1. PICK r : r = req[s]
    OBVIOUS
  <1>2. /\ phase[s] = "looked"
        /\ import' = [import EXCEPT ![r.id] = [content |-> r.content, status |-> "DRAFT",
                                               previous |-> r.seen]]
        /\ End(s) \/ Undo(s)
        /\ Changed({r.id}) /\ UNCHANGED bytes
    BY <1>1 DEF Record
  <1>3. PICK row : row = [content |-> r.content, status |-> "DRAFT", previous |-> r.seen]
    OBVIOUS
  <1>4. /\ Shape(s) /\ Fresh(s) /\ r \in Request /\ r.op = "preview" /\ r.id \in Imports
        /\ row \in ImportRow /\ row.status = "DRAFT" /\ week = s /\ ~ Exists(r.id)
    BY <1>1, <1>2, <1>3, RequestShape DEF IInv, Shape, Fresh, Previewing, ImportRow
  <1>5. /\ import' = [import EXCEPT ![r.id] = row] /\ import' \in [Imports -> ImportRow]
        /\ import'[r.id] = row
        /\ \A i \in Imports \ {r.id} : import'[i] = import[i]
    BY <1>2, <1>3, <1>4 DEF IInv, TypeOK
  <1>6. OneCurrent(import') /\ Current(import') = Current(import)
    <2>1. \A i \in Imports : import'[i].status = "COMMITTED" <=> import[i].status = "COMMITTED"
      BY <1>4, <1>5 DEF Exists
    <2>2. OneCurrent(import')
      BY <2>1 DEF IInv, OneCurrent
    <2>3. QED
      BY <2>1, <2>2, CurrentMeans DEF IInv
  <1>7. /\ phase'[s] \in {"idle", "undo"} /\ (phase'[s] = "undo" => req'[s] = r)
        /\ \A t \in Sessions \ {s} :
              /\ phase'[t] = phase[t] /\ req'[t] = req[t] /\ snap'[t] = snap[t]
              /\ week = t => week' = t
    BY <1>1, <1>2 DEF End, Undo, IInv, TypeOK
  <1>8. /\ dirty' \in [Sessions -> SUBSET Imports]
        /\ \A t \in Sessions \ {s} : Reading(t) => dirty[t] \cup {r.id} \subseteq dirty'[t]
    BY <1>2, <1>4, <1>7, ChangedRows
  <1>9. TypeOK'
    BY <1>2, <1>5, <1>8 DEF IInv, TypeOK, End, Undo
  <1>10. Shape(s)' /\ Honest(s)' /\ Fresh(s)'
    BY <1>4, <1>7 DEF Shape, Honest, Fresh, Reading, Previewing
  <1>11. \A t \in Sessions \ {s} : Previewing(t) => req[t].id \notin {r.id}
    BY <1>1, <1>2, <1>4 DEF Fresh, Previewing
  <1>12. StepOf(s, {r.id})
    BY <1>4, <1>5, <1>6, <1>7, <1>8, <1>11 DEF StepOf
  <1>13. QED
    BY <1>6, <1>9, <1>10, <1>12, StepKeeps

(* What a commit or a revert that gets through has seen.                   *)
Rows(r) == {r.id, import[r.id].previous} \ {Nil}

LEMMA SeenRows ==
    ASSUME IInv, NEW s \in Sessions, Reading(s), Serializes(s)
    PROVE  /\ req[s] \in Request /\ req[s].id \in Imports
           /\ \A i \in Touched(snap[s], req[s]) : i \in Imports /\ snap[s][i] = import[i]
           /\ Touched(snap[s], req[s]) = Rows(req[s])
           /\ snap[s][req[s].id] = import[req[s].id]
  <1>1. /\ Shape(s) /\ Honest(s) /\ req[s] \in Request /\ req[s].id \in Imports
    BY RequestShape DEF IInv, Shape, Reading
  <1>2. snap[s] \in [Imports -> ImportRow] /\ snap[s][req[s].id].previous \in Imports \cup {Nil}
    BY <1>1 DEF Honest, ImportRow
  <1>3. \A i \in Touched(snap[s], req[s]) : i \in Imports /\ i \notin dirty[s]
    BY <1>1, <1>2 DEF Touched, Serializes
  <1>4. \A i \in Touched(snap[s], req[s]) : snap[s][i] = import[i]
    BY <1>1, <1>3 DEF Honest
  <1>5. req[s].id \in Touched(snap[s], req[s])
    BY <1>1, ScoreAssumption DEF Touched
  <1>6. QED
    BY <1>1, <1>3, <1>4, <1>5 DEF Touched, Rows

LEMMA CommitSeen ==
    ASSUME IInv, NEW s \in Sessions, Reading(s), Serializes(s), req[s].op = "commit",
           CanCommit(snap[s], req[s]), OneCurrent(Committed(req[s]))
    PROVE  CanCommit(import, req[s])
  <1>1. PICK r, t : r = req[s] /\ t = snap[s]
    OBVIOUS
  <1>2. /\ r.id \in Imports /\ t[r.id] = import[r.id]
        /\ \A i \in Touched(t, r) : i \in Imports /\ t[i] = import[i]
        /\ t[r.id].status = "DRAFT" /\ t[r.id].content \in Valid
        /\ Current(t) = t[r.id].previous
        /\ Current(t) # Nil => r.confirm /\ t[Current(t)].content # t[r.id].content
        /\ OneCurrent(import) /\ import \in [Imports -> ImportRow]
    BY <1>1, SeenRows DEF CanCommit, IInv, TypeOK
  <1>3. PICK c : c = Current(t)
    OBVIOUS
  <1>4. CASE c # Nil
    <2>1. c \in Touched(t, r) /\ c \in Imports /\ t[c] = import[c]
      BY <1>2, <1>3, <1>4 DEF Touched
    <2>2. t[c].status = "COMMITTED"
      BY <1>3, <1>4 DEF Current
    <2>3. Current(import) = c
      BY <1>2, <2>1, <2>2, CurrentMeans
    <2>4. QED
      BY <1>1, <1>2, <1>3, <2>1, <2>3 DEF CanCommit
  <1>5. CASE c = Nil
    <2>1. Committed(r)[r.id].status = "COMMITTED"
      BY <1>2 DEF Committed, ImportRow
    <2>2. ASSUME NEW i \in Imports, import[i].status = "COMMITTED" PROVE FALSE
      <3>1. i # r.id /\ i # import[r.id].previous
        BY <1>2, <1>3, <1>5, <2>2, ScoreAssumption
      <3>2. Committed(r)[i] = import[i]
        BY <3>1 DEF Committed
      <3>3. QED
        BY <1>1, <1>2, <2>1, <2>2, <3>1, <3>2 DEF OneCurrent
    <2>3. Current(import) = Nil
      BY <2>2 DEF Current
    <2>4. QED
      BY <1>1, <1>2, <1>3, <1>5, <2>3 DEF CanCommit
  <1>6. QED
    BY <1>4, <1>5

LEMMA RevertSeen ==
    ASSUME IInv, NEW s \in Sessions, Reading(s), Serializes(s), req[s].op = "revert",
           CanRevert(snap[s], req[s])
    PROVE  CanRevert(import, req[s])
  BY SeenRows DEF CanRevert, Touched

(* What Change does to the imports, decided about them as they are.        *)
Decided(r) ==
    /\ r \in Request
    /\ \/ r.op = "commit" /\ CanCommit(import, r) /\ import' = Committed(r)
       \/ r.op = "revert" /\ CanRevert(import, r) /\ import' = Reverted(r)

LEMMA ChangeDecides ==
    ASSUME IInv, NEW s \in Sessions, Change(s)
    PROVE  /\ Decided(req[s]) /\ Reading(s) /\ Serializes(s) /\ OneCurrent(import')
           /\ Touched(snap[s], req[s]) = Rows(req[s])
  <1>1. Reading(s) /\ Serializes(s) /\ OneCurrent(import')
    BY DEF Change, Reading
  <1>2. req[s] \in Request /\ Touched(snap[s], req[s]) = Rows(req[s])
    BY <1>1, SeenRows
  <1>3. CASE req[s].op = "commit" /\ CanCommit(snap[s], req[s]) /\ import' = Committed(req[s])
    BY <1>1, <1>2, <1>3, CommitSeen DEF Decided
  <1>4. CASE req[s].op = "revert" /\ CanRevert(snap[s], req[s]) /\ import' = Reverted(req[s])
    BY <1>1, <1>2, <1>4, RevertSeen DEF Decided
  <1>5. QED
    BY <1>1, <1>2, <1>3, <1>4 DEF Change

(* The rows it may write are published ones or the draft, and stay typed.  *)
LEMMA DecidedRows ==
    ASSUME IInv, NEW r, Decided(r)
    PROVE  /\ r.id \in Imports /\ Rows(r) \subseteq Imports
           /\ \A i \in Rows(r) : Exists(i)
           /\ import' \in [Imports -> ImportRow]
           /\ \A i \in Imports \ Rows(r) : import'[i] = import[i]
  <1>1. /\ r.id \in Imports /\ import \in [Imports -> ImportRow] /\ OneCurrent(import)
        /\ import[r.id].previous \in Imports \cup {Nil}
    BY RequestShape DEF Decided, IInv, TypeOK, ImportRow
  <1>2. CASE r.op = "commit" /\ CanCommit(import, r) /\ import' = Committed(r)
    <2>1. import[r.id].status = "DRAFT" /\ import[r.id].previous = Current(import)
      BY <1>2 DEF CanCommit
    <2>2. \A i \in Rows(r) : Exists(i)
      BY <1>1, <2>1, CurrentMeans DEF Rows, Exists
    <2>3. import' \in [Imports -> ImportRow]
      BY <1>1, <1>2 DEF Committed, ImportRow
    <2>4. \A i \in Imports \ Rows(r) : import'[i] = import[i]
      BY <1>1, <1>2, ScoreAssumption DEF Committed, Rows
    <2>5. QED
      BY <1>1, <2>2, <2>3, <2>4 DEF Rows
  <1>3. CASE r.op = "revert" /\ CanRevert(import, r) /\ import' = Reverted(r)
    <2>1. \A i \in Rows(r) : Exists(i)
      BY <1>1, <1>3 DEF Rows, Exists, CanRevert
    <2>2. import' \in [Imports -> ImportRow]
      BY <1>1, <1>3 DEF Reverted, ImportRow
    <2>3. \A i \in Imports \ Rows(r) : import'[i] = import[i]
      BY <1>1, <1>3, ScoreAssumption DEF Reverted, Rows
    <2>4. QED
      BY <1>1, <2>1, <2>2, <2>3 DEF Rows
  <1>4. QED
    BY <1>2, <1>3 DEF Decided

LEMMA ChangeKeeps == ASSUME IInv, NEW s \in Sessions, Change(s) PROVE IInv'
  <1>1. PICK W : W = Rows(req[s])
    OBVIOUS
  <1>2. /\ W \subseteq Imports /\ import' \in [Imports -> ImportRow] /\ OneCurrent(import')
        /\ \A i \in Imports \ W : import'[i] = import[i]
        /\ \A i \in W : Exists(i)
        /\ Touched(snap[s], req[s]) = W
    BY <1>1, ChangeDecides, DecidedRows
  <1>3. phase[s] = "locked" /\ End(s) /\ Changed(W) /\ UNCHANGED bytes
    BY <1>2 DEF Change
  <1>4. /\ phase'[s] = "idle" /\ week = s
        /\ \A t \in Sessions \ {s} :
              /\ phase'[t] = phase[t] /\ req'[t] = req[t] /\ snap'[t] = snap[t]
              /\ week = t => week' = t
    BY <1>3 DEF End, IInv, TypeOK, Shape
  <1>5. /\ dirty' \in [Sessions -> SUBSET Imports]
        /\ \A t \in Sessions \ {s} : Reading(t) => dirty[t] \cup W \subseteq dirty'[t]
    BY <1>2, <1>3, <1>4, ChangedRows
  <1>6. TypeOK'
    BY <1>2, <1>3, <1>5 DEF IInv, TypeOK, End
  <1>7. Shape(s)' /\ Honest(s)' /\ Fresh(s)'
    BY <1>4 DEF Shape, Honest, Fresh, Reading, Previewing
  <1>8. \A t \in Sessions \ {s} : Previewing(t) => req[t].id \notin W
    BY <1>2 DEF IInv, Fresh
  <1>9. StepOf(s, W)
    BY <1>2, <1>4, <1>5, <1>8 DEF StepOf
  <1>10. QED
    BY <1>2, <1>6, <1>7, <1>9, StepKeeps

(* The actions that give up.                                               *)
LEMMA QuitKeeps ==
    ASSUME IInv, NEW s \in Sessions,
           Repeat(s) \/ FailPreview(s) \/ RemoveBytes(s) \/ FailChange(s) \/ Crash(s)
    PROVE  IInv'
  <1>1. /\ UNCHANGED import /\ bytes' \subseteq Imports
        /\ dirty' \in [Sessions -> SUBSET Imports]
        /\ \A t \in Sessions \ {s} : dirty'[t] = dirty[t]
    BY DEF Repeat, FailPreview, RemoveBytes, FailChange, Crash, store, IInv, TypeOK
  <1>2. End(s) \/ (phase[s] # "idle" /\ req[s].op = "preview" /\ Undo(s))
    BY DEF Repeat, FailPreview, RemoveBytes, FailChange, Crash, IInv, Shape
  <1>3. QED
    BY <1>1, <1>2, GiveUpKeeps

-----------------------------------------------------------------------------
LEMMA InitInv == ASSUME Init PROVE IInv
  <1>1. PICK c : c = CHOOSE d \in Contents : TRUE
    OBVIOUS
  <1>2. c \in Contents
    BY <1>1, ScoreAssumption
  <1>3. import = [i \in Imports |-> [content |-> c, previous |-> Nil, status |-> "ABSENT"]]
    BY <1>1 DEF Init
  <1>4. import \in [Imports -> ImportRow] /\ OneCurrent(import)
    BY <1>2, <1>3 DEF ImportRow, OneCurrent
  <1>5. QED
    BY <1>4 DEF Init, IInv, TypeOK, Shape, Honest, Fresh, Reading, Previewing

(* In every reachable state at most one import of the week is published    *)
(* (one_published_score_period), a snapshot differs from the imports in    *)
(* rows changed since only, and previews work on identifiers of their own. *)
THEOREM Invariance == Spec => []IInv
  <1>1. Init => IInv
    BY InitInv
  <1>2. IInv /\ [Next]_vars => IInv'
    <2>1. SUFFICES ASSUME IInv, [Next]_vars PROVE IInv'
      OBVIOUS
    <2>2. CASE UNCHANGED vars
      BY <2>1, <2>2 DEF vars, IInv, TypeOK, OneCurrent, Shape, Honest, Fresh, Reading,
                        Previewing, Exists, Current
    <2>3. CASE Next
      <3>1. PICK s \in Sessions :
              \/ Upload(s) \/ BeginChange(s) \/ Lock(s)
              \/ Look(s) \/ Repeat(s) \/ Record(s) \/ FailPreview(s) \/ RemoveBytes(s)
              \/ Change(s) \/ FailChange(s) \/ Crash(s)
        BY <2>3 DEF Next
      <3>2. QED
        BY <2>1, <3>1, UploadKeeps, BeginKeeps, LockKeeps, LookKeeps, RecordKeeps,
           ChangeKeeps, QuitKeeps
    <2>4. QED
      BY <2>1, <2>2, <2>3
  <1>3. QED
    BY <1>1, <1>2, PTL DEF Spec

(* Every variable keeps its type, whatever is uploaded and however requests *)
(* of previewScore and changeScoreImport interleave, fail or crash.        *)
THEOREM TypeCorrect == Spec => []TypeOK
  <1>1. IInv => TypeOK
    BY DEF IInv
  <1>2. QED
    BY <1>1, Invariance, PTL

(* A commit or revert that can get through decided on rows that are still  *)
(* what its snapshot says (changeScoreImport reads before it has the lock).*)
THEOREM SnapshotsSuffice == Spec => []SnapshotSuffices
  <1>1. IInv => SnapshotSuffices
    BY CommitSeen, RevertSeen DEF SnapshotSuffices
  <1>2. QED
    BY <1>1, Invariance, PTL

-----------------------------------------------------------------------------
(* The chain of published revisions.                                       *)

(* c lists them from the first to the one drivers see.                     *)
Stack(n, c) ==
    /\ \A j, k \in 1 .. n : c[j] = c[k] => j = k
    /\ \A i \in Imports : Live(i) => \E k \in 1 .. n : c[k] = i
    /\ \A k \in 1 .. n :
          /\ import[c[k]].status = IF k = n THEN "COMMITTED" ELSE "SUPERSEDED"
          /\ import[c[k]].previous = IF k = 1 THEN Nil ELSE c[k - 1]
          /\ k # 1 => import[c[k - 1]].content # import[c[k]].content

Stacked == \E n \in Nat : \E c \in [1 .. n -> Imports] : Stack(n, c)

LEMMA TopOfStack ==
    ASSUME IInv, NEW n \in Nat, NEW c \in [1 .. n -> Imports], Stack(n, c)
    PROVE  Current(import) = IF n = 0 THEN Nil ELSE c[n]
  <1>1. \A i \in Imports : import[i].status = "COMMITTED" <=> Current(import) = i
    BY CurrentMeans DEF IInv
  <1>2. CASE n = 0
    <2>1. \A i \in Imports : import[i].status # "COMMITTED"
      BY <1>2 DEF Stack, Live
    <2>2. QED
      BY <1>2, <2>1 DEF Current
  <1>3. CASE n # 0
    <2>1. n \in 1 .. n
      BY <1>3
    <2>2. c[n] \in Imports /\ import[c[n]].status = "COMMITTED"
      BY <2>1 DEF Stack
    <2>3. QED
      BY <1>1, <1>3, <2>2
  <1>4. QED
    BY <1>2, <1>3

(* A draft recorded is no published revision.                              *)
LEMMA RecordStacks ==
    ASSUME IInv, Stacked, NEW s \in Sessions, Record(s)
    PROVE  Stacked'
  <1>0. PICK n \in Nat : \E c \in [1 .. n -> Imports] : Stack(n, c)
    BY DEF Stacked
  <1>1. PICK c \in [1 .. n -> Imports] : Stack(n, c)
    BY <1>0
  <1>2. PICK r, row : r = req[s]
                      /\ row = [content |-> r.content, status |-> "DRAFT", previous |-> r.seen]
    OBVIOUS
  <1>3. /\ r.id \in Imports /\ ~ Exists(r.id) /\ row.status = "DRAFT"
        /\ import' = [import EXCEPT ![r.id] = row]
    BY <1>2, RequestShape DEF Record, IInv, Shape, Fresh, Previewing
  <1>4. import'[r.id] = row /\ \A i \in Imports \ {r.id} : import'[i] = import[i]
    BY <1>3 DEF IInv, TypeOK
  <1>5. \A k \in 1 .. n : c[k] \in Imports \ {r.id}
    <2>1. SUFFICES ASSUME NEW k \in 1 .. n PROVE import[c[k]].status # "ABSENT"
      BY <1>3 DEF Exists
    <2>2. QED
      BY <1>1 DEF Stack
  <1>6. \A i \in Imports : Live(i)' => Live(i)
    BY <1>3, <1>4 DEF Live
  <1>7. \A k \in 1 .. n : import'[c[k]] = import[c[k]] /\ (k # 1 => import'[c[k - 1]] = import[c[k - 1]])
    <2>1. ASSUME NEW k \in 1 .. n PROVE import'[c[k]] = import[c[k]]
      BY <1>4, <1>5
    <2>2. ASSUME NEW k \in 1 .. n, k # 1 PROVE import'[c[k - 1]] = import[c[k - 1]]
      <3>1. k - 1 \in 1 .. n
        BY <2>2
      <3>2. QED
        BY <2>1, <3>1
    <2>3. QED BY <2>1, <2>2
  <1>8. Stack(n, c)'
    BY <1>1, <1>6, <1>7 DEF Stack
  <1>9. QED
    BY <1>8 DEF Stacked

(* A commit puts its draft on top.                                         *)
LEMMA CommitStacks ==
    ASSUME IInv, Stacked, NEW r, Decided(r), r.op = "commit"
    PROVE  Stacked'
  <1>0. PICK n \in Nat : \E c \in [1 .. n -> Imports] : Stack(n, c)
    BY DEF Stacked
  <1>1. PICK c \in [1 .. n -> Imports] : Stack(n, c)
    BY <1>0
  <1>2. Current(import) = IF n = 0 THEN Nil ELSE c[n]
    BY <1>1, TopOfStack
  <1>3. /\ r.id \in Imports /\ import \in [Imports -> ImportRow]
        /\ import[r.id].status = "DRAFT" /\ import[r.id].previous = Current(import)
        /\ Current(import) # Nil => import[Current(import)].content # import[r.id].content
        /\ import' = Committed(r)
    BY DecidedRows DEF Decided, CanCommit, IInv, TypeOK
  <1>4. /\ import'[r.id].status = "COMMITTED" /\ import'[r.id].previous = Current(import)
        /\ import'[r.id].content = import[r.id].content
        /\ \A i \in Imports \ {r.id} :
              /\ import'[i].previous = import[i].previous
              /\ import'[i].content = import[i].content
              /\ import'[i].status = IF i = Current(import) THEN "SUPERSEDED"
                                     ELSE import[i].status
    BY <1>3 DEF Committed, ImportRow
  <1> DEFINE d == [k \in 1 .. n + 1 |-> IF k = n + 1 THEN r.id ELSE c[k]]
  <1>5. d \in [1 .. n + 1 -> Imports] /\ d[n + 1] = r.id /\ \A k \in 1 .. n : d[k] = c[k]
    BY <1>3
  <1> HIDE DEF d
  <1>6. \A k \in 1 .. n : c[k] \in Imports \ {r.id}
    BY <1>1, <1>3 DEF Stack
  <1>7. ASSUME NEW j \in 1 .. n + 1, NEW k \in 1 .. n + 1, d[j] = d[k]
        PROVE  j = k
    <2>1. CASE j \in 1 .. n /\ k \in 1 .. n
      <3>1. c[j] = c[k]
        BY <1>5, <1>7, <2>1
      <3>2. QED BY <1>1, <2>1, <3>1 DEF Stack
    <2>2. CASE j = n + 1 /\ k \in 1 .. n
      BY <1>5, <1>6, <1>7, <2>2
    <2>3. CASE k = n + 1 /\ j \in 1 .. n
      BY <1>5, <1>6, <1>7, <2>3
    <2>4. CASE j = n + 1 /\ k = n + 1
      BY <2>4
    <2>5. QED
      BY <2>1, <2>2, <2>3, <2>4
  <1>8. ASSUME NEW i \in Imports, Live(i)'
        PROVE  \E k \in 1 .. n + 1 : d[k] = i
    <2>1. CASE i = r.id
      <3>1. n + 1 \in 1 .. n + 1
        OBVIOUS
      <3>2. QED BY <1>5, <2>1, <3>1
    <2>2. CASE i # r.id
      <3>0. i = Current(import) => import[i].status = "COMMITTED"
        BY CurrentMeans DEF IInv
      <3>1. Live(i)
        BY <1>4, <1>8, <2>2, <3>0 DEF Live
      <3>2. PICK k \in 1 .. n : c[k] = i
        BY <1>1, <3>1 DEF Stack
      <3>3. k \in 1 .. n + 1 /\ d[k] = i
        BY <1>5, <3>2
      <3>4. QED BY <3>3
    <2>3. QED BY <2>1, <2>2
  <1>9. ASSUME NEW k \in 1 .. n + 1
        PROVE  /\ import'[d[k]].status = IF k = n + 1 THEN "COMMITTED" ELSE "SUPERSEDED"
               /\ import'[d[k]].previous = IF k = 1 THEN Nil ELSE d[k - 1]
               /\ k # 1 => import'[d[k - 1]].content # import'[d[k]].content
    <2>1. CASE k = n + 1
      <3>1. d[k] = r.id /\ import'[d[k]].status = "COMMITTED"
        BY <1>4, <1>5, <2>1
      <3>2. CASE n = 0
        <4>1. Current(import) = Nil /\ k = 1
          BY <1>2, <2>1, <3>2
        <4>2. QED BY <1>4, <2>1, <3>1, <4>1
      <3>3. CASE n # 0
        <4>1. n \in 1 .. n /\ k - 1 = n /\ k # 1
          BY <2>1, <3>3
        <4>2. d[k - 1] = c[n] /\ Current(import) = c[n] /\ c[n] \in Imports \ {r.id}
          BY <1>2, <1>5, <1>6, <3>3, <4>1
        <4>3. Current(import) # Nil
          BY <4>2, ScoreAssumption
        <4>4. import'[c[n]].content # import'[r.id].content
          BY <1>3, <1>4, <4>2, <4>3
        <4>5. QED BY <1>4, <2>1, <3>1, <4>1, <4>2, <4>4
      <3>4. QED BY <3>2, <3>3
    <2>2. CASE k \in 1 .. n
      <3>1. d[k] = c[k] /\ c[k] \in Imports \ {r.id} /\ k # n + 1
        BY <1>5, <1>6, <2>2
      <3>2. /\ import[c[k]].status = IF k = n THEN "COMMITTED" ELSE "SUPERSEDED"
            /\ import[c[k]].previous = IF k = 1 THEN Nil ELSE c[k - 1]
            /\ k # 1 => import[c[k - 1]].content # import[c[k]].content
        BY <1>1, <2>2 DEF Stack
      <3>3. k = n => c[k] = Current(import)
        BY <1>2, <2>2
      <3>4. import'[d[k]].status = "SUPERSEDED"
        BY <1>4, <3>1, <3>2, <3>3
      <3>5. CASE k = 1
        BY <1>4, <3>1, <3>2, <3>4, <3>5
      <3>6. CASE k # 1
        <4>1. k - 1 \in 1 .. n
          BY <2>2, <3>6
        <4>2. d[k - 1] = c[k - 1] /\ c[k - 1] \in Imports \ {r.id}
          BY <1>5, <1>6, <4>1
        <4>3. import'[d[k - 1]].content # import'[d[k]].content
          BY <1>4, <3>1, <3>2, <3>6, <4>2
        <4>4. QED BY <1>4, <3>1, <3>2, <3>4, <3>6, <4>2, <4>3
      <3>7. QED BY <3>5, <3>6
    <2>3. QED BY <2>1, <2>2
  <1>10. Stack(n + 1, d)'
    BY <1>7, <1>8, <1>9 DEF Stack
  <1>11. QED
    BY <1>5, <1>10 DEF Stacked

(* A revert takes the top off.                                             *)
LEMMA RevertStacks ==
    ASSUME IInv, Stacked, NEW r, Decided(r), r.op = "revert"
    PROVE  Stacked'
  <1>0. PICK n \in Nat : \E c \in [1 .. n -> Imports] : Stack(n, c)
    BY DEF Stacked
  <1>1. PICK c \in [1 .. n -> Imports] : Stack(n, c)
    BY <1>0
  <1>2. /\ r.id \in Imports /\ import \in [Imports -> ImportRow]
        /\ import[r.id].status = "COMMITTED" /\ import' = Reverted(r)
    BY DecidedRows DEF Decided, CanRevert, IInv, TypeOK
  <1>3. n # 0 /\ r.id = c[n] /\ n \in 1 .. n
    <2>1. Current(import) = r.id
      BY <1>2, CurrentMeans DEF IInv
    <2>2. Current(import) = IF n = 0 THEN Nil ELSE c[n]
      BY <1>1, TopOfStack
    <2>3. QED
      BY <1>2, <2>1, <2>2, ScoreAssumption
  <1> DEFINE b == import[r.id].previous
  <1>4. /\ import'[r.id].status = "REVERTED"
        /\ \A i \in Imports \ {r.id} :
              /\ import'[i].previous = import[i].previous
              /\ import'[i].content = import[i].content
              /\ import'[i].status = IF i = b THEN "COMMITTED" ELSE import[i].status
    BY <1>2 DEF Reverted, ImportRow
  <1>5. b = IF n = 1 THEN Nil ELSE c[n - 1]
    BY <1>1, <1>3 DEF Stack
  <1> HIDE DEF b
  <1> DEFINE d == [k \in 1 .. n - 1 |-> c[k]]
  <1>6. /\ n - 1 \in Nat /\ d \in [1 .. n - 1 -> Imports]
        /\ \A k \in 1 .. n - 1 : d[k] = c[k] /\ k \in 1 .. n /\ k # n
    BY <1>3
  <1> HIDE DEF d
  <1>7. \A k \in 1 .. n - 1 : c[k] \in Imports \ {r.id}
    BY <1>1, <1>3, <1>6 DEF Stack
  <1>8. ASSUME NEW j \in 1 .. n - 1, NEW k \in 1 .. n - 1, d[j] = d[k]
        PROVE  j = k
    BY <1>1, <1>6, <1>8 DEF Stack
  <1>9. ASSUME NEW i \in Imports, Live(i)'
        PROVE  \E k \in 1 .. n - 1 : d[k] = i
    <2>1. i # r.id
      BY <1>4, <1>9 DEF Live
    <2>2. i = b => Live(i)
      <3>1. SUFFICES ASSUME i = b PROVE Live(i)
        OBVIOUS
      <3>2. n # 1 /\ i = c[n - 1] /\ n - 1 \in 1 .. n
        BY <1>3, <1>5, <3>1, ScoreAssumption
      <3>3. QED BY <1>1, <3>2 DEF Stack, Live
    <2>3. Live(i)
      BY <1>4, <1>9, <2>1, <2>2 DEF Live
    <2>4. PICK k \in 1 .. n : c[k] = i
      BY <1>1, <2>3 DEF Stack
    <2>5. k \in 1 .. n - 1
      BY <1>3, <2>1, <2>4
    <2>6. QED BY <1>6, <2>4, <2>5
  <1>10. ASSUME NEW k \in 1 .. n - 1
         PROVE  /\ import'[d[k]].status = IF k = n - 1 THEN "COMMITTED" ELSE "SUPERSEDED"
                /\ import'[d[k]].previous = IF k = 1 THEN Nil ELSE d[k - 1]
                /\ k # 1 => import'[d[k - 1]].content # import'[d[k]].content
    <2>1. d[k] = c[k] /\ c[k] \in Imports \ {r.id} /\ k \in 1 .. n /\ k # n
      BY <1>6, <1>7
    <2>2. /\ import[c[k]].status = "SUPERSEDED"
          /\ import[c[k]].previous = IF k = 1 THEN Nil ELSE c[k - 1]
          /\ k # 1 => import[c[k - 1]].content # import[c[k]].content
      BY <1>1, <2>1 DEF Stack
    <2>3. c[k] = b <=> k = n - 1
      <3>1. n # 1 /\ n - 1 \in 1 .. n
        BY <1>3
      <3>2. b = c[n - 1]
        BY <1>5, <3>1
      <3>3. QED BY <1>1, <2>1, <3>1, <3>2 DEF Stack
    <2>4. import'[d[k]].status = IF k = n - 1 THEN "COMMITTED" ELSE "SUPERSEDED"
      BY <1>4, <2>1, <2>2, <2>3
    <2>5. CASE k = 1
      BY <1>4, <2>1, <2>2, <2>4, <2>5
    <2>6. CASE k # 1
      <3>1. k - 1 \in 1 .. n - 1
        BY <2>6
      <3>2. d[k - 1] = c[k - 1] /\ c[k - 1] \in Imports \ {r.id}
        BY <1>6, <1>7, <3>1
      <3>3. QED BY <1>4, <2>1, <2>2, <2>4, <2>6, <3>2
    <2>7. QED BY <2>5, <2>6
  <1>11. Stack(n - 1, d)'
    BY <1>8, <1>9, <1>10 DEF Stack
  <1>12. QED
    BY <1>6, <1>11 DEF Stacked

(* What is replaced by what, as ChainSound follows it.                     *)
LEMMA ReplacedMeans ==
    ASSUME IInv, NEW n \in Nat, NEW c \in [1 .. n -> Imports], Stack(n, c)
    PROVE  /\ DOMAIN Replaced = 0 .. Cardinality(Imports)
           /\ \A m \in 0 .. Cardinality(Imports) :
                 Replaced[m] = IF m < n THEN c[n - m] ELSE Nil
  <1> DEFINE D == 0 .. Cardinality(Imports)
             G(m) == IF m < n THEN c[n - m] ELSE Nil
             g == [m \in D |-> G(m)]
             Bad == {m \in D : Replaced[m] # G(m)}
  <1>1. Current(import) = G(0)
    <2>1. Current(import) = IF n = 0 THEN Nil ELSE c[n]
      BY TopOfStack
    <2>2. n - 0 = n /\ (0 < n <=> n # 0)
      OBVIOUS
    <2>3. QED BY <2>1, <2>2
  <1>2. ASSUME NEW m \in Nat, m # 0
        PROVE  /\ m - 1 \in Nat
               /\ G(m) = IF G(m - 1) = Nil THEN Nil ELSE import[G(m - 1)].previous
    <2>1. CASE m - 1 < n
      <3>1. n - (m - 1) \in 1 .. n
        BY <1>2, <2>1
      <3>2. G(m - 1) = c[n - (m - 1)] /\ G(m - 1) \in Imports /\ G(m - 1) # Nil
        BY <2>1, <3>1, ScoreAssumption
      <3>3. import[c[n - (m - 1)]].previous =
              IF n - (m - 1) = 1 THEN Nil ELSE c[(n - (m - 1)) - 1]
        BY <3>1 DEF Stack
      <3>4. (n - (m - 1) = 1 <=> ~ m < n) /\ (n - (m - 1)) - 1 = n - m
        BY <1>2, <2>1
      <3>5. QED BY <1>2, <3>2, <3>3, <3>4
    <2>2. CASE ~ m - 1 < n
      <3>1. ~ m < n
        BY <1>2, <2>2
      <3>2. QED BY <1>2, <2>2, <3>1
    <2>3. QED BY <2>1, <2>2
  <1>3. D \subseteq Nat /\ \A m \in D : m # 0 => m - 1 \in D
    BY FS_CardinalityType, ScoreAssumption
  <1> HIDE DEF G, D
  <1>4. g = [m \in D |-> IF m = 0 THEN Current(import)
                         ELSE IF g[m - 1] = Nil THEN Nil ELSE import[g[m - 1]].previous]
    <2>1. ASSUME NEW m \in D
          PROVE  g[m] = IF m = 0 THEN Current(import)
                        ELSE IF g[m - 1] = Nil THEN Nil ELSE import[g[m - 1]].previous
      <3>1. CASE m = 0
        BY <1>1, <3>1
      <3>2. CASE m # 0
        <4>1. m \in Nat /\ m - 1 \in D
          BY <1>3, <3>2
        <4>2. G(m) = IF G(m - 1) = Nil THEN Nil ELSE import[G(m - 1)].previous
          BY <1>2, <3>2, <4>1
        <4>3. g[m - 1] = G(m - 1)
          BY <4>1
        <4>4. QED BY <3>2, <4>2, <4>3
      <3>3. QED BY <3>1, <3>2
    <2>2. QED BY <2>1
  <1> HIDE DEF g
  <1>5. Replaced = [m \in D |-> IF m = 0 THEN Current(import)
                                ELSE IF Replaced[m - 1] = Nil THEN Nil
                                     ELSE import[Replaced[m - 1]].previous]
    BY <1>4 DEF Replaced, D
  <1>6. Bad = {}
    <2> SUFFICES ASSUME Bad # {} PROVE FALSE
      OBVIOUS
    <2>1. Bad \subseteq Nat
      BY <1>3
    <2> DEFINE B == Bad
    <2>2. B \subseteq Nat /\ B # {}
      BY <2>1
    <2> HIDE DEF B
    <2>3. PICK m \in B : \A k \in B : m <= k
      BY <2>2, LeastNumber
    <2>4. m \in D /\ Replaced[m] # G(m) /\ m \in Nat
      BY <2>2, <2>3 DEF B
    <2>5. m # 0
      BY <1>1, <1>5, <2>4
    <2>6. m - 1 \in D /\ ~ m <= m - 1
      BY <1>3, <2>4, <2>5
    <2>7. m - 1 \notin B
      BY <2>3, <2>6
    <2>8. Replaced[m - 1] = G(m - 1)
      BY <2>6, <2>7 DEF B
    <2>9. Replaced[m] = IF Replaced[m - 1] = Nil THEN Nil ELSE import[Replaced[m - 1]].previous
      BY <1>5, <2>4, <2>5
    <2>10. G(m) = IF G(m - 1) = Nil THEN Nil ELSE import[G(m - 1)].previous
      BY <1>2, <2>4, <2>5
    <2>11. QED BY <2>4, <2>8, <2>9, <2>10
  <1>7. DOMAIN Replaced = D
    BY <1>5
  <1>8. QED
    BY <1>6, <1>7 DEF G, D

(* No more revisions are published than there are imports.                 *)
LEMMA StackBounded ==
    ASSUME NEW n \in Nat, NEW c \in [1 .. n -> Imports],
           \A j, k \in 1 .. n : c[j] = c[k] => j = k
    PROVE  n <= Cardinality(Imports)
  <1>1. c \in Injection(1 .. n, Imports)
    BY DEF Injection, IsInjective
  <1>2. Cardinality(1 .. n) <= Cardinality(Imports)
    BY <1>1, FS_Injection, ScoreAssumption
  <1>3. Cardinality(1 .. n) = n
    BY FS_Interval
  <1>4. QED
    BY <1>2, <1>3

(* The walk from the top passes the whole stack and then stays at Nil.      *)
LEMMA StackSound ==
    ASSUME IInv, Stacked
    PROVE  ChainSound
  <1>0. PICK n \in Nat : \E c \in [1 .. n -> Imports] : Stack(n, c)
    BY DEF Stacked
  <1>1. PICK c \in [1 .. n -> Imports] : Stack(n, c)
    BY <1>0
  <1> DEFINE D == 0 .. Cardinality(Imports)
             chain == Range(Replaced) \ {Nil}
  <1>2. n <= Cardinality(Imports) /\ Cardinality(Imports) \in Nat
    <2>1. \A j, k \in 1 .. n : c[j] = c[k] => j = k
      BY <1>1 DEF Stack
    <2>2. n <= Cardinality(Imports)
      BY <2>1, StackBounded
    <2>3. Cardinality(Imports) \in Nat
      BY FS_CardinalityType, ScoreAssumption
    <2>4. QED BY <2>2, <2>3
  <1>3. DOMAIN Replaced = D /\ \A m \in D : Replaced[m] = IF m < n THEN c[n - m] ELSE Nil
    BY <1>1, ReplacedMeans
  <1>4. ASSUME NEW m \in D, Replaced[m] # Nil
        PROVE  m < n /\ n - m \in 1 .. n /\ Replaced[m] = c[n - m]
    <2>1. m < n /\ Replaced[m] = c[n - m]
      BY <1>3, <1>4
    <2>2. n - m \in 1 .. n
      BY <2>1
    <2>3. QED BY <2>1, <2>2
  <1>5. ASSUME NEW k \in 1 .. n
        PROVE  n - k \in D /\ Replaced[n - k] = c[k] /\ c[k] \in Imports /\ c[k] # Nil
    <2>1. n - k \in D /\ n - k < n /\ n - (n - k) = k
      BY <1>2
    <2>2. c[k] \in Imports /\ c[k] # Nil
      BY ScoreAssumption
    <2>3. Replaced[n - k] = c[k]
      BY <1>3, <2>1
    <2>4. QED BY <2>1, <2>2, <2>3
  <1> HIDE DEF D
  <1>6. \A i : i \in chain <=> \E k \in 1 .. n : c[k] = i
    <2>1. ASSUME NEW i \in chain PROVE \E k \in 1 .. n : c[k] = i
      <3>1. PICK m \in D : Replaced[m] = i /\ i # Nil
        BY <1>3, <2>1 DEF Range
      <3>2. n - m \in 1 .. n /\ c[n - m] = i
        BY <1>4, <3>1
      <3>3. QED BY <3>2
    <2>2. ASSUME NEW k \in 1 .. n PROVE c[k] \in chain
      BY <1>3, <1>5 DEF Range
    <2>3. QED BY <2>1, <2>2
  <1> HIDE DEF chain
  <1>7. {i \in Imports : Live(i)} = chain
    <2>1. ASSUME NEW k \in 1 .. n PROVE c[k] \in Imports /\ Live(c[k])
      BY <1>1 DEF Stack, Live
    <2>2. \A i \in Imports : Live(i) => \E k \in 1 .. n : c[k] = i
      BY <1>1 DEF Stack
    <2>3. QED BY <1>6, <2>1, <2>2
  <1>8. ASSUME NEW m \in D, NEW k \in D, m # k, Replaced[m] # Nil
        PROVE  Replaced[m] # Replaced[k]
    <2>1. SUFFICES ASSUME Replaced[m] = Replaced[k] PROVE FALSE
      OBVIOUS
    <2>2. m < n /\ n - m \in 1 .. n /\ Replaced[m] = c[n - m]
      BY <1>4, <1>8
    <2>3. k < n /\ n - k \in 1 .. n /\ Replaced[k] = c[n - k]
      BY <1>4, <1>8, <2>1
    <2>4. n - m = n - k
      <3>1. c[n - m] = c[n - k]
        BY <2>1, <2>2, <2>3
      <3>2. \A a, b \in 1 .. n : c[a] = c[b] => a = b
        BY <1>1 DEF Stack
      <3>3. QED BY <2>2, <2>3, <3>1, <3>2
    <2>5. m \in Int /\ k \in Int
      BY DEF D
    <2>6. QED BY <1>8, <2>4, <2>5
  <1>9. ASSUME NEW i \in chain, import[i].previous # Nil
        PROVE  import[import[i].previous].content # import[i].content
    <2>1. PICK k \in 1 .. n : c[k] = i
      BY <1>6, <1>9
    <2>2. /\ import[c[k]].previous = IF k = 1 THEN Nil ELSE c[k - 1]
          /\ k # 1 => import[c[k - 1]].content # import[c[k]].content
      BY <1>1 DEF Stack
    <2>3. k # 1 /\ import[i].previous = c[k - 1]
      BY <1>9, <2>1, <2>2
    <2>4. QED BY <2>1, <2>2, <2>3
  <1>10. OneCurrent(import)
    BY DEF IInv
  <1>11. QED
    BY <1>3, <1>7, <1>8, <1>9, <1>10 DEF ChainSound, chain

(* Taking back published revisions one after the other passes each of them *)
(* once, and none is empty-handed (changeScoreImport, service.ts:264-318): *)
(* at every time they are a stack, whatever the snapshots of concurrent    *)
(* commits and reverts were.                                               *)
THEOREM ChainAlwaysSound == Spec => []ChainSound
  <1>1. Init => Stacked
    <2>1. SUFFICES ASSUME Init PROVE Stacked
      OBVIOUS
    <2> DEFINE c == [k \in 1 .. 0 |-> k]
    <2>2. c \in [1 .. 0 -> Imports]
      OBVIOUS
    <2> HIDE DEF c
    <2>3. \A i \in Imports : ~ Live(i)
      BY <2>1 DEF Init, Live
    <2>4. Stack(0, c)
      BY <2>3 DEF Stack
    <2>5. QED BY <2>2, <2>4 DEF Stacked
  <1>2. IInv /\ Stacked /\ [Next]_vars => Stacked'
    <2>1. SUFFICES ASSUME IInv, Stacked, [Next]_vars PROVE Stacked'
      OBVIOUS
    <2>2. CASE UNCHANGED import
      <3>1. PICK n \in Nat : \E c \in [1 .. n -> Imports] : Stack(n, c)
        BY <2>1 DEF Stacked
      <3>2. PICK c \in [1 .. n -> Imports] : Stack(n, c)
        BY <3>1
      <3>3. Stack(n, c)'
        BY <2>2, <3>2 DEF Stack, Live
      <3>4. QED BY <3>3 DEF Stacked
    <2>3. CASE \E s \in Sessions : Record(s)
      BY <2>1, <2>3, RecordStacks
    <2>4. CASE \E s \in Sessions : Change(s)
      <3>1. PICK s \in Sessions : Change(s)
        BY <2>4
      <3>2. Decided(req[s])
        BY <2>1, <3>1, ChangeDecides
      <3>3. CASE req[s].op = "commit"
        BY <2>1, <3>2, <3>3, CommitStacks
      <3>4. CASE req[s].op = "revert"
        BY <2>1, <3>2, <3>4, RevertStacks
      <3>5. QED BY <3>2, <3>3, <3>4 DEF Decided
    <2>5. CASE \E s \in Sessions : Upload(s) \/ BeginChange(s) \/ Lock(s) \/ Look(s)
      BY <2>2, <2>5 DEF Upload, BeginChange, Lock, Look, store
    <2>6. CASE \E s \in Sessions : \/ Repeat(s) \/ FailPreview(s) \/ RemoveBytes(s)
                                    \/ FailChange(s) \/ Crash(s)
      BY <2>2, <2>6 DEF Repeat, FailPreview, RemoveBytes, FailChange, Crash, store
    <2>7. CASE UNCHANGED vars
      BY <2>2, <2>7 DEF vars
    <2>8. QED
      BY <2>1, <2>3, <2>4, <2>5, <2>6, <2>7 DEF Next
  <1>3. IInv /\ Stacked => ChainSound
    BY StackSound
  <1>4. QED
    BY <1>1, <1>2, <1>3, Invariance, PTL DEF Spec

-----------------------------------------------------------------------------
(* Refinement: drafts, published and retired rows as Revisions sees them.  *)

Under   == {<<i, import[i].previous>> : i \in {j \in Imports : Live(j)}}
Drafts  == {<<i, import[i].previous>> : i \in {j \in Imports : import[j].status = "DRAFT"}}
Retired == {i \in Imports : import[i].status = "REVERTED"}
Seen    == <<Current(import), Under, Drafts, Retired>>

LEMMA InitRefines == ASSUME Init PROVE Abstract!RevisionsInit
  <1>1. \A i \in Imports : import[i].status = "ABSENT"
    BY DEF Init
  <1>2. QED
    BY <1>1 DEF Abstract!RevisionsInit, Current, Live

(* Only Record and Change are steps of Revisions.                          *)
LEMMA SameImports == ASSUME UNCHANGED import PROVE UNCHANGED Seen
  BY DEF Seen, Current, Under, Drafts, Retired, Live

LEMMA StutterRefines == ASSUME UNCHANGED Seen PROVE UNCHANGED Abstract!revisions
  BY DEF Seen, Under, Drafts, Retired, Abstract!revisions

LEMMA RecordRefines == ASSUME IInv, NEW s \in Sessions, Record(s) PROVE Abstract!Draft
  <1>1. PICK r : r = req[s]
    OBVIOUS
  <1>2. PICK row : row = [content |-> r.content, status |-> "DRAFT", previous |-> r.seen]
    OBVIOUS
  <1>3. /\ r.id \in Imports /\ ~ Exists(r.id) /\ r.seen = Current(import)
        /\ row.status = "DRAFT" /\ row.previous = r.seen
        /\ import' = [import EXCEPT ![r.id] = row]
    BY <1>1, <1>2, RequestShape DEF Record, IInv, Shape, Fresh, Previewing
  <1>4. /\ import'[r.id] = row /\ \A i \in Imports \ {r.id} : import'[i] = import[i]
    BY <1>3 DEF IInv, TypeOK
  <1>5. \A i \in Imports : import'[i].status = "COMMITTED" <=> import[i].status = "COMMITTED"
    BY <1>3, <1>4 DEF Exists
  <1>6. Current(import') = Current(import)
    <2>1. OneCurrent(import) /\ OneCurrent(import')
      BY <1>5 DEF IInv, OneCurrent
    <2>2. QED
      BY <1>5, <2>1, CurrentMeans
  <1>7. Under' = Under /\ Retired' = Retired
    BY <1>3, <1>4 DEF Under, Retired, Live, Exists
  <1>8. Drafts' = Drafts \cup {<<r.id, Current(import)>>}
    BY <1>3, <1>4 DEF Drafts, Exists
  <1>9. r.id \notin {p[1] : p \in Under \cup Drafts} \cup Retired
    BY <1>3 DEF Under, Drafts, Retired, Live, Exists
  <1>10. QED
    BY <1>3, <1>6, <1>7, <1>8, <1>9 DEF Under, Drafts, Retired, Abstract!Draft, Abstract!Names

LEMMA CommitRefines ==
    ASSUME IInv, NEW r, Decided(r), r.op = "commit", OneCurrent(import')
    PROVE  Abstract!Publish
  <1>1. PICK c : c = Current(import)
    OBVIOUS
  <1>2. /\ r.id \in Imports /\ OneCurrent(import) /\ import \in [Imports -> ImportRow]
        /\ import[r.id].status = "DRAFT" /\ import[r.id].previous = c
        /\ import' = Committed(r)
        /\ c \in Imports \cup {Nil}
        /\ \A i \in Imports : import[i].status = "COMMITTED" <=> c = i
    BY <1>1, DecidedRows, CurrentMeans DEF Decided, CanCommit, IInv, TypeOK
  <1>3. /\ import'[r.id].status = "COMMITTED" /\ import'[r.id].previous = c
        /\ \A i \in Imports \ {r.id} :
              /\ import'[i].previous = import[i].previous
              /\ import'[i].status = IF i = c THEN "SUPERSEDED" ELSE import[i].status
    BY <1>2 DEF Committed, ImportRow
  <1>4. Current(import') = r.id
    BY <1>2, <1>3, CurrentMeans
  <1>5. \A i \in Imports \ {r.id} : Live(i)' <=> Live(i)
    BY <1>2, <1>3 DEF Live
  <1>6. /\ ~ Live(r.id) /\ Live(r.id)' /\ import'[r.id].status # "DRAFT"
        /\ \A i \in Imports \ {r.id} : import'[i].status = "DRAFT" <=> import[i].status = "DRAFT"
        /\ \A i \in Imports : import'[i].status = "REVERTED" <=> import[i].status = "REVERTED"
    BY <1>2, <1>3 DEF Live
  <1>7. Under' = Under \cup {<<r.id, c>>}
    BY <1>2, <1>3, <1>5, <1>6 DEF Under
  <1>8. Drafts' = Drafts \ {<<r.id, c>>} /\ <<r.id, c>> \in Drafts
    BY <1>2, <1>3, <1>6 DEF Drafts
  <1>9. Retired' = Retired
    BY <1>6 DEF Retired
  <1>10. QED
    BY <1>1, <1>2, <1>4, <1>7, <1>8, <1>9 DEF Under, Drafts, Retired, Abstract!Publish

LEMMA RevertRefines ==
    ASSUME IInv, NEW r, Decided(r), r.op = "revert", OneCurrent(import')
    PROVE  Abstract!TakeBack
  <1>1. PICK b : b = import[r.id].previous
    OBVIOUS
  <1>2. /\ r.id \in Imports /\ OneCurrent(import) /\ import \in [Imports -> ImportRow]
        /\ import[r.id].status = "COMMITTED"
        /\ b # Nil => import[b].status = "SUPERSEDED"
        /\ b \in Imports \cup {Nil} /\ import' = Reverted(r)
    BY <1>1, DecidedRows DEF Decided, CanRevert, IInv, TypeOK, ImportRow
  <1>3. Current(import) = r.id
    BY <1>2, CurrentMeans
  <1>4. /\ import'[r.id].status = "REVERTED"
        /\ \A i \in Imports \ {r.id} :
              /\ import'[i].previous = import[i].previous
              /\ import'[i].status = IF i = b THEN "COMMITTED" ELSE import[i].status
    BY <1>1, <1>2 DEF Reverted, ImportRow
  <1>5. Current(import') = b
    <2>1. CASE b = Nil
      <3>1. \A i \in Imports : import'[i].status # "COMMITTED"
        BY <1>2, <1>4, <2>1, ScoreAssumption DEF OneCurrent
      <3>2. QED
        BY <2>1, <3>1 DEF Current
    <2>2. CASE b # Nil
      <3>1. b \in Imports \ {r.id}
        BY <1>2, <2>2
      <3>2. QED
        BY <1>4, <3>1, CurrentMeans
    <2>3. QED
      BY <2>1, <2>2
  <1>6. \A i \in Imports \ {r.id} : Live(i)' <=> Live(i)
    BY <1>2, <1>4, ScoreAssumption DEF Live
  <1>7. /\ Live(r.id) /\ ~ Live(r.id)' /\ import'[r.id].status = "REVERTED"
        /\ \A i \in Imports : import'[i].status = "DRAFT" <=> import[i].status = "DRAFT"
        /\ \A i \in Imports \ {r.id} :
              import'[i].status = "REVERTED" <=> import[i].status = "REVERTED"
    BY <1>2, <1>4, ScoreAssumption DEF Live
  <1>8. Under' = Under \ {<<r.id, b>>} /\ <<r.id, b>> \in Under
    BY <1>1, <1>2, <1>4, <1>6, <1>7 DEF Under
  <1>9. Drafts' = Drafts
    BY <1>2, <1>4, <1>7 DEF Drafts
  <1>10. Retired' = Retired \cup {r.id}
    BY <1>2, <1>7 DEF Retired
  <1>11. QED
    BY <1>2, <1>3, <1>5, <1>8, <1>9, <1>10 DEF Under, Drafts, Retired, Abstract!TakeBack

(* Revisions of a week behave as the stack Revisions describes, although   *)
(* commit and revert read a snapshot that may be older than their lock:    *)
(* each transaction of previewScore or changeScoreImport is one step of    *)
(* it, or none.                                                            *)
THEOREM ScoresAreRevisions == Spec => ImplementsRevisions
  <1>1. Init => Abstract!RevisionsInit
    BY InitRefines
  <1>2. IInv /\ [Next]_vars => [Abstract!RevisionsNext]_Abstract!revisions
    <2>1. SUFFICES ASSUME IInv, [Next]_vars
                   PROVE  Abstract!RevisionsNext \/ UNCHANGED Abstract!revisions
      OBVIOUS
    <2>2. CASE UNCHANGED import
      BY <2>2, SameImports, StutterRefines
    <2>3. CASE ~ UNCHANGED import
      <3>1. PICK s \in Sessions : Record(s) \/ Change(s)
        BY <2>1, <2>3 DEF Next, vars, store, Upload, BeginChange, Lock, Look, Repeat,
           FailPreview, RemoveBytes, FailChange, Crash
      <3>2. CASE Record(s)
        BY <2>1, <3>2, RecordRefines DEF Abstract!RevisionsNext
      <3>3. CASE Change(s)
        BY <2>1, <3>3, ChangeDecides, CommitRefines, RevertRefines
           DEF Decided, Abstract!RevisionsNext
      <3>4. QED
        BY <3>1, <3>2, <3>3
    <2>4. QED
      BY <2>2, <2>3
  <1>3. QED
    BY <1>1, <1>2, Invariance, PTL DEF Spec, ImplementsRevisions, Abstract!RevisionsSpec
=============================================================================
