---------------------------- MODULE ScoreImports ----------------------------
(***************************************************************************)
(* The score imports of one week: previewScore and changeScoreImport       *)
(* (src/src/features/score/service.ts).  Weeks have nothing in common.     *)
(*                                                                         *)
(* A preview stores the bytes of the file, then records a draft in a READ  *)
(* COMMITTED transaction; commit and revert are SERIALIZABLE.  All three   *)
(* take the advisory lock of the week, but a SERIALIZABLE transaction has  *)
(* its snapshot by then and may be looking at the past.                    *)
(***************************************************************************)
EXTENDS Integers, FiniteSets, Functions

CONSTANTS
    Imports,        \* identifiers of imports, and of the bytes stored for them
    Contents,       \* what a file says once parsed (column hash)
    Valid,          \* contents without errors
    Sessions,       \* concurrent requests
    Faults,         \* what may fail in this instance: "crash", "lost"
    Nil

ASSUME ScoreAssumption ==
    Valid \subseteq Contents /\ Nil \notin Imports \cup Sessions
    /\ Contents # {} /\ Faults \subseteq {"crash", "lost"}
    /\ IsFiniteSet(Imports)     \* identifiers are UUIDs

VARIABLES
    import,         \* ScoreImport
    bytes,          \* objects in the file store
    phase,          \* where each session is
    req,            \* the request it serves
    snap,           \* the imports as its snapshot has them
    dirty,          \* rows other transactions changed since
    week            \* the session that holds the advisory lock

store    == <<import, bytes>>
sessions == <<phase, req, snap, dirty, week>>
vars     == <<import, bytes, phase, req, snap, dirty, week>>

ImportRow == [content : Contents, previous : Imports \cup {Nil},
              status : {"ABSENT", "DRAFT", "COMMITTED", "SUPERSEDED", "REVERTED"}]
Request   == [op : {"preview"}, id : Imports, content : Contents, seen : Imports \cup {Nil}]
             \cup [op : {"commit"}, id : Imports, confirm : BOOLEAN]
             \cup [op : {"revert"}, id : Imports]

-----------------------------------------------------------------------------
Exists(i) == import[i].status # "ABSENT"

(* The row with status COMMITTED, as table t has it.                       *)
Current(t) == IF \E i \in Imports : t[i].status = "COMMITTED"
              THEN CHOOSE i \in Imports : t[i].status = "COMMITTED" ELSE Nil

End(s) ==
    /\ phase' = [phase EXCEPT ![s] = "idle"]
    /\ req' = [req EXCEPT ![s] = Nil]
    /\ snap' = [snap EXCEPT ![s] = Nil]
    /\ week' = IF week = s THEN Nil ELSE week

(* The session has a snapshot.                                             *)
Reading(s) == phase[s] \in {"begun", "locked"} /\ req[s].op \in {"commit", "revert"}

(* A transaction leaves its changes to the others.                         *)
Changed(rows) ==
    dirty' = [t \in Sessions |-> IF Reading(t)' THEN dirty[t] \cup rows ELSE {}]

Lock(s) ==
    /\ phase[s] \in {"stored", "begun"} /\ week = Nil
    /\ week' = s
    /\ phase' = [phase EXCEPT ![s] = "locked"]
    /\ UNCHANGED <<store, req, snap, dirty>>

-----------------------------------------------------------------------------
(* Preview.                                                                *)

Upload(s) ==
    /\ phase[s] = "idle"
    /\ \E i \in Imports, c \in Contents :
          /\ ~ Exists(i) /\ i \notin bytes
          /\ \A t \in Sessions : phase[t] # "idle" => req[t].id # i
          /\ bytes' = bytes \cup {i}
          /\ req' = [req EXCEPT ![s] = [op |-> "preview", id |-> i, content |-> c,
                                        seen |-> Nil]]
    /\ phase' = [phase EXCEPT ![s] = "stored"]
    /\ UNCHANGED <<import, snap, dirty, week>>

(* Statement by statement: first the revision the preview will show.       *)
Look(s) ==
    /\ phase[s] = "locked" /\ req[s].op = "preview"
    /\ req' = [req EXCEPT ![s].seen = Current(import)]
    /\ phase' = [phase EXCEPT ![s] = "looked"]
    /\ UNCHANGED <<store, snap, dirty, week>>

(* The first such row the database finds, in no particular order.          *)
Duplicates(c) == {j \in Imports : import[j].content = c
                                  /\ import[j].status \in {"DRAFT", "COMMITTED"}}

Repeats(j, seen) == import[j].status = "COMMITTED" \/ import[j].previous = seen

(* The transaction is over and has recorded nothing, as far as the request *)
(* can tell: the lock is free and the bytes are to be removed.             *)
Undo(s) ==
    /\ phase' = [phase EXCEPT ![s] = "undo"]
    /\ week' = IF week = s THEN Nil ELSE week
    /\ UNCHANGED <<req, snap>>

(* The draft that exists is answered, or that the content is published.    *)
Repeat(s) ==
    /\ phase[s] = "looked"
    /\ \E j \in Duplicates(req[s].content) : Repeats(j, req[s].seen)
    /\ Undo(s)
    /\ UNCHANGED <<store, dirty>>

Record(s) ==
    LET r == req[s] IN
    /\ phase[s] = "looked"
    /\ \/ Duplicates(r.content) = {}
       \/ \E j \in Duplicates(r.content) : ~ Repeats(j, r.seen)
    /\ import' = [import EXCEPT ![r.id] = [content |-> r.content, status |-> "DRAFT",
                                           previous |-> r.seen]]
    /\ \/ End(s)
       \/ "lost" \in Faults /\ Undo(s)
    /\ Changed({r.id})
    /\ UNCHANGED bytes

FailPreview(s) ==
    /\ phase[s] \in {"stored", "locked", "looked"} /\ req[s].op = "preview"
    /\ Undo(s)
    /\ UNCHANGED <<store, dirty>>

RemoveBytes(s) ==
    /\ phase[s] = "undo"
    /\ bytes' = bytes \ {req[s].id}
    /\ End(s)
    /\ UNCHANGED <<import, dirty>>

-----------------------------------------------------------------------------
(* Commit and revert.                                                      *)

(* The snapshot is taken by the first statement, before the lock.          *)
BeginChange(s) ==
    /\ phase[s] = "idle"
    /\ \E i \in Imports : \E r \in {[op |-> "commit", id |-> i, confirm |-> TRUE],
                                    [op |-> "commit", id |-> i, confirm |-> FALSE],
                                    [op |-> "revert", id |-> i]} :
          /\ Exists(i)
          /\ req' = [req EXCEPT ![s] = r]
    /\ phase' = [phase EXCEPT ![s] = "begun"]
    /\ snap' = [snap EXCEPT ![s] = import]
    /\ dirty' = [dirty EXCEPT ![s] = {}]
    /\ UNCHANGED <<store, week>>

(* Mutant: the draft is not compared with the revision it replaces.        *)
CanCommit_AnyPrevious(t, r) ==
    /\ t[r.id].status = "DRAFT" /\ t[r.id].content \in Valid
    /\ Current(t) # Nil => r.confirm /\ t[Current(t)].content # t[r.id].content

CanCommit(t, r) ==
    /\ t[r.id].status = "DRAFT" /\ t[r.id].content \in Valid
    /\ Current(t) = t[r.id].previous
    /\ Current(t) # Nil => r.confirm /\ t[Current(t)].content # t[r.id].content

CanRevert(t, r) ==
    /\ t[r.id].status = "COMMITTED"
    /\ t[r.id].previous # Nil => t[t[r.id].previous].status = "SUPERSEDED"

(* Mutant: the revision to be replaced is looked up, not updated.          *)
Touched_OwnRow(t, r) == {r.id}

Touched(t, r) == {r.id, t[r.id].previous} \ {Nil}

(* A row changed since the snapshot cannot be updated, and no second row   *)
(* may say COMMITTED (one_published_score_period).                         *)
Serializes(s) == Touched(snap[s], req[s]) \cap dirty[s] = {}
OneCurrent(t) == \A i, j \in Imports :
    t[i].status = "COMMITTED" /\ t[j].status = "COMMITTED" => i = j

(* Mutant: what was replaced is not restored.                              *)
Reverted_Forgets(r) == [import EXCEPT ![r.id].status = "REVERTED"]

Committed(r) ==
    [i \in Imports |->
        IF i = r.id THEN [import[i] EXCEPT !.status = "COMMITTED"]
        ELSE IF i = import[r.id].previous THEN [import[i] EXCEPT !.status = "SUPERSEDED"]
        ELSE import[i]]

Reverted(r) ==
    [i \in Imports |->
        IF i = r.id THEN [import[i] EXCEPT !.status = "REVERTED"]
        ELSE IF i = import[r.id].previous THEN [import[i] EXCEPT !.status = "COMMITTED"]
        ELSE import[i]]

Change(s) ==
    LET r == req[s] IN
    /\ phase[s] = "locked"
    /\ \/ r.op = "commit" /\ CanCommit(snap[s], r) /\ import' = Committed(r)
       \/ r.op = "revert" /\ CanRevert(snap[s], r) /\ import' = Reverted(r)
    /\ Serializes(s) /\ OneCurrent(import')
    /\ End(s)
    /\ Changed(Touched(snap[s], r))
    /\ UNCHANGED bytes

(* A refusal, a failure to serialize, a violated index or a lost           *)
(* connection: the transaction leaves nothing behind.                      *)
FailChange(s) ==
    /\ Reading(s)
    /\ End(s)
    /\ dirty' = [dirty EXCEPT ![s] = {}]
    /\ UNCHANGED store

(* The server stops: the database ends the transaction, stored bytes stay. *)
Crash(s) ==
    /\ "crash" \in Faults /\ phase[s] # "idle"
    /\ End(s)
    /\ dirty' = [dirty EXCEPT ![s] = {}]
    /\ UNCHANGED store

-----------------------------------------------------------------------------
Init ==
    /\ import = [i \in Imports |-> [content |-> CHOOSE c \in Contents : TRUE,
                                    previous |-> Nil, status |-> "ABSENT"]]
    /\ bytes = {}
    /\ phase = [s \in Sessions |-> "idle"]
    /\ req = [s \in Sessions |-> Nil]
    /\ snap = [s \in Sessions |-> Nil]
    /\ dirty = [s \in Sessions |-> {}]
    /\ week = Nil

Next == \E s \in Sessions :
    \/ Upload(s) \/ BeginChange(s) \/ Lock(s)
    \/ Look(s) \/ Repeat(s) \/ Record(s) \/ FailPreview(s) \/ RemoveBytes(s)
    \/ Change(s) \/ FailChange(s) \/ Crash(s)

Spec == Init /\ [][Next]_vars

-----------------------------------------------------------------------------
TypeOK ==
    /\ import \in [Imports -> ImportRow]
    /\ bytes \subseteq Imports
    /\ phase \in [Sessions -> {"idle", "stored", "begun", "locked", "looked", "undo"}]
    /\ req \in [Sessions -> Request \cup {Nil}]
    /\ snap \in [Sessions -> [Imports -> ImportRow] \cup {Nil}]
    /\ dirty \in [Sessions -> SUBSET Imports]
    /\ week \in Sessions \cup {Nil}

Live(i) == import[i].status \in {"COMMITTED", "SUPERSEDED"}

(* Taking back revision after revision from the published one passes every *)
(* superseded one, each once and each different in content from the next,  *)
(* so every one of them can be restored (service.ts:288 never fires),      *)
(* whatever the snapshots of concurrent commits and reverts were.          *)
Replaced[n \in 0 .. Cardinality(Imports)] ==
    IF n = 0 THEN Current(import)
    ELSE IF Replaced[n - 1] = Nil THEN Nil ELSE import[Replaced[n - 1]].previous
ChainSound ==
    LET chain == Range(Replaced) \ {Nil} IN
    /\ OneCurrent(import)
    /\ {i \in Imports : Live(i)} = chain
    /\ \A m, n \in DOMAIN Replaced :
          m # n /\ Replaced[m] # Nil => Replaced[m] # Replaced[n]
    /\ \A i \in chain : import[i].previous # Nil =>
          import[import[i].previous].content # import[i].content

(* What a commit or revert decided on its snapshot is true of the imports  *)
(* as they are when it gets through: looking at the past never publishes   *)
(* over a revision the preview did not show.                               *)
SnapshotSuffices ==
    \A s \in Sessions : phase[s] = "locked" /\ Reading(s) /\ Serializes(s) =>
        LET r == req[s] IN
        /\ r.op = "commit" /\ CanCommit(snap[s], r) /\ OneCurrent(Committed(r)) =>
              CanCommit(import, r)
        /\ r.op = "revert" /\ CanRevert(snap[s], r) => CanRevert(import, r)

(* The source of every import can be downloaded ("Original source bytes    *)
(* are retained privately", docs/STAGE-14A.md): previews that fail, repeat *)
(* or race remove bytes of their own only.                                 *)
SourceRetained == \A i \in Imports : Exists(i) => i \in bytes

(* Each committed transaction is one atomic step of Revisions.             *)
Abstract == INSTANCE Revisions WITH
    top     <- Current(import),
    under   <- {<<i, import[i].previous>> : i \in {j \in Imports : Live(j)}},
    drafts  <- {<<i, import[i].previous>> :
                   i \in {j \in Imports : import[j].status = "DRAFT"}},
    retired <- {i \in Imports : import[i].status = "REVERTED"}

ImplementsRevisions == Abstract!RevisionsSpec
=============================================================================
