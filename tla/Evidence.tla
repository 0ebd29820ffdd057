------------------------------ MODULE Evidence ------------------------------
(***************************************************************************)
(* Bytes outside the database: uploads (src/src/features/uploads) and      *)
(* vehicle inspections (src/src/features/inspections), with the form the   *)
(* driver fills in (src/src/components/vehicle-inspections.tsx).           *)
(*                                                                         *)
(* The server first checks without locks, then stores the bytes one by     *)
(* one, then checks again under row locks and writes the rows that name    *)
(* them.  What is left in the store when any of this fails is the matter   *)
(* of this module.  One driver, whose duty is the running shift and the    *)
(* assignment an inspection is for.                                        *)
(***************************************************************************)
EXTENDS Values, Naturals, FiniteSets

CONSTANTS
    Attempts,       \* requests the server handles, each once
    Visits,         \* shift and assignment together
    RequestIds,     \* identifiers the form draws
    Photos          \* number of files of a report

VARIABLES
    duty,           \* the visit an inspection is accepted for now, or Nil
    assigned,       \* whether the vehicle is assigned to the driver
    bytes,          \* keys in the private store: an attempt and a number
    object,         \* attempts whose rows are committed, READY objects included
    inspection,     \* VehicleInspection
    document,       \* Document
    attempt,        \* requests under way on the server
    excused,        \* attempts the server lost track of
    form            \* the form and the list above it

evidence == <<duty, assigned, bytes, object, inspection, document, attempt, excused, form>>

ASSUME EvidenceAssumption ==
    /\ Photos \in Nat
    /\ Nil \notin Attempts \cup {"driver", "inspect", "photo", "document", "ok"}

KeysOf(a)   == {<<a, n>> : n \in 1..attempt[a].stored}
Size(a)     == IF attempt[a].op = "document" THEN 1 ELSE Photos
Inspects(a) == attempt[a].op = "inspect"
Known(id)   == \E i \in inspection : i.id = id
Archived(d) == \E x \in document : x.by = d /\ x.archived

(* Rows locked FOR UPDATE from the second check to the end: the driver,    *)
(* with the shift and the vehicle of the visit, or the document renewed.   *)
LockOf(a) == IF attempt[a].op = "document" THEN attempt[a].replaces ELSE "driver"
Locked(row) == \E a \in Attempts : attempt[a].phase = "checked" /\ LockOf(a) = row /\ row # Nil

NoAttempt == [phase |-> "free", op |-> Nil, id |-> Nil, visit |-> Nil, replaces |-> Nil,
         stored |-> 0, answer |-> Nil, client |-> "gone"]

Arrive(r, client) ==
    \E a \in Attempts :
        /\ attempt[a].phase = "free"
        /\ attempt' = [attempt EXCEPT ![a] =
                         [NoAttempt EXCEPT !.phase = "arrived", !.op = r.op, !.id = r.id,
                            !.visit = r.visit, !.replaces = r.replaces, !.client = client]]

(* The answer is kept for whoever hears it: the form that waits for it, or *)
(* one that was left meanwhile.                                            *)
Waiting(a)  == attempt[a].client = "here"
Heard(a, x) == IF attempt[a].client = "gone" THEN Nil ELSE x
Reply(a, answer, phase) ==
    attempt' = [attempt EXCEPT ![a].phase = phase, ![a].answer = Heard(a, answer)]
Unheard(a)  == [attempt[a] EXCEPT !.client = "gone", !.answer = Nil]

-----------------------------------------------------------------------------
(* An upload replaces nothing or a document; a photo needs the assignment. *)

BeginUpload ==
    /\ \/ Arrive([op |-> "photo", id |-> Nil, visit |-> Nil, replaces |-> Nil], "gone")
       \/ \E d \in {x.by : x \in document} \cup {Nil} :
            Arrive([op |-> "document", id |-> Nil, visit |-> Nil, replaces |-> d], "gone")
    /\ UNCHANGED <<duty, assigned, bytes, object, inspection, document, excused, form>>

(* An inspection that is known is answered, not booked again; otherwise it *)
(* needs the visit it names, now, and no inspection of that visit.         *)
Replayed(a)   == Inspects(a) /\ Known(attempt[a].id)
Admissible(a) ==
    LET r == attempt[a]
    IN  CASE r.op = "inspect" -> /\ duty = r.visit
                                 /\ \A i \in inspection : i.visit # r.visit
          [] r.op = "photo" -> assigned
          [] r.op = "document" -> r.replaces # Nil => ~ Archived(r.replaces)

(* The first check.  Documents to be renewed are looked up later.          *)
CheckEarly(a) ==
    /\ attempt[a].phase = "arrived"
    /\ \/ Replayed(a) /\ Reply(a, "ok", "done")
       \/ ~ Replayed(a) /\ ~ Admissible(a) /\ attempt[a].op # "document"
            /\ Reply(a, "refused", "done")
       \/ ~ Replayed(a) /\ (Admissible(a) \/ attempt[a].op = "document")
            /\ Reply(a, Nil, "storing")
    /\ UNCHANGED <<duty, assigned, bytes, object, inspection, document, excused, form>>

(* storeBytes for the next file; a picture that cannot be decoded is       *)
(* refused, a store that fails is an error.                                *)
StoreNext(a) ==
    /\ attempt[a].phase = "storing" /\ attempt[a].stored < Size(a)
    /\ \/ /\ bytes' = bytes \cup {<<a, attempt[a].stored + 1>>}
          /\ attempt' = [attempt EXCEPT ![a].stored = @ + 1]
       \/ /\ \E answer \in {"refused", "failed"} : Reply(a, answer, "cleanup")
          /\ UNCHANGED bytes
    /\ UNCHANGED <<duty, assigned, object, inspection, document, excused, form>>

(* Mutant: the bytes of a repeated inspection stay.                        *)
CheckLate_KeepsReplayed(a) ==
    /\ attempt[a].phase = "storing" /\ attempt[a].stored = Size(a)
    /\ ~ Locked(LockOf(a))
    /\ \/ Replayed(a) /\ Reply(a, "ok", "done")
       \/ ~ Replayed(a) /\ ~ Admissible(a) /\ Reply(a, "refused", "cleanup")
       \/ ~ Replayed(a) /\ Admissible(a) /\ Reply(a, Nil, "checked")
    /\ UNCHANGED <<duty, assigned, bytes, object, inspection, document, excused, form>>

(* Mutant: what was found before the bytes were stored still counts.       *)
CheckLate_TrustsEarly(a) ==
    /\ attempt[a].phase = "storing" /\ attempt[a].stored = Size(a)
    /\ ~ Locked(LockOf(a))
    /\ \/ Replayed(a) /\ Reply(a, "ok", "cleanup")
       \/ ~ Replayed(a) /\ Reply(a, Nil, "checked")
    /\ UNCHANGED <<duty, assigned, bytes, object, inspection, document, excused, form>>

(* The transaction: locks, then the same checks again.                     *)
CheckLate(a) ==
    /\ attempt[a].phase = "storing" /\ attempt[a].stored = Size(a)
    /\ ~ Locked(LockOf(a))
    /\ \/ Replayed(a) /\ Reply(a, "ok", "cleanup")
       \/ ~ Replayed(a) /\ ~ Admissible(a) /\ Reply(a, "refused", "cleanup")
       \/ ~ Replayed(a) /\ Admissible(a) /\ Reply(a, Nil, "checked")
    /\ UNCHANGED <<duty, assigned, bytes, object, inspection, document, excused, form>>

Written(a) ==
    /\ object' = object \cup {a}
    /\ inspection' = IF Inspects(a)
                     THEN inspection \cup {[id |-> attempt[a].id, visit |-> attempt[a].visit, by |-> a]}
                     ELSE inspection
    /\ document' = IF attempt[a].op = "document"
                   THEN {[x EXCEPT !.archived = @ \/ x.by = attempt[a].replaces] : x \in document}
                          \cup {[by |-> a, replaces |-> attempt[a].replaces, archived |-> FALSE]}
                   ELSE document

Commit(a) ==
    /\ attempt[a].phase = "checked"
    /\ Written(a) /\ Reply(a, "ok", "done")
    /\ UNCHANGED <<duty, assigned, bytes, excused, form>>

(* COMMIT itself fails: perhaps it took effect and only its answer is      *)
(* lost.  An inspection leaves its bytes, an upload removes them.          *)
Interrupted(a) ==
    /\ attempt[a].phase = "checked"
    /\ \/ Written(a)
       \/ UNCHANGED <<object, inspection, document>>
    /\ excused' = excused \cup {a}
    /\ Reply(a, "failed", IF Inspects(a) THEN "done" ELSE "cleanup")
    /\ UNCHANGED <<duty, assigned, bytes, form>>

(* A statement of the transaction fails: it is known to be undone.         *)
RolledBack(a) ==
    /\ attempt[a].phase = "checked"
    /\ Reply(a, "failed", "cleanup")
    /\ UNCHANGED <<duty, assigned, bytes, object, inspection, document, excused, form>>

(* Removal of what was stored, each file on its own; some may fail.        *)
CleanUp(a) ==
    /\ attempt[a].phase = "cleanup"
    /\ \E left \in SUBSET KeysOf(a) :
         /\ bytes' = (bytes \ KeysOf(a)) \cup left
         /\ excused' = IF left = {} THEN excused ELSE excused \cup {a}
    /\ attempt' = [attempt EXCEPT ![a].phase = "done"]
    /\ UNCHANGED <<duty, assigned, object, inspection, document, form>>

(* The process stops: nothing is answered and nothing removed.             *)
Crash ==
    LET alive == {a \in Attempts : attempt[a].phase \notin {"free", "done"}}
    IN  /\ alive # {}
        /\ attempt' = [a \in Attempts |-> IF a \in alive
                         THEN [attempt[a] EXCEPT !.phase = "done",
                                    !.answer = Heard(a, "failed")]
                         ELSE attempt[a]]
        /\ excused' = excused \cup alive
        /\ UNCHANGED <<duty, assigned, bytes, object, inspection, document, form>>

(* The shift is paused, resumed or ended, the assignment closed, the       *)
(* vehicle or the driver retired: all lock one of the rows.                *)
DutyChanges ==
    /\ ~ Locked("driver")
    /\ duty' \in Visits \cup {Nil} /\ assigned' \in BOOLEAN
    /\ duty' # Nil => assigned'
    /\ UNCHANGED <<bytes, object, inspection, document, attempt, excused, form>>

(* A document is archived without a lock, after it was found unarchived.   *)
RetireDocument ==
    /\ \E x \in document :
         /\ ~ x.archived /\ ~ Locked(x.by)
         /\ document' = (document \ {x}) \cup {[x EXCEPT !.archived = TRUE]}
    /\ UNCHANGED <<duty, assigned, bytes, object, inspection, attempt, excused, form>>

-----------------------------------------------------------------------------
(* The form.  It belongs to the visit the list showed when it was loaded;  *)
(* its draft, with the request not yet confirmed, outlives navigation, and *)
(* gives way to the draft of another visit.                                *)

NoForm == [visit |-> Nil, open |-> FALSE, pending |-> Nil, received |-> Nil]

Abandoned == [a \in Attempts |-> IF Waiting(a) THEN [attempt[a] EXCEPT !.client = "left"]
                                 ELSE attempt[a]]

(* inspectionList and the mount of the form: for the visit of now, or the  *)
(* one that is paused, unless it has its inspection.                       *)
LoadForm ==
    /\ \E v \in Visits :
         /\ v = duty \/ (duty = Nil /\ v = form.visit)
         /\ \A i \in inspection : i.visit # v
         /\ v # form.visit \/ ~ form.open
         /\ form' = [visit |-> v, open |-> TRUE, received |-> Nil,
                     pending |-> IF v = form.visit THEN form.pending ELSE Nil]
    /\ attempt' = Abandoned
    /\ UNCHANGED <<duty, assigned, bytes, object, inspection, document, excused>>

(* The driver leaves the page, or the list shows no form any more.         *)
Leave ==
    /\ form.open
    /\ form' = [form EXCEPT !.open = FALSE, !.received = Nil]
    /\ attempt' = Abandoned
    /\ UNCHANGED <<duty, assigned, bytes, object, inspection, document, excused>>

SendReport(id) ==
    /\ \A a \in Attempts : ~ Waiting(a)
    /\ form.open /\ form.received = Nil
    /\ Arrive([op |-> "inspect", id |-> id, visit |-> form.visit, replaces |-> Nil], "here")
    /\ form' = [form EXCEPT !.pending = id]
    /\ UNCHANGED <<duty, assigned, bytes, object, inspection, document, excused>>

(* A new request has a new identifier, a repeated one the old.             *)
SubmitReport ==
    /\ form.pending = Nil
    /\ \E id \in RequestIds : (\A a \in Attempts : attempt[a].id # id) /\ SendReport(id)
Resend == form.pending # Nil /\ SendReport(form.pending)

(* Mutant: any answer counts as a receipt.                                 *)
Hear_Anything(a) ==
    /\ Waiting(a) /\ attempt[a].phase = "done"
    /\ form' = [form EXCEPT !.received = attempt[a].id, !.pending = Nil]
    /\ attempt' = [attempt EXCEPT ![a] = Unheard(a)]
    /\ UNCHANGED <<duty, assigned, bytes, object, inspection, document, excused>>

(* A receipt for this request, a refusal, which frees the form, or an      *)
(* error, after which the request stays to be repeated.  For a form left   *)
(* meanwhile a receipt still ends the draft.                               *)
Hear(a) ==
    /\ attempt[a].client # "gone" /\ attempt[a].phase = "done"
    /\ form' = CASE Waiting(a) /\ attempt[a].answer = "ok" ->
                      [form EXCEPT !.received = attempt[a].id, !.pending = Nil]
                 [] Waiting(a) /\ attempt[a].answer = "refused" -> [form EXCEPT !.pending = Nil]
                 [] ~ Waiting(a) /\ attempt[a].answer = "ok"
                      /\ ~ form.open /\ form.pending = attempt[a].id -> [form EXCEPT !.pending = Nil]
                 [] OTHER -> form
    /\ attempt' = [attempt EXCEPT ![a] = Unheard(a)]
    /\ UNCHANGED <<duty, assigned, bytes, object, inspection, document, excused>>

(* After a minute, or when the connection breaks, nobody waits any more.   *)
TimeOut(a) ==
    /\ attempt[a].client # "gone"
    /\ attempt' = [attempt EXCEPT ![a] = Unheard(a)]
    /\ UNCHANGED <<duty, assigned, bytes, object, inspection, document, excused, form>>

-----------------------------------------------------------------------------
EvidenceInit ==
    /\ duty = Nil /\ assigned = FALSE /\ bytes = {} /\ object = {} /\ inspection = {} /\ document = {}
    /\ attempt = [a \in Attempts |-> NoAttempt]
    /\ excused = {} /\ form = NoForm

EvidenceNext ==
    \/ BeginUpload \/ Crash \/ DutyChanges \/ RetireDocument
    \/ LoadForm \/ Leave \/ SubmitReport \/ Resend
    \/ \E a \in Attempts : \/ CheckEarly(a) \/ StoreNext(a) \/ CheckLate(a) \/ Commit(a)
                           \/ Interrupted(a) \/ RolledBack(a) \/ CleanUp(a)
                           \/ Hear(a) \/ TimeOut(a)

EvidenceSpec == EvidenceInit /\ [][EvidenceNext]_evidence

-----------------------------------------------------------------------------
(* Every photo of an inspection is in the store, however its request ended *)
(* (service.ts:288, "an in-flight commit may not yet be visible"); so are  *)
(* the files of an upload unless the answer to its COMMIT was lost; and    *)
(* nothing else is in the store but what a request under way, a crash, a   *)
(* lost answer or a failed removal left there.                             *)
BytesMatchRows ==
    \A a \in Attempts :
        LET mine == {k \in bytes : k[1] = a}
            all  == {<<a, n>> : n \in 1..Size(a)}
        IN  /\ a \in object /\ (Inspects(a) \/ a \notin excused) => mine = all
            /\ attempt[a].phase = "done" /\ a \notin excused
                 => mine = IF a \in object THEN all ELSE {}

(* However often the form sends, and the server handles requests for it at *)
(* the same time, a visit has one inspection, and what the driver is shown *)
(* as received is that one.                                                *)
ReportedOnce ==
    /\ \A i, j \in inspection : i.visit = j.visit \/ i.id = j.id => i = j
    /\ form.received # Nil => \E i \in inspection : i.id = form.received /\ i.visit = form.visit

(* An inspection or a photo is booked only while the driver is on that     *)
(* shift with that vehicle, though the request came long before.           *)
BooksOnDuty ==
    \A a \in object' \ object : /\ attempt[a].op = "inspect" => attempt[a].visit = duty
                                /\ attempt[a].op = "photo" => assigned

(* Renewals form a chain: a document is renewed once and out of use then.  *)
RenewedOnce ==
    \A x, y \in document :
        /\ x.replaces = y.replaces /\ x.replaces # Nil => x = y
        /\ x.replaces = y.by => y.archived
=============================================================================
