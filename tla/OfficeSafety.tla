---------------------------- MODULE OfficeSafety ----------------------------
(***************************************************************************)
(* What the parts of Office promise, proved part by part.  Each theorem    *)
(* rests on an inductive invariant of its part, which says nothing of a    *)
(* part that rests.                                                        *)
(***************************************************************************)
EXTENDS Office, FiniteSetTheorems, TLAPS

(***************************************************************************)
(* Evidence.  The store holds what a request under way has put there, or   *)
(* what its rows name; rows are written under a lock that keeps what the   *)
(* second check found; and the form knows of one request only.             *)
(***************************************************************************)
Phases == {"free", "arrived", "storing", "checked", "cleanup", "done"}
Request ==
    [phase : Phases, op : {Nil, "photo", "document", "inspect"}, id : RequestIds \cup {Nil},
     visit : Visits \cup {Nil}, replaces : Attempts \cup {Nil}, stored : Nat,
     answer : {Nil, "ok", "refused", "failed"}, client : {"gone", "here", "left"}]
Report == [id : RequestIds \cup {Nil}, visit : Visits \cup {Nil}, by : Attempts]
Paper  == [by : Attempts, replaces : Attempts \cup {Nil}, archived : BOOLEAN]
Page   == [visit : Visits \cup {Nil}, open : BOOLEAN, pending : RequestIds \cup {Nil},
           received : RequestIds \cup {Nil}]

EvidenceTypes ==
    /\ attempt \in [Attempts -> Request] /\ inspection \subseteq Report /\ document \subseteq Paper
    /\ form \in Page

Mine(a) == {k \in bytes : k[1] = a}
All(a)  == {<<a, n>> : n \in 1..Size(a)}

(* What the store holds for a request, by its phase.                       *)
Stored(a) ==
    /\ attempt[a].phase \in {"free", "arrived"} => attempt[a].stored = 0
    /\ attempt[a].phase = "checked" => attempt[a].stored = Size(a)
    /\ attempt[a].phase # "done" => Mine(a) = KeysOf(a)
    /\ attempt[a].phase \notin {"cleanup", "done"} => a \notin object /\ a \notin excused
    /\ attempt[a].phase = "cleanup" /\ a \in object => a \in excused /\ ~ Inspects(a)
    /\ attempt[a].phase = "done" =>
         /\ a \in object /\ (Inspects(a) \/ a \notin excused) => Mine(a) = All(a)
         /\ a \notin excused => Mine(a) = IF a \in object THEN All(a) ELSE {}

(* What the second check found stands until the rows are written.          *)
Checked(a) ==
    /\ attempt[a].op = "inspect" =>
         /\ attempt[a].visit = duty
         /\ \A i \in inspection : i.visit # attempt[a].visit /\ i.id # attempt[a].id
    /\ attempt[a].op = "photo" => assigned
    /\ attempt[a].op = "document" /\ attempt[a].replaces # Nil => ~ Archived(attempt[a].replaces)

Held ==
    /\ \A a, b \in Attempts :
         attempt[a].phase = "checked" /\ attempt[b].phase = "checked" /\ LockOf(a) = LockOf(b)
            /\ LockOf(a) # Nil => a = b
    /\ \A a \in Attempts : attempt[a].phase = "checked" => Checked(a)

(* A request is for the visit its identifier was drawn for.                *)
Talk ==
    /\ \A a \in Attempts : (attempt[a].phase = "free") <=> (attempt[a].op = Nil)
    /\ \A a \in Attempts : attempt[a].client # "gone" => Inspects(a)
    /\ \A a \in Attempts : Waiting(a) => attempt[a].visit = form.visit
    /\ \A a, b \in Attempts :
         Inspects(a) /\ Inspects(b) /\ attempt[a].id = attempt[b].id => attempt[a].visit = attempt[b].visit
    /\ \A a \in Attempts :
         Inspects(a) /\ attempt[a].id = form.pending /\ form.pending # Nil
            => attempt[a].visit = form.visit
    /\ \A a \in Attempts : Inspects(a) /\ attempt[a].answer = "ok" => Known(attempt[a].id)
    /\ \A i \in inspection :
         Inspects(i.by) /\ attempt[i.by].id = i.id /\ attempt[i.by].visit = i.visit

(* A renewed document is there, and out of use.                            *)
Renewals ==
    /\ RenewedOnce
    /\ \A x \in document : x.by \in object /\ (x.replaces # Nil => \E y \in document : x.replaces = y.by)
    /\ \A a \in Attempts : attempt[a].replaces # Nil => \E y \in document : attempt[a].replaces = y.by

EvidenceInv ==
    EvidenceTypes /\ (\A a \in Attempts : Stored(a)) /\ Held /\ Talk /\ ReportedOnce /\ Renewals

EvidencePart == part = "evidence" => EvidenceInv

(* The parts of a row that its arrival fixes.                              *)
Same(a) ==
    /\ attempt'[a].op = attempt[a].op /\ attempt'[a].id = attempt[a].id
    /\ attempt'[a].visit = attempt[a].visit /\ attempt'[a].replaces = attempt[a].replaces

LEMMA Requested ==
    ASSUME EvidenceTypes, NEW a \in Attempts
    PROVE  /\ attempt[a] \in Request /\ attempt[a].phase \in Phases /\ attempt[a].stored \in Nat
           /\ attempt[a].op \in {Nil, "photo", "document", "inspect"}
           /\ attempt[a].id \in RequestIds \cup {Nil} /\ attempt[a].visit \in Visits \cup {Nil}
           /\ attempt[a].replaces \in Attempts \cup {Nil}
           /\ attempt[a].answer \in {Nil, "ok", "refused", "failed"}
           /\ attempt[a].client \in {"gone", "here", "left"}
  BY DEF EvidenceTypes, Request

LEMMA Replied ==
    ASSUME EvidenceTypes, NEW a \in Attempts, NEW x \in {Nil, "ok", "refused", "failed"},
           NEW p \in Phases, Reply(a, x, p)
    PROVE  /\ attempt' \in [Attempts -> Request]
           /\ \A b \in Attempts : /\ Same(b) /\ attempt'[b].client = attempt[b].client
                                  /\ attempt'[b].stored = attempt[b].stored
           /\ \A b \in Attempts \ {a} : attempt'[b] = attempt[b]
           /\ attempt'[a].phase = p /\ attempt'[a].answer \in {Nil, x}
<1> DEFINE h == Heard(a, x)
<1>1. h \in {Nil, x}
  BY DEF Heard
<1>2. attempt' = [attempt EXCEPT ![a] = [attempt[a] EXCEPT !.phase = p, !.answer = h]]
  BY DEF Reply, EvidenceTypes
<1> HIDE DEF h
<1>3. [attempt[a] EXCEPT !.phase = p, !.answer = h] \in Request
  BY <1>1, Requested DEF Request
<1>4. attempt' \in [Attempts -> Request] /\ attempt'[a] = [attempt[a] EXCEPT !.phase = p, !.answer = h]
      /\ \A b \in Attempts \ {a} : attempt'[b] = attempt[b]
  BY <1>2, <1>3 DEF EvidenceTypes
<1>5. attempt'[a].phase = p /\ attempt'[a].answer = h /\ attempt'[a].client = attempt[a].client
      /\ attempt'[a].stored = attempt[a].stored /\ Same(a)
  BY <1>4, Requested DEF Same, Request
<1>6. QED BY <1>1, <1>4, <1>5 DEF Same

(* Where nothing is written, rows and what is known of them stay.          *)
LEMMA RenewalsStay ==
    ASSUME Renewals, document' = document, object' = object, \A a \in Attempts : Same(a)
    PROVE  Renewals'
  BY DEF Renewals, RenewedOnce, Same

LEMMA HeldStays ==
    ASSUME Held, UNCHANGED <<duty, assigned, inspection, document>>, \A a \in Attempts : Same(a),
           \A a \in Attempts : attempt'[a].phase = "checked" => attempt[a].phase = "checked"
    PROVE  Held'
<1>1. \A a \in Attempts : LockOf(a)' = LockOf(a)
  BY DEF LockOf, Same
<1>2. ASSUME NEW a \in Attempts, Checked(a) PROVE Checked(a)'
  BY <1>2 DEF Checked, Archived, Same
<1>3. QED BY <1>1, <1>2 DEF Held

LEMMA TalkStays ==
    ASSUME Talk, ReportedOnce, UNCHANGED <<inspection, form>>, \A a \in Attempts : Same(a),
           \A i \in inspection : i.by \in Attempts,
           \A a \in Attempts :
              /\ (attempt'[a].phase = "free") <=> (attempt[a].phase = "free")
              /\ attempt'[a].client \in {"gone", attempt[a].client}
              /\ \/ attempt'[a].answer \in {Nil, "refused", "failed", attempt[a].answer}
                 \/ Known(attempt[a].id)
    PROVE  Talk' /\ ReportedOnce'
<1>1. \A a \in Attempts : Inspects(a)' <=> Inspects(a)
  BY DEF Inspects, Same
<1>2. \A a \in Attempts : Known(attempt[a].id)' <=> Known(attempt[a].id)
  BY DEF Known, Same
<1>3. ReportedOnce'
  BY DEF ReportedOnce
<1>4. ASSUME NEW a \in Attempts, Inspects(a)', attempt'[a].answer = "ok" PROVE Known(attempt[a].id)'
  BY <1>1, <1>2, <1>4, EvidenceAssumption DEF Talk
<1>5. ASSUME NEW a \in Attempts
      PROVE  /\ (attempt'[a].phase = "free") <=> (attempt'[a].op = Nil)
             /\ attempt'[a].client # "gone" => Inspects(a)'
             /\ Waiting(a)' => attempt'[a].visit = form'.visit
             /\ Inspects(a)' /\ attempt'[a].id = form'.pending /\ form'.pending # Nil
                   => attempt'[a].visit = form'.visit
  BY <1>1 DEF Talk, Same, Waiting
<1>6. ASSUME NEW a \in Attempts, NEW b \in Attempts, Inspects(a)', Inspects(b)', attempt'[a].id = attempt'[b].id
      PROVE  attempt'[a].visit = attempt'[b].visit
  BY <1>1, <1>6 DEF Talk, Same
<1>7. ASSUME NEW i \in inspection
      PROVE  Inspects(i.by)' /\ attempt'[i.by].id = i.id /\ attempt'[i.by].visit = i.visit
  BY <1>1, <1>7 DEF Talk, Same
<1>8. QED BY <1>3, <1>4, <1>5, <1>6, <1>7 DEF Talk

LEMMA StoredStays ==
    ASSUME NEW a \in Attempts, Stored(a), Same(a), attempt'[a].phase = attempt[a].phase,
           attempt'[a].stored = attempt[a].stored, Mine(a)' = Mine(a),
           (a \in object)' <=> a \in object, (a \in excused)' <=> a \in excused
    PROVE  Stored(a)'
<1>1. Size(a)' = Size(a) /\ All(a)' = All(a) /\ KeysOf(a)' = KeysOf(a) /\ (Inspects(a)' <=> Inspects(a))
  BY DEF Size, All, KeysOf, Inspects, Same
<1>2. QED BY <1>1 DEF Stored

LEMMA NothingStored ==
    ASSUME NEW a \in Attempts, attempt[a].stored = 0 PROVE KeysOf(a) = {}
  BY DEF KeysOf

Posted == [op : {"photo", "document", "inspect"}, id : RequestIds \cup {Nil}, visit : Visits \cup {Nil},
           replaces : Attempts \cup {Nil}]

Received(r, c) ==
    [NoAttempt EXCEPT !.phase = "arrived", !.op = r.op, !.id = r.id,
                      !.visit = r.visit, !.replaces = r.replaces, !.client = c]

LEMMA ReceivedRow ==
    ASSUME NEW r \in Posted, NEW c \in {"gone", "here"}
    PROVE  LET new == Received(r, c) IN
           /\ new \in Request /\ new.phase = "arrived" /\ new.op = r.op /\ new.id = r.id
           /\ new.visit = r.visit /\ new.replaces = r.replaces /\ new.stored = 0 /\ new.answer = Nil
           /\ new.client = c
<1>1. NoAttempt \in Request
  BY DEF NoAttempt, Request, Phases
<1>2. NoAttempt.stored = 0 /\ NoAttempt.answer = Nil
  BY DEF NoAttempt
<1>3. QED BY <1>1, <1>2 DEF Received, Request, Posted, Phases

LEMMA Arrived ==
    ASSUME EvidenceInv, NEW r \in Posted, NEW c \in {"gone", "here"},
           UNCHANGED <<duty, assigned, bytes, object, inspection, document, excused>>,
           NEW a \in Attempts, attempt[a].phase = "free",
           attempt' = [attempt EXCEPT ![a] =
                         [NoAttempt EXCEPT !.phase = "arrived", !.op = r.op, !.id = r.id,
                            !.visit = r.visit, !.replaces = r.replaces, !.client = c]]
    PROVE  /\ attempt' \in [Attempts -> Request]
           /\ attempt'[a].op = r.op /\ attempt'[a].id = r.id /\ attempt'[a].visit = r.visit
           /\ attempt'[a].replaces = r.replaces /\ attempt'[a].client = c
           /\ attempt'[a].phase = "arrived" /\ attempt'[a].answer = Nil
           /\ \A b \in Attempts \ {a} : attempt'[b] = attempt[b] /\ Same(b)
           /\ Held' /\ \A b \in Attempts : Stored(b)'
<1> USE DEF EvidenceInv
<1> DEFINE new == Received(r, c)
<1>1. /\ new.phase = "arrived" /\ new.op = r.op /\ new.id = r.id /\ new.visit = r.visit
      /\ new.replaces = r.replaces /\ new.stored = 0 /\ new.answer = Nil /\ new.client = c
  BY ReceivedRow
<1>2. new \in Request
  BY ReceivedRow
<1>3. attempt' = [attempt EXCEPT ![a] = new]
  BY DEF Received
<1> HIDE DEF new
<1>4. /\ attempt' \in [Attempts -> Request]
      /\ attempt'[a] = new
      /\ \A b \in Attempts \ {a} : attempt'[b] = attempt[b]
  BY <1>2, <1>3 DEF EvidenceTypes
<1>5. \A b \in Attempts \ {a} : attempt'[b] = attempt[b] /\ Same(b)
  BY <1>4 DEF Same
<1>6. Held'
  <2>1. \A b \in Attempts : attempt'[b].phase = "checked" => b # a /\ attempt[b].phase = "checked"
    BY <1>1, <1>4
  <2>2. \A b \in Attempts \ {a} : LockOf(b)' = LockOf(b)
    BY <1>4 DEF LockOf
  <2>3. ASSUME NEW b \in Attempts \ {a}, Checked(b) PROVE Checked(b)'
    BY <1>4, <2>3 DEF Checked, Archived
  <2>4. QED BY <2>1, <2>2, <2>3 DEF Held
<1>7. ASSUME NEW b \in Attempts PROVE Stored(b)'
  <2>1. CASE b # a
    BY <1>5, <2>1, StoredStays DEF Mine
  <2>2. CASE b = a
    <3>1. Mine(a)' = {} /\ a \notin object' /\ a \notin excused'
      <4>1. Stored(a) /\ KeysOf(a) = {}
        BY NothingStored DEF Stored
      <4>2. Mine(a) = {} /\ a \notin object /\ a \notin excused
        BY <4>1 DEF Stored
      <4>3. QED BY <4>2 DEF Mine
    <3>2. attempt'[a].stored = 0 /\ attempt'[a].phase = "arrived"
      BY <1>1, <1>4
    <3>3. KeysOf(a)' = {}
      BY <3>2 DEF KeysOf
    <3>4. QED BY <2>2, <3>1, <3>2, <3>3 DEF Stored
  <2>3. QED BY <2>1, <2>2
<1>8. QED BY <1>1, <1>4, <1>5, <1>6, <1>7

LEMMA BeginUploadStep == EvidenceInv /\ BeginUpload => EvidenceInv'
<1> SUFFICES ASSUME EvidenceInv, BeginUpload PROVE EvidenceInv'
  OBVIOUS
<1> USE DEF EvidenceInv
<1>1. UNCHANGED <<duty, assigned, bytes, object, inspection, document, excused, form>>
  BY DEF BeginUpload
<1>2. ASSUME NEW r \in Posted, r.op # "inspect", r.replaces # Nil => \E y \in document : r.replaces = y.by,
             Arrive(r, "gone")
      PROVE  EvidenceInv'
  <2>1. PICK a \in Attempts :
          /\ attempt[a].phase = "free"
          /\ attempt' = [attempt EXCEPT ![a] =
                         [NoAttempt EXCEPT !.phase = "arrived", !.op = r.op, !.id = r.id,
                            !.visit = r.visit, !.replaces = r.replaces, !.client = "gone"]]
    BY <1>2 DEF Arrive
  <2>2. /\ attempt' \in [Attempts -> Request] /\ attempt'[a].phase = "arrived"
        /\ attempt'[a].op = r.op /\ attempt'[a].client = "gone" /\ attempt'[a].replaces = r.replaces
        /\ \A b \in Attempts \ {a} : attempt'[b] = attempt[b] /\ Same(b)
        /\ Held' /\ \A b \in Attempts : Stored(b)'
    BY <1>1, <2>1, Arrived
  <2>3. EvidenceTypes'
    BY <1>1, <2>2 DEF EvidenceTypes
  <2>4. Renewals'
    BY <1>1, <1>2, <2>2 DEF Renewals, RenewedOnce
  <2>5. ReportedOnce'
    BY <1>1 DEF ReportedOnce
  <2>6. Talk'
    <3>1. ~ Inspects(a)' /\ attempt'[a].op # Nil /\ \A b \in Attempts \ {a} : Inspects(b)' <=> Inspects(b)
      BY <1>2, <2>2, EvidenceAssumption DEF Inspects, Posted
    <3>2. \A i \in inspection : i.by \in Attempts /\ i.by # a
      BY <2>1, EvidenceAssumption DEF Talk, Inspects, EvidenceTypes, Report
    <3>3. \A b \in Attempts : Known(attempt[b].id)' <=> Known(attempt'[b].id)
      BY <1>1 DEF Known
    <3>4. \A b \in Attempts \ {a} : Known(attempt[b].id) <=> Known(attempt[b].id)'
      BY <1>1, <2>2 DEF Known
    <3>5. QED BY <1>1, <2>2, <3>1, <3>2, <3>4 DEF Talk, Waiting
  <2>7. QED BY <2>2, <2>3, <2>4, <2>5, <2>6
<1>3. CASE Arrive([op |-> "photo", id |-> Nil, visit |-> Nil, replaces |-> Nil], "gone")
  <2>1. [op |-> "photo", id |-> Nil, visit |-> Nil, replaces |-> Nil] \in Posted
    BY DEF Posted
  <2>2. QED BY <1>2, <1>3, <2>1
<1>4. ASSUME NEW d \in {x.by : x \in document} \cup {Nil},
             Arrive([op |-> "document", id |-> Nil, visit |-> Nil, replaces |-> d], "gone")
      PROVE  EvidenceInv'
  <2>1. d \in Attempts \cup {Nil} /\ (d # Nil => \E y \in document : d = y.by)
    BY DEF EvidenceTypes, Paper
  <2>2. [op |-> "document", id |-> Nil, visit |-> Nil, replaces |-> d] \in Posted
    BY <2>1 DEF Posted
  <2>3. QED BY <1>2, <1>4, <2>1, <2>2
<1>5. QED BY <1>3, <1>4 DEF BeginUpload

LEMMA SendStep ==
    ASSUME EvidenceInv, NEW id \in RequestIds, SendReport(id),
           form.pending = Nil => \A b \in Attempts : attempt[b].id # id,
           form.pending # Nil => form.pending = id
    PROVE  EvidenceInv'
<1> USE DEF EvidenceInv
<1> DEFINE r == [op |-> "inspect", id |-> id, visit |-> form.visit, replaces |-> Nil]
<1>1. UNCHANGED <<duty, assigned, bytes, object, inspection, document, excused>>
      /\ form' = [form EXCEPT !.pending = id] /\ Arrive(r, "here")
  BY DEF SendReport
<1>2. r \in Posted
  BY DEF Posted, EvidenceTypes, Page
<1>3. r.op = "inspect" /\ r.id = id /\ r.visit = form.visit /\ r.replaces = Nil
  OBVIOUS
<1>4. form' \in Page /\ form'.visit = form.visit /\ form'.received = form.received /\ form'.pending = id
  BY <1>1 DEF EvidenceTypes, Page
<1> HIDE DEF r
<1>5. PICK a \in Attempts :
          /\ attempt[a].phase = "free"
          /\ attempt' = [attempt EXCEPT ![a] =
                         [NoAttempt EXCEPT !.phase = "arrived", !.op = r.op, !.id = r.id,
                            !.visit = r.visit, !.replaces = r.replaces, !.client = "here"]]
  BY <1>1 DEF Arrive
<1>6. /\ attempt' \in [Attempts -> Request] /\ attempt'[a].phase = "arrived"
      /\ attempt'[a].op = "inspect" /\ attempt'[a].id = id /\ attempt'[a].visit = form.visit
      /\ attempt'[a].replaces = Nil /\ attempt'[a].answer = Nil
      /\ \A b \in Attempts \ {a} : attempt'[b] = attempt[b] /\ Same(b)
      /\ Held' /\ \A b \in Attempts : Stored(b)'
  BY <1>1, <1>2, <1>3, <1>5, Arrived
<1>7. EvidenceTypes'
  BY <1>1, <1>4, <1>6 DEF EvidenceTypes
<1>8. Renewals'
  BY <1>1, <1>6 DEF Renewals, RenewedOnce
<1>9. ReportedOnce'
  BY <1>1, <1>4 DEF ReportedOnce
<1>10. Talk'
  <2>1. Inspects(a)' /\ \A b \in Attempts \ {a} : Inspects(b)' <=> Inspects(b)
    BY <1>6 DEF Inspects
  <2>2. \A i \in inspection : i.by \in Attempts /\ i.by # a
    BY <1>5, EvidenceAssumption DEF Talk, Inspects, EvidenceTypes, Report
  <2>3. \A b \in Attempts \ {a} : Known(attempt[b].id) <=> Known(attempt[b].id)'
    BY <1>1, <1>6 DEF Known
  <2>4. \A b \in Attempts \ {a} : Inspects(b) /\ attempt[b].id = id => attempt[b].visit = form.visit
    BY EvidenceAssumption DEF Talk
  <2>5. \A b \in Attempts : (attempt'[b].phase = "free") <=> (attempt'[b].op = Nil)
    BY <1>6, EvidenceAssumption DEF Talk
  <2>6. \A b \in Attempts : attempt'[b].client # "gone" => Inspects(b)'
    BY <1>6, <2>1 DEF Talk
  <2>7. \A b \in Attempts : Waiting(b)' => attempt'[b].visit = form'.visit
    BY <1>4, <1>6 DEF Talk, Waiting
  <2>8. \A b, c \in Attempts : Inspects(b)' /\ Inspects(c)' /\ attempt'[b].id = attempt'[c].id
                                 => attempt'[b].visit = attempt'[c].visit
    BY <1>6, <2>1, <2>4 DEF Talk
  <2>9. \A b \in Attempts : Inspects(b)' /\ attempt'[b].id = form'.pending /\ form'.pending # Nil
                               => attempt'[b].visit = form'.visit
    BY <1>4, <1>6, <2>1, <2>4
  <2>10. \A b \in Attempts : Inspects(b)' /\ attempt'[b].answer = "ok" => Known(attempt[b].id)'
    BY <1>6, <2>1, <2>3, EvidenceAssumption DEF Talk
  <2>11. \A i \in inspection' :
           Inspects(i.by)' /\ attempt'[i.by].id = i.id /\ attempt'[i.by].visit = i.visit
    BY <1>1, <1>6, <2>1, <2>2 DEF Talk
  <2>12. QED BY <2>5, <2>6, <2>7, <2>8, <2>9, <2>10, <2>11 DEF Talk
<1>11. QED BY <1>6, <1>7, <1>8, <1>9, <1>10

LEMMA ReportStep == EvidenceInv /\ (SubmitReport \/ Resend) => EvidenceInv'
<1> SUFFICES ASSUME EvidenceInv, SubmitReport \/ Resend PROVE EvidenceInv'
  OBVIOUS
<1>1. CASE SubmitReport
  BY <1>1, SendStep DEF SubmitReport
<1>2. CASE Resend
  <2>1. form.pending # Nil /\ form.pending \in RequestIds /\ SendReport(form.pending)
    BY <1>2 DEF Resend, EvidenceInv, EvidenceTypes, Page
  <2>2. QED BY <2>1, SendStep
<1>3. QED BY <1>1, <1>2

LEMMA Answers ==
    ASSUME EvidenceInv, NEW a \in Attempts, NEW x \in {Nil, "ok", "refused", "failed"},
           NEW p \in Phases \ {"free"}, attempt[a].phase # "free", Reply(a, x, p),
           x = "ok" => Known(attempt[a].id), bytes' = bytes, excused' = excused,
           UNCHANGED <<duty, assigned, object, inspection, document, form>>
    PROVE  /\ EvidenceTypes' /\ Renewals' /\ ReportedOnce' /\ Talk' /\ (p # "checked" => Held')
           /\ Stored(a)' => \A b \in Attempts : Stored(b)'
           /\ Same(a) /\ attempt'[a].phase = p /\ attempt'[a].stored = attempt[a].stored
           /\ Mine(a)' = Mine(a) /\ KeysOf(a)' = KeysOf(a) /\ Size(a)' = Size(a) /\ All(a)' = All(a)
           /\ (Inspects(a)' <=> Inspects(a))
           /\ \A b \in Attempts \ {a} : attempt'[b] = attempt[b]
<1> USE DEF EvidenceInv
<1>1. /\ attempt' \in [Attempts -> Request]
      /\ \A b \in Attempts : /\ Same(b) /\ attempt'[b].client = attempt[b].client
                             /\ attempt'[b].stored = attempt[b].stored
      /\ \A b \in Attempts \ {a} : attempt'[b] = attempt[b]
      /\ attempt'[a].phase = p /\ attempt'[a].answer \in {Nil, x}
  BY Replied
<1>2. EvidenceTypes'
  BY <1>1 DEF EvidenceTypes
<1>3. Renewals'
  BY <1>1, RenewalsStay
<1>4. \A i \in inspection : i.by \in Attempts
  BY DEF EvidenceTypes, Report
<1>5. \A b \in Attempts :
              /\ (attempt'[b].phase = "free") <=> (attempt[b].phase = "free")
              /\ attempt'[b].client \in {"gone", attempt[b].client}
              /\ \/ attempt'[b].answer \in {Nil, "refused", "failed", attempt[b].answer}
                 \/ Known(attempt[b].id)
  BY <1>1
<1>6. Talk' /\ ReportedOnce'
  BY <1>1, <1>4, <1>5, TalkStays
<1>7. p # "checked" => Held'
  BY <1>1, HeldStays
<1>8. ASSUME NEW b \in Attempts \ {a} PROVE Stored(b)'
  BY <1>1, StoredStays DEF Mine
<1>9. /\ Mine(a)' = Mine(a) /\ KeysOf(a)' = KeysOf(a) /\ Size(a)' = Size(a) /\ All(a)' = All(a)
      /\ (Inspects(a)' <=> Inspects(a))
  BY <1>1 DEF Mine, KeysOf, Size, All, Inspects, Same
<1>10. QED BY <1>1, <1>2, <1>3, <1>6, <1>7, <1>8, <1>9

LEMMA CheckEarlyStep ==
    ASSUME EvidenceInv, NEW a \in Attempts, CheckEarly(a) PROVE EvidenceInv'
<1> USE DEF EvidenceInv
<1>1. attempt[a].phase = "arrived" /\ Stored(a)
      /\ UNCHANGED <<duty, assigned, bytes, object, inspection, document, excused, form>>
  BY DEF CheckEarly
<1>2. PICK x \in {Nil, "ok", "refused", "failed"}, p \in {"storing", "done"} :
        Reply(a, x, p) /\ (x = "ok" => Known(attempt[a].id))
  BY EvidenceAssumption DEF CheckEarly, Replayed
<1>3. p \in Phases \ {"free"}
  BY DEF Phases
<1>4. Mine(a) = {} /\ a \notin object /\ a \notin excused /\ Mine(a) = KeysOf(a)
  BY <1>1, NothingStored DEF Stored
<1>5. /\ EvidenceTypes' /\ Renewals' /\ ReportedOnce' /\ Talk' /\ Held'
      /\ Stored(a)' => \A b \in Attempts : Stored(b)'
      /\ attempt'[a].phase = p /\ Mine(a)' = Mine(a) /\ KeysOf(a)' = KeysOf(a)
  BY <1>1, <1>2, <1>3, Answers
<1>6. Stored(a)'
  BY <1>1, <1>4, <1>5 DEF Stored
<1>7. QED BY <1>5, <1>6

LEMMA CheckLateStep ==
    ASSUME EvidenceInv, NEW a \in Attempts, CheckLate(a) PROVE EvidenceInv'
<1> USE DEF EvidenceInv
<1>1. attempt[a].phase = "storing" /\ attempt[a].stored = Size(a) /\ ~ Locked(LockOf(a)) /\ Stored(a)
      /\ UNCHANGED <<duty, assigned, bytes, object, inspection, document, excused, form>>
  BY DEF CheckLate
<1>2. PICK x \in {Nil, "ok", "refused", "failed"}, p \in {"cleanup", "checked"} :
        /\ Reply(a, x, p) /\ (x = "ok" => Known(attempt[a].id))
        /\ p = "checked" => ~ Replayed(a) /\ Admissible(a)
  BY EvidenceAssumption DEF CheckLate, Replayed
<1>3. p \in Phases \ {"free"}
  BY DEF Phases
<1>4. Mine(a) = KeysOf(a) /\ a \notin object /\ a \notin excused
  BY <1>1 DEF Stored
<1>5. /\ EvidenceTypes' /\ Renewals' /\ ReportedOnce' /\ Talk' /\ (p # "checked" => Held')
      /\ Stored(a)' => \A b \in Attempts : Stored(b)'
      /\ Same(a) /\ attempt'[a].phase = p /\ attempt'[a].stored = attempt[a].stored
      /\ Mine(a)' = Mine(a) /\ KeysOf(a)' = KeysOf(a) /\ Size(a)' = Size(a)
      /\ \A b \in Attempts \ {a} : attempt'[b] = attempt[b]
  BY <1>1, <1>2, <1>3, Answers
<1>6. Stored(a)'
  BY <1>1, <1>4, <1>5 DEF Stored
<1>7. CASE p = "checked"
  <2>1. ~ Replayed(a) /\ Admissible(a)
    BY <1>2, <1>7
  <2>2. Checked(a)
    BY <2>1, EvidenceAssumption DEF Checked, Admissible, Replayed, Inspects, Known
  <2>3. Checked(a)'
    BY <1>1, <1>5, <2>2 DEF Checked, Archived, Same
  <2>4. ASSUME NEW b \in Attempts \ {a}, attempt'[b].phase = "checked"
        PROVE  Checked(b)' /\ LockOf(b)' = LockOf(b)
    BY <1>1, <1>5, <2>4 DEF Checked, Archived, Held, LockOf
  <2>5. LockOf(a)' = LockOf(a)
    BY <1>5 DEF LockOf, Same
  <2>6. \A b \in Attempts \ {a} : attempt'[b].phase = "checked" =>
          attempt[b].phase = "checked" /\ (LockOf(b) # Nil => LockOf(b) # LockOf(a))
    BY <1>1, <1>5 DEF Locked
  <2>7. Held'
    BY <2>3, <2>4, <2>5, <2>6 DEF Held
  <2>8. QED BY <1>5, <1>6, <2>7
<1>8. QED BY <1>5, <1>6, <1>7

LEMMA RolledBackStep ==
    ASSUME EvidenceInv, NEW a \in Attempts, RolledBack(a) PROVE EvidenceInv'
<1> USE DEF EvidenceInv
<1>1. attempt[a].phase = "checked" /\ Stored(a) /\ Reply(a, "failed", "cleanup")
      /\ UNCHANGED <<duty, assigned, bytes, object, inspection, document, excused, form>>
  BY DEF RolledBack
<1>2. Mine(a) = KeysOf(a) /\ a \notin object /\ a \notin excused /\ "cleanup" \in Phases \ {"free", "checked"}
  BY <1>1 DEF Stored, Phases
<1>3. /\ EvidenceTypes' /\ Renewals' /\ ReportedOnce' /\ Talk' /\ Held'
      /\ Stored(a)' => \A b \in Attempts : Stored(b)'
      /\ attempt'[a].phase = "cleanup" /\ Mine(a)' = Mine(a) /\ KeysOf(a)' = KeysOf(a)
  BY <1>1, <1>2, Answers
<1>4. Stored(a)'
  BY <1>1, <1>2, <1>3 DEF Stored
<1>5. QED BY <1>3, <1>4

LEMMA StoreNextStep ==
    ASSUME EvidenceInv, NEW a \in Attempts, StoreNext(a) PROVE EvidenceInv'
<1> USE DEF EvidenceInv
<1>1. attempt[a].phase = "storing" /\ Stored(a)
      /\ UNCHANGED <<duty, assigned, object, inspection, document, excused, form>>
  BY DEF StoreNext
<1>2. Mine(a) = KeysOf(a) /\ a \notin object /\ a \notin excused
  BY <1>1 DEF Stored
<1>3. CASE \E answer \in {"refused", "failed"} : Reply(a, answer, "cleanup") /\ bytes' = bytes
  <2>1. PICK answer \in {"refused", "failed"} : Reply(a, answer, "cleanup") /\ bytes' = bytes
    BY <1>3
  <2>2. "cleanup" \in Phases \ {"free", "checked"}
    BY DEF Phases
  <2>3. /\ EvidenceTypes' /\ Renewals' /\ ReportedOnce' /\ Talk' /\ Held'
        /\ Stored(a)' => \A b \in Attempts : Stored(b)'
        /\ attempt'[a].phase = "cleanup" /\ Mine(a)' = Mine(a) /\ KeysOf(a)' = KeysOf(a)
    BY <1>1, <2>1, <2>2, Answers
  <2>4. Stored(a)'
    BY <1>1, <1>2, <2>3 DEF Stored
  <2>5. QED BY <2>3, <2>4
<1>4. CASE /\ bytes' = bytes \cup {<<a, attempt[a].stored + 1>>}
           /\ attempt' = [attempt EXCEPT ![a].stored = @ + 1]
  <2> DEFINE n == attempt[a].stored
  <2>1. n \in Nat /\ n + 1 \in Nat /\ attempt[a] \in Request
    BY Requested
  <2>2. [attempt[a] EXCEPT !.stored = n + 1] \in Request
    BY <2>1 DEF Request
  <2>3. attempt' = [attempt EXCEPT ![a] = [attempt[a] EXCEPT !.stored = n + 1]]
    BY <1>4 DEF EvidenceTypes
  <2>4. attempt' \in [Attempts -> Request] /\ attempt'[a] = [attempt[a] EXCEPT !.stored = n + 1]
        /\ \A b \in Attempts \ {a} : attempt'[b] = attempt[b]
    BY <2>2, <2>3 DEF EvidenceTypes
  <2>5. /\ attempt'[a].stored = n + 1 /\ attempt'[a].phase = "storing"
        /\ attempt'[a].client = attempt[a].client /\ attempt'[a].answer = attempt[a].answer
        /\ Same(a)
    BY <1>1, <2>1, <2>4 DEF Same, Request
  <2>6. \A b \in Attempts : Same(b) /\ attempt'[b].phase = attempt[b].phase
           /\ attempt'[b].client = attempt[b].client /\ attempt'[b].answer = attempt[b].answer
    BY <1>1, <2>4, <2>5 DEF Same
  <2>7. EvidenceTypes'
    BY <1>1, <2>4 DEF EvidenceTypes
  <2>8. Renewals'
    BY <1>1, <2>6, RenewalsStay
  <2>9. Held'
    BY <1>1, <2>6, HeldStays
  <2>10. \A i \in inspection : i.by \in Attempts
    BY DEF EvidenceTypes, Report
  <2>11. Talk' /\ ReportedOnce'
    BY <1>1, <2>6, <2>10, TalkStays
  <2>12. ASSUME NEW b \in Attempts PROVE Stored(b)'
    <3>1. CASE b # a
      <4>1. Mine(b)' = Mine(b)
        BY <1>4, <3>1 DEF Mine
      <4>2. attempt'[b] = attempt[b] /\ Stored(b)
        BY <2>4, <3>1
      <4>3. QED BY <1>1, <2>6, <4>1, <4>2, StoredStays
    <3>2. CASE b = a
      <4>1. Mine(a)' = Mine(a) \cup {<<a, n + 1>>}
        BY <1>4 DEF Mine
      <4>2. 1..(n + 1) = (1..n) \cup {n + 1}
        BY <2>1
      <4>3. KeysOf(a)' = KeysOf(a) \cup {<<a, n + 1>>}
        BY <2>5, <4>2 DEF KeysOf
      <4>4. Mine(a)' = KeysOf(a)'
        BY <1>2, <4>1, <4>3
      <4>5. QED BY <1>1, <1>2, <2>5, <3>2, <4>4 DEF Stored
    <3>3. QED BY <3>1, <3>2
  <2>13. QED BY <2>7, <2>8, <2>9, <2>11, <2>12
<1>5. QED BY <1>3, <1>4 DEF StoreNext

LEMMA CleanUpStep ==
    ASSUME EvidenceInv, NEW a \in Attempts, CleanUp(a) PROVE EvidenceInv'
<1> USE DEF EvidenceInv
<1>1. attempt[a].phase = "cleanup" /\ Stored(a) /\ attempt' = [attempt EXCEPT ![a].phase = "done"]
      /\ UNCHANGED <<duty, assigned, object, inspection, document, form>>
  BY DEF CleanUp
<1>2. PICK left \in SUBSET KeysOf(a) :
        /\ bytes' = (bytes \ KeysOf(a)) \cup left
        /\ excused' = IF left = {} THEN excused ELSE excused \cup {a}
  BY DEF CleanUp
<1>3. attempt[a] \in Request /\ [attempt[a] EXCEPT !.phase = "done"] \in Request
  BY Requested DEF Request, Phases
<1>4. attempt' \in [Attempts -> Request] /\ attempt'[a] = [attempt[a] EXCEPT !.phase = "done"]
      /\ \A b \in Attempts \ {a} : attempt'[b] = attempt[b]
  BY <1>1, <1>3 DEF EvidenceTypes
<1>5. /\ attempt'[a].phase = "done" /\ attempt'[a].client = attempt[a].client
      /\ attempt'[a].answer = attempt[a].answer /\ Same(a)
  BY <1>3, <1>4 DEF Same, Request
<1>6. \A b \in Attempts : Same(b) /\ attempt'[b].client = attempt[b].client
         /\ attempt'[b].answer = attempt[b].answer
  BY <1>4, <1>5 DEF Same
<1>7. EvidenceTypes'
  BY <1>1, <1>4 DEF EvidenceTypes
<1>8. Renewals'
  BY <1>1, <1>6, RenewalsStay
<1>9. Held'
  BY <1>1, <1>4, <1>5, <1>6, HeldStays
<1>10. \A i \in inspection : i.by \in Attempts
  BY DEF EvidenceTypes, Report
<1>11. \A b \in Attempts : (attempt'[b].phase = "free") <=> (attempt[b].phase = "free")
  BY <1>1, <1>4, <1>5
<1>12. Talk' /\ ReportedOnce'
  BY <1>1, <1>6, <1>10, <1>11, TalkStays
<1>13. ASSUME NEW b \in Attempts PROVE Stored(b)'
  <2>1. CASE b # a
    <3>1. Mine(b)' = Mine(b)
      BY <1>2, <2>1 DEF Mine, KeysOf
    <3>2. attempt'[b] = attempt[b] /\ Stored(b) /\ ((b \in excused)' <=> b \in excused)
      BY <1>2, <1>4, <2>1
    <3>3. QED BY <1>1, <1>6, <3>1, <3>2, StoredStays
  <2>2. CASE b = a
    <3>1. Mine(a) = KeysOf(a) /\ (a \in object => a \in excused /\ ~ Inspects(a))
      BY <1>1 DEF Stored
    <3>2. left # {} => a \in excused'
      BY <1>2
    <3>3. Mine(a)' = left
      BY <1>2, <3>1 DEF Mine
    <3>4. (Inspects(a)' <=> Inspects(a)) /\ (a \in excused => a \in excused') /\ object' = object
      BY <1>1, <1>2, <1>5 DEF Inspects, Same
    <3>5. QED BY <1>5, <2>2, <3>1, <3>2, <3>3, <3>4 DEF Stored
  <2>3. QED BY <2>1, <2>2
<1>14. QED BY <1>7, <1>8, <1>9, <1>12, <1>13

LEMMA CrashStep == EvidenceInv /\ Crash => EvidenceInv'
<1> SUFFICES ASSUME EvidenceInv, Crash PROVE EvidenceInv'
  OBVIOUS
<1> USE DEF EvidenceInv
<1> DEFINE alive == {a \in Attempts : attempt[a].phase \notin {"free", "done"}}
<1>1. /\ attempt' = [a \in Attempts |-> IF a \in alive
                         THEN [attempt[a] EXCEPT !.phase = "done", !.answer = Heard(a, "failed")]
                         ELSE attempt[a]]
      /\ excused' = excused \cup alive
      /\ UNCHANGED <<duty, assigned, bytes, object, inspection, document, form>>
  BY DEF Crash
<1>2. ASSUME NEW a \in Attempts
      PROVE  /\ attempt'[a] \in Request /\ Same(a) /\ attempt'[a].client = attempt[a].client
             /\ attempt'[a].answer \in {Nil, "failed", attempt[a].answer}
             /\ attempt'[a].phase = IF a \in alive THEN "done" ELSE attempt[a].phase
             /\ attempt'[a].stored = attempt[a].stored
             /\ attempt'[a].phase = "checked" => attempt[a].phase = "checked"
             /\ (attempt'[a].phase = "free") <=> (attempt[a].phase = "free")
  <2>1. CASE a \in alive
    <3> DEFINE h == Heard(a, "failed")
    <3>1. h \in {Nil, "failed"}
      BY DEF Heard
    <3>2. attempt'[a] = [attempt[a] EXCEPT !.phase = "done", !.answer = h]
      BY <1>1, <2>1
    <3> HIDE DEF h
    <3>3. attempt[a] \in Request
      BY Requested
    <3>4. QED BY <2>1, <3>1, <3>2, <3>3 DEF Request, Phases, Same
  <2>2. CASE a \notin alive
    BY <1>1, <2>2, Requested DEF Same
  <2>3. QED BY <2>1, <2>2
<1>3. EvidenceTypes'
  <2>1. attempt' \in [Attempts -> Request]
    BY <1>1, <1>2
  <2>2. QED BY <1>1, <2>1 DEF EvidenceTypes
<1>4. Renewals'
  BY <1>1, <1>2, RenewalsStay
<1>5. Held'
  <2>1. \A a \in Attempts : Same(a) /\ (attempt'[a].phase = "checked" => attempt[a].phase = "checked")
    BY <1>2
  <2>2. QED BY <1>1, <2>1, HeldStays
<1>6. \A i \in inspection : i.by \in Attempts
  BY DEF EvidenceTypes, Report
<1>7. Talk' /\ ReportedOnce'
  <2>1. \A a \in Attempts :
          /\ Same(a)
          /\ (attempt'[a].phase = "free") <=> (attempt[a].phase = "free")
          /\ attempt'[a].client \in {"gone", attempt[a].client}
          /\ attempt'[a].answer \in {Nil, "refused", "failed", attempt[a].answer}
    BY <1>2
  <2>2. QED BY <1>1, <1>6, <2>1, TalkStays
<1>8. ASSUME NEW a \in Attempts PROVE Stored(a)'
  <2>1. Mine(a)' = Mine(a)
    BY <1>1 DEF Mine
  <2>2. CASE a \notin alive
    <3>1. attempt'[a] = attempt[a] /\ ((a \in excused)' <=> a \in excused) /\ Stored(a)
      BY <1>1, <2>2
    <3>2. QED BY <1>1, <1>2, <2>1, <3>1, StoredStays
  <2>3. CASE a \in alive
    <3>1. Stored(a) /\ attempt[a].phase # "done"
      BY <2>3
    <3>2. a \in object => ~ Inspects(a)
      BY <3>1 DEF Stored
    <3>3. a \in excused' /\ attempt'[a].phase = "done" /\ (Inspects(a)' <=> Inspects(a))
      BY <1>1, <1>2, <2>3 DEF Inspects, Same
    <3>4. QED BY <1>1, <3>2, <3>3 DEF Stored
  <2>4. QED BY <2>2, <2>3
<1>9. QED BY <1>3, <1>4, <1>5, <1>7, <1>8

LEMMA DutyStep == EvidenceInv /\ DutyChanges => EvidenceInv'
<1> SUFFICES ASSUME EvidenceInv, DutyChanges PROVE EvidenceInv'
  OBVIOUS
<1> USE DEF EvidenceInv
<1>1. UNCHANGED <<bytes, object, inspection, document, attempt, excused, form>> /\ ~ Locked("driver")
  BY DEF DutyChanges
<1>2. \A a \in Attempts : attempt[a].phase = "checked" => attempt[a].op = "document"
  BY <1>1, EvidenceAssumption DEF Locked, LockOf
<1>3. Held'
  <2>1. ASSUME NEW a \in Attempts, attempt[a].phase = "checked" PROVE Checked(a)'
    BY <1>1, <1>2, <2>1 DEF Held, Checked, Archived
  <2>2. \A a \in Attempts : LockOf(a)' = LockOf(a)
    BY <1>1 DEF LockOf
  <2>3. QED BY <1>1, <2>1, <2>2 DEF Held
<1>4. EvidenceTypes' /\ ReportedOnce' /\ Renewals'
  BY <1>1 DEF EvidenceTypes, ReportedOnce, Renewals, RenewedOnce
<1>5. Talk'
  BY <1>1 DEF Talk, Inspects, Waiting, Known
<1>6. \A a \in Attempts : Stored(a)'
  BY <1>1 DEF Stored, Mine, KeysOf, All, Size, Inspects
<1>7. QED BY <1>3, <1>4, <1>5, <1>6

LEMMA RetireStep == EvidenceInv /\ RetireDocument => EvidenceInv'
<1> SUFFICES ASSUME EvidenceInv, RetireDocument PROVE EvidenceInv'
  OBVIOUS
<1> USE DEF EvidenceInv
<1>1. UNCHANGED <<duty, assigned, bytes, object, inspection, attempt, excused, form>>
  BY DEF RetireDocument
<1>2. PICK x \in document : ~ x.archived /\ ~ Locked(x.by)
        /\ document' = (document \ {x}) \cup {[x EXCEPT !.archived = TRUE]}
  BY DEF RetireDocument
<1> DEFINE y == [x EXCEPT !.archived = TRUE]
<1>3. x \in Paper /\ y \in Paper /\ y.by = x.by /\ y.replaces = x.replaces /\ y.archived
  BY DEF EvidenceTypes, Paper
<1>4. document' = (document \ {x}) \cup {y}
  BY <1>2
<1> HIDE DEF y
<1>5. EvidenceTypes'
  BY <1>1, <1>3, <1>4 DEF EvidenceTypes
<1>6. ReportedOnce'
  BY <1>1 DEF ReportedOnce
<1>7. Talk'
  BY <1>1 DEF Talk, Inspects, Waiting, Known
<1>8. \A a \in Attempts : Stored(a)'
  BY <1>1 DEF Stored, Mine, KeysOf, All, Size, Inspects
<1>9. \A d : d # x.by => (Archived(d)' <=> Archived(d))
  BY <1>3, <1>4 DEF Archived
<1>10. Held'
  <2>1. ASSUME NEW a \in Attempts, attempt[a].phase = "checked" PROVE Checked(a)'
    <3>1. Checked(a)
      BY <2>1 DEF Held
    <3>2. attempt[a].op = "document" /\ attempt[a].replaces # Nil => attempt[a].replaces # x.by
      BY <1>2, <2>1 DEF Locked, LockOf
    <3>3. attempt[a].op = "document" /\ attempt[a].replaces # Nil => ~ Archived(attempt[a].replaces)'
      BY <1>1, <1>9, <3>1, <3>2 DEF Checked
    <3>4. QED BY <1>1, <3>1, <3>3 DEF Checked
  <2>2. \A a \in Attempts : LockOf(a)' = LockOf(a)
    BY <1>1 DEF LockOf
  <2>3. QED BY <1>1, <2>1, <2>2 DEF Held
<1>11. Renewals'
  <2>1. \A d : (\E z \in document : d = z.by) => \E z \in document' : d = z.by
    BY <1>3, <1>4
  <2>2. ASSUME NEW u \in document', NEW v \in document',
               u.replaces = v.replaces, u.replaces # Nil PROVE u = v
    BY <1>3, <1>4, <2>2 DEF Renewals, RenewedOnce
  <2>3. ASSUME NEW u \in document', NEW v \in document', u.replaces = v.by PROVE v.archived
    BY <1>3, <1>4, <2>3 DEF Renewals, RenewedOnce
  <2>4. RenewedOnce'
    BY <2>2, <2>3 DEF RenewedOnce
  <2>5. \A u \in document' : u.by \in object' /\ (u.replaces # Nil => \E z \in document' : u.replaces = z.by)
    BY <1>1, <1>3, <1>4, <2>1 DEF Renewals
  <2>6. QED BY <1>1, <2>1, <2>4, <2>5 DEF Renewals
<1>12. QED BY <1>5, <1>6, <1>7, <1>8, <1>10, <1>11

(* The form: requests are left, heard or given up.                         *)
LEMMA Unanswered ==
    ASSUME EvidenceInv, attempt' \in [Attempts -> Request], form' \in Page,
           UNCHANGED <<duty, assigned, bytes, object, inspection, document, excused>>,
           \A a \in Attempts : Same(a) /\ attempt'[a].phase = attempt[a].phase
              /\ attempt'[a].stored = attempt[a].stored
    PROVE  EvidenceTypes' /\ Held' /\ Renewals' /\ \A a \in Attempts : Stored(a)'
<1> USE DEF EvidenceInv
<1>1. EvidenceTypes'
  BY DEF EvidenceTypes
<1>2. Held'
  BY HeldStays
<1>3. Renewals'
  BY RenewalsStay
<1>4. \A a \in Attempts : Mine(a)' = Mine(a)
  BY DEF Mine
<1>5. \A a \in Attempts : Stored(a)'
  BY <1>4, StoredStays
<1>6. QED BY <1>1, <1>2, <1>3, <1>5

LEMMA AbandonedRows ==
    ASSUME EvidenceTypes, attempt' = Abandoned
    PROVE  /\ attempt' \in [Attempts -> Request]
           /\ \A a \in Attempts :
                /\ Same(a) /\ attempt'[a].phase = attempt[a].phase /\ attempt'[a].stored = attempt[a].stored
                /\ attempt'[a].answer = attempt[a].answer /\ attempt'[a].client # "here"
                /\ attempt'[a].client # "gone" => attempt[a].client # "gone"
<1>1. ASSUME NEW a \in Attempts
      PROVE  /\ attempt'[a] \in Request
             /\ Same(a) /\ attempt'[a].phase = attempt[a].phase /\ attempt'[a].stored = attempt[a].stored
             /\ attempt'[a].answer = attempt[a].answer /\ attempt'[a].client # "here"
             /\ attempt'[a].client # "gone" => attempt[a].client # "gone"
  <2>1. attempt'[a] = IF Waiting(a) THEN [attempt[a] EXCEPT !.client = "left"] ELSE attempt[a]
    BY DEF Abandoned
  <2>2. attempt[a] \in Request
    BY Requested
  <2>3. QED BY <2>1, <2>2 DEF Request, Same, Waiting
<1>2. QED BY <1>1 DEF Abandoned

LEMMA FormStep == EvidenceInv /\ (LoadForm \/ Leave) => EvidenceInv'
<1> SUFFICES ASSUME EvidenceInv, LoadForm \/ Leave PROVE EvidenceInv'
  OBVIOUS
<1> USE DEF EvidenceInv
<1>1. attempt' = Abandoned /\ UNCHANGED <<duty, assigned, bytes, object, inspection, document, excused>>
  BY DEF LoadForm, Leave
<1>2. form' \in Page /\ form'.received = Nil
      /\ (form'.pending # Nil => form'.pending = form.pending /\ form'.visit = form.visit)
  <2>1. CASE LoadForm
    <3>1. PICK v \in Visits : form' = [visit |-> v, open |-> TRUE, received |-> Nil,
                                       pending |-> IF v = form.visit THEN form.pending ELSE Nil]
      BY <2>1 DEF LoadForm
    <3>2. QED BY <3>1 DEF EvidenceTypes, Page
  <2>2. CASE Leave
    BY <2>2 DEF Leave, EvidenceTypes, Page
  <2>3. QED BY <2>1, <2>2
<1>3. EvidenceTypes' /\ Held' /\ Renewals' /\ \A a \in Attempts : Stored(a)'
  BY <1>1, <1>2, AbandonedRows, Unanswered
<1>4. ReportedOnce'
  BY <1>1, <1>2 DEF ReportedOnce
<1>5. Talk'
  <2>1. \A a \in Attempts :
                /\ Same(a) /\ attempt'[a].phase = attempt[a].phase
                /\ attempt'[a].answer = attempt[a].answer /\ attempt'[a].client # "here"
                /\ attempt'[a].client # "gone" => attempt[a].client # "gone"
    BY <1>1, AbandonedRows
  <2>2. \A a \in Attempts : (Inspects(a)' <=> Inspects(a)) /\ (Known(attempt[a].id)' <=> Known(attempt[a].id))
    BY <1>1, <2>1 DEF Inspects, Known, Same
  <2>3. \A i \in inspection : i.by \in Attempts
    BY DEF EvidenceTypes, Report
  <2>4. \A i \in inspection' : Inspects(i.by)' /\ attempt'[i.by].id = i.id /\ attempt'[i.by].visit = i.visit
    BY <1>1, <2>1, <2>2, <2>3 DEF Talk, Same
  <2>5. \A a \in Attempts :
          /\ (attempt'[a].phase = "free") <=> (attempt'[a].op = Nil)
          /\ attempt'[a].client # "gone" => Inspects(a)'
          /\ ~ Waiting(a)'
          /\ Inspects(a)' /\ attempt'[a].id = form'.pending /\ form'.pending # Nil
                => attempt'[a].visit = form'.visit
          /\ Inspects(a)' /\ attempt'[a].answer = "ok" => Known(attempt[a].id)'
    BY <1>2, <2>1, <2>2 DEF Talk, Same, Waiting
  <2>6. \A a, b \in Attempts : Inspects(a)' /\ Inspects(b)' /\ attempt'[a].id = attempt'[b].id
           => attempt'[a].visit = attempt'[b].visit
    BY <2>1, <2>2 DEF Talk, Same
  <2>7. QED BY <2>4, <2>5, <2>6 DEF Talk
<1>6. QED BY <1>3, <1>4, <1>5

LEMMA HearStep ==
    ASSUME EvidenceInv, NEW a \in Attempts, Hear(a) \/ TimeOut(a) PROVE EvidenceInv'
<1> USE DEF EvidenceInv
<1>1. attempt' = [attempt EXCEPT ![a] = Unheard(a)] /\ attempt[a].client # "gone"
      /\ UNCHANGED <<duty, assigned, bytes, object, inspection, document, excused>>
  BY DEF Hear, TimeOut
<1>2. /\ Unheard(a) \in Request /\ Unheard(a).client = "gone" /\ Unheard(a).answer = Nil
      /\ Unheard(a).phase = attempt[a].phase /\ Unheard(a).stored = attempt[a].stored
      /\ Unheard(a).op = attempt[a].op /\ Unheard(a).id = attempt[a].id
      /\ Unheard(a).visit = attempt[a].visit /\ Unheard(a).replaces = attempt[a].replaces
  <2>1. attempt[a] \in Request
    BY Requested
  <2>2. QED BY <2>1 DEF Unheard, Request
<1>3. attempt' \in [Attempts -> Request] /\ attempt'[a] = Unheard(a)
      /\ \A b \in Attempts \ {a} : attempt'[b] = attempt[b]
  BY <1>1, <1>2 DEF EvidenceTypes
<1>4. \A b \in Attempts : /\ Same(b) /\ attempt'[b].phase = attempt[b].phase
                          /\ attempt'[b].stored = attempt[b].stored
                          /\ attempt'[b].client \in {"gone", attempt[b].client}
                          /\ attempt'[b].answer \in {Nil, attempt[b].answer}
  BY <1>2, <1>3 DEF Same
<1>5. Inspects(a) /\ (attempt[a].answer = "ok" => Known(attempt[a].id))
  BY <1>1 DEF Talk
<1>6. form \in Page /\ attempt[a].id \in RequestIds \cup {Nil}
  BY Requested DEF EvidenceTypes
<1>7. /\ form' \in Page /\ form'.visit = form.visit /\ form'.pending \in {Nil, form.pending}
      /\ form'.received # form.received =>
           form'.received = attempt[a].id /\ Waiting(a) /\ attempt[a].answer = "ok"
  <2>1. CASE form' = [form EXCEPT !.received = attempt[a].id, !.pending = Nil]
             /\ Waiting(a) /\ attempt[a].answer = "ok"
    BY <1>6, <2>1 DEF Page
  <2>2. CASE form' = [form EXCEPT !.pending = Nil]
    BY <1>6, <2>2 DEF Page
  <2>3. CASE form' = form
    BY <1>6, <2>3
  <2>4. QED BY <2>1, <2>2, <2>3 DEF Hear, TimeOut
<1>8. EvidenceTypes' /\ Held' /\ Renewals' /\ \A b \in Attempts : Stored(b)'
  BY <1>1, <1>3, <1>4, <1>7, Unanswered
<1>9. ReportedOnce'
  <2>1. CASE form'.received = form.received
    BY <1>1, <1>7, <2>1 DEF ReportedOnce
  <2>2. CASE form'.received # form.received
    <3>1. form'.received = attempt[a].id /\ Waiting(a) /\ attempt[a].answer = "ok"
      BY <1>7, <2>2
    <3>2. PICK i \in inspection : i.id = attempt[a].id
      BY <1>5, <3>1 DEF Known
    <3>3. i.by \in Attempts /\ Inspects(i.by) /\ attempt[i.by].id = attempt[a].id
          /\ attempt[i.by].visit = i.visit
      BY <3>2 DEF Talk, EvidenceTypes, Report
    <3>4. i.visit = form.visit
      BY <1>5, <3>1, <3>3 DEF Talk
    <3>5. QED BY <1>1, <1>7, <3>1, <3>2, <3>4 DEF ReportedOnce
  <2>3. QED BY <2>1, <2>2
<1>10. Talk'
  <2>1. \A b \in Attempts : (Inspects(b)' <=> Inspects(b)) /\ (Known(attempt[b].id)' <=> Known(attempt[b].id))
    BY <1>1, <1>4 DEF Inspects, Known, Same
  <2>2. \A i \in inspection : i.by \in Attempts
    BY DEF EvidenceTypes, Report
  <2>3. \A i \in inspection' : Inspects(i.by)' /\ attempt'[i.by].id = i.id /\ attempt'[i.by].visit = i.visit
    BY <1>1, <1>4, <2>1, <2>2 DEF Talk, Same
  <2>4. \A b \in Attempts :
          /\ (attempt'[b].phase = "free") <=> (attempt'[b].op = Nil)
          /\ attempt'[b].client # "gone" => Inspects(b)'
          /\ Waiting(b)' => attempt'[b].visit = form'.visit
          /\ Inspects(b)' /\ attempt'[b].id = form'.pending /\ form'.pending # Nil
                => attempt'[b].visit = form'.visit
          /\ Inspects(b)' /\ attempt'[b].answer = "ok" => Known(attempt[b].id)'
    BY <1>4, <1>7, <2>1, EvidenceAssumption DEF Talk, Same, Waiting
  <2>5. \A c, b \in Attempts : Inspects(c)' /\ Inspects(b)' /\ attempt'[c].id = attempt'[b].id
           => attempt'[c].visit = attempt'[b].visit
    BY <1>4, <2>1 DEF Talk, Same
  <2>6. QED BY <2>3, <2>4, <2>5 DEF Talk
<1>11. QED BY <1>8, <1>9, <1>10

(* The rows are written: what the second check found makes them the first  *)
(* of their visit and of their document.                                   *)
LEMMA Recorded ==
    ASSUME EvidenceInv, NEW a \in Attempts, attempt[a].phase = "checked", Written(a),
           NEW x \in {"ok", "failed"}, NEW p \in {"done", "cleanup"}, Reply(a, x, p),
           UNCHANGED <<duty, assigned, bytes, form>>, excused' \in {excused, excused \cup {a}},
           p = "cleanup" => ~ Inspects(a) /\ a \in excused'
    PROVE  EvidenceInv'
<1> USE DEF EvidenceInv
<1>1. /\ attempt' \in [Attempts -> Request]
      /\ \A b \in Attempts : /\ Same(b) /\ attempt'[b].client = attempt[b].client
                             /\ attempt'[b].stored = attempt[b].stored
      /\ \A b \in Attempts \ {a} : attempt'[b] = attempt[b]
      /\ attempt'[a].phase = p /\ attempt'[a].answer \in {Nil, x}
  BY Replied DEF Phases
<1>2. /\ attempt[a] \in Request /\ Stored(a) /\ Checked(a) /\ attempt[a].stored = Size(a)
      /\ a \notin object /\ a \notin excused /\ Mine(a) = KeysOf(a)
  BY Requested DEF Held, Stored
<1>3. attempt[a].op \in {"photo", "document", "inspect"}
  BY <1>2, Requested DEF Talk
<1>4. object' = object \cup {a}
  BY DEF Written
<1> DEFINE report == [id |-> attempt[a].id, visit |-> attempt[a].visit, by |-> a]
           paper  == [by |-> a, replaces |-> attempt[a].replaces, archived |-> FALSE]
           f(z)   == [z EXCEPT !.archived = @ \/ z.by = attempt[a].replaces]
<1>5. report \in Report /\ report.id = attempt[a].id /\ report.visit = attempt[a].visit /\ report.by = a
      /\ paper \in Paper /\ paper.by = a /\ paper.replaces = attempt[a].replaces /\ ~ paper.archived
  BY Requested DEF Report, Paper
<1>6. \A z \in Paper : /\ f(z) \in Paper /\ f(z).by = z.by /\ f(z).replaces = z.replaces
                       /\ f(z).archived <=> z.archived \/ z.by = attempt[a].replaces
  BY DEF Paper
<1>7. inspection' = IF Inspects(a) THEN inspection \cup {report} ELSE inspection
  BY DEF Written
<1>8. document' = IF attempt[a].op = "document" THEN {f(z) : z \in document} \cup {paper} ELSE document
  BY DEF Written
<1> HIDE DEF report, paper, f
<1>9. EvidenceTypes'
  BY <1>1, <1>5, <1>6, <1>7, <1>8 DEF EvidenceTypes
<1>10. \A z \in document : z \in Paper
  BY DEF EvidenceTypes
<1>11. \A i \in inspection : i.by \in Attempts
  BY DEF EvidenceTypes, Report
<1>12. ASSUME NEW b \in Attempts PROVE Stored(b)'
  <2>1. CASE b # a
    <3>1. Mine(b)' = Mine(b) /\ attempt'[b] = attempt[b] /\ Stored(b)
      BY <1>1, <2>1 DEF Mine
    <3>2. ((b \in object)' <=> b \in object) /\ ((b \in excused)' <=> b \in excused)
      BY <1>4, <2>1
    <3>3. QED BY <1>1, <3>1, <3>2, StoredStays
  <2>2. CASE b = a
    <3>1. /\ Mine(a)' = Mine(a) /\ KeysOf(a)' = KeysOf(a) /\ All(a)' = All(a) /\ KeysOf(a) = All(a)
          /\ (Inspects(a)' <=> Inspects(a)) /\ a \in object'
      BY <1>1, <1>2, <1>4 DEF Mine, KeysOf, All, Size, Inspects, Same
    <3>2. QED BY <1>1, <1>2, <2>2, <3>1 DEF Stored
  <2>3. QED BY <2>1, <2>2
<1>13. Held'
  <2>1. \A b \in Attempts : LockOf(b)' = LockOf(b)
    BY <1>1 DEF LockOf, Same
  <2>2. \A b \in Attempts : attempt'[b].phase = "checked" => b # a /\ attempt[b].phase = "checked"
    BY <1>1
  <2>3. ASSUME NEW b \in Attempts, attempt'[b].phase = "checked" PROVE Checked(b)'
    <3>1. b # a /\ attempt[b].phase = "checked" /\ attempt'[b] = attempt[b] /\ Checked(b)
      BY <1>1, <2>2, <2>3 DEF Held
    <3>2. LockOf(b) # Nil => LockOf(a) # LockOf(b)
      BY <3>1 DEF Held
    <3>3. attempt[b].op = "inspect" => inspection' = inspection
      BY <1>7, <3>2, EvidenceAssumption DEF LockOf, Inspects
    <3>4. attempt[b].op = "document" /\ attempt[b].replaces # Nil => ~ Archived(attempt[b].replaces)'
      <4>1. CASE attempt[a].op = "document"
        <5> SUFFICES ASSUME attempt[b].op = "document", attempt[b].replaces # Nil,
                            NEW y \in document', y.by = attempt[b].replaces, y.archived PROVE FALSE
          BY <3>1 DEF Archived
        <5>1. y # paper
          BY <1>5
        <5>2. PICK z \in document : y = f(z)
          BY <1>8, <4>1, <5>1
        <5>3. z.by = attempt[b].replaces /\ (z.archived \/ z.by = attempt[a].replaces)
          BY <1>6, <1>10, <5>2
        <5>4. attempt[a].replaces # attempt[b].replaces
          BY <3>2, <4>1 DEF LockOf
        <5>5. QED BY <3>1, <5>3, <5>4 DEF Checked, Archived
      <4>2. CASE attempt[a].op # "document"
        BY <1>8, <3>1, <4>2 DEF Checked, Archived
      <4>3. QED BY <4>1, <4>2
    <3>5. QED BY <3>1, <3>3, <3>4 DEF Checked
  <2>4. QED BY <2>1, <2>2, <2>3 DEF Held
<1>14. ReportedOnce'
  <2>1. CASE ~ Inspects(a)
    BY <1>7, <2>1 DEF ReportedOnce
  <2>2. CASE Inspects(a)
    <3>1. \A i \in inspection : i.visit # report.visit /\ i.id # report.id
      BY <1>2, <1>5, <2>2 DEF Checked, Inspects
    <3>2. inspection' = inspection \cup {report}
      BY <1>7, <2>2
    <3>3. QED BY <3>1, <3>2 DEF ReportedOnce
  <2>3. QED BY <2>1, <2>2
<1>15. Talk'
  <2>1. \A b \in Attempts : (Inspects(b)' <=> Inspects(b)) /\ (Known(attempt[b].id) => Known(attempt[b].id)')
    BY <1>1, <1>7 DEF Inspects, Known, Same
  <2>2. Inspects(a) => Known(attempt[a].id)'
    BY <1>1, <1>5, <1>7 DEF Known, Same
  <2>3. \A i \in inspection' : Inspects(i.by)' /\ attempt'[i.by].id = i.id /\ attempt'[i.by].visit = i.visit
    BY <1>1, <1>5, <1>7, <1>11, <2>1 DEF Talk, Same
  <2>4. ASSUME NEW b \in Attempts
        PROVE  /\ (attempt'[b].phase = "free") <=> (attempt'[b].op = Nil)
               /\ attempt'[b].client # "gone" => Inspects(b)'
               /\ Waiting(b)' => attempt'[b].visit = form'.visit
               /\ Inspects(b)' /\ attempt'[b].id = form'.pending /\ form'.pending # Nil
                     => attempt'[b].visit = form'.visit
    <3>1. (attempt'[b].phase = "free") <=> (attempt[b].phase = "free")
      BY <1>1
    <3>2. QED BY <1>1, <2>1, <3>1 DEF Talk, Same, Waiting
  <2>5. ASSUME NEW b \in Attempts, Inspects(b)', attempt'[b].answer = "ok" PROVE Known(attempt[b].id)'
    BY <1>1, <2>1, <2>2, <2>5 DEF Talk
  <2>6. \A c, b \in Attempts : Inspects(c)' /\ Inspects(b)' /\ attempt'[c].id = attempt'[b].id
           => attempt'[c].visit = attempt'[b].visit
    BY <1>1, <2>1 DEF Talk, Same
  <2>7. QED BY <2>3, <2>4, <2>5, <2>6 DEF Talk
<1>16. Renewals'
  <2>1. CASE attempt[a].op # "document"
    BY <1>1, <1>4, <1>8, <2>1 DEF Renewals, RenewedOnce, Same
  <2>2. CASE attempt[a].op = "document"
    <3> DEFINE old == attempt[a].replaces
    <3>1. document' = {f(z) : z \in document} \cup {paper}
      BY <1>8, <2>2
    <3>2. \A z \in document : /\ z.by \in object /\ z.by # a /\ z.replaces # a
                              /\ z.replaces = old /\ old # Nil => FALSE
      <4>1. ASSUME NEW z \in document, z.replaces = old, old # Nil PROVE FALSE
        <5>1. PICK y \in document : old = y.by
          BY <4>1 DEF Renewals
        <5>2. y.archived
          BY <4>1, <5>1 DEF Renewals, RenewedOnce
        <5>3. QED BY <1>2, <2>2, <4>1, <5>1, <5>2 DEF Checked, Archived
      <4>2. QED BY <1>2, <4>1, EvidenceAssumption DEF Renewals
    <3>3. old # a
      BY <1>2, EvidenceAssumption DEF Renewals
    <3>4. \A y \in document' : y = paper \/ \E z \in document : y = f(z)
      BY <3>1
    <3>5. ASSUME NEW u \in document', NEW v \in document', u.replaces = v.replaces, u.replaces # Nil
          PROVE  u = v
      <4>1. CASE u = paper /\ v = paper
        BY <4>1
      <4>2. ASSUME NEW z \in document, u = f(z), v = paper PROVE FALSE
        BY <1>5, <1>6, <1>10, <3>2, <3>5, <4>2
      <4>3. ASSUME NEW z \in document, v = f(z), u = paper PROVE FALSE
        BY <1>5, <1>6, <1>10, <3>2, <3>5, <4>3
      <4>4. ASSUME NEW z \in document, NEW w \in document, u = f(z), v = f(w) PROVE u = v
        <5>1. z.replaces = w.replaces /\ z.replaces # Nil
          BY <1>6, <1>10, <3>5, <4>4
        <5>2. z = w
          BY <5>1 DEF Renewals, RenewedOnce
        <5>3. QED BY <4>4, <5>2
      <4>5. QED BY <3>4, <4>1, <4>2, <4>3, <4>4
    <3>6. ASSUME NEW u \in document', NEW v \in document', u.replaces = v.by PROVE v.archived
      <4>1. u.replaces # a
        BY <1>5, <1>6, <1>10, <3>2, <3>3, <3>4
      <4>2. PICK w \in document : v = f(w)
        BY <1>5, <3>4, <3>6, <4>1
      <4>3. u.replaces = w.by
        BY <1>6, <1>10, <3>6, <4>2
      <4>4. CASE u = paper
        BY <1>5, <1>6, <1>10, <4>2, <4>3, <4>4
      <4>5. ASSUME NEW z \in document, u = f(z) PROVE v.archived
        <5>1. z.replaces = w.by
          BY <1>6, <1>10, <4>3, <4>5
        <5>2. w.archived
          BY <5>1 DEF Renewals, RenewedOnce
        <5>3. QED BY <1>6, <1>10, <4>2, <5>2
      <4>6. QED BY <3>4, <4>4, <4>5
    <3>7. RenewedOnce'
      BY <3>5, <3>6 DEF RenewedOnce
    <3>8. \A d : (\E z \in document : d = z.by) => \E z \in document' : d = z.by
      <4>1. ASSUME NEW d, NEW z \in document, d = z.by PROVE \E y \in document' : d = y.by
        <5>1. f(z) \in document' /\ f(z).by = d
          BY <1>6, <1>10, <3>1, <4>1
        <5>2. QED BY <5>1
      <4>2. QED BY <4>1
    <3>9. ASSUME NEW u \in document'
          PROVE  u.by \in object' /\ (u.replaces # Nil => \E z \in document' : u.replaces = z.by)
      <4>1. CASE u = paper
        BY <1>4, <1>5, <3>8, <4>1 DEF Renewals
      <4>2. ASSUME NEW z \in document, u = f(z)
            PROVE  u.by \in object' /\ (u.replaces # Nil => \E y \in document' : u.replaces = y.by)
        BY <1>4, <1>6, <1>10, <3>8, <4>2 DEF Renewals
      <4>3. QED BY <3>4, <4>1, <4>2
    <3>10. \A b \in Attempts : attempt'[b].replaces # Nil => \E y \in document' : attempt'[b].replaces = y.by
      <4>1. ASSUME NEW b \in Attempts, attempt'[b].replaces # Nil
            PROVE  \E y \in document' : attempt'[b].replaces = y.by
        <5>1. attempt'[b].replaces = attempt[b].replaces
          BY <1>1 DEF Same
        <5>2. \E y \in document : attempt[b].replaces = y.by
          BY <4>1, <5>1 DEF Renewals
        <5>3. QED BY <3>8, <5>1, <5>2
      <4>2. QED BY <4>1
    <3>11. QED BY <3>7, <3>9, <3>10 DEF Renewals
  <2>3. QED BY <2>1, <2>2
<1>17. QED BY <1>9, <1>12, <1>13, <1>14, <1>15, <1>16

LEMMA WriteStep ==
    ASSUME EvidenceInv, NEW a \in Attempts, Commit(a) \/ Interrupted(a) PROVE EvidenceInv'
<1> USE DEF EvidenceInv
<1>1. attempt[a].phase = "checked" /\ UNCHANGED <<duty, assigned, bytes, form>>
  BY DEF Commit, Interrupted
<1>2. CASE Commit(a)
  <2>1. Written(a) /\ Reply(a, "ok", "done") /\ excused' = excused
    BY <1>2 DEF Commit
  <2>2. QED BY <1>1, <2>1, Recorded
<1>3. CASE Interrupted(a)
  <2> DEFINE p == IF Inspects(a) THEN "done" ELSE "cleanup"
  <2>1. Reply(a, "failed", p) /\ excused' = excused \cup {a}
        /\ (Written(a) \/ UNCHANGED <<object, inspection, document>>)
    BY <1>3 DEF Interrupted
  <2>2. p \in {"done", "cleanup"} /\ p \in Phases /\ (p = "cleanup" => ~ Inspects(a)) /\ a \in excused'
    BY <2>1 DEF Phases
  <2> HIDE DEF p
  <2>3. CASE Written(a)
    BY <1>1, <2>1, <2>2, <2>3, Recorded
  <2>4. CASE UNCHANGED <<object, inspection, document>>
    <3>1. /\ attempt' \in [Attempts -> Request]
          /\ \A b \in Attempts : /\ Same(b) /\ attempt'[b].client = attempt[b].client
                                 /\ attempt'[b].stored = attempt[b].stored
          /\ \A b \in Attempts \ {a} : attempt'[b] = attempt[b]
          /\ attempt'[a].phase = p /\ attempt'[a].answer \in {Nil, "failed"}
      BY <2>1, <2>2, Replied
    <3>2. EvidenceTypes'
      BY <1>1, <2>4, <3>1 DEF EvidenceTypes
    <3>3. Renewals'
      BY <2>4, <3>1, RenewalsStay
    <3>4. \A b \in Attempts : attempt'[b].phase = "checked" => attempt[b].phase = "checked"
      BY <2>2, <3>1
    <3>5. Held'
      BY <1>1, <2>4, <3>1, <3>4, HeldStays
    <3>6. \A i \in inspection : i.by \in Attempts
      BY DEF EvidenceTypes, Report
    <3>7. \A b \in Attempts :
              /\ (attempt'[b].phase = "free") <=> (attempt[b].phase = "free")
              /\ attempt'[b].client \in {"gone", attempt[b].client}
              /\ attempt'[b].answer \in {Nil, "refused", "failed", attempt[b].answer}
      BY <1>1, <2>2, <3>1
    <3>8. Talk' /\ ReportedOnce'
      BY <1>1, <2>4, <3>1, <3>6, <3>7, TalkStays
    <3>9. ASSUME NEW b \in Attempts PROVE Stored(b)'
      <4>1. CASE b # a
        <5>1. Mine(b)' = Mine(b) /\ attempt'[b] = attempt[b] /\ Stored(b)
          BY <1>1, <3>1, <4>1 DEF Mine
        <5>2. ((b \in object)' <=> b \in object) /\ ((b \in excused)' <=> b \in excused)
          BY <2>1, <2>4, <4>1
        <5>3. QED BY <3>1, <5>1, <5>2, StoredStays
      <4>2. CASE b = a
        <5>1. a \notin object' /\ Mine(a)' = KeysOf(a)'
          BY <1>1, <2>4, <3>1 DEF Stored, Mine, KeysOf
        <5>2. QED BY <2>2, <3>1, <4>2, <5>1 DEF Stored
      <4>3. QED BY <4>1, <4>2
    <3>10. QED BY <3>2, <3>3, <3>5, <3>8, <3>9
  <2>5. QED BY <2>1, <2>3, <2>4
<1>4. QED BY <1>2, <1>3

LEMMA EvidenceStart == EvidenceInit => EvidenceInv
<1> SUFFICES ASSUME EvidenceInit PROVE EvidenceInv
  OBVIOUS
<1>1. attempt = [a \in Attempts |-> NoAttempt] /\ NoAttempt \in Request /\ NoAttempt.phase = "free"
      /\ NoAttempt.op = Nil /\ NoAttempt.replaces = Nil /\ NoAttempt.stored = 0 /\ NoAttempt.client = "gone"
  BY DEF EvidenceInit, NoAttempt, Request, Phases
<1>2. NoForm \in Page /\ NoForm.received = Nil /\ inspection = {} /\ document = {} /\ form = NoForm
      /\ bytes = {} /\ object = {} /\ excused = {}
  BY DEF NoForm, Page, EvidenceInit
<1>3. EvidenceTypes
  BY <1>1, <1>2 DEF EvidenceTypes
<1>4. ASSUME NEW a \in Attempts PROVE Stored(a)
  <2>1. Mine(a) = {} /\ KeysOf(a) = {}
    BY <1>1, <1>2, NothingStored DEF Mine
  <2>2. QED BY <1>1, <1>2, <2>1 DEF Stored
<1>5. Held /\ ReportedOnce /\ Renewals
  BY <1>1, <1>2 DEF Held, ReportedOnce, Renewals, RenewedOnce
<1>6. Talk
  BY <1>1, <1>2, EvidenceAssumption DEF Talk, Inspects, Waiting
<1>7. QED BY <1>3, <1>4, <1>5, <1>6 DEF EvidenceInv

LEMMA EvidenceStep == EvidenceInv /\ EvidenceNext => EvidenceInv'
<1> SUFFICES ASSUME EvidenceInv, EvidenceNext PROVE EvidenceInv'
  OBVIOUS
<1>1. CASE BeginUpload \/ Crash \/ DutyChanges \/ RetireDocument \/ LoadForm \/ Leave
                 \/ SubmitReport \/ Resend
  BY <1>1, BeginUploadStep, CrashStep, DutyStep, RetireStep, FormStep, ReportStep
<1>2. ASSUME NEW a \in Attempts,
             \/ CheckEarly(a) \/ StoreNext(a) \/ CheckLate(a) \/ Commit(a)
             \/ Interrupted(a) \/ RolledBack(a) \/ CleanUp(a) \/ Hear(a) \/ TimeOut(a)
      PROVE  EvidenceInv'
  BY <1>2, CheckEarlyStep, StoreNextStep, CheckLateStep, WriteStep, RolledBackStep, CleanUpStep, HearStep
<1>3. QED BY <1>1, <1>2 DEF EvidenceNext

LEMMA EvidenceRests ==
    (part = "evidence" => EvidenceInv) /\ [OfficeNext]_office => (part = "evidence" => EvidenceInv)'
<1> SUFFICES ASSUME part = "evidence" => EvidenceInv, [OfficeNext]_office, part' = "evidence"
             PROVE  EvidenceInv'
  OBVIOUS
<1>1. part = "evidence" /\ EvidenceInv
  BY DEF OfficeNext, office
<1>2. CASE EvidenceNext
  BY <1>1, <1>2, EvidenceStep
<1>3. CASE UNCHANGED evidence
  <2>1. UNCHANGED <<duty, assigned, bytes, object, inspection, document, excused, form>> /\ attempt' = attempt
    BY <1>3 DEF evidence
  <2>2. EvidenceTypes' /\ Held' /\ Renewals' /\ \A a \in Attempts : Stored(a)'
    BY <1>1, <2>1, Unanswered DEF EvidenceInv, EvidenceTypes, Same
  <2>3. ReportedOnce' /\ Talk'
    BY <1>1, <2>1 DEF EvidenceInv, ReportedOnce, Talk, Inspects, Waiting, Known
  <2>4. QED BY <2>2, <2>3 DEF EvidenceInv
<1>4. QED BY <1>1, <1>2, <1>3 DEF OfficeNext, office

(* The store holds the files the rows name and, but for what a request     *)
(* under way, a crash, a lost answer or a failed removal left, no other;   *)
(* for any number of requests and files, wherever the server stops.        *)
THEOREM StoreKept == OfficeSpec => []StoreMatches
<1> DEFINE I == part = "evidence" => EvidenceInv
<1>1. OfficeInit => I
  BY EvidenceStart DEF OfficeInit
<1>2. I /\ [OfficeNext]_office => I'
  BY EvidenceRests
<1>3. I => StoreMatches
  <2> SUFFICES ASSUME EvidenceInv, NEW a \in Attempts
               PROVE  /\ a \in object /\ (Inspects(a) \/ a \notin excused) => Mine(a) = All(a)
                      /\ attempt[a].phase = "done" /\ a \notin excused
                           => Mine(a) = IF a \in object THEN All(a) ELSE {}
    BY DEF StoreMatches, BytesMatchRows, Mine, All
  <2>1. Stored(a) /\ attempt[a].phase \in Phases
    BY Requested DEF EvidenceInv
  <2>2. QED BY <2>1 DEF Stored, Phases
<1>4. QED BY <1>1, <1>2, <1>3, PTL DEF OfficeSpec

(* A visit has one inspection and a document one renewal, and what the     *)
(* driver is shown as received is that inspection, however many requests   *)
(* run at the same time.                                                   *)
THEOREM OneEach == OfficeSpec => []OneReport
<1> DEFINE I == part = "evidence" => EvidenceInv
<1>1. OfficeInit => I
  BY EvidenceStart DEF OfficeInit
<1>2. I /\ [OfficeNext]_office => I'
  BY EvidenceRests
<1>3. I => OneReport
  BY DEF OneReport, EvidenceInv, Renewals
<1>4. QED BY <1>1, <1>2, <1>3, PTL DEF OfficeSpec

(* An inspection or a photo is booked only while the driver is on the      *)
(* shift and the vehicle it is about.                                      *)
THEOREM OnDutyOnly == OfficeSpec => BookedOnDuty
<1> DEFINE I == part = "evidence" => EvidenceInv
           A == part = "evidence" => BooksOnDuty
<1>1. OfficeInit => I
  BY EvidenceStart DEF OfficeInit
<1>2. I /\ [OfficeNext]_office => I'
  BY EvidenceRests
<1>3. I /\ [OfficeNext]_office => [A]_office
  <2> SUFFICES ASSUME EvidenceInv, EvidenceNext PROVE BooksOnDuty
    BY DEF OfficeNext, office
  <2>1. ASSUME NEW a \in Attempts, attempt[a].phase = "checked", object' \subseteq object \cup {a}
        PROVE  BooksOnDuty
    BY <2>1 DEF BooksOnDuty, EvidenceInv, Held, Checked
  <2>2. CASE object' = object
    BY <2>2 DEF BooksOnDuty
  <2>3. ASSUME NEW a \in Attempts, Commit(a) \/ Interrupted(a) PROVE BooksOnDuty
    BY <2>1, <2>2, <2>3 DEF Commit, Interrupted, Written
  <2>4. ASSUME BeginUpload \/ Crash \/ DutyChanges \/ RetireDocument \/ LoadForm \/ Leave
                 \/ SubmitReport \/ Resend
        PROVE  BooksOnDuty
    BY <2>2, <2>4 DEF BeginUpload, Crash, DutyChanges, RetireDocument, LoadForm, Leave, SubmitReport,
       Resend, SendReport
  <2>5. ASSUME NEW a \in Attempts,
               CheckEarly(a) \/ StoreNext(a) \/ CheckLate(a) \/ RolledBack(a) \/ CleanUp(a)
               \/ Hear(a) \/ TimeOut(a)
        PROVE  BooksOnDuty
    BY <2>2, <2>5 DEF CheckEarly, StoreNext, CheckLate, RolledBack, CleanUp, Hear, TimeOut
  <2>6. QED BY <2>3, <2>4, <2>5 DEF EvidenceNext
<1>4. QED BY <1>1, <1>2, <1>3, PTL DEF OfficeSpec, BookedOnDuty

-----------------------------------------------------------------------------
(***************************************************************************)
(* Categories.  What a clerk who holds the lock found stays true.          *)
(***************************************************************************)
CreateJob == [op : {"create"}, locked : BOOLEAN, name : Names]
ChangeJob == [op : {"update", "archive", "reactivate"}, locked : BOOLEAN, id : CategoryIds,
              name : Names, version : Nat]
LabelJob  == [op : {"label"}, locked : BOOLEAN, vehicle : Trucks, name : Names,
              id : CategoryIds \cup {Nil}]

CatalogueOK ==
    /\ category \in [CategoryIds -> CategoryRow \cup {Nil}]
    /\ label \in [Trucks -> [name : Names, id : CategoryIds \cup {Nil}]]
JobsOK ==
    /\ work \in [Clerks -> {Rest} \cup CreateJob \cup ChangeJob \cup LabelJob]
    /\ \A s, t \in Clerks :
         work[s] # Rest /\ work[s].locked /\ work[t] # Rest /\ work[t].locked => s = t

(* Labels carry the name of their category, and names are unique.          *)
Labelled ==
    /\ \A v \in Trucks : label[v].id # Nil =>
         Made(label[v].id) /\ label[v].name = category[label[v].id].name
    /\ \A c, d \in CategoryIds :
         Made(c) /\ Made(d) /\ category[c].name = category[d].name => c = d

FoundStands(r) ==
    /\ r.op \in {"update", "archive", "reactivate"} => Made(r.id)
    /\ r.op = "label" /\ r.id # Nil => Made(r.id)
    /\ r.locked =>
         /\ r.op = "create" => ~ Taken(r.name, Nil)
         /\ r.op = "update" => ~ Taken(r.name, r.id)
         /\ r.op = "label" /\ r.id # Nil =>
              /\ category[r.id].name = r.name
              /\ category[r.id].active \/ r.id = label[r.vehicle].id
WorkStands == \A s \in Clerks : work[s] # Rest => FoundStands(work[s])

CategoriesInv == CatalogueOK /\ JobsOK /\ Labelled /\ WorkStands

LEMMA CategoriesStart == CategoriesInit => CategoriesInv
  BY DEF CategoriesInit, CategoriesInv, CatalogueOK, JobsOK, Labelled, WorkStands, Rest, Made

(* A clerk asks, or is turned away.                                        *)
LEMMA JobStep ==
    ASSUME CategoriesInv, NEW s \in Clerks,
           NEW r \in {Rest} \cup CreateJob \cup ChangeJob \cup LabelJob,
           work' = [work EXCEPT ![s] = r], UNCHANGED <<category, label>>,
           r # Rest => ~ r.locked /\ FoundStands(r)
    PROVE  CategoriesInv'
  <1>1. work'[s] = r /\ \A t \in Clerks : t # s => work'[t] = work[t]
    BY DEF CategoriesInv, JobsOK
  <1>2. CatalogueOK' /\ Labelled'
    BY DEF CategoriesInv, CatalogueOK, Labelled, Made
  <1>3. JobsOK'
    BY <1>1 DEF CategoriesInv, JobsOK
  <1>4. \A x : FoundStands(x) <=>
            /\ x.op \in {"update", "archive", "reactivate"} => category'[x.id] # Nil
            /\ x.op = "label" /\ x.id # Nil => category'[x.id] # Nil
            /\ x.locked =>
                 /\ x.op = "create" => ~ \E d \in CategoryIds \ {Nil} :
                                           category'[d] # Nil /\ category'[d].name = x.name
                 /\ x.op = "update" => ~ \E d \in CategoryIds \ {x.id} :
                                           category'[d] # Nil /\ category'[d].name = x.name
                 /\ x.op = "label" /\ x.id # Nil =>
                      /\ category'[x.id].name = x.name
                      /\ category'[x.id].active \/ x.id = label'[x.vehicle].id
    BY DEF FoundStands, Made, Taken
  <1>5. WorkStands'
    BY <1>1, <1>4 DEF CategoriesInv, WorkStands, FoundStands, Made, Taken
  <1>6. QED
    BY <1>2, <1>3, <1>5 DEF CategoriesInv

LEMMA AskStep ==
    ASSUME CategoriesInv, NEW s \in Clerks, AskCategory(s) \/ AskLabel(s) \/ Reject(s)
    PROVE  CategoriesInv'
  <1>1. ASSUME NEW r \in CreateJob \cup ChangeJob \cup LabelJob, Ask(s, r),
               ~ r.locked, FoundStands(r)
        PROVE  CategoriesInv'
    BY <1>1, JobStep DEF Ask
  <1>2. CASE AskCategory(s)
    <2>1. ASSUME NEW n \in Names, Ask(s, [op |-> "create", locked |-> FALSE, name |-> n])
          PROVE  CategoriesInv'
      <3> DEFINE r == [op |-> "create", locked |-> FALSE, name |-> n]
      <3>1. r \in CreateJob /\ ~ r.locked /\ FoundStands(r)
        BY DEF CreateJob, FoundStands
      <3>2. QED
        BY <1>1, <2>1, <3>1
    <2>2. ASSUME NEW c \in CategoryIds, NEW n \in Names, NEW what \in {"update", "archive", "reactivate"},
                 Made(c), Ask(s, [op |-> what, locked |-> FALSE, id |-> c, name |-> n,
                                  version |-> category[c].version])
          PROVE  CategoriesInv'
      <3> DEFINE r == [op |-> what, locked |-> FALSE, id |-> c, name |-> n,
                       version |-> category[c].version]
      <3>1. category[c].version \in Nat
        BY <2>2 DEF CategoriesInv, CatalogueOK, CategoryRow, Made
      <3>2. r \in ChangeJob /\ ~ r.locked /\ FoundStands(r)
        BY <2>2, <3>1 DEF ChangeJob, FoundStands
      <3>3. QED
        BY <1>1, <2>2, <3>2
    <2>3. \A c \in CategoryIds : Made(c) => category[c].name \in Names
      BY DEF CategoriesInv, CatalogueOK, CategoryRow, Made
    <2>4. QED
      BY <1>2, <2>1, <2>2, <2>3 DEF AskCategory
  <1>3. CASE AskLabel(s)
    <2>1. PICK v \in Trucks, n \in Names, c \in CategoryIds \cup {Nil} :
            /\ c # Nil => Made(c)
            /\ Ask(s, [op |-> "label", locked |-> FALSE, vehicle |-> v, name |-> n, id |-> c])
      BY <1>3 DEF AskLabel
    <2> DEFINE r == [op |-> "label", locked |-> FALSE, vehicle |-> v, name |-> n, id |-> c]
    <2>2. r \in LabelJob /\ ~ r.locked /\ FoundStands(r)
      BY <2>1 DEF LabelJob, FoundStands
    <2>3. QED
      BY <1>1, <2>1, <2>2
  <1>4. CASE Reject(s)
    BY <1>4, JobStep DEF Reject
  <1>5. QED
    BY <1>2, <1>3, <1>4

(* The category a vehicle form leads to.                                   *)
LEMMA FoundCategory ==
    ASSUME CategoriesInv, NEW r \in LabelJob, FoundStands(r), Found(r) # Nil
    PROVE  Found(r) \in CategoryIds /\ Made(Found(r)) /\ category[Found(r)].name \in Names
  <1>1. CASE Kept(r) # Nil
    <2>1. Kept(r) \in CategoryIds /\ Made(Kept(r))
      BY <1>1 DEF Kept, FoundStands, CategoriesInv, CatalogueOK, Labelled, LabelJob
    <2>2. QED
      BY <1>1, <2>1 DEF Found, CategoriesInv, CatalogueOK, CategoryRow, Made
  <1>2. CASE Kept(r) = Nil
    <2>1. \E c \in CategoryIds : Made(c) /\ category[c].name = r.name
      BY <1>2 DEF Found, Taken
    <2>2. Found(r) = CHOOSE c \in CategoryIds : Made(c) /\ category[c].name = r.name
      BY <1>2 DEF Found
    <2>3. Found(r) \in CategoryIds /\ Made(Found(r)) /\ category[Found(r)].name = r.name
      BY <2>1, <2>2
    <2>4. QED
      BY <2>3 DEF LabelJob
  <1>3. QED
    BY <1>1, <1>2

LEMMA PrepareStep ==
    ASSUME CategoriesInv, NEW s \in Clerks, Prepare(s)
    PROVE  CategoriesInv'
  <1> DEFINE r == work[s]
             found == [op |-> "label", locked |-> TRUE, vehicle |-> r.vehicle, id |-> Found(r),
                       name |-> IF Found(r) = Nil THEN r.name ELSE category[Found(r)].name]
             new == IF r.op # "label" THEN [r EXCEPT !.locked = TRUE] ELSE found
  <1>1. /\ r # Rest /\ ~ r.locked /\ MayRun(s) /\ Allowed(r)
        /\ work' = [work EXCEPT ![s] = new] /\ UNCHANGED <<category, label>>
    BY DEF Prepare, CategoriesInv, JobsOK
  <1>2. r \in CreateJob \cup ChangeJob \cup LabelJob /\ FoundStands(r)
    BY <1>1 DEF CategoriesInv, JobsOK, WorkStands
  <1>3. new \in CreateJob \cup ChangeJob \cup LabelJob /\ new # Rest /\ FoundStands(new)
    <2>1. CASE r \in CreateJob
      <3>1. new = [op |-> "create", locked |-> TRUE, name |-> r.name] /\ r.name \in Names
        BY <2>1 DEF CreateJob
      <3>2. ~ Taken(r.name, Nil)
        BY <1>1, <2>1 DEF Allowed, CreateJob
      <3> HIDE DEF new
      <3>3. QED
        BY <3>1, <3>2 DEF CreateJob, FoundStands, Rest
    <2>2. CASE r \in ChangeJob
      <3>1. /\ new = [op |-> r.op, locked |-> TRUE, id |-> r.id, name |-> r.name,
                      version |-> r.version]
            /\ r.op \in {"update", "archive", "reactivate"} /\ r.id \in CategoryIds
            /\ r.name \in Names /\ r.version \in Nat
        BY <2>2 DEF ChangeJob
      <3>2. ~ Taken(r.name, r.id) /\ Made(r.id)
        BY <1>1, <1>2, <3>1 DEF Allowed, FoundStands
      <3> HIDE DEF new, r
      <3>3. QED
        BY <3>1, <3>2 DEF ChangeJob, FoundStands, Rest
    <2>3. CASE r \in LabelJob
      <3> DEFINE c == Found(r)
                 n == IF c = Nil THEN r.name ELSE category[c].name
      <3>1. new = [op |-> "label", locked |-> TRUE, vehicle |-> r.vehicle, id |-> c, name |-> n]
        BY <2>3 DEF LabelJob
      <3>2. /\ c # Nil => c \in CategoryIds /\ Made(c) /\ category[c].name \in Names
            /\ r.vehicle \in Trucks /\ r.name \in Names
        BY <1>2, <2>3, FoundCategory DEF LabelJob
      <3>3. c # Nil => category[c].active \/ c = label[r.vehicle].id
        BY <1>1, <2>3 DEF Allowed, LabelJob
      <3>4. n \in Names
        BY <3>2
      <3>5. c # Nil => category[c].name = n
        OBVIOUS
      <3> HIDE DEF new, r, c, n
      <3>6. new \in LabelJob /\ new # Rest
        BY <3>1, <3>2, <3>4 DEF LabelJob, Rest
      <3>7. FoundStands(new)
        BY <3>1, <3>2, <3>3, <3>5 DEF FoundStands
      <3>8. QED
        BY <3>6, <3>7
    <2>4. QED
      BY <1>2, <2>1, <2>2, <2>3
  <1> HIDE DEF new
  <1>4. work'[s] = new /\ \A t \in Clerks : t # s => work'[t] = work[t]
    BY <1>1 DEF CategoriesInv, JobsOK
  <1>5. CatalogueOK' /\ Labelled'
    BY <1>1 DEF CategoriesInv, CatalogueOK, Labelled, Made
  <1>6. JobsOK'
    <2>1. \A t \in Clerks : t # s => ~ (work'[t] # Rest /\ work'[t].locked)
      BY <1>1, <1>4 DEF MayRun
    <2>2. work' \in [Clerks -> {Rest} \cup CreateJob \cup ChangeJob \cup LabelJob]
      BY <1>1, <1>3 DEF CategoriesInv, JobsOK
    <2>3. QED
      BY <2>1, <2>2 DEF JobsOK, Rest
  <1>7. WorkStands'
    <2>1. ASSUME NEW t \in Clerks, work'[t] # Rest PROVE FoundStands(work[t])'
      <3> DEFINE x == work'[t]
      <3>1. FoundStands(x)
        BY <1>3, <1>4, <2>1 DEF CategoriesInv, WorkStands
      <3>2. QED
        BY <1>1, <3>1 DEF FoundStands, Made, Taken
    <2>2. QED
      BY <2>1 DEF WorkStands, Rest
  <1>8. QED
    BY <1>5, <1>6, <1>7 DEF CategoriesInv

(* What a commit leaves of the other clerks' work: it is not locked.       *)
LEMMA WorkGoesOn ==
    ASSUME CategoriesInv, NEW s \in Clerks, work[s] # Rest, work[s].locked,
           work' = [work EXCEPT ![s] = Rest],
           \A c \in CategoryIds : Made(c) => Made(c)'
    PROVE  JobsOK' /\ WorkStands'
  <1>1. work'[s] = Rest /\ \A t \in Clerks : t # s => work'[t] = work[t]
    BY DEF CategoriesInv, JobsOK
  <1>2. \A t \in Clerks : t # s /\ work[t] # Rest => ~ work[t].locked
    BY DEF CategoriesInv, JobsOK
  <1>3. JobsOK'
    <2>1. work' \in [Clerks -> {Rest} \cup CreateJob \cup ChangeJob \cup LabelJob]
      BY DEF CategoriesInv, JobsOK
    <2>2. \A t \in Clerks : work'[t] # Rest => ~ work'[t].locked
      BY <1>1, <1>2
    <2>3. QED
      BY <2>1, <2>2 DEF JobsOK, Rest
  <1>4. WorkStands'
    <2>1. ASSUME NEW t \in Clerks, work'[t] # Rest PROVE FoundStands(work[t])'
      <3> DEFINE x == work[t]
      <3>1. t # s /\ work'[t] = x /\ x # Rest /\ ~ x.locked /\ FoundStands(x)
        BY <1>1, <1>2, <2>1 DEF CategoriesInv, WorkStands
      <3>2. x.op \in {"update", "archive", "reactivate"} => x.id \in CategoryIds
        BY <3>1 DEF CategoriesInv, JobsOK, ChangeJob, CreateJob, LabelJob, Rest
      <3>3. x.op = "label" => x.id \in CategoryIds \cup {Nil}
        BY <3>1 DEF CategoriesInv, JobsOK, ChangeJob, CreateJob, LabelJob, Rest
      <3> HIDE DEF x
      <3>4. QED
        BY <3>1, <3>2, <3>3 DEF FoundStands, Made
    <2>2. QED
      BY <2>1 DEF WorkStands, Rest
  <1>5. QED
    BY <1>3, <1>4

LEMMA SaveCategoryStep ==
    ASSUME CategoriesInv, NEW s \in Clerks, SaveCategory(s)
    PROVE  CategoriesInv' /\ Follows
  <1> DEFINE r == work[s]
  <1>1. /\ r # Rest /\ r.locked /\ work' = [work EXCEPT ![s] = Rest]
        /\ CatalogueOK /\ Labelled /\ FoundStands(r)
        /\ r \in CreateJob \cup ChangeJob \cup LabelJob
    BY DEF SaveCategory, CategoriesInv, WorkStands, JobsOK
  <1>2. ASSUME CatalogueOK', Labelled',
               \A c \in CategoryIds : Made(c) => Made(c)',
               \A v \in Trucks : label'[v].id # Nil /\ label'[v].id # label[v].id =>
                                    category'[label'[v].id].active
        PROVE  CategoriesInv' /\ Follows
    <2>1. CategoriesInv'
      BY <1>1, <1>2, WorkGoesOn DEF CategoriesInv
    <2>2. Follows
      BY <1>2 DEF Follows, Labelled, Made
    <2>3. QED
      BY <2>1, <2>2
  <1>3. CASE r.op = "create"
    <2>1. r.name \in Names /\ ~ Taken(r.name, Nil)
      BY <1>1, <1>3 DEF CreateJob, ChangeJob, LabelJob, FoundStands
    <2>2. PICK c \in CategoryIds :
            /\ ~ Made(c)
            /\ category' = [category EXCEPT ![c] = [name |-> r.name, active |-> TRUE, version |-> 1]]
            /\ Relabelled(c, r.name, {v \in Trucks : label[v].id = Nil /\ label[v].name = r.name})
      BY <1>3 DEF SaveCategory
    <2> DEFINE row == [name |-> r.name, active |-> TRUE, version |-> 1]
    <2>3. row \in CategoryRow /\ row # Nil /\ row.name = r.name /\ row.active
      <3>1. row \in CategoryRow /\ row.name = r.name /\ row.active
        BY <2>1 DEF CategoryRow
      <3> HIDE DEF row
      <3>2. QED
        BY <3>1, CategoriesAssumption
    <2> HIDE DEF row
    <2>4. category'[c] = row /\ \A d \in CategoryIds : d # c => category'[d] = category[d]
      BY <1>1, <2>2 DEF CatalogueOK, row
    <2>5. \A v \in Trucks : label'[v] = [name |-> r.name, id |-> c]
                            \/ (label'[v] = label[v] /\ label[v].id # c)
      BY <1>1, <2>2, CategoriesAssumption DEF Relabelled, Labelled
    <2>6. CatalogueOK'
      <3>1. category' \in [CategoryIds -> CategoryRow \cup {Nil}]
        BY <1>1, <2>2, <2>3, <2>4 DEF CatalogueOK
      <3>2. \A v \in Trucks : label'[v] \in [name : Names, id : CategoryIds \cup {Nil}]
        BY <1>1, <2>1, <2>5 DEF CatalogueOK
      <3>3. label' \in [Trucks -> [name : Names, id : CategoryIds \cup {Nil}]]
        BY <2>2, <3>2 DEF Relabelled
      <3>4. QED
        BY <3>1, <3>3 DEF CatalogueOK
    <2>7. Labelled'
      <3>1. ASSUME NEW v \in Trucks, label'[v].id # Nil
            PROVE  category'[label'[v].id] # Nil /\ label'[v].name = category'[label'[v].id].name
        <4>1. CASE label'[v] = [name |-> r.name, id |-> c]
          BY <2>3, <2>4, <4>1
        <4>2. CASE label'[v] = label[v] /\ label[v].id # c
          <5>1. Made(label[v].id) /\ label[v].name = category[label[v].id].name
                /\ label[v].id \in CategoryIds
            BY <1>1, <3>1, <4>2 DEF Labelled, CatalogueOK
          <5>2. QED
            BY <2>4, <4>2, <5>1 DEF Made
        <4>3. QED
          BY <2>5, <4>1, <4>2
      <3>2. \A d, e \in CategoryIds : category'[d] # Nil /\ category'[e] # Nil
               /\ category'[d].name = category'[e].name => d = e
        BY <1>1, <2>1, <2>3, <2>4, CategoriesAssumption DEF Labelled, Made, Taken
      <3>3. QED
        BY <3>1, <3>2 DEF Labelled, Made
    <2>8. \A d \in CategoryIds : Made(d) => Made(d)'
      BY <2>2, <2>4 DEF Made
    <2>9. \A v \in Trucks : label'[v].id # Nil /\ label'[v].id # label[v].id =>
                               category'[label'[v].id].active
      BY <2>3, <2>4, <2>5
    <2>10. QED
      BY <1>2, <2>6, <2>7, <2>8, <2>9
  <1>4. CASE r.op \in {"update", "archive", "reactivate"}
    <2> DEFINE c == r.id
    <2>1. c \in CategoryIds /\ r.name \in Names /\ Made(c) /\ category[c] \in CategoryRow
      BY <1>1, <1>4 DEF CreateJob, ChangeJob, LabelJob, FoundStands, CatalogueOK, Made
    <2>2. CASE r.op = "update"
      <3>1. /\ category' = [category EXCEPT ![c].name = r.name, ![c].version = @ + 1]
            /\ Relabelled(c, r.name, {v \in Trucks : label[v].id = c})
            /\ ~ Taken(r.name, c)
        BY <1>1, <2>2 DEF SaveCategory, FoundStands
      <3>2. category'[c] = [category[c] EXCEPT !.name = r.name, !.version = @ + 1]
            /\ \A d \in CategoryIds : d # c => category'[d] = category[d]
        BY <1>1, <2>1, <3>1 DEF CatalogueOK
      <3>3. category'[c] \in CategoryRow /\ category'[c].name = r.name
        <4>1. category[c].version + 1 \in Nat /\ category[c].active \in BOOLEAN
              /\ category[c] = [name |-> category[c].name, active |-> category[c].active,
                                version |-> category[c].version]
          BY <2>1 DEF CategoryRow
        <4>2. category'[c] = [name |-> r.name, active |-> category[c].active,
                              version |-> category[c].version + 1]
          BY <3>2, <4>1
        <4>3. QED
          BY <2>1, <4>1, <4>2 DEF CategoryRow
      <3>4. category'[c] # Nil
        BY <3>3, CategoriesAssumption
      <3>5. \A v \in Trucks : label[v].id = c => label'[v] = [name |-> r.name, id |-> c]
        BY <3>1 DEF Relabelled
      <3>6. \A v \in Trucks : label[v].id # c => label'[v] = label[v]
        BY <3>1 DEF Relabelled
      <3>7. CatalogueOK'
        <4>1. category' \in [CategoryIds -> CategoryRow \cup {Nil}]
          BY <1>1, <3>1, <3>2, <3>3 DEF CatalogueOK
        <4>2. \A v \in Trucks : label'[v] \in [name : Names, id : CategoryIds \cup {Nil}]
          BY <1>1, <2>1, <3>5, <3>6 DEF CatalogueOK
        <4>3. label' \in [Trucks -> [name : Names, id : CategoryIds \cup {Nil}]]
          BY <3>1, <4>2 DEF Relabelled
        <4>4. QED
          BY <4>1, <4>3 DEF CatalogueOK
      <3>8. Labelled'
        <4>1. ASSUME NEW v \in Trucks, label'[v].id # Nil
              PROVE  category'[label'[v].id] # Nil /\ label'[v].name = category'[label'[v].id].name
          <5>1. CASE label[v].id = c
            BY <3>3, <3>4, <3>5, <5>1
          <5>2. CASE label[v].id # c
            <6>1. label'[v] = label[v]
              BY <3>6, <5>2
            <6>2. Made(label[v].id) /\ label[v].name = category[label[v].id].name
                  /\ label[v].id \in CategoryIds
              BY <1>1, <4>1, <6>1 DEF Labelled, CatalogueOK
            <6>3. QED
              BY <3>2, <5>2, <6>1, <6>2 DEF Made
          <5>3. QED
            BY <5>1, <5>2
        <4>2. \A d, e \in CategoryIds : category'[d] # Nil /\ category'[e] # Nil
                 /\ category'[d].name = category'[e].name => d = e
          <5>1. \A d \in CategoryIds : d # c /\ category[d] # Nil => category[d].name # r.name
            BY <3>1 DEF Taken, Made
          <5>2. \A d, e \in CategoryIds : category[d] # Nil /\ category[e] # Nil
                   /\ category[d].name = category[e].name => d = e
            BY <1>1 DEF Labelled, Made
          <5>3. QED
            BY <3>2, <3>3, <5>1, <5>2
        <4>3. QED
          BY <4>1, <4>2 DEF Labelled, Made
      <3>9. \A d \in CategoryIds : Made(d) => Made(d)'
        BY <3>2, <3>4 DEF Made
      <3>10. \A v \in Trucks : label'[v].id = label[v].id
        BY <3>5, <3>6
      <3>11. QED
        BY <1>2, <3>7, <3>8, <3>9, <3>10
    <2>3. CASE r.op \in {"archive", "reactivate"}
      <3>1. /\ category' = [category EXCEPT ![c].active = r.op = "reactivate", ![c].version = @ + 1]
            /\ label' = label
        BY <2>3 DEF SaveCategory
      <3>2. category'[c] = [category[c] EXCEPT !.active = (r.op = "reactivate"), !.version = @ + 1]
            /\ \A d \in CategoryIds : d # c => category'[d] = category[d]
        BY <1>1, <2>1, <3>1 DEF CatalogueOK
      <3>3. category'[c] \in CategoryRow /\ category'[c].name = category[c].name
        <4>1. category[c].version + 1 \in Nat /\ category[c].name \in Names
              /\ category[c] = [name |-> category[c].name, active |-> category[c].active,
                                version |-> category[c].version]
          BY <2>1 DEF CategoryRow
        <4> DEFINE on == r.op = "reactivate"
        <4>2. on \in BOOLEAN
          OBVIOUS
        <4>3. category'[c] = [name |-> category[c].name, active |-> on,
                              version |-> category[c].version + 1]
          BY <3>2, <4>1
        <4> HIDE DEF on
        <4>4. QED
          BY <4>1, <4>2, <4>3 DEF CategoryRow
      <3>4. \A d \in CategoryIds : category'[d] # Nil <=> category[d] # Nil
        BY <2>1, <3>2, <3>3, CategoriesAssumption DEF Made
      <3>5. CatalogueOK'
        BY <1>1, <3>1, <3>2, <3>3 DEF CatalogueOK
      <3>6. Labelled'
        BY <1>1, <3>1, <3>2, <3>3, <3>4 DEF Labelled, Made, CatalogueOK
      <3>7. QED
        BY <1>2, <3>1, <3>4, <3>5, <3>6 DEF Made
    <2>4. QED
      BY <1>4, <2>2, <2>3
  <1>5. CASE r.op = "label"
    <2>1. r.vehicle \in Trucks /\ r.name \in Names /\ r.id \in CategoryIds \cup {Nil}
      BY <1>1, <1>5 DEF CreateJob, ChangeJob, LabelJob
    <2>2. label' = [label EXCEPT ![r.vehicle] = [name |-> r.name, id |-> r.id]]
          /\ category' = category
      BY <1>5 DEF SaveCategory
    <2>3. label'[r.vehicle] = [name |-> r.name, id |-> r.id]
          /\ \A v \in Trucks : v # r.vehicle => label'[v] = label[v]
      BY <1>1, <2>1, <2>2 DEF CatalogueOK
    <2>4. r.id # Nil => /\ Made(r.id) /\ category[r.id].name = r.name
                        /\ category[r.id].active \/ r.id = label[r.vehicle].id
      BY <1>1, <1>5 DEF FoundStands
    <2>5. CatalogueOK'
      BY <1>1, <2>1, <2>2 DEF CatalogueOK
    <2>6. Labelled'
      BY <1>1, <2>2, <2>3, <2>4 DEF Labelled, Made
    <2>7. QED
      BY <1>2, <2>2, <2>3, <2>4, <2>5, <2>6 DEF Made
  <1>6. QED
    BY <1>1, <1>3, <1>4, <1>5 DEF CreateJob, ChangeJob, LabelJob

LEMMA CategoriesStep ==
    CategoriesInv /\ [CategoriesNext]_labels => CategoriesInv' /\ Follows
  <1>1. ASSUME CategoriesInv, CategoriesInv', UNCHANGED <<category, label>> PROVE Follows
    BY <1>1 DEF CategoriesInv, Labelled, Follows, Made
  <1>2. ASSUME CategoriesInv, NEW s \in Clerks,
               AskCategory(s) \/ AskLabel(s) \/ Prepare(s) \/ Reject(s)
        PROVE  CategoriesInv' /\ Follows
    <2>1. UNCHANGED <<category, label>>
      BY <1>2 DEF AskCategory, AskLabel, Ask, Prepare, Reject
    <2>2. CategoriesInv'
      BY <1>2, AskStep, PrepareStep
    <2>3. QED
      BY <1>1, <1>2, <2>1, <2>2
  <1>3. ASSUME CategoriesInv, UNCHANGED labels PROVE CategoriesInv' /\ Follows
    <2>1. CategoriesInv'
      BY <1>3 DEF CategoriesInv, labels, CatalogueOK, JobsOK, Labelled, WorkStands, FoundStands,
                  Made, Taken, Rest
    <2>2. QED
      BY <1>1, <1>3, <2>1 DEF labels
  <1>4. QED
    BY <1>2, <1>3, SaveCategoryStep DEF CategoriesNext

(* A vehicle of a category carries its name through every rename, and      *)
(* comes to it only while it is active (mutateCategory, vehicleCategories).*)
THEOREM LabelsFollowCategories == OfficeSpec => LabelsFollow
  <1> DEFINE I == part = "categories" => CategoriesInv
             A == part = "categories" => Follows
  <1>1. OfficeInit => I
    BY CategoriesStart DEF OfficeInit
  <1>2. I /\ [OfficeNext]_office => I' /\ A
    BY CategoriesStep DEF OfficeNext, office
  <1>3. I /\ [OfficeNext]_office => [A]_office
    BY <1>2
  <1>4. OfficeSpec => [][A]_office
    BY <1>1, <1>2, <1>3, PTL DEF OfficeSpec
  <1>5. QED
    BY <1>4 DEF LabelsFollow

-----------------------------------------------------------------------------
(***************************************************************************)
(* Delivery details.  An entry that is being corrected is the current one  *)
(* and locked by one panel only.                                           *)
(***************************************************************************)
Sent(r) == [phase |-> r.phase, id |-> r.id, driver |-> r.driver, kind |-> r.kind]

DetailsOK == detail \in [DetailIds -> EntryRow \cup {Nil}]
PanelRow ==
    [driver : Drivers, kind : Kinds, loading : BOOLEAN, items : SUBSET DetailIds,
     editing : {"new", "closed"} \cup DetailIds]
PanelsOK ==
    /\ panel \in [Panels -> PanelRow] /\ DOMAIN saving = Panels
    /\ \A p \in Panels :
         /\ \A i \in panel[p].items : IsRow(i)
         /\ panel[p].editing \in DetailIds => IsRow(panel[p].editing)
SavingOK ==
    \A p \in Panels :
        /\ saving[p].phase \in {"none", "sent", "locked", "saved"}
        /\ saving[p].phase = "none" => saving[p] = None
        /\ saving[p].phase \in {"sent", "locked"} =>
             /\ saving[p] = Sent(saving[p])
             /\ saving[p].driver \in Drivers /\ saving[p].kind \in Kinds
             /\ saving[p].id = "new" \/ (saving[p].id \in DetailIds /\ IsRow(saving[p].id))

(* Who holds the lock of an entry corrects the current one.                *)
Corrects ==
    /\ \A p \in Panels : saving[p].phase = "locked" => Correctable(saving[p])
    /\ \A p, q \in Panels :
         /\ saving[p].phase = "locked" /\ saving[q].phase = "locked"
         /\ saving[p].id = saving[q].id /\ saving[p].id # "new"
         => p = q
Rooted ==
    \A i \in DetailIds : IsRow(i) /\ detail[i].previous # Nil => IsRow(detail[i].previous)

DeliveriesInv == DetailsOK /\ PanelsOK /\ SavingOK /\ Corrects /\ Rooted /\ OneLine

LEMMA DeliveriesStart == DeliveriesInit => DeliveriesInv
  <1> SUFFICES ASSUME DeliveriesInit PROVE DeliveriesInv
    OBVIOUS
  <1>1. DetailsOK /\ Rooted /\ OneLine
    BY DEF DeliveriesInit, DetailsOK, Rooted, OneLine, IsRow
  <1>2. PanelsOK
    BY DeliveriesAssumption DEF DeliveriesInit, PanelsOK, PanelRow, Kinds
  <1>3. SavingOK /\ Corrects
    BY DEF DeliveriesInit, SavingOK, Corrects, None
  <1>4. QED
    BY <1>1, <1>2, <1>3 DEF DeliveriesInv

(* Steps of the panel alone.                                               *)
LEMMA PanelStep ==
    ASSUME DeliveriesInv, NEW p \in Panels,
           Browse(p) \/ ReceiveEntries(p) \/ Edit(p)
    PROVE  DeliveriesInv'
  <1>1. detail' = detail /\ saving' = saving
    BY DEF Browse, ReceiveEntries, Edit
  <1>2. DetailsOK' /\ SavingOK' /\ Corrects' /\ Rooted' /\ OneLine'
    BY <1>1 DEF DeliveriesInv, DetailsOK, SavingOK, Corrects, Correctable, Rooted, OneLine,
                IsRow, Sent
  <1>3. PanelsOK'
    <2>1. PanelsOK
      BY DEF DeliveriesInv
    <2> DEFINE row == panel[p]
    <2>2. row \in PanelRow
      BY <2>1 DEF PanelsOK
    <2>3. ASSUME NEW new \in PanelRow, panel' = [panel EXCEPT ![p] = new],
                 \A i \in new.items : IsRow(i), new.editing \in DetailIds => IsRow(new.editing)
          PROVE  PanelsOK'
      BY <1>1, <2>1, <2>3 DEF PanelsOK, IsRow
    <2>4. CASE Browse(p)
      <3>1. ASSUME NEW d \in Drivers, panel' = [panel EXCEPT ![p].driver = d, ![p].loading = TRUE]
            PROVE  PanelsOK'
        <4> DEFINE new == [row EXCEPT !.driver = d, !.loading = TRUE]
        <4>1. new \in PanelRow /\ new.items = row.items /\ new.editing = row.editing
          BY <2>2 DEF PanelRow
        <4>2. panel' = [panel EXCEPT ![p] = new]
          BY <2>1, <3>1 DEF PanelsOK
        <4> HIDE DEF new
        <4>3. QED
          BY <2>1, <2>3, <4>1, <4>2 DEF PanelsOK
      <3>2. ASSUME NEW k \in Kinds, panel' = [panel EXCEPT ![p].kind = k, ![p].loading = TRUE,
                                                          ![p].editing = "closed"]
            PROVE  PanelsOK'
        <4> DEFINE new == [row EXCEPT !.kind = k, !.loading = TRUE, !.editing = "closed"]
        <4>1. new \in PanelRow /\ new.items = row.items /\ new.editing = "closed"
          BY <2>2 DEF PanelRow
        <4>2. panel' = [panel EXCEPT ![p] = new]
          BY <2>1, <3>2 DEF PanelsOK
        <4> HIDE DEF new
        <4>3. QED
          BY <2>1, <2>3, <4>1, <4>2, DeliveriesAssumption DEF PanelsOK
      <3>3. QED
        BY <2>4, <3>1, <3>2 DEF Browse, Show
    <2>5. CASE ReceiveEntries(p)
      <3> DEFINE items == Current(row.driver, row.kind)
                 new == [row EXCEPT !.loading = FALSE, !.items = items]
      <3>1. items \subseteq DetailIds /\ \A i \in items : IsRow(i)
        BY DEF Current
      <3> HIDE DEF items
      <3>2. new \in PanelRow /\ new.items = items /\ new.editing = row.editing
        BY <2>2, <3>1 DEF PanelRow
      <3>3. panel' = [panel EXCEPT ![p] = new]
        BY <2>1, <2>5 DEF ReceiveEntries, PanelsOK, items
      <3> HIDE DEF new
      <3>4. QED
        BY <2>1, <2>3, <3>1, <3>2, <3>3 DEF PanelsOK
    <2>6. CASE Edit(p)
      <3>1. PICK i \in {j \in row.items : detail[j].kind = row.kind} \cup {"new", "closed"} :
              panel' = [panel EXCEPT ![p].editing = i]
        BY <2>6 DEF Edit
      <3> DEFINE new == [row EXCEPT !.editing = i]
      <3>2. i \in {"new", "closed"} \/ (i \in DetailIds /\ IsRow(i))
        BY <2>1, <2>2 DEF PanelsOK, PanelRow
      <3>3. new \in PanelRow /\ new.items = row.items /\ new.editing = i
        BY <2>2, <3>2 DEF PanelRow
      <3>4. panel' = [panel EXCEPT ![p] = new]
        BY <2>1, <3>1 DEF PanelsOK
      <3> HIDE DEF new
      <3>5. QED
        BY <2>1, <2>3, <3>2, <3>3, <3>4, DeliveriesAssumption DEF PanelsOK
    <2>7. QED
      BY <2>4, <2>5, <2>6
  <1>4. QED
    BY <1>2, <1>3 DEF DeliveriesInv

(* Steps of a request before it writes, and after.                         *)
LEMMA OneRequest ==
    ASSUME SavingOK, detail' = detail, NEW p \in Panels,
           \A q \in Panels : q # p => saving'[q] = saving[q],
           NEW phase \in {"sent", "locked"}, NEW id, NEW d \in Drivers, NEW k \in Kinds,
           saving'[p] = [phase |-> phase, id |-> id, driver |-> d, kind |-> k],
           id = "new" \/ (id \in DetailIds /\ IsRow(id))
    PROVE  SavingOK'
  <1>1. \A x : x = saving'[p] =>
           x.phase = phase /\ x = Sent(x) /\ x.driver = d /\ x.kind = k /\ x.id = id
    BY DEF Sent
  <1>2. ASSUME NEW q \in Panels
        PROVE  /\ saving'[q].phase \in {"none", "sent", "locked", "saved"}
               /\ saving'[q].phase = "none" => saving'[q] = None
               /\ saving'[q].phase \in {"sent", "locked"} =>
                    /\ saving'[q] = Sent(saving'[q])
                    /\ saving'[q].driver \in Drivers /\ saving'[q].kind \in Kinds
                    /\ saving'[q].id = "new"
                       \/ (saving'[q].id \in DetailIds /\ detail'[saving'[q].id] # Nil)
    <2>1. CASE q = p
      BY <1>1, <2>1 DEF IsRow
    <2>2. CASE q # p
      BY <2>2 DEF SavingOK, IsRow
    <2>3. QED
      BY <2>1, <2>2
  <1>3. QED
    BY <1>2 DEF SavingOK, Sent, IsRow

LEMMA RequestStep ==
    ASSUME DeliveriesInv, NEW p \in Panels,
           SubmitEntry(p) \/ Lock(p) \/ EntrySaved(p) \/ Failed(p)
    PROVE  DeliveriesInv'
  <1>1. detail' = detail /\ PanelsOK /\ SavingOK /\ Corrects
    BY DEF SubmitEntry, Lock, EntrySaved, Failed, DeliveriesInv
  <1>2. DetailsOK' /\ Rooted' /\ OneLine'
    BY <1>1 DEF DeliveriesInv, DetailsOK, Rooted, OneLine, IsRow
  <1>3. CASE SubmitEntry(p)
    <2> DEFINE i == panel[p].editing
               k == IF i = "new" THEN panel[p].kind ELSE detail[i].kind
    <2>1. saving' = [saving EXCEPT ![p] =
             [phase |-> "sent", id |-> i, driver |-> panel[p].driver, kind |-> k]]
          /\ panel' = panel /\ i # "closed"
      BY <1>3 DEF SubmitEntry
    <2>2. i = "new" \/ (i \in DetailIds /\ IsRow(i))
      BY <1>1, <2>1 DEF PanelsOK, PanelRow
    <2>3. k \in Kinds /\ panel[p].driver \in Drivers
      BY <1>1, <2>2 DEF PanelsOK, PanelRow, DeliveriesInv, DetailsOK, EntryRow, IsRow
    <2> HIDE DEF k
    <2>4. PanelsOK'
      BY <1>1, <2>1 DEF PanelsOK, IsRow
    <2>5. saving'[p] = [phase |-> "sent", id |-> i, driver |-> panel[p].driver, kind |-> k]
          /\ \A q \in Panels : q # p => saving'[q] = saving[q]
      BY <1>1, <2>1 DEF PanelsOK
    <2>6. SavingOK'
      BY <1>1, <2>2, <2>3, <2>5, OneRequest
    <2>7. Corrects'
      BY <1>1, <2>5 DEF Corrects, Correctable
    <2>8. QED
      BY <1>2, <2>4, <2>6, <2>7 DEF DeliveriesInv
  <1>4. CASE Lock(p)
    <2>1. /\ saving' = [saving EXCEPT ![p].phase = "locked"] /\ panel' = panel
          /\ saving[p].phase = "sent" /\ Correctable(saving[p])
          /\ saving[p].id # "new" => MayLock(saving[p])
      BY <1>4 DEF Lock
    <2>2. saving[p] = Sent(saving[p])
      BY <1>1, <2>1 DEF SavingOK
    <2>3. saving'[p] = [phase |-> "locked", id |-> saving[p].id,
                        driver |-> saving[p].driver, kind |-> saving[p].kind]
          /\ \A q \in Panels : q # p => saving'[q] = saving[q]
      BY <1>1, <2>1, <2>2 DEF PanelsOK, Sent
    <2>4. SavingOK'
      BY <1>1, <2>1, <2>3, OneRequest DEF SavingOK
    <2>5. Corrects'
      BY <1>1, <2>1, <2>3 DEF Corrects, Correctable, MayLock
    <2>6. PanelsOK'
      BY <1>1, <2>1 DEF PanelsOK, IsRow
    <2>7. QED
      BY <1>2, <2>4, <2>5, <2>6 DEF DeliveriesInv
  <1>5. CASE EntrySaved(p) \/ Failed(p)
    <2>1. saving' = [saving EXCEPT ![p] = None]
      BY <1>5 DEF EntrySaved, Failed
    <2>2. saving'[p] = None /\ \A q \in Panels : q # p => saving'[q] = saving[q]
      BY <1>1, <2>1 DEF PanelsOK
    <2>3. SavingOK'
      BY <1>1, <2>2 DEF SavingOK, Sent, IsRow, None
    <2>4. Corrects'
      BY <1>1, <2>2 DEF Corrects, Correctable, None
    <2>5. PanelsOK'
      <3>1. CASE EntrySaved(p)
        <4> DEFINE new == [panel[p] EXCEPT !.editing = "closed", !.loading = TRUE]
        <4>1. panel[p] \in PanelRow
          BY <1>1 DEF PanelsOK
        <4>2. new \in PanelRow /\ new.items = panel[p].items /\ new.editing = "closed"
          BY <4>1 DEF PanelRow
        <4>3. panel' = [panel EXCEPT ![p] = new]
          BY <1>1, <3>1 DEF EntrySaved, PanelsOK
        <4> HIDE DEF new
        <4>4. QED
          BY <1>1, <2>1, <4>2, <4>3, DeliveriesAssumption DEF PanelsOK, IsRow
      <3>2. CASE Failed(p)
        BY <1>1, <2>1, <3>2 DEF Failed, PanelsOK, IsRow
      <3>3. QED
        BY <1>5, <3>1, <3>2
    <2>6. QED
      BY <1>2, <2>3, <2>4, <2>5 DEF DeliveriesInv
  <1>6. QED
    BY <1>3, <1>4, <1>5

(* A correction is put at the end of the line of the entry it corrects.    *)
LEMMA SaveStep ==
    ASSUME DeliveriesInv, NEW p \in Panels, SaveEntry(p)
    PROVE  DeliveriesInv'
  <1> DEFINE r == saving[p]
             old == IF r.id = "new" THEN Nil ELSE r.id
             revision == IF old = Nil THEN 1 ELSE detail[old].revision + 1
             row == [driver |-> r.driver, kind |-> r.kind, previous |-> old, current |-> TRUE,
                     revision |-> revision]
  <1>1. DetailsOK /\ PanelsOK /\ SavingOK /\ Corrects /\ Rooted /\ OneLine
        /\ r.phase = "locked" /\ panel' = panel
    BY DEF DeliveriesInv, SaveEntry
  <1>2. PICK i \in DetailIds :
          /\ ~ IsRow(i)
          /\ detail' = [j \in DetailIds |->
               IF j = i THEN row
               ELSE IF j = old THEN [detail[j] EXCEPT !.current = FALSE]
               ELSE detail[j]]
    BY DEF SaveEntry
  <1>3. /\ saving'[p] = [phase |-> "saved"]
        /\ \A q \in Panels : q # p => saving'[q] = saving[q]
        /\ DOMAIN saving' = Panels
    BY <1>1 DEF SaveEntry, PanelsOK
  <1>4. \/ old = Nil /\ r.id = "new"
        \/ /\ old = r.id /\ r.id # "new" /\ old \in DetailIds /\ old # Nil /\ IsRow(old) /\ old # i
           /\ detail[old] \in EntryRow /\ detail[old].current
           /\ detail[old].driver = r.driver /\ detail[old].kind = r.kind
    BY <1>1, <1>2, DeliveriesAssumption DEF SavingOK, Corrects, Correctable, DetailsOK, IsRow
  <1>5. revision \in Nat
    BY <1>4 DEF EntryRow
  <1>6. row \in EntryRow
    BY <1>1, <1>4, <1>5 DEF SavingOK, EntryRow
  <1>7. row.driver = r.driver /\ row.kind = r.kind /\ row.previous = old /\ row.current = TRUE
        /\ row.revision = revision
    OBVIOUS
  <1> HIDE DEF row
  <1>8. detail'[i] = row
    BY <1>2
  <1>9. \A j \in DetailIds : j # i /\ j # old => detail'[j] = detail[j]
    BY <1>2
  <1>10. old # Nil => /\ detail'[old] \in EntryRow /\ ~ detail'[old].current
                      /\ detail'[old].driver = detail[old].driver
                      /\ detail'[old].kind = detail[old].kind
                      /\ detail'[old].previous = detail[old].previous
                      /\ detail'[old].revision = detail[old].revision
    <2> SUFFICES ASSUME old # Nil
                 PROVE  /\ detail'[old] \in EntryRow /\ ~ detail'[old].current
                        /\ detail'[old].driver = detail[old].driver
                        /\ detail'[old].kind = detail[old].kind
                        /\ detail'[old].previous = detail[old].previous
                        /\ detail'[old].revision = detail[old].revision
      OBVIOUS
    <2>1. detail'[old] = [detail[old] EXCEPT !.current = FALSE]
      BY <1>2, <1>4
    <2>2. detail[old] \in EntryRow
      BY <1>4
    <2> HIDE DEF old
    <2>3. QED
      BY <2>1, <2>2 DEF EntryRow
  <1> HIDE DEF old
  <1>11. \A j \in DetailIds : IsRow(j)' <=> IsRow(j) \/ j = i
    BY <1>4, <1>6, <1>8, <1>9, <1>10, DeliveriesAssumption DEF IsRow
  <1>12. DetailsOK'
    <2>1. \A j \in DetailIds : detail'[j] \in EntryRow \cup {Nil}
      BY <1>1, <1>6, <1>8, <1>9, <1>10, DeliveriesAssumption DEF DetailsOK
    <2>2. QED
      BY <1>2, <2>1 DEF DetailsOK
  <1>13. PanelsOK'
    <2>1. \A q \in Panels : panel[q].items \subseteq DetailIds
      BY <1>1 DEF PanelsOK, PanelRow
    <2>2. \A q \in Panels :
            /\ \A j \in panel[q].items : IsRow(j)'
            /\ panel[q].editing \in DetailIds => IsRow(panel[q].editing)'
      BY <1>1, <1>11, <2>1 DEF PanelsOK
    <2>3. QED
      BY <1>1, <1>3, <2>2 DEF PanelsOK, IsRow
  <1>14. SavingOK'
    BY <1>1, <1>3, <1>11 DEF SavingOK, Sent, PanelsOK
  <1>15. Corrects'
    <2>1. \A q \in Panels : q # p /\ saving[q].phase = "locked" /\ saving[q].id # "new" =>
             saving[q].id # i /\ saving[q].id # old /\ saving[q].id \in DetailIds
      BY <1>1, <1>2, <1>4, DeliveriesAssumption DEF Corrects, SavingOK
    <2>2. QED
      BY <1>1, <1>3, <1>9, <2>1 DEF Corrects, Correctable
  <1>16. \A j \in DetailIds : IsRow(j)' => detail'[j].previous =
            IF j = i THEN old ELSE detail[j].previous
    BY <1>7, <1>8, <1>9, <1>10, <1>11, DeliveriesAssumption
  <1>17. Rooted'
    <2> SUFFICES ASSUME NEW j \in DetailIds, IsRow(j)', detail'[j].previous # Nil
                 PROVE  detail'[detail'[j].previous] # Nil
      BY DEF Rooted, IsRow
    <2>1. detail'[j].previous \in DetailIds /\ IsRow(detail'[j].previous)
      <3>1. CASE j = i
        BY <1>4, <1>16, <3>1
      <3>2. CASE j # i
        <4>1. IsRow(j) /\ detail'[j].previous = detail[j].previous
          BY <1>11, <1>16, <3>2
        <4>2. detail[j].previous \in DetailIds
          BY <1>1, <4>1 DEF DetailsOK, EntryRow, IsRow
        <4>3. QED
          BY <1>1, <4>1, <4>2 DEF Rooted
      <3>3. QED
        BY <3>1, <3>2
    <2>2. QED
      BY <1>11, <2>1 DEF IsRow
  <1>18. OneLine'
    <2> DEFINE next(j) == {k \in DetailIds : IsRow(k) /\ detail[k].previous = j}
               later(j) == {k \in DetailIds : IsRow(k)' /\ detail'[k].previous = j}
    <2>1. \A j \in DetailIds : later(j) = next(j) \cup (IF j = old THEN {i} ELSE {})
      <3>1. ASSUME NEW j \in DetailIds, NEW k \in DetailIds
            PROVE  k \in later(j) <=> k \in next(j) \/ (j = old /\ k = i)
        BY <1>2, <1>11, <1>16, <3>1
      <3>2. QED
        BY <3>1
    <2>2. \A j \in DetailIds : IsRow(j) =>
            /\ detail[j].current <=> next(j) = {}
            /\ \A k, l \in next(j) : k = l
            /\ \A k \in next(j) : /\ detail[k].revision = detail[j].revision + 1
                                  /\ detail[k].driver = detail[j].driver
                                  /\ detail[k].kind = detail[j].kind
      BY <1>1 DEF OneLine
    <2>3. next(i) = {} /\ (old # Nil => next(old) = {})
      <3>1. \A k \in DetailIds : IsRow(k) => detail[k].previous # i
        BY <1>1, <1>2, DeliveriesAssumption DEF Rooted
      <3>2. old # Nil => next(old) = {}
        BY <1>4, <2>2
      <3>3. QED
        BY <3>1, <3>2
    <2>4. \A k \in DetailIds : IsRow(k) =>
            /\ detail'[k].revision = detail[k].revision
            /\ detail'[k].driver = detail[k].driver
            /\ detail'[k].kind = detail[k].kind
      BY <1>2, <1>9, <1>10, DeliveriesAssumption
    <2>5. ASSUME NEW j \in DetailIds, IsRow(j)'
          PROVE  /\ detail'[j].current <=> later(j) = {}
                 /\ \A k, l \in later(j) : k = l
                 /\ \A k \in later(j) : /\ detail'[k].revision = detail'[j].revision + 1
                                       /\ detail'[k].driver = detail'[j].driver
                                       /\ detail'[k].kind = detail'[j].kind
      <3>1. CASE j = i
        <4>1. later(i) = {}
          BY <1>4, <2>1, <2>3, DeliveriesAssumption
        <4>2. detail'[i].current
          BY <1>7, <1>8
        <4>3. QED
          BY <3>1, <4>1, <4>2
      <3>2. CASE j = old
        <4>1. later(old) = {i} /\ old # Nil
          BY <2>1, <2>3, <3>2, DeliveriesAssumption
        <4>2. ~ detail'[old].current /\ detail'[i].revision = detail'[old].revision + 1
              /\ detail'[i].driver = detail'[old].driver /\ detail'[i].kind = detail'[old].kind
          BY <1>4, <1>7, <1>8, <1>10, <4>1
        <4>3. QED
          BY <3>2, <4>1, <4>2
      <3>3. CASE j # i /\ j # old
        <4>1. later(j) = next(j) /\ IsRow(j) /\ detail'[j] = detail[j]
          BY <1>9, <1>11, <2>1, <2>5, <3>3
        <4>2. \A k \in next(j) : IsRow(k) /\ k \in DetailIds
          OBVIOUS
        <4> HIDE DEF next, later
        <4>3. QED
          BY <2>2, <2>4, <4>1, <4>2
      <3>4. QED
        BY <3>1, <3>2, <3>3
    <2> HIDE DEF next
    <2>6. QED
      BY <2>5 DEF OneLine, IsRow
  <1>19. QED
    BY <1>12, <1>13, <1>14, <1>15, <1>17, <1>18 DEF DeliveriesInv

LEMMA DeliveriesStep == DeliveriesInv /\ [DeliveriesNext]_deliveries => DeliveriesInv'
  <1>1. DeliveriesInv /\ DeliveriesNext => DeliveriesInv'
    BY PanelStep, RequestStep, SaveStep DEF DeliveriesNext
  <1>2. DeliveriesInv /\ UNCHANGED deliveries => DeliveriesInv'
    BY DEF DeliveriesInv, deliveries, DetailsOK, PanelsOK, SavingOK, Corrects, Correctable,
           Rooted, OneLine, IsRow, Sent
  <1>3. QED
    BY <1>1, <1>2

(* The revisions of a delivery detail form one line (saveDelivery).        *)
THEOREM OneHistory == OfficeSpec => []LinearHistory
  <1> DEFINE I == part = "deliveries" => DeliveriesInv
  <1>1. OfficeInit => I
    BY DeliveriesStart DEF OfficeInit
  <1>2. I /\ [OfficeNext]_office => I'
    BY DeliveriesStep DEF OfficeNext, office
  <1>3. I => LinearHistory
    BY DEF LinearHistory, DeliveriesInv
  <1>4. QED
    BY <1>1, <1>2, <1>3, PTL DEF OfficeSpec

-----------------------------------------------------------------------------
(***************************************************************************)
(* Lists.                                                                  *)
(***************************************************************************)
LEMMA ListsStart == ListsInit => LoadingTold
  BY DEF ListsInit, LoadingTold

LEMMA ListsStep == LoadingTold /\ [ListsNext]_lists => LoadingTold'
  <1> SUFFICES ASSUME LoadingTold, [ListsNext]_lists PROVE LoadingTold'
    OBVIOUS
  <1>1. ASSUME NEW c, NEW r \in Requests, Reload(c, r) PROVE LoadingTold'
    BY <1>1, ListsAssumption DEF Reload, LoadingTold
  <1>2. CASE ChangeFilter \/ TurnPage
    BY <1>2 DEF ChangeFilter, TurnPage, Controls, LoadingTold
  <1>3. CASE TimerFires \/ Retry \/ ActDone
    BY <1>1, <1>3 DEF TimerFires, Retry, ActDone
  <1>4. CASE PagesChange \/ Click \/ ActFails \/ UNCHANGED lists
    BY <1>4 DEF PagesChange, Click, ActFails, lists, LoadingTold
  <1>5. ASSUME NEW r \in Requests, Answer(r) PROVE LoadingTold'
    BY <1>5 DEF Answer, LoadingTold
  <1>6. ASSUME NEW r \in Requests, ReceiveList(r) PROVE LoadingTold'
    <2>1. CASE r # latest
      BY <1>6, <2>1 DEF ReceiveList, LoadingTold
    <2>2. CASE r = latest
      <3>1. loading' = FALSE
        BY <1>6, <2>2 DEF ReceiveList
      <3>2. latest' = Nil
        BY <1>6, <2>2 DEF ReceiveList, Controls
      <3>3. QED
        BY <3>1, <3>2 DEF LoadingTold
    <2>3. QED
      BY <2>1, <2>2
  <1>7. ASSUME NEW r \in Requests, Fail(r) PROVE LoadingTold'
    BY <1>7 DEF Fail, LoadingTold
  <1>8. QED
    BY <1>2, <1>3, <1>4, <1>5, <1>6, <1>7 DEF ListsNext

(* The sign of loading is taken away by a request or a wait that runs      *)
(* (module-table.tsx, reload and its effect).                              *)
THEOREM LoadingSettles == OfficeSpec => []LoadingEnds
  <1> DEFINE I == part = "lists" => LoadingTold
  <1>1. OfficeInit => I
    BY ListsStart DEF OfficeInit
  <1>2. I /\ [OfficeNext]_office => I'
    BY ListsStep DEF OfficeNext, office
  <1>3. QED
    BY <1>1, <1>2, PTL DEF OfficeSpec, LoadingEnds

-----------------------------------------------------------------------------
(***************************************************************************)
(* Views.  A request records the tours of every moment since it came: the  *)
(* tours it read are one of them.                                          *)
(***************************************************************************)
Topics == Shared \cup Inner \cup {"score", "audit", "corrections"}
Roles  == Staff \cup {"DRIVER", "none"}
ViewRow ==
    [of : Topics, driver : People \cup {Nil}, van : Vans \cup {Nil}, user : People \cup {Nil},
     other : People \cup {Nil}, thread : Threads \cup {Nil}, file : Files \cup {Nil},
     shown : BOOLEAN, gone : BOOLEAN, evidence : BOOLEAN]
Person == [who : People, role : Roles \ {"none"}]
What ==
    [op : {"list"}, of : Topics] \cup [op : {"file"}, file : Files] \cup [op : {"write"}]
AskRow ==
    [phase : {"asked", "toured", "found", "done"}, p : Person, what : What, seen : SUBSET Vans,
     found : SUBSET ViewRow, answer : SUBSET ViewRow, tours : SUBSET SUBSET Vans]

(* A row that stands alone: no part of a thread, put away only if it is an *)
(* event or a document.                                                    *)
Loose(r) ==
    /\ r \in ViewRow /\ r.thread = Nil
    /\ r.of = "vehicles" => r.shown
    /\ r.gone => r.of \in {"planning", "documents"}

RowsOK ==
    /\ rows \subseteq ViewRow
    /\ \A r \in rows : r.of = "messages" \/ Loose(r)
    /\ \A r \in rows : r.of = "messages" => ~ r.gone
    /\ \A r, s \in rows : r.thread = s.thread /\ r.thread # Nil => {r.user, r.other} = {s.user, s.other}

(* Rows that one moment entitles to, and nothing put away but evidence.    *)
Granted(p, ans, tours) ==
    /\ \E vans \in tours : \A r \in ans : Theirs(p, r, vans)
    /\ \A r \in ans : r.gone => r.evidence

(* What is recorded of a request, and what its answer may be.              *)
Entitled(x) ==
    /\ x.phase = "toured" => x.seen \in x.tours
    /\ x.phase = "asked" => x.seen = {}
    /\ x.what.op = "list" => MayRead(x.p, x.what.of) \/ x.what.of = "corrections"
    /\ x.phase = "found" => /\ Own(x.p)
                            /\ \A r \in x.found : r.of = "documents" /\ r.shown /\ ~ r.gone
    /\ Granted(x.p, x.answer, x.tours)

ViewsTypes ==
    /\ role \in [People -> Roles] /\ tour \in [Vans -> People \cup {Nil}]
    /\ ask \in [Sessions -> {NoAsk} \cup AskRow]

AsksOK ==
    \A q \in Sessions : ask[q] # NoAsk =>
        Entitled(ask[q]) /\ VansOf(ask[q].p.who) \in ask[q].tours

ViewsInv == ViewsTypes /\ RowsOK /\ AsksOK

ViewsPart == part = "views" => ViewsInv

LEMMA NotAsked == NoAsk \notin AskRow
  BY DEF NoAsk, AskRow

LEMMA AskFields ==
    ASSUME NEW x \in AskRow
    PROVE  /\ x # NoAsk /\ x.p \in Person /\ x.p.who \in People /\ x.what \in What /\ x.seen \subseteq Vans
           /\ x.p.role \in {"ADMIN", "DISPATCHER", "DRIVER"}
           /\ x.found \subseteq ViewRow /\ x.answer \subseteq ViewRow /\ x.tours \subseteq SUBSET Vans
<1>1. x # NoAsk
  BY NotAsked
<1>2. x.p \in Person /\ x.what \in What /\ x.seen \subseteq Vans /\ x.answer \subseteq ViewRow
      /\ x.found \subseteq ViewRow /\ x.tours \subseteq SUBSET Vans
  BY DEF AskRow
<1>3. x.p.who \in People /\ x.p.role \in {"ADMIN", "DISPATCHER", "DRIVER"}
  BY <1>2 DEF Person, Roles, Staff
<1>4. QED BY <1>1, <1>2, <1>3

LEMMA WhatFields ==
    ASSUME NEW w \in What
    PROVE  w.op = "list" => w.of \in Topics
  BY DEF What

(* Whose role reads the list, and whose row the list shows.                *)
LEMMA ListedIsTheirs ==
    ASSUME RowsOK, NEW p \in Person, NEW r \in rows, MayRead(p, r.of), r.of # "dashboard",
           NEW seen \in SUBSET Vans, InList(p, r, seen), NEW vans \in SUBSET Vans,
           Own(p) /\ r.of = "documents" => seen \subseteq vans,
           Own(p) /\ r.of = "vehicles" => VansOf(p.who) \subseteq vans
    PROVE  Theirs(p, r, vans) /\ ~ r.gone
<1>1. p.role \in {"ADMIN", "DISPATCHER", "DRIVER"} /\ r \in ViewRow
  BY DEF Person, Roles, Staff, RowsOK
<1>2. r.of = "messages" \/ Loose(r)
  BY DEF RowsOK
<1>3. ~ r.gone
  <2>1. CASE r.of = "messages"
    BY <2>1 DEF RowsOK
  <2>2. CASE r.of = "documents"
    BY <2>2 DEF InList, Filed
  <2>3. CASE r.of = "planning"
    BY <2>3 DEF InList, OwnFleetRow
  <2>4. QED BY <1>1, <1>2, <2>1, <2>2, <2>3 DEF Loose, ViewRow
<1>4. CASE r.of \in {"messages", "notifications"}
  BY <1>3, <1>4 DEF InList, Addressed, Noticed, Theirs
<1>5. CASE p.role = "ADMIN" /\ r.of \notin {"messages", "notifications"}
  BY <1>3, <1>5 DEF Theirs
<1>6. CASE p.role = "DISPATCHER" /\ r.of \notin {"messages", "notifications"}
  <2>1. r.of \in Shared \cup Inner
    BY <1>6 DEF MayRead
  <2>2. r.of \notin {"score", "audit"}
    BY <2>1 DEF Shared, Inner
  <2>3. r.of = "documents" => r.driver = Nil
    BY <1>6 DEF InList, Filed
  <2>4. QED BY <1>3, <1>6, <2>2, <2>3 DEF Theirs
<1>7. CASE p.role = "DRIVER" /\ r.of \notin {"messages", "notifications"}
  <2>1. r.of \in Shared \cup {"score"} /\ Own(p)
    BY <1>7 DEF MayRead, Own
  <2>2. CASE r.of \in {"drivers", "assignments", "keys", "planning", "work-times", "score"}
    <3>1. r.driver = p.who
      BY <2>1, <2>2 DEF InList, OwnProfile, OwnFleetRow, OwnTimes, OwnScore
    <3>2. QED BY <1>3, <1>7, <3>1 DEF Theirs
  <2>3. CASE r.of = "vehicles"
    <3>1. r.van \in vans /\ r.shown
      BY <1>2, <2>1, <2>3 DEF InList, OnTour, Loose
    <3>2. QED BY <1>3, <1>7, <2>3, <3>1 DEF Theirs
  <2>4. CASE r.of = "documents"
    <3>1. r.driver = p.who \/ (r.shown /\ r.van \in vans)
      BY <2>1, <2>4 DEF InList, Filed
    <3>2. QED BY <1>3, <1>7, <2>4, <3>1 DEF Theirs
  <2>5. CASE r.of = "photos"
    <3>1. r.user = p.who
      BY <2>1, <2>5 DEF InList, Reported
    <3>2. QED BY <1>3, <1>7, <2>5, <3>1 DEF Theirs
  <2>6. QED BY <1>7, <2>1, <2>2, <2>3, <2>4, <2>5 DEF Shared
<1>8. QED BY <1>1, <1>3, <1>4, <1>5, <1>6, <1>7

(* A request of q changes; tours do not.                                   *)
LEMMA AskChanges ==
    ASSUME ViewsInv, NEW q \in Sessions, UNCHANGED <<role, tour>>, ask' = [ask EXCEPT ![q] = ask'[q]],
           ask'[q] \in {NoAsk} \cup AskRow,
           ask'[q] # NoAsk => Entitled(ask'[q]) /\ VansOf(ask'[q].p.who) \in ask'[q].tours
    PROVE  ViewsTypes' /\ AsksOK'
<1> USE DEF ViewsInv
<1>1. ask' \in [Sessions -> {NoAsk} \cup AskRow] /\ \A s \in Sessions \ {q} : ask'[s] = ask[s]
  BY DEF ViewsTypes
<1>2. ViewsTypes'
  BY <1>1 DEF ViewsTypes
<1>3. \A d : VansOf(d)' = VansOf(d)
  BY DEF VansOf
<1>4. ASSUME NEW s \in Sessions, ask'[s] # NoAsk
      PROVE  Entitled(ask'[s]) /\ VansOf(ask'[s].p.who) \in ask'[s].tours
  BY <1>1, <1>4 DEF AsksOK
<1>5. ASSUME NEW s \in Sessions, ask'[s] # NoAsk PROVE Entitled(ask[s])'
  BY <1>4, <1>5 DEF Entitled, Granted, Theirs, MayRead, Own
<1>6. ASSUME NEW s \in Sessions, ask'[s] # NoAsk PROVE (VansOf(ask[s].p.who) \in ask[s].tours)'
  BY <1>3, <1>4, <1>6 DEF VansOf
<1>7. QED BY <1>2, <1>5, <1>6 DEF AsksOK

LEMMA Running ==
    ASSUME ViewsInv, NEW q \in Sessions, ask[q] # NoAsk
    PROVE  ask[q] \in AskRow /\ Entitled(ask[q]) /\ VansOf(ask[q].p.who) \in ask[q].tours
  BY DEF ViewsInv, ViewsTypes, AsksOK

LEMMA ComeStep ==
    ASSUME ViewsInv, NEW q \in Sessions, NEW u \in People, NEW w \in What, Come(q, u, w),
           w.op = "list" => MayRead(Principal(u), w.of) \/ w.of = "corrections"
    PROVE  ViewsTypes' /\ AsksOK'
<1> USE DEF ViewsInv
<1> DEFINE new == [phase |-> "asked", p |-> Principal(u), what |-> w, seen |-> {}, found |-> {},
                   answer |-> {}, tours |-> {VansOf(u)}]
<1>1. ask' = [ask EXCEPT ![q] = new] /\ UNCHANGED <<role, tour>> /\ role[u] # "none"
  BY DEF Come
<1>2. Principal(u) \in Person /\ Principal(u).who = u
  BY <1>1 DEF Principal, Person, ViewsTypes
<1>3. VansOf(u) \subseteq Vans
  BY DEF VansOf
<1>4. new \in AskRow
  BY <1>2, <1>3 DEF AskRow
<1>5. /\ new.phase = "asked" /\ new.p = Principal(u) /\ new.what = w /\ new.seen = {} /\ new.answer = {}
      /\ new.tours = {VansOf(u)}
  OBVIOUS
<1> HIDE DEF new
<1>6. ask'[q] = new
  BY <1>1 DEF ViewsTypes
<1>7. Entitled(new) /\ VansOf(new.p.who) \in new.tours
  BY <1>2, <1>5 DEF Entitled, Granted
<1>8. QED BY <1>1, <1>4, <1>6, <1>7, AskChanges

LEMMA AskStep2 ==
    ASSUME ViewsInv, NEW q \in Sessions, AskList(q) \/ AskFile(q) \/ AskWrite(q)
    PROVE  ViewsInv'
<1> USE DEF ViewsInv
<1>1. rows' = rows
  BY DEF AskList, AskFile, AskWrite, Come
<1>2. RowsOK'
  BY <1>1 DEF RowsOK, Loose
<1>3. CASE AskList(q)
  <2>1. PICK u \in People, m \in Shared \cup Inner \cup {"score", "audit", "corrections"} :
          /\ role[u] # "none" => MayRead(Principal(u), m) \/ m = "corrections"
          /\ Come(q, u, [op |-> "list", of |-> m])
    BY <1>3 DEF AskList
  <2>2. [op |-> "list", of |-> m] \in What
    BY DEF What, Topics
  <2>3. MayRead(Principal(u), m) \/ m = "corrections"
    BY <2>1 DEF Come
  <2>4. QED BY <1>2, <2>1, <2>2, <2>3, ComeStep
<1>4. CASE AskFile(q)
  <2>1. PICK u \in People, f \in Files : Come(q, u, [op |-> "file", file |-> f])
    BY <1>4 DEF AskFile
  <2>2. [op |-> "file", file |-> f] \in What
    BY DEF What
  <2>3. QED BY <1>2, <2>1, <2>2, ComeStep
<1>5. CASE AskWrite(q)
  <2>1. PICK u \in People : Come(q, u, [op |-> "write"])
    BY <1>5 DEF AskWrite
  <2>2. [op |-> "write"] \in What
    BY DEF What
  <2>3. QED BY <1>2, <2>1, <2>2, ComeStep
<1>6. QED BY <1>3, <1>4, <1>5

(* What a list, the dashboard or the corrections show.                     *)
LEMMA ListGranted ==
    ASSUME ViewsInv, NEW q \in Sessions, ReadRows(q)
    PROVE  LET x   == ask[q]
               ans == IF x.what.of = "dashboard" THEN {r \in rows : OnDashboard(x.p, r)}
                      ELSE IF x.what.of = "corrections"
                      THEN {r \in rows : Corrected(x.p, r) /\ role[x.p.who] = x.p.role}
                      ELSE {r \in rows : r.of = x.what.of /\ InList(x.p, r, x.seen)}
           IN  ans \subseteq ViewRow /\ Granted(x.p, ans, x.tours)
<1> USE DEF ViewsInv
<1> DEFINE x == ask[q]
           ans == IF x.what.of = "dashboard" THEN {r \in rows : OnDashboard(x.p, r)}
                  ELSE IF x.what.of = "corrections"
                  THEN {r \in rows : Corrected(x.p, r) /\ role[x.p.who] = x.p.role}
                  ELSE {r \in rows : r.of = x.what.of /\ InList(x.p, r, x.seen)}
<1>1. x # NoAsk /\ x.what.op = "list" /\ x.phase \in {"asked", "toured"}
  BY DEF ReadRows, NoAsk
<1>2. x \in AskRow /\ Entitled(x) /\ VansOf(x.p.who) \in x.tours
  BY <1>1, Running
<1>3. /\ x.p \in Person /\ x.p.role \in {"ADMIN", "DISPATCHER", "DRIVER"}
      /\ x.seen \subseteq Vans /\ x.tours \subseteq SUBSET Vans
  BY <1>2, AskFields
<1>4. ans \subseteq rows /\ rows \subseteq ViewRow
  BY DEF RowsOK
<1> SUFFICES Granted(x.p, ans, x.tours)
  BY <1>4
<1>5. CASE x.what.of = "dashboard"
  <2>1. ASSUME NEW r \in ans PROVE Theirs(x.p, r, VansOf(x.p.who)) /\ ~ r.gone
    <3>1. OnDashboard(x.p, r) /\ (r.of = "messages" \/ Loose(r))
      BY <1>4, <1>5, <2>1 DEF RowsOK
    <3>2. CASE r.of = "documents"
      BY <1>3, <3>1, <3>2 DEF OnDashboard, Own, Theirs
    <3>3. CASE r.of = "score"
      BY <1>3, <3>1, <3>3 DEF OnDashboard, Own, Theirs, Loose
    <3>4. CASE r.of = "audit"
      BY <1>3, <3>1, <3>4 DEF OnDashboard, Theirs, Loose
    <3>5. QED BY <3>1, <3>2, <3>3, <3>4 DEF OnDashboard
  <2> HIDE DEF ans
  <2>2. QED BY <1>2, <2>1 DEF Granted
<1>6. CASE x.what.of = "corrections"
  <2>1. ASSUME NEW r \in ans PROVE Theirs(x.p, r, VansOf(x.p.who)) /\ (r.gone => r.evidence)
    <3>1. Corrected(x.p, r)
      BY <1>6, <2>1
    <3>2. QED BY <1>3, <3>1 DEF Corrected, Own, Theirs
  <2> HIDE DEF ans
  <2>2. QED BY <1>2, <2>1 DEF Granted
<1>7. CASE x.what.of \notin {"dashboard", "corrections"}
  <2>1. \E vans \in x.tours :
          /\ Own(x.p) /\ x.what.of = "documents" => x.seen \subseteq vans
          /\ Own(x.p) /\ x.what.of = "vehicles" => VansOf(x.p.who) \subseteq vans
    <3>1. CASE x.what.of = "documents" /\ Own(x.p)
      <4>1. x.phase = "toured"
        BY <3>1 DEF ReadRows
      <4>2. x.seen \in x.tours
        BY <1>2, <4>1 DEF Entitled
      <4>3. QED BY <3>1, <4>2
    <3>2. QED BY <1>2, <3>1
  <2>2. PICK vans \in x.tours :
          /\ Own(x.p) /\ x.what.of = "documents" => x.seen \subseteq vans
          /\ Own(x.p) /\ x.what.of = "vehicles" => VansOf(x.p.who) \subseteq vans
    BY <2>1
  <2>3. MayRead(x.p, x.what.of)
    BY <1>1, <1>2, <1>7 DEF Entitled
  <2>4. ASSUME NEW r \in ans PROVE Theirs(x.p, r, vans) /\ ~ r.gone
    <3>1. r \in rows /\ r.of = x.what.of /\ InList(x.p, r, x.seen)
      BY <1>7, <2>4
    <3>2. vans \in SUBSET Vans /\ x.seen \in SUBSET Vans
      BY <1>3
    <3> HIDE DEF x
    <3>3. QED BY <1>3, <1>7, <2>2, <2>3, <3>1, <3>2, ListedIsTheirs
  <2> HIDE DEF ans
  <2>5. QED BY <2>4 DEF Granted
<1>8. QED BY <1>5, <1>6, <1>7

(* What the first read of a download opens.                                *)
LEMMA FileGranted ==
    ASSUME NEW p \in Person, NEW r, r.of \in {"documents", "photos"}, Opens(p, r, {}), NEW vans
    PROVE  Theirs(p, r, vans) /\ (r.of = "documents" => (r.gone => r.evidence))
<1>1. p.role \in {"ADMIN", "DISPATCHER", "DRIVER"}
  BY DEF Person, Roles, Staff
<1>2. CASE r.of = "documents"
  BY <1>1, <1>2 DEF Opens, Theirs
<1>3. CASE r.of = "photos"
  BY <1>1, <1>3 DEF Opens, Own, Theirs
<1>4. QED BY <1>2, <1>3

LEMMA ReadStep ==
    ASSUME ViewsInv, NEW q \in Sessions, ReadVans(q) \/ ReadRows(q) \/ ReadFile(q) \/ ReadTour(q)
    PROVE  ViewsInv'
<1> USE DEF ViewsInv
<1> DEFINE x == ask[q]
<1>1. UNCHANGED <<role, tour, rows>> /\ x # NoAsk
  BY DEF ReadVans, ReadRows, ReadFile, ReadTour, NoAsk
<1>2. RowsOK'
  BY <1>1 DEF RowsOK, Loose
<1>3. x \in AskRow /\ Entitled(x) /\ VansOf(x.p.who) \in x.tours
  BY <1>1, Running
<1>4. VansOf(x.p.who) \subseteq Vans /\ x.p \in Person
  BY <1>3, AskFields DEF VansOf
<1>5. ASSUME NEW ans \in SUBSET ViewRow, ask' = [ask EXCEPT ![q].phase = "done", ![q].answer = ans],
             Granted(x.p, ans, x.tours)
      PROVE  ViewsInv'
  <2> DEFINE new == [x EXCEPT !.phase = "done", !.answer = ans]
  <2>1. /\ new \in AskRow /\ new.phase = "done" /\ new.answer = ans /\ new.p = x.p /\ new.what = x.what
        /\ new.tours = x.tours
    BY <1>3 DEF AskRow
  <2>2. ask' = [ask EXCEPT ![q] = new]
    BY <1>5 DEF ViewsTypes
  <2> HIDE DEF new
  <2>3. ask'[q] = new
    BY <2>2 DEF ViewsTypes
  <2>4. Entitled(new)
    BY <1>3, <1>5, <2>1 DEF Entitled
  <2>5. VansOf(new.p.who) \in new.tours
    BY <1>3, <2>1
  <2>6. QED BY <1>1, <1>2, <2>1, <2>2, <2>3, <2>4, <2>5, AskChanges
<1>6. CASE ReadVans(q)
  <2> DEFINE new == [x EXCEPT !.phase = "toured", !.seen = VansOf(x.p.who)]
  <2>1. ask' = [ask EXCEPT ![q] = new]
    BY <1>6 DEF ReadVans, ViewsTypes
  <2>2. /\ new \in AskRow /\ new.phase = "toured" /\ new.answer = x.answer /\ new.p = x.p
        /\ new.what = x.what /\ new.seen = VansOf(x.p.who) /\ new.tours = x.tours
    BY <1>3, <1>4 DEF AskRow
  <2> HIDE DEF new
  <2>3. ask'[q] = new
    BY <2>1 DEF ViewsTypes
  <2>4. Entitled(new)
    BY <1>3, <2>2 DEF Entitled
  <2>5. VansOf(new.p.who) \in new.tours
    BY <1>3, <2>2
  <2>6. QED BY <1>1, <1>2, <2>1, <2>2, <2>3, <2>4, <2>5, AskChanges
<1>7. CASE ReadRows(q)
  <2> DEFINE ans == IF x.what.of = "dashboard" THEN {r \in rows : OnDashboard(x.p, r)}
                    ELSE IF x.what.of = "corrections"
                    THEN {r \in rows : Corrected(x.p, r) /\ role[x.p.who] = x.p.role}
                    ELSE {r \in rows : r.of = x.what.of /\ InList(x.p, r, x.seen)}
  <2>1. ask' = [ask EXCEPT ![q].phase = "done", ![q].answer = ans]
    BY <1>7 DEF ReadRows
  <2>2. ans \subseteq ViewRow /\ Granted(x.p, ans, x.tours)
    BY <1>7, ListGranted
  <2> HIDE DEF ans
  <2>3. QED BY <1>5, <2>1, <2>2
<1>8. CASE ReadFile(q)
  <2> DEFINE its    == {r \in rows : r.of \in {"documents", "photos"} /\ r.file = x.what.file}
             opened == {r \in its : Opens(x.p, r, {})}
             left   == {r \in its : r.of = "documents" /\ ~ r.gone /\ r.shown /\ r.van # Nil}
             new    == [x EXCEPT !.phase = "found", !.found = left]
  <2>1. ask' = IF Own(x.p) /\ opened = {} /\ left # {}
              THEN [ask EXCEPT ![q].phase = "found", ![q].found = left]
              ELSE [ask EXCEPT ![q].phase = "done", ![q].answer = opened]
    BY <1>8 DEF ReadFile
  <2>2. opened \subseteq ViewRow /\ left \subseteq ViewRow
    BY DEF RowsOK
  <2>3. CASE Own(x.p) /\ opened = {} /\ left # {}
    <3>1. ask' = [ask EXCEPT ![q] = new]
      BY <2>1, <2>3 DEF ViewsTypes
    <3>2. \A r \in left : r.of = "documents" /\ r.shown /\ ~ r.gone
      OBVIOUS
    <3> HIDE DEF left, opened, its
    <3>3. /\ new \in AskRow /\ new.phase = "found" /\ new.answer = x.answer /\ new.p = x.p
          /\ new.what = x.what /\ new.found = left /\ new.tours = x.tours
      BY <1>3, <2>2 DEF AskRow
    <3> HIDE DEF new
    <3>4. ask'[q] = new
      BY <3>1 DEF ViewsTypes
    <3>5. Entitled(new)
      BY <1>3, <2>3, <3>2, <3>3 DEF Entitled
    <3>6. VansOf(new.p.who) \in new.tours
      BY <1>3, <3>3
    <3>7. QED BY <1>1, <1>2, <3>1, <3>3, <3>4, <3>5, <3>6, AskChanges
  <2>4. CASE ~ (Own(x.p) /\ opened = {} /\ left # {})
    <3>1. ASSUME NEW r \in opened PROVE Theirs(x.p, r, VansOf(x.p.who)) /\ (r.gone => r.evidence)
      <4>1. r \in rows /\ r.of \in {"documents", "photos"} /\ Opens(x.p, r, {})
        OBVIOUS
      <4>2. r.gone => r.of = "documents"
        BY <4>1 DEF RowsOK, Loose
      <4>3. QED BY <1>4, <4>1, <4>2, FileGranted
    <3> HIDE DEF left, opened, its
    <3>2. Granted(x.p, opened, x.tours)
      BY <1>3, <3>1 DEF Granted
    <3>3. QED BY <1>5, <2>1, <2>2, <2>4, <3>2
  <2>5. QED BY <2>3, <2>4
<1>9. CASE ReadTour(q)
  <2> DEFINE ans == {r \in x.found : r.van \in VansOf(x.p.who)}
  <2>1. ask' = [ask EXCEPT ![q].phase = "done", ![q].answer = ans] /\ x.phase = "found"
    BY <1>9 DEF ReadTour
  <2>2. Own(x.p) /\ \A r \in x.found : r.of = "documents" /\ r.shown /\ ~ r.gone
    BY <1>3, <2>1 DEF Entitled
  <2>3. ans \in SUBSET ViewRow
    BY <1>3, AskFields
  <2>4. \A r \in ans : Theirs(x.p, r, VansOf(x.p.who)) /\ ~ r.gone
    BY <2>2 DEF Theirs, Own
  <2> HIDE DEF ans
  <2>5. Granted(x.p, ans, x.tours)
    BY <1>3, <2>4 DEF Granted
  <2>6. QED BY <1>5, <2>1, <2>3, <2>5
<1>10. QED BY <1>6, <1>7, <1>8, <1>9

LEMMA Forgotten ==
    ASSUME ViewsInv, NEW q \in Sessions, ask' = [ask EXCEPT ![q] = NoAsk], UNCHANGED <<role, tour>>
    PROVE  ViewsTypes' /\ AsksOK'
<1>1. ask'[q] = NoAsk
  BY DEF ViewsInv, ViewsTypes
<1>2. QED BY <1>1, AskChanges

LEMMA OfRow ==
    ASSUME NEW m \in Topics
    PROVE  /\ Of(m) \in ViewRow /\ Of(m).of = m /\ Of(m).thread = Nil /\ Of(m).shown /\ ~ Of(m).gone
           /\ Loose(Of(m))
<1> DEFINE AnyRow ==
      [of : Topics \cup {""}, driver : People \cup {Nil}, van : Vans \cup {Nil}, user : People \cup {Nil},
       other : People \cup {Nil}, thread : Threads \cup {Nil}, file : Files \cup {Nil},
       shown : BOOLEAN, gone : BOOLEAN, evidence : BOOLEAN]
<1>1. Entry \in AnyRow /\ Entry.thread = Nil /\ Entry.shown /\ ~ Entry.gone
  BY DEF Entry
<1>2. Of(m) \in AnyRow /\ Of(m).of = m /\ Of(m).thread = Nil /\ Of(m).shown /\ ~ Of(m).gone
  BY <1>1 DEF Of
<1>3. Of(m) \in ViewRow
  BY <1>2 DEF ViewRow
<1>4. QED BY <1>2, <1>3 DEF Loose

(* Rows that come, go or change and stand alone.                           *)
LEMMA RowsFit ==
    ASSUME RowsOK, \A r \in rows' : r \in rows \/ (Loose(r) /\ r.of # "messages")
    PROVE  RowsOK'
<1>1. rows' \subseteq ViewRow
  BY DEF RowsOK, Loose
<1>2. \A r \in rows' : (r.of = "messages" \/ Loose(r)) /\ (r.of = "messages" => ~ r.gone)
  BY DEF RowsOK
<1>3. ASSUME NEW r \in rows', NEW s \in rows', r.thread = s.thread, r.thread # Nil
      PROVE  {r.user, r.other} = {s.user, s.other}
  <2>1. r \in rows /\ s \in rows
    BY <1>3 DEF Loose
  <2>2. QED BY <1>3, <2>1 DEF RowsOK
<1>4. \A r \in rows' : (r.of = "messages" \/ Loose(r)')
  BY <1>2 DEF Loose
<1>5. QED BY <1>1, <1>2, <1>3, <1>4 DEF RowsOK

(* What a row that comes from elsewhere is of: one with a file, and others. *)
LEMMA Shapes ==
    ASSUME NEW d \in People \cup {Nil}, NEW v \in Vans \cup {Nil}, NEW s \in BOOLEAN, NEW f \in Files,
           NEW n \in {Document(d, v, s, f), Photo(d, v, f)}
    PROVE  Loose(n) /\ n.of # "messages"
<1>1. \A t \in {"documents", "photos"} :
        Of(t) \in ViewRow /\ Of(t).of = t /\ Of(t).thread = Nil /\ Of(t).shown /\ ~ Of(t).gone
  BY OfRow DEF Topics, Shared
<1>2. Loose(Document(d, v, s, f)) /\ Document(d, v, s, f).of # "messages"
  BY <1>1 DEF Document, ViewRow, Loose
<1>3. Loose(Photo(d, v, f)) /\ Photo(d, v, f).of # "messages"
  BY <1>1 DEF Photo, ViewRow, Loose
<1>4. QED BY <1>2, <1>3

LEMMA OtherShapes ==
    ASSUME NEW d \in People \cup {Nil}, NEW w \in People \cup {Nil}, NEW v \in Vans \cup {Nil},
           NEW s \in BOOLEAN, NEW m \in Topics \ {"messages"},
           NEW n \in {Notice(d, w, s), Booking(m, d, v), Scored(d, s)}
    PROVE  Loose(n) /\ n.of # "messages"
<1>1. \A t \in {"notifications", "score", m} :
        Of(t) \in ViewRow /\ Of(t).of = t /\ Of(t).thread = Nil /\ Of(t).shown /\ ~ Of(t).gone
  BY OfRow DEF Topics, Shared
<1>2. Loose(Notice(d, w, s)) /\ Notice(d, w, s).of # "messages"
  BY <1>1 DEF Notice, ViewRow, Loose
<1>3. Loose(Booking(m, d, v)) /\ Booking(m, d, v).of # "messages"
  BY <1>1 DEF Booking, ViewRow, Loose
<1>4. Loose(Scored(d, s)) /\ Scored(d, s).of # "messages"
  BY <1>1 DEF Scored, ViewRow, Loose
<1>5. QED BY <1>2, <1>3, <1>4

LEMMA NewRows ==
    ASSUME NEW n \in NewRow
    PROVE  Loose(n) /\ n.of # "messages"
<1>1. Inner \cup {"audit", "drivers", "work-times", "assignments", "keys", "vehicles"}
        \subseteq Topics \ {"messages"}
  BY DEF Topics, Inner, Shared
<1> DEFINE Good(x) == Loose(x) /\ x.of # "messages"
<1>2. /\ \A d \in People \cup {Nil}, v \in Vans \cup {Nil}, s \in BOOLEAN, f \in Files :
             Good(Document(d, v, s, f))
      /\ \A d \in People \cup {Nil}, v \in Vans \cup {Nil}, f \in Files : Good(Photo(d, v, f))
      /\ \A d \in People \cup {Nil}, w \in People \cup {Nil}, s \in BOOLEAN :
             Good(Notice(d, w, s)) /\ Good(Scored(d, s))
      /\ \A m \in Topics \ {"messages"}, d \in People \cup {Nil}, v \in Vans \cup {Nil} :
             Good(Booking(m, d, v))
  <2>1. "drivers" \in Topics \ {"messages"} /\ Nil \in Vans \cup {Nil}
    BY <1>1
  <2>2. \A d \in People \cup {Nil}, v \in Vans \cup {Nil}, s \in BOOLEAN, f \in Files :
             Good(Document(d, v, s, f))
    BY <2>1, Shapes
  <2>3. \A d \in People \cup {Nil}, v \in Vans \cup {Nil}, f \in Files : Good(Photo(d, v, f))
    BY <2>1, Shapes
  <2>4. \A d \in People \cup {Nil}, w \in People \cup {Nil}, s \in BOOLEAN :
             Good(Notice(d, w, s)) /\ Good(Scored(d, s))
    BY <2>1, OtherShapes
  <2>5. \A m \in Topics \ {"messages"}, d \in People \cup {Nil}, v \in Vans \cup {Nil} :
             Good(Booking(m, d, v))
    BY OtherShapes
  <2>6. QED BY <2>2, <2>3, <2>4, <2>5
<1>3. \A m \in Inner \cup {"audit"} : Good(Of(m))
  BY <1>1, OfRow
<1> SUFFICES Good(n)
  OBVIOUS
<1> HIDE DEF Good
<1>4. CASE n \in {Document(d, v, s, f) : d \in People \cup {Nil}, v \in Vans \cup {Nil},
                                      s \in BOOLEAN, f \in Files}
  BY <1>2, <1>4
<1>5. CASE n \in {Photo(u, v, f) : u \in People, v \in Vans, f \in Files}
  BY <1>2, <1>5
<1>6. CASE n \in {Notice(u, w, s) : u \in People, w \in People \cup {Nil}, s \in BOOLEAN}
  BY <1>2, <1>6
<1>7. CASE \/ n \in {Booking(m, d, Nil) : m \in {"drivers", "work-times"}, d \in People}
           \/ n \in {Booking(m, d, v) : m \in {"assignments", "keys"}, d \in People, v \in Vans}
           \/ n \in {Booking("vehicles", Nil, v) : v \in Vans}
  BY <1>1, <1>2, <1>7
<1>8. CASE n \in {Scored(d, s) : d \in People, s \in BOOLEAN}
  BY <1>2, <1>8
<1>9. CASE n \in {Of(m) : m \in Inner \cup {"audit"}}
  BY <1>3, <1>9
<1>10. QED BY <1>4, <1>5, <1>6, <1>7, <1>8, <1>9 DEF NewRow

LEMMA Altered ==
    ASSUME RowsOK, NEW r \in rows, r.of \in {"planning", "documents"}
    PROVE  /\ Loose([r EXCEPT !.gone = TRUE]) /\ [r EXCEPT !.gone = TRUE].of = r.of
           /\ Loose([r EXCEPT !.evidence = TRUE]) /\ [r EXCEPT !.evidence = TRUE].of = r.of
           /\ \A d \in People \cup {Nil} :
                Loose([r EXCEPT !.driver = d]) /\ [r EXCEPT !.driver = d].of = r.of
<1>1. r \in ViewRow /\ Loose(r)
  BY DEF RowsOK
<1>2. QED BY <1>1 DEF Loose, ViewRow

LEMMA Addressing ==
    ASSUME NEW a \in People, NEW to \in People, NEW t \in Threads
    PROVE  LET n == Message(a, to, t) IN
           /\ n \in ViewRow /\ n.of = "messages" /\ n.thread = t /\ n.user = a /\ n.other = to
           /\ ~ n.gone
<1>1. Of("messages") \in ViewRow /\ Of("messages").of = "messages" /\ ~ Of("messages").gone
  BY OfRow DEF Topics, Shared
<1>2. QED BY <1>1 DEF Message, ViewRow

(* A message that fits in its thread.                                      *)
LEMMA MessageFits ==
    ASSUME RowsOK, NEW n \in ViewRow, rows' \subseteq rows \cup {n}, n.of = "messages", ~ n.gone,
           \A r \in rows : r.thread = n.thread /\ r.thread # Nil => {r.user, r.other} = {n.user, n.other}
    PROVE  RowsOK'
<1>1. rows' \subseteq ViewRow
  BY DEF RowsOK
<1>2. \A r \in rows' : (r.of = "messages" \/ Loose(r)) /\ (r.of = "messages" => ~ r.gone)
  BY DEF RowsOK
<1>3. ASSUME NEW r \in rows', NEW s \in rows', r.thread = s.thread, r.thread # Nil
      PROVE  {r.user, r.other} = {s.user, s.other}
  <2>1. CASE r = n /\ s = n
    BY <2>1
  <2>2. CASE r = n /\ s \in rows
    BY <1>3, <2>2
  <2>3. CASE r \in rows /\ s = n
    BY <1>3, <2>3
  <2>4. CASE r \in rows /\ s \in rows
    BY <1>3, <2>4 DEF RowsOK
  <2>5. QED BY <2>1, <2>2, <2>3, <2>4
<1>4. \A r \in rows' : (r.of = "messages" \/ Loose(r)')
  BY <1>2 DEF Loose
<1>5. QED BY <1>1, <1>2, <1>3, <1>4 DEF RowsOK

LEMMA WritingStep ==
    ASSUME ViewsInv, NEW q \in Sessions,
           Plan(q) \/ SendMessage(q) \/ ArchiveDocument(q) \/ HandIn(q) \/ Forget(q)
    PROVE  ViewsInv'
<1> USE DEF ViewsInv
<1>1. ask' = [ask EXCEPT ![q] = NoAsk] /\ UNCHANGED <<role, tour>>
  BY DEF Plan, SendMessage, ArchiveDocument, HandIn, Forget, Write
<1>2. ViewsTypes' /\ AsksOK'
  BY <1>1, Forgotten
<1>3. CASE Forget(q)
  BY <1>2, <1>3 DEF Forget, RowsOK, Loose
<1>4. ASSUME NEW n, Loose(n), n.of # "messages", rows' \subseteq rows \cup {n} PROVE ViewsInv'
  BY <1>2, <1>4, RowsFit
<1>5. CASE Plan(q)
  <2>1. CASE \E d \in People \cup {Nil} : rows' = rows \cup {[Of("planning") EXCEPT !.driver = d]}
    <3>1. PICK d \in People \cup {Nil} : rows' = rows \cup {[Of("planning") EXCEPT !.driver = d]}
      BY <2>1
    <3> DEFINE n == [Of("planning") EXCEPT !.driver = d]
    <3>2. Loose(n) /\ n.of # "messages"
      <4>1. Of("planning") \in ViewRow /\ Of("planning").of = "planning" /\ Loose(Of("planning"))
        BY OfRow DEF Topics, Shared
      <4>2. QED BY <4>1 DEF Loose, ViewRow
    <3>3. QED BY <1>4, <3>1, <3>2
  <2>2. CASE \E r \in rows, d \in People \cup {Nil} :
               /\ r.of = "planning"
               /\ \/ rows' = (rows \ {r}) \cup {[r EXCEPT !.driver = d]}
                  \/ rows' = (rows \ {r}) \cup {[r EXCEPT !.gone = TRUE]}
    <3>1. PICK r \in rows, d \in People \cup {Nil} :
               /\ r.of = "planning"
               /\ \/ rows' = (rows \ {r}) \cup {[r EXCEPT !.driver = d]}
                  \/ rows' = (rows \ {r}) \cup {[r EXCEPT !.gone = TRUE]}
      BY <2>2
    <3>2. /\ Loose([r EXCEPT !.driver = d]) /\ [r EXCEPT !.driver = d].of # "messages"
          /\ Loose([r EXCEPT !.gone = TRUE]) /\ [r EXCEPT !.gone = TRUE].of # "messages"
      BY <3>1, Altered
    <3>3. QED BY <1>4, <3>1, <3>2
  <2>3. QED BY <1>5, <2>1, <2>2 DEF Plan, Write
<1>6. CASE ArchiveDocument(q)
  <2>1. PICK r \in rows : r.of = "documents" /\ rows' = (rows \ {r}) \cup {[r EXCEPT !.gone = TRUE]}
    BY <1>6 DEF ArchiveDocument, Write
  <2>2. QED BY <1>4, <2>1, Altered
<1>7. CASE HandIn(q)
  <2>1. PICK r \in rows : r.of = "documents" /\ rows' = (rows \ {r}) \cup {[r EXCEPT !.evidence = TRUE]}
    BY <1>7 DEF HandIn, Write
  <2>2. QED BY <1>4, <2>1, Altered
<1>8. CASE SendMessage(q)
  <2> DEFINE p == ask[q].p
             thread(t) == {r \in rows : r.of = "messages" /\ r.thread = t}
  <2>1. PICK to \in People, t \in Threads :
          /\ thread(t) # {} => \E r \in thread(t) : {r.user, r.other} = {p.who, to}
          /\ rows' = rows \cup {Message(p.who, to, t)}
    BY <1>8 DEF SendMessage, Write
  <2>2. p.who \in People
    <3>0. Writing(q)
      BY <1>8 DEF SendMessage
    <3>1. ask[q] # NoAsk
      BY <3>0 DEF Writing, NoAsk
    <3>2. QED BY <3>1, Running, AskFields
  <2> DEFINE n == Message(p.who, to, t)
  <2>3. n \in ViewRow /\ n.of = "messages" /\ n.thread = t /\ n.user = p.who /\ n.other = to /\ ~ n.gone
    BY <2>2, Addressing
  <2>4. ASSUME t # Nil, NEW r \in rows, r.thread = t PROVE {r.user, r.other} = {n.user, n.other}
    <3>1. r \in thread(t)
      BY <2>4 DEF RowsOK, Loose
    <3>2. PICK s \in thread(t) : {s.user, s.other} = {p.who, to}
      BY <2>1, <3>1
    <3>3. {r.user, r.other} = {s.user, s.other}
      BY <2>4, <3>2 DEF RowsOK
    <3>4. QED BY <2>3, <3>2, <3>3
  <2>5. rows' \subseteq rows \cup {n}
    BY <2>1
  <2> HIDE DEF n, thread, p
  <2>6. QED BY <1>2, <2>3, <2>4, <2>5, MessageFits
<1>9. QED BY <1>3, <1>5, <1>6, <1>7, <1>8

LEMMA AsksStay ==
    ASSUME ViewsTypes, AsksOK, role' \in [People -> Roles], UNCHANGED <<tour, ask>>
    PROVE  ViewsTypes' /\ AsksOK'
<1>1. ViewsTypes'
  BY DEF ViewsTypes
<1>2. ASSUME NEW q \in Sessions, ask'[q] # NoAsk PROVE Entitled(ask[q])'
  <2>1. ask'[q] = ask[q] /\ Entitled(ask[q])
    BY <1>2 DEF AsksOK
  <2>2. QED BY <2>1 DEF Entitled, Granted, Theirs, MayRead, Own
<1>3. ASSUME NEW q \in Sessions, ask'[q] # NoAsk PROVE (VansOf(ask[q].p.who) \in ask[q].tours)'
  BY <1>3 DEF AsksOK, VansOf
<1>4. QED BY <1>1, <1>2, <1>3 DEF AsksOK

LEMMA RowsChangeStep == ViewsInv /\ RowsChange => ViewsInv'
<1> SUFFICES ASSUME ViewsInv, RowsChange PROVE ViewsInv'
  OBVIOUS
<1> USE DEF ViewsInv
<1>1. UNCHANGED <<role, tour, ask>>
  BY DEF RowsChange
<1>2. ViewsTypes' /\ AsksOK'
  BY <1>1, AsksStay DEF ViewsTypes
<1>3. CASE \E r \in NewRow : rows' = rows \cup {r}
  <2>1. PICK r \in NewRow : rows' = rows \cup {r}
    BY <1>3
  <2>2. Loose(r) /\ r.of # "messages"
    BY NewRows
  <2>3. QED BY <1>2, <2>1, <2>2, RowsFit
<1>4. CASE rows' \subseteq rows
  BY <1>2, <1>4, RowsFit
<1>5. CASE \E r \in rows, s \in BOOLEAN, f \in Files : Renew(r, s, f)
  <2>1. PICK r \in rows, s \in BOOLEAN, f \in Files : Renew(r, s, f)
    BY <1>5
  <2>2. r.of = "documents" /\ r \in ViewRow
    BY <2>1 DEF Renew, RowsOK
  <2>3. Loose([r EXCEPT !.gone = TRUE]) /\ [r EXCEPT !.gone = TRUE].of # "messages"
    BY <2>2, Altered
  <2>4. r.driver \in People \cup {Nil} /\ r.van \in Vans \cup {Nil}
    BY <2>2 DEF ViewRow
  <2>5. Loose(Document(r.driver, r.van, s, f)) /\ Document(r.driver, r.van, s, f).of # "messages"
    BY <2>4, Shapes
  <2>6. rows' \subseteq rows \cup {[r EXCEPT !.gone = TRUE], Document(r.driver, r.van, s, f)}
    BY <2>1 DEF Renew
  <2>7. QED BY <1>2, <2>3, <2>5, <2>6, RowsFit
<1>6. QED BY <1>3, <1>4, <1>5 DEF RowsChange

(* Whoever changes a tour: running requests take note.                     *)
LEMMA NotedStep == ViewsInv /\ (RoleChanges \/ TourChanges) => ViewsInv'
<1> SUFFICES ASSUME ViewsInv, RoleChanges \/ TourChanges PROVE ViewsInv'
  OBVIOUS
<1> USE DEF ViewsInv
<1>1. rows' = rows
  BY DEF RoleChanges, TourChanges
<1>2. RowsOK'
  BY <1>1 DEF RowsOK, Loose
<1>3. CASE RoleChanges
  <2>1. role' \in [People -> Roles]
    BY <1>3 DEF RoleChanges, ViewsTypes, Roles
  <2>2. QED BY <1>2, <1>3, <2>1, AsksStay DEF RoleChanges
<1>4. CASE TourChanges
  <2>1. role' = role /\ tour' \in [Vans -> People \cup {Nil}]
    BY <1>4 DEF TourChanges, ViewsTypes
  <2>2. ASSUME NEW q \in Sessions, ask[q] # NoAsk
        PROVE  /\ ask'[q] \in AskRow /\ Entitled(ask'[q])
               /\ {v \in Vans : tour'[v] = ask'[q].p.who} \in ask'[q].tours
    <3> DEFINE x == ask[q]
               now == {v \in Vans : tour'[v] = x.p.who}
               new == [x EXCEPT !.tours = @ \cup {now}]
    <3>1. x \in AskRow /\ Entitled(x)
      BY <2>2, Running
    <3>2. ask'[q] = new
      BY <1>4, <2>2 DEF TourChanges
    <3>3. now \subseteq Vans
      OBVIOUS
    <3> HIDE DEF now
    <3>4. /\ new \in AskRow /\ new.phase = x.phase /\ new.p = x.p /\ new.what = x.what
          /\ new.seen = x.seen /\ new.answer = x.answer /\ new.found = x.found
          /\ new.tours = x.tours \cup {now}
      BY <3>1, <3>3 DEF AskRow
    <3> HIDE DEF new
    <3>5. Granted(new.p, new.answer, new.tours)
      BY <3>1, <3>4 DEF Entitled, Granted
    <3>6. Entitled(new)
      BY <3>1, <3>4, <3>5 DEF Entitled
    <3>7. QED BY <3>2, <3>4, <3>6 DEF now
  <2>3. ASSUME NEW q \in Sessions, ask[q] = NoAsk PROVE ask'[q] = NoAsk
    BY <1>4, <2>3 DEF TourChanges
  <2>4. ask' \in [Sessions -> {NoAsk} \cup AskRow]
    <3>1. \A q \in Sessions : ask'[q] \in {NoAsk} \cup AskRow
      BY <2>2, <2>3
    <3>2. ask' = [q \in Sessions |-> ask'[q]]
      BY <1>4 DEF TourChanges
    <3>3. QED BY <3>1, <3>2
  <2>5. ViewsTypes'
    BY <2>1, <2>4 DEF ViewsTypes
  <2>6. ASSUME NEW q \in Sessions, ask'[q] # NoAsk PROVE Entitled(ask[q])'
    <3>1. Entitled(ask'[q])
      BY <2>2, <2>3, <2>6
    <3>2. QED BY <3>1 DEF Entitled, Granted, Theirs, MayRead, Own
  <2>7. ASSUME NEW q \in Sessions, ask'[q] # NoAsk PROVE (VansOf(ask[q].p.who) \in ask[q].tours)'
    BY <2>2, <2>3, <2>7 DEF VansOf
  <2>8. AsksOK'
    BY <2>6, <2>7 DEF AsksOK
  <2>9. QED BY <1>2, <2>5, <2>8
<1>5. QED BY <1>3, <1>4

LEMMA ViewsStart == ViewsInit => ViewsInv
  BY DEF ViewsInit, ViewsInv, ViewsTypes, RowsOK, AsksOK, Roles

LEMMA ViewsStep == ViewsInv /\ ViewsNext => ViewsInv'
<1> SUFFICES ASSUME ViewsInv, ViewsNext PROVE ViewsInv'
  OBVIOUS
<1>1. CASE RowsChange \/ RoleChanges \/ TourChanges
  BY <1>1, RowsChangeStep, NotedStep
<1>2. ASSUME NEW q \in Sessions,
             \/ AskList(q) \/ AskFile(q) \/ AskWrite(q) \/ ReadVans(q) \/ ReadRows(q) \/ ReadFile(q)
             \/ ReadTour(q) \/ Plan(q) \/ SendMessage(q) \/ ArchiveDocument(q) \/ HandIn(q) \/ Forget(q)
      PROVE  ViewsInv'
  BY <1>2, AskStep2, ReadStep, WritingStep
<1>3. QED BY <1>1, <1>2 DEF ViewsNext

LEMMA ViewsRest ==
    (part = "views" => ViewsInv) /\ [OfficeNext]_office => (part = "views" => ViewsInv)'
<1> SUFFICES ASSUME part = "views" => ViewsInv, [OfficeNext]_office, part' = "views" PROVE ViewsInv'
  OBVIOUS
<1>1. part = "views" /\ ViewsInv
  BY DEF OfficeNext, office
<1>2. CASE ViewsNext
  BY <1>1, <1>2, ViewsStep
<1>3. CASE UNCHANGED views
  <2>1. UNCHANGED <<role, tour, ask>> /\ rows' = rows
    BY <1>3 DEF views
  <2>2. RowsOK'
    BY <1>1, <2>1 DEF ViewsInv, RowsOK, Loose
  <2>3. QED BY <1>1, <2>1, <2>2, AsksStay DEF ViewsInv, ViewsTypes
<1>4. QED BY <1>1, <1>2, <1>3 DEF OfficeNext, office

(* Whatever roles, tours and rows do while a request runs, nobody is shown *)
(* more than the role they came with and their tour at one moment since    *)
(* entitle them to, nothing put away but evidence, and a thread stays      *)
(* between two people.                                                     *)
THEOREM ShownTheirOwn == OfficeSpec => []OwnOnly
<1> DEFINE I == part = "views" => ViewsInv
<1>1. OfficeInit => I
  BY ViewsStart DEF OfficeInit
<1>2. I /\ [OfficeNext]_office => I'
  BY ViewsRest
<1>3. I => OwnOnly
  BY DEF OwnOnly, OwnRowsOnly, ViewsInv, RowsOK, AsksOK, Entitled, Granted
<1>4. QED BY <1>1, <1>2, <1>3, PTL DEF OfficeSpec

(* The lists and the corrections offer what their reader can open, and no  *)
(* more can be opened; the dashboard points at nothing the lists do not    *)
(* have.                                                                   *)
THEOREM OffersOpenAlways == OfficeSpec => []ListedOpens
<1> DEFINE I == part = "views" => ViewsInv
<1>1. OfficeInit => I
  BY ViewsStart DEF OfficeInit
<1>2. I /\ [OfficeNext]_office => I'
  BY ViewsRest
<1>3. I => ListedOpens
  <2> SUFFICES ASSUME ViewsInv, NEW u \in People, role[u] # "none", NEW r \in rows
               PROVE  LET p == Principal(u) IN
                      /\ r.of \in {"documents", "photos"} =>
                           (InList(p, r, VansOf(u)) \/ Corrected(p, r) <=> Opens(p, r, VansOf(u)))
                      /\ r.of \in {"documents", "score"} /\ OnDashboard(p, r) =>
                           MayRead(p, r.of) /\ InList(p, r, VansOf(u))
    BY DEF ListedOpens, OffersOpen
  <2> DEFINE p == Principal(u)
  <2>1. p.role \in {"ADMIN", "DISPATCHER", "DRIVER"}
    BY DEF Principal, ViewsInv, ViewsTypes, Roles, Staff
  <2> HIDE DEF p
  <2>2. r.of = "documents" => (InList(p, r, VansOf(u)) \/ Corrected(p, r) <=> Opens(p, r, VansOf(u)))
    BY <2>1 DEF InList, Opens, Filed, Corrected, Own
  <2>3. r.of = "photos" => (InList(p, r, VansOf(u)) \/ Corrected(p, r) <=> Opens(p, r, VansOf(u)))
    BY <2>1 DEF InList, Opens, Reported, Corrected, Own
  <2>4. r.of = "documents" /\ OnDashboard(p, r) => MayRead(p, "documents") /\ InList(p, r, VansOf(u))
    BY <2>1 DEF InList, OnDashboard, Filed, Own, MayRead, Shared
  <2>5. r.of = "score" /\ OnDashboard(p, r) => MayRead(p, "score") /\ InList(p, r, VansOf(u))
    BY <2>1 DEF InList, OnDashboard, OwnScore, Own, MayRead
  <2>6. QED BY <2>2, <2>3, <2>4, <2>5 DEF p
<1>4. QED BY <1>1, <1>2, <1>3, PTL DEF OfficeSpec

-----------------------------------------------------------------------------
(***************************************************************************)
(* Upkeep.  One command at a time is past its lock; what it goes by, the   *)
(* target, a snapshot or a staged database, is as it left it.              *)
(***************************************************************************)
Dump  == [data : SUBSET Nat, schema : Nat]
Steps == {"begun", "locked", "created", "known", "ready", "save", "dumped", "migrate", "staged",
          "loaded", "fit", "saved", "closed", "gated", "moved", "promoted"}
Command ==
    [cmd : {"any", "bootstrap", "dev", "upgrade", "backup", "restore"}, makes : BOOLEAN,
     at : Steps, since : SUBSET Nat, saved : Dump \cup {Nil}, from : Dump \cup {Nil},
     staging : Database \cup {Nil}]

Past(o) == op[o].at \notin {"none", "begun"}

UpkeepTypes ==
    /\ target \in Database \cup {Nil} /\ kept \subseteq Database /\ archives \subseteq Dump
    /\ release \in Nat \ {0} /\ IsFiniteSet(commits) /\ commits \subseteq Nat
    /\ op \in [Operators -> {NoCommand} \cup Command]

Staged(c) == c.staging \in Database /\ ~ c.staging.mark
Fitting(c) == Staged(c) /\ c.staging.whole /\ c.staging.schema = release

(* What a command at a step may count on.                                  *)
Stands(c) ==
    /\ c.at \notin {"none", "begun", "locked", "moved"} => target # Nil
    /\ c.at \in {"ready", "staged", "loaded", "fit", "save", "dumped", "migrate"} =>
         c.since \subseteq target.data
    /\ c.at = "dumped" =>
         c.saved \in Dump /\ c.since \subseteq c.saved.data /\ c.saved.schema = target.schema
    /\ c.at = "migrate" =>
         \/ target.schema = release
         \/ \E a \in archives : c.since \subseteq a.data /\ a.schema = target.schema
    /\ c # NoCommand /\ c.staging # Nil => ~ c.staging.mark
    /\ c.at = "staged" => Staged(c) /\ c.from \in Dump
    /\ c.at = "loaded" => Staged(c) /\ c.staging.whole
    /\ c.at \in {"fit", "saved", "closed", "gated", "moved"}
       \/ (c.at \in {"save", "dumped"} /\ c.cmd = "restore") => Fitting(c)

Commands ==
    /\ \A o, q \in Operators : Past(o) /\ Past(q) => o = q
    /\ \A o \in Operators : Stands(op[o])

Preserved ==
    /\ target # Nil => target.whole
    /\ \A d \in kept : d.mark => d.whole
    /\ client => target # Nil
    /\ \A n \in commits : \/ target # Nil /\ n \in target.data
                          \/ \E d \in kept : n \in d.data

UpkeepInv == UpkeepTypes /\ Commands /\ Preserved
UpkeepPart == part = "upkeep" => UpkeepInv

LEMMA Resting == /\ NoCommand \notin Command /\ NoCommand.at = "none" /\ NoCommand.cmd = "none"
                 /\ Stands(NoCommand) /\ Stands(NoCommand)'
  BY DEF NoCommand, Command, Stands

LEMMA Rows ==
    ASSUME NEW d \in Database
    PROVE  /\ d # Nil /\ d.data \subseteq Nat /\ d.schema \in Nat
           /\ d.whole \in BOOLEAN /\ d.clean \in BOOLEAN /\ d.mark \in BOOLEAN /\ d.open \in BOOLEAN
           /\ [d EXCEPT !.open = FALSE] \in Database /\ [d EXCEPT !.open = TRUE] \in Database
           /\ [d EXCEPT !.mark = TRUE] \in Database
           /\ [d EXCEPT !.open = TRUE, !.mark = TRUE] \in Database
  BY UpkeepAssumption DEF Database

LEMMA EmptyRow == Empty \in Database /\ Empty.schema = 0 /\ Empty.data = {} /\ Empty.whole /\ ~ Empty.mark
  BY DEF Empty, Database

(* A command that is past its lock is a row, and the only such one.        *)
LEMMA Alone ==
    ASSUME UpkeepInv, NEW o \in Operators, Past(o)
    PROVE  /\ op[o] \in Command /\ op[o] # NoCommand /\ Stands(op[o])
           /\ \A q \in Operators \ {o} : ~ Past(q)
  BY Resting DEF UpkeepInv, UpkeepTypes, Commands, Past

(* What another command did leaves the rest as they were.                  *)
LEMMA Moves ==
    ASSUME UpkeepInv, NEW o \in Operators, \A q \in Operators \ {o} : ~ Past(q),
           op' = [op EXCEPT ![o] = op'[o]], op'[o] \in {NoCommand} \cup Command, Stands(op[o])'
    PROVE  op' \in [Operators -> {NoCommand} \cup Command] /\ Commands'
<1> USE DEF UpkeepInv, UpkeepTypes
<1>1. op' \in [Operators -> {NoCommand} \cup Command] /\ \A q \in Operators \ {o} : op'[q] = op[q]
  OBVIOUS
<1>2. \A q \in Operators \ {o} : ~ Past(q)'
  BY <1>1 DEF Past
<1>3. ASSUME NEW q \in Operators \ {o} PROVE Stands(op[q])'
  <2>1. op'[q] = op[q] /\ op[q].at \in {"none", "begun"} /\ Stands(op[q])
    BY <1>1 DEF Commands, Past
  <2>2. QED BY <2>1 DEF Stands, Fitting, Staged
<1>4. QED BY <1>1, <1>2, <1>3 DEF Commands

LEMMA Ends ==
    ASSUME UpkeepInv, NEW o \in Operators, Past(o), op' = [op EXCEPT ![o] = NoCommand]
    PROVE  op' \in [Operators -> {NoCommand} \cup Command] /\ Commands'
<1>1. op'[o] = NoCommand
  BY DEF UpkeepInv, UpkeepTypes
<1>2. Stands(op[o])'
  BY <1>1, Resting
<1>3. QED BY <1>1, <1>2, Alone, Moves

(* A command that has no lock yet may begin, stop or be killed.            *)
LEMMA Waits ==
    ASSUME UpkeepInv, NEW o \in Operators, UNCHANGED <<target, archives, release>>,
           op' = [op EXCEPT ![o] = op'[o]], op'[o] \in {NoCommand} \cup Command,
           op'[o].at \in {"none", "begun"}, Stands(op[o])'
    PROVE  op' \in [Operators -> {NoCommand} \cup Command] /\ Commands'
<1> USE DEF UpkeepInv, UpkeepTypes
<1>1. op' \in [Operators -> {NoCommand} \cup Command] /\ \A q \in Operators \ {o} : op'[q] = op[q]
  OBVIOUS
<1>2. \A q \in Operators : Past(q)' => q # o /\ Past(q)
  BY <1>1 DEF Past
<1>3. ASSUME NEW q \in Operators \ {o} PROVE Stands(op[q])'
  BY <1>1 DEF Commands, Stands, Fitting, Staged
<1>4. QED BY <1>1, <1>2, <1>3 DEF Commands

LEMMA Holds ==
    ASSUME Preserved, kept \subseteq kept', commits' = commits, client' => client,
           target = Nil => target' = Nil,
           target # Nil => target' # Nil /\ target'.data = target.data /\ target'.whole = target.whole,
           \A d \in kept' \ kept : ~ d.mark
    PROVE  Preserved'
  BY DEF Preserved

LEMMA LeftRows ==
    ASSUME UpkeepInv, NEW o \in Operators
    PROVE  Left(o) \subseteq Database /\ \A d \in Left(o) : ~ d.mark
<1>1. CASE op[o] = NoCommand
  BY <1>1 DEF Left, NoCommand
<1>2. CASE op[o] \in Command
  BY <1>2, Resting DEF Left, Command, UpkeepInv, UpkeepTypes, Commands, Stands
<1>3. QED BY <1>1, <1>2 DEF UpkeepInv, UpkeepTypes

(* Before a lock is had, and when a command stops.                         *)
LEMMA Outside ==
    ASSUME UpkeepInv, NEW o \in Operators, Begin(o) \/ ClusterLock(o) \/ Stop(o) \/ Kill(o)
    PROVE  UpkeepInv'
<1> USE DEF UpkeepInv
<1>1. CASE Begin(o)
  <2>1. op' = [op EXCEPT ![o] = op'[o]] /\ op'[o] \in Command /\ op'[o].at = "begun" /\ op'[o].staging = Nil
    BY <1>1 DEF Begin, Command, Steps, UpkeepTypes
  <2>2. Stands(op[o])'
    BY <2>1 DEF Stands, Command
  <2>3. UNCHANGED <<target, kept, archives, release, commits, client>>
    BY <1>1 DEF Begin
  <2>4. Preserved'
    BY <2>3 DEF Preserved
  <2>5. QED BY <2>1, <2>2, <2>3, <2>4, Waits DEF UpkeepTypes
<1>2. CASE ClusterLock(o)
  <2>1. op[o] \in Command /\ Stands(op[o]) /\ op[o] # NoCommand
    BY <1>2, Resting DEF ClusterLock, At, UpkeepTypes, Commands
  <2>2. \A q \in Operators \ {o} : ~ Past(q)
    BY <1>2, Resting DEF ClusterLock, At, Past, Alive, UpkeepTypes
  <2>3. PICK cmd \in {"bootstrap", "dev", "upgrade", "backup", "restore"}, makes \in BOOLEAN :
          op' = [op EXCEPT ![o].at = "locked", ![o].cmd = cmd, ![o].makes = makes]
    BY <1>2 DEF ClusterLock
  <2>4. op'[o] = [op[o] EXCEPT !.at = "locked", !.cmd = cmd, !.makes = makes]
    BY <2>3 DEF UpkeepTypes
  <2>5. op'[o] \in Command /\ op'[o].at = "locked" /\ op'[o].staging = op[o].staging
    BY <2>1, <2>4 DEF Command, Steps
  <2>6. Stands(op[o])'
    BY <2>1, <2>5 DEF Stands
  <2>7. op' = [op EXCEPT ![o] = op'[o]]
    BY <2>3, <2>4
  <2>8. UNCHANGED <<target, kept, archives, release, commits, client>>
    BY <1>2 DEF ClusterLock
  <2>9. Preserved'
    BY <2>8 DEF Preserved
  <2>10. QED BY <2>2, <2>5, <2>6, <2>7, <2>8, <2>9, Moves DEF UpkeepTypes
<1>3. CASE Stop(o) \/ Kill(o)
  <2>1. op' = [op EXCEPT ![o] = NoCommand] /\ kept' = kept \cup Left(o)
    BY <1>3 DEF Stop, Kill, End
  <2>2. UNCHANGED <<target, archives, release, commits, client>>
    BY <1>3 DEF Stop, Kill
  <2>3. op'[o] = NoCommand
    BY <2>1 DEF UpkeepTypes
  <2>4. Stands(op[o])' /\ op'[o].at = "none" /\ op' = [op EXCEPT ![o] = op'[o]]
    BY <2>1, <2>3, Resting
  <2>5. op' \in [Operators -> {NoCommand} \cup Command] /\ Commands'
    BY <2>2, <2>3, <2>4, Waits
  <2>6. Preserved'
    BY <2>1, <2>2, LeftRows, Holds
  <2>7. QED BY <2>1, <2>2, <2>5, <2>6, LeftRows DEF UpkeepTypes
<1>4. QED BY <1>1, <1>2, <1>3

LEMMA Opening ==
    ASSUME UpkeepInv, NEW o \in Operators,
           Create(o) \/ Comment(o) \/ Recognise(o) \/ Provisioned(o)
    PROVE  UpkeepInv'
<1> USE DEF UpkeepInv
<1>1. Past(o) /\ op[o] \in Command /\ Stands(op[o]) /\ \A q \in Operators \ {o} : ~ Past(q)
  <2>1. Past(o)
    BY DEF Create, Comment, Recognise, Provisioned, At, Past
  <2>2. QED BY <2>1, Alone
<1>2. UNCHANGED <<kept, archives, release, commits, client>>
  BY DEF Create, Comment, Recognise, Provisioned
<1>3. CASE Create(o)
  <2>1. op' = [op EXCEPT ![o].at = "created"] /\ op[o].at = "locked" /\ target = Nil /\ target' = Empty
    BY <1>3 DEF Create, To, At
  <2>2. op'[o] = [op[o] EXCEPT !.at = "created"] /\ op' = [op EXCEPT ![o] = op'[o]]
    BY <2>1 DEF UpkeepTypes
  <2>3. op'[o] \in Command /\ op'[o].at = "created" /\ op'[o].staging = op[o].staging
    BY <1>1, <2>2 DEF Command, Steps
  <2>4. target' # Nil /\ target' \in Database
    BY <2>1, EmptyRow, Rows
  <2>5. Stands(op[o])'
    BY <1>1, <2>3, <2>4, Resting DEF Stands
  <2>6. kept = {}
    BY <1>3 DEF Create, MayCreate
  <2>7. Preserved'
    BY <1>2, <2>1, <2>4, <2>6, EmptyRow DEF Preserved
  <2>8. QED BY <1>1, <1>2, <2>2, <2>3, <2>4, <2>5, <2>7, Moves DEF UpkeepTypes
<1>4. CASE Comment(o)
  <2>1. op' = [op EXCEPT ![o].at = "known"] /\ op[o].at = "created"
        /\ target' = [target EXCEPT !.mark = TRUE]
    BY <1>4 DEF Comment, To, At
  <2>2. op'[o] = [op[o] EXCEPT !.at = "known"] /\ op' = [op EXCEPT ![o] = op'[o]]
    BY <2>1 DEF UpkeepTypes
  <2>3. op'[o] \in Command /\ op'[o].at = "known" /\ op'[o].staging = op[o].staging
    BY <1>1, <2>2 DEF Command, Steps
  <2>4. target \in Database
    BY <1>1, <2>1 DEF Stands, UpkeepTypes
  <2>5. target' \in Database /\ target' # Nil /\ target'.data = target.data /\ target'.whole = target.whole
    BY <2>1, <2>4, Rows DEF Database
  <2>6. Stands(op[o])'
    BY <1>1, <2>3, <2>5, Resting DEF Stands
  <2>7. Preserved'
    BY <1>2, <2>4, <2>5, Rows, Holds
  <2>8. QED BY <1>1, <1>2, <2>2, <2>3, <2>5, <2>6, <2>7, Moves DEF UpkeepTypes
<1>5. CASE Recognise(o)
  <2>1. op' = [op EXCEPT ![o].at = "known"] /\ op[o].at = "locked" /\ target # Nil /\ target' = target
    BY <1>5 DEF Recognise, To, At
  <2>2. op'[o] = [op[o] EXCEPT !.at = "known"] /\ op' = [op EXCEPT ![o] = op'[o]]
    BY <2>1 DEF UpkeepTypes
  <2>3. op'[o] \in Command /\ op'[o].at = "known" /\ op'[o].staging = op[o].staging
    BY <1>1, <2>2 DEF Command, Steps
  <2>4. Stands(op[o])'
    BY <1>1, <2>1, <2>3, Resting DEF Stands
  <2>5. Preserved'
    BY <1>2, <2>1, Holds
  <2>6. QED BY <1>1, <1>2, <2>1, <2>2, <2>3, <2>4, <2>5, Moves DEF UpkeepTypes
<1>6. CASE Provisioned(o)
  <2>1. op' = [op EXCEPT ![o].at = "ready", ![o].since = target.data] /\ op[o].at = "known"
        /\ target # Nil /\ target' = target
    BY <1>6 DEF Provisioned, At, Usable
  <2>2. op'[o] = [op[o] EXCEPT !.at = "ready", !.since = target.data] /\ op' = [op EXCEPT ![o] = op'[o]]
    BY <2>1 DEF UpkeepTypes
  <2>3. target \in Database
    BY <2>1 DEF UpkeepTypes
  <2>4. op'[o] \in Command /\ op'[o].at = "ready" /\ op'[o].staging = op[o].staging
        /\ op'[o].since = target.data
    BY <1>1, <2>2, <2>3, Rows DEF Command, Steps
  <2>5. Stands(op[o])'
    BY <1>1, <2>1, <2>4, Resting DEF Stands
  <2>6. Preserved'
    BY <1>2, <2>1, Holds
  <2>7. QED BY <1>1, <1>2, <2>1, <2>2, <2>4, <2>5, <2>6, Moves DEF UpkeepTypes
<1>7. QED BY <1>3, <1>4, <1>5, <1>6

(* The plan, the backup and the migration in place.                        *)
LEMMA Migrating ==
    ASSUME UpkeepInv, NEW o \in Operators,
           PlanMigration(o) \/ Snapshot(o) \/ Archive(o) \/ Migrate(o)
    PROVE  UpkeepInv'
<1> USE DEF UpkeepInv
<1>1. Past(o) /\ op[o] \in Command /\ Stands(op[o]) /\ \A q \in Operators \ {o} : ~ Past(q)
  <2>1. Past(o)
    BY DEF PlanMigration, Snapshot, Archive, Migrate, At, Past
  <2>2. QED BY <2>1, Alone
<1>2. UNCHANGED <<kept, release, commits, client>>
  BY DEF PlanMigration, Snapshot, Archive, Migrate
<1>3. op[o].at \in {"ready", "save", "dumped", "migrate"}
  BY DEF PlanMigration, Snapshot, Archive, Migrate, At
<1>4. target \in Database /\ target # Nil /\ op[o].since \subseteq target.data
  BY <1>1, <1>3 DEF Stands, UpkeepTypes
<1>5. CASE PlanMigration(o)
  <2>1. op[o].at = "ready" /\ target' = target /\ archives' = archives
    BY <1>5 DEF PlanMigration, At
  <2>2. Preserved'
    BY <1>2, <2>1, Holds
  <2>3. CASE op' = [op EXCEPT ![o] = NoCommand]
    BY <1>1, <1>2, <2>1, <2>2, <2>3, Ends DEF UpkeepTypes
  <2>4. ASSUME NEW s \in {"save", "migrate"}, s = "save" => op[o].cmd # "restore",
               s = "migrate" => target.schema = release,
               op' = [op EXCEPT ![o].at = s]
        PROVE  UpkeepInv'
    <3>1. op'[o] = [op[o] EXCEPT !.at = s] /\ op' = [op EXCEPT ![o] = op'[o]]
      BY <2>4 DEF UpkeepTypes
    <3>2. op'[o] \in Command /\ op'[o].at = s /\ op'[o].staging = op[o].staging
          /\ op'[o].since = op[o].since /\ op'[o].cmd = op[o].cmd
      BY <1>1, <2>4, <3>1 DEF Command, Steps
    <3>3. Stands(op[o])'
      BY <1>1, <1>2, <1>4, <2>1, <2>4, <3>2, Resting DEF Stands
    <3>4. QED BY <1>1, <1>2, <2>1, <2>2, <3>1, <3>2, <3>3, Moves DEF UpkeepTypes
  <2>5. \/ op' = [op EXCEPT ![o] = NoCommand]
        \/ op' = [op EXCEPT ![o].at = "save"] /\ op[o].cmd # "restore"
        \/ op' = [op EXCEPT ![o].at = "migrate"] /\ target.schema = release
    <3>1. target.schema \in Nat /\ release \in Nat
      BY <1>4, Rows DEF UpkeepTypes
    <3>2. target.schema <= release /\ op[o].cmd \in {"bootstrap", "dev", "upgrade"}
      BY <1>5 DEF PlanMigration
    <3>3. QED BY <1>5, <3>1, <3>2 DEF PlanMigration, To, End, BacksUp
  <2>6. CASE op' = [op EXCEPT ![o].at = "save"] /\ op[o].cmd # "restore"
    BY <2>4, <2>6
  <2>7. CASE op' = [op EXCEPT ![o].at = "migrate"] /\ target.schema = release
    BY <2>4, <2>7
  <2>8. QED BY <2>3, <2>5, <2>6, <2>7
<1>6. CASE Snapshot(o)
  <2>1. op' = [op EXCEPT ![o].at = "dumped", ![o].saved = [data |-> target.data, schema |-> target.schema]]
        /\ target' = target /\ archives' = archives
    BY <1>6 DEF Snapshot
  <2>2. op'[o] = [op[o] EXCEPT !.at = "dumped", !.saved = [data |-> target.data, schema |-> target.schema]]
        /\ op' = [op EXCEPT ![o] = op'[o]]
    BY <2>1 DEF UpkeepTypes
  <2>3. [data |-> target.data, schema |-> target.schema] \in Dump
    BY <1>4, Rows DEF Dump
  <2>4. op'[o] \in Command /\ op'[o].at = "dumped" /\ op'[o].staging = op[o].staging
        /\ op'[o].since = op[o].since /\ op'[o].cmd = op[o].cmd
        /\ op'[o].saved = [data |-> target.data, schema |-> target.schema]
    BY <1>1, <2>2, <2>3 DEF Command, Steps
  <2>5. op[o].cmd = "restore" => op[o].at = "save"
    BY <1>6 DEF Snapshot, At
  <2>6. op[o].cmd = "restore" => Fitting(op[o])
    BY <1>1, <2>5 DEF Stands
  <2>7. Fitting(op[o]) => Fitting(op[o])'
    BY <1>2, <2>4 DEF Fitting, Staged
  <2>8. Stands(op[o])'
    <3>1. op'[o].saved.data = target'.data /\ op'[o].saved.schema = target'.schema /\ op'[o].saved \in Dump
      BY <2>1, <2>3, <2>4
    <3>2. op'[o].cmd = "restore" => Fitting(op[o])'
      BY <2>4, <2>6, <2>7
    <3>3. op'[o].since \subseteq target'.data /\ target' # Nil
      BY <1>4, <2>1, <2>4
    <3>4. op'[o].staging # Nil => ~ op'[o].staging.mark
      BY <1>1, <2>4, Resting DEF Stands
    <3>5. op'[o].at = "dumped" /\ op'[o].since \subseteq op'[o].saved.data
      BY <2>4, <3>1, <3>3
    <3>6. QED BY <3>1, <3>2, <3>3, <3>4, <3>5 DEF Stands
  <2>9. Preserved'
    BY <1>2, <2>1, Holds
  <2>10. QED BY <1>1, <1>2, <2>1, <2>2, <2>4, <2>8, <2>9, Moves DEF UpkeepTypes
<1>7. CASE Archive(o)
  <2>1. op[o].at = "dumped" /\ target' = target /\ archives' = archives \cup {op[o].saved}
    BY <1>7 DEF Archive, At
  <2>2. op[o].saved \in Dump /\ op[o].since \subseteq op[o].saved.data /\ op[o].saved.schema = target.schema
    BY <1>1, <2>1 DEF Stands
  <2>3. archives' \subseteq Dump
    BY <2>1, <2>2 DEF UpkeepTypes
  <2>4. Preserved'
    BY <1>2, <2>1, Holds
  <2>5. CASE op' = [op EXCEPT ![o] = NoCommand]
    BY <1>1, <1>2, <2>1, <2>3, <2>4, <2>5, Ends DEF UpkeepTypes
  <2>6. CASE /\ op[o].cmd # "backup"
             /\ op' = [op EXCEPT ![o].at = IF op[o].cmd = "restore" THEN "saved" ELSE "migrate",
                                 ![o].saved = Nil]
    <3> DEFINE s == IF op[o].cmd = "restore" THEN "saved" ELSE "migrate"
    <3>1. op'[o] = [op[o] EXCEPT !.at = s, !.saved = Nil] /\ op' = [op EXCEPT ![o] = op'[o]]
      BY <2>6 DEF UpkeepTypes
    <3>2. op'[o] \in Command /\ op'[o].at = s /\ op'[o].staging = op[o].staging
          /\ op'[o].since = op[o].since /\ op'[o].cmd = op[o].cmd
      BY <1>1, <3>1 DEF Command, Steps
    <3>3. op[o].cmd = "restore" => Fitting(op[o])'
      BY <1>1, <1>2, <2>1, <3>2 DEF Stands, Fitting, Staged
    <3>4. \E a \in archives' : op[o].since \subseteq a.data /\ a.schema = target.schema
      BY <2>1, <2>2
    <3>5. Stands(op[o])'
      BY <1>1, <1>4, <2>1, <3>2, <3>3, <3>4, Resting DEF Stands
    <3>6. QED BY <1>1, <1>2, <2>1, <2>3, <2>4, <3>1, <3>2, <3>5, Moves DEF UpkeepTypes
  <2>7. QED BY <1>7, <2>5, <2>6 DEF Archive, End
<1>8. CASE Migrate(o)
  <2>1. op' = [op EXCEPT ![o] = NoCommand] /\ archives' = archives
    BY <1>8 DEF Migrate, End
  <2>2. target' \in Database /\ target' # Nil /\ target'.data = target.data /\ target'.whole = target.whole
    BY <1>4, <1>8, UpkeepAssumption DEF Migrate, Database, UpkeepTypes
  <2>3. Preserved'
    BY <1>2, <1>4, <2>2, Holds
  <2>4. QED BY <1>1, <1>2, <2>1, <2>2, <2>3, Ends DEF UpkeepTypes
<1>9. QED BY <1>5, <1>6, <1>7, <1>8

(* A restore fills a database of its own.                                  *)
LEMMA Restoring ==
    ASSUME UpkeepInv, NEW o \in Operators, Stage(o) \/ LoadStaging(o) \/ Fit(o)
    PROVE  UpkeepInv'
<1> USE DEF UpkeepInv
<1>1. Past(o) /\ op[o] \in Command /\ Stands(op[o]) /\ \A q \in Operators \ {o} : ~ Past(q)
  <2>1. Past(o)
    BY DEF Stage, LoadStaging, Fit, At, Past
  <2>2. QED BY <2>1, Alone
<1>2. UNCHANGED <<target, kept, archives, release, commits, client>>
  BY DEF Stage, LoadStaging, Fit
<1>3. target # Nil /\ op[o].since \subseteq target.data
  BY <1>1 DEF Stage, LoadStaging, Fit, At, Stands
<1>4. Preserved'
  BY <1>2, Holds
<1>5. CASE Stage(o)
  <2>1. PICK a \in archives : op' = [op EXCEPT ![o].at = "staged", ![o].from = a,
                                               ![o].staging = [Empty EXCEPT !.whole = FALSE]]
    BY <1>5 DEF Stage
  <2> DEFINE s == [Empty EXCEPT !.whole = FALSE]
  <2>2. s \in Database /\ ~ s.mark
    BY DEF Empty, Database
  <2>3. op'[o] = [op[o] EXCEPT !.at = "staged", !.from = a, !.staging = s] /\ op' = [op EXCEPT ![o] = op'[o]]
    BY <2>1 DEF UpkeepTypes
  <2>4. a \in Dump
    BY DEF UpkeepTypes
  <2> HIDE DEF s
  <2>5. op'[o] \in Command /\ op'[o].at = "staged" /\ op'[o].staging = s /\ op'[o].from = a
        /\ op'[o].since = op[o].since
    BY <1>1, <2>2, <2>3, <2>4 DEF Command, Steps
  <2>6. Stands(op[o])'
    BY <1>2, <1>3, <2>2, <2>4, <2>5 DEF Stands, Staged
  <2>7. QED BY <1>1, <1>2, <1>4, <2>3, <2>5, <2>6, Moves DEF UpkeepTypes
<1>6. CASE LoadStaging(o)
  <2> DEFINE s == [op[o].staging EXCEPT !.data = op[o].from.data, !.whole = TRUE,
                                        !.schema = op[o].from.schema]
  <2>1. op[o].at = "staged" /\ op' = [op EXCEPT ![o].at = "loaded", ![o].staging = s]
    BY <1>6 DEF LoadStaging, At
  <2>2. op[o].staging \in Database /\ ~ op[o].staging.mark /\ op[o].from \in Dump
    BY <1>1, <2>1 DEF Stands, Staged
  <2>3. s \in Database /\ ~ s.mark /\ s.whole
    BY <2>2 DEF Database, Dump
  <2>4. op'[o] = [op[o] EXCEPT !.at = "loaded", !.staging = s] /\ op' = [op EXCEPT ![o] = op'[o]]
    BY <2>1 DEF UpkeepTypes
  <2> HIDE DEF s
  <2>5. op'[o] \in Command /\ op'[o].at = "loaded" /\ op'[o].staging = s
        /\ op'[o].since = op[o].since
    BY <1>1, <2>3, <2>4 DEF Command, Steps
  <2>6. Stands(op[o])'
    BY <1>2, <1>3, <2>3, <2>5 DEF Stands, Staged
  <2>7. QED BY <1>1, <1>2, <1>4, <2>4, <2>5, <2>6, Moves DEF UpkeepTypes
<1>7. CASE Fit(o)
  <2> DEFINE s == [op[o].staging EXCEPT !.schema = release]
  <2>1. op[o].at = "loaded" /\ op' = [op EXCEPT ![o].at = "fit", ![o].staging = s]
    BY <1>7 DEF Fit, At
  <2>2. op[o].staging \in Database /\ ~ op[o].staging.mark /\ op[o].staging.whole
    BY <1>1, <2>1 DEF Stands, Staged
  <2>3. s \in Database /\ ~ s.mark /\ s.whole /\ s.schema = release
    BY <2>2 DEF Database, UpkeepTypes
  <2>4. op'[o] = [op[o] EXCEPT !.at = "fit", !.staging = s] /\ op' = [op EXCEPT ![o] = op'[o]]
    BY <2>1 DEF UpkeepTypes
  <2> HIDE DEF s
  <2>5. op'[o] \in Command /\ op'[o].at = "fit" /\ op'[o].staging = s
        /\ op'[o].since = op[o].since
    BY <1>1, <2>3, <2>4 DEF Command, Steps
  <2>6. Stands(op[o])'
    BY <1>2, <1>3, <2>3, <2>5 DEF Stands, Staged, Fitting
  <2>7. QED BY <1>1, <1>2, <1>4, <2>4, <2>5, <2>6, Moves DEF UpkeepTypes
<1>8. QED BY <1>5, <1>6, <1>7

(* The gate: the target is closed, and stays the one that is served.       *)
LEMMA Gating ==
    ASSUME UpkeepInv, NEW o \in Operators, Quiet(o) \/ Close(o) \/ Gate(o) \/ Adopt(o)
    PROVE  UpkeepInv'
<1> USE DEF UpkeepInv
<1>1. Past(o) /\ op[o] \in Command /\ Stands(op[o]) /\ \A q \in Operators \ {o} : ~ Past(q)
  <2>1. Past(o)
    BY DEF Quiet, Close, Gate, Adopt, At, Past
  <2>2. QED BY <2>1, Alone
<1>2. UNCHANGED <<archives, release, commits, client>>
  BY DEF Quiet, Close, Gate, Adopt
<1>3. target # Nil /\ target \in Database
  BY <1>1 DEF Quiet, Close, Gate, Adopt, At, Stands, UpkeepTypes
<1>4. op[o].at # "promoted" => Fitting(op[o])
  BY <1>1 DEF Quiet, Close, Gate, Adopt, At, Stands
<1>5. /\ target' # Nil /\ target' \in Database
      /\ target'.data = target.data /\ target'.whole = target.whole
  <2>1. target' \in {target, [target EXCEPT !.open = FALSE], [target EXCEPT !.open = TRUE],
                     [target EXCEPT !.mark = TRUE]}
    BY DEF Quiet, Close, Gate, Adopt
  <2>2. target' \in Database
    BY <1>3, <2>1, Rows
  <2>3. target'.data = target.data /\ target'.whole = target.whole
    BY <1>3, <2>1 DEF Database
  <2>4. QED BY <2>2, <2>3, Rows
<1>6. kept \subseteq kept' /\ kept' \subseteq Database /\ \A d \in kept' \ kept : ~ d.mark
  <2>1. kept' \in {kept, kept \cup Left(o)}
    BY DEF Quiet, Close, Gate, Adopt
  <2>2. QED BY <2>1, LeftRows DEF UpkeepTypes
<1>7. Preserved'
  BY <1>2, <1>3, <1>5, <1>6, Holds
<1>8. CASE op' = [op EXCEPT ![o] = NoCommand]
  BY <1>1, <1>2, <1>5, <1>6, <1>7, <1>8, Ends DEF UpkeepTypes
<1>9. ASSUME NEW s \in {"save", "closed", "gated"}, s = "save" => op[o].at = "fit", op[o].at # "promoted",
             op' = [op EXCEPT ![o].at = s]
      PROVE  UpkeepInv'
  <2>1. op'[o] = [op[o] EXCEPT !.at = s] /\ op' = [op EXCEPT ![o] = op'[o]]
    BY <1>9 DEF UpkeepTypes
  <2>2. op'[o] \in Command /\ op'[o].at = s /\ op'[o].staging = op[o].staging
        /\ op'[o].since = op[o].since
    BY <1>1, <2>1 DEF Command, Steps
  <2>3. Fitting(op[o])'
    BY <1>2, <1>4, <1>9, <2>2 DEF Fitting, Staged
  <2>4. s = "save" => op'[o].since \subseteq target'.data
    BY <1>1, <1>5, <1>9, <2>2 DEF Stands
  <2>5. Stands(op[o])'
    BY <1>1, <1>5, <2>2, <2>3, <2>4, Resting DEF Stands
  <2>6. QED BY <1>1, <1>2, <1>5, <1>6, <1>7, <2>1, <2>2, <2>5, Moves DEF UpkeepTypes
<1>10. CASE Quiet(o)
  <2>1. op[o].at = "fit" /\ op' = [op EXCEPT ![o].at = "save"]
    BY <1>10 DEF Quiet, At, To
  <2>2. QED BY <1>9, <2>1
<1>11. CASE Close(o)
  <2>1. op[o].at = "saved" /\ op' = [op EXCEPT ![o].at = "closed"]
    BY <1>11 DEF Close, At, To
  <2>2. QED BY <1>9, <2>1
<1>12. CASE Gate(o)
  <2>1. op[o].at = "closed"
        /\ (op' = [op EXCEPT ![o].at = "gated"] \/ op' = [op EXCEPT ![o] = NoCommand])
    BY <1>12 DEF Gate, At, To, End
  <2>2. CASE op' = [op EXCEPT ![o].at = "gated"]
    BY <1>9, <2>1, <2>2
  <2>3. QED BY <1>8, <2>1, <2>2
<1>13. CASE Adopt(o)
  BY <1>8, <1>13 DEF Adopt, End
<1>14. QED BY <1>10, <1>11, <1>12, <1>13

(* The exchange: between the two names nobody finds a database.            *)
LEMMA Exchanging ==
    ASSUME UpkeepInv, NEW o \in Operators, Retain(o) \/ Promote(o)
    PROVE  UpkeepInv'
<1> USE DEF UpkeepInv
<1>1. Past(o) /\ op[o] \in Command /\ Stands(op[o]) /\ \A q \in Operators \ {o} : ~ Past(q)
  <2>1. Past(o)
    BY DEF Retain, Promote, At, Past
  <2>2. QED BY <2>1, Alone
<1>2. UNCHANGED <<archives, release, commits, client>>
  BY DEF Retain, Promote
<1>3. Fitting(op[o])
  BY <1>1 DEF Retain, Promote, At, Stands
<1>4. CASE Retain(o)
  <2>1. op[o].at = "gated" /\ op' = [op EXCEPT ![o].at = "moved"] /\ target' = Nil
        /\ kept' = kept \cup {target} /\ ~ client
    BY <1>4 DEF Retain, At, To
  <2>2. target # Nil /\ target \in Database
    BY <1>1, <2>1 DEF Stands, UpkeepTypes
  <2>3. op'[o] = [op[o] EXCEPT !.at = "moved"] /\ op' = [op EXCEPT ![o] = op'[o]]
    BY <2>1 DEF UpkeepTypes
  <2>4. op'[o] \in Command /\ op'[o].at = "moved" /\ op'[o].staging = op[o].staging
    BY <1>1, <2>3 DEF Command, Steps
  <2>5. Fitting(op[o])'
    BY <1>2, <1>3, <2>4 DEF Fitting, Staged
  <2>6. Stands(op[o])'
    BY <1>1, <2>4, <2>5, Resting DEF Stands
  <2>7. Preserved'
    BY <1>2, <2>1, <2>2 DEF Preserved
  <2>8. QED BY <1>1, <1>2, <2>1, <2>2, <2>3, <2>4, <2>6, <2>7, Moves DEF UpkeepTypes
<1>5. CASE Promote(o)
  <2>1. op' = [op EXCEPT ![o].at = "promoted", ![o].staging = Nil] /\ target = Nil
        /\ target' = op[o].staging /\ kept' = kept
    BY <1>5 DEF Promote
  <2>2. target' \in Database /\ target' # Nil /\ target'.whole
    BY <1>3, <2>1, Rows DEF Fitting, Staged
  <2>3. op'[o] = [op[o] EXCEPT !.at = "promoted", !.staging = Nil] /\ op' = [op EXCEPT ![o] = op'[o]]
    BY <2>1 DEF UpkeepTypes
  <2>4. op'[o] \in Command /\ op'[o].at = "promoted" /\ op'[o].staging = Nil
    BY <1>1, <2>3 DEF Command, Steps
  <2>5. Stands(op[o])'
    BY <2>2, <2>4 DEF Stands
  <2>6. Preserved'
    BY <1>2, <2>1, <2>2 DEF Preserved
  <2>7. QED BY <1>1, <1>2, <2>1, <2>2, <2>3, <2>4, <2>5, <2>6, Moves DEF UpkeepTypes
<1>6. QED BY <1>4, <1>5

(* Whoever is not a command: by hand, and the application.                 *)
LEMMA Around ==
    ASSUME UpkeepInv,
           RemoveLock \/ Recover \/ NewRelease \/ Connect \/ WriteSomething \/ Disconnect
    PROVE  UpkeepInv'
<1> USE DEF UpkeepInv
<1>1. op' = op /\ archives' = archives
  BY DEF RemoveLock, Recover, NewRelease, Connect, WriteSomething, Disconnect
<1>2. CASE RemoveLock \/ Connect \/ Disconnect
  <2>1. UNCHANGED <<target, kept, archives, release, commits, op>> /\ (client' => target # Nil)
    BY <1>2 DEF RemoveLock, Connect, Disconnect, Usable, Preserved
  <2>2. Preserved'
    BY <2>1 DEF Preserved
  <2>3. Commands'
    BY <2>1 DEF Commands, Past, Stands, Fitting, Staged
  <2>4. QED BY <2>1, <2>2, <2>3 DEF UpkeepTypes
<1>3. CASE Recover \/ NewRelease
  <2>1. \A o \in Operators : op[o] = NoCommand
    BY <1>3 DEF Recover, NewRelease, Alive
  <2>2. Commands'
    BY <1>1, <2>1, Resting DEF Commands, Past, Stands
  <2>3. CASE NewRelease
    BY <1>1, <2>2, <2>3 DEF NewRelease, UpkeepTypes, Preserved
  <2>4. CASE Recover
    <3>1. UNCHANGED <<archives, release, commits, client, op>>
      BY <2>4 DEF Recover
    <3>2. ASSUME target = Nil, NEW d \in kept, d.mark, target' = [d EXCEPT !.open = TRUE], kept' = kept \ {d}
          PROVE  UpkeepInv'
      <4>1. d \in Database /\ d.whole
        BY <3>2 DEF UpkeepTypes, Preserved
      <4>2. target' \in Database /\ target' # Nil /\ target'.whole /\ target'.data = d.data
        BY <3>2, <4>1, Rows DEF Database
      <4>3. Preserved'
        BY <3>1, <3>2, <4>2 DEF Preserved
      <4>4. QED BY <2>2, <3>1, <3>2, <4>2, <4>3 DEF UpkeepTypes
    <3>3. CASE target # Nil /\ target' = [target EXCEPT !.open = TRUE, !.mark = TRUE] /\ kept' = kept
      <4>1. target' \in Database /\ target' # Nil /\ target'.whole = target.whole /\ target'.data = target.data
        BY <3>3, Rows DEF Database, UpkeepTypes
      <4>2. Preserved'
        BY <3>1, <3>3, <4>1, Holds
      <4>3. QED BY <2>2, <3>1, <3>3, <4>1, <4>2 DEF UpkeepTypes
    <3>4. QED BY <2>4, <3>2, <3>3 DEF Recover
  <2>5. QED BY <1>3, <2>3, <2>4
<1>4. CASE WriteSomething
  <2> DEFINE n == Cardinality(commits) + 1
  <2>1. n \in Nat
    BY FS_CardinalityType DEF UpkeepTypes
  <2>2. commits' = commits \cup {n} /\ target' = [target EXCEPT !.data = @ \cup {n}] /\ client
        /\ UNCHANGED <<kept, release, client>>
    BY <1>4 DEF WriteSomething
  <2> HIDE DEF n
  <2>3. IsFiniteSet(commits')
    BY <2>2, FS_AddElement DEF UpkeepTypes
  <2>4. target \in Database /\ target # Nil /\ target.whole
    BY <2>2 DEF UpkeepTypes, Preserved
  <2>5. target' = [data |-> target.data \cup {n}, schema |-> target.schema, whole |-> target.whole,
                   clean |-> target.clean, mark |-> target.mark, open |-> target.open]
    BY <2>2, <2>4 DEF Database
  <2>6. target' \in Database /\ target' # Nil
    <3>1. target.data \cup {n} \in SUBSET Nat
      BY <2>1, <2>4, Rows
    <3>2. target' \in Database
      BY <2>4, <2>5, <3>1, Rows DEF Database
    <3>3. QED BY <3>2, Rows
  <2>7. UpkeepTypes'
    BY <1>1, <2>1, <2>2, <2>3, <2>6 DEF UpkeepTypes
  <2>8. Preserved'
    BY <2>2, <2>4, <2>5, <2>6 DEF Preserved
  <2>9. ASSUME NEW o \in Operators PROVE Stands(op[o])'
    <3>1. op'[o] = op[o] /\ Stands(op[o]) /\ release' = release /\ archives' = archives
      BY <1>1, <2>2 DEF Commands
    <3>2. target # Nil /\ target' # Nil /\ target'.schema = target.schema /\ target.data \subseteq target'.data
      BY <2>4, <2>5, <2>6
    <3>3. Fitting(op[o])' <=> Fitting(op[o])
      BY <3>1 DEF Fitting, Staged
    <3>4. Staged(op[o])' <=> Staged(op[o])
      BY <3>1 DEF Staged
    <3>5. QED BY <3>1, <3>2, <3>3, <3>4 DEF Stands
  <2>10. Commands'
    BY <1>1, <2>9 DEF Commands, Past
  <2>11. QED BY <2>7, <2>8, <2>10
<1>5. QED BY <1>2, <1>3, <1>4

LEMMA UpkeepStart == UpkeepInit => UpkeepInv
<1> SUFFICES ASSUME UpkeepInit PROVE UpkeepInv
  OBVIOUS
<1>1. UpkeepTypes
  BY FS_EmptySet DEF UpkeepInit, UpkeepTypes
<1>2. Commands
  BY Resting DEF UpkeepInit, Commands, Past
<1>3. Preserved
  BY DEF UpkeepInit, Preserved
<1>4. QED BY <1>1, <1>2, <1>3 DEF UpkeepInv

LEMMA UpkeepStep == UpkeepInv /\ UpkeepNext => UpkeepInv'
<1> SUFFICES ASSUME UpkeepInv, UpkeepNext PROVE UpkeepInv'
  OBVIOUS
<1>1. CASE RemoveLock \/ Recover \/ NewRelease \/ Connect \/ WriteSomething \/ Disconnect
  BY <1>1, Around
<1>2. ASSUME NEW o \in Operators,
             \/ Begin(o) \/ ClusterLock(o) \/ Create(o) \/ Comment(o) \/ Recognise(o)
             \/ Provisioned(o) \/ PlanMigration(o) \/ Snapshot(o) \/ Archive(o) \/ Migrate(o)
             \/ Stage(o) \/ LoadStaging(o) \/ Fit(o) \/ Quiet(o) \/ Close(o) \/ Gate(o)
             \/ Retain(o) \/ Promote(o) \/ Adopt(o) \/ Stop(o) \/ Kill(o)
      PROVE  UpkeepInv'
  BY <1>2, Outside, Opening, Migrating, Restoring, Gating, Exchanging
<1>3. QED BY <1>1, <1>2 DEF UpkeepNext

LEMMA UpkeepRests ==
    (part = "upkeep" => UpkeepInv) /\ [OfficeNext]_office => (part = "upkeep" => UpkeepInv)'
<1> SUFFICES ASSUME part = "upkeep" => UpkeepInv, [OfficeNext]_office, part' = "upkeep"
             PROVE  UpkeepInv'
  OBVIOUS
<1>1. part = "upkeep" /\ UpkeepInv
  BY DEF OfficeNext, office
<1>2. CASE UpkeepNext
  BY <1>1, <1>2, UpkeepStep
<1>3. CASE UNCHANGED upkeep
  BY <1>1, <1>3 DEF upkeep, UpkeepInv, UpkeepTypes, Commands, Past, Stands, Fitting, Staged, Preserved
<1>4. QED BY <1>1, <1>2, <1>3 DEF OfficeNext, office

LEMMA SchemaStays ==
    ASSUME NEW d \in Database
    PROVE  /\ [d EXCEPT !.mark = TRUE].schema = d.schema /\ [d EXCEPT !.open = TRUE].schema = d.schema
           /\ [d EXCEPT !.open = FALSE].schema = d.schema
           /\ [d EXCEPT !.open = TRUE, !.mark = TRUE].schema = d.schema
           /\ [d EXCEPT !.open = TRUE].mark = d.mark
  BY DEF Database

(* The name is given to a new database, to a restored one or to the one    *)
(* kept under another name; only migrate changes a schema.                 *)
LEMMA UpkeepGuards == UpkeepInv /\ UpkeepNext => Guards
<1> SUFFICES ASSUME UpkeepInv, UpkeepNext PROVE Guards
  OBVIOUS
<1> USE DEF UpkeepInv
<1>1. CASE target' = target \/ target' = Nil
  BY <1>1, EmptyRow, Rows DEF Guards
<1>2. CASE /\ target # Nil
           /\ \/ target' \in {[target EXCEPT !.mark = TRUE], [target EXCEPT !.open = TRUE],
                              [target EXCEPT !.open = FALSE], [target EXCEPT !.open = TRUE, !.mark = TRUE]}
              \/ \E x : target' = [target EXCEPT !.data = x]
  <2>1. target \in Database
    BY <1>2 DEF UpkeepTypes
  <2>2. target'.schema = target.schema
    <3>1. CASE \E x : target' = [target EXCEPT !.data = x]
      <4>1. PICK x : target' = [target EXCEPT !.data = x]
        BY <3>1
      <4>2. QED BY <2>1, <4>1 DEF Database
    <3>2. CASE target' \in {[target EXCEPT !.mark = TRUE], [target EXCEPT !.open = TRUE],
                            [target EXCEPT !.open = FALSE], [target EXCEPT !.open = TRUE, !.mark = TRUE]}
      BY <2>1, <3>2, SchemaStays
    <3>3. QED BY <1>2, <3>1, <3>2
  <2>3. QED BY <1>2, <2>2 DEF Guards
<1>3. ASSUME NEW o \in Operators, Create(o) PROVE Guards
  BY <1>3 DEF Create, MayCreate, Preserved, Guards
<1>4. ASSUME NEW o \in Operators, Promote(o) PROVE Guards
  <2>1. Past(o)
    BY <1>4 DEF Promote, At, Past
  <2>2. op[o].staging.schema = release
    BY <1>4, <2>1, Alone DEF Promote, At, Stands, Fitting
  <2>3. target = Nil /\ target'.schema # 0
    BY <1>4, <2>2 DEF Promote, UpkeepTypes
  <2>4. QED BY <2>3, EmptyRow DEF Guards
<1>5. CASE Recover
  <2>1. CASE target = Nil
    <3>1. PICK d \in kept : d.mark /\ target' = [d EXCEPT !.open = TRUE]
      BY <1>5, <2>1 DEF Recover
    <3>2. d \in Database
      BY DEF UpkeepTypes
    <3>3. target'.mark
      BY <3>1, <3>2, SchemaStays
    <3>4. QED BY <2>1, <3>3, EmptyRow DEF Guards
  <2>2. CASE target # Nil
    BY <1>2, <1>5, <2>2 DEF Recover
  <2>3. QED BY <2>1, <2>2
<1>6. ASSUME NEW o \in Operators, Migrate(o) PROVE Guards
  <2>1. op[o].at = "migrate" /\ target # Nil
    BY <1>6 DEF Migrate, At, Usable
  <2>2. Stands(op[o]) /\ target \in Database
    BY <2>1 DEF Commands, UpkeepTypes
  <2>3. target'.schema = release
    BY <1>6, <2>2 DEF Migrate, Database
  <2>4. CASE target.schema = release
    BY <2>1, <2>3, <2>4 DEF Guards
  <2>5. CASE \E a \in archives : op[o].since \subseteq a.data /\ a.schema = target.schema
    BY <2>1, <2>5 DEF Guards
  <2>6. QED BY <2>1, <2>2, <2>4, <2>5 DEF Stands
<1>7. ASSUME NEW o \in Operators, Comment(o) \/ Close(o) \/ Gate(o) \/ Adopt(o) PROVE Guards
  <2>1. Past(o)
    BY <1>7 DEF Comment, Close, Gate, Adopt, At, Past
  <2>2. target # Nil
    BY <1>7, <2>1, Alone DEF Comment, Close, Gate, Adopt, At, Stands
  <2>3. QED BY <1>1, <1>2, <1>7, <2>2 DEF Comment, Close, Gate, Adopt
<1>8. CASE WriteSomething
  <2>1. target # Nil
    BY <1>8 DEF WriteSomething, Preserved
  <2>2. \E x : target' = [target EXCEPT !.data = x]
    BY <1>8 DEF WriteSomething
  <2>3. QED BY <1>2, <2>1, <2>2
<1>9. CASE RemoveLock \/ NewRelease \/ Connect \/ Disconnect
  BY <1>1, <1>9 DEF RemoveLock, NewRelease, Connect, Disconnect
<1>10. ASSUME NEW o \in Operators,
              \/ Begin(o) \/ ClusterLock(o) \/ Recognise(o) \/ Provisioned(o) \/ PlanMigration(o)
              \/ Snapshot(o) \/ Archive(o) \/ Stage(o) \/ LoadStaging(o) \/ Fit(o) \/ Quiet(o)
              \/ Retain(o) \/ Stop(o) \/ Kill(o)
       PROVE  Guards
  BY <1>1, <1>10 DEF Begin, ClusterLock, Recognise, Provisioned, PlanMigration, Snapshot, Archive,
     Stage, LoadStaging, Fit, Quiet, Retain, Stop, Kill
<1>11. QED BY <1>3, <1>4, <1>5, <1>6, <1>7, <1>8, <1>9, <1>10 DEF UpkeepNext

(* A command that stops, or is killed, after any of its steps leaves the   *)
(* application a whole database or none, and all that was ever committed   *)
(* in a database that is still there; whatever the number of commands.     *)
THEOREM NothingIsLost == OfficeSpec => []Recoverable
<1> DEFINE I == part = "upkeep" => UpkeepInv
<1>1. OfficeInit => I
  BY UpkeepStart DEF OfficeInit
<1>2. I /\ [OfficeNext]_office => I'
  BY UpkeepRests
<1>3. I => Recoverable
  <2> SUFFICES ASSUME UpkeepTypes, Preserved PROVE NothingLost
    BY DEF Recoverable, UpkeepInv
  <2>1. ASSUME NEW n \in commits
        PROVE  \E d \in kept \cup (IF target = Nil THEN {} ELSE {target}) : n \in d.data
    BY DEF Preserved
  <2>2. QED BY <2>1 DEF NothingLost, Preserved
<1>4. QED BY <1>1, <1>2, <1>3, PTL DEF OfficeSpec

(* A fresh database takes the name only while nothing was ever committed,  *)
(* and a schema changes in place only behind a backup of all the database  *)
(* held when the command began.                                            *)
THEOREM BackedUpFirst == OfficeSpec => Guarded
<1> DEFINE I == part = "upkeep" => UpkeepInv
           A == part = "upkeep" => Guards
<1>1. OfficeInit => I
  BY UpkeepStart DEF OfficeInit
<1>2. I /\ [OfficeNext]_office => I'
  BY UpkeepRests
<1>3. I /\ [OfficeNext]_office => [A]_office
  <2> SUFFICES ASSUME I, OfficeNext, part = "upkeep" PROVE Guards
    BY DEF office
  <2>1. QED BY UpkeepGuards DEF OfficeNext
<1>4. QED BY <1>1, <1>2, <1>3, PTL DEF OfficeSpec, Guarded

-----------------------------------------------------------------------------
(***************************************************************************)
(* Previews.  What a worker has made of the lines it read is a function of *)
(* those lines; the panel waits with what it asked for on the form; every  *)
(* worker that reads is counted.                                           *)
(***************************************************************************)
Choice ==
    [book : Books \cup {Nil}, week : Weeks \cup {Nil}, header : {1} \cup 1..MaxHeader,
     sheet : Sheets \cup {Nil}, mapping : Mappings \cup {Nil}]
ReaderRow ==
    [phase : {"reading", "read", "refused"}, inspect : BOOLEAN, fields : Mapped, lines : Seq(Line),
     seen : SUBSET Crew, rows : SUBSET (Nat \X Crew), errors : SUBSET Nat]
DraftRow == [shows : Choice, replaces : BOOLEAN, sound : BOOLEAN]

PreviewTypes ==
    /\ reader \in [Uploads -> {NoReader} \cup ReaderRow]
    /\ chosen \in Choice /\ sent \in [by : Uploads \cup {Nil}, with : Choice]
    /\ draft \in DraftRow \cup {Nil} /\ confirmed \in BOOLEAN

(* Lines with something in them, the driver of one, and what is wrong.     *)
Entered(r)   == {i \in DOMAIN r.lines : ~ Blank(r.lines[i])}
Who(r, i)    == NamedBy(r.fields, r.lines[i])
Faulty(r, i) == \/ r.lines[i].rest = "wrong" \/ Who(r, i) = {}
                \/ \E j \in Entered(r) : j < i /\ Who(r, j) = Who(r, i)

AsRead(r) ==
    /\ r.seen = UNION {Who(r, i) : i \in Entered(r)}
    /\ r.errors = {i \in Entered(r) : Faulty(r, i)}
    /\ r.rows = {x \in Entered(r) \X Crew : ~ Faulty(r, x[1]) /\ x[2] \in Who(r, x[1])}

LinesOK == \A u \in Uploads : reader[u] # NoReader => AsRead(reader[u])

(* What the form shows, but for file and week of a panel opened again.     *)
Shows(a, b) ==
    /\ a.book \in {Nil, b.book} /\ a.week \in {Nil, b.week}
    /\ a.header = b.header /\ a.sheet = b.sheet /\ a.mapping = b.mapping

FormOK ==
    /\ draft # Nil => Shows(chosen, draft.shows)
    /\ confirmed => draft # Nil /\ draft.replaces
    /\ Asking => draft = Nil /\ ~ confirmed /\ Shows(chosen, sent.with)

Reading   == {u \in Uploads : reader[u].phase = "reading"}
WorkersOK == IsFiniteSet(Reading) /\ active = Cardinality(Reading)

PreviewsInv == PreviewTypes /\ LinesOK /\ FormOK /\ WorkersOK

(* The only driver e-mail or transporter id lead to, held against both, is *)
(* the one each of them leads to.                                          *)
LEMMA IdentifiedIsNamed ==
    ASSUME NEW fields, NEW line
    PROVE  Identified(Cell(fields, line, "email"), Cell(fields, line, "transporterId")) = NamedBy(fields, line)
<1> DEFINE email == Cell(fields, line, "email")
           id    == Cell(fields, line, "transporterId")
           A == {e \in Crew : address[e] = email}
           C == {e \in Crew : code[e] = id}
           matches == {d \in Crew : email # Nil /\ address[d] = email}
                      \cup {d \in Crew : id # Nil /\ code[d] = id}
           named == {d \in Crew : (email # Nil \/ id # Nil) /\ (email # Nil => A = {d})
                                /\ (id # Nil => C = {d})}
           found == {d \in matches : (email # Nil => address[d] = email) /\ (id # Nil => code[d] = id)}
<1>1. NamedBy(fields, line) = named
  BY DEF NamedBy
<1>2. Identified(email, id) = IF Cardinality(matches) = 1 THEN found ELSE {}
  BY DEF Identified
<1> HIDE DEF email, id
<1>3. IsFiniteSet(matches)
  <2>1. matches \subseteq Crew
    OBVIOUS
  <2>2. QED BY <2>1, PreviewsAssumption, FS_Subset
<1>4. Cardinality(matches) = 1 <=> \E d : matches = {d}
  <2> HIDE DEF matches
  <2>1. IsFiniteSet(matches) /\ Cardinality(matches) = 1 <=> \E d : matches = {d}
    BY FS_Singleton
  <2>2. QED BY <1>3, <2>1
<1>5. ASSUME NEW d, matches = {d} PROVE found = named
  <2>1. d \in Crew /\ (email # Nil \/ id # Nil)
    BY <1>5
  <2>2. (email # Nil => A \subseteq {d}) /\ (id # Nil => C \subseteq {d})
    BY <1>5
  <2>3. \A x : x \in found => x \in named
    <3> SUFFICES ASSUME NEW x \in found PROVE x \in named
      OBVIOUS
    <3>1. x = d /\ (email # Nil => d \in A) /\ (id # Nil => d \in C)
      BY <1>5, <2>1
    <3>2. (email # Nil => A = {d}) /\ (id # Nil => C = {d})
      BY <2>2, <3>1
    <3>3. QED BY <2>1, <3>1, <3>2
  <2>4. \A x : x \in named => x \in found
    <3> SUFFICES ASSUME NEW x \in named PROVE x \in found
      OBVIOUS
    <3>1. (email # Nil => x \in A) /\ (id # Nil => x \in C) /\ x \in Crew
      OBVIOUS
    <3>2. QED BY <2>1, <3>1
  <2>5. QED BY <2>3, <2>4
<1>6. ASSUME ~ \E d : matches = {d} PROVE named = {}
  <2> SUFFICES ASSUME NEW d \in named PROVE FALSE
    OBVIOUS
  <2>1. d \in Crew /\ (email # Nil => A = {d}) /\ (id # Nil => C = {d}) /\ (email # Nil \/ id # Nil)
    OBVIOUS
  <2>2. matches = {d}
    BY <2>1
  <2>3. QED BY <1>6, <2>2
<1> HIDE DEF matches, named, found
<1>7. CASE \E d : matches = {d}
  BY <1>1, <1>2, <1>4, <1>5, <1>7 DEF email, id
<1>8. CASE ~ \E d : matches = {d}
  BY <1>1, <1>2, <1>4, <1>6, <1>8 DEF email, id
<1>9. QED BY <1>7, <1>8

(* Nobody, or one.                                                         *)
LEMMA NamedAlone ==
    ASSUME NEW fields, NEW line
    PROVE  /\ NamedBy(fields, line) \subseteq Crew
           /\ \A d, e \in NamedBy(fields, line) : d = e
<1>1. NamedBy(fields, line) \subseteq Crew
  BY DEF NamedBy
<1>2. ASSUME NEW d \in NamedBy(fields, line), NEW e \in NamedBy(fields, line) PROVE d = e
  BY <1>2 DEF NamedBy
<1>3. QED BY <1>1, <1>2

LEMMA ReaderFields ==
    ASSUME NEW r \in ReaderRow
    PROVE  /\ r.lines \in Seq(Line) /\ r.seen \subseteq Crew /\ r.rows \subseteq Nat \X Crew
           /\ r.errors \subseteq Nat /\ r.fields \in Mapped /\ r # NoReader
<1>1. r.lines \in Seq(Line) /\ r.seen \subseteq Crew /\ r.rows \subseteq Nat \X Crew
      /\ r.errors \subseteq Nat /\ r.fields \in Mapped /\ r.phase # "free"
  BY DEF ReaderRow
<1>2. NoReader.phase = "free"
  BY DEF NoReader
<1>3. QED BY <1>1, <1>2

(* One more line leaves what was made of the others.                       *)
LEMMA OneMoreLine ==
    ASSUME NEW r \in ReaderRow, NEW s \in ReaderRow, NEW line \in Line,
           s.fields = r.fields, s.lines = Append(r.lines, line)
    PROVE  LET n == Len(r.lines) + 1 IN
           /\ n \in Nat /\ n \notin Entered(r) /\ s.lines[n] = line
           /\ Entered(s) = Entered(r) \cup (IF Blank(line) THEN {} ELSE {n})
           /\ Entered(r) \subseteq 1..(n - 1)
           /\ \A i \in Entered(r) : Who(s, i) = Who(r, i) /\ (Faulty(s, i) <=> Faulty(r, i))
           /\ Who(s, n) = NamedBy(r.fields, line)
           /\ Faulty(s, n) <=> \/ line.rest = "wrong" \/ Who(s, n) = {}
                               \/ \E j \in Entered(r) : Who(r, j) = Who(s, n)
<1> DEFINE n == Len(r.lines) + 1
<1>1. r.lines \in Seq(Line)
  BY ReaderFields
<1>2. /\ n \in Nat /\ DOMAIN r.lines = 1..(n - 1) /\ DOMAIN s.lines = 1..n /\ s.lines[n] = line
      /\ \A i \in 1..(n - 1) : s.lines[i] = r.lines[i]
  BY <1>1
<1> HIDE DEF n
<1>3. Entered(r) \subseteq 1..(n - 1)
  BY <1>2 DEF Entered
<1>4. n \notin Entered(r)
  BY <1>2, <1>3
<1>5. Entered(s) = Entered(r) \cup (IF Blank(line) THEN {} ELSE {n})
  <2>1. \A i : i \in Entered(s) <=> (i \in 1..n /\ ~ Blank(s.lines[i]))
    BY <1>2 DEF Entered
  <2>2. \A i : i \in Entered(r) <=> (i \in 1..(n - 1) /\ ~ Blank(r.lines[i]))
    BY <1>2 DEF Entered
  <2>3. \A i : i \in 1..n <=> (i \in 1..(n - 1) \/ i = n)
    BY <1>2
  <2>4. QED BY <1>2, <2>1, <2>2, <2>3
<1>6. \A i \in Entered(r) : Who(s, i) = Who(r, i)
  BY <1>2, <1>3 DEF Who
<1>7. Who(s, n) = NamedBy(r.fields, line)
  BY <1>2 DEF Who
<1>8. ASSUME NEW i \in Entered(r) PROVE Faulty(s, i) <=> Faulty(r, i)
  <2>1. s.lines[i] = r.lines[i] /\ i \in 1..(n - 1)
    BY <1>2, <1>3
  <2>2. \A j : j \in Entered(s) /\ j < i => j \in Entered(r)
    BY <1>2, <1>5, <2>1
  <2>3. \A j : j \in Entered(r) => j \in Entered(s)
    BY <1>5
  <2>4. QED BY <1>6, <2>1, <2>2, <2>3 DEF Faulty
<1>9. Faulty(s, n) <=> \/ line.rest = "wrong" \/ Who(s, n) = {}
                     \/ \E j \in Entered(r) : Who(r, j) = Who(s, n)
  <2>1. \A j : j \in Entered(s) /\ j < n <=> j \in Entered(r)
    BY <1>2, <1>3, <1>5
  <2>2. (\E j \in Entered(s) : j < n /\ Who(s, j) = Who(s, n)) <=> \E j \in Entered(r) : Who(r, j) = Who(s, n)
    BY <1>6, <2>1
  <2>3. QED BY <1>2, <2>2 DEF Faulty
<1>10. QED BY <1>2, <1>3, <1>4, <1>5, <1>6, <1>7, <1>8, <1>9 DEF n

LEMMA LineRead ==
    ASSUME NEW r \in ReaderRow, AsRead(r), NEW line \in Line
    PROVE  /\ AfterLine(r, line) \in ReaderRow /\ AfterLine(r, line).phase = r.phase
           /\ AsRead(AfterLine(r, line))
<1> DEFINE driver == NamedBy(r.fields, line)
           next == [r EXCEPT !.lines = Append(@, line)]
           n    == Len(r.lines) + 1
           s    == AfterLine(r, line)
           full == [next EXCEPT !.seen = @ \cup driver, !.rows = @ \cup {<<n, d>> : d \in driver}]
           bad  == [next EXCEPT !.seen = @ \cup driver, !.errors = @ \cup {n}]
           same == [next EXCEPT !.errors = @ \cup {n}]
<1>1. /\ r.lines \in Seq(Line) /\ r.seen \subseteq Crew /\ r.rows \subseteq Nat \X Crew
      /\ r.errors \subseteq Nat
  BY ReaderFields
<1>2. driver \subseteq Crew /\ n \in Nat /\ Append(r.lines, line) \in Seq(Line)
  BY <1>1, NamedAlone
<1>3. Len(Append(r.lines, line)) = n
  BY <1>1
<1>4. {<<n, d>> : d \in driver} \subseteq Nat \X Crew
  BY <1>2
<1> HIDE DEF driver, n
<1>5. /\ next \in ReaderRow /\ next.phase = r.phase /\ next.fields = r.fields /\ next.seen = r.seen
      /\ next.lines = Append(r.lines, line) /\ next.rows = r.rows /\ next.errors = r.errors
  BY <1>2 DEF ReaderRow
<1> HIDE DEF next
<1>6. /\ same \in ReaderRow /\ same.phase = r.phase /\ same.fields = r.fields /\ same.seen = r.seen
      /\ same.lines = Append(r.lines, line) /\ same.rows = r.rows /\ same.errors = r.errors \cup {n}
  BY <1>2, <1>5 DEF ReaderRow
<1>7. /\ bad \in ReaderRow /\ bad.phase = r.phase /\ bad.fields = r.fields /\ bad.seen = r.seen \cup driver
      /\ bad.lines = Append(r.lines, line) /\ bad.rows = r.rows /\ bad.errors = r.errors \cup {n}
  BY <1>2, <1>5 DEF ReaderRow
<1>8. /\ full \in ReaderRow /\ full.phase = r.phase /\ full.fields = r.fields
      /\ full.seen = r.seen \cup driver /\ full.lines = Append(r.lines, line)
      /\ full.rows = r.rows \cup {<<n, d>> : d \in driver} /\ full.errors = r.errors
  BY <1>2, <1>4, <1>5 DEF ReaderRow
<1> HIDE DEF same, bad, full
<1>9. /\ Blank(line) => s = next
      /\ ~ Blank(line) /\ driver \subseteq r.seen => s = same
      /\ ~ Blank(line) /\ ~ driver \subseteq r.seen /\ line.rest = "wrong" => s = bad
      /\ ~ Blank(line) /\ ~ driver \subseteq r.seen /\ line.rest # "wrong" => s = full
  <2>1. Identified(Cell(r.fields, line, "email"), Cell(r.fields, line, "transporterId")) = driver
    BY IdentifiedIsNamed DEF driver
  <2>2. Len(next.lines) = n
    BY <1>3, <1>5
  <2>3. AfterLine(r, line) =
          CASE Blank(line) -> next
            [] ~ Blank(line) /\ driver \subseteq r.seen -> [next EXCEPT !.errors = @ \cup {Len(next.lines)}]
            [] OTHER -> IF line.rest = "wrong"
                        THEN [next EXCEPT !.seen = @ \cup driver, !.errors = @ \cup {Len(next.lines)}]
                        ELSE [next EXCEPT !.seen = @ \cup driver,
                                          !.rows = @ \cup {<<Len(next.lines), d>> : d \in driver}]
    BY <2>1 DEF AfterLine, next
  <2>4. AfterLine(r, line) =
          CASE Blank(line) -> next
            [] ~ Blank(line) /\ driver \subseteq r.seen -> same
            [] OTHER -> IF line.rest = "wrong" THEN bad ELSE full
    BY <2>2, <2>3 DEF same, bad, full
  <2>5. QED BY <2>4
<1> HIDE DEF s
<1>10. s \in ReaderRow /\ s.phase = r.phase /\ s.fields = r.fields /\ s.lines = Append(r.lines, line)
  BY <1>5, <1>6, <1>7, <1>8, <1>9
<1>11. /\ n \notin Entered(r) /\ s.lines[n] = line
       /\ Entered(s) = Entered(r) \cup (IF Blank(line) THEN {} ELSE {n})
       /\ \A i \in Entered(r) : Who(s, i) = Who(r, i) /\ (Faulty(s, i) <=> Faulty(r, i))
       /\ Who(s, n) = driver
       /\ Faulty(s, n) <=> \/ line.rest = "wrong" \/ Who(s, n) = {}
                           \/ \E j \in Entered(r) : Who(r, j) = Who(s, n)
  BY <1>10, OneMoreLine DEF n, driver
<1>12. driver \subseteq r.seen <=> driver = {} \/ \E j \in Entered(r) : Who(r, j) = driver
  <2>1. r.seen = UNION {Who(r, i) : i \in Entered(r)}
    BY DEF AsRead
  <2>2. ASSUME driver \subseteq r.seen, driver # {} PROVE \E j \in Entered(r) : Who(r, j) = driver
    <3>1. PICK d \in driver : \E j \in Entered(r) : d \in Who(r, j)
      BY <2>1, <2>2
    <3>2. PICK j \in Entered(r) : d \in Who(r, j)
      BY <3>1
    <3>3. Who(r, j) = driver
      <4>1. \A e \in driver : e = d
        BY <3>1, NamedAlone DEF driver
      <4>2. \A e \in Who(r, j) : e = d
        BY <3>2, NamedAlone DEF Who
      <4>3. QED BY <3>1, <3>2, <4>1, <4>2
    <3>4. QED BY <3>3
  <2>3. QED BY <2>1, <2>2
<1>13. AsRead(s)
  <2>1. CASE Blank(line)
    <3>1. s.seen = r.seen /\ s.rows = r.rows /\ s.errors = r.errors
      BY <1>5, <1>9, <2>1
    <3>2. Entered(s) = Entered(r)
      BY <1>11, <2>1
    <3>3. \A i \in Entered(s) : Who(s, i) = Who(r, i) /\ (Faulty(s, i) <=> Faulty(r, i))
      BY <1>11, <3>2
    <3>4. s.seen = UNION {Who(s, i) : i \in Entered(s)}
      BY <3>1, <3>2, <3>3 DEF AsRead
    <3>5. s.errors = {i \in Entered(s) : Faulty(s, i)}
      BY <3>1, <3>2, <3>3 DEF AsRead
    <3>6. s.rows = {x \in Entered(s) \X Crew : ~ Faulty(s, x[1]) /\ x[2] \in Who(s, x[1])}
      BY <3>1, <3>2, <3>3 DEF AsRead
    <3>7. QED BY <3>4, <3>5, <3>6 DEF AsRead
  <2>2. CASE ~ Blank(line)
    <3>1. Entered(s) = Entered(r) \cup {n}
      BY <1>11, <2>2
    <3>2. s.seen = r.seen \cup driver
      BY <1>6, <1>7, <1>8, <1>9, <2>2
    <3>3. s.seen = UNION {Who(s, i) : i \in Entered(s)}
      <4>1. r.seen = UNION {Who(r, i) : i \in Entered(r)}
        BY DEF AsRead
      <4>2. \A d : d \in r.seen <=> \E i \in Entered(r) : d \in Who(s, i)
        BY <1>11, <4>1
      <4>3. \A d : (\E i \in Entered(s) : d \in Who(s, i)) <=> (d \in r.seen \/ d \in driver)
        BY <1>11, <3>1, <4>2
      <4>4. QED BY <3>2, <4>3
    <3>4. Faulty(s, n) <=> line.rest = "wrong" \/ driver \subseteq r.seen
      BY <1>11, <1>12
    <3>5. r.errors = {i \in Entered(r) : Faulty(s, i)}
      BY <1>11 DEF AsRead
    <3>6. \A x \in Entered(r) \X Crew :
            x \in r.rows <=> (~ Faulty(s, x[1]) /\ x[2] \in Who(s, x[1]))
      BY <1>11 DEF AsRead
    <3>7. r.rows \subseteq Entered(r) \X Crew
      BY DEF AsRead
    <3>8. CASE Faulty(s, n)
      <4>1. s.errors = r.errors \cup {n} /\ s.rows = r.rows
        BY <1>6, <1>7, <1>9, <2>2, <3>4, <3>8
      <4>2. s.errors = {i \in Entered(s) : Faulty(s, i)}
        BY <3>1, <3>5, <3>8, <4>1
      <4>3. s.rows = {x \in Entered(s) \X Crew : ~ Faulty(s, x[1]) /\ x[2] \in Who(s, x[1])}
        BY <3>1, <3>6, <3>7, <3>8, <4>1
      <4>4. QED BY <3>3, <4>2, <4>3 DEF AsRead
    <3>9. CASE ~ Faulty(s, n)
      <4>1. s.errors = r.errors /\ s.rows = r.rows \cup {<<n, d>> : d \in driver}
        BY <1>8, <1>9, <2>2, <3>4, <3>9
      <4>2. s.errors = {i \in Entered(s) : Faulty(s, i)}
        BY <3>1, <3>5, <3>9, <4>1
      <4>3. s.rows = {x \in Entered(s) \X Crew : ~ Faulty(s, x[1]) /\ x[2] \in Who(s, x[1])}
        BY <1>2, <1>11, <3>1, <3>6, <3>7, <3>9, <4>1
      <4>4. QED BY <3>3, <4>2, <4>3 DEF AsRead
    <3>10. QED BY <3>8, <3>9
  <2>3. QED BY <2>1, <2>2
<1>14. QED BY <1>10, <1>13 DEF s

(* What drivers are named by does not change here.                         *)
LEMMA StillAsRead ==
    ASSUME UNCHANGED <<address, code>>, NEW u \in Uploads, AsRead(reader'[u])
    PROVE  AsRead(reader[u])'
  BY DEF AsRead, Entered, Faulty, Who, NamedBy

LEMMA LinesStay ==
    ASSUME UNCHANGED <<address, code>>, LinesOK,
           \A u \in Uploads : reader'[u] # NoReader => AsRead(reader'[u])
    PROVE  LinesOK'
<1>1. ASSUME NEW u \in Uploads, reader'[u] # NoReader PROVE AsRead(reader[u])'
  BY <1>1, StillAsRead
<1>2. QED BY <1>1 DEF LinesOK

LEMMA WorkersStay ==
    ASSUME WorkersOK, UNCHANGED active,
           \A u \in Uploads : reader'[u].phase = "reading" <=> reader[u].phase = "reading"
    PROVE  WorkersOK'
<1>1. Reading' = Reading
  BY DEF Reading
<1>2. QED BY <1>1 DEF WorkersOK

LEMMA NothingChosen == NoChoice \in Choice
  BY DEF NoChoice, Choice

LEMMA ReopenedFields ==
    ASSUME NEW c \in Choice
    PROVE  LET n == [c EXCEPT !.book = Nil, !.week = Nil] IN
           /\ n \in Choice /\ n.book = Nil /\ n.week = Nil
           /\ n.sheet = c.sheet /\ n.mapping = c.mapping /\ n.header = c.header
  BY DEF Choice

(* The panel waits for nothing, or for a change of what is published.      *)
LEMMA ChoosingStep ==
    ASSUME PreviewsInv, ChooseFile \/ ChooseWeek \/ ChooseHeader \/ ChooseSheet \/ ChooseMapping
    PROVE  PreviewsInv'
<1> USE DEF PreviewsInv
<1>1. chosen \in Choice /\ chosen.week \in Weeks \cup {Nil}
  <2>1. chosen \in Choice
    BY DEF PreviewTypes
  <2>2. QED BY <2>1 DEF Choice
<1>2. PICK choice \in Choice : Choose(choice)
  <2>1. CASE ChooseFile
    <3>1. PICK b \in Books : Choose([NoChoice EXCEPT !.book = b, !.week = chosen.week])
      BY <2>1 DEF ChooseFile
    <3>2. [NoChoice EXCEPT !.book = b, !.week = chosen.week] \in Choice
      BY <1>1, NothingChosen DEF Choice
    <3>3. QED BY <3>1, <3>2
  <2>2. CASE ChooseWeek
    <3>1. PICK w \in Weeks : Choose([chosen EXCEPT !.week = w])
      BY <2>2 DEF ChooseWeek
    <3>2. [chosen EXCEPT !.week = w] \in Choice
      BY <1>1, NothingChosen DEF Choice
    <3>3. QED BY <3>1, <3>2
  <2>3. CASE ChooseHeader
    <3>1. PICK n \in 1..MaxHeader : Choose([chosen EXCEPT !.header = n, !.mapping = Nil])
      BY <2>3 DEF ChooseHeader
    <3>2. [chosen EXCEPT !.header = n, !.mapping = Nil] \in Choice
      BY <1>1, NothingChosen DEF Choice
    <3>3. QED BY <3>1, <3>2
  <2>4. CASE ChooseSheet
    <3>1. PICK s \in Sheets : Choose([chosen EXCEPT !.sheet = s, !.mapping = Nil])
      BY <2>4 DEF ChooseSheet
    <3>2. [chosen EXCEPT !.sheet = s, !.mapping = Nil] \in Choice
      BY <1>1, NothingChosen DEF Choice
    <3>3. QED BY <3>1, <3>2
  <2>5. CASE ChooseMapping
    <3>1. PICK m \in Mappings : Choose([chosen EXCEPT !.mapping = m])
      BY <2>5 DEF ChooseMapping
    <3>2. [chosen EXCEPT !.mapping = m] \in Choice
      BY <1>1, NothingChosen DEF Choice
    <3>3. QED BY <3>1, <3>2
  <2>6. QED BY <2>1, <2>2, <2>3, <2>4, <2>5
<1>3. /\ busy = Nil /\ chosen' = choice /\ draft' = Nil /\ confirmed' = FALSE
      /\ UNCHANGED <<address, code, reader, active, busy, sent>>
  BY <1>2 DEF Choose, Idle, Invalidate
<1>4. PreviewTypes'
  BY <1>3 DEF PreviewTypes
<1>5. LinesOK'
  BY <1>3, LinesStay DEF LinesOK
<1>6. FormOK'
  BY <1>3, PreviewsAssumption DEF FormOK, Asking
<1>7. WorkersOK'
  BY <1>3, WorkersStay
<1>8. QED BY <1>4, <1>5, <1>6, <1>7

LEMMA WaitingStep ==
    ASSUME PreviewsInv,
           \/ Reopen \/ AskPreview("inspect") \/ AskPreview("preview") \/ HistoryLoads \/ Confirm
           \/ AskCommit \/ AskRevert \/ ChangeDone \/ ChangeFails
    PROVE  PreviewsInv'
<1> USE DEF PreviewsInv
<1>1. UNCHANGED <<address, code, reader, active>>
  BY DEF Reopen, AskPreview, HistoryLoads, Confirm, AskCommit, AskRevert, ChangeDone, ChangeFails
<1>2. LinesOK' /\ WorkersOK'
  BY <1>1, LinesStay, WorkersStay DEF LinesOK
<1>3. chosen \in Choice
  BY DEF PreviewTypes
<1>4. CASE Reopen
  <2>1. chosen' = [chosen EXCEPT !.book = Nil, !.week = Nil] /\ UNCHANGED <<draft, confirmed, busy, sent>>
    BY <1>4 DEF Reopen
  <2>2. /\ chosen' \in Choice /\ chosen'.book = Nil /\ chosen'.week = Nil
        /\ chosen'.sheet = chosen.sheet /\ chosen'.mapping = chosen.mapping /\ chosen'.header = chosen.header
    BY <1>3, <2>1, ReopenedFields
  <2>3. PreviewTypes'
    BY <1>1, <2>1, <2>2 DEF PreviewTypes
  <2>4. FormOK'
    BY <2>1, <2>2 DEF FormOK, Shows, Asking
  <2>5. QED BY <1>2, <2>3, <2>4
<1>5. CASE AskPreview("inspect") \/ AskPreview("preview")
  <2>1. /\ chosen' = chosen /\ draft' = Nil /\ confirmed' = FALSE
        /\ \E u \in Uploads : sent' = [by |-> u, with |-> chosen]
    BY <1>5 DEF AskPreview, Invalidate
  <2>2. sent' \in [by : Uploads \cup {Nil}, with : Choice] /\ sent'.with = chosen
    BY <1>3, <2>1
  <2>3. PreviewTypes'
    BY <1>1, <2>1, <2>2 DEF PreviewTypes
  <2>4. FormOK'
    BY <2>1, <2>2 DEF FormOK, Shows
  <2>5. QED BY <1>2, <2>3, <2>4
<1>6. CASE HistoryLoads \/ AskCommit \/ AskRevert \/ ChangeFails
  <2>1. UNCHANGED <<chosen, draft, confirmed, sent>> /\ busy' \in {Nil, "change"}
    BY <1>6 DEF HistoryLoads, AskCommit, AskRevert, ChangeFails
  <2>2. PreviewTypes'
    BY <1>1, <2>1 DEF PreviewTypes
  <2>3. FormOK'
    BY <2>1, PreviewsAssumption DEF FormOK, Shows, Asking
  <2>4. QED BY <1>2, <2>2, <2>3
<1>7. CASE Confirm
  <2>1. UNCHANGED <<chosen, draft, busy, sent>> /\ busy = Nil /\ draft # Nil /\ draft.replaces
        /\ confirmed' = ~ confirmed
    BY <1>7 DEF Confirm, Idle
  <2>2. PreviewTypes'
    BY <1>1, <2>1 DEF PreviewTypes
  <2>3. FormOK'
    BY <2>1, PreviewsAssumption DEF FormOK, Shows, Asking
  <2>4. QED BY <1>2, <2>2, <2>3
<1>8. CASE ChangeDone
  <2>1. UNCHANGED <<chosen, sent>> /\ draft' = Nil /\ confirmed' = FALSE /\ busy' = "history"
    BY <1>8 DEF ChangeDone, Invalidate
  <2>2. PreviewTypes'
    BY <1>1, <2>1 DEF PreviewTypes
  <2>3. FormOK'
    BY <2>1 DEF FormOK, Shows, Asking
  <2>4. QED BY <1>2, <2>2, <2>3
<1>9. QED BY <1>4, <1>5, <1>6, <1>7, <1>8

(* The panel has an answer, and drops the worker that gave it.             *)
LEMMA ToldStep ==
    ASSUME PreviewsInv, NEW next, Told(next), UNCHANGED <<address, code, active>>
    PROVE  /\ reader' \in [Uploads -> {NoReader} \cup ReaderRow] /\ LinesOK' /\ WorkersOK'
           /\ busy' = next /\ sent' \in [by : Uploads \cup {Nil}, with : Choice]
<1> USE DEF PreviewsInv
<1>1. \A u \in Uploads : /\ reader'[u] \in {reader[u], NoReader}
                         /\ reader[u].phase = "reading" => reader'[u] = reader[u]
  BY DEF Told
<1>2. reader' \in [Uploads -> {NoReader} \cup ReaderRow]
  <2>1. reader' = [u \in Uploads |-> reader'[u]]
    BY DEF Told
  <2>2. \A u \in Uploads : reader'[u] \in {NoReader} \cup ReaderRow
    BY <1>1 DEF PreviewTypes
  <2>3. QED BY <2>1, <2>2
<1>3. LinesOK'
  BY <1>1, LinesStay DEF LinesOK
<1>4. NoReader.phase = "free"
  BY DEF NoReader
<1>5. WorkersOK'
  <2>1. \A u \in Uploads : reader'[u].phase = "reading" <=> reader[u].phase = "reading"
    BY <1>1, <1>4
  <2>2. QED BY <2>1, WorkersStay
<1>6. NoUpload \in [by : Uploads \cup {Nil}, with : Choice]
  BY NothingChosen DEF NoUpload
<1>7. QED BY <1>2, <1>3, <1>5, <1>6 DEF Told

LEMMA AnswerStep ==
    ASSUME PreviewsInv, PreviewFails \/ ShowPreview
    PROVE  PreviewsInv'
<1> USE DEF PreviewsInv
<1>1. chosen \in Choice /\ sent \in [by : Uploads \cup {Nil}, with : Choice]
  BY DEF PreviewTypes
<1>2. CASE PreviewFails
  <2>1. Told(Nil) /\ UNCHANGED <<address, code, active, chosen, book, draft, confirmed>>
    BY <1>2 DEF PreviewFails
  <2>2. /\ reader' \in [Uploads -> {NoReader} \cup ReaderRow] /\ LinesOK' /\ WorkersOK'
        /\ busy' = Nil /\ sent' \in [by : Uploads \cup {Nil}, with : Choice]
    BY <2>1, ToldStep
  <2>3. PreviewTypes'
    BY <2>1, <2>2 DEF PreviewTypes
  <2>4. FormOK'
    BY <2>1, <2>2, PreviewsAssumption DEF FormOK, Shows, Asking
  <2>5. QED BY <2>2, <2>3, <2>4
<1>3. CASE ShowPreview
  <2> DEFINE r == reader[sent.by]
             shown(s, m) == [sent.with EXCEPT !.sheet = s, !.mapping = m]
  <2>1. PICK s \in Sheets \cup {Nil}, m \in Mappings \cup {Nil} :
          /\ chosen' = [chosen EXCEPT !.sheet = s, !.mapping = m]
          /\ \/ Told(Nil) /\ UNCHANGED draft
             \/ /\ Told("history")
                /\ \E replaces \in BOOLEAN :
                     draft' = [shows |-> shown(s, m), replaces |-> replaces,
                               sound |-> r.rows # {} /\ r.errors = {}]
    <3>1. sent.with.sheet \in Sheets \cup {Nil}
      BY <1>1 DEF Choice
    <3>2. QED BY <1>3, <3>1 DEF ShowPreview
  <2>2. Asking /\ UNCHANGED <<address, code, active, confirmed>>
    BY <1>3 DEF ShowPreview
  <2>3. /\ chosen' \in Choice /\ chosen'.sheet = s /\ chosen'.mapping = m
        /\ chosen'.book = chosen.book /\ chosen'.week = chosen.week /\ chosen'.header = chosen.header
    BY <1>1, <2>1 DEF Choice
  <2>4. /\ shown(s, m) \in Choice /\ shown(s, m).sheet = s /\ shown(s, m).mapping = m
        /\ shown(s, m).book = sent.with.book /\ shown(s, m).week = sent.with.week
        /\ shown(s, m).header = sent.with.header
    <3>1. sent.with \in Choice
      BY <1>1
    <3>2. QED BY <3>1 DEF Choice
  <2> HIDE DEF shown
  <2>5. draft = Nil /\ ~ confirmed /\ Shows(chosen, sent.with)
    BY <2>2 DEF FormOK
  <2>6. Shows(chosen', shown(s, m))
    BY <2>3, <2>4, <2>5 DEF Shows
  <2>7. CASE Told(Nil) /\ UNCHANGED draft
    <3>1. /\ reader' \in [Uploads -> {NoReader} \cup ReaderRow] /\ LinesOK' /\ WorkersOK'
          /\ busy' = Nil /\ sent' \in [by : Uploads \cup {Nil}, with : Choice]
      BY <2>2, <2>7, ToldStep
    <3>2. PreviewTypes'
      BY <2>2, <2>3, <2>7, <3>1 DEF PreviewTypes
    <3>3. FormOK'
      BY <2>2, <2>5, <2>7, <3>1, PreviewsAssumption DEF FormOK, Asking
    <3>4. QED BY <3>1, <3>2, <3>3
  <2>8. CASE /\ Told("history")
             /\ \E replaces \in BOOLEAN :
                  draft' = [shows |-> shown(s, m), replaces |-> replaces,
                            sound |-> r.rows # {} /\ r.errors = {}]
    <3>1. /\ reader' \in [Uploads -> {NoReader} \cup ReaderRow] /\ LinesOK' /\ WorkersOK'
          /\ busy' = "history" /\ sent' \in [by : Uploads \cup {Nil}, with : Choice]
      BY <2>2, <2>8, ToldStep
    <3>2. draft' \in DraftRow /\ draft'.shows = shown(s, m)
      BY <2>4, <2>8 DEF DraftRow
    <3>3. PreviewTypes'
      BY <2>2, <2>3, <3>1, <3>2 DEF PreviewTypes
    <3>4. FormOK'
      <4>1. Shows(chosen, draft.shows)'
        BY <2>6, <3>2 DEF Shows
      <4>2. ~ confirmed' /\ busy' = "history"
        BY <2>2, <2>5, <3>1
      <4>3. QED BY <4>1, <4>2 DEF FormOK, Asking
    <3>5. QED BY <3>1, <3>3, <3>4
  <2>9. QED BY <2>1, <2>7, <2>8
<1>4. QED BY <1>2, <1>3

(* A worker's own step leaves the panel alone.                             *)
LEMMA FormStays ==
    ASSUME FormOK, UNCHANGED <<chosen, draft, confirmed, busy, sent>>
    PROVE  FormOK'
  BY DEF FormOK, Shows, Asking

LEMMA UploadStep ==
    ASSUME PreviewsInv, NEW u \in Uploads, Upload(u)
    PROVE  PreviewsInv'
<1> USE DEF PreviewsInv
<1>1. PICK fields \in Mapped :
        reader' = [reader EXCEPT ![u] =
            [phase |-> "reading", inspect |-> sent.by = u /\ busy = "inspect",
             fields |-> fields, lines |-> <<>>, seen |-> {}, rows |-> {}, errors |-> {}]]
  BY DEF Upload
<1> DEFINE new == [phase |-> "reading", inspect |-> sent.by = u /\ busy = "inspect",
                   fields |-> fields, lines |-> <<>>, seen |-> {}, rows |-> {}, errors |-> {}]
<1>2. /\ reader[u] = NoReader /\ active' = active + 1
      /\ UNCHANGED <<address, code, chosen, book, draft, confirmed, busy, sent>>
  BY DEF Upload
<1>3. (sent.by = u /\ busy = "inspect") \in BOOLEAN /\ <<>> \in Seq(Line)
  OBVIOUS
<1>4. new \in ReaderRow
  BY <1>3 DEF ReaderRow
<1>5. /\ new.phase = "reading" /\ new.lines = <<>> /\ new.seen = {} /\ new.rows = {} /\ new.errors = {}
  OBVIOUS
<1> HIDE DEF new
<1>6. reader' = [reader EXCEPT ![u] = new]
  BY <1>1 DEF new
<1>7. /\ reader' \in [Uploads -> {NoReader} \cup ReaderRow] /\ reader'[u] = new
      /\ \A v \in Uploads \ {u} : reader'[v] = reader[v]
  BY <1>4, <1>6 DEF PreviewTypes
<1>8. PreviewTypes'
  BY <1>2, <1>7 DEF PreviewTypes
<1>9. AsRead(new)
  <2>1. Entered(new) = {}
    BY <1>5 DEF Entered
  <2>2. QED BY <1>5, <2>1 DEF AsRead
<1>10. LinesOK'
  BY <1>2, <1>7, <1>9, LinesStay DEF LinesOK
<1>11. FormOK'
  BY <1>2, FormStays
<1>12. WorkersOK'
  <2>1. u \notin Reading
    BY <1>2 DEF Reading, NoReader
  <2>2. Reading' = Reading \cup {u}
    BY <1>5, <1>7 DEF Reading
  <2>3. IsFiniteSet(Reading) /\ active = Cardinality(Reading)
    BY DEF WorkersOK
  <2>4. IsFiniteSet(Reading \cup {u})
    BY <2>3, FS_AddElement
  <2>5. Cardinality(Reading \cup {u}) = IF u \in Reading THEN Cardinality(Reading) ELSE Cardinality(Reading) + 1
    BY <2>3, FS_AddElement
  <2>6. QED BY <1>2, <2>1, <2>2, <2>3, <2>4, <2>5 DEF WorkersOK
<1>13. QED BY <1>8, <1>10, <1>11, <1>12

LEMMA ReadLineStep ==
    ASSUME PreviewsInv, NEW u \in Uploads, ReadLine(u)
    PROVE  PreviewsInv'
<1> USE DEF PreviewsInv
<1>1. PICK line \in Line : reader' = [reader EXCEPT ![u] = AfterLine(reader[u], line)]
  BY DEF ReadLine, PreviewTypes
<1>2. /\ reader[u].phase = "reading"
      /\ UNCHANGED <<address, code, active, chosen, book, draft, confirmed, busy, sent>>
  BY DEF ReadLine
<1>3. reader[u] # NoReader
  BY <1>2 DEF NoReader
<1>4. reader[u] \in ReaderRow /\ AsRead(reader[u])
  BY <1>3 DEF PreviewTypes, LinesOK
<1> DEFINE new == AfterLine(reader[u], line)
<1>5. new \in ReaderRow /\ new.phase = "reading" /\ AsRead(new)
  BY <1>2, <1>4, LineRead
<1> HIDE DEF new
<1>6. reader' = [reader EXCEPT ![u] = new]
  BY <1>1 DEF new
<1>7. /\ reader' \in [Uploads -> {NoReader} \cup ReaderRow] /\ reader'[u] = new
      /\ \A v \in Uploads \ {u} : reader'[v] = reader[v]
  BY <1>5, <1>6 DEF PreviewTypes
<1>8. PreviewTypes'
  BY <1>2, <1>7 DEF PreviewTypes
<1>9. LinesOK'
  BY <1>2, <1>5, <1>7, LinesStay DEF LinesOK
<1>10. FormOK'
  BY <1>2, FormStays
<1>11. WorkersOK'
  BY <1>2, <1>5, <1>7, WorkersStay
<1>12. QED BY <1>8, <1>9, <1>10, <1>11

(* A worker ends.                                                          *)
LEMMA OneLess ==
    ASSUME WorkersOK, NEW u \in Uploads, reader[u].phase = "reading", reader'[u].phase # "reading",
           \A v \in Uploads \ {u} : reader'[v] = reader[v], active' = active - 1
    PROVE  WorkersOK'
<1>1. u \in Reading /\ Reading' = Reading \ {u}
  BY DEF Reading
<1>2. IsFiniteSet(Reading) /\ active = Cardinality(Reading)
  BY DEF WorkersOK
<1>3. IsFiniteSet(Reading \ {u})
  BY <1>2, FS_RemoveElement
<1>4. Cardinality(Reading \ {u}) = IF u \in Reading THEN Cardinality(Reading) - 1 ELSE Cardinality(Reading)
  BY <1>2, FS_RemoveElement
<1>5. QED BY <1>1, <1>2, <1>3, <1>4 DEF WorkersOK

LEMMA SettleStep ==
    ASSUME PreviewsInv, NEW u \in Uploads, WorkerAnswers(u) \/ WorkerBreaks(u)
    PROVE  PreviewsInv'
<1> USE DEF PreviewsInv
<1>1. PICK outcome \in {"read", "refused"} : Settle(u, outcome)
  BY DEF WorkerAnswers, WorkerBreaks
<1>2. /\ reader[u].phase = "reading" /\ active' = active - 1
      /\ UNCHANGED <<address, code, chosen, book, draft, confirmed, busy, sent>>
  BY <1>1 DEF Settle
<1> DEFINE r   == reader[u]
           new == IF u = sent.by THEN [r EXCEPT !.phase = outcome] ELSE NoReader
<1>3. reader' = [reader EXCEPT ![u] = new]
  BY <1>1 DEF Settle, PreviewTypes
<1>4. r # NoReader
  BY <1>2 DEF NoReader
<1>5. r \in ReaderRow /\ AsRead(r)
  BY <1>4 DEF PreviewTypes, LinesOK
<1>6. NoReader.phase = "free"
  BY DEF NoReader
<1>7. CASE u = sent.by
  <2> DEFINE s == [r EXCEPT !.phase = outcome]
  <2>1. /\ s \in ReaderRow /\ s.phase = outcome /\ s.lines = r.lines /\ s.fields = r.fields
        /\ s.seen = r.seen /\ s.rows = r.rows /\ s.errors = r.errors
    BY <1>5 DEF ReaderRow
  <2> HIDE DEF s
  <2>2. AsRead(s)
    BY <1>5, <2>1 DEF AsRead, Entered, Faulty, Who
  <2>3. new = s
    BY <1>7 DEF s
  <2>4. new \in ReaderRow /\ new.phase # "reading" /\ AsRead(new)
    BY <2>1, <2>2, <2>3
  <2> HIDE DEF new
  <2>5. QED
    <3>1. /\ reader' \in [Uploads -> {NoReader} \cup ReaderRow] /\ reader'[u] = new
          /\ \A v \in Uploads \ {u} : reader'[v] = reader[v]
      BY <1>3, <2>4 DEF PreviewTypes
    <3>2. LinesOK'
      BY <1>2, <2>4, <3>1, LinesStay DEF LinesOK
    <3>3. PreviewTypes' /\ FormOK'
      BY <1>2, <3>1, FormStays DEF PreviewTypes
    <3>4. reader'[u].phase # "reading"
      BY <2>4, <3>1
    <3>5. WorkersOK'
      BY <1>2, <3>1, <3>4, OneLess
    <3>6. QED BY <3>2, <3>3, <3>5
<1>8. CASE u # sent.by
  <2>1. new = NoReader
    BY <1>8
  <2> HIDE DEF new
  <2>2. /\ reader' \in [Uploads -> {NoReader} \cup ReaderRow] /\ reader'[u] = NoReader
        /\ \A v \in Uploads \ {u} : reader'[v] = reader[v]
    BY <1>3, <2>1 DEF PreviewTypes
  <2>3. LinesOK'
    BY <1>2, <2>2, LinesStay DEF LinesOK
  <2>4. PreviewTypes' /\ FormOK'
    BY <1>2, <2>2, FormStays DEF PreviewTypes
  <2>5. WorkersOK'
    BY <1>2, <1>6, <2>2, OneLess
  <2>6. QED BY <2>3, <2>4, <2>5
<1>9. QED BY <1>7, <1>8

LEMMA PreviewsStart == PreviewsInit => PreviewsInv
<1> SUFFICES ASSUME PreviewsInit PROVE PreviewsInv
  OBVIOUS
<1>1. NoUpload \in [by : Uploads \cup {Nil}, with : Choice]
  BY NothingChosen DEF NoUpload
<1>2. PreviewTypes
  BY <1>1, NothingChosen DEF PreviewsInit, PreviewTypes
<1>3. LinesOK
  BY DEF PreviewsInit, LinesOK
<1>4. FormOK
  BY PreviewsAssumption DEF PreviewsInit, FormOK, Asking
<1>5. WorkersOK
  <2>1. Reading = {}
    BY DEF PreviewsInit, Reading, NoReader
  <2>2. QED BY <2>1, FS_EmptySet DEF PreviewsInit, WorkersOK
<1>6. QED BY <1>2, <1>3, <1>4, <1>5 DEF PreviewsInv

LEMMA PreviewsStep == PreviewsInv /\ PreviewsNext => PreviewsInv'
<1> SUFFICES ASSUME PreviewsInv, PreviewsNext PROVE PreviewsInv'
  OBVIOUS
<1>1. CASE ChooseFile \/ ChooseWeek \/ ChooseHeader \/ ChooseSheet \/ ChooseMapping
  BY <1>1, ChoosingStep
<1>2. CASE \/ Reopen \/ AskPreview("inspect") \/ AskPreview("preview") \/ HistoryLoads \/ Confirm
           \/ AskCommit \/ AskRevert \/ ChangeDone \/ ChangeFails
  BY <1>2, WaitingStep
<1>3. CASE PreviewFails \/ ShowPreview
  BY <1>3, AnswerStep
<1>4. ASSUME NEW u \in Uploads, Upload(u) \/ ReadLine(u) \/ WorkerAnswers(u) \/ WorkerBreaks(u)
      PROVE  PreviewsInv'
  BY <1>4, UploadStep, ReadLineStep, SettleStep
<1>5. QED BY <1>1, <1>2, <1>3, <1>4 DEF PreviewsNext

LEMMA PreviewsRest ==
    (part = "previews" => PreviewsInv) /\ [OfficeNext]_office => (part = "previews" => PreviewsInv)'
<1> SUFFICES ASSUME part = "previews" => PreviewsInv, [OfficeNext]_office, part' = "previews"
             PROVE  PreviewsInv'
  OBVIOUS
<1>1. part = "previews" /\ PreviewsInv
  BY DEF OfficeNext, office
<1>2. CASE PreviewsNext
  BY <1>1, <1>2, PreviewsStep
<1>3. CASE UNCHANGED previews
  <2>1. UNCHANGED <<address, code, reader, active, chosen, book, draft, confirmed, busy, sent>>
    BY <1>3 DEF previews
  <2>2. LinesOK' /\ WorkersOK' /\ FormOK'
    BY <1>1, <2>1, LinesStay, WorkersStay, FormStays DEF PreviewsInv, LinesOK
  <2>3. PreviewTypes'
    BY <1>1, <2>1 DEF PreviewsInv, PreviewTypes
  <2>4. QED BY <2>2, <2>3 DEF PreviewsInv
<1>4. QED BY <1>1, <1>2, <1>3 DEF OfficeNext, office

(* What a preview says of the lines, told as the panel explains it.        *)
LEMMA AsWritten ==
    ASSUME NEW r \in ReaderRow, AsRead(r)
    PROVE  LET past  == {i \in DOMAIN r.lines : ~ Blank(r.lines[i])}
               named == [i \in past |-> NamedBy(r.fields, r.lines[i])]
           IN  /\ {x[1] : x \in r.rows} \cup r.errors = past
               /\ \A x \in r.rows : x[1] \notin r.errors /\ named[x[1]] = {x[2]}
               /\ \A x, y \in r.rows : x[2] = y[2] => x = y
               /\ r.errors = {} <=>
                    /\ \A i \in past : r.lines[i].rest # "wrong" /\ named[i] # {}
                    /\ \A i, j \in past : named[i] = named[j] => i = j
<1> DEFINE past  == {i \in DOMAIN r.lines : ~ Blank(r.lines[i])}
           named == [i \in past |-> NamedBy(r.fields, r.lines[i])]
<1>1. past = Entered(r)
  BY DEF Entered
<1>2. past \subseteq Nat
  <2>1. r.lines \in Seq(Line)
    BY ReaderFields
  <2>2. QED BY <2>1
<1>3. \A i \in past : named[i] = Who(r, i)
  BY DEF Who
<1>4. \A i \in past : Who(r, i) \subseteq Crew /\ \A d, e \in Who(r, i) : d = e
  BY NamedAlone DEF Who
<1> HIDE DEF past, named
<1>5. \A i : i \in r.errors <=> i \in past /\ Faulty(r, i)
  BY <1>1 DEF AsRead
<1>6. \A x : x \in r.rows <=> x \in past \X Crew /\ ~ Faulty(r, x[1]) /\ x[2] \in Who(r, x[1])
  BY <1>1 DEF AsRead
<1>7. \A i \in past : Faulty(r, i) <=> \/ r.lines[i].rest = "wrong" \/ Who(r, i) = {}
                                       \/ \E j \in past : j < i /\ Who(r, j) = Who(r, i)
  BY <1>1 DEF Faulty
<1>8. {x[1] : x \in r.rows} \cup r.errors = past
  <2>1. ASSUME NEW i \in past, ~ Faulty(r, i) PROVE \E x \in r.rows : x[1] = i
    <3>1. PICK d \in Who(r, i) : TRUE
      BY <1>7, <2>1
    <3>2. d \in Crew
      BY <1>4, <3>1
    <3>3. <<i, d>> \in r.rows /\ <<i, d>>[1] = i
      BY <1>6, <2>1, <3>1, <3>2
    <3>4. QED BY <3>3
  <2>2. \A x \in r.rows : x[1] \in past
    BY <1>6
  <2>3. QED BY <1>5, <2>1, <2>2
<1>9. ASSUME NEW x \in r.rows PROVE x[1] \notin r.errors /\ named[x[1]] = {x[2]}
  <2>1. x[1] \in past /\ ~ Faulty(r, x[1]) /\ x[2] \in Who(r, x[1])
    BY <1>6
  <2>2. Who(r, x[1]) = {x[2]}
    BY <1>4, <2>1
  <2>3. QED BY <1>3, <1>5, <2>1, <2>2
<1>10. ASSUME NEW i \in past, NEW j \in past, ~ Faulty(r, i), ~ Faulty(r, j), Who(r, i) = Who(r, j)
       PROVE  i = j
  <2>1. ~ i < j /\ ~ j < i
    BY <1>7, <1>10
  <2>2. i \in Nat /\ j \in Nat
    BY <1>2
  <2>3. QED BY <2>1, <2>2
<1>11. ASSUME NEW x \in r.rows, NEW y \in r.rows, x[2] = y[2] PROVE x = y
  <2>1. /\ x \in past \X Crew /\ ~ Faulty(r, x[1]) /\ y \in past \X Crew /\ ~ Faulty(r, y[1])
    BY <1>6
  <2>2. Who(r, x[1]) = Who(r, y[1])
    <3>1. Who(r, x[1]) = {x[2]} /\ Who(r, y[1]) = {y[2]}
      BY <1>3, <1>9, <2>1
    <3>2. QED BY <1>11, <3>1
  <2>3. x[1] = y[1]
    BY <1>10, <2>1, <2>2
  <2>4. QED BY <1>11, <2>1, <2>3
<1>12. r.errors = {} <=> /\ \A i \in past : r.lines[i].rest # "wrong" /\ named[i] # {}
                         /\ \A i, j \in past : named[i] = named[j] => i = j
  <2>1. ASSUME r.errors = {} PROVE /\ \A i \in past : r.lines[i].rest # "wrong" /\ named[i] # {}
                                   /\ \A i, j \in past : named[i] = named[j] => i = j
    <3>1. \A i \in past : ~ Faulty(r, i)
      BY <1>5, <2>1
    <3>2. \A i \in past : r.lines[i].rest # "wrong" /\ named[i] # {}
      BY <1>3, <1>7, <3>1
    <3>3. \A i, j \in past : named[i] = named[j] => i = j
      BY <1>3, <1>10, <3>1
    <3>4. QED BY <3>2, <3>3
  <2>2. ASSUME \A i \in past : r.lines[i].rest # "wrong" /\ named[i] # {},
               \A i, j \in past : named[i] = named[j] => i = j
        PROVE  r.errors = {}
    <3>1. ASSUME NEW i \in past, Faulty(r, i) PROVE FALSE
      <4>1. PICK j \in past : j < i /\ Who(r, j) = Who(r, i)
        BY <1>3, <1>7, <2>2, <3>1
      <4>2. j = i
        BY <1>3, <2>2, <4>1
      <4>3. QED BY <1>2, <4>1, <4>2
    <3>2. QED BY <1>5, <3>1
  <2>3. QED BY <2>1, <2>2
<1>13. QED BY <1>8, <1>9, <1>11, <1>12 DEF past, named

(* The draft offered is of what the form shows, every line is the score of *)
(* the one driver it names or an error, and every worker is counted.       *)
THEOREM PreviewTellsAlways == OfficeSpec => []PreviewTells
<1> DEFINE I == part = "previews" => PreviewsInv
<1>1. OfficeInit => I
  BY PreviewsStart DEF OfficeInit
<1>2. I /\ [OfficeNext]_office => I'
  BY PreviewsRest
<1>3. I => PreviewTells
  <2> SUFFICES ASSUME PreviewsInv PROVE AsTheFileSays
    BY DEF PreviewTells
  <2> USE DEF PreviewsInv
  <2>1. DraftAsShown
    <3>1. ASSUME draft # Nil PROVE chosen = [draft.shows EXCEPT !.book = chosen.book, !.week = chosen.week]
      <4>1. chosen \in Choice /\ draft.shows \in Choice
        BY <3>1 DEF PreviewTypes, DraftRow
      <4>2. Shows(chosen, draft.shows)
        BY <3>1 DEF FormOK
      <4>3. QED BY <4>1, <4>2 DEF Choice, Shows
    <3>2. QED BY <3>1 DEF DraftAsShown, FormOK, Shows
  <2>2. LinesAsWritten
    <3> SUFFICES ASSUME NEW u \in {v \in Uploads : reader[v].phase \in {"reading", "read"}}
                 PROVE  LET r     == reader[u]
                            past  == {i \in DOMAIN r.lines : ~ Blank(r.lines[i])}
                            named == [i \in past |-> NamedBy(r.fields, r.lines[i])]
                        IN  /\ {x[1] : x \in r.rows} \cup r.errors = past
                            /\ \A x \in r.rows : x[1] \notin r.errors /\ named[x[1]] = {x[2]}
                            /\ \A x, y \in r.rows : x[2] = y[2] => x = y
                            /\ r.errors = {} <=>
                                 /\ \A i \in past : r.lines[i].rest # "wrong" /\ named[i] # {}
                                 /\ \A i, j \in past : named[i] = named[j] => i = j
      BY DEF LinesAsWritten
    <3>1. reader[u] # NoReader
      BY DEF NoReader
    <3>2. reader[u] \in ReaderRow /\ AsRead(reader[u])
      BY <3>1 DEF PreviewTypes, LinesOK
    <3>3. QED BY <3>2, AsWritten
  <2>3. Counted
    BY DEF Counted, WorkersOK, Reading
  <2>4. QED BY <2>1, <2>2, <2>3 DEF AsTheFileSays
<1>4. QED BY <1>1, <1>2, <1>3, PTL DEF OfficeSpec
=============================================================================
