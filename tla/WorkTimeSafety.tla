--------------------------- MODULE WorkTimeSafety ---------------------------
(***************************************************************************)
(* The safety properties of WorkTime, for any number of drivers, entries,  *)
(* sessions and requests.                                                  *)
(*                                                                         *)
(* First what the transactions write: rows that belong together stay       *)
(* together (Keeps), only rows under the writer's locks change (Frame),    *)
(* and so what another transaction checked under its own locks stays true  *)
(* (Stable).  Then the invariant of WorkTimeInvariant and the properties   *)
(* it implies, the absence of deadlock, and the refinement of Timesheet.   *)
(***************************************************************************)
EXTENDS WorkTimeInvariant, FiniteOrder, TLAPS

LEMMA RequestShape ==
    ASSUME NEW r \in Request
    PROVE  /\ r.user \in Users
           /\ r.op \in AllOps \ {"staff"}
           /\ r.op \in ClockOps => r \in ClockRequest
           /\ r.op = "request" =>
                 /\ r.user \in Drivers /\ r.id \in CorrectionIds /\ r.entry \in EntryIds
                 /\ r.version \in Nat /\ r.proposal \in Span /\ r.at \in Nat
           /\ r.op = "decide" =>
                 /\ r.id \in CorrectionIds /\ r.entry \in EntryIds
                 /\ r.verdict \in {"APPROVED", "REJECTED"}
           /\ r.op \in {"create", "update"} => r.driver \in Drivers /\ r.span \in Span
           /\ r.op \in {"update", "approve"} => r.entry \in EntryIds
           /\ r.op = "approve" => r.saw \in EntryRow
  <1>1. CASE r \in ClockRequest
    BY <1>1 DEF ClockRequest, Users, AllOps, ClockOps
  <1>2. CASE r \in CorrectionRequest
    BY <1>2 DEF CorrectionRequest, Users, AllOps, ClockOps
  <1>3. CASE r \in TimeRequest
    BY <1>3 DEF TimeRequest, Users, AllOps, ClockOps, TimeOps
  <1>4. QED
    BY <1>1, <1>2, <1>3 DEF Request

LEMMA OwnShape ==
    ASSUME NEW r \in Request, OwnOnly(r)
    PROVE  r.user \in Drivers /\ r.version \in Nat /\ r.at \in Nat
  BY RequestShape DEF OwnOnly, ClockRequest

LEMMA LocksType ==
    ASSUME TablesOK, NEW r \in Request, HasEntry(r) => r.entry \in EntryIds
    PROVE  Locks(r) \subseteq Rows /\ Learnt(r) \subseteq Rows
  BY DEF Locks, Learnt, Rows

-----------------------------------------------------------------------------
(* Keeps: what the rows say of one another.                                *)

Tidy == TablesOK /\ RowsSound /\ NoOverlap /\ BookedOnce

LEMMA ClearKeepsApart ==
    ASSUME NoOverlap, TablesOK, NEW i \in EntryIds, NEW e \in EntryRow,
           entry' = [entry EXCEPT ![i] = e], Clear(e.driver, e, i)
    PROVE  NoOverlap'
  <1>1. SUFFICES ASSUME NEW j \in EntryIds, NEW k \in EntryIds, j # k,
                        Exists(j)', Exists(k)', entry'[j].driver = entry'[k].driver
                 PROVE  ~ Meets(entry'[j], entry'[k])
    BY DEF NoOverlap
  <1>2. CASE j # i /\ k # i
    BY <1>1, <1>2 DEF NoOverlap, Exists, TablesOK
  <1>3. CASE j = i
    BY <1>1, <1>3 DEF Clear, Exists, TablesOK
  <1>4. CASE k = i
    BY <1>1, <1>4 DEF Clear, Exists, TablesOK, Meets
  <1>5. QED
    BY <1>2, <1>3, <1>4

(* A shift that keeps its beginning and its driver, and was open or keeps  *)
(* its end, stays clear of the others.                                     *)
LEMMA GoesOnApart ==
    ASSUME NoOverlap, TablesOK, NEW i \in EntryIds, NEW e \in EntryRow, Exists(i),
           e.driver = entry[i].driver, e.start = entry[i].start,
           entry[i].end = Nil \/ e.end = entry[i].end
    PROVE  Clear(e.driver, e, i)
  <1>1. SUFFICES ASSUME NEW j \in EntryIds \ {i}, Exists(j), entry[j].driver = e.driver
                 PROVE  ~ Meets(e, entry[j])
    BY DEF Clear
  <1>2. ~ Meets(entry[i], entry[j])
    BY <1>1 DEF NoOverlap
  <1>3. QED
    BY <1>1, <1>2 DEF Meets

(* Corrections of an entry whose version grows.                            *)
LEMMA GrowthKeepsCorrections ==
    ASSUME TablesOK, RowsSound, UNCHANGED correction, NEW i \in EntryIds,
           NEW e \in EntryRow, entry' = [entry EXCEPT ![i] = e], e.status # "ABSENT",
           entry[i].version < e.version,
           e.driver = entry[i].driver \/ \A c \in correction : c.entry # i
    PROVE  \A c \in correction' : CorrectionSound(c)'
  <1>1. SUFFICES ASSUME NEW c \in correction PROVE CorrectionSound(c)'
    OBVIOUS
  <1>2. CorrectionSound(c) /\ c.entry \in EntryIds /\ c.version \in Nat
    BY DEF RowsSound, TablesOK, CorrectionRow
  <1>3. entry[c.entry].version \in Nat /\ e.version \in Nat
    BY <1>2 DEF TablesOK, EntryRow
  <1>4. CASE c.entry # i
    BY <1>2, <1>4 DEF CorrectionSound, Exists, TablesOK
  <1>5. CASE c.entry = i
    BY <1>2, <1>3, <1>5 DEF CorrectionSound, Exists, TablesOK
  <1>6. QED
    BY <1>4, <1>5

(* A write that replaces one entry e and adds bookings to it.              *)
LEMMA OneEntryKeeps ==
    ASSUME Tidy, NEW i \in EntryIds, NEW e \in EntryRow,
           entry' = [entry EXCEPT ![i] = e], e.status # "ABSENT", UNCHANGED people,
           event \subseteq event', event' \subseteq EventRow, BookedOnce',
           \A v \in event' \ event : v.entry = i,
           correction' \subseteq CorrectionRow, \A c \in correction' : CorrectionSound(c)',
           Clear(e.driver, e, i), EntrySound(i)'
    PROVE  Tidy'
  <1>1. TablesOK'
    BY DEF Tidy, TablesOK, people
  <1>2. NoOverlap'
    BY ClearKeepsApart DEF Tidy
  <1>3. \A j \in EntryIds : EntrySound(j)'
    <2>1. SUFFICES ASSUME NEW j \in EntryIds \ {i} PROVE EntrySound(j)'
      OBVIOUS
    <2>2. entry'[j] = entry[j] /\ EntrySound(j)
      BY DEF Tidy, TablesOK, RowsSound
    <2>3. QED
      BY <2>2 DEF EntrySound, Exists
  <1>4. \A v \in event' : Exists(v.entry)'
    <2>1. SUFFICES ASSUME NEW v \in event' PROVE Exists(v.entry)'
      OBVIOUS
    <2>2. v.entry \in EntryIds /\ (v.entry # i => Exists(v.entry))
      BY DEF Tidy, RowsSound, EventRow
    <2>3. QED
      BY <2>2 DEF Exists, Tidy, TablesOK
  <1>5. QED
    BY <1>1, <1>2, <1>3, <1>4 DEF Tidy, RowsSound

LEMMA BookingKeepsOnce ==
    ASSUME BookedOnce, NEW r, NEW i, Booked(r) = {}, event' = event \cup {EventOf(r, i)}
    PROVE  BookedOnce'
  BY DEF BookedOnce, Booked, EventOf

LEMMA StartKeeps ==
    ASSUME Tidy, NEW r \in Request, r.op = "start", r.at \in Times, CanStart(r), Start(r)
    PROVE  Tidy'
  <1>1. PICK i \in EntryIds :
          /\ ~ Exists(i)
          /\ entry' = [entry EXCEPT ![i] =
                [driver |-> r.user, start |-> r.at, end |-> Nil, break |-> 0,
                 clock |-> "RUNNING", paused |-> Nil, status |-> "OPEN", version |-> 1]]
          /\ event' = event \cup {EventOf(r, i)}
          /\ UNCHANGED <<people, correction>>
    BY DEF Start
  <1> DEFINE e == [driver |-> r.user, start |-> r.at, end |-> Nil, break |-> 0,
                   clock |-> "RUNNING", paused |-> Nil, status |-> "OPEN", version |-> 1]
  <1>2. r \in ClockRequest /\ r.user \in Drivers /\ r.at \in Nat
    BY RequestShape, OwnShape DEF ClockOps, OwnOnly
  <1>3. /\ e.driver = r.user /\ e.start = r.at /\ e.end = Nil /\ e.break = 0
        /\ e.clock = "RUNNING" /\ e.paused = Nil /\ e.status = "OPEN" /\ e.version = 1
        /\ e \in EntryRow /\ entry' = [entry EXCEPT ![i] = e]
    BY <1>1, <1>2 DEF EntryRow
  <1> HIDE DEF e
  <1>4. EventOf(r, i) \in EventRow /\ EventOf(r, i).entry = i /\ EventOf(r, i).at = r.at
    BY <1>2 DEF EventOf, EventRow, ClockRequest
  <1>5. Clear(e.driver, e, i)
    <2>1. SUFFICES ASSUME NEW j \in EntryIds, Exists(j), entry[j].driver = r.user
                   PROVE  ~ Meets(e, entry[j])
      BY <1>3 DEF Clear
    <2>2. entry[j].end \in Nat /\ entry[j].end # Nil /\ entry[j].end <= r.at
      BY <2>1, TimeAssumption DEF CanStart, Tidy, TablesOK, EntryRow
    <2>3. QED
      BY <1>2, <1>3, <2>2 DEF Meets
  <1>6. entry'[i] = e /\ EventOf(r, i) \in event'
    BY <1>1, <1>3 DEF Tidy, TablesOK
  <1>7. Latest(e, r.at)
    BY <1>2, <1>3 DEF Latest
  <1>8. EntrySound(i)'
    BY <1>3, <1>4, <1>6, <1>7 DEF EntrySound, Exists, Proper
  <1>9. \A c \in correction' : CorrectionSound(c)'
    <2>1. SUFFICES ASSUME NEW c \in correction PROVE CorrectionSound(c)'
      BY <1>1
    <2>2. CorrectionSound(c) /\ c.entry \in EntryIds /\ c.entry # i
      BY <1>1 DEF Tidy, TablesOK, RowsSound, CorrectionRow, CorrectionSound
    <2>3. QED
      BY <1>1, <1>3, <2>2 DEF CorrectionSound, Exists, Tidy, TablesOK
  <1>10. BookedOnce'
    BY <1>1, BookingKeepsOnce DEF CanStart, Tidy
  <1>11. QED
    BY <1>1, <1>3, <1>4, <1>5, <1>8, <1>9, <1>10, OneEntryKeeps DEF Tidy, TablesOK

Replaced(x, clock, paused, break, end, status, version) ==
    [x EXCEPT !.clock = clock, !.paused = paused, !.break = break, !.end = end,
              !.status = status, !.version = version]

LEMMA PunchFields ==
    ASSUME NEW x, NEW clock, NEW paused, NEW break, NEW end, NEW status, NEW version,
           x \in EntryRow, clock \in {"NONE", "RUNNING", "PAUSED", "FINISHED"},
           paused \in Times \cup {Nil}, break \in Nat, end \in Times \cup {Nil},
           status \in {"ABSENT", "OPEN", "SUBMITTED", "APPROVED"}, version \in Nat
    PROVE  LET e == Replaced(x, clock, paused, break, end, status, version)
           IN  /\ e.driver = x.driver /\ e.start = x.start /\ e.version = version
               /\ e.break = break /\ e.clock = clock
               /\ e.paused = paused /\ e.end = end /\ e.status = status
               /\ e \in EntryRow
  <1> DEFINE y == [x EXCEPT !.clock = clock, !.paused = paused]
             z == [y EXCEPT !.break = break, !.end = end]
             e == [z EXCEPT !.status = status, !.version = version]
  <1>1. y \in EntryRow /\ z \in EntryRow /\ e \in EntryRow
    <2>1. y \in EntryRow
      BY DEF EntryRow
    <2>2. z \in EntryRow
      BY <2>1 DEF EntryRow
    <2>3. e \in EntryRow
      BY <2>2 DEF EntryRow
    <2>4. QED
      BY <2>1, <2>2, <2>3
  <1>2. /\ e.driver = x.driver /\ e.start = x.start /\ e.version = version
        /\ e.break = break /\ e.clock = clock
        /\ e.paused = paused /\ e.end = end /\ e.status = status
    BY DEF EntryRow
  <1>3. QED
    BY <1>1, <1>2 DEF Replaced

(* The entry a punch leaves behind.                                        *)
LEMMA PunchedRow ==
    ASSUME Tidy, NEW r \in Request, r.op \in {"pause", "resume", "finish"}, Known(r),
           r.at \in Times, CanPunch(r)
    PROVE  LET old == entry[r.entry]
               e   == Punched(old, r)
           IN  /\ e \in EntryRow
               /\ e.driver = old.driver /\ e.start = old.start /\ e.version = old.version + 1
               /\ e.status \notin {"ABSENT", "APPROVED"} /\ old.end = Nil
               /\ old.break <= e.break /\ e.clock # "NONE" /\ old.clock # "NONE"
               /\ old.clock # "FINISHED"
               /\ e.break = BreakAt(old, r.at)
               /\ e.paused = IF r.op = "pause" THEN r.at ELSE Nil
               /\ Latest(e, r.at) /\ e.break < r.at - e.start /\ e.start < r.at
               /\ r.op = "pause" => e.clock = "PAUSED" /\ e.paused # Nil /\ e.end = Nil
               /\ r.op = "resume" => e.clock = "RUNNING" /\ e.paused = Nil /\ e.end = Nil
               /\ r.op = "finish" => e.clock = "FINISHED" /\ e.paused = Nil /\ e.end = r.at
  <1> DEFINE old == entry[r.entry]
             e   == Punched(old, r)
  <1>1. r.entry \in EntryIds /\ r.at \in Nat /\ Exists(r.entry)
    BY OwnShape DEF OwnOnly, ClockOps, Known, HasEntry
  <1>2. /\ old \in EntryRow /\ old.start \in Nat /\ old.break \in Nat /\ old.version \in Nat
        /\ old.paused # Nil => old.paused \in Nat
    BY <1>1, TimeAssumption DEF Tidy, TablesOK, EntryRow
  <1>3. /\ old.clock # "NONE" /\ old.end = Nil
        /\ r.op = "pause" => old.clock = "RUNNING"
        /\ r.op = "resume" => old.clock = "PAUSED"
    BY DEF CanPunch
  <1>4. /\ old.clock \in {"RUNNING", "PAUSED"} /\ old.status # "APPROVED"
        /\ old.paused # Nil <=> old.clock = "PAUSED"
        /\ \E v \in event : v.entry = r.entry /\ Latest(old, v.at)
    BY <1>1, <1>2, <1>3 DEF Tidy, RowsSound, EntrySound, EntryRow
  <1>5. PICK v \in event : v.entry = r.entry /\ Latest(old, v.at)
    BY <1>4
  <1>6. v.at \in Nat /\ v.at < r.at
    <2>1. v.at \in LastTimes(r.entry)
      BY <1>5 DEF LastTimes
    <2>2. v \in EventRow
      BY DEF Tidy, TablesOK
    <2>3. QED
      BY <2>1, <2>2, TimeAssumption DEF CanPunch, EventRow
  <1>7. /\ BreakAt(old, r.at) \in Nat /\ BreakAt(old, r.at) < r.at - old.start
        /\ old.start < r.at
        /\ old.break <= BreakAt(old, r.at)
    BY <1>1, <1>2, <1>3, <1>4, <1>5, <1>6 DEF Latest, BreakAt
  <1>8. /\ r.op = "pause" => ClockAfter[r.op] = "PAUSED"
        /\ r.op = "resume" => ClockAfter[r.op] = "RUNNING"
        /\ r.op = "finish" => ClockAfter[r.op] = "FINISHED"
    BY DEF ClockAfter
  <1>9. /\ e.driver = old.driver /\ e.start = old.start /\ e.version = old.version + 1
        /\ e.break = BreakAt(old, r.at) /\ e.clock = ClockAfter[r.op]
        /\ e.paused = IF r.op = "pause" THEN r.at ELSE Nil
        /\ e.end = IF r.op = "finish" THEN r.at ELSE Nil
        /\ e.status = IF r.op = "finish" THEN "SUBMITTED" ELSE old.status
        /\ e \in EntryRow
    <2> DEFINE end    == IF r.op = "finish" THEN r.at ELSE Nil
               paused == IF r.op = "pause" THEN r.at ELSE Nil
               status == IF r.op = "finish" THEN "SUBMITTED" ELSE old.status
               break  == BreakAt(old, r.at)
               clock  == ClockAfter[r.op]
               next   == old.version + 1
    <2>1. e = Replaced(old, clock, paused, break, end, status, next)
      BY <1>3 DEF Punched, Replaced
    <2>2. /\ end \in Times \cup {Nil} /\ paused \in Times \cup {Nil}
          /\ status \in {"ABSENT", "OPEN", "SUBMITTED", "APPROVED"}
          /\ clock \in {"NONE", "RUNNING", "PAUSED", "FINISHED"}
          /\ break \in Nat /\ next \in Nat
      BY <1>2, <1>7, <1>8 DEF EntryRow
    <2> HIDE DEF e, old, end, paused, status, break, clock, next
    <2>3. /\ e.driver = old.driver /\ e.start = old.start /\ e.version = next
          /\ e.break = break /\ e.clock = clock
          /\ e.paused = paused /\ e.end = end /\ e.status = status
          /\ e \in EntryRow
      <3>1. old \in EntryRow
        BY <1>2
      <3>2. LET f == Replaced(old, clock, paused, break, end, status, next)
            IN  /\ f.driver = old.driver /\ f.start = old.start /\ f.version = next
                /\ f.break = break /\ f.clock = clock
                /\ f.paused = paused /\ f.end = end /\ f.status = status
                /\ f \in EntryRow
        BY <3>1, <2>2, PunchFields
      <3>3. QED
        BY <2>1, <3>2
    <2>4. QED
      BY <2>3 DEF end, paused, status, break, clock, next
  <1>10. e.status \notin {"ABSENT", "APPROVED"} /\ e.clock # "NONE"
    BY <1>1, <1>4, <1>8, <1>9 DEF Exists
  <1>11. r.at # Nil
    BY TimeAssumption
  <1> HIDE DEF e, old
  <1>12. Latest(e, r.at)
    BY <1>1, <1>2, <1>7, <1>9, <1>11 DEF Latest
  <1>13. QED
    BY <1>3, <1>4, <1>7, <1>8, <1>9, <1>10, <1>11, <1>12 DEF e, old

LEMMA PunchKeeps ==
    ASSUME Tidy, NEW r \in Request, r.op \in {"pause", "resume", "finish"}, Known(r),
           r.at \in Times, CanPunch(r), Punch(r)
    PROVE  Tidy'
  <1> DEFINE i   == r.entry
             old == entry[i]
             e   == Punched(old, r)
  <1>1. i \in EntryIds /\ Exists(i) /\ r \in ClockRequest /\ r.user \in Drivers
        /\ r.version \in Nat /\ r.at \in Nat
    BY RequestShape, OwnShape DEF OwnOnly, ClockOps, Known, HasEntry
  <1>2. /\ entry' = [entry EXCEPT ![i] = e]
        /\ event' = event \cup {EventOf(r, i)}
        /\ UNCHANGED <<people, correction>>
    BY DEF Punch
  <1>3. /\ e \in EntryRow
        /\ e.driver = old.driver /\ e.start = old.start /\ e.version = old.version + 1
        /\ e.status \notin {"ABSENT", "APPROVED"} /\ old.end = Nil
        /\ Latest(e, r.at) /\ e.break < r.at - e.start /\ e.start < r.at
        /\ r.op = "pause" => e.clock = "PAUSED" /\ e.paused # Nil /\ e.end = Nil
        /\ r.op = "resume" => e.clock = "RUNNING" /\ e.paused = Nil /\ e.end = Nil
        /\ r.op = "finish" => e.clock = "FINISHED" /\ e.paused = Nil /\ e.end = r.at
    BY PunchedRow
  <1>4. old.version \in Nat
    BY <1>1 DEF Tidy, TablesOK, EntryRow
  <1> HIDE DEF e
  <1>5. EventOf(r, i) \in EventRow /\ EventOf(r, i).entry = i /\ EventOf(r, i).at = r.at
    BY <1>1 DEF EventOf, EventRow, ClockRequest
  <1>6. Clear(e.driver, e, i)
    BY <1>1, <1>3, GoesOnApart DEF Tidy
  <1>7. entry'[i] = e /\ EventOf(r, i) \in event'
    BY <1>1, <1>2 DEF Tidy, TablesOK
  <1>8. EntrySound(i)'
    <2>1. Proper(e)
      BY <1>3 DEF Proper
    <2>2. e.end # Nil => e.clock = "FINISHED"
      BY <1>3
    <2>3. r.at # Nil
      BY TimeAssumption
    <2>4. QED
      BY <1>3, <1>5, <1>7, <2>1, <2>2, <2>3 DEF EntrySound, Exists
  <1>9. \A c \in correction' : CorrectionSound(c)'
    <2>1. UNCHANGED correction /\ entry[i].version < e.version
      BY <1>2, <1>3, <1>4
    <2>2. QED
      BY <1>1, <1>2, <1>3, <2>1, GrowthKeepsCorrections DEF Tidy
  <1>10. BookedOnce'
    BY <1>2, BookingKeepsOnce DEF CanPunch, Tidy
  <1>11. QED
    BY <1>1, <1>2, <1>3, <1>5, <1>6, <1>8, <1>9, <1>10, OneEntryKeeps DEF Tidy, TablesOK

(* A write without a booking.                                              *)
LEMMA RowKeeps ==
    ASSUME Tidy, NEW i \in EntryIds, NEW e \in EntryRow,
           entry' = [entry EXCEPT ![i] = e], e.status # "ABSENT",
           UNCHANGED <<people, event>>,
           correction' \subseteq CorrectionRow, \A c \in correction' : CorrectionSound(c)',
           Clear(e.driver, e, i), EntrySound(i)'
    PROVE  Tidy'
  BY OneEntryKeeps DEF Tidy, TablesOK, BookedOnce

LEMMA ManualRow ==
    ASSUME NEW r \in Request, r.op \in {"create", "update"}, Proper(r.span), NEW n \in Nat
    PROVE  LET e == Manual(r, n)
           IN  /\ e \in EntryRow /\ e.driver = r.driver /\ e.status # "ABSENT"
               /\ e.start = r.span.start /\ e.end = r.span.end /\ e.break = r.span.break
               /\ e.clock = "NONE" /\ e.paused = Nil /\ e.version = n /\ Proper(e)
  BY RequestShape DEF Manual, EntryRow, Span, Proper

LEMMA OfficeKeeps ==
    ASSUME Tidy, NEW r \in Request, Known(r),
           \/ r.op = "create" /\ CanCreate(r) /\ Create(r)
           \/ r.op = "update" /\ CanUpdate(r) /\ Update(r)
    PROVE  Tidy'
  <1>1. PICK i \in EntryIds, n \in Nat :
          /\ entry' = [entry EXCEPT ![i] = Manual(r, n)]
          /\ UNCHANGED <<people, event, correction>>
          /\ Clear(r.driver, r.span, i)
          /\ entry[i].version < n
          /\ r.driver = entry[i].driver \/ \A c \in correction : c.entry # i
    <2>1. CASE r.op = "create" /\ CanCreate(r) /\ Create(r)
      <3>1. PICK i \in EntryIds : ~ Exists(i) /\ entry' = [entry EXCEPT ![i] = Manual(r, 1)]
        BY <2>1 DEF Create
      <3>2. Clear(r.driver, r.span, i)
        BY <2>1, TimeAssumption DEF CanCreate, Clear
      <3>3. \A c \in correction : c.entry # i
        BY <3>1 DEF Tidy, RowsSound, CorrectionSound
      <3>4. entry[i].version < 1
        BY <3>1 DEF Tidy, RowsSound, EntrySound
      <3>5. QED
        BY <2>1, <3>1, <3>2, <3>3, <3>4 DEF Create
    <2>2. CASE r.op = "update" /\ CanUpdate(r) /\ Update(r)
      <3>1. r.entry \in EntryIds /\ entry[r.entry].version \in Nat
        BY <2>2 DEF Known, HasEntry, Tidy, TablesOK, EntryRow
      <3>2. /\ entry' = [entry EXCEPT ![r.entry] = Manual(r, entry[r.entry].version + 1)]
            /\ UNCHANGED <<people, event, correction>>
        BY <2>2 DEF Update
      <3>3. /\ Clear(r.driver, r.span, r.entry)
            /\ r.driver = entry[r.entry].driver \/ \A c \in correction : c.entry # r.entry
        BY <2>2 DEF CanUpdate
      <3>4. entry[r.entry].version + 1 \in Nat
            /\ entry[r.entry].version < entry[r.entry].version + 1
        BY <3>1
      <3>5. QED
        BY <3>1, <3>2, <3>3, <3>4
    <2>3. QED
      BY <2>1, <2>2
  <1> DEFINE e == Manual(r, n)
  <1>2. /\ e \in EntryRow /\ e.driver = r.driver /\ e.status # "ABSENT"
        /\ e.start = r.span.start /\ e.end = r.span.end /\ e.break = r.span.break
        /\ e.clock = "NONE" /\ e.paused = Nil /\ e.version = n /\ Proper(e)
    BY ManualRow DEF Known
  <1>3. entry' = [entry EXCEPT ![i] = e]
    BY <1>1
  <1> HIDE DEF e
  <1>4. Clear(e.driver, e, i)
    BY <1>1, <1>2 DEF Clear, Meets
  <1>5. entry'[i] = e
    BY <1>3 DEF Tidy, TablesOK
  <1>6. EntrySound(i)'
    BY <1>2, <1>5 DEF EntrySound, Exists
  <1>7. \A c \in correction' : CorrectionSound(c)'
    BY <1>1, <1>2, <1>3, GrowthKeepsCorrections DEF Tidy
  <1>8. QED
    BY <1>1, <1>2, <1>3, <1>4, <1>6, <1>7, RowKeeps DEF Tidy, TablesOK

LEMMA ApproveKeeps ==
    ASSUME Tidy, NEW r \in Request, r.op = "approve", Known(r), CanApprove(r), Approve(r)
    PROVE  Tidy'
  <1> DEFINE i   == r.entry
             old == entry[i]
             e   == [old EXCEPT !.status = "APPROVED", !.version = old.version + 1]
  <1>1. i \in EntryIds /\ Exists(i) /\ old \in EntryRow /\ old.version + 1 \in Nat
        /\ old.version < old.version + 1
    BY DEF Known, HasEntry, Tidy, TablesOK, EntryRow
  <1>2. /\ entry' = [entry EXCEPT ![i] = e]
        /\ UNCHANGED <<people, event, correction>>
    BY <1>1 DEF Approve, Tidy, TablesOK
  <1>3. /\ e \in EntryRow /\ e.driver = old.driver /\ e.start = old.start
        /\ e.end = old.end /\ e.break = old.break /\ e.clock = old.clock
        /\ e.paused = old.paused /\ e.status = "APPROVED" /\ e.version = old.version + 1
    BY <1>1 DEF EntryRow
  <1> HIDE DEF e
  <1>4. entry'[i] = e /\ old.end # Nil
    BY <1>1, <1>2 DEF Tidy, TablesOK, CanApprove
  <1>5. EntrySound(i)'
    <2>1. EntrySound(i) /\ event' = event
      BY <1>1, <1>2 DEF Tidy, RowsSound
    <2>2. QED
      BY <1>1, <1>3, <1>4, <2>1 DEF EntrySound, Exists, Proper
  <1>6. Clear(e.driver, e, i)
    BY <1>1, <1>3, GoesOnApart DEF Tidy
  <1>7. \A c \in correction' : CorrectionSound(c)'
    <2>1. UNCHANGED correction /\ entry[i].version < e.version
      BY <1>1, <1>2, <1>3
    <2>2. QED
      BY <1>1, <1>2, <1>3, <2>1, GrowthKeepsCorrections DEF Tidy
  <1>8. QED
    BY <1>1, <1>2, <1>3, <1>5, <1>6, <1>7, RowKeeps DEF Tidy, TablesOK

LEMMA AskKeeps ==
    ASSUME Tidy, NEW r \in Request, r.op = "request", Known(r), CanRequest(r), AskFor(r)
    PROVE  Tidy'
  <1>0. PICK new :
          new = [id |-> r.id, entry |-> r.entry, driver |-> entry[r.entry].driver,
                 version |-> r.version, proposal |-> r.proposal,
                 before |-> SpanOf(entry[r.entry]), status |-> "PENDING"]
    OBVIOUS
  <1>1. /\ correction' = correction \cup {new}
        /\ UNCHANGED <<people, entry, event>> /\ Unused(r.id)
    BY <1>0 DEF AskFor
  <1>2. r.entry \in EntryIds /\ entry[r.entry] \in EntryRow /\ r.id \in CorrectionIds
        /\ r.proposal \in Span /\ r.version \in Nat
    BY RequestShape DEF Tidy, TablesOK
  <1>3. /\ new \in CorrectionRow /\ new.id = r.id /\ new.entry = r.entry
        /\ new.driver = entry[r.entry].driver /\ new.version = r.version
        /\ new.proposal = r.proposal /\ new.before = SpanOf(entry[r.entry])
        /\ new.status = "PENDING"
    BY <1>0, <1>2 DEF CorrectionRow, SpanOf, Span, EntryRow
  <1>4. /\ Exists(r.entry) /\ Proper(r.proposal) /\ r.proposal.end # Nil
        /\ entry[r.entry].version = r.version /\ PendingOn(r.entry) = {}
    BY DEF CanRequest, Known
  <1>5. TablesOK'
    BY <1>1, <1>3 DEF Tidy, TablesOK, people
  <1>6. CorrectionSound(new)'
    <2>1. entry' = entry /\ entry[r.entry].version \in Nat
      BY <1>1, <1>2 DEF EntryRow
    <2>2. \A b \in correction' \ {new} :
            b \in correction /\ b.id # r.id /\ (b.entry = r.entry => b.status # "PENDING")
      BY <1>1, <1>4 DEF Unused, PendingOn
    <2>3. QED
      BY <1>2, <1>3, <1>4, <2>1, <2>2 DEF CorrectionSound, Exists
  <1>7. \A c \in correction : CorrectionSound(c)'
    <2>1. SUFFICES ASSUME NEW c \in correction PROVE CorrectionSound(c)'
      OBVIOUS
    <2>2. CorrectionSound(c)
      BY DEF Tidy, RowsSound
    <2>3. c.id # r.id /\ (c.entry = r.entry => c.status # "PENDING")
      BY <1>1, <1>4 DEF Unused, PendingOn
    <2>4. QED
      BY <1>1, <1>3, <2>2, <2>3 DEF CorrectionSound, Exists
  <1>8. RowsSound'
    <2>1. ASSUME NEW i \in EntryIds PROVE EntrySound(i)'
      <3>1. EntrySound(i) /\ entry'[i] = entry[i] /\ event' = event
        BY <1>1 DEF Tidy, RowsSound
      <3>2. QED
        BY <3>1 DEF EntrySound, Exists
    <2>2. \A c \in correction' : CorrectionSound(c)'
      BY <1>1, <1>6, <1>7
    <2>3. QED
      BY <1>1, <2>1, <2>2 DEF Tidy, RowsSound, Exists
  <1>9. NoOverlap' /\ BookedOnce'
    BY <1>1 DEF Tidy, NoOverlap, BookedOnce, Exists
  <1>10. QED
    BY <1>5, <1>8, <1>9 DEF Tidy

LEMMA CorrectedRow ==
    ASSUME NEW x, x \in EntryRow, NEW p, p \in Span
    PROVE  /\ Corrected(x, p) \in EntryRow /\ Corrected(x, p).driver = x.driver
           /\ Corrected(x, p).start = p.start /\ Corrected(x, p).end = p.end
           /\ Corrected(x, p).break = p.break /\ Corrected(x, p).clock = x.clock
           /\ Corrected(x, p).paused = x.paused /\ Corrected(x, p).status = "SUBMITTED"
           /\ Corrected(x, p).version = x.version + 1
  <1> DEFINE y == [x EXCEPT !.start = p.start, !.end = p.end, !.break = p.break]
             e == [y EXCEPT !.status = "SUBMITTED", !.version = x.version + 1]
  <1>1. y \in EntryRow
    BY DEF EntryRow, Span
  <1>2. x.version + 1 \in Nat
    BY DEF EntryRow
  <1>3. e \in EntryRow
    BY <1>1, <1>2 DEF EntryRow
  <1>4. /\ e.driver = x.driver /\ e.start = p.start /\ e.end = p.end /\ e.break = p.break
        /\ e.clock = x.clock /\ e.paused = x.paused /\ e.status = "SUBMITTED"
        /\ e.version = x.version + 1
    BY <1>2 DEF EntryRow
  <1>5. e = Corrected(x, p)
    BY DEF Corrected
  <1>6. QED
    BY <1>3, <1>4, <1>5

LEMMA DecideKeeps ==
    ASSUME Tidy, NEW r \in Request, r.op = "decide", Known(r), CanDecide(r), Decide(r)
    PROVE  Tidy'
  <1>1. PICK c \in Undecided(r) :
          /\ correction' = (correction \ {c}) \cup {[c EXCEPT !.status = r.verdict]}
          /\ entry' = IF r.verdict = "APPROVED"
                      THEN [entry EXCEPT ![r.entry] = Corrected(@, c.proposal)]
                      ELSE entry
          /\ UNCHANGED <<people, event>>
    BY DEF Decide
  <1> DEFINE i   == r.entry
             new == [c EXCEPT !.status = r.verdict]
             e   == IF r.verdict = "APPROVED" THEN Corrected(entry[i], c.proposal) ELSE entry[i]
  <1>2. /\ c \in correction /\ c \in CorrectionRow /\ c.status = "PENDING"
        /\ c.id = r.id /\ c.entry = i /\ CorrectionSound(c)
    BY <1>1 DEF Undecided, Tidy, TablesOK, RowsSound
  <1>3. \A b \in correction : b.id = c.id => b = c
    BY <1>2 DEF CorrectionSound
  <1>4. i \in EntryIds /\ entry[i] \in EntryRow /\ c.proposal \in Span /\ Exists(i)
    BY <1>2, RequestShape DEF Tidy, TablesOK, CorrectionRow, CorrectionSound
  <1>5. r.verdict = "APPROVED" =>
          /\ entry[i].end # Nil /\ entry[i].version = c.version
          /\ Clear(entry[i].driver, c.proposal, i)
    BY <1>2, <1>3 DEF CanDecide, Undecided
  <1>6. /\ new \in CorrectionRow /\ new.id = c.id /\ new.entry = c.entry
        /\ new.driver = c.driver /\ new.version = c.version /\ new.proposal = c.proposal
        /\ new.before = c.before /\ new.status = r.verdict
    BY <1>2, RequestShape DEF CorrectionRow
  <1>7. /\ e \in EntryRow /\ e.driver = entry[i].driver /\ e.clock = entry[i].clock
        /\ e.paused = entry[i].paused /\ e.status # "ABSENT"
        /\ r.verdict = "APPROVED" =>
              /\ e.start = c.proposal.start /\ e.end = c.proposal.end
              /\ e.break = c.proposal.break /\ e.version = entry[i].version + 1
        /\ r.verdict # "APPROVED" => e = entry[i]
    BY <1>4, CorrectedRow DEF Exists
  <1>8. /\ correction' = (correction \ {c}) \cup {new}
        /\ entry' = [entry EXCEPT ![i] = e]
        /\ UNCHANGED <<people, event>>
    BY <1>1, <1>4 DEF Tidy, TablesOK
  <1> HIDE DEF e, new
  <1>9. entry'[i] = e
    BY <1>4, <1>8 DEF Tidy, TablesOK
  <1>10. EntrySound(i) /\ EntrySound(i)'
    <2>1. EntrySound(i)
      BY <1>4 DEF Tidy, RowsSound
    <2>2. CASE r.verdict = "APPROVED"
      <3>1. Proper(e)
        BY <1>2, <1>7, <2>2 DEF CorrectionSound, Proper
      <3>2. QED
        BY <1>2, <1>5, <1>7, <1>9, <2>1, <2>2, <3>1 DEF EntrySound, Exists, CorrectionSound
    <2>3. CASE r.verdict # "APPROVED"
      BY <1>7, <1>8, <1>9, <2>1, <2>3 DEF EntrySound, Exists
    <2>4. QED
      BY <2>1, <2>2, <2>3
  <1>11. Clear(e.driver, e, i)
    <2>1. CASE r.verdict = "APPROVED"
      BY <1>5, <1>7, <2>1 DEF Clear, Meets
    <2>2. CASE r.verdict # "APPROVED"
      BY <1>4, <1>7, <2>2, GoesOnApart DEF Tidy
    <2>3. QED
      BY <2>1, <2>2
  <1>12. \A b \in correction' : CorrectionSound(b)'
    <2>1. /\ entry[i].version \in Nat /\ e.version \in Nat /\ c.version \in Nat
          /\ r.verdict \in {"APPROVED", "REJECTED"}
      BY <1>2, <1>4, <1>7, RequestShape DEF EntryRow, CorrectionRow
    <2>2. \A b \in correction : CorrectionSound(b) /\ b.version \in Nat
      BY DEF Tidy, RowsSound, TablesOK, CorrectionRow
    <2>3. CorrectionSound(new)'
      BY <1>2, <1>3, <1>4, <1>5, <1>6, <1>7, <1>8, <1>9, <2>1, <2>2
      DEF CorrectionSound, Exists
    <2>4. ASSUME NEW b \in correction \ {c} PROVE CorrectionSound(b)'
      <3>1. CASE b.entry = i
        BY <1>2, <1>3, <1>4, <1>5, <1>6, <1>7, <1>8, <1>9, <2>1, <2>2, <3>1
        DEF CorrectionSound, Exists
      <3>2. CASE b.entry # i
        <4>1. b.entry \in EntryIds /\ entry'[b.entry] = entry[b.entry]
          BY <1>8, <3>2 DEF Tidy, TablesOK, CorrectionRow
        <4>2. QED
          BY <1>2, <1>6, <1>8, <2>2, <3>2, <4>1 DEF CorrectionSound, Exists
      <3>3. QED
        BY <3>1, <3>2
    <2>5. QED
      BY <1>8, <2>3, <2>4
  <1>13. correction' \subseteq CorrectionRow
    BY <1>6, <1>8 DEF Tidy, TablesOK
  <1>14. QED
    BY <1>4, <1>7, <1>8, <1>10, <1>11, <1>12, <1>13, RowKeeps

(* A request about to be written: what its session knows and has checked.  *)
Sure(r) ==
    /\ r \in Request /\ Known(r) /\ Admissible(r)
    /\ OwnOnly(r) => r.at \in Times

LEMMA WriteKeeps ==
    ASSUME Tidy, NEW r, Sure(r), Write(r)
    PROVE  Tidy'
  <1>1. r \in Request /\ Known(r)
    BY DEF Sure
  <1>2. CASE r.op = "start" /\ Start(r)
    BY <1>1, <1>2, StartKeeps DEF Sure, Admissible, OwnOnly, ClockOps
  <1>3. CASE r.op \in {"pause", "resume", "finish"} /\ Punch(r)
    BY <1>1, <1>3, PunchKeeps DEF Sure, Admissible, OwnOnly, ClockOps
  <1>4. CASE r.op = "request" /\ AskFor(r)
    BY <1>1, <1>4, AskKeeps DEF Sure, Admissible
  <1>5. CASE r.op = "decide" /\ Decide(r)
    BY <1>1, <1>5, DecideKeeps DEF Sure, Admissible
  <1>6. CASE (r.op = "create" /\ Create(r)) \/ (r.op = "update" /\ Update(r))
    BY <1>1, <1>6, OfficeKeeps DEF Sure, Admissible
  <1>7. CASE r.op = "approve" /\ Approve(r)
    BY <1>1, <1>7, ApproveKeeps DEF Sure, Admissible
  <1>8. QED
    BY <1>2, <1>3, <1>4, <1>5, <1>6, <1>7 DEF Write

-----------------------------------------------------------------------------
(* Frame: what a step may change that holds the row locks h.               *)

OwnedBy(d, i) == Exists(i) /\ entry[i].driver = d

EntryFrame(h) ==
    /\ \A i \in EntryIds : Exists(i) /\ <<"entry", i>> \notin h => entry'[i] = entry[i]
    /\ \A i \in EntryIds : entry'[i] # entry[i] =>
          Exists(i)' /\ entry[i].version < entry'[i].version
    /\ \A d \in Drivers, i \in EntryIds : <<"driver", d>> \notin h =>
          /\ OwnedBy(d, i)' <=> OwnedBy(d, i)
          /\ OwnedBy(d, i) => SpanOf(entry'[i]) = SpanOf(entry[i])

Frame(h) ==
    /\ EntryFrame(h)
    /\ event \subseteq event'
    /\ \A v \in event' \ event :
          <<"driver", v.user>> \in h /\ (Exists(v.entry) => <<"entry", v.entry>> \in h)
    /\ \A c \in (correction' \ correction) \cup (correction \ correction') :
          <<"entry", c.entry>> \in h
    /\ UNCHANGED people

(* All the row locks of a request.                                         *)
Claims(r) == Locks(r) \cup {row \in Learnt(r) : HasEntry(r)}

LEMMA ClaimedRows ==
    ASSUME NEW r, r \in Request, Known(r)
    PROVE  /\ HasEntry(r) => <<"entry", r.entry>> \in Claims(r)
           /\ OwnOnly(r) => <<"driver", r.user>> \in Claims(r)
           /\ r.op \in {"create", "update"} => <<"driver", r.driver>> \in Claims(r)
           /\ TablesOK /\ r.op \in {"decide", "update"} =>
                 <<"driver", entry[r.entry].driver>> \in Claims(r)
           /\ Rechecked(r) => <<"member", r.user>> \in Claims(r)
  <1>1. HasEntry(r) => <<"entry", r.entry>> \in Claims(r)
    BY DEF Claims, Locks, Known
  <1>2. OwnOnly(r) => <<"driver", r.user>> \in Claims(r)
    BY OwnShape DEF Claims, Locks
  <1>3. r.op \in {"create", "update"} => <<"driver", r.driver>> \in Claims(r)
    BY RequestShape DEF Claims, Locks
  <1>4. TablesOK /\ r.op \in {"decide", "update"} =>
           <<"driver", entry[r.entry].driver>> \in Claims(r)
    BY DEF Claims, Learnt, HasEntry, Known, TablesOK, EntryRow
  <1>5. Rechecked(r) => <<"member", r.user>> \in Claims(r)
    BY RequestShape DEF Claims, Locks
  <1>6. QED
    BY <1>1, <1>2, <1>3, <1>4, <1>5

LEMMA OneEntryFrame ==
    ASSUME TablesOK, NEW h, NEW i \in EntryIds, NEW e \in EntryRow,
           entry' = [entry EXCEPT ![i] = e], e.status # "ABSENT",
           e = entry[i] \/ entry[i].version < e.version,
           Exists(i) => <<"entry", i>> \in h,
           \/ <<"driver", e.driver>> \in h /\ (Exists(i) => <<"driver", entry[i].driver>> \in h)
           \/ Exists(i) /\ e.driver = entry[i].driver /\ SpanOf(e) = SpanOf(entry[i])
    PROVE  EntryFrame(h)
  <1>1. /\ entry'[i] = e
        /\ \A j \in EntryIds \ {i} : entry'[j] = entry[j]
    BY DEF TablesOK
  <1>2. \A j \in EntryIds : Exists(j) /\ <<"entry", j>> \notin h => entry'[j] = entry[j]
    BY <1>1
  <1>3. \A j \in EntryIds : entry'[j] # entry[j] =>
          Exists(j)' /\ entry[j].version < entry'[j].version
    BY <1>1 DEF Exists
  <1>4. ASSUME NEW d \in Drivers, NEW j \in EntryIds, <<"driver", d>> \notin h
        PROVE  /\ OwnedBy(d, j)' <=> OwnedBy(d, j)
               /\ OwnedBy(d, j) => SpanOf(entry'[j]) = SpanOf(entry[j])
    <2>1. CASE j # i
      BY <1>1, <2>1 DEF OwnedBy, Exists
    <2>2. CASE j = i
      BY <1>1, <1>4, <2>2 DEF OwnedBy, Exists
    <2>3. QED
      BY <2>1, <2>2
  <1>5. QED
    BY <1>2, <1>3, <1>4 DEF EntryFrame

LEMMA SameEntries == ASSUME UNCHANGED entry, NEW h PROVE EntryFrame(h)
  BY DEF EntryFrame, OwnedBy, Exists

LEMMA ClockFrame ==
    ASSUME Tidy, NEW r, Sure(r), NEW h, Claims(r) \subseteq h, r.op \in ClockOps, Write(r)
    PROVE  Frame(h)
  <1>1. r \in Request /\ Known(r) /\ r.user \in Drivers /\ <<"driver", r.user>> \in h
    BY ClaimedRows, OwnShape DEF Sure, OwnOnly
  <1>2. CASE r.op = "start"
    <2>1. PICK i \in EntryIds :
            /\ ~ Exists(i)
            /\ entry' = [entry EXCEPT ![i] =
                  [driver |-> r.user, start |-> r.at, end |-> Nil, break |-> 0,
                   clock |-> "RUNNING", paused |-> Nil, status |-> "OPEN", version |-> 1]]
            /\ event' = event \cup {EventOf(r, i)}
            /\ UNCHANGED <<people, correction>>
      BY <1>2 DEF Write, Start
    <2> DEFINE e == [driver |-> r.user, start |-> r.at, end |-> Nil, break |-> 0,
                     clock |-> "RUNNING", paused |-> Nil, status |-> "OPEN", version |-> 1]
    <2>2. /\ e \in EntryRow /\ e.driver = r.user /\ e.status # "ABSENT" /\ e.version = 1
          /\ entry' = [entry EXCEPT ![i] = e]
      BY <1>1, <1>2, <2>1 DEF EntryRow, Sure, OwnOnly, ClockOps
    <2> HIDE DEF e
    <2>3. entry[i].version < e.version
      BY <2>1, <2>2 DEF Tidy, RowsSound, EntrySound
    <2>4. EntryFrame(h)
      BY <1>1, <2>1, <2>2, <2>3, OneEntryFrame DEF Tidy
    <2>5. EventOf(r, i).user = r.user /\ EventOf(r, i).entry = i
      BY DEF EventOf
    <2>6. QED
      BY <1>1, <2>1, <2>4, <2>5 DEF Frame
  <1>3. CASE r.op \in {"pause", "resume", "finish"}
    <2> DEFINE i == r.entry
               e == Punched(entry[i], r)
    <2>1. /\ entry' = [entry EXCEPT ![i] = e]
          /\ event' = event \cup {EventOf(r, i)}
          /\ UNCHANGED <<people, correction>>
      BY <1>3 DEF Write, Punch
    <2>2. i \in EntryIds /\ <<"entry", i>> \in h /\ entry[i].driver = r.user
      <3>1. HasEntry(r) /\ CanPunch(r)
        BY <1>3 DEF Sure, HasEntry, Admissible
      <3>2. QED
        BY <1>1, <3>1, ClaimedRows DEF Known, CanPunch
    <2>3. /\ e \in EntryRow /\ e.driver = entry[i].driver /\ e.status # "ABSENT"
          /\ e.version = entry[i].version + 1
      BY <1>1, <1>3, PunchedRow DEF Sure, Admissible, OwnOnly, ClockOps
    <2>4. entry[i].version < e.version
      BY <2>2, <2>3 DEF Tidy, TablesOK, EntryRow
    <2> HIDE DEF e
    <2>5. EntryFrame(h)
      BY <1>1, <2>1, <2>2, <2>3, <2>4, OneEntryFrame DEF Tidy
    <2>6. EventOf(r, i).user = r.user /\ EventOf(r, i).entry = i
      BY DEF EventOf
    <2>7. QED
      BY <1>1, <2>1, <2>2, <2>5, <2>6 DEF Frame
  <1>4. QED
    BY <1>2, <1>3 DEF ClockOps

LEMMA CorrectionFrame ==
    ASSUME Tidy, NEW r, Sure(r), NEW h, Claims(r) \subseteq h,
           r.op \in {"request", "decide"}, Write(r)
    PROVE  Frame(h)
  <1>1. /\ r \in Request /\ Known(r) /\ r.entry \in EntryIds /\ Exists(r.entry)
        /\ <<"entry", r.entry>> \in h
        /\ r.op = "decide" => <<"driver", entry[r.entry].driver>> \in h
    BY ClaimedRows DEF Sure, HasEntry, Known, Tidy
  <1>2. CASE r.op = "request"
    <2>1. PICK new : /\ correction' = correction \cup {new} /\ new.entry = r.entry
                     /\ UNCHANGED <<people, entry, event>>
      BY <1>2 DEF Write, AskFor
    <2>2. QED
      BY <1>1, <2>1, SameEntries DEF Frame
  <1>3. CASE r.op = "decide"
    <2>1. PICK c \in Undecided(r) :
            /\ correction' = (correction \ {c}) \cup {[c EXCEPT !.status = r.verdict]}
            /\ entry' = IF r.verdict = "APPROVED"
                        THEN [entry EXCEPT ![r.entry] = Corrected(@, c.proposal)]
                        ELSE entry
            /\ UNCHANGED <<people, event>>
      BY <1>3 DEF Write, Decide
    <2> DEFINE new == [c EXCEPT !.status = r.verdict]
               e   == Corrected(entry[r.entry], c.proposal)
    <2>2. /\ c \in CorrectionRow /\ c.entry = r.entry
      BY <2>1 DEF Undecided, Tidy, TablesOK
    <2>3. new.entry = r.entry /\ correction' = (correction \ {c}) \cup {new}
      BY <2>1, <2>2 DEF CorrectionRow
    <2>4. EntryFrame(h)
      <3>1. CASE r.verdict = "APPROVED"
        <4>1. entry[r.entry] \in EntryRow /\ c.proposal \in Span
          BY <1>1, <2>2 DEF Tidy, TablesOK, CorrectionRow
        <4>2. /\ e \in EntryRow /\ e.driver = entry[r.entry].driver /\ e.status # "ABSENT"
              /\ e.version = entry[r.entry].version + 1
          BY <4>1, CorrectedRow
        <4>3. entry' = [entry EXCEPT ![r.entry] = e]
          BY <2>1, <3>1
        <4>4. entry[r.entry].version < e.version
          BY <4>1, <4>2 DEF EntryRow
        <4> HIDE DEF e
        <4>5. QED
          BY <1>1, <1>3, <4>2, <4>3, <4>4, OneEntryFrame DEF Tidy
      <3>2. CASE r.verdict # "APPROVED"
        BY <2>1, <3>2, SameEntries
      <3>3. QED
        BY <3>1, <3>2
    <2> HIDE DEF new
    <2>5. QED
      BY <1>1, <2>1, <2>2, <2>3, <2>4 DEF Frame
  <1>4. QED
    BY <1>2, <1>3

LEMMA OfficeFrame ==
    ASSUME Tidy, NEW r, Sure(r), NEW h, Claims(r) \subseteq h,
           r.op \in {"create", "update", "approve"}, Write(r)
    PROVE  Frame(h)
  <1>1. r \in Request /\ Known(r) /\ UNCHANGED <<people, event, correction>>
    BY DEF Sure, Write, Create, Update, Approve
  <1>2. EntryFrame(h)
    <2>1. CASE r.op = "create"
      <3>1. PICK i \in EntryIds : ~ Exists(i) /\ entry' = [entry EXCEPT ![i] = Manual(r, 1)]
        BY <2>1 DEF Write, Create
      <3>2. /\ Manual(r, 1) \in EntryRow /\ Manual(r, 1).driver = r.driver
            /\ Manual(r, 1).status # "ABSENT" /\ Manual(r, 1).version = 1
        BY <1>1, <2>1, ManualRow DEF Known
      <3>3. entry[i].version < Manual(r, 1).version
        BY <3>1, <3>2 DEF Tidy, RowsSound, EntrySound
      <3>4. <<"driver", r.driver>> \in h
        BY <1>1, <2>1, ClaimedRows
      <3>5. QED
        BY <3>1, <3>2, <3>3, <3>4, OneEntryFrame DEF Tidy
    <2>2. CASE r.op = "update"
      <3> DEFINE n == entry[r.entry].version + 1
      <3>1. /\ r.entry \in EntryIds /\ n \in Nat /\ entry[r.entry].version < n
            /\ entry' = [entry EXCEPT ![r.entry] = Manual(r, n)]
        BY <1>1, <2>2 DEF Known, HasEntry, Tidy, TablesOK, EntryRow, Write, Update
      <3>2. /\ Manual(r, n) \in EntryRow /\ Manual(r, n).driver = r.driver
            /\ Manual(r, n).status # "ABSENT" /\ Manual(r, n).version = n
        BY <1>1, <2>2, <3>1, ManualRow DEF Known
      <3>3. /\ <<"driver", r.driver>> \in h /\ <<"entry", r.entry>> \in h
            /\ <<"driver", entry[r.entry].driver>> \in h
        BY <1>1, <2>2, ClaimedRows DEF HasEntry, Tidy
      <3> HIDE DEF n
      <3>4. QED
        BY <3>1, <3>2, <3>3, OneEntryFrame DEF Tidy
    <2>3. CASE r.op = "approve"
      <3> DEFINE old == entry[r.entry]
                 e   == [old EXCEPT !.status = "APPROVED", !.version = old.version + 1]
      <3>1. /\ r.entry \in EntryIds /\ Exists(r.entry) /\ <<"entry", r.entry>> \in h
            /\ old \in EntryRow /\ old.version + 1 \in Nat /\ old.version < old.version + 1
        <4>1. /\ r.entry \in EntryIds /\ Exists(r.entry) /\ <<"entry", r.entry>> \in h
          BY <1>1, <2>3, ClaimedRows DEF Known, HasEntry
        <4>2. old \in EntryRow
          BY <4>1 DEF Tidy, TablesOK
        <4>3. old.version \in Nat
          BY <4>2 DEF EntryRow
        <4>4. QED
          BY <4>1, <4>2, <4>3
      <3>2. entry' = [entry EXCEPT ![r.entry] = e]
        BY <2>3, <3>1 DEF Write, Approve, Tidy, TablesOK
      <3>3. /\ e \in EntryRow /\ e.driver = old.driver
            /\ e.start = old.start /\ e.end = old.end /\ e.break = old.break
            /\ e.status # "ABSENT" /\ e.version = old.version + 1
        BY <3>1 DEF EntryRow
      <3> HIDE DEF e
      <3>4. QED
        BY <3>1, <3>2, <3>3, OneEntryFrame DEF Tidy, SpanOf
    <2>4. QED
      BY <2>1, <2>2, <2>3
  <1>3. QED
    BY <1>1, <1>2 DEF Frame

LEMMA WriteFrame ==
    ASSUME Tidy, NEW r, Sure(r), NEW h, Claims(r) \subseteq h, Write(r)
    PROVE  Frame(h)
  BY ClockFrame, CorrectionFrame, OfficeFrame DEF Write, ClockOps

-----------------------------------------------------------------------------
(* Stable: what a session has checked under its locks survives a step that *)
(* holds others.                                                           *)

LEMMA KnownStays ==
    ASSUME TablesOK, TablesOK', NEW h, EntryFrame(h), NEW r, r \in Request, Known(r)
    PROVE  Known(r)'
  <1>1. ASSUME HasEntry(r)
        PROVE  /\ r.entry \in EntryIds /\ Exists(r.entry)'
               /\ entry[r.entry].version \in Nat /\ entry'[r.entry].version \in Nat
               /\ entry'[r.entry] = entry[r.entry] \/
                  entry[r.entry].version < entry'[r.entry].version
    BY <1>1 DEF Known, EntryFrame, TablesOK, EntryRow, Exists
  <1>2. OwnOnly(r) => r.version \in Nat
    BY OwnShape
  <1>3. r.op = "approve" => HasEntry(r) /\ r.saw.version \in Nat
    BY RequestShape DEF EntryRow, HasEntry
  <1>4. QED
    BY <1>1, <1>2, <1>3 DEF Known

Disjoint(r, h) == \A row \in Claims(r) : row[1] # "member" => row \notin h

LEMMA ClaimsApart ==
    ASSUME TablesOK, NEW r, r \in Request, Known(r), NEW h, Disjoint(r, h)
    PROVE  /\ HasEntry(r) => <<"entry", r.entry>> \notin h
           /\ OwnOnly(r) => <<"driver", r.user>> \notin h
           /\ r.op \in {"create", "update"} => <<"driver", r.driver>> \notin h
           /\ r.op \in {"decide", "update"} =>
                 <<"driver", entry[r.entry].driver>> \notin h
  BY ClaimedRows DEF Disjoint

(* Nobody but the holder of a driver's lock disturbs what is clear of it.  *)
LEMMA ClearStays ==
    ASSUME TablesOK, NEW h, EntryFrame(h), NEW d \in Drivers, <<"driver", d>> \notin h,
           NEW x, NEW i, Clear(d, x, i)
    PROVE  Clear(d, x, i)'
  <1>1. SUFFICES ASSUME NEW j \in EntryIds \ {i}, OwnedBy(d, j)'
                 PROVE  ~ Meets(x, entry'[j])
    BY DEF Clear, OwnedBy
  <1>2. OwnedBy(d, j) /\ SpanOf(entry'[j]) = SpanOf(entry[j])
    BY <1>1 DEF EntryFrame
  <1>3. entry'[j].start = entry[j].start /\ entry'[j].end = entry[j].end
    BY <1>2 DEF SpanOf
  <1>4. ~ Meets(x, entry[j])
    BY <1>2 DEF Clear, OwnedBy
  <1>5. QED
    BY <1>3, <1>4 DEF Meets

LEMMA StableClock ==
    ASSUME Tidy, NEW r, Sure(r), NEW h, Frame(h), Disjoint(r, h), r.op \in ClockOps
    PROVE  Admissible(r)'
  <1>1. /\ r \in Request /\ Known(r) /\ r.user \in Drivers
        /\ <<"driver", r.user>> \notin h /\ EntryFrame(h) /\ TablesOK
        /\ HasEntry(r) => <<"entry", r.entry>> \notin h
    BY OwnShape, ClaimsApart DEF Sure, OwnOnly, Frame, Tidy
  <1>2. Permitted(r.user, r.op) => Permitted(r.user, r.op)'
    BY DEF Frame, people, Permitted
  <1>3. Booked(r)' = Booked(r)
    BY <1>1 DEF Frame, Booked
  <1>4. CASE r.op = "start"
    <2>1. CanStart(r)
      BY <1>4 DEF Sure, Admissible
    <2>2. \A i \in EntryIds : OwnedBy(r.user, i)' =>
            entry'[i].end # Nil /\ entry'[i].end <= r.at
      <3>1. SUFFICES ASSUME NEW i \in EntryIds, OwnedBy(r.user, i)'
                     PROVE  entry'[i].end # Nil /\ entry'[i].end <= r.at
        OBVIOUS
      <3>2. OwnedBy(r.user, i) /\ entry'[i].end = entry[i].end
        BY <1>1, <3>1 DEF EntryFrame, SpanOf
      <3>3. QED
        BY <2>1, <3>2 DEF CanStart, OwnedBy
    <2>3. CanStart(r)'
      BY <1>2, <1>3, <2>1, <2>2 DEF CanStart, OwnedBy
    <2>4. QED
      BY <1>4, <2>3 DEF Admissible
  <1>5. CASE r.op \in {"pause", "resume", "finish"}
    <2>1. CanPunch(r) /\ HasEntry(r) /\ r.entry \in EntryIds /\ Exists(r.entry)
      BY <1>1, <1>5 DEF Sure, Admissible, HasEntry, Known
    <2>2. entry'[r.entry] = entry[r.entry]
      BY <1>1, <2>1 DEF EntryFrame
    <2>3. {v \in event : v.entry = r.entry}' = {v \in event : v.entry = r.entry}
      BY <1>1, <2>1 DEF Frame
    <2>4. LastTimes(r.entry)' = LastTimes(r.entry)
      BY <2>2, <2>3 DEF LastTimes
    <2>5. CanPunch(r)'
      BY <1>2, <1>3, <2>1, <2>2, <2>4 DEF CanPunch, Exists
    <2>6. QED
      BY <1>5, <2>5 DEF Admissible
  <1>6. QED
    BY <1>4, <1>5 DEF ClockOps

LEMMA StableCorrection ==
    ASSUME Tidy, NEW r, Sure(r), NEW h, Frame(h), Disjoint(r, h), r.op \in {"request", "decide"}
    PROVE  Admissible(r)'
  <1>1. /\ r \in Request /\ Known(r) /\ HasEntry(r) /\ r.entry \in EntryIds
        /\ Exists(r.entry) /\ <<"entry", r.entry>> \notin h /\ EntryFrame(h) /\ TablesOK
        /\ r.op = "decide" => <<"driver", entry[r.entry].driver>> \notin h
    BY ClaimsApart DEF Sure, HasEntry, Known, Frame, Tidy
  <1>2. Permitted(r.user, r.op) => Permitted(r.user, r.op)'
    BY DEF Frame, people, Permitted
  <1>3. entry'[r.entry] = entry[r.entry]
    BY <1>1 DEF EntryFrame
  <1>4. \A c : c \in correction' /\ c.entry = r.entry <=> c \in correction /\ c.entry = r.entry
    BY <1>1 DEF Frame
  <1>5. CASE r.op = "request"
    <2>1. PendingOn(r.entry)' = PendingOn(r.entry)
      BY <1>4 DEF PendingOn
    <2>2. CanRequest(r)'
      BY <1>2, <1>3, <1>5, <2>1 DEF Sure, Admissible, CanRequest, Exists
    <2>3. QED
      BY <1>5, <2>2 DEF Admissible
  <1>6. CASE r.op = "decide"
    <2>1. Undecided(r)' = Undecided(r)
      BY <1>4 DEF Undecided
    <2>2. entry[r.entry].driver \in Drivers
      BY <1>1 DEF TablesOK, EntryRow
    <2>3. \A x : Clear(entry[r.entry].driver, x, r.entry) =>
                  Clear(entry[r.entry].driver, x, r.entry)'
      <3>1. PICK d \in Drivers : d = entry[r.entry].driver
        BY <2>2
      <3>2. \A x : Clear(d, x, r.entry) => Clear(d, x, r.entry)'
        BY <1>1, <1>6, <3>1, ClearStays
      <3>3. QED
        BY <1>3, <3>1, <3>2
    <2>4. CanDecide(r)'
      BY <1>2, <1>3, <1>6, <2>1, <2>3 DEF Sure, Admissible, CanDecide
    <2>5. QED
      BY <1>6, <2>4 DEF Admissible
  <1>7. QED
    BY <1>5, <1>6

LEMMA StableOffice ==
    ASSUME Tidy, NEW r, Sure(r), NEW h, Frame(h), Disjoint(r, h),
           r.op \in {"create", "update", "approve"}
    PROVE  Admissible(r)'
  <1>1. r \in Request /\ Known(r) /\ EntryFrame(h) /\ TablesOK /\ driverActive' = driverActive
    BY DEF Sure, Frame, Tidy, people
  <1>2. r.op \in {"create", "update"} => r.driver \in Drivers /\ <<"driver", r.driver>> \notin h
    BY <1>1, RequestShape, ClaimsApart
  <1>3. r.op \in {"update", "approve"} =>
          /\ r.entry \in EntryIds /\ entry'[r.entry] = entry[r.entry]
          /\ <<"entry", r.entry>> \notin h
    BY <1>1, ClaimsApart DEF HasEntry, Known, EntryFrame
  <1>4. CASE r.op = "create"
    <2>1. CanCreate(r)'
      BY <1>1, <1>2, <1>4, ClearStays DEF Sure, Admissible, CanCreate
    <2>2. QED
      BY <1>4, <2>1 DEF Admissible
  <1>5. CASE r.op = "update"
    <2>1. Clear(r.driver, r.span, r.entry)'
      BY <1>1, <1>2, <1>5, ClearStays DEF Sure, Admissible, CanUpdate
    <2>2. (\A c \in correction : c.entry # r.entry) => (\A c \in correction' : c.entry # r.entry)
      BY <1>3, <1>5 DEF Frame
    <2>3. CanUpdate(r)'
      BY <1>1, <1>3, <1>5, <2>1, <2>2 DEF Sure, Admissible, CanUpdate
    <2>4. QED
      BY <1>5, <2>3 DEF Admissible
  <1>6. CASE r.op = "approve"
    <2>1. CanApprove(r)'
      BY <1>3, <1>6 DEF Sure, Admissible, CanApprove
    <2>2. QED
      BY <1>6, <2>1 DEF Admissible
  <1>7. QED
    BY <1>4, <1>5, <1>6

LEMMA Stable ==
    ASSUME Tidy, NEW r, Sure(r), NEW h, Frame(h), Disjoint(r, h)
    PROVE  Admissible(r)'
  <1>1. r.op \in AllOps \ {"staff"}
    BY RequestShape DEF Sure
  <1>2. QED
    BY <1>1, StableClock, StableCorrection, StableOffice DEF AllOps, TimeOps

(* A change to driver d, whose rows the session does not hold.             *)
LEMMA StableStaff ==
    ASSUME TablesOK, NEW r, Sure(r), NEW g, Claims(r) \subseteq g, NEW d \in Drivers, Staff(d),
           <<"driver", d>> \notin g, <<"member", d>> \notin g
    PROVE  Admissible(r)'
  <1>1. /\ r \in Request /\ Known(r) /\ UNCHANGED sheets
        /\ \A u \in Users \ {d} : member'[u] = member[u]
        /\ \A c \in Drivers \ {d} : driverActive'[c] = driverActive[c]
    BY DEF Sure, Staff, TablesOK
  <1>2. Rechecked(r) => r.user \in Users \ {d}
    BY <1>1, RequestShape, ClaimedRows
  <1>3. r.op \in {"create", "update"} => r.driver \in Drivers \ {d}
    BY <1>1, RequestShape, ClaimedRows
  <1>4. OwnOnly(r) => r.user \in Drivers \ {d} /\ Rechecked(r)
    BY <1>1, <1>2, OwnShape DEF OwnOnly, Rechecked
  <1>5. Rechecked(r) /\ Permitted(r.user, r.op) => Permitted(r.user, r.op)'
    BY <1>1, <1>2, <1>4 DEF Permitted, RoleFor, OwnOnly
  <1>6. entry' = entry /\ event' = event /\ correction' = correction
    BY <1>1 DEF sheets
  <1>7. CASE r.op = "start"
    BY <1>5, <1>6, <1>7
    DEF Sure, Admissible, CanStart, Rechecked, ClockOps, Booked, Exists
  <1>8. CASE r.op \in {"pause", "resume", "finish"}
    BY <1>5, <1>6, <1>8
    DEF Sure, Admissible, CanPunch, Rechecked, ClockOps, Booked, Exists, LastTimes
  <1>9. CASE r.op = "request"
    BY <1>5, <1>6, <1>9 DEF Sure, Admissible, CanRequest, Rechecked, Exists, PendingOn
  <1>10. CASE r.op = "decide"
    BY <1>5, <1>6, <1>10
    DEF Sure, Admissible, CanDecide, Rechecked, Undecided, Clear, Exists
  <1>11. CASE r.op \in {"create", "update", "approve"}
    BY <1>1, <1>3, <1>6, <1>11
    DEF Sure, Admissible, CanCreate, CanUpdate, CanApprove, Clear, Exists
  <1>12. QED
    BY <1>1, <1>7, <1>8, <1>9, <1>10, <1>11, RequestShape DEF AllOps, ClockOps, TimeOps

-----------------------------------------------------------------------------
(* The invariant.                                                          *)

SessionsOK ==
    /\ phase \in [Sessions -> {"idle", "locking", "checked"}]
    /\ req \in [Sessions -> Request \cup {Nil}]
    /\ todo \in [Sessions -> SUBSET Rows]
    /\ held \in [Sessions -> SUBSET Rows]

LEMMA TypeParts == TypeOK <=> TablesOK /\ SessionsOK
  BY DEF TypeOK, TablesOK, SessionsOK

LEMMA Parts ==
    ASSUME IInv
    PROVE  Tidy /\ TablesOK /\ SessionsOK /\ Busy /\ Exclusive /\ Covered /\ ChecksStand
  BY TypeParts DEF IInv, Tidy

LEMMA InitInv == Init => IInv
  <1> SUFFICES ASSUME Init PROVE IInv
    OBVIOUS
  <1>1. /\ NoEntry \in EntryRow /\ NoEntry.status = "ABSENT" /\ NoEntry.clock = "NONE"
        /\ NoEntry.version = 0 /\ NoEntry.paused = Nil
    <2>1. (CHOOSE d \in Drivers : TRUE) \in Drivers /\ (CHOOSE t \in Times : TRUE) \in Times
      BY TimeAssumption
    <2>2. QED
      BY <2>1 DEF NoEntry, EntryRow
  <1>2. TypeOK
    BY <1>1 DEF Init, TypeOK, MemberRow
  <1>3. Busy /\ Exclusive /\ Covered /\ ChecksStand
    BY DEF Init, Busy, UnderWay, Exclusive, Covered, Cover, ChecksStand
  <1>4. RowsSound
    BY <1>1 DEF Init, RowsSound, EntrySound, Exists
  <1>5. NoOverlap /\ BookedOnce
    BY <1>1 DEF Init, NoOverlap, BookedOnce, Exists
  <1>6. QED
    BY <1>2, <1>3, <1>4, <1>5 DEF IInv

-----------------------------------------------------------------------------
(* What locks give.                                                        *)

(* A driver's request that passes its checks did not miss its entry.       *)
LEMMA NotMissed ==
    ASSUME TablesOK, NEW r, r \in Request, Known(r), Admissible(r)
    PROVE  ~ Missed(r)
  <1>1. SUFFICES ASSUME OwnOnly(r), HasEntry(r)
                 PROVE  entry[r.entry].driver = r.user /\ ~ (r.version < entry[r.entry].version)
    BY DEF Missed
  <1>2. entry[r.entry].driver = r.user /\ entry[r.entry].version = r.version
    BY <1>1 DEF OwnOnly, HasEntry, ClockOps, Admissible, CanPunch, CanRequest
  <1>3. r.version \in Nat
    BY <1>1, OwnShape
  <1>4. QED
    BY <1>2, <1>3

LEMMA CheckedHolds ==
    ASSUME IInv, NEW s \in Sessions, phase[s] = "checked"
    PROVE  Sure(req[s]) /\ Claims(req[s]) \subseteq held[s]
  <1>1. /\ req[s] \in Request /\ Known(req[s]) /\ Admissible(req[s]) /\ todo[s] = {}
        /\ Sure(req[s])
    BY Parts DEF Busy, UnderWay, ChecksStand, Covered, Cover, Sure
  <1>2. ~ Missed(req[s])
    BY <1>1, Parts, NotMissed
  <1>3. Locks(req[s]) \subseteq held[s]
    BY <1>1, <1>2, Parts DEF Covered, Cover, UnderWay
  <1>4. HasEntry(req[s]) => <<"entry", req[s].entry>> \in held[s]
    BY <1>1, <1>3 DEF Locks, Known
  <1>5. HasEntry(req[s]) => Learnt(req[s]) \subseteq held[s]
    BY <1>1, <1>4, Parts DEF Covered, Cover, UnderWay
  <1>6. QED
    BY <1>1, <1>3, <1>5 DEF Claims

LEMMA HoldersApart ==
    ASSUME IInv, NEW s \in Sessions, NEW t \in Sessions, s # t, phase[t] = "checked"
    PROVE  Disjoint(req[t], held[s])
  BY CheckedHolds, Parts DEF Disjoint, Exclusive

(* The time a transaction reads changes nothing else of its request.       *)
LEMMA Stamping ==
    ASSUME NEW q, q \in Request, Known(q), NEW r \in Stamped(q)
    PROVE  /\ r \in Request /\ Known(r) /\ Locks(r) = Locks(q) /\ Learnt(r) = Learnt(q)
           /\ HasEntry(r) <=> HasEntry(q)
           /\ HasEntry(r) => r.entry = q.entry
           /\ Missed(r) <=> Missed(q)
           /\ OwnOnly(r) => r.at \in Times
           /\ r.op = q.op
  <1>1. CASE ~ OwnOnly(q)
    BY <1>1 DEF Stamped
  <1>2. CASE OwnOnly(q)
    <2>1. PICK t \in Times : r = [q EXCEPT !.at = t]
      BY <1>2 DEF Stamped
    <2>2. t \in Nat
      BY TimeAssumption
    <2>3. CASE q.op \in ClockOps
      <3>1. q \in ClockRequest
        BY <2>3, RequestShape
      <3>2. /\ r \in ClockRequest /\ r.op = q.op /\ r.user = q.user /\ r.rid = q.rid
            /\ r.entry = q.entry /\ r.version = q.version /\ r.at = t
        BY <2>1, <2>2, <3>1 DEF ClockRequest
      <3>3. r \in Request
        BY <3>2 DEF Request
      <3>4. QED
        BY <2>3, <3>2, <3>3
        DEF Known, Locks, Learnt, HasEntry, OwnOnly, Rechecked, Missed, ClockOps
    <2>4. CASE q.op = "request"
      <3> DEFINE R == [op : {"request"}, user : Drivers, id : CorrectionIds, entry : EntryIds,
                       version : Nat, proposal : Span, at : Nat]
      <3>1. q \in R
        BY <2>4 DEF Request, ClockRequest, CorrectionRequest, TimeRequest, ClockOps
      <3>2. /\ r \in R /\ r.op = q.op /\ r.user = q.user /\ r.id = q.id
            /\ r.entry = q.entry /\ r.version = q.version /\ r.proposal = q.proposal /\ r.at = t
        BY <2>1, <2>2, <3>1
      <3>3. r \in Request
        BY <3>2 DEF Request, CorrectionRequest
      <3>4. QED
        BY <2>4, <3>2, <3>3
        DEF Known, Locks, Learnt, HasEntry, OwnOnly, Rechecked, Missed, ClockOps
    <2>5. QED
      BY <1>2, <2>3, <2>4 DEF OwnOnly
  <1>3. QED
    BY <1>1, <1>2

-----------------------------------------------------------------------------
(* Steps that change no table.                                             *)

LEMMA SameTables ==
    ASSUME Tidy, UNCHANGED tables
    PROVE  /\ Tidy'
           /\ \A r : /\ Known(r)' <=> Known(r)
                     /\ Admissible(r)' <=> Admissible(r)
                     /\ Missed(r)' <=> Missed(r)
                     /\ Learnt(r)' = Learnt(r)
  <1>1. /\ entry' = entry /\ event' = event /\ correction' = correction
        /\ driverActive' = driverActive /\ member' = member
    BY DEF tables
  <1>2. TablesOK'
    BY <1>1 DEF Tidy, TablesOK
  <1>3. RowsSound'
    <2>1. \A i \in EntryIds : EntrySound(i)'
      BY <1>1 DEF Tidy, RowsSound, EntrySound, Exists
    <2>2. \A c \in correction' : CorrectionSound(c)'
      BY <1>1 DEF Tidy, RowsSound, CorrectionSound, Exists
    <2>3. QED
      BY <1>1, <2>1, <2>2 DEF Tidy, RowsSound, Exists
  <1>4. NoOverlap' /\ BookedOnce'
    BY <1>1 DEF Tidy, NoOverlap, BookedOnce, Exists
  <1>5. ASSUME NEW r
        PROVE  /\ Known(r)' <=> Known(r)
               /\ Missed(r)' <=> Missed(r)
               /\ Learnt(r)' = Learnt(r)
    BY <1>1 DEF Known, Exists, Missed, Learnt
  <1>6. ASSUME NEW r PROVE Admissible(r)' <=> Admissible(r)
    BY <1>1
    DEF Admissible, CanStart, CanPunch, CanRequest, CanDecide, CanCreate, CanUpdate, CanApprove,
        Permitted, Booked, Exists, LastTimes, PendingOn, Undecided, Clear
  <1>7. QED
    BY <1>2, <1>3, <1>4, <1>5, <1>6 DEF Tidy

(* A step of session s that leaves the tables and the other sessions alone.*)
LEMMA SessionStep ==
    ASSUME IInv, NEW s \in Sessions, UNCHANGED tables, SessionsOK',
           \A t \in Sessions \ {s} : /\ phase'[t] = phase[t] /\ req'[t] = req[t]
                                     /\ todo'[t] = todo[t] /\ held'[t] = held[t],
           UnderWay(s)' => req'[s] \in Request /\ Known(req'[s]),
           \A t \in Sessions \ {s} : \A row \in held'[s] \cap held[t] : row[1] = "member",
           Cover(s)', phase'[s] = "checked" => Admissible(req'[s])
    PROVE  IInv'
  <1>1. Tidy'
    BY Parts, SameTables
  <1>2. Busy'
    <2>1. SUFFICES ASSUME NEW t \in Sessions, UnderWay(t)'
                   PROVE  req'[t] \in Request /\ Known(req[t])'
      BY DEF Busy
    <2>2. req'[t] \in Request /\ Known(req'[t])
      BY <2>1, Parts DEF Busy, UnderWay
    <2>3. PICK r : r = req'[t]
      OBVIOUS
    <2>4. Known(r) /\ Known(r)'
      BY <2>2, <2>3, Parts, SameTables
    <2>5. QED
      BY <2>2, <2>3, <2>4 DEF Known, Exists
  <1>3. Exclusive'
    BY Parts DEF Exclusive
  <1>4. Covered'
    <2>1. SUFFICES ASSUME NEW t \in Sessions \ {s} PROVE Cover(t)'
      BY DEF Covered
    <2>2. Cover(t)
      BY Parts DEF Covered
    <2>3. /\ Missed(req[t])' <=> Missed(req[t])
          /\ Learnt(req[t])' = Learnt(req[t])
          /\ Locks(req[t])' = Locks(req[t])
      BY DEF tables, Missed, Learnt, Locks
    <2>4. QED
      BY <2>2, <2>3 DEF Cover, UnderWay
  <1>5. ChecksStand'
    <2>1. SUFFICES ASSUME NEW t \in Sessions, phase'[t] = "checked"
                   PROVE  Admissible(req[t])'
      BY DEF ChecksStand
    <2>2. Admissible(req'[t])
      BY <2>1, Parts DEF ChecksStand
    <2>3. PICK r : r = req'[t]
      OBVIOUS
    <2>4. Admissible(r)'
      BY <2>2, <2>3, Parts, SameTables
    <2>5. QED
      BY <2>3, <2>4
      DEF Admissible, CanStart, CanPunch, CanRequest, CanDecide, CanCreate, CanUpdate, CanApprove,
          Permitted, Booked, Exists, LastTimes, PendingOn, Undecided, Clear
  <1>6. QED
    BY <1>1, <1>2, <1>3, <1>4, <1>5, TypeParts DEF IInv, Tidy, TypeOK, TablesOK, SessionsOK

LEMMA ArrivingRequest ==
    ASSUME IInv, NEW s \in Sessions, Arrive(s)
    PROVE  \E r \in Request : Known(r) /\ Begin(s, r)
  <1>1. Tidy /\ TablesOK
    BY Parts
  <1>2. CASE BeginPunch(s)
    <2>0. PICK u \in Drivers : \E r \in Commands(u) :
            /\ IF r.op = "start" THEN Room ELSE r.version <= entry[r.entry].version
            /\ Begin(s, r)
      BY <1>2 DEF BeginPunch
    <2>1. PICK r \in Commands(u) :
            /\ IF r.op = "start" THEN Room ELSE r.version <= entry[r.entry].version
            /\ Begin(s, r)
      BY <2>0
    <2>2. CASE r.op = "start"
      <3>1. r \in ClockRequest /\ r.version = 0
        BY <2>1, <2>2 DEF Commands, ClockRequest, ClockOps
      <3>2. QED
        BY <2>1, <2>2, <3>1 DEF Request, Known, HasEntry
    <2>3. CASE r.op # "start"
      <3>1. PICK o \in {"pause", "resume", "finish"}, i \in RequestIds,
                 e \in {x \in EntryIds : entry[x].driver = u /\ entry[x].clock # "NONE"},
                 v \in 1..MaxVersion :
              r = [op |-> o, user |-> u, rid |-> i, entry |-> e, version |-> v, at |-> 0]
        BY <2>1, <2>3 DEF Commands
      <3>2. v \in Nat
        BY TimeAssumption
      <3>3. r \in ClockRequest
        BY <3>1, <3>2 DEF ClockRequest, ClockOps
      <3>4. Exists(e)
        BY <1>1, <3>1 DEF Tidy, RowsSound, EntrySound
      <3>5. Known(r)
        BY <2>1, <2>3, <3>1, <3>4 DEF Known
      <3>6. QED
        BY <2>1, <3>3, <3>5 DEF Request
    <2>4. QED
      BY <2>2, <2>3
  <1>3. CASE BeginRequest(s)
    <2>1. PICK u \in Drivers, i \in CorrectionIds, e \in EntryIds, x \in Proposals,
               v \in 1..MaxVersion :
            /\ x.end # Nil
            /\ Exists(e) /\ entry[e].driver = u /\ v <= entry[e].version
            /\ Begin(s, [op |-> "request", user |-> u, id |-> i, entry |-> e,
                         version |-> v, proposal |-> x, at |-> 0])
      BY <1>3 DEF BeginRequest
    <2>2. v \in Nat /\ x \in Span
      BY TimeAssumption
    <2> DEFINE r == [op |-> "request", user |-> u, id |-> i, entry |-> e,
                     version |-> v, proposal |-> x, at |-> 0]
    <2>3. r \in CorrectionRequest
      BY <2>2 DEF CorrectionRequest
    <2>4. Known(r)
      BY <2>1 DEF Known
    <2>5. QED
      BY <2>1, <2>3, <2>4 DEF Request
  <1>4. CASE BeginDecide(s)
    <2>1. PICK u \in Users, c \in correction, verdict \in {"APPROVED", "REJECTED"} :
            Begin(s, [op |-> "decide", user |-> u, id |-> c.id,
                      entry |-> c.entry, verdict |-> verdict, at |-> 0])
      BY <1>4 DEF BeginDecide
    <2>2. c \in CorrectionRow /\ Exists(c.entry)
      BY <1>1 DEF Tidy, TablesOK, RowsSound, CorrectionSound
    <2> DEFINE r == [op |-> "decide", user |-> u, id |-> c.id,
                     entry |-> c.entry, verdict |-> verdict, at |-> 0]
    <2>3. r \in CorrectionRequest
      BY <2>2 DEF CorrectionRequest, CorrectionRow
    <2>4. Known(r)
      BY <2>2 DEF Known, OwnOnly, ClockOps, CorrectionRow
    <2>5. QED
      BY <2>1, <2>3, <2>4 DEF Request
  <1>5. CASE BeginCreate(s)
    <2>1. PICK u \in Users, d \in Drivers, x \in Proposals :
            /\ Proper(x)
            /\ Begin(s, [op |-> "create", user |-> u, driver |-> d, span |-> x, at |-> 0])
      BY <1>5 DEF BeginCreate
    <2> DEFINE r == [op |-> "create", user |-> u, driver |-> d, span |-> x, at |-> 0]
    <2>2. r \in TimeRequest
      BY TimeAssumption DEF TimeRequest
    <2>3. Known(r)
      BY <2>1 DEF Known, HasEntry
    <2>4. QED
      BY <2>1, <2>2, <2>3 DEF Request
  <1>6. CASE BeginUpdate(s)
    <2>1. PICK u \in Users, d \in Drivers, x \in Proposals, i \in EntryIds :
            /\ Exists(i) /\ entry[i].version < MaxVersion
            /\ Proper(x)
            /\ Begin(s, [op |-> "update", user |-> u, entry |-> i, driver |-> d,
                         span |-> x, at |-> 0])
      BY <1>6 DEF BeginUpdate
    <2> DEFINE r == [op |-> "update", user |-> u, entry |-> i, driver |-> d,
                     span |-> x, at |-> 0]
    <2>2. r \in TimeRequest
      BY TimeAssumption DEF TimeRequest
    <2>3. Known(r)
      BY <2>1 DEF Known, OwnOnly, ClockOps
    <2>4. QED
      BY <2>1, <2>2, <2>3 DEF Request
  <1>7. CASE BeginApprove(s)
    <2>1. PICK u \in Users, i \in EntryIds :
            /\ Exists(i)
            /\ Begin(s, [op |-> "approve", user |-> u, entry |-> i, saw |-> entry[i],
                         at |-> 0])
      BY <1>7 DEF BeginApprove
    <2>2. PICK r : r = [op |-> "approve", user |-> u, entry |-> i, saw |-> entry[i], at |-> 0]
      OBVIOUS
    <2>3. entry[i] \in EntryRow /\ entry[i].version <= entry[i].version
      BY <1>1 DEF TablesOK, EntryRow
    <2>4. r \in TimeRequest
      BY <2>2, <2>3 DEF TimeRequest
    <2>5. Known(r)
      BY <2>1, <2>2, <2>3 DEF Known, OwnOnly, ClockOps
    <2>6. QED
      BY <2>1, <2>2, <2>4, <2>5 DEF Request
  <1>8. QED
    BY <1>2, <1>3, <1>4, <1>5, <1>6, <1>7 DEF Arrive

LEMMA ArriveStep == ASSUME IInv, NEW s \in Sessions, Arrive(s) PROVE IInv'
  <1>1. PICK r \in Request : Known(r) /\ Begin(s, r)
    BY ArrivingRequest
  <1>2. /\ SessionsOK /\ TablesOK /\ held[s] = {} /\ phase[s] = "idle"
    BY Parts DEF Arrive, Covered, Cover, UnderWay
  <1>3. /\ phase'[s] = "locking" /\ req'[s] = r /\ todo'[s] = Locks(r) /\ held'[s] = {}
        /\ \A t \in Sessions \ {s} : /\ phase'[t] = phase[t] /\ req'[t] = req[t]
                                     /\ todo'[t] = todo[t] /\ held'[t] = held[t]
        /\ UNCHANGED tables
    BY <1>1, <1>2 DEF Begin, SessionsOK
  <1>4. Locks(r) \subseteq Rows
    BY <1>1, <1>2, LocksType DEF Known
  <1>5. SessionsOK'
    BY <1>1, <1>2, <1>4 DEF Begin, SessionsOK
  <1>6. Cover(s)'
    BY <1>3 DEF Cover, UnderWay, Locks
  <1>7. QED
    BY <1>1, <1>3, <1>5, <1>6, SessionStep

LEMMA LockStep == ASSUME IInv, NEW s \in Sessions, LockRow(s) PROVE IInv'
  <1>1. PICK row \in todo[s] :
          /\ phase[s] = "locking" /\ Free(s, row)
          /\ held' = [held EXCEPT ![s] = @ \cup {row}]
          /\ todo' = [todo EXCEPT ![s] = (@ \ {row})
                         \cup {q \in Learnt(req[s]) : row[1] = "entry"}]
          /\ UNCHANGED <<tables, phase, req>>
    BY DEF LockRow, NextLock
  <1>2. /\ SessionsOK /\ TablesOK /\ UnderWay(s) /\ req[s] \in Request /\ Known(req[s])
        /\ Cover(s) /\ Exclusive
    BY <1>1, Parts DEF Busy, UnderWay, Covered
  <1>3. /\ \A t \in Sessions \ {s} : /\ phase'[t] = phase[t] /\ req'[t] = req[t]
                                     /\ todo'[t] = todo[t] /\ held'[t] = held[t]
        /\ phase'[s] = "locking" /\ req' = req
        /\ held'[s] = held[s] \cup {row}
        /\ todo'[s] = (todo[s] \ {row}) \cup {q \in Learnt(req[s]) : row[1] = "entry"}
        /\ UNCHANGED tables
    BY <1>1, <1>2 DEF SessionsOK
  <1>4. Learnt(req[s]) \subseteq Rows
    BY <1>2, LocksType DEF Known
  <1>5. SessionsOK'
    <2>1. row \in Rows
      BY <1>2 DEF SessionsOK
    <2>2. QED
      BY <1>1, <1>2, <1>4, <2>1 DEF SessionsOK
  <1>6. \A t \in Sessions \ {s} : \A q \in held'[s] \cap held[t] : q[1] = "member"
    BY <1>1, <1>2, <1>3 DEF Exclusive, Free
  <1>7. Cover(s)'
    <2>1. /\ Missed(req[s])' <=> Missed(req[s])
          /\ Learnt(req[s])' = Learnt(req[s])
          /\ Locks(req[s])' = Locks(req[s])
      BY <1>3 DEF tables, Missed, Learnt, Locks
    <2>2. \A q \in Locks(req[s]) :
             q \in held'[s] \cup todo'[s] \/ (q[1] = "entry" /\ Missed(req[s]))
      BY <1>2, <1>3 DEF Cover
    <2>3. HasEntry(req[s]) /\ <<"entry", req[s].entry>> \in held'[s] =>
             Learnt(req[s]) \subseteq held'[s] \cup todo'[s]
      BY <1>2, <1>3 DEF Cover
    <2>4. QED
      BY <1>3, <2>1, <2>2, <2>3 DEF Cover, UnderWay
  <1>8. QED
    BY <1>2, <1>3, <1>5, <1>6, <1>7, SessionStep

LEMMA MissStep == ASSUME IInv, NEW s \in Sessions, MissRow(s) PROVE IInv'
  <1>1. PICK row \in todo[s] :
          /\ phase[s] = "locking"
          /\ OwnOnly(req[s]) /\ row[1] = "entry" /\ entry[row[2]].driver # req[s].user
          /\ todo' = [todo EXCEPT ![s] = @ \ {row}]
          /\ UNCHANGED <<tables, phase, req, held>>
    BY DEF MissRow, NextLock
  <1>2. /\ SessionsOK /\ UnderWay(s) /\ req[s] \in Request /\ Known(req[s])
        /\ Cover(s) /\ Exclusive
    BY <1>1, Parts DEF Busy, UnderWay, Covered
  <1>3. /\ \A t \in Sessions \ {s} : /\ phase'[t] = phase[t] /\ req'[t] = req[t]
                                     /\ todo'[t] = todo[t] /\ held'[t] = held[t]
        /\ phase'[s] = "locking" /\ req' = req /\ held' = held
        /\ todo'[s] = todo[s] \ {row}
        /\ UNCHANGED tables
    BY <1>1, <1>2 DEF SessionsOK
  <1>4. SessionsOK'
    BY <1>1, <1>2 DEF SessionsOK
  <1>5. Cover(s)'
    <2>1. /\ Missed(req[s])' <=> Missed(req[s])
          /\ Learnt(req[s])' = Learnt(req[s])
          /\ Locks(req[s])' = Locks(req[s])
      BY <1>3 DEF tables, Missed, Learnt, Locks
    <2>2. row \in Locks(req[s]) => Missed(req[s])
      BY <1>1 DEF Locks, Missed
    <2>3. Learnt(req[s]) \subseteq {"driver"} \X Drivers
      BY DEF Learnt
    <2>4. QED
      BY <1>1, <1>2, <1>3, <2>1, <2>2, <2>3 DEF Cover, UnderWay
  <1>6. QED
    BY <1>2, <1>3, <1>4, <1>5, SessionStep DEF Exclusive

LEMMA CheckStep == ASSUME IInv, NEW s \in Sessions, Check(s) PROVE IInv'
  <1>1. PICK r \in Stamped(req[s]) :
          /\ phase[s] = "locking" /\ todo[s] = {} /\ Admissible(r)
          /\ req' = [req EXCEPT ![s] = r]
          /\ phase' = [phase EXCEPT ![s] = "checked"]
          /\ UNCHANGED <<tables, todo, held>>
    BY DEF Check, Ready
  <1>2. /\ SessionsOK /\ UnderWay(s) /\ req[s] \in Request /\ Known(req[s])
        /\ Cover(s) /\ Exclusive
    BY <1>1, Parts DEF Busy, UnderWay, Covered
  <1>3. /\ \A t \in Sessions \ {s} : /\ phase'[t] = phase[t] /\ req'[t] = req[t]
                                     /\ todo'[t] = todo[t] /\ held'[t] = held[t]
        /\ phase'[s] = "checked" /\ req'[s] = r /\ held' = held /\ todo' = todo
        /\ UNCHANGED tables
    BY <1>1, <1>2 DEF SessionsOK
  <1>4. /\ r \in Request /\ Known(r) /\ Locks(r) = Locks(req[s]) /\ Learnt(r) = Learnt(req[s])
        /\ HasEntry(r) <=> HasEntry(req[s])
        /\ HasEntry(r) => r.entry = req[s].entry
        /\ Missed(r) <=> Missed(req[s])
        /\ OwnOnly(r) => r.at \in Times
    BY <1>1, <1>2, Stamping
  <1>5. SessionsOK'
    BY <1>1, <1>2, <1>4 DEF SessionsOK
  <1>6. Cover(s)'
    <2>1. /\ Missed(req[s])' <=> Missed(r)
          /\ Learnt(req[s])' = Learnt(r)
          /\ Locks(req[s])' = Locks(r)
      BY <1>3 DEF tables, Missed, Learnt, Locks
    <2>2. QED
      BY <1>1, <1>2, <1>3, <1>4, <2>1 DEF Cover, UnderWay
  <1>7. QED
    BY <1>1, <1>2, <1>3, <1>4, <1>5, <1>6, SessionStep DEF Exclusive

LEMMA EndStep ==
    ASSUME IInv, NEW s \in Sessions, End(s), UNCHANGED tables
    PROVE  IInv'
  <1>1. SessionsOK
    BY Parts
  <1>2. /\ \A t \in Sessions \ {s} : /\ phase'[t] = phase[t] /\ req'[t] = req[t]
                                     /\ todo'[t] = todo[t] /\ held'[t] = held[t]
        /\ phase'[s] = "idle" /\ held'[s] = {} /\ SessionsOK'
    BY <1>1 DEF End, SessionsOK
  <1>3. Cover(s)'
    BY <1>2 DEF Cover, UnderWay
  <1>4. QED
    BY <1>2, <1>3, SessionStep DEF UnderWay

-----------------------------------------------------------------------------
(* Steps that change tables.                                               *)

LEMMA CommitStep == ASSUME IInv, NEW s \in Sessions, Commit(s) PROVE IInv'
  <1> DEFINE r == req[s]
             h == held[s]
  <1>1. /\ Tidy /\ TablesOK /\ SessionsOK /\ Busy /\ Exclusive /\ Covered /\ ChecksStand
        /\ Sure(r) /\ Claims(r) \subseteq h /\ Write(r) /\ End(s)
    BY Parts, CheckedHolds DEF Commit
  <1>2. Tidy' /\ TablesOK' /\ Frame(h) /\ EntryFrame(h)
    BY <1>1, WriteKeeps, WriteFrame DEF Tidy, Frame
  <1>3. /\ \A t \in Sessions \ {s} : /\ phase'[t] = phase[t] /\ req'[t] = req[t]
                                     /\ todo'[t] = todo[t] /\ held'[t] = held[t]
        /\ phase'[s] = "idle" /\ held'[s] = {} /\ SessionsOK'
    BY <1>1 DEF End, SessionsOK
  <1>4. Busy'
    <2>1. SUFFICES ASSUME NEW t \in Sessions \ {s}, UnderWay(t)
                   PROVE  req'[t] \in Request /\ Known(req[t])'
      BY <1>3 DEF Busy, UnderWay
    <2>2. PICK q : q = req[t]
      OBVIOUS
    <2>3. q \in Request /\ Known(q)'
      BY <1>1, <1>2, <2>1, <2>2, KnownStays DEF Busy
    <2>4. QED
      BY <1>3, <2>2, <2>3 DEF Known, Exists
  <1>5. Exclusive'
    BY <1>1, <1>3 DEF Exclusive
  <1>6. Covered'
    <2>1. Cover(s)'
      BY <1>3 DEF Cover, UnderWay
    <2>2. ASSUME NEW t \in Sessions \ {s} PROVE Cover(t)'
      <3>1. Cover(t) /\ (UnderWay(t) => req[t] \in Request /\ Known(req[t]))
        BY <1>1 DEF Covered, Busy
      <3>2. PICK q : q = req[t] /\ q = req'[t]
        BY <1>3
      <3>3. CASE UnderWay(t)
        <4>1. Missed(q) => Missed(q)'
          <5>1. SUFFICES ASSUME Missed(q) PROVE Missed(q)'
            OBVIOUS
          <5>2. /\ q.entry \in EntryIds /\ q.version \in Nat
                /\ q.version <= entry[q.entry].version
            BY <3>1, <3>2, <3>3, <5>1, OwnShape DEF Known, Missed
          <5>3. entry[q.entry].version \in Nat /\ entry'[q.entry].version \in Nat
            BY <1>1, <1>2, <5>2 DEF TablesOK, EntryRow
          <5>4. entry'[q.entry] = entry[q.entry] \/
                entry[q.entry].version < entry'[q.entry].version
            BY <1>2, <5>2 DEF EntryFrame
          <5>5. QED
            BY <5>1, <5>2, <5>3, <5>4 DEF Missed
        <4>2. HasEntry(q) /\ <<"entry", q.entry>> \in held[t] => Learnt(q)' = Learnt(q)
          <5>1. SUFFICES ASSUME HasEntry(q), <<"entry", q.entry>> \in held[t]
                         PROVE  Learnt(q)' = Learnt(q)
            OBVIOUS
          <5>2. <<"entry", q.entry>> \notin h
            BY <1>1, <5>1 DEF Exclusive
          <5>3. entry'[q.entry] = entry[q.entry]
            BY <1>2, <3>1, <3>2, <3>3, <5>1, <5>2 DEF EntryFrame, Known
          <5>4. QED
            BY <5>3 DEF Learnt
        <4>3. /\ Missed(req[t])' <=> Missed(q)'
              /\ Learnt(req[t])' = Learnt(q)'
              /\ Locks(req[t])' = Locks(q)
          BY <3>2 DEF Missed, Learnt, Locks
        <4>4. QED
          BY <1>3, <3>1, <3>2, <3>3, <4>1, <4>2, <4>3 DEF Cover, UnderWay
      <3>4. CASE ~ UnderWay(t)
        BY <1>3, <3>1, <3>4 DEF Cover, UnderWay
      <3>5. QED
        BY <3>3, <3>4
    <2>3. QED
      BY <2>1, <2>2 DEF Covered
  <1>7. ChecksStand'
    <2>1. SUFFICES ASSUME NEW t \in Sessions \ {s}, phase[t] = "checked"
                   PROVE  Admissible(req[t])'
      BY <1>3 DEF ChecksStand
    <2>2. PICK q : q = req[t] /\ q = req'[t]
      BY <1>3
    <2>3. Sure(q) /\ Disjoint(q, h)
      BY <2>1, <2>2, CheckedHolds, HoldersApart
    <2>4. Admissible(q)'
      BY <1>1, <1>2, <2>3, Stable
    <2>5. QED
      BY <2>2, <2>4
      DEF Admissible, CanStart, CanPunch, CanRequest, CanDecide, CanCreate, CanUpdate, CanApprove,
          Permitted, Booked, Exists, LastTimes, PendingOn, Undecided, Clear
  <1>8. QED
    BY <1>2, <1>3, <1>4, <1>5, <1>6, <1>7
    DEF IInv, Tidy, TypeOK, TablesOK, SessionsOK

LEMMA StaffStep == ASSUME IInv, NEW d \in Drivers, Staff(d) PROVE IInv'
  <1>1. /\ Tidy /\ TablesOK /\ SessionsOK /\ Busy /\ Exclusive /\ Covered /\ ChecksStand
    BY Parts
  <1>2. /\ entry' = entry /\ event' = event /\ correction' = correction
        /\ phase' = phase /\ req' = req /\ todo' = todo /\ held' = held
    BY DEF Staff, sheets
  <1>3. TablesOK'
    <2>1. driverActive' \in [Drivers -> BOOLEAN]
      <3>1. \/ driverActive' = driverActive
            \/ driverActive' = [driverActive EXCEPT ![d] = ~ driverActive[d]]
        BY DEF Staff
      <3>2. (~ driverActive[d]) \in BOOLEAN
        OBVIOUS
      <3>3. QED
        BY <1>1, <3>1, <3>2 DEF TablesOK
    <2>2. member' \in [Users -> MemberRow]
      <3>1. d \in Users /\ member[d] \in MemberRow
        BY <1>1 DEF Users, TablesOK
      <3>2. \/ member' = member
            \/ member' = [member EXCEPT ![d].active = FALSE]
            \/ \E role \in {"ADMIN", "DRIVER"}, active \in BOOLEAN :
                  member' = [member EXCEPT ![d] = [role |-> role, active |-> active]]
        BY DEF Staff
      <3>3. \E m \in MemberRow : member' = member \/ member' = [member EXCEPT ![d] = m]
        <4>1. [member[d] EXCEPT !.active = FALSE] \in MemberRow
          BY <3>1 DEF MemberRow
        <4>2. \A role \in {"ADMIN", "DRIVER"}, active \in BOOLEAN :
                 [role |-> role, active |-> active] \in MemberRow
          BY DEF MemberRow
        <4>3. QED
          BY <3>1, <3>2, <4>1, <4>2
      <3>4. QED
        BY <1>1, <3>1, <3>3 DEF TablesOK
    <2>3. QED
      BY <1>1, <1>2, <2>1, <2>2 DEF TablesOK
  <1>4. RowsSound'
    <2>1. \A i \in EntryIds : EntrySound(i)'
      BY <1>1, <1>2 DEF Tidy, RowsSound, EntrySound, Exists
    <2>2. \A c \in correction' : CorrectionSound(c)'
      BY <1>1, <1>2 DEF Tidy, RowsSound, CorrectionSound, Exists
    <2>3. QED
      BY <1>1, <1>2, <2>1, <2>2 DEF Tidy, RowsSound, Exists
  <1>5. NoOverlap' /\ BookedOnce'
    BY <1>1, <1>2 DEF Tidy, NoOverlap, BookedOnce, Exists
  <1>6. Busy' /\ Exclusive' /\ Covered'
    BY <1>1, <1>2
    DEF Busy, UnderWay, Known, Exists, Exclusive, Covered, Cover, Missed, Learnt, Locks
  <1>7. ChecksStand'
    <2>1. SUFFICES ASSUME NEW t \in Sessions, phase[t] = "checked"
                   PROVE  Admissible(req[t])'
      BY <1>2 DEF ChecksStand
    <2>2. PICK q : q = req[t] /\ q = req'[t]
      BY <1>2
    <2>3. PICK g : g = held[t]
      OBVIOUS
    <2>4. /\ Sure(q) /\ Claims(q) \subseteq g
          /\ <<"driver", d>> \notin g /\ <<"member", d>> \notin g
      BY <2>1, <2>2, <2>3, CheckedHolds DEF Staff
    <2>5. Admissible(q)'
      BY <1>1, <2>4, StableStaff
    <2>6. QED
      BY <2>2, <2>5
      DEF Admissible, CanStart, CanPunch, CanRequest, CanDecide, CanCreate, CanUpdate, CanApprove,
          Permitted, Booked, Exists, LastTimes, PendingOn, Undecided, Clear
  <1>8. QED
    BY <1>1, <1>2, <1>3, <1>4, <1>5, <1>6, <1>7
    DEF IInv, TypeOK, TablesOK, SessionsOK

-----------------------------------------------------------------------------
(* IInv is inductive, so it holds of every reachable state.                *)
THEOREM Invariance == Spec => []IInv
  <1>1. Init => IInv
    BY InitInv
  <1>2. IInv /\ [Next]_vars => IInv'
    <2>1. SUFFICES ASSUME IInv, [Next]_vars PROVE IInv'
      OBVIOUS
    <2>2. CASE UNCHANGED vars
      <3>1. UNCHANGED tables /\ phase' = phase /\ req' = req /\ todo' = todo /\ held' = held
        BY <2>2 DEF vars, tables
      <3>2. CASE Sessions = {}
        BY <2>1, <3>1, <3>2, Parts, SameTables
        DEF IInv, Tidy, TypeOK, TablesOK, Busy, Exclusive, Covered, ChecksStand
      <3>3. CASE Sessions # {}
        <4>1. PICK s \in Sessions : TRUE
          BY <3>3
        <4>2. SessionsOK' /\ Cover(s)' /\ Cover(s)
          BY <2>1, <3>1, Parts
          DEF SessionsOK, Covered, Cover, UnderWay, Missed, Learnt, Locks, tables
        <4>3. QED
          BY <2>1, <3>1, <4>1, <4>2, Parts, SessionStep
          DEF Busy, UnderWay, Exclusive, ChecksStand
      <3>4. QED
        BY <3>2, <3>3
    <2>3. CASE \E s \in Sessions : Arrive(s) \/ LockRow(s) \/ MissRow(s) \/ Check(s)
      BY <2>1, <2>3, ArriveStep, LockStep, MissStep, CheckStep
    <2>4. CASE \E s \in Sessions : Replay(s) \/ Refuse(s) \/ Abort(s)
      BY <2>1, <2>4, EndStep DEF Replay, Refuse, Abort
    <2>5. CASE \E s \in Sessions : Commit(s)
      BY <2>1, <2>5, CommitStep
    <2>6. CASE \E d \in Drivers : Staff(d)
      BY <2>1, <2>6, StaffStep
    <2>7. QED
      BY <2>1, <2>2, <2>3, <2>4, <2>5, <2>6 DEF Next
  <1>3. QED
    BY <1>1, <1>2, PTL DEF Spec

(* Types: in particular breaks stay natural numbers and booked times are   *)
(* times the clock has shown, whatever it shows next.                      *)
THEOREM TypeCorrect == Spec => []TypeOK
  <1>1. IInv => TypeOK
    BY DEF IInv
  <1>2. QED
    BY <1>1, Invariance, PTL

(* What a transaction checked is still true when it commits.               *)
THEOREM ChecksAlwaysStand == Spec => []ChecksStand
  <1>1. IInv => ChecksStand
    BY DEF IInv
  <1>2. QED
    BY <1>1, Invariance, PTL

(* Recorded work of one driver never overlaps, whichever of the three      *)
(* services recorded it.                                                   *)
THEOREM WorkNeverOverlaps == Spec => []NoOverlap
  <1>1. IInv => NoOverlap
    BY DEF IInv
  <1>2. QED
    BY <1>1, Invariance, PTL

(* A clock command is booked at most once, however often it is sent.       *)
THEOREM CommandsBookedOnce == Spec => []BookedOnce
  <1>1. IInv => BookedOnce
    BY DEF IInv
  <1>2. QED
    BY <1>1, Invariance, PTL

(* Shifts end after they began and are longer than their breaks, also when *)
(* the server clock steps back.                                            *)
THEOREM ShiftsAlwaysProper == Spec => []ShiftsProper
  <1>1. IInv => ShiftsProper
    <2>1. SUFFICES ASSUME IInv, NEW i \in EntryIds, Exists(i)
                   PROVE  /\ Proper(entry[i])
                          /\ entry[i].paused # Nil =>
                                /\ entry[i].clock = "PAUSED"
                                /\ entry[i].break < entry[i].paused - entry[i].start
      BY DEF ShiftsProper
    <2>2. EntrySound(i)
      BY <2>1 DEF IInv, RowsSound
    <2>3. QED
      BY <2>1, <2>2 DEF EntrySound, Latest
  <1>2. QED
    BY <1>1, Invariance, PTL

(* One pending request for each shift, and no shift is corrected twice at  *)
(* one version.                                                            *)
THEOREM CorrectionsAlwaysSound == Spec => []CorrectionsSound
  <1>1. IInv => CorrectionsSound
    BY DEF IInv, RowsSound, CorrectionSound, CorrectionsSound
  <1>2. QED
    BY <1>1, Invariance, PTL

(* What is approved is what the approver was shown.                        *)
THEOREM DecisionsAsSeen == Spec => []DecidedAsSeen
  <1>1. IInv => DecidedAsSeen
    <2>1. SUFFICES ASSUME IInv, NEW s \in Sessions, phase[s] = "checked"
                   PROVE  /\ req[s].op = "approve" => entry[req[s].entry] = req[s].saw
                          /\ req[s].op = "decide" /\ req[s].verdict = "APPROVED" =>
                                \A c \in correction : c.id = req[s].id =>
                                   SpanOf(entry[c.entry]) = c.before
      BY DEF DecidedAsSeen
    <2>2. Known(req[s]) /\ Admissible(req[s])
      BY <2>1, CheckedHolds DEF Sure
    <2>3. req[s].op = "approve" => entry[req[s].entry] = req[s].saw
      BY <2>2 DEF Known, Admissible, CanApprove
    <2>4. ASSUME req[s].op = "decide", req[s].verdict = "APPROVED",
                 NEW c \in correction, c.id = req[s].id
          PROVE  SpanOf(entry[c.entry]) = c.before
      <3>1. PICK b \in Undecided(req[s]) : entry[req[s].entry].version = b.version
        BY <2>2, <2>4 DEF Admissible, CanDecide
      <3>2. b = c /\ c.entry = req[s].entry /\ c.status = "PENDING"
        BY <2>1, <2>4, <3>1 DEF Undecided, IInv, RowsSound, CorrectionSound
      <3>3. QED
        BY <2>1, <3>1, <3>2 DEF IInv, RowsSound, CorrectionSound
    <2>5. QED
      BY <2>3, <2>4
  <1>2. QED
    BY <1>1, Invariance, PTL

(* What a driver's sheet says can have been worked, and is booked once.    *)
THEOREM ShiftsAlwaysSound == Spec => []ShiftsSound
  <1>1. NoOverlap /\ ShiftsProper /\ BookedOnce => ShiftsSound
    BY DEF ShiftsSound
  <1>2. QED
    BY <1>1, WorkNeverOverlaps, ShiftsAlwaysProper, CommandsBookedOnce, PTL

(* Requests and decisions are about the shift as it was shown, once.       *)
THEOREM DecisionsAlwaysSound == Spec => []DecisionsSound
  <1>1. CorrectionsSound /\ DecidedAsSeen => DecisionsSound
    BY DEF DecisionsSound
  <1>2. QED
    BY <1>1, CorrectionsAlwaysSound, DecisionsAsSeen, PTL

-----------------------------------------------------------------------------
(* History.                                                                *)

LEMMA OneEntryHistory ==
    ASSUME Tidy, NEW i \in EntryIds, NEW e, entry' = [entry EXCEPT ![i] = e],
           event \subseteq event', correction \subseteq correction',
           SpanOf(e) # SpanOf(entry[i]) => e.status # "APPROVED" /\ entry[i].clock # "FINISHED"
    PROVE  HistoryStep
  BY DEF Tidy, TablesOK, HistoryStep

LEMMA WriteHistory == ASSUME Tidy, NEW r, Sure(r), Write(r) PROVE HistoryStep
  <1>1. r \in Request /\ Known(r) /\ TablesOK
    BY DEF Sure, Tidy
  <1>2. CASE r.op = "start"
    <2>1. PICK i \in EntryIds :
            /\ ~ Exists(i)
            /\ entry' = [entry EXCEPT ![i] =
                  [driver |-> r.user, start |-> r.at, end |-> Nil, break |-> 0,
                   clock |-> "RUNNING", paused |-> Nil, status |-> "OPEN", version |-> 1]]
            /\ event' = event \cup {EventOf(r, i)}
            /\ UNCHANGED <<people, correction>>
      BY <1>2 DEF Write, Start
    <2> DEFINE e == [driver |-> r.user, start |-> r.at, end |-> Nil, break |-> 0,
                     clock |-> "RUNNING", paused |-> Nil, status |-> "OPEN", version |-> 1]
    <2>2. e.status = "OPEN" /\ entry' = [entry EXCEPT ![i] = e]
      BY <2>1
    <2> HIDE DEF e
    <2>3. entry[i].clock = "NONE"
      BY <2>1 DEF Tidy, RowsSound, EntrySound
    <2>4. QED
      BY <2>1, <2>2, <2>3, OneEntryHistory
  <1>3. CASE r.op \in {"pause", "resume", "finish"}
    <2>1. /\ r.entry \in EntryIds
          /\ entry' = [entry EXCEPT ![r.entry] = Punched(entry[r.entry], r)]
          /\ event' = event \cup {EventOf(r, r.entry)}
          /\ UNCHANGED <<people, correction>>
      BY <1>1, <1>3 DEF Write, Punch, Known, HasEntry
    <2>2. /\ Punched(entry[r.entry], r).status # "APPROVED"
          /\ entry[r.entry].clock # "FINISHED"
      BY <1>1, <1>3, PunchedRow DEF Sure, Admissible, OwnOnly, ClockOps
    <2>3. QED
      BY <2>1, <2>2, OneEntryHistory
  <1>4. CASE r.op = "request"
    <2>1. /\ correction \subseteq correction' /\ UNCHANGED <<entry, event>>
      BY <1>4 DEF Write, AskFor
    <2>2. QED
      BY <2>1 DEF HistoryStep
  <1>5. CASE r.op = "decide"
    <2>1. PICK c \in Undecided(r) :
            /\ correction' = (correction \ {c}) \cup {[c EXCEPT !.status = r.verdict]}
            /\ entry' = IF r.verdict = "APPROVED"
                        THEN [entry EXCEPT ![r.entry] = Corrected(@, c.proposal)]
                        ELSE entry
            /\ UNCHANGED <<people, event>>
      BY <1>5 DEF Write, Decide
    <2> DEFINE new == [c EXCEPT !.status = r.verdict]
               e   == Corrected(entry[r.entry], c.proposal)
    <2>2. /\ c \in correction /\ c \in CorrectionRow /\ c.status = "PENDING"
          /\ r.verdict \in {"APPROVED", "REJECTED"} /\ CorrectionSound(c)
      BY <1>1, <1>5, <2>1, RequestShape DEF Undecided, Tidy, TablesOK, RowsSound
    <2>3. /\ new.status = r.verdict /\ new.proposal = c.proposal /\ new.id = c.id
          /\ new \in correction'
      BY <2>1, <2>2 DEF CorrectionRow
    <2>4. new \notin correction
      BY <2>2, <2>3 DEF CorrectionSound
    <2>5. \A b \in correction : b \in correction' \/
            \E v \in {"APPROVED", "REJECTED"} :
               b.status = "PENDING" /\ [b EXCEPT !.status = v] \in correction'
      BY <2>1, <2>2
    <2>6. r.verdict = "APPROVED" =>
            /\ entry' = [entry EXCEPT ![r.entry] = e]
            /\ e.status = "SUBMITTED" /\ SpanOf(e) = c.proposal
      <3>1. r.entry \in EntryIds /\ entry[r.entry] \in EntryRow /\ c.proposal \in Span
        BY <1>1, <1>5, <2>2 DEF Known, HasEntry, TablesOK, CorrectionRow
      <3>2. /\ e.start = c.proposal.start /\ e.end = c.proposal.end
            /\ e.break = c.proposal.break /\ e.status = "SUBMITTED"
        BY <3>1, CorrectedRow
      <3> HIDE DEF e
      <3>3. SpanOf(e) = c.proposal
        BY <3>1, <3>2 DEF SpanOf, Span
      <3>4. QED
        BY <2>1, <3>2, <3>3 DEF e
    <2> HIDE DEF new, e
    <2>7. ASSUME NEW i \in EntryIds, SpanOf(entry[i]) # SpanOf(entry'[i])
          PROVE  /\ entry'[i].status # "APPROVED"
                 /\ \E b \in correction' \ correction :
                       b.status = "APPROVED" /\ b.proposal = SpanOf(entry'[i])
      <3>1. r.verdict = "APPROVED" /\ i = r.entry /\ entry'[i] = e
        BY <1>1, <2>1, <2>6, <2>7 DEF TablesOK
      <3>2. QED
        BY <2>3, <2>4, <2>6, <3>1
    <2>8. QED
      BY <2>1, <2>5, <2>7 DEF HistoryStep
  <1>6. CASE r.op = "create"
    <2>1. PICK i \in EntryIds : ~ Exists(i) /\ entry' = [entry EXCEPT ![i] = Manual(r, 1)]
      BY <1>6 DEF Write, Create
    <2>2. Manual(r, 1).status # "APPROVED" /\ UNCHANGED <<event, correction>>
      BY <1>6 DEF Manual, Write, Create
    <2>3. entry[i].clock = "NONE"
      BY <2>1 DEF Tidy, RowsSound, EntrySound
    <2>4. QED
      BY <2>1, <2>2, <2>3, OneEntryHistory
  <1>7. CASE r.op = "update"
    <2>1. /\ entry' = [entry EXCEPT ![r.entry] = Manual(r, entry[r.entry].version + 1)]
          /\ r.entry \in EntryIds /\ entry[r.entry].clock = "NONE"
          /\ UNCHANGED <<event, correction>>
      BY <1>1, <1>7 DEF Write, Update, Known, HasEntry, Sure, Admissible, CanUpdate
    <2>2. Manual(r, entry[r.entry].version + 1).status # "APPROVED"
      BY DEF Manual
    <2>3. QED
      BY <2>1, <2>2, OneEntryHistory
  <1>8. CASE r.op = "approve"
    <2> DEFINE old == entry[r.entry]
               e   == [old EXCEPT !.status = "APPROVED", !.version = old.version + 1]
    <2>1. r.entry \in EntryIds /\ old \in EntryRow /\ UNCHANGED <<event, correction>>
      BY <1>1, <1>8 DEF Known, HasEntry, TablesOK, Write, Approve
    <2>2. entry' = [entry EXCEPT ![r.entry] = e]
      BY <1>1, <1>8, <2>1 DEF Write, Approve, TablesOK
    <2>3. e.start = old.start /\ e.end = old.end /\ e.break = old.break
      BY <2>1 DEF EntryRow
    <2> HIDE DEF e
    <2>4. QED
      BY <2>1, <2>2, <2>3, OneEntryHistory DEF SpanOf
  <1>9. QED
    BY <1>1, <1>2, <1>3, <1>4, <1>5, <1>6, <1>7, <1>8, RequestShape DEF AllOps, ClockOps, TimeOps

(* A step changes the work-time rows by a commit or not at all.            *)
LEMMA SheetSteps ==
    ASSUME IInv, [Next]_vars
    PROVE  UNCHANGED sheets \/ \E s \in Sessions : Commit(s) /\ Sure(req[s])
  <1>1. CASE \E s \in Sessions : Arrive(s)
    BY <1>1, ArrivingRequest DEF Begin, tables, sheets
  <1>2. CASE \E s \in Sessions : \/ LockRow(s) \/ MissRow(s) \/ Check(s)
                                \/ Replay(s) \/ Refuse(s) \/ Abort(s)
    BY <1>2 DEF LockRow, MissRow, Check, Replay, Refuse, Abort, tables, sheets
  <1>3. CASE \E s \in Sessions : Commit(s)
    BY <1>3, CheckedHolds DEF Commit
  <1>4. CASE \E d \in Drivers : Staff(d)
    BY <1>4 DEF Staff, sheets
  <1>5. CASE UNCHANGED vars
    BY <1>5 DEF vars, sheets
  <1>6. QED
    BY <1>1, <1>2, <1>3, <1>4, <1>5 DEF Next

(* Decisions are final, bookings stay, and what the clock has recorded     *)
(* changes by an approved correction only.                                 *)
THEOREM HistoryAlwaysKept == Spec => HistoryKept
  <1>1. IInv /\ [Next]_vars => [HistoryStep]_sheets
    <2>1. SUFFICES ASSUME IInv, [Next]_vars, ~ UNCHANGED sheets PROVE HistoryStep
      OBVIOUS
    <2>2. PICK s \in Sessions : Commit(s) /\ Sure(req[s])
      BY <2>1, SheetSteps
    <2>3. QED
      BY <2>1, <2>2, Parts, WriteHistory DEF Commit
  <1>2. QED
    BY <1>1, Invariance, PTL DEF Spec, HistoryKept

-----------------------------------------------------------------------------
(* The bookings of a shift.                                                *)

(* b lists the bookings of entry i from the first to the last, at version  *)
(* n; g is the pause time booked by each of them.                          *)
Log(i, n, b, g) ==
    /\ \A v \in Bookings(i) : \E k \in 0 .. n : b[k] = v
    /\ \A k \in 0 .. n : b[k] \in Bookings(i) /\ b[k].version = k
    /\ \A k \in 1 .. n : /\ b[k - 1].at < b[k].at
                         /\ b[k].action \in Follows[b[k - 1].action]
                         /\ g[k] = g[k - 1] + Paused(b[k - 1], b[k])
    /\ b[0].action = "start" /\ g[0] = 0

Uncorrected(i) == \A c \in correction : c.status = "APPROVED" => c.entry # i

(* The entry says what first and last booking and their pause time say.    *)
Agrees(i, n, first, last, pause) ==
    LET e == entry[i] IN
    /\ e.clock = StateAfter[last.action]
    /\ e.end = Nil => e.version = n + 1
    /\ Uncorrected(i) =>
          /\ e.start = first.at /\ e.break = pause
          /\ e.paused # Nil => e.paused = last.at
          /\ last.action = "finish" => e.end = last.at

Ledger(i) ==
    entry[i].clock # "NONE" =>
        \E n \in Nat : \E b \in [0 .. n -> EventRow], g \in [0 .. n -> Int] :
            Log(i, n, b, g) /\ Agrees(i, n, b[0], b[n], g[n])

Ledgers == \A i \in EntryIds : Ledger(i)

LEMMA LedgerStays ==
    ASSUME NEW i, Ledger(i), Bookings(i)' = Bookings(i), entry'[i].clock = entry[i].clock,
           entry'[i].end = Nil => entry[i].end = Nil /\ entry'[i].version = entry[i].version,
           Uncorrected(i)' =>
               /\ Uncorrected(i)
               /\ entry'[i].start = entry[i].start /\ entry'[i].break = entry[i].break
               /\ entry'[i].paused = entry[i].paused /\ entry'[i].end = entry[i].end
    PROVE  Ledger(i)'
  <1>1. SUFFICES ASSUME entry[i].clock # "NONE" PROVE Ledger(i)'
    BY DEF Ledger
  <1>2. PICK n \in Nat : \E b \in [0 .. n -> EventRow], g \in [0 .. n -> Int] :
            Log(i, n, b, g) /\ Agrees(i, n, b[0], b[n], g[n])
    BY <1>1 DEF Ledger
  <1>3. PICK b \in [0 .. n -> EventRow], g \in [0 .. n -> Int] :
            Log(i, n, b, g) /\ Agrees(i, n, b[0], b[n], g[n])
    BY <1>2
  <1>4. Log(i, n, b, g)'
    BY <1>3 DEF Log
  <1>5. Agrees(i, n, b[0], b[n], g[n])'
    BY <1>3 DEF Agrees
  <1>6. QED
    BY <1>4, <1>5 DEF Ledger

(* Bookings, corrections and times of one entry change.                    *)
LEMMA OtherLedgers ==
    ASSUME TablesOK, NEW i \in EntryIds, NEW e, entry' = [entry EXCEPT ![i] = e],
           Ledgers, Ledger(i)',
           \A j \in EntryIds \ {i} : /\ Bookings(j)' = Bookings(j)
                                     /\ Uncorrected(j)' => Uncorrected(j)
    PROVE  Ledgers'
  <1>1. SUFFICES ASSUME NEW j \in EntryIds \ {i} PROVE Ledger(j)'
    BY DEF Ledgers
  <1>2. Bookings(j)' = Bookings(j) /\ (Uncorrected(j)' => Uncorrected(j))
    OBVIOUS
  <1>3. entry'[j] = entry[j]
    BY DEF TablesOK
  <1>4. Ledger(j)
    BY DEF Ledgers
  <1>5. QED
    BY <1>2, <1>3, <1>4, LedgerStays

LEMMA StartBooks ==
    ASSUME Tidy, Ledgers, NEW r \in Request, r.op = "start", r.version = 0, Known(r),
           r.at \in Times, Start(r)
    PROVE  Ledgers'
  <1>1. PICK i \in EntryIds :
          /\ ~ Exists(i)
          /\ entry' = [entry EXCEPT ![i] =
                [driver |-> r.user, start |-> r.at, end |-> Nil, break |-> 0,
                 clock |-> "RUNNING", paused |-> Nil, status |-> "OPEN", version |-> 1]]
          /\ event' = event \cup {EventOf(r, i)}
          /\ UNCHANGED <<people, correction>>
    BY DEF Start
  <1> DEFINE e == [driver |-> r.user, start |-> r.at, end |-> Nil, break |-> 0,
                   clock |-> "RUNNING", paused |-> Nil, status |-> "OPEN", version |-> 1]
             v == EventOf(r, i)
  <1>2. /\ e.start = r.at /\ e.end = Nil /\ e.break = 0 /\ e.clock = "RUNNING"
        /\ e.paused = Nil /\ e.version = 1
    OBVIOUS
  <1>3. entry' = [entry EXCEPT ![i] = e] /\ event' = event \cup {v} /\ UNCHANGED correction
    BY <1>1
  <1>4. v \in EventRow /\ v.entry = i /\ v.at = r.at /\ v.action = "start" /\ v.version = 0
    BY RequestShape DEF EventOf, EventRow, ClockRequest, ClockOps
  <1> HIDE DEF e, v
  <1>5. entry'[i] = e
    BY <1>3 DEF Tidy, TablesOK
  <1>6. Bookings(i)' = {v}
    BY <1>1, <1>3, <1>4 DEF Bookings, Tidy, RowsSound
  <1> DEFINE b == [k \in 0 .. 0 |-> v]
             g == [k \in 0 .. 0 |-> 0]
  <1>7. /\ b \in [0 .. 0 -> EventRow] /\ g \in [0 .. 0 -> Int]
        /\ b[0] = v /\ g[0] = 0 /\ \A k \in 0 .. 0 : k = 0
    BY <1>4
  <1> HIDE DEF b, g
  <1>8. Log(i, 0, b, g)'
    <2>1. 1 .. 0 = {} /\ 0 \in 0 .. 0
      OBVIOUS
    <2>2. QED
      BY <1>4, <1>6, <1>7, <2>1 DEF Log
  <1>9. Agrees(i, 0, b[0], b[0], g[0])'
    BY <1>2, <1>4, <1>5, <1>7 DEF Agrees, StateAfter
  <1>10. Ledger(i)'
    <2>1. PICK n \in Nat : n = 0
      OBVIOUS
    <2>2. /\ b \in [0 .. n -> EventRow] /\ g \in [0 .. n -> Int]
          /\ Log(i, n, b, g)' /\ Agrees(i, n, b[0], b[n], g[n])'
      BY <1>7, <1>8, <1>9, <2>1
    <2>3. QED
      BY <2>2 DEF Ledger
  <1>11. \A j \in EntryIds \ {i} : /\ Bookings(j)' = Bookings(j)
                                   /\ Uncorrected(j)' => Uncorrected(j)
    BY <1>3, <1>4 DEF Bookings, Uncorrected
  <1>12. QED
    BY <1>3, <1>10, <1>11, OtherLedgers DEF Tidy

LEMMA PunchBooks ==
    ASSUME Tidy, Ledgers, NEW r \in Request, r.op \in {"pause", "resume", "finish"}, Known(r),
           r.at \in Times, CanPunch(r), Punch(r)
    PROVE  Ledgers'
  <1> DEFINE i   == r.entry
             old == entry[i]
             e   == Punched(old, r)
             v   == EventOf(r, i)
  <1>1. i \in EntryIds /\ old \in EntryRow
    BY DEF Known, HasEntry, Tidy, TablesOK
  <1>2. /\ entry' = [entry EXCEPT ![i] = e] /\ event' = event \cup {v}
        /\ UNCHANGED correction
    BY DEF Punch
  <1>3. /\ e.start = old.start /\ e.version = old.version + 1
        /\ old.end = Nil /\ old.clock # "NONE" /\ old.clock # "FINISHED"
        /\ e.break = BreakAt(old, r.at)
        /\ e.paused = IF r.op = "pause" THEN r.at ELSE Nil
        /\ r.op = "pause" => e.clock = "PAUSED" /\ e.end = Nil
        /\ r.op = "resume" => e.clock = "RUNNING" /\ e.end = Nil
        /\ r.op = "finish" => e.clock = "FINISHED" /\ e.end = r.at
    BY PunchedRow
  <1>4. /\ v \in EventRow /\ v.entry = i /\ v.at = r.at /\ v.action = r.op
        /\ v.version = r.version /\ r.at \in Nat
    <2>1. r \in ClockRequest /\ r.user \in Drivers
      BY RequestShape, OwnShape DEF OwnOnly, ClockOps
    <2>2. QED
      BY <1>1, <2>1, TimeAssumption DEF EventOf, EventRow, ClockRequest
  <1>5. /\ old.version = r.version
        /\ r.op = "pause" => old.clock = "RUNNING"
        /\ r.op = "resume" => old.clock = "PAUSED"
        /\ old.paused # Nil <=> old.clock = "PAUSED"
    BY <1>1 DEF CanPunch, Tidy, RowsSound, EntrySound
  <1>6. \A w \in Bookings(i) : w.at < r.at
    BY DEF CanPunch, LastTimes, Bookings
  <1> HIDE DEF e, v
  <1>7. entry'[i] = e /\ Bookings(i)' = Bookings(i) \cup {v}
    BY <1>1, <1>2, <1>4 DEF Tidy, TablesOK, Bookings
  <1>8. PICK n \in Nat : \E b \in [0 .. n -> EventRow], g \in [0 .. n -> Int] :
            Log(i, n, b, g) /\ Agrees(i, n, b[0], b[n], g[n])
    BY <1>1, <1>3 DEF Ledgers, Ledger
  <1>9. PICK b \in [0 .. n -> EventRow], g \in [0 .. n -> Int] :
            Log(i, n, b, g) /\ Agrees(i, n, b[0], b[n], g[n])
    BY <1>8
  <1>10. /\ n \in 0 .. n /\ b[n] \in EventRow /\ b[n].at \in Nat /\ b[n].action \in ClockOps
         /\ b[n] \in Bookings(i) /\ g[n] \in Int
    <2>1. n \in 0 .. n
      OBVIOUS
    <2>2. b[n] \in EventRow /\ g[n] \in Int
      BY <2>1
    <2>3. b[n].at \in Nat /\ b[n].action \in ClockOps
      BY <2>2, TimeAssumption DEF EventRow
    <2>4. b[n] \in Bookings(i)
      BY <1>9, <2>1 DEF Log
    <2>5. QED BY <2>1, <2>2, <2>3, <2>4
  <1>11. r.version = n + 1
    BY <1>3, <1>5, <1>9 DEF Agrees
  <1>12. v.action \in Follows[b[n].action]
    <2>1. old.clock = StateAfter[b[n].action]
      BY <1>9 DEF Agrees
    <2>2. QED
      BY <1>3, <1>4, <1>5, <1>10, <2>1 DEF Follows, StateAfter, ClockOps
  <1> DEFINE m == n + 1
             c == [k \in 0 .. m |-> IF k = m THEN v ELSE b[k]]
             h == [k \in 0 .. m |-> IF k = m THEN g[n] + Paused(b[n], v) ELSE g[k]]
  <1>13. /\ m \in Nat /\ m # 0 /\ m - 1 = n /\ \A k \in 0 .. m : k = m \/ k \in 0 .. n
         /\ \A k \in 0 .. n : k \in 0 .. m /\ k # m
    OBVIOUS
  <1>14. Paused(b[n], v) \in Int
    BY <1>4, <1>10 DEF Paused
  <1>15. /\ c \in [0 .. m -> EventRow] /\ h \in [0 .. m -> Int]
         /\ c[m] = v /\ h[m] = g[n] + Paused(b[n], v)
         /\ \A k \in 0 .. n : c[k] = b[k] /\ h[k] = g[k]
    BY <1>4, <1>10, <1>13, <1>14
  <1> HIDE DEF m, c, h
  <1>16. Log(i, m, c, h)'
    <2>1. ASSUME NEW w \in Bookings(i)' PROVE \E k \in 0 .. m : c[k] = w
      <3>1. CASE w = v
        BY <1>13, <1>15, <3>1
      <3>2. CASE w \in Bookings(i)
        BY <1>9, <1>13, <1>15, <3>2 DEF Log
      <3>3. QED BY <1>7, <3>1, <3>2
    <2>2. ASSUME NEW k \in 0 .. m PROVE c[k] \in Bookings(i)' /\ c[k].version = k
      <3>1. CASE k = m
        BY <1>4, <1>7, <1>11, <1>15, <3>1 DEF m
      <3>2. CASE k \in 0 .. n
        BY <1>7, <1>9, <1>15, <3>2 DEF Log
      <3>3. QED BY <1>13, <3>1, <3>2
    <2>3. ASSUME NEW k \in 1 .. m
          PROVE  /\ c[k - 1].at < c[k].at
                 /\ c[k].action \in Follows[c[k - 1].action]
                 /\ h[k] = h[k - 1] + Paused(c[k - 1], c[k])
      <3>1. CASE k = m
        <4>1. k - 1 = n /\ c[k - 1] = b[n] /\ c[k] = v /\ h[k - 1] = g[n]
          BY <1>10, <1>13, <1>15, <3>1
        <4>2. b[n].at < v.at
          BY <1>4, <1>6, <1>10
        <4>3. QED
          BY <1>12, <1>15, <3>1, <4>1, <4>2
      <3>2. CASE k # m
        <4>1. k \in 1 .. n /\ k - 1 \in 0 .. n /\ k \in 0 .. n
          BY <2>3, <3>2 DEF m
        <4>2. /\ c[k] = b[k] /\ c[k - 1] = b[k - 1] /\ h[k] = g[k] /\ h[k - 1] = g[k - 1]
          BY <1>15, <4>1
        <4>3. QED
          BY <1>9, <4>1, <4>2 DEF Log
      <3>3. QED BY <3>1, <3>2
    <2>4. c[0].action = "start" /\ h[0] = 0
      <3>1. 0 \in 0 .. n
        OBVIOUS
      <3>2. QED BY <1>9, <1>15, <3>1 DEF Log
    <2>5. QED
      BY <2>1, <2>2, <2>3, <2>4 DEF Log
  <1>17. Agrees(i, m, c[0], c[m], h[m])'
    <2>1. c[0] = b[0] /\ c[m] = v
      BY <1>15
    <2>2. e.clock = StateAfter[v.action]
      BY <1>3, <1>4 DEF StateAfter
    <2>3. e.version = m + 1
      BY <1>3, <1>5, <1>11 DEF m
    <2>4. e.paused # Nil => e.paused = v.at
      BY <1>3, <1>4
    <2>5. v.action = "finish" => e.end = v.at
      BY <1>3, <1>4
    <2>6. ASSUME Uncorrected(i)' PROVE e.start = b[0].at /\ e.break = h[m]
      <3>1. Uncorrected(i)
        BY <1>2, <2>6 DEF Uncorrected
      <3>2. /\ old.start = b[0].at /\ old.break = g[n]
            /\ old.paused # Nil => old.paused = b[n].at
            /\ old.clock = StateAfter[b[n].action]
        BY <1>9, <3>1 DEF Agrees
      <3>3. old.paused # Nil <=> b[n].action = "pause"
        BY <1>5, <1>10, <3>2 DEF StateAfter, ClockOps
      <3>4. BreakAt(old, r.at) = g[n] + Paused(b[n], v)
        <4>1. CASE b[n].action = "pause"
          BY <1>4, <1>10, <3>2, <3>3, <4>1 DEF BreakAt, Paused
        <4>2. CASE b[n].action # "pause"
          BY <1>10, <3>2, <3>3, <4>2 DEF BreakAt, Paused
        <4>3. QED BY <4>1, <4>2
      <3>5. QED
        BY <1>3, <1>15, <3>2, <3>4
    <2>7. QED
      BY <1>7, <2>1, <2>2, <2>3, <2>4, <2>5, <2>6 DEF Agrees
  <1>18. Ledger(i)'
    BY <1>13, <1>15, <1>16, <1>17 DEF Ledger
  <1>19. \A j \in EntryIds \ {i} : /\ Bookings(j)' = Bookings(j)
                                   /\ Uncorrected(j)' => Uncorrected(j)
    BY <1>2, <1>4 DEF Bookings, Uncorrected
  <1>20. QED
    BY <1>1, <1>2, <1>18, <1>19, OtherLedgers DEF Tidy

LEMMA OfficeBooks ==
    ASSUME Tidy, Ledgers, NEW r, Sure(r), r.op \in {"create", "update", "approve"}, Write(r)
    PROVE  Ledgers'
  <1>1. r \in Request /\ Known(r) /\ UNCHANGED <<event, correction>>
    BY DEF Sure, Write, Create, Update, Approve
  <1>2. \A j \in EntryIds : Bookings(j)' = Bookings(j) /\ (Uncorrected(j)' => Uncorrected(j))
    BY <1>1 DEF Bookings, Uncorrected
  <1>3. CASE r.op \in {"create", "update"}
    <2>1. PICK i \in EntryIds, k \in Nat : entry' = [entry EXCEPT ![i] = Manual(r, k)]
      <3>1. CASE r.op = "create"
        BY <3>1 DEF Write, Create
      <3>2. CASE r.op = "update"
        <4>1. r.entry \in EntryIds /\ entry[r.entry].version + 1 \in Nat
          BY <1>1, <3>2 DEF Known, HasEntry, Tidy, TablesOK, EntryRow
        <4>2. entry' = [entry EXCEPT ![r.entry] = Manual(r, entry[r.entry].version + 1)]
          BY <3>2 DEF Write, Update
        <4>3. QED BY <4>1, <4>2
      <3>3. QED BY <1>3, <3>1, <3>2
    <2>2. entry'[i].clock = "NONE"
      BY <2>1 DEF Manual, Tidy, TablesOK
    <2>3. Ledger(i)'
      BY <2>2 DEF Ledger
    <2>4. QED
      BY <1>2, <2>1, <2>3, OtherLedgers DEF Tidy
  <1>4. CASE r.op = "approve"
    <2> DEFINE old == entry[r.entry]
               e   == [old EXCEPT !.status = "APPROVED", !.version = old.version + 1]
    <2>1. r.entry \in EntryIds /\ old \in EntryRow /\ old.end # Nil
      BY <1>1, <1>4 DEF Known, HasEntry, Tidy, TablesOK, Sure, Admissible, CanApprove
    <2>2. entry' = [entry EXCEPT ![r.entry] = e]
      BY <1>1, <1>4, <2>1 DEF Write, Approve, Tidy, TablesOK
    <2>3. /\ e.start = old.start /\ e.end = old.end /\ e.break = old.break
          /\ e.clock = old.clock /\ e.paused = old.paused
      BY <2>1 DEF EntryRow
    <2> HIDE DEF e
    <2>4. entry'[r.entry] = e /\ Ledger(r.entry)
      BY <2>1, <2>2 DEF Tidy, TablesOK, Ledgers
    <2>5. Ledger(r.entry)'
      BY <1>2, <2>1, <2>3, <2>4, LedgerStays
    <2>6. QED
      BY <1>2, <2>1, <2>2, <2>5, OtherLedgers DEF Tidy
  <1>5. QED
    BY <1>3, <1>4

LEMMA CorrectionBooks ==
    ASSUME Tidy, Ledgers, NEW r, Sure(r), r.op \in {"request", "decide"}, Write(r)
    PROVE  Ledgers'
  <1>1. r \in Request /\ Known(r) /\ UNCHANGED event
    BY DEF Sure, Write, AskFor, Decide
  <1>2. \A j \in EntryIds : Bookings(j)' = Bookings(j)
    BY <1>1 DEF Bookings
  <1>3. ASSUME UNCHANGED entry, \A j \in EntryIds : Uncorrected(j)' => Uncorrected(j)
        PROVE  Ledgers'
    BY <1>2, <1>3, LedgerStays DEF Ledgers
  <1>4. CASE r.op = "request"
    <2>1. correction \subseteq correction' /\ UNCHANGED entry
      BY <1>4 DEF Write, AskFor
    <2>2. QED
      BY <1>3, <2>1 DEF Uncorrected
  <1>5. CASE r.op = "decide"
    <2>1. PICK c \in Undecided(r) :
            /\ correction' = (correction \ {c}) \cup {[c EXCEPT !.status = r.verdict]}
            /\ entry' = IF r.verdict = "APPROVED"
                        THEN [entry EXCEPT ![r.entry] = Corrected(@, c.proposal)]
                        ELSE entry
      BY <1>5 DEF Write, Decide
    <2> DEFINE new == [c EXCEPT !.status = r.verdict]
               e   == Corrected(entry[r.entry], c.proposal)
    <2>2. /\ c \in correction /\ c \in CorrectionRow /\ c.status = "PENDING"
          /\ c.entry = r.entry /\ r.verdict \in {"APPROVED", "REJECTED"} /\ CorrectionSound(c)
          /\ r.entry \in EntryIds /\ entry[r.entry] \in EntryRow
      BY <1>1, <1>5, <2>1, RequestShape DEF Undecided, Tidy, TablesOK, RowsSound
    <2>3. new.status = r.verdict /\ new.entry = r.entry /\ new \in correction'
      BY <2>1, <2>2 DEF CorrectionRow
    <2> HIDE DEF new
    <2>4. \A b \in correction : b.status = "APPROVED" => b \in correction'
      BY <2>1, <2>2
    <2>5. \A j \in EntryIds : Uncorrected(j)' => Uncorrected(j)
      BY <2>4 DEF Uncorrected
    <2>6. CASE r.verdict = "REJECTED"
      BY <1>3, <2>1, <2>5, <2>6
    <2>7. CASE r.verdict = "APPROVED"
      <3>1. c.proposal \in Span /\ c.proposal.end # Nil
        BY <2>2 DEF CorrectionRow, CorrectionSound
      <3>2. e.clock = entry[r.entry].clock /\ e.end = c.proposal.end
        BY <2>2, <3>1, CorrectedRow
      <3>3. entry' = [entry EXCEPT ![r.entry] = e]
        BY <2>1, <2>7
      <3> HIDE DEF e
      <3>4. entry'[r.entry] = e /\ Ledger(r.entry)
        BY <2>2, <3>3 DEF Tidy, TablesOK, Ledgers
      <3>5. ~ Uncorrected(r.entry)'
        BY <2>3, <2>7 DEF Uncorrected
      <3>6. Ledger(r.entry)'
        BY <1>2, <2>2, <3>1, <3>2, <3>4, <3>5, LedgerStays
      <3>7. QED
        BY <1>2, <2>2, <2>5, <3>3, <3>6, OtherLedgers DEF Tidy
    <2>8. QED
      BY <2>2, <2>6, <2>7
  <1>6. QED
    BY <1>4, <1>5

LEMMA WriteBooks ==
    ASSUME Tidy, Ledgers, NEW r, Sure(r), Write(r)
    PROVE  Ledgers'
  <1>1. r \in Request /\ Known(r) /\ Admissible(r)
    BY DEF Sure
  <1>2. CASE r.op = "start"
    BY <1>1, <1>2, StartBooks DEF Sure, OwnOnly, ClockOps, Known, Write
  <1>3. CASE r.op \in {"pause", "resume", "finish"}
    BY <1>1, <1>3, PunchBooks DEF Sure, OwnOnly, ClockOps, Admissible, Write
  <1>4. CASE r.op \in {"create", "update", "approve"}
    BY <1>4, OfficeBooks
  <1>5. CASE r.op \in {"request", "decide"}
    BY <1>5, CorrectionBooks
  <1>6. QED
    BY <1>1, <1>2, <1>3, <1>4, <1>5, RequestShape DEF AllOps, ClockOps, TimeOps

(* Two functions that agree at 0, and at each number if they agree at the  *)
(* one before, agree.                                                      *)
LEMMA SumsAgree ==
    ASSUME NEW n \in Nat, NEW f, NEW g, f[0] = g[0],
           \A k \in 1 .. n : f[k - 1] = g[k - 1] => f[k] = g[k]
    PROVE  f[n] = g[n]
  <1> DEFINE Bad == {k \in 0 .. n : f[k] # g[k]}
  <1>1. SUFFICES ASSUME n \in Bad PROVE FALSE
    OBVIOUS
  <1>2. Bad \subseteq Nat /\ Bad # {}
    BY <1>1
  <1> HIDE DEF Bad
  <1>3. PICK k \in Bad : \A j \in Bad : k <= j
    BY <1>2, LeastNumber
  <1>4. k \in 0 .. n /\ f[k] # g[k] /\ k # 0
    BY <1>3 DEF Bad
  <1>5. k \in 1 .. n /\ k - 1 \in 0 .. n /\ ~ k <= k - 1
    BY <1>4
  <1>6. k - 1 \notin Bad
    BY <1>3, <1>5
  <1>7. f[k - 1] = g[k - 1]
    BY <1>5, <1>6 DEF Bad
  <1>8. QED
    BY <1>4, <1>5, <1>7

(* The bookings at versions 0 to n are those of the log.                   *)
LEMMA LogReads ==
    ASSUME NEW i, NEW n \in Nat, NEW b \in [0 .. n -> EventRow], NEW g \in [0 .. n -> Int],
           Log(i, n, b, g)
    PROVE  /\ \A k \in 0 .. n : At(i, k) = b[k]
           /\ Cardinality(Bookings(i)) = n + 1
           /\ BreakBooked(i, n) = g[n]
  <1>1. \A k \in 0 .. n : b[k] \in Bookings(i) /\ b[k].version = k
    BY DEF Log
  <1>2. \A v \in Bookings(i) : \E k \in 0 .. n : b[k] = v
    BY DEF Log
  <1>3. ASSUME NEW k \in 0 .. n PROVE At(i, k) = b[k]
    <2>1. \A v \in Bookings(i) : v.version = k => v = b[k]
      BY <1>1, <1>2
    <2>2. b[k] \in Bookings(i) /\ b[k].version = k
      BY <1>1
    <2>3. QED
      BY <2>1, <2>2 DEF At
  <1>4. Cardinality(Bookings(i)) = n + 1
    <2>1. b \in Bijection(0 .. n, Bookings(i))
      <3>1. b \in [0 .. n -> Bookings(i)]
        BY <1>1
      <3>2. \A j, k \in 0 .. n : b[j] = b[k] => j = k
        BY <1>1
      <3>3. QED
        BY <1>2, <3>1, <3>2 DEF Bijection, Injection, Surjection, IsInjective
    <2>2. IsFiniteSet(0 .. n) /\ Cardinality(0 .. n) = n + 1
      BY FS_Interval
    <2>3. ExistsBijection(0 .. n, Bookings(i))
      BY <2>1 DEF ExistsBijection
    <2>4. Cardinality(Bookings(i)) = Cardinality(0 .. n)
      BY <2>2, <2>3, FS_Bijection
    <2>5. QED
      BY <2>2, <2>4
  <1>5. BreakBooked(i, n) = g[n]
    <2> DEFINE D == 0 .. n
               total[k \in D] == IF k = 0 THEN 0
                                 ELSE total[k - 1] + Paused(At(i, k - 1), At(i, k))
    <2>1. BreakBooked(i, n) = total[n]
      BY DEF BreakBooked
    <2>2. ASSUME NEW k \in D
          PROVE  g[k] = IF k = 0 THEN 0 ELSE g[k - 1] + Paused(At(i, k - 1), At(i, k))
      <3>1. CASE k = 0
        BY <3>1 DEF Log
      <3>2. CASE k # 0
        <4>1. k \in 1 .. n /\ k - 1 \in 0 .. n
          BY <3>2
        <4>2. At(i, k) = b[k] /\ At(i, k - 1) = b[k - 1]
          BY <1>3, <4>1
        <4>3. g[k] = g[k - 1] + Paused(b[k - 1], b[k])
          BY <4>1 DEF Log
        <4>4. QED BY <3>2, <4>2, <4>3
      <3>3. QED BY <3>1, <3>2
    <2>3. g = [k \in D |-> IF k = 0 THEN 0 ELSE g[k - 1] + Paused(At(i, k - 1), At(i, k))]
      BY <2>2
    <2>4. total = [k \in D |-> IF k = 0 THEN 0
                               ELSE total[k - 1] + Paused(At(i, k - 1), At(i, k))]
      BY <2>3
    <2> HIDE DEF total
    <2>5. total[0] = g[0] /\ \A k \in 1 .. n : k \in D /\ k # 0
      BY <2>2, <2>4
    <2>6. \A k \in 1 .. n : total[k - 1] = g[k - 1] => total[k] = g[k]
      BY <2>2, <2>4, <2>5
    <2>7. QED
      BY <2>1, <2>5, <2>6, SumsAgree
  <1>6. QED
    BY <1>3, <1>4, <1>5

LEMMA LedgerSound ==
    ASSUME TablesOK, Ledgers
    PROVE  ClockHistory
  <1>1. SUFFICES ASSUME NEW i \in EntryIds, entry[i].clock # "NONE"
                 PROVE  LET e == entry[i]
                            n == Cardinality(Bookings(i))
                        IN  /\ {v.version : v \in Bookings(i)} = 0 .. (n - 1)
                            /\ \A v \in Bookings(i) : \A w \in Later(v) :
                                  v.at < w.at /\ w.action \in Follows[v.action]
                            /\ \A v \in Bookings(i) : v.version = n - 1 =>
                                  /\ e.clock = StateAfter[v.action]
                                  /\ e.end = Nil => e.version = n
                            /\ Uncorrected(i) =>
                                  /\ e.break = BreakBooked(i, n - 1)
                                  /\ \A v \in Bookings(i) :
                                        /\ v.action = "start" => e.start = v.at
                                        /\ v.action = "finish" => e.end = v.at
    BY DEF ClockHistory, Uncorrected
  <1>2. PICK n \in Nat : \E b \in [0 .. n -> EventRow], g \in [0 .. n -> Int] :
            Log(i, n, b, g) /\ Agrees(i, n, b[0], b[n], g[n])
    BY <1>1 DEF Ledgers, Ledger
  <1>3. PICK b \in [0 .. n -> EventRow], g \in [0 .. n -> Int] :
            Log(i, n, b, g) /\ Agrees(i, n, b[0], b[n], g[n])
    BY <1>2
  <1>4. Cardinality(Bookings(i)) = n + 1 /\ BreakBooked(i, n) = g[n] /\ (n + 1) - 1 = n
    BY <1>3, LogReads
  <1>5. /\ \A k \in 0 .. n : b[k] \in Bookings(i) /\ b[k].version = k
        /\ \A v \in Bookings(i) : \E k \in 0 .. n : b[k] = v
        /\ \A k \in 1 .. n : b[k - 1].at < b[k].at /\ b[k].action \in Follows[b[k - 1].action]
    BY <1>3 DEF Log
  <1>6. {v.version : v \in Bookings(i)} = 0 .. n
    <2>1. ASSUME NEW k \in 0 .. n PROVE \E v \in Bookings(i) : v.version = k
      BY <1>5
    <2>2. ASSUME NEW v \in Bookings(i) PROVE v.version \in 0 .. n
      BY <1>5
    <2>3. QED
      BY <2>1, <2>2
  <1>7. ASSUME NEW v \in Bookings(i), NEW w \in Later(v)
        PROVE  v.at < w.at /\ w.action \in Follows[v.action]
    <2>1. w \in Bookings(i) /\ w.version = v.version + 1
      BY <1>7 DEF Later, Bookings
    <2>2. PICK j \in 0 .. n : b[j] = v
      BY <1>5
    <2>3. PICK k \in 0 .. n : b[k] = w
      BY <1>5, <2>1
    <2>4. k = j + 1
      BY <1>5, <2>1, <2>2, <2>3
    <2>5. k \in 1 .. n /\ k - 1 = j
      BY <2>4
    <2>6. QED
      BY <1>5, <2>2, <2>3, <2>5
  <1>8. ASSUME NEW v \in Bookings(i), v.version = n PROVE v = b[n]
    BY <1>5, <1>8
  <1>9. ASSUME NEW k \in 0 .. n
        PROVE  /\ b[k].action = "start" => k = 0
               /\ b[k].action = "finish" => k = n
    <2>1. ASSUME k # 0 PROVE b[k].action # "start"
      <3>1. k \in 1 .. n /\ k - 1 \in 0 .. n
        BY <2>1
      <3>2. b[k - 1].action \in ClockOps /\ b[k].action \in Follows[b[k - 1].action]
        BY <1>5, <3>1 DEF EventRow
      <3>3. QED
        BY <3>2 DEF Follows, ClockOps
    <2>2. ASSUME k # n PROVE b[k].action # "finish"
      <3>1. k + 1 \in 1 .. n /\ (k + 1) - 1 = k
        BY <2>2
      <3>2. b[k + 1].action \in Follows[b[k].action]
        BY <1>5, <3>1
      <3>3. QED
        BY <3>2 DEF Follows
    <2>3. QED BY <2>1, <2>2
  <1>10. /\ \A v \in Bookings(i) : v.action = "start" => v = b[0]
         /\ \A v \in Bookings(i) : v.action = "finish" => v = b[n]
    BY <1>5, <1>9
  <1>11. QED
    BY <1>3, <1>4, <1>6, <1>7, <1>8, <1>10 DEF Agrees

(* The bookings of a shift are one legal sequence in the order of time,    *)
(* each made at the version the driver saw, and their pauses add up to the *)
(* break of the entry (clockCommand, clock.ts), whatever is repeated, lost *)
(* or reordered and wherever the server's clock jumps.                     *)
THEOREM BookingsAddUp == Spec => []ClockHistory
  <1>1. Init => Ledgers
    BY DEF Init, NoEntry, Ledgers, Ledger
  <1>2. IInv /\ Ledgers /\ [Next]_vars => Ledgers'
    <2>1. SUFFICES ASSUME IInv, Ledgers, [Next]_vars PROVE Ledgers'
      OBVIOUS
    <2>2. CASE UNCHANGED sheets
      <3>1. \A i \in EntryIds : Bookings(i)' = Bookings(i) /\ (Uncorrected(i)' => Uncorrected(i))
        BY <2>2 DEF sheets, Bookings, Uncorrected
      <3>2. UNCHANGED entry
        BY <2>2 DEF sheets
      <3>3. QED
        BY <2>1, <3>1, <3>2, LedgerStays DEF Ledgers
    <2>3. CASE \E s \in Sessions : Commit(s) /\ Sure(req[s])
      BY <2>1, <2>3, Parts, WriteBooks DEF Commit
    <2>4. QED
      BY <2>1, <2>2, <2>3, SheetSteps
  <1>3. IInv /\ Ledgers => ClockHistory
    BY Parts, LedgerSound DEF Tidy
  <1>4. QED
    BY <1>1, <1>2, <1>3, Invariance, PTL DEF Spec

-----------------------------------------------------------------------------
(* Locks are taken in one order.                                           *)

LEMMA PrecedesOrders ==
    ASSUME NEW p \in Rows, NEW q \in Rows, NEW r \in Rows
    PROVE  /\ ~ Precedes(p, p)
           /\ Precedes(p, q) => ~ Precedes(q, p)
           /\ Precedes(p, q) /\ Precedes(q, r) => Precedes(p, r)
  <1>1. \A x \in Rows : /\ x[1] \in {"entry", "driver", "member"}
                        /\ x[1] = "driver" => Pos[x[2]] \in Nat
    BY TimeAssumption DEF Rows
  <1>2. TableRank["entry"] = 1 /\ TableRank["driver"] = 2 /\ TableRank["member"] = 3
    BY DEF TableRank
  <1>3. QED
    BY <1>1, <1>2 DEF Precedes

LockOrder == \A s \in Sessions : \A p \in held[s], q \in todo[s] : Precedes(p, q)
Working   == {s \in Sessions : phase[s] # "idle"}
QueueInv  == LockOrder /\ IsFiniteSet(Working)

(* The driver an entry names is locked after the entry.                    *)
LEMMA LearntLater ==
    ASSUME NEW r, NEW p \in Rows, p[1] = "entry", NEW q \in Learnt(r)
    PROVE  Precedes(p, q)
  BY DEF Learnt, Precedes, TableRank

LEMMA QueueStep ==
    ASSUME IInv, QueueInv, [Next]_vars
    PROVE  QueueInv'
  <1>0. /\ phase \in [Sessions -> {"idle", "locking", "checked"}]
        /\ todo \in [Sessions -> SUBSET Rows] /\ held \in [Sessions -> SUBSET Rows]
    BY Parts DEF SessionsOK
  <1>1. ASSUME NEW s \in Sessions, Arrive(s) PROVE QueueInv'
    <2>1. PICK r : Begin(s, r)
      BY <1>1, ArrivingRequest
    <2>2. held[s] = {}
      BY <1>1, Parts DEF Arrive, Covered, Cover, UnderWay
    <2>3. LockOrder'
      BY <1>0, <2>1, <2>2 DEF Begin, QueueInv, LockOrder
    <2>4. Working' \subseteq Working \cup {s}
      BY <1>0, <2>1 DEF Begin, Working
    <2>5. QED
      BY <2>3, <2>4, OneMore DEF QueueInv
  <1>2. ASSUME NEW s \in Sessions, LockRow(s) PROVE QueueInv'
    <2>1. PICK row \in todo[s] :
            /\ \A q \in todo[s] \ {row} : Precedes(row, q)
            /\ held' = [held EXCEPT ![s] = @ \cup {row}]
            /\ todo' = [todo EXCEPT ![s] = (@ \ {row})
                           \cup {q \in Learnt(req[s]) : row[1] = "entry"}]
            /\ UNCHANGED phase
      BY <1>2 DEF LockRow, NextLock
    <2>2. row \in Rows /\ held[s] \subseteq Rows
      BY <1>0
    <2>3. row[1] = "entry" => held[s] = {}
      <3>1. SUFFICES ASSUME row[1] = "entry", NEW p \in held[s] PROVE FALSE
        OBVIOUS
      <3>2. p \in Rows /\ Precedes(p, row)
        BY <2>2 DEF QueueInv, LockOrder
      <3>3. p[1] \in {"entry", "driver", "member"}
        BY <3>2 DEF Rows
      <3>4. QED
        BY <3>1, <3>2, <3>3 DEF Precedes, TableRank
    <2>4. \A q \in todo'[s] : Precedes(row, q)
      BY <1>0, <2>1, <2>2, LearntLater
    <2>5. ASSUME NEW p \in held[s], NEW q \in todo'[s] PROVE Precedes(p, q)
      BY <1>0, <2>1, <2>3, <2>5 DEF QueueInv, LockOrder
    <2>6. LockOrder'
      BY <1>0, <2>1, <2>4, <2>5 DEF QueueInv, LockOrder
    <2>7. QED
      BY <2>1, <2>6 DEF QueueInv, Working
  <1>3. ASSUME NEW s \in Sessions, MissRow(s) PROVE QueueInv'
    BY <1>0, <1>3 DEF MissRow, QueueInv, LockOrder, Working
  <1>4. ASSUME NEW s \in Sessions, Check(s) PROVE QueueInv'
    <2>1. phase[s] # "idle" /\ UNCHANGED <<todo, held>>
          /\ phase' = [phase EXCEPT ![s] = "checked"]
      BY <1>4 DEF Check, Ready
    <2>2. Working' = Working /\ LockOrder'
      BY <1>0, <2>1 DEF QueueInv, Working, LockOrder
    <2>3. QED
      BY <2>2 DEF QueueInv
  <1>5. ASSUME NEW s \in Sessions, End(s) PROVE QueueInv'
    <2>1. LockOrder' /\ Working' \subseteq Working
      BY <1>0, <1>5 DEF End, QueueInv, Working, LockOrder
    <2>2. QED
      BY <2>1, FS_Subset DEF QueueInv
  <1>6. CASE UNCHANGED <<phase, req, todo, held>>
    BY <1>6 DEF QueueInv, LockOrder, Working
  <1>7. QED
    BY <1>1, <1>2, <1>3, <1>4, <1>5, <1>6 DEF Next, Replay, Refuse, Commit, Abort, Staff, vars

(* No set of transactions of the clock, the corrections and the office can *)
(* wait for itself: the entry comes first, then its drivers sorted, then   *)
(* the membership, although an entry only tells when it is locked which    *)
(* driver it needs.                                                        *)
THEOREM DeadlockFree == Spec => []NoDeadlock
  <1>1. Init => QueueInv
    <2>1. ASSUME Init PROVE LockOrder /\ Working = {}
      BY <2>1 DEF Init, LockOrder, Working
    <2>2. QED
      BY <2>1, FS_EmptySet DEF QueueInv
  <1>2. IInv /\ QueueInv => NoDeadlock
    <2>1. SUFFICES ASSUME IInv, QueueInv, NEW W \in SUBSET Sessions, W # {},
                          \A s \in W : \E t \in W : Waits(s, t)
                   PROVE  FALSE
      BY DEF NoDeadlock
    <2> DEFINE R == {st \in W \X W : \E p, q \in Rows : /\ NextLock(st[1], p)
                                                        /\ NextLock(st[2], q)
                                                        /\ Precedes(p, q)}
    <2>2. \A s \in W : todo[s] \subseteq Rows /\ held[s] \subseteq Rows
      BY <2>1, Parts DEF SessionsOK
    <2>3. \A s \in W : \E p \in Rows : NextLock(s, p)
      BY <2>1, <2>2 DEF Waits
    <2>4. \A s \in W : \A p, q \in Rows : NextLock(s, p) /\ NextLock(s, q) => p = q
      BY PrecedesOrders DEF NextLock
    <2>5. \A s \in W : \E t \in W : <<s, t>> \in R
      <3>1. SUFFICES ASSUME NEW s \in W PROVE \E t \in W : <<s, t>> \in R
        OBVIOUS
      <3>2. PICK t \in W : Waits(s, t)
        BY <2>1
      <3>3. PICK p \in Rows : NextLock(s, p) /\ p \in held[t]
        BY <2>2, <3>2 DEF Waits
      <3>4. PICK q \in Rows : NextLock(t, q)
        BY <2>3
      <3>5. Precedes(p, q)
        BY <2>1, <3>3, <3>4 DEF QueueInv, LockOrder, NextLock
      <3>6. QED
        BY <3>3, <3>4, <3>5
    <2>6. IsFiniteSet(W)
      <3>1. W \subseteq Working
        BY <2>1, <2>3 DEF NextLock, Working
      <3>2. IsFiniteSet(Working)
        BY <2>1 DEF QueueInv
      <3>3. QED
        BY <3>1, <3>2, FS_Subset
    <2>7. \A s \in W : <<s, s>> \notin R
      BY <2>4, PrecedesOrders
    <2>8. \A s, t, u \in W : <<s, t>> \in R /\ <<t, u>> \in R => <<s, u>> \in R
      <3>1. SUFFICES ASSUME NEW s \in W, NEW t \in W, NEW u \in W,
                            <<s, t>> \in R, <<t, u>> \in R
                     PROVE  <<s, u>> \in R
        OBVIOUS
      <3>2. PICK p \in Rows, q \in Rows : NextLock(s, p) /\ NextLock(t, q) /\ Precedes(p, q)
        BY <3>1
      <3>3. PICK x \in Rows, y \in Rows : NextLock(t, x) /\ NextLock(u, y) /\ Precedes(x, y)
        BY <3>1
      <3>4. q = x
        BY <2>4, <3>2, <3>3
      <3>5. Precedes(p, y)
        BY <3>2, <3>3, <3>4, PrecedesOrders
      <3>6. QED
        BY <3>2, <3>3, <3>5
    <2>9. QED
      <3> HIDE DEF R
      <3>1. \E s \in W : \A t \in W : <<s, t>> \notin R
        BY <2>1, <2>6, <2>7, <2>8, MaximalElement
      <3>2. QED
        BY <2>5, <3>1
  <1>3. IInv /\ QueueInv /\ [Next]_vars => QueueInv'
    BY QueueStep
  <1>4. QED
    BY <1>1, <1>2, <1>3, Invariance, PTL DEF Spec

-----------------------------------------------------------------------------
(***************************************************************************)
(* Every transaction of WorkTime is one atomic step of Timesheet, or none: *)
(* whoever reads the committed work time sees a timesheet.                 *)
(***************************************************************************)

Image(i) == [id |-> i, driver |-> entry[i].driver, start |-> entry[i].start,
             end |-> entry[i].end, break |-> entry[i].break,
             clock |-> entry[i].clock # "NONE"]
Shifts  == {Image(i) : i \in {j \in EntryIds : Exists(j)}}
Marked  == {<<v.user, v.rid>> : v \in event}
Settled == {c.id : c \in {x \in correction : x.status # "PENDING"}}

(* What one new or changed entry looks like from outside.                  *)
Recorded(d, y) ==
    /\ Shifts' = {z \in Shifts : z.id # y.id} \cup {y}
    /\ y.driver = d
    /\ \A z \in Shifts : z.id = y.id => z.clock = y.clock
    /\ \A z \in Shifts : z.id # y.id /\ z.driver = d => Abstract!Apart(y, z)

LEMMA RecordedMeans ==
    ASSUME NEW d, NEW y, Recorded(d, y)
    PROVE  Abstract!Recorded(d, y)
  BY DEF Recorded, Abstract!Recorded, Shifts, Image

LEMMA OneEntryRecorded ==
    ASSUME Tidy, NoOverlap', NEW i \in EntryIds, NEW e, e \in EntryRow,
           entry' = [entry EXCEPT ![i] = e], e.status # "ABSENT",
           Exists(i) => (entry[i].clock = "NONE" <=> e.clock = "NONE")
    PROVE  \E y \in Shifts' :
              /\ Recorded(e.driver, y)
              /\ y.id = i /\ y.driver = e.driver /\ y.start = e.start /\ y.end = e.end
              /\ y.break = e.break /\ y.clock = (e.clock # "NONE")
  <1>1. PICK y : y = [id |-> i, driver |-> e.driver, start |-> e.start, end |-> e.end,
                      break |-> e.break, clock |-> e.clock # "NONE"]
    OBVIOUS
  <1>2. /\ y.id = i /\ y.driver = e.driver /\ y.start = e.start /\ y.end = e.end
        /\ y.break = e.break /\ y.clock = (e.clock # "NONE")
    BY <1>1
  <1>3. /\ entry'[i] = e /\ Exists(i)'
        /\ \A j \in EntryIds \ {i} : entry'[j] = entry[j] /\ (Exists(j)' <=> Exists(j))
    BY DEF Tidy, TablesOK, Exists
  <1>4. /\ Image(i)' = y
        /\ \A j \in EntryIds \ {i} : Image(j)' = Image(j)
    BY <1>1, <1>3 DEF Image
  <1>5. \A j : Image(j).id = j
    BY DEF Image
  <1>6. Shifts' = {z \in Shifts : z.id # i} \cup {y}
    <2>1. Shifts' \subseteq {z \in Shifts : z.id # i} \cup {y}
      <3>1. SUFFICES ASSUME NEW j \in EntryIds, Exists(j)', j # i
                     PROVE  Image(j)' \in Shifts /\ Image(j)'.id # i
        BY <1>4 DEF Shifts
      <3>2. QED
        BY <1>3, <1>4, <1>5, <3>1 DEF Shifts
    <2>2. y \in Shifts'
      BY <1>3, <1>4 DEF Shifts
    <2>3. ASSUME NEW z \in Shifts, z.id # i PROVE z \in Shifts'
      <3>1. PICK j \in EntryIds : Exists(j) /\ z = Image(j)
        BY DEF Shifts
      <3>2. j # i
        BY <1>5, <2>3, <3>1
      <3>3. QED
        BY <1>3, <1>4, <3>1, <3>2 DEF Shifts
    <2>4. QED
      BY <2>1, <2>2, <2>3
  <1>7. ASSUME NEW z \in Shifts, z.id = i PROVE z.clock = y.clock
    <2>1. Exists(i) /\ z = Image(i)
      BY <1>5, <1>7 DEF Shifts
    <2>2. z.clock = (entry[i].clock # "NONE")
      BY <2>1 DEF Image
    <2>3. QED
      BY <1>2, <2>1, <2>2
  <1>8. ASSUME NEW z \in Shifts, z.id # i, z.driver = e.driver PROVE Abstract!Apart(y, z)
    <2>1. PICK j \in EntryIds : Exists(j) /\ z = Image(j)
      BY DEF Shifts
    <2>2. j # i /\ z.start = entry[j].start /\ z.end = entry[j].end /\ z.driver = entry[j].driver
      BY <1>5, <1>8, <2>1 DEF Image
    <2>3. ~ Meets(e, entry[j])
      BY <1>3, <1>8, <2>1, <2>2 DEF NoOverlap
    <2>4. /\ e.start \in Nat /\ entry[j].start \in Nat
          /\ e.end # Nil => e.end \in Nat
          /\ entry[j].end # Nil => entry[j].end \in Nat
      BY TimeAssumption DEF Tidy, TablesOK, EntryRow
    <2>5. QED
      BY <1>2, <2>2, <2>3, <2>4 DEF Meets, Abstract!Apart
  <1>9. y \in Shifts' /\ Recorded(e.driver, y)
    BY <1>2, <1>6, <1>7, <1>8 DEF Recorded
  <1>10. QED
    BY <1>2, <1>9

-----------------------------------------------------------------------------
(* What the transactions of each service are to the timesheet.             *)

Worked ==
    /\ \E m \in (Drivers \X RequestIds) \ Marked :
          /\ Marked' = Marked \cup {m}
          /\ \E y \in Shifts' :
                /\ Recorded(m[1], y) /\ y.clock
                /\ \/ y.end = Nil /\ \A z \in Shifts : z.id # y.id
                   \/ \E z \in Shifts : /\ z.id = y.id /\ z.driver = y.driver
                                        /\ z.start = y.start /\ z.end = Nil
                                        /\ z.break <= y.break
    /\ UNCHANGED Settled

Kept ==
    /\ \E y \in Shifts' : Recorded(y.driver, y) /\ ~ y.clock
    /\ UNCHANGED <<Marked, Settled>>

Decided ==
    /\ \E c \in CorrectionIds \ Settled : Settled' = Settled \cup {c}
    /\ \/ UNCHANGED Shifts
       \/ \E y \in Shifts' : /\ Recorded(y.driver, y)
                             /\ \E z \in Shifts : /\ z.id = y.id /\ z.driver = y.driver
                                                  /\ z.end # Nil /\ y.end # Nil
    /\ UNCHANGED Marked

LEMMA StepsMean ==
           /\ Worked => Abstract!Work
           /\ Kept => Abstract!Keep
           /\ Decided => Abstract!Settle
           /\ UNCHANGED <<Shifts, Marked, Settled>> <=> UNCHANGED Abstract!sheet
  <1>1. Worked => Abstract!Work
    BY RecordedMeans DEF Worked, Abstract!Work, Shifts, Marked, Settled, Image
  <1>2. Kept => Abstract!Keep
    BY RecordedMeans DEF Kept, Abstract!Keep, Shifts, Marked, Settled, Image
  <1>3. Decided => Abstract!Settle
    BY RecordedMeans DEF Decided, Abstract!Settle, Shifts, Marked, Settled, Image
  <1>4. UNCHANGED <<Shifts, Marked, Settled>> <=> UNCHANGED Abstract!sheet
    BY DEF Abstract!sheet, Shifts, Marked, Settled, Image
  <1>5. QED
    BY <1>1, <1>2, <1>3, <1>4

LEMMA CommandMarks ==
    ASSUME NEW r \in ClockRequest, NEW i, Booked(r) = {}, event' = event \cup {EventOf(r, i)},
           UNCHANGED correction
    PROVE  /\ <<r.user, r.rid>> \in (Drivers \X RequestIds) \ Marked
           /\ Marked' = Marked \cup {<<r.user, r.rid>>}
           /\ UNCHANGED Settled
  <1>1. r.user \in Drivers /\ r.rid \in RequestIds
    BY DEF ClockRequest
  <1>2. <<r.user, r.rid>> \notin Marked
    <2>1. SUFFICES ASSUME NEW v \in event, <<v.user, v.rid>> = <<r.user, r.rid>> PROVE FALSE
      BY DEF Marked
    <2>2. QED
      BY <2>1 DEF Booked
  <1>3. EventOf(r, i).user = r.user /\ EventOf(r, i).rid = r.rid
    BY DEF EventOf
  <1>4. Marked' = Marked \cup {<<r.user, r.rid>>}
    BY <1>3 DEF Marked
  <1>5. UNCHANGED Settled
    BY DEF Settled
  <1>6. QED
    BY <1>1, <1>2, <1>4, <1>5

LEMMA StartWorks ==
    ASSUME Tidy, NoOverlap', NEW r \in Request, r.op = "start", r.at \in Times,
           CanStart(r), Start(r)
    PROVE  Worked
  <1>1. PICK i \in EntryIds :
          /\ ~ Exists(i)
          /\ entry' = [entry EXCEPT ![i] =
                [driver |-> r.user, start |-> r.at, end |-> Nil, break |-> 0,
                 clock |-> "RUNNING", paused |-> Nil, status |-> "OPEN", version |-> 1]]
          /\ event' = event \cup {EventOf(r, i)}
          /\ UNCHANGED <<people, correction>>
    BY DEF Start
  <1>2. PICK e : e = [driver |-> r.user, start |-> r.at, end |-> Nil, break |-> 0,
                      clock |-> "RUNNING", paused |-> Nil, status |-> "OPEN", version |-> 1]
    OBVIOUS
  <1>3. r \in ClockRequest /\ r.user \in Drivers /\ Booked(r) = {}
    BY RequestShape, OwnShape DEF ClockOps, OwnOnly, CanStart
  <1>4. e \in EntryRow /\ e.driver = r.user /\ e.end = Nil /\ e.clock = "RUNNING"
        /\ e.status = "OPEN"
    BY <1>2, <1>3 DEF EntryRow
  <1>5. entry' = [entry EXCEPT ![i] = e]
    BY <1>1, <1>2
  <1>6. PICK y \in Shifts' : /\ Recorded(e.driver, y)
                             /\ y.id = i /\ y.driver = e.driver /\ y.end = e.end
                             /\ y.clock = (e.clock # "NONE")
    BY <1>1, <1>4, <1>5, OneEntryRecorded
  <1>7. \A z \in Shifts : z.id # i
    BY <1>1 DEF Shifts, Image
  <1>8. /\ <<r.user, r.rid>> \in (Drivers \X RequestIds) \ Marked
        /\ Marked' = Marked \cup {<<r.user, r.rid>>}
        /\ UNCHANGED Settled
    BY <1>1, <1>3, CommandMarks
  <1>9. QED
    BY <1>4, <1>6, <1>7, <1>8 DEF Worked

LEMMA PunchWorks ==
    ASSUME Tidy, NoOverlap', NEW r \in Request, r.op \in {"pause", "resume", "finish"},
           Known(r), r.at \in Times, CanPunch(r), Punch(r)
    PROVE  Worked
  <1>1. PICK i, e : i = r.entry /\ e = Punched(entry[i], r)
    OBVIOUS
  <1>2. /\ entry' = [entry EXCEPT ![i] = e]
        /\ event' = event \cup {EventOf(r, i)}
        /\ UNCHANGED <<people, correction>>
    BY <1>1 DEF Punch
  <1>3. /\ i \in EntryIds /\ Exists(i) /\ r \in ClockRequest
        /\ entry[i].driver = r.user /\ Booked(r) = {}
    BY <1>1, RequestShape DEF Known, HasEntry, ClockOps, CanPunch
  <1>4. /\ e \in EntryRow /\ e.driver = r.user /\ e.start = entry[i].start
        /\ e.status # "ABSENT" /\ entry[i].end = Nil /\ entry[i].break <= e.break
        /\ e.clock # "NONE" /\ entry[i].clock # "NONE"
    BY <1>1, <1>3, PunchedRow
  <1>5. PICK y \in Shifts' : /\ Recorded(e.driver, y)
                             /\ y.id = i /\ y.driver = e.driver /\ y.start = e.start
                             /\ y.break = e.break /\ y.clock = (e.clock # "NONE")
    BY <1>2, <1>3, <1>4, OneEntryRecorded
  <1>6. PICK z : z = Image(i)
    OBVIOUS
  <1>7. /\ z \in Shifts /\ z.id = i /\ z.driver = entry[i].driver
        /\ z.start = entry[i].start /\ z.end = entry[i].end /\ z.break = entry[i].break
    BY <1>3, <1>6 DEF Shifts, Image
  <1>8. /\ <<r.user, r.rid>> \in (Drivers \X RequestIds) \ Marked
        /\ Marked' = Marked \cup {<<r.user, r.rid>>}
        /\ UNCHANGED Settled
    BY <1>2, <1>3, CommandMarks
  <1>9. y.clock /\ z.id = y.id /\ z.driver = y.driver /\ z.start = y.start
        /\ z.end = Nil /\ z.break <= y.break /\ Recorded(<<r.user, r.rid>>[1], y)
    BY <1>3, <1>4, <1>5, <1>7
  <1>10. QED
    BY <1>5, <1>7, <1>8, <1>9 DEF Worked

LEMMA OfficeKept ==
    ASSUME Tidy, NoOverlap', NEW r \in Request, Known(r),
           \/ r.op = "create" /\ Create(r)
           \/ r.op = "update" /\ CanUpdate(r) /\ Update(r)
    PROVE  Kept
  <1>1. PICK i \in EntryIds, n \in Nat :
          /\ entry' = [entry EXCEPT ![i] = Manual(r, n)]
          /\ UNCHANGED <<event, correction>>
          /\ Exists(i) => entry[i].clock = "NONE"
    <2>1. CASE r.op = "create" /\ Create(r)
      BY <2>1 DEF Create
    <2>2. CASE r.op = "update" /\ CanUpdate(r) /\ Update(r)
      <3>1. r.entry \in EntryIds /\ entry[r.entry].version + 1 \in Nat
        BY <2>2 DEF Known, HasEntry, Tidy, TablesOK, EntryRow
      <3>2. QED
        BY <2>2, <3>1 DEF Update, CanUpdate
    <2>3. QED
      BY <2>1, <2>2
  <1>2. PICK e : e = Manual(r, n)
    OBVIOUS
  <1>3. e \in EntryRow /\ e.status # "ABSENT" /\ e.clock = "NONE"
    BY <1>2, ManualRow DEF Known
  <1>4. entry' = [entry EXCEPT ![i] = e]
    BY <1>1, <1>2
  <1>5. PICK y \in Shifts' : Recorded(e.driver, y) /\ y.driver = e.driver
                             /\ y.clock = (e.clock # "NONE")
    BY <1>1, <1>3, <1>4, OneEntryRecorded
  <1>6. UNCHANGED <<Marked, Settled>>
    BY <1>1 DEF Marked, Settled
  <1>7. QED
    BY <1>3, <1>5, <1>6 DEF Kept

(* An approval by the office shows in no shift, a request in nothing.      *)
LEMMA ApproveUnseen ==
    ASSUME Tidy, NEW r \in Request, r.op = "approve", Known(r), Approve(r)
    PROVE  UNCHANGED <<Shifts, Marked, Settled>>
  <1>1. PICK i, e : /\ i = r.entry
                    /\ e = [entry[i] EXCEPT !.status = "APPROVED",
                                            !.version = entry[i].version + 1]
    OBVIOUS
  <1>2. i \in EntryIds /\ Exists(i) /\ entry[i] \in EntryRow
    BY <1>1 DEF Known, HasEntry, Tidy, TablesOK
  <1>3. entry' = [entry EXCEPT ![i] = e] /\ UNCHANGED <<event, correction>>
    BY <1>1, <1>2 DEF Approve, Tidy, TablesOK
  <1>4. /\ e.driver = entry[i].driver /\ e.start = entry[i].start /\ e.end = entry[i].end
        /\ e.break = entry[i].break /\ e.clock = entry[i].clock /\ e.status = "APPROVED"
    BY <1>1, <1>2 DEF EntryRow
  <1>5. \A j \in EntryIds : Exists(j)' <=> Exists(j)
    BY <1>2, <1>3, <1>4 DEF Exists, Tidy, TablesOK
  <1>6. \A j \in EntryIds : Image(j)' = Image(j)
    BY <1>2, <1>3, <1>4 DEF Image, Tidy, TablesOK
  <1>7. UNCHANGED Shifts
    BY <1>5, <1>6 DEF Shifts
  <1>8. UNCHANGED <<Marked, Settled>>
    BY <1>3 DEF Marked, Settled
  <1>9. QED
    BY <1>7, <1>8

LEMMA AskUnseen ==
    ASSUME NEW r \in Request, AskFor(r)
    PROVE  UNCHANGED <<Shifts, Marked, Settled>>
  <1>1. PICK new : /\ correction' = correction \cup {new} /\ new.status = "PENDING"
                   /\ UNCHANGED <<entry, event>>
    BY DEF AskFor
  <1>2. UNCHANGED Settled
    BY <1>1 DEF Settled
  <1>3. UNCHANGED <<Shifts, Marked>>
    BY <1>1 DEF Shifts, Marked, Image, Exists
  <1>4. QED
    BY <1>2, <1>3

LEMMA DecideDecides ==
    ASSUME Tidy, NoOverlap', NEW r \in Request, r.op = "decide", Known(r),
           CanDecide(r), Decide(r)
    PROVE  Decided
  <1>1. PICK c \in Undecided(r) :
          /\ correction' = (correction \ {c}) \cup {[c EXCEPT !.status = r.verdict]}
          /\ entry' = IF r.verdict = "APPROVED"
                      THEN [entry EXCEPT ![r.entry] = Corrected(@, c.proposal)]
                      ELSE entry
          /\ UNCHANGED <<people, event>>
    BY DEF Decide
  <1>2. PICK new : new = [c EXCEPT !.status = r.verdict]
    OBVIOUS
  <1>3. /\ c \in correction /\ c \in CorrectionRow /\ c.status = "PENDING"
        /\ c.entry = r.entry /\ c.id \in CorrectionIds /\ CorrectionSound(c)
        /\ c.proposal \in Span /\ c.proposal.end # Nil
    BY DEF Undecided, Tidy, RowsSound, TablesOK, CorrectionRow, CorrectionSound
  <1>4. new.id = c.id /\ new.status # "PENDING"
    BY <1>2, <1>3, RequestShape DEF CorrectionRow
  <1>5. c.id \notin Settled
    BY <1>3 DEF Settled, CorrectionSound
  <1>6. Settled' = Settled \cup {c.id}
    <2>1. correction' = (correction \ {c}) \cup {new}
      BY <1>1, <1>2
    <2>2. QED
      BY <1>3, <1>4, <2>1 DEF Settled
  <1>7. UNCHANGED Marked
    BY <1>1 DEF Marked
  <1>8. CASE r.verdict # "APPROVED"
    <2>1. UNCHANGED Shifts
      BY <1>1, <1>8 DEF Shifts, Image, Exists
    <2>2. QED
      BY <1>3, <1>5, <1>6, <1>7, <2>1 DEF Decided
  <1>9. CASE r.verdict = "APPROVED"
    <2>1. PICK i, e : i = r.entry /\ e = Corrected(entry[i], c.proposal)
      OBVIOUS
    <2>2. i \in EntryIds /\ Exists(i) /\ entry[i] \in EntryRow /\ entry[i].end # Nil
      BY <1>9, <2>1 DEF Known, HasEntry, Tidy, TablesOK, CanDecide
    <2>3. /\ e \in EntryRow /\ e.driver = entry[i].driver /\ e.end # Nil
          /\ e.clock = entry[i].clock /\ e.status = "SUBMITTED"
      BY <1>3, <2>1, <2>2, CorrectedRow
    <2>4. entry' = [entry EXCEPT ![i] = e]
      BY <1>1, <1>9, <2>1
    <2>5. PICK y \in Shifts' : /\ Recorded(e.driver, y) /\ y.id = i
                               /\ y.driver = e.driver /\ y.end = e.end
      <3>1. e.status # "ABSENT" /\ (entry[i].clock = "NONE" <=> e.clock = "NONE")
        BY <2>3
      <3>2. QED
        BY <2>2, <2>3, <2>4, <3>1, OneEntryRecorded
    <2>6. PICK z : z = Image(i)
      OBVIOUS
    <2>7. z \in Shifts /\ z.id = i /\ z.driver = entry[i].driver /\ z.end = entry[i].end
      BY <2>2, <2>6 DEF Shifts, Image
    <2>8. Recorded(y.driver, y) /\ z.id = y.id /\ z.driver = y.driver
          /\ z.end # Nil /\ y.end # Nil
      BY <2>2, <2>3, <2>5, <2>7
    <2>9. QED
      BY <1>3, <1>5, <1>6, <1>7, <2>5, <2>7, <2>8 DEF Decided
  <1>10. QED
    BY <1>8, <1>9

LEMMA WriteSeen ==
    ASSUME Tidy, NEW r, Sure(r), Write(r)
    PROVE  Worked \/ Kept \/ Decided \/ UNCHANGED <<Shifts, Marked, Settled>>
  <1>1. NoOverlap' /\ r \in Request /\ Known(r)
    BY WriteKeeps DEF Tidy, Sure
  <1>2. CASE r.op = "start" /\ Start(r)
    BY <1>1, <1>2, StartWorks DEF Sure, Admissible, OwnOnly, ClockOps
  <1>3. CASE r.op \in {"pause", "resume", "finish"} /\ Punch(r)
    BY <1>1, <1>3, PunchWorks DEF Sure, Admissible, OwnOnly, ClockOps
  <1>4. CASE r.op = "request" /\ AskFor(r)
    BY <1>1, <1>4, AskUnseen
  <1>5. CASE r.op = "decide" /\ Decide(r)
    BY <1>1, <1>5, DecideDecides DEF Sure, Admissible
  <1>6. CASE (r.op = "create" /\ Create(r)) \/ (r.op = "update" /\ Update(r))
    BY <1>1, <1>6, OfficeKept DEF Sure, Admissible
  <1>7. CASE r.op = "approve" /\ Approve(r)
    BY <1>1, <1>7, ApproveUnseen
  <1>8. QED
    BY <1>2, <1>3, <1>4, <1>5, <1>6, <1>7 DEF Write

-----------------------------------------------------------------------------
(* However the transactions of the three services interleave, work time    *)
(* as committed is a timesheet: the start of a shift and each command      *)
(* after it are booked once and about one open shift of the driver's own,  *)
(* no two shifts of a driver meet, and what the clock recorded changes by  *)
(* one decision for each correction.                                       *)
THEOREM WorkTimeIsTimesheet == Spec => ImplementsTimesheet
  <1>1. Init => Abstract!SheetInit
    <2>1. ASSUME Init PROVE Shifts = {} /\ Marked = {} /\ Settled = {}
      BY <2>1 DEF Init, Shifts, Marked, Settled, Exists, NoEntry
    <2>2. QED
      BY <2>1 DEF Abstract!SheetInit, Shifts, Marked, Settled, Image
  <1>2. IInv /\ [Next]_vars => [Abstract!SheetNext]_(Abstract!sheet)
    <2>1. SUFFICES ASSUME IInv, [Next]_vars
                   PROVE  Abstract!SheetNext \/ UNCHANGED Abstract!sheet
      OBVIOUS
    <2>2. CASE UNCHANGED sheets
      <3>1. UNCHANGED <<Shifts, Marked, Settled>>
        BY <2>2 DEF sheets, Shifts, Marked, Settled, Image, Exists
      <3>2. QED
        BY <3>1, StepsMean
    <2>3. ASSUME NEW s \in Sessions, Commit(s), Sure(req[s])
          PROVE  Abstract!SheetNext \/ UNCHANGED Abstract!sheet
      <3>1. Tidy /\ Write(req[s])
        BY <2>1, <2>3, Parts DEF Commit
      <3>2. Worked \/ Kept \/ Decided \/ UNCHANGED <<Shifts, Marked, Settled>>
        BY <2>3, <3>1, WriteSeen
      <3>3. QED
        BY <3>2, StepsMean DEF Abstract!SheetNext
    <2>4. QED
      BY <2>1, <2>2, <2>3, SheetSteps
  <1>3. QED
    BY <1>1, <1>2, Invariance, PTL DEF Spec, ImplementsTimesheet, Abstract!SheetSpec
=============================================================================
