------------------------------ MODULE WorkTime ------------------------------
(***************************************************************************)
(* Work time: the shift clock, corrections and the office, running         *)
(* concurrently on one database.                                           *)
(***************************************************************************)
EXTENDS ShiftClock, Corrections, TimeOffice

NoEntry == [driver |-> CHOOSE d \in Drivers : TRUE, start |-> CHOOSE t \in Times : TRUE,
            end |-> Nil, break |-> 0, clock |-> "NONE", paused |-> Nil,
            status |-> "ABSENT", version |-> 0]

Init ==
    /\ driverActive = [d \in Drivers |-> TRUE]
    /\ member = [u \in Users |->
                   [role |-> IF u \in Drivers THEN "DRIVER" ELSE "ADMIN", active |-> TRUE]]
    /\ entry = [i \in EntryIds |-> NoEntry]
    /\ event = {}
    /\ correction = {}
    /\ phase = [s \in Sessions |-> "idle"]
    /\ req = [s \in Sessions |-> Nil]
    /\ todo = [s \in Sessions |-> {}]
    /\ held = [s \in Sessions |-> {}]

-----------------------------------------------------------------------------
Admissible(r) ==
    /\ r.op = "start"   => CanStart(r)
    /\ r.op \in {"pause", "resume", "finish"} => CanPunch(r)
    /\ r.op = "request" => CanRequest(r)
    /\ r.op = "decide"  => CanDecide(r)
    /\ r.op = "create"  => CanCreate(r)
    /\ r.op = "update"  => CanUpdate(r)
    /\ r.op = "approve" => CanApprove(r)

Ready(s) == phase[s] = "locking" /\ todo[s] = {}

(* The request with the time the transaction reads from the server clock.  *)
Stamped(r) == IF OwnOnly(r) THEN {[r EXCEPT !.at = t] : t \in Times} ELSE {r}

Check(s) ==
    /\ Ready(s)
    /\ \E r \in Stamped(req[s]) :
          /\ Admissible(r)
          /\ r.op = "request" => Unused(r.id)
          /\ req' = [req EXCEPT ![s] = r]
    /\ phase' = [phase EXCEPT ![s] = "checked"]
    /\ UNCHANGED <<tables, todo, held>>

(* A command executed before is answered with the current state.           *)
Replay(s) ==
    /\ Ready(s)
    /\ Replays(req[s])
    /\ End(s)
    /\ UNCHANGED tables

(* An AppError: 403, 404, 409 or 422.  A correction known by its identifier *)
(* is answered or refused according to its content; that the primary key    *)
(* was taken meanwhile shows at the insert only.                           *)
Refuse(s) ==
    /\ \/ Ready(s) /\ \E r \in Stamped(req[s]) : ~ Admissible(r) /\ ~ Replays(r)
       \/ phase[s] # "idle" /\ todo[s] = {} /\ req[s].op = "request"
          /\ ~ Unused(req[s].id)
    /\ End(s)
    /\ UNCHANGED tables

Write(r) ==
    \/ r.op = "start"   /\ Start(r)
    \/ r.op \in {"pause", "resume", "finish"} /\ Punch(r)
    \/ r.op = "request" /\ AskFor(r)
    \/ r.op = "decide"  /\ Decide(r)
    \/ r.op = "create"  /\ Create(r)
    \/ r.op = "update"  /\ Update(r)
    \/ r.op = "approve" /\ Approve(r)

Commit(s) ==
    /\ phase[s] = "checked"
    /\ Write(req[s])
    /\ End(s)

Arrive(s) ==
    /\ phase[s] = "idle"
    /\ \/ BeginPunch(s) \/ BeginRequest(s) \/ BeginDecide(s)
       \/ BeginCreate(s) \/ BeginUpdate(s) \/ BeginApprove(s)

Next ==
    \/ \E s \in Sessions : \/ Arrive(s) \/ LockRow(s) \/ MissRow(s) \/ Check(s)
                           \/ Replay(s) \/ Refuse(s) \/ Commit(s) \/ Abort(s)
    \/ \E d \in Drivers : Staff(d)

Spec == Init /\ [][Next]_vars

-----------------------------------------------------------------------------
TypeOK ==
    /\ driverActive \in [Drivers -> BOOLEAN]
    /\ member \in [Users -> MemberRow]
    /\ entry \in [EntryIds -> EntryRow]
    /\ event \subseteq EventRow
    /\ correction \subseteq CorrectionRow
    /\ phase \in [Sessions -> {"idle", "locking", "checked"}]
    /\ req \in [Sessions -> Request \cup {Nil}]
    /\ todo \in [Sessions -> SUBSET Rows]
    /\ held \in [Sessions -> SUBSET Rows]

(* What a transaction checked still holds when it commits: nobody entered, *)
(* moved, ended or approved a shift it has looked at, or took the driver's *)
(* access away.  The entry and driver locks of the three services together *)
(* do this although each takes a different subset.                         *)
ChecksStand == \A s \in Sessions : phase[s] = "checked" => Admissible(req[s])

(* Recorded work of one driver never overlaps, an open shift included      *)
(* ("Driver-level locks coordinate starting with existing administrative   *)
(* manual-entry overlap checks", docs/STAGE-22A.md).                       *)
NoOverlap ==
    \A i, j \in EntryIds :
        i # j /\ Exists(i) /\ Exists(j) /\ entry[i].driver = entry[j].driver =>
            ~ Meets(entry[i], entry[j])

(* A shift ends after it began and its breaks are shorter than the shift,  *)
(* also while a break is running and whatever the server clock did between *)
(* two commands (clock.ts:188; the CHECK constraints would fail the commit).*)
ShiftsProper ==
    \A i \in EntryIds : Exists(i) =>
        LET e == entry[i] IN
        /\ Proper(e)
        /\ e.paused # Nil => e.clock = "PAUSED" /\ e.break < e.paused - e.start

(* An identifier is booked once, however often and however concurrently    *)
(* its command is sent; the lookup at clock.ts:112 sees every booking.     *)
BookedOnce ==
    \A v, w \in event : v.user = w.user /\ v.rid = w.rid => v = w

(* What the sheet of a driver says at any time can have been worked, and   *)
(* nothing of it was booked by one command twice.                          *)
ShiftsSound == NoOverlap /\ ShiftsProper /\ BookedOnce

(* The bookings of a shift form one legal sequence in the order of time,   *)
(* each made at the version the driver saw, and add up to what the entry   *)
(* says, unless a correction replaced that.                                *)
Follows == [start |-> {"pause", "finish"}, pause |-> {"resume", "finish"},
            resume |-> {"pause", "finish"}, finish |-> {}]
StateAfter == [start |-> "RUNNING", pause |-> "PAUSED", resume |-> "RUNNING",
               finish |-> "FINISHED"]
Bookings(i)  == {v \in event : v.entry = i}
Later(v)     == {w \in Bookings(v.entry) : w.version = v.version + 1}
At(i, k)     == CHOOSE v \in Bookings(i) : v.version = k
Paused(v, w) == IF v.action = "pause" THEN w.at - v.at ELSE 0
BreakBooked(i, n) ==                    \* by the booking made at version n
    LET total[k \in 0 .. n] ==
            IF k = 0 THEN 0 ELSE total[k - 1] + Paused(At(i, k - 1), At(i, k))
    IN  total[n]
ClockHistory ==
    \A i \in EntryIds : entry[i].clock # "NONE" =>
        LET e == entry[i]
            n == Cardinality(Bookings(i))
        IN  /\ {v.version : v \in Bookings(i)} = 0 .. (n - 1)
            /\ \A v \in Bookings(i) : \A w \in Later(v) :
                  v.at < w.at /\ w.action \in Follows[v.action]
            /\ \A v \in Bookings(i) : v.version = n - 1 =>
                  /\ e.clock = StateAfter[v.action]
                  /\ e.end = Nil => e.version = n
            /\ (\A c \in correction : c.status = "APPROVED" => c.entry # i) =>
                  /\ e.break = BreakBooked(i, n - 1)
                  /\ \A v \in Bookings(i) : /\ v.action = "start" => e.start = v.at
                                            /\ v.action = "finish" => e.end = v.at

(* At most one request is pending per shift, also when two are sent at     *)
(* once; a request stays with the driver of its shift; and no shift is     *)
(* corrected twice at one version.                                         *)
CorrectionsSound ==
    \A c \in correction :
        /\ entry[c.entry].driver = c.driver
        /\ \A b \in correction \ {c} :
              /\ b.id # c.id
              /\ b.entry = c.entry /\ b.status = c.status /\ c.status # "REJECTED" =>
                    c.status = "APPROVED" /\ b.version # c.version

(* What is decided is what was shown: an approval is about the row the     *)
(* approver had loaded, and a request that is being approved compares its  *)
(* proposal with the times the shift still has ("If the shift has changed, reject the stale   *)
(* request", docs/STAGE-22B.md).                                           *)
DecidedAsSeen ==
    /\ \A s \in Sessions : phase[s] = "checked" /\ req[s].op = "approve" =>
          entry[req[s].entry] = req[s].saw
    /\ \A s \in Sessions :
          phase[s] = "checked" /\ req[s].op = "decide" /\ req[s].verdict = "APPROVED" =>
             \A c \in correction : c.id = req[s].id => SpanOf(entry[c.entry]) = c.before

(* Corrections and approvals are about the shift as it was shown, once.    *)
DecisionsSound == CorrectionsSound /\ DecidedAsSeen

(* Decisions are final and bookings are never rewritten.  A shift whose    *)
(* times change is never approved by the same step, and an ended shift     *)
(* entered by the clock only changes by an approved correction.            *)
HistoryStep ==
    /\ event \subseteq event'
    /\ \A c \in correction : c \in correction' \/
          \E v \in {"APPROVED", "REJECTED"} :
             c.status = "PENDING" /\ [c EXCEPT !.status = v] \in correction'
    /\ \A i \in EntryIds : SpanOf(entry[i]) # SpanOf(entry'[i]) =>
          /\ entry'[i].status # "APPROVED"
          /\ entry[i].clock = "FINISHED" =>
                \E c \in correction' \ correction :
                   c.status = "APPROVED" /\ c.proposal = SpanOf(entry'[i])

(* No transaction rewrites what was booked, decided or clocked.            *)
HistoryKept == [][HistoryStep]_sheets

(* Entry, then drivers in order, then membership: no two transactions wait *)
(* for each other (service.ts:118, corrections.ts "lock entry -> driver -> *)
(* membership").                                                           *)
Waits(s, t) == \E row \in todo[s] :
    NextLock(s, row) /\ row[1] # "member" /\ row \in held[t] /\ t # s
NoDeadlock ==
    \A W \in (SUBSET Sessions) \ {{}} : \E s \in W : \A t \in W : ~ Waits(s, t)

(* Each committed transaction is one atomic step of Timesheet.             *)
Abstract == INSTANCE Timesheet WITH
    Marks   <- Drivers \X RequestIds,
    Asked   <- CorrectionIds,
    shift   <- {[id |-> i, driver |-> entry[i].driver, start |-> entry[i].start,
                 end |-> entry[i].end, break |-> entry[i].break,
                 clock |-> entry[i].clock # "NONE"] :
                    i \in {j \in EntryIds : Exists(j)}},
    booked  <- {<<v.user, v.rid>> : v \in event},
    decided <- {c.id : c \in {x \in correction : x.status # "PENDING"}}

ImplementsTimesheet == Abstract!SheetSpec
=============================================================================
