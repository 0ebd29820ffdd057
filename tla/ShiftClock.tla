----------------------------- MODULE ShiftClock -----------------------------
(***************************************************************************)
(* The shift clock: clockCommand (src/src/features/work-time/clock.ts) and *)
(* the driver's page that calls it (components/shift-clock.tsx).           *)
(***************************************************************************)
EXTENDS TimeTables

(* What a driver's page sends: a command about the clock entry it shows,   *)
(* at the version it showed.  A command is sent again, with the identifier *)
(* it had, for as long as its answer is missing, by several tabs at will;  *)
(* so any command may come with any identifier, used before or not.        *)
Commands(u) ==
    {[op |-> "start", user |-> u, rid |-> i, entry |-> Nil, version |-> 0, at |-> 0] :
        i \in RequestIds}
    \cup
    {[op |-> o, user |-> u, rid |-> i, entry |-> e, version |-> v, at |-> 0] :
        o \in {"pause", "resume", "finish"}, i \in RequestIds,
        e \in {x \in EntryIds : entry[x].driver = u /\ entry[x].clock # "NONE"},
        v \in 1..MaxVersion}

BeginPunch(s) ==
    \E u \in Drivers : \E r \in Commands(u) :
        /\ IF r.op = "start" THEN Room ELSE r.version <= entry[r.entry].version
        /\ Begin(s, r)

Booked(r) == {v \in event : v.user = r.user /\ v.rid = r.rid}

(* The command has been executed before: it is answered, not executed.     *)
Replays(r) ==
    /\ r.op \in ClockOps
    /\ Permitted(r.user, r.op)
    /\ \E v \in Booked(r) :
          /\ entry[v.entry].driver = r.user
          /\ v.action = r.op /\ v.version = r.version
          /\ r.op # "start" => v.entry = r.entry

LastTimes(i) ==
    LET own == {v \in event : v.entry = i}
    IN  IF own = {} THEN {entry[i].start} ELSE {v.at : v \in own}

CanStart(r) ==
    /\ Permitted(r.user, r.op)
    /\ Booked(r) = {}
    /\ \A i \in EntryIds : Exists(i) /\ entry[i].driver = r.user =>
          entry[i].end # Nil /\ entry[i].end <= r.at

CanPunch(r) ==
    LET e == entry[r.entry] IN
    /\ Permitted(r.user, r.op)
    /\ Booked(r) = {}
    /\ Exists(r.entry) /\ e.driver = r.user
    /\ e.clock # "NONE" /\ e.end = Nil /\ e.version = r.version
    /\ r.op = "pause" => e.clock = "RUNNING"
    /\ r.op = "resume" => e.clock = "PAUSED"
    /\ \A t \in LastTimes(r.entry) : t < r.at

EventOf(r, i) == [entry |-> i, user |-> r.user, rid |-> r.rid, action |-> r.op,
                  version |-> r.version, at |-> r.at]

Start(r) ==
    \E i \in EntryIds :
        /\ ~ Exists(i)
        /\ entry' = [entry EXCEPT ![i] =
              [driver |-> r.user, start |-> r.at, end |-> Nil, break |-> 0,
               clock |-> "RUNNING", paused |-> Nil, status |-> "OPEN", version |-> 1]]
        /\ event' = event \cup {EventOf(r, i)}
        /\ UNCHANGED <<people, correction>>

(* Pause time accumulated when the command takes effect.                   *)
BreakAt(e, t) == IF e.paused = Nil THEN e.break ELSE e.break + (t - e.paused)

ClockAfter == [pause |-> "PAUSED", resume |-> "RUNNING", finish |-> "FINISHED"]

(* Mutant: finishing during a break forgets that break.                    *)
Punched_BreakLost(e, r) ==
    [e EXCEPT !.clock   = ClockAfter[r.op],
              !.paused  = IF r.op = "pause" THEN r.at ELSE Nil,
              !.break   = IF r.op = "finish" THEN @ ELSE BreakAt(e, r.at),
              !.end     = IF r.op = "finish" THEN r.at ELSE @,
              !.status  = IF r.op = "finish" THEN "SUBMITTED" ELSE @,
              !.version = @ + 1]

Punched(e, r) ==
    [e EXCEPT !.clock   = ClockAfter[r.op],
              !.paused  = IF r.op = "pause" THEN r.at ELSE Nil,
              !.break   = BreakAt(e, r.at),
              !.end     = IF r.op = "finish" THEN r.at ELSE @,
              !.status  = IF r.op = "finish" THEN "SUBMITTED" ELSE @,
              !.version = @ + 1]

Punch(r) ==
    /\ entry' = [entry EXCEPT ![r.entry] = Punched(@, r)]
    /\ event' = event \cup {EventOf(r, r.entry)}
    /\ UNCHANGED <<people, correction>>
=============================================================================
