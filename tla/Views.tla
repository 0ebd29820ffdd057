------------------------------- MODULE Views -------------------------------
(***************************************************************************)
(* What a signed-in person is shown: the lists and the dashboard           *)
(* (src/src/server/queries.ts), downloads (src/src/features/uploads/       *)
(* service.ts), under the policy of src/src/server/policy.ts; and the      *)
(* entries kept without a feature of their own (src/src/features/          *)
(* operations/service.ts).                                                 *)
(*                                                                         *)
(* The person's role is read when a request comes in, the rows later, for  *)
(* documents and downloads in two reads; roles, tours and rows change in   *)
(* between.  A person and their driver profile go by one name; a file      *)
(* belongs to one document or photo report, and a correction of working    *)
(* time that names a document is its mark as evidence.                     *)
(***************************************************************************)
EXTENDS Values, Naturals, FiniteSets

CONSTANTS
    People, Vans, Threads, Files,
    Sessions,       \* bound: requests at one time
    MaxRows,        \* bound on rows when another comes
    MaxWritten      \* bound on rows when one is written here

VARIABLES
    role,           \* of each person, "none" without an active membership
    tour,           \* the driver each van is assigned to, or Nil
    rows,           \* entries of all lists
    ask             \* requests: the role they came with and what they read

views == <<role, tour, rows, ask>>

Staff    == {"ADMIN", "DISPATCHER"}
VansOf(d) == {v \in Vans : tour[v] = d}

(* An entry, by the columns the lists are scoped with.  "shown" is whether *)
(* a driver may see a document of a van, a notice, the scores of a source; *)
(* "evidence", whether a document was handed in with a correction.         *)
Entry == [of |-> "", driver |-> Nil, van |-> Nil, user |-> Nil, other |-> Nil, thread |-> Nil,
          file |-> Nil, shown |-> TRUE, gone |-> FALSE, evidence |-> FALSE]
Of(m) == [Entry EXCEPT !.of = m]

-----------------------------------------------------------------------------
(* policy.ts: what a role reads and writes.                                *)
Shared == {"dashboard", "drivers", "vehicles", "assignments", "photos", "planning",
           "work-times", "documents", "messages", "notifications", "keys"}
Inner  == {"waves", "inventory", "categories", "reports"}

MayRead(p, m) ==
    CASE p.role = "ADMIN" -> TRUE
      [] p.role = "DISPATCHER" -> m \in Shared \cup Inner
      [] p.role = "DRIVER" -> m \in Shared \cup {"score"}

Own(p) == p.role = "DRIVER"

(* queries.ts, list by list: whether the row is in the list of p.  A       *)
(* document of a van counts for who was on tour with it at the first read. *)
OwnProfile(p, r)  == Own(p) => r.driver = p.who
OnTour(p, r)      == Own(p) => r.van \in VansOf(p.who)
OwnFleetRow(p, r) == ~ r.gone /\ (Own(p) => r.driver = p.who)
OwnTimes(p, r)    == Own(p) => r.driver = p.who
OwnScore(p, r)    == r.shown /\ (Own(p) => r.driver = p.who)
Filed(p, r, vans) ==
    /\ ~ r.gone
    /\ p.role = "DISPATCHER" => r.driver = Nil
    /\ Own(p) => r.driver = p.who \/ (r.shown /\ r.van \in vans)
Reported(p, r)    == Own(p) => r.user = p.who
Addressed(p, r)   == p.who \in {r.user, r.other}
Noticed(p, r)     == p.who \in {r.user, r.other} /\ (Own(p) => r.shown)

InList(p, r, vans) ==
    CASE r.of = "drivers"       -> OwnProfile(p, r)
      [] r.of = "vehicles"      -> OnTour(p, r)
      [] r.of \in {"assignments", "keys", "planning"} -> OwnFleetRow(p, r)
      [] r.of = "work-times"    -> OwnTimes(p, r)
      [] r.of = "score"         -> OwnScore(p, r)
      [] r.of = "documents"     -> Filed(p, r, vans)
      [] r.of = "photos"        -> Reported(p, r)
      [] r.of = "messages"      -> Addressed(p, r)
      [] r.of = "notifications" -> Noticed(p, r)
      [] OTHER                  -> TRUE

(* corrections: the evidence of those a person sees, and a driver's own    *)
(* documents to choose from.  Its route asks for no permission.            *)
Corrected(p, r) ==
    /\ r.of = "documents" /\ p.role # "DISPATCHER"
    /\ r.evidence \/ (Own(p) /\ ~ r.gone)
    /\ Own(p) => r.driver = p.who

(* The dashboard: documents about to expire, scores, the journal.          *)
OnDashboard(p, r) ==
    CASE r.of = "documents" -> /\ ~ r.gone
                               /\ Own(p) => r.driver = p.who
                               /\ p.role = "DISPATCHER" => r.driver = Nil
      [] r.of = "score"     -> p.role # "DISPATCHER" /\ r.shown /\ (Own(p) => r.driver = p.who)
      [] r.of = "audit"     -> p.role = "ADMIN"
      [] OTHER              -> FALSE

(* Mutant: evidence opens as long as its document is kept.                 *)
Opens_Kept(p, r, vans) ==
    CASE r.of = "photos"    -> Own(p) => r.user = p.who
      [] r.of = "documents" -> Filed(p, r, vans)

(* download: what possession of the link opens.  Evidence stays open to    *)
(* the driver who handed it in, and to administrators.                     *)
Opens(p, r, vans) ==
    CASE r.of = "photos" -> Own(p) => r.user = p.who
      [] r.of = "documents" ->
           CASE p.role = "DRIVER" ->
                  \/ r.evidence /\ r.driver = p.who
                  \/ ~ r.gone /\ (r.driver = p.who \/ (r.shown /\ r.van \in vans))
             [] p.role = "DISPATCHER" -> ~ r.gone /\ r.driver = Nil
             [] OTHER -> ~ r.gone \/ r.evidence

-----------------------------------------------------------------------------
Principal(u) == [who |-> u, role |-> role[u]]
NoAsk == [phase |-> "free"]

(* requirePrincipal and demand.  "tours" records, for the properties, the  *)
(* vans the person had at each moment since; "found", what the first read  *)
(* of a download leaves to the second.                                     *)
Come(q, u, what) ==
    /\ ask[q] = NoAsk /\ role[u] # "none"
    /\ ask' = [ask EXCEPT ![q] =
         [phase |-> "asked", p |-> Principal(u), what |-> what, seen |-> {}, found |-> {},
          answer |-> {}, tours |-> {VansOf(u)}]]
    /\ UNCHANGED <<role, tour, rows>>

AskList(q) ==
    \E u \in People, m \in Shared \cup Inner \cup {"score", "audit", "corrections"} :
        /\ role[u] # "none" => MayRead(Principal(u), m) \/ m = "corrections"
        /\ Come(q, u, [op |-> "list", of |-> m])
AskFile(q) ==
    \E u \in People, f \in Files : Come(q, u, [op |-> "file", file |-> f])
AskWrite(q) == \E u \in People : Come(q, u, [op |-> "write"])

(* The drivers' tours for the list of documents.                           *)
ReadVans(q) ==
    /\ ask[q].phase = "asked" /\ ask[q].what = [op |-> "list", of |-> "documents"]
    /\ Own(ask[q].p)
    /\ ask' = [ask EXCEPT ![q].phase = "toured", ![q].seen = VansOf(ask[q].p.who)]
    /\ UNCHANGED <<role, tour, rows>>

(* Corrections are shown to whom still has the role, read under a lock.    *)
ReadRows(q) ==
    LET p == ask[q].p
        m == ask[q].what.of
    IN  /\ ask[q].phase \in {"asked", "toured"}
        /\ ask[q].what.op = "list"
        /\ m = "documents" /\ Own(p) => ask[q].phase = "toured"
        /\ ask' = [ask EXCEPT ![q].phase = "done", ![q].answer =
             IF m = "dashboard" THEN {r \in rows : OnDashboard(p, r)}
             ELSE IF m = "corrections" THEN {r \in rows : Corrected(p, r) /\ role[p.who] = p.role}
             ELSE {r \in rows : r.of = m /\ InList(p, r, ask[q].seen)}]
        /\ UNCHANGED <<role, tour, rows>>

(* A file: its object with the rows it belongs to, and for a driver who    *)
(* neither owns, reported nor handed it in a second read, of the tour.     *)
ReadFile(q) ==
    LET p      == ask[q].p
        its    == {r \in rows : r.of \in {"documents", "photos"} /\ r.file = ask[q].what.file}
        opened == {r \in its : Opens(p, r, {})}
        left   == {r \in its : r.of = "documents" /\ ~ r.gone /\ r.shown /\ r.van # Nil}
    IN  /\ ask[q].phase = "asked" /\ ask[q].what.op = "file"
        /\ ask' = IF Own(p) /\ opened = {} /\ left # {}
                  THEN [ask EXCEPT ![q].phase = "found", ![q].found = left]
                  ELSE [ask EXCEPT ![q].phase = "done", ![q].answer = opened]
        /\ UNCHANGED <<role, tour, rows>>

(* Mutant: any tour opens the file.                                        *)
ReadTour_Any(q) ==
    /\ ask[q].phase = "found"
    /\ ask' = [ask EXCEPT ![q].phase = "done", ![q].answer =
         {r \in ask[q].found : VansOf(ask[q].p.who) # {}}]
    /\ UNCHANGED <<role, tour, rows>>

ReadTour(q) ==
    /\ ask[q].phase = "found"
    /\ ask' = [ask EXCEPT ![q].phase = "done", ![q].answer =
         {r \in ask[q].found : r.van \in VansOf(ask[q].p.who)}]
    /\ UNCHANGED <<role, tour, rows>>

Forget(q) ==
    /\ ask[q].phase = "done"
    /\ ask' = [ask EXCEPT ![q] = NoAsk]
    /\ UNCHANGED <<role, tour, rows>>

-----------------------------------------------------------------------------
(* mutate: one transaction, as the person the request came in as.          *)
Writing(q) == ask[q].phase = "asked" /\ ask[q].what.op = "write"

Write(q, then) ==
    /\ then # rows /\ Cardinality(then) <= MaxWritten
    /\ rows' = then
    /\ ask' = [ask EXCEPT ![q] = NoAsk]
    /\ UNCHANGED <<role, tour>>

(* An event is planned, given to somebody else or removed by staff.        *)
Plan(q) ==
    /\ Writing(q) /\ ~ Own(ask[q].p)
    /\ \/ \E d \in People \cup {Nil} :
            Write(q, rows \cup {[Of("planning") EXCEPT !.driver = d]})
       \/ \E r \in {x \in rows : x.of = "planning" /\ ~ x.gone}, d \in People \cup {Nil} :
            \/ Write(q, (rows \ {r}) \cup {[r EXCEPT !.driver = d]})
            \/ Write(q, (rows \ {r}) \cup {[r EXCEPT !.gone = TRUE]})

Message(from, to, t) == [Of("messages") EXCEPT !.user = from, !.other = to, !.thread = t]

(* A message, to staff if a driver writes it; a new thread, or one of the  *)
(* two of them.                                                            *)
SendMessage(q) ==
    Writing(q) /\ \E to \in People, t \in Threads :
        LET p == ask[q].p
            thread == {r \in rows : r.of = "messages" /\ r.thread = t}
        IN  /\ to # p.who /\ role[to] # "none" /\ (Own(p) => role[to] # "DRIVER")
            /\ thread # {} => \E r \in thread : {r.user, r.other} = {p.who, to}
            /\ Write(q, rows \cup {Message(p.who, to, t)})

ArchiveDocument(q) ==
    Writing(q) /\ \E r \in rows :
        /\ r.of = "documents" /\ ~ r.gone
        /\ Own(ask[q].p) => r.driver = ask[q].p.who
        /\ ask[q].p.role = "DISPATCHER" => r.driver = Nil
        /\ Write(q, (rows \ {r}) \cup {[r EXCEPT !.gone = TRUE]})

(* A correction of working time names a document of the driver's own as    *)
(* evidence, the role read again (what else it does: Corrections).         *)
HandIn(q) ==
    Writing(q) /\ \E r \in rows :
        /\ Own(ask[q].p) /\ role[ask[q].p.who] = ask[q].p.role
        /\ r.of = "documents" /\ ~ r.gone /\ r.driver = ask[q].p.who
        /\ Write(q, (rows \ {r}) \cup {[r EXCEPT !.evidence = TRUE]})

-----------------------------------------------------------------------------
(* Everything else that changes what is shown, done elsewhere: uploads,    *)
(* the fleet, scores, notices, the journal.                                *)
Document(d, v, s, f) == [Of("documents") EXCEPT !.driver = d, !.van = v, !.shown = s, !.file = f]
Photo(u, v, f)       == [Of("photos") EXCEPT !.user = u, !.van = v, !.file = f]
Notice(u, w, s)      == [Of("notifications") EXCEPT !.user = u, !.other = w, !.shown = s]
Booking(m, d, v)     == [Of(m) EXCEPT !.driver = d, !.van = v]
Scored(d, s)         == [Of("score") EXCEPT !.driver = d, !.shown = s]

NewRow ==
    {Document(d, v, s, f) : d \in People \cup {Nil}, v \in Vans \cup {Nil}, s \in BOOLEAN, f \in Files}
    \cup {Photo(u, v, f) : u \in People, v \in Vans, f \in Files}
    \cup {Notice(u, w, s) : u \in People, w \in People \cup {Nil}, s \in BOOLEAN}
    \cup {Booking(m, d, Nil) : m \in {"drivers", "work-times"}, d \in People}
    \cup {Booking(m, d, v) : m \in {"assignments", "keys"}, d \in People, v \in Vans}
    \cup {Scored(d, s) : d \in People, s \in BOOLEAN}
    \cup {Booking("vehicles", Nil, v) : v \in Vans}
    \cup {Of(m) : m \in Inner \cup {"audit"}}

NewFile(r) == r.file # Nil => \A x \in rows : x.file # r.file

(* A document is renewed: the old one is archived with it.                 *)
Renew(r, s, f) ==
    /\ r.of = "documents" /\ ~ r.gone
    /\ rows' = (rows \ {r}) \cup {[r EXCEPT !.gone = TRUE], Document(r.driver, r.van, s, f)}

RowsChange ==
    /\ \/ \E r \in NewRow : /\ r \notin rows /\ NewFile(r) /\ Cardinality(rows) < MaxRows
                            /\ rows' = rows \cup {r}
       \/ \E r \in rows, s \in BOOLEAN, f \in Files \ {x.file : x \in rows} :
            Cardinality(rows) < MaxWritten /\ Renew(r, s, f)
       \/ \E r \in rows : r.of # "messages" /\ r.file = Nil /\ rows' = rows \ {r}
    /\ UNCHANGED <<role, tour, ask>>

RoleChanges ==
    /\ \E u \in People, x \in Staff \cup {"DRIVER", "none"} :
         x # role[u] /\ role' = [role EXCEPT ![u] = x]
    /\ UNCHANGED <<tour, rows, ask>>

(* A free driver is given a free van, or one is taken back; the requests   *)
(* that run take note.                                                     *)
TourChanges ==
    /\ \E v \in Vans :
         \/ tour[v] # Nil /\ tour' = [tour EXCEPT ![v] = Nil]
         \/ \E d \in People : /\ tour[v] = Nil /\ VansOf(d) = {}
                               /\ tour' = [tour EXCEPT ![v] = d]
    /\ ask' = [q \in Sessions |-> IF ask[q] = NoAsk THEN NoAsk ELSE
         [ask[q] EXCEPT !.tours = @ \cup {{v \in Vans : tour'[v] = ask[q].p.who}}]]
    /\ UNCHANGED <<role, rows>>

ViewsInit ==
    /\ role \in [People -> Staff \cup {"DRIVER"}] /\ tour = [v \in Vans |-> Nil]
    /\ rows = {} /\ ask = [q \in Sessions |-> NoAsk]

ViewsNext ==
    \/ RowsChange \/ RoleChanges \/ TourChanges
    \/ \E q \in Sessions : \/ AskList(q) \/ AskFile(q) \/ AskWrite(q)
                           \/ ReadVans(q) \/ ReadRows(q) \/ ReadFile(q) \/ ReadTour(q)
                           \/ Plan(q) \/ SendMessage(q) \/ ArchiveDocument(q) \/ HandIn(q)
                           \/ Forget(q)

ViewsSpec == ViewsInit /\ [][ViewsNext]_views

-----------------------------------------------------------------------------
(* What the role a request came with, and the tour of one moment since,    *)
(* entitle its sender to: messages and notices their own; a driver the     *)
(* rows of their profile, their reports, and of the vans of that tour the  *)
(* vans and the documents meant for drivers; dispatchers no scores, no     *)
(* journal and no documents of drivers.                                    *)
Theirs(p, r, vans) ==
    IF r.of \in {"messages", "notifications"} THEN p.who \in {r.user, r.other}
    ELSE CASE p.role = "ADMIN" -> TRUE
           [] p.role = "DISPATCHER" ->
                r.of \notin {"score", "audit"} /\ (r.of = "documents" => r.driver = Nil)
           [] p.role = "DRIVER" ->
                \/ r.driver = p.who
                \/ r.of = "photos" /\ r.user = p.who
                \/ r.of \in {"vehicles", "documents"} /\ r.shown /\ r.van \in vans

(* Nobody is shown what is not theirs (queries.ts:12, "never send hidden   *)
(* peer records"): a role given while the request runs adds nothing, nor a *)
(* tour of before or of another moment than the rest of the answer; what   *)
(* was put away is shown as evidence alone.  A thread stays between two.   *)
OwnRowsOnly ==
    /\ \A q \in Sessions : ask[q] # NoAsk =>
         /\ \E vans \in ask[q].tours : \A r \in ask[q].answer : Theirs(ask[q].p, r, vans)
         /\ \A r \in ask[q].answer : r.gone => r.evidence
    /\ \A r, s \in rows : r.thread = s.thread /\ r.thread # Nil
                            => {r.user, r.other} = {s.user, s.other}

(* The lists and the corrections offer the documents and photos their      *)
(* reader can open, and no other; the dashboard points at nothing the      *)
(* lists do not have.                                                      *)
OffersOpen ==
    \A u \in People : role[u] # "none" =>
        LET p == Principal(u)
        IN  \A r \in rows :
              /\ r.of \in {"documents", "photos"} =>
                   (InList(p, r, VansOf(u)) \/ Corrected(p, r) <=> Opens(p, r, VansOf(u)))
              /\ r.of \in {"documents", "score"} /\ OnDashboard(p, r) =>
                   MayRead(p, r.of) /\ InList(p, r, VansOf(u))
=============================================================================
