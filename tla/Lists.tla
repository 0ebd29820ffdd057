------------------------------- MODULE Lists -------------------------------
(***************************************************************************)
(* The list every module is shown with (src/src/components/                *)
(* module-table.tsx).  Changing a control asks for the list again after a  *)
(* short wait; so do the row buttons, the dialogs and the panels when they *)
(* have changed something.  Requests overtake one another, and each        *)
(* carries the controls of the moment its function was made.               *)
(***************************************************************************)
EXTENDS Values, Naturals

CONSTANTS
    Filters,        \* search, status, week and order together
    MaxPages,       \* bound on the pages a filter has
    Requests        \* bound on requests on their way at one time

ASSUME ListsAssumption == Nil \notin Requests

VARIABLES
    pages,          \* on the server: the last page of each filter
    controls,       \* filter and page chosen
    timer,          \* whether the 250 ms after a change are running
    latest,         \* request of the number latestRequest, if it is not back
    request,        \* what each request asked for, and the server's answer
    list,           \* what is shown: filter, page, and last page by then
    loading, error,
    act             \* the mutation of a row button, with its reload function

lists == <<pages, controls, timer, latest, request, list, loading, error, act>>

NoRequest   == [phase |-> "free"]
NoAct  == [phase |-> "none"]

(* reload, made with the controls c: it counts as the latest from now on.  *)
Reload(c, r) ==
    /\ request[r] = NoRequest
    /\ request' = [request EXCEPT ![r] = [phase |-> "sent", for |-> c]]
    /\ latest' = r /\ loading' = TRUE /\ error' = FALSE

(* Other controls make another reload: the effect forgets the request on   *)
(* its way and starts the wait again.                                      *)
Controls(c) ==
    /\ c # controls
    /\ controls' = c /\ timer' = TRUE /\ latest' = Nil

ChangeFilter ==
    /\ \E f \in Filters : Controls([filter |-> f, page |-> 1])
    /\ UNCHANGED <<pages, request, list, loading, error, act>>

(* The page buttons go by the list shown, and rest while it loads.         *)
TurnPage ==
    /\ ~ loading
    /\ \/ controls.page > 1 /\ Controls([controls EXCEPT !.page = @ - 1])
       \/ controls.page < list.last /\ Controls([controls EXCEPT !.page = @ + 1])
    /\ UNCHANGED <<pages, request, list, loading, error, act>>

TimerFires ==
    /\ timer /\ timer' = FALSE
    /\ \E r \in Requests : Reload(controls, r)
    /\ UNCHANGED <<pages, controls, list, act>>

(* The server counts, rows come and go.                                    *)
Answer(r) ==
    /\ request[r].phase = "sent"
    /\ \/ request' = [request EXCEPT ![r] = [phase |-> "answered", for |-> @.for,
                                             last |-> pages[@.for.filter]]]
       \/ request' = [request EXCEPT ![r] = [phase |-> "failed", for |-> @.for]]
    /\ UNCHANGED <<pages, controls, timer, latest, list, loading, error, act>>

PagesChange ==
    /\ \E f \in Filters, n \in 1..MaxPages : pages' = [pages EXCEPT ![f] = n]
    /\ UNCHANGED <<controls, timer, latest, request, list, loading, error, act>>

(* What follows an answer in any case: the button that waited is free.     *)
Returns(r) ==
    /\ request' = [request EXCEPT ![r] = NoRequest]
    /\ act' = IF act.phase = "reloading" /\ act.by = r THEN NoAct ELSE act
    /\ UNCHANGED pages

(* Mutant: an answer beyond the last page leaves the sign of loading.      *)
ReceiveList_Returns(r) ==
    LET x == request[r]
    IN  /\ x.phase = "answered" /\ Returns(r)
        /\ IF r # latest
           THEN UNCHANGED <<controls, timer, latest, list, loading, error>>
           ELSE IF x.for.page > x.last
           THEN /\ \/ Controls([controls EXCEPT !.page = x.last])
                   \/ controls.page = x.last /\ latest' = Nil /\ UNCHANGED <<controls, timer>>
                /\ UNCHANGED <<list, loading, error>>
           ELSE /\ list' = [filter |-> x.for.filter, page |-> x.for.page, last |-> x.last]
                /\ loading' = FALSE /\ latest' = Nil
                /\ UNCHANGED <<controls, timer, error>>

(* Only the latest request is heard.  A page that is gone by now sends the *)
(* list to the last one there is.                                          *)
ReceiveList(r) ==
    LET x == request[r]
    IN  /\ x.phase = "answered" /\ Returns(r)
        /\ IF r # latest
           THEN UNCHANGED <<controls, timer, latest, list, loading, error>>
           ELSE /\ loading' = FALSE /\ UNCHANGED error
                /\ IF x.for.page > x.last
                   THEN /\ \/ Controls([controls EXCEPT !.page = x.last])
                           \/ controls.page = x.last /\ latest' = Nil /\ UNCHANGED <<controls, timer>>
                        /\ UNCHANGED list
                   ELSE /\ list' = [filter |-> x.for.filter, page |-> x.for.page, last |-> x.last]
                        /\ latest' = Nil /\ UNCHANGED <<controls, timer>>

Fail(r) ==
    /\ request[r].phase = "failed" /\ Returns(r)
    /\ IF r = latest THEN latest' = Nil /\ loading' = FALSE /\ error' = TRUE
                     ELSE UNCHANGED <<latest, loading, error>>
    /\ UNCHANGED <<controls, timer, list>>

Retry ==
    /\ error
    /\ \E r \in Requests : Reload(controls, r)
    /\ UNCHANGED <<pages, controls, timer, list, act>>

-----------------------------------------------------------------------------
(* A row button: its function and the reload it will call are those of the *)
(* list as it is now.  Rows are there while nothing loads and no error is  *)
(* shown.  The dialogs and panels do likewise when they have saved.        *)
Click ==
    /\ act = NoAct /\ ~ loading /\ ~ error
    /\ act' = [phase |-> "sent", for |-> controls]
    /\ error' = FALSE
    /\ UNCHANGED <<pages, controls, timer, latest, request, list, loading>>

ActDone ==
    /\ act.phase = "sent"
    /\ \E r \in Requests : /\ Reload(act.for, r)
                           /\ act' = [phase |-> "reloading", by |-> r]
    /\ UNCHANGED <<pages, controls, timer, list>>

ActFails ==
    /\ act.phase = "sent" /\ act' = NoAct /\ error' = TRUE
    /\ UNCHANGED <<pages, controls, timer, latest, request, list, loading>>

-----------------------------------------------------------------------------
(* The first list comes with the page, unless it could not be read.        *)
ListsInit ==
    \E f \in Filters :
        /\ pages \in [Filters -> 1..MaxPages]
        /\ controls = [filter |-> f, page |-> 1]
        /\ list = [filter |-> f, page |-> 1, last |-> pages[f]]
        /\ timer = TRUE /\ latest = Nil /\ loading = FALSE
        /\ request = [r \in Requests |-> NoRequest]
        /\ error \in BOOLEAN /\ act = NoAct

ListsNext ==
    \/ ChangeFilter \/ TurnPage \/ TimerFires \/ PagesChange \/ Retry
    \/ Click \/ ActDone \/ ActFails
    \/ \E r \in Requests : Answer(r) \/ ReceiveList(r) \/ Fail(r)

ListsSpec == ListsInit /\ [][ListsNext]_lists

(* The sign of loading is there while the latest request is on its way,    *)
(* and never without something that will take it away: that request, or    *)
(* the wait before the next.                                               *)
LoadingTold ==
    /\ latest # Nil => loading
    /\ loading => latest # Nil \/ timer

(* "Late responses are discarded" (src/docs/STAGE-18.md:11) and "Confirm   *)
(* no stale result overwrites the latest request" (:35): once nothing is   *)
(* loading, expected or wrong, the list shown is the one the controls ask  *)
(* for.                                                                    *)
SettledMatches ==
    ~ loading /\ ~ error /\ ~ timer /\ latest = Nil
        => list.filter = controls.filter /\ list.page = controls.page
=============================================================================
