----------------------------- MODULE Deliveries -----------------------------
(***************************************************************************)
(* Delivery details: saveDelivery (src/src/features/delivery/service.ts)   *)
(* and the panel administrators correct them in                            *)
(* (src/src/components/delivery-panel.tsx).  A correction leaves the entry *)
(* it corrects behind as a past revision.  What the panel shows is loaded  *)
(* once and may be old, or still of the driver or kind shown before.       *)
(***************************************************************************)
EXTENDS Values, Naturals

CONSTANTS
    DetailIds, Drivers, Panels

Kinds == {"PHR", "CONCESSION"}

VARIABLES
    detail,         \* DeliveryDetail, Nil before it exists
    panel,          \* props and state of a panel
    saving          \* the request a panel waits for

deliveries == <<detail, panel, saving>>

EntryRow == [driver : Drivers, kind : Kinds, previous : DetailIds \cup {Nil},
             current : BOOLEAN, revision : Nat]

ASSUME DeliveriesAssumption ==
    DetailIds \cap {"new", "closed", Nil} = {} /\ Nil \notin EntryRow

IsRow(i)      == detail[i] # Nil
Current(d, k) == {i \in DetailIds : IsRow(i) /\ detail[i].current
                                    /\ detail[i].driver = d /\ detail[i].kind = k}
None == [phase |-> "none"]

(* Another driver or kind: what is shown stays until the answer comes, the *)
(* answer to the earlier request is dropped, and another kind closes the   *)
(* form.                                                                   *)
Show(p) ==
    \/ \E d \in Drivers \ {panel[p].driver} :
         panel' = [panel EXCEPT ![p].driver = d, ![p].loading = TRUE]
    \/ \E k \in Kinds \ {panel[p].kind} :
         panel' = [panel EXCEPT ![p].kind = k, ![p].loading = TRUE, ![p].editing = "closed"]
Browse(p) == Show(p) /\ UNCHANGED <<detail, saving>>

(* The list answers for the driver and kind asked last.                    *)
ReceiveEntries(p) ==
    /\ panel[p].loading
    /\ panel' = [panel EXCEPT ![p].loading = FALSE,
                              ![p].items = Current(panel[p].driver, panel[p].kind)]
    /\ UNCHANGED <<detail, saving>>

Edit(p) ==
    /\ saving[p] = None
    /\ \E i \in {j \in panel[p].items : detail[j].kind = panel[p].kind} \cup {"new", "closed"} :
         i # panel[p].editing /\ panel' = [panel EXCEPT ![p].editing = i]
    /\ UNCHANGED <<detail, saving>>

(* The form sends the driver of the panel and the kind of the entry.       *)
SubmitEntry(p) ==
    LET i == panel[p].editing
    IN  /\ i # "closed" /\ saving[p] = None
        /\ saving' = [saving EXCEPT ![p] =
             [phase |-> "sent", id |-> i, driver |-> panel[p].driver,
              kind |-> IF i = "new" THEN panel[p].kind ELSE detail[i].kind]]
        /\ UNCHANGED <<detail, panel>>

(* Mutant: the entry is not locked.                                        *)
MayLock_Always(r) == TRUE

MayLock(r) == \A q \in Panels : ~ (saving[q].phase = "locked" /\ saving[q].id = r.id)

(* A correction needs the current entry, and keeps its driver and kind.    *)
Correctable(r) ==
    r.id # "new" => /\ detail[r.id].current
                    /\ detail[r.id].driver = r.driver /\ detail[r.id].kind = r.kind

(* Membership and driver shared, the entry exclusively, then the checks.   *)
Lock(p) ==
    /\ saving[p].phase = "sent"
    /\ saving[p].id # "new" => MayLock(saving[p])
    /\ Correctable(saving[p])
    /\ saving' = [saving EXCEPT ![p].phase = "locked"]
    /\ UNCHANGED <<detail, panel>>

SaveEntry(p) ==
    LET r == saving[p]
        old == IF r.id = "new" THEN Nil ELSE r.id
    IN  /\ r.phase = "locked"
        /\ \E i \in DetailIds :
             /\ ~ IsRow(i)
             /\ detail' = [j \in DetailIds |->
                  IF j = i THEN [driver |-> r.driver, kind |-> r.kind, previous |-> old, current |-> TRUE,
                                 revision |-> IF old = Nil THEN 1 ELSE detail[old].revision + 1]
                  ELSE IF j = old THEN [detail[j] EXCEPT !.current = FALSE]
                  ELSE detail[j]]
        /\ saving' = [saving EXCEPT ![p] = [phase |-> "saved"]]
        /\ UNCHANGED panel

(* Saved: the form closes and the list is loaded again.  An error, also    *)
(* when the entry was saved and only the answer is lost, leaves the form.  *)
EntrySaved(p) ==
    /\ saving[p].phase = "saved"
    /\ panel' = [panel EXCEPT ![p].editing = "closed", ![p].loading = TRUE]
    /\ saving' = [saving EXCEPT ![p] = None]
    /\ UNCHANGED detail

Failed(p) ==
    /\ saving[p] # None
    /\ saving' = [saving EXCEPT ![p] = None]
    /\ UNCHANGED <<detail, panel>>

DeliveriesInit ==
    /\ detail = [i \in DetailIds |-> Nil]
    /\ panel \in [Panels -> [driver : Drivers, kind : {"PHR"}, loading : {TRUE},
                             items : {{}}, editing : {"closed"}]]
    /\ saving = [p \in Panels |-> None]

DeliveriesNext ==
    \E p \in Panels : Browse(p) \/ ReceiveEntries(p) \/ Edit(p) \/ SubmitEntry(p) \/ Lock(p) \/ SaveEntry(p)
                      \/ EntrySaved(p) \/ Failed(p)

DeliveriesSpec == DeliveriesInit /\ [][DeliveriesNext]_deliveries

(* The revisions of an entry form one line: each has at most one successor *)
(* of the same driver and kind, numbered next, and only the last of them   *)
(* is current (service.ts:35, "stale editors get a conflict").             *)
OneLine ==
    \A i \in {j \in DetailIds : IsRow(j)} :
        LET next == {j \in DetailIds : IsRow(j) /\ detail[j].previous = i}
        IN  /\ detail[i].current <=> next = {}
            /\ \A j, k \in next : j = k
            /\ \A j \in next : /\ detail[j].revision = detail[i].revision + 1
                               /\ detail[j].driver = detail[i].driver
                               /\ detail[j].kind = detail[i].kind
=============================================================================
