---------------------------- MODULE Corrections ----------------------------
(***************************************************************************)
(* Corrections a driver asks for and an administrator decides:             *)
(* correctionCommand (src/src/features/work-time/corrections.ts).          *)
(***************************************************************************)
EXTENDS TimeTables

PendingOn(i) == {c \in correction : c.status = "PENDING" /\ c.entry = i}

(* An identifier is the primary key of its correction: looked up first,    *)
(* and enforced by the insert.                                             *)
Unused(i) == \A c \in correction : c.id # i

(* The form knows the driver's ended shifts.  As with clock commands, any  *)
(* identifier may come again.                                              *)
BeginRequest(s) ==
    \E u \in Drivers, i \in CorrectionIds, e \in EntryIds, x \in Proposals,
       v \in 1..MaxVersion :
        /\ x.end # Nil
        /\ Exists(e) /\ entry[e].driver = u /\ v <= entry[e].version
        /\ Begin(s, [op |-> "request", user |-> u, id |-> i, entry |-> e,
                     version |-> v, proposal |-> x, at |-> 0])

CanRequest(r) ==
    LET e == entry[r.entry] IN
    /\ Permitted(r.user, r.op)
    /\ Exists(r.entry) /\ e.driver = r.user
    /\ e.end # Nil /\ e.version = r.version
    /\ PendingOn(r.entry) = {}
    /\ Proper(r.proposal) /\ r.proposal.end <= r.at
    /\ r.proposal # SpanOf(e)

AskFor(r) ==
    /\ Unused(r.id)
    /\ correction' = correction \cup
          {[id |-> r.id, entry |-> r.entry, driver |-> entry[r.entry].driver,
            version |-> r.version, proposal |-> r.proposal,
            before |-> SpanOf(entry[r.entry]), status |-> "PENDING"]}
    /\ UNCHANGED <<people, entry, event>>

(* The correction is read before any lock to learn its entry.              *)
BeginDecide(s) ==
    \E u \in Users, c \in correction, verdict \in {"APPROVED", "REJECTED"} :
        Begin(s, [op |-> "decide", user |-> u, id |-> c.id,
                  entry |-> c.entry, verdict |-> verdict, at |-> 0])

(* Mutant: a decision is taken without reading the request again.          *)
Undecided_Again(r) == {c \in correction : c.id = r.id /\ c.entry = r.entry}

Undecided(r) == {c \in correction : c.id = r.id /\ c.entry = r.entry
                                    /\ c.status = "PENDING"}

(* Mutant: the shift may have changed since the driver asked.              *)
CanDecide_AnyVersion(r) ==
    LET e == entry[r.entry] IN
    /\ Permitted(r.user, r.op)
    /\ \E c \in Undecided(r) :
          /\ r.user # c.driver /\ r.user # e.driver
          /\ r.verdict = "APPROVED" =>
                /\ e.end # Nil /\ e.driver = c.driver
                /\ Clear(e.driver, c.proposal, r.entry)

(* Nobody decides a request of their own; an approval is about the very    *)
(* shift the request was about.                                            *)
CanDecide(r) ==
    LET e == entry[r.entry] IN
    /\ Permitted(r.user, r.op)
    /\ \E c \in Undecided(r) :
          /\ r.user # c.driver /\ r.user # e.driver
          /\ r.verdict = "APPROVED" =>
                /\ e.end # Nil /\ e.driver = c.driver /\ e.version = c.version
                /\ Clear(e.driver, c.proposal, r.entry)

Corrected(e, x) ==
    [e EXCEPT !.start = x.start, !.end = x.end, !.break = x.break,
              !.status = "SUBMITTED", !.version = @ + 1]

Decide(r) ==
    /\ \E c \in Undecided(r) :
          /\ correction' = (correction \ {c}) \cup {[c EXCEPT !.status = r.verdict]}
          /\ entry' = IF r.verdict = "APPROVED"
                      THEN [entry EXCEPT ![r.entry] = Corrected(@, c.proposal)]
                      ELSE entry
    /\ UNCHANGED <<people, event>>
=============================================================================
