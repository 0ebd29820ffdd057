----------------------------- MODULE TimeOffice -----------------------------
(***************************************************************************)
(* Work time kept by administrators: the work-times part of                *)
(* mutateOperations (src/src/features/operations/service.ts), and what     *)
(* other services do to the people it is about.                            *)
(***************************************************************************)
EXTENDS TimeTables

BeginCreate(s) ==
    /\ Room
    /\ \E u \in Users, d \in Drivers, x \in Proposals :
          /\ Proper(x)
          /\ Begin(s, [op |-> "create", user |-> u, driver |-> d, span |-> x, at |-> 0])

CanCreate(r) == driverActive[r.driver] /\ Clear(r.driver, r.span, Nil)

Manual(r, version) ==
    [driver |-> r.driver, start |-> r.span.start, end |-> r.span.end,
     break |-> r.span.break, clock |-> "NONE", paused |-> Nil,
     status |-> IF r.span.end = Nil THEN "OPEN" ELSE "SUBMITTED",
     version |-> version]

Create(r) ==
    /\ \E i \in EntryIds : ~ Exists(i) /\ entry' = [entry EXCEPT ![i] = Manual(r, 1)]
    /\ UNCHANGED <<people, event, correction>>

BeginUpdate(s) ==
    \E u \in Users, d \in Drivers, x \in Proposals, i \in EntryIds :
        /\ Exists(i) /\ entry[i].version < MaxVersion
        /\ Proper(x)
        /\ Begin(s, [op |-> "update", user |-> u, entry |-> i, driver |-> d,
                     span |-> x, at |-> 0])

(* Mutant: shifts recorded by the clock are amended like others.           *)
CanUpdate_ClockToo(r) ==
    /\ driverActive[r.driver]
    /\ Clear(r.driver, r.span, r.entry)
    /\ r.driver # entry[r.entry].driver =>
          \A c \in correction : c.entry # r.entry

(* The foreign key of its corrections ties an entry to its driver.         *)
CanUpdate(r) ==
    /\ entry[r.entry].clock = "NONE"
    /\ driverActive[r.driver]
    /\ Clear(r.driver, r.span, r.entry)
    /\ r.driver # entry[r.entry].driver =>
          \A c \in correction : c.entry # r.entry

Update(r) ==
    /\ entry' = [entry EXCEPT ![r.entry] = Manual(r, @.version + 1)]
    /\ UNCHANGED <<people, event, correction>>

BeginApprove(s) ==
    \E u \in Users, i \in EntryIds :
        /\ Exists(i) /\ entry[i].version < MaxVersion
        /\ Begin(s, [op |-> "approve", user |-> u, entry |-> i, saw |-> entry[i],
                     at |-> 0])

CanApprove(r) ==
    LET e == entry[r.entry] IN
    e.version = r.saw.version /\ e.end # Nil /\ e.status = "SUBMITTED"

Approve(r) ==
    /\ entry' = [entry EXCEPT ![r.entry].status = "APPROVED",
                              ![r.entry].version = @ + 1]
    /\ UNCHANGED <<people, event, correction>>

(* Archival and reactivation of a driver (fleet/service.ts) and account    *)
(* changes (accounts/service.ts) lock profile and membership throughout:   *)
(* one step each, between the transactions that hold those rows.           *)
Staff(d) ==
    /\ "staff" \in Ops
    /\ \A s \in Sessions : <<"driver", d>> \notin held[s] /\ <<"member", d>> \notin held[s]
    /\ \/ /\ driverActive' = [driverActive EXCEPT ![d] = ~ @]
          /\ member' = IF driverActive[d] /\ member[d].role = "DRIVER"
                       THEN [member EXCEPT ![d].active = FALSE] ELSE member
       \/ /\ \E role \in {"ADMIN", "DRIVER"}, active \in BOOLEAN :
                /\ <<role, active>> # <<member[d].role, member[d].active>>
                /\ role = "DRIVER" /\ active => driverActive[d]
                /\ member' = [member EXCEPT ![d] = [role |-> role, active |-> active]]
          /\ UNCHANGED driverActive
    /\ UNCHANGED <<sheets, phase, req, todo, held>>
=============================================================================
