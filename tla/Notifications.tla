---------------------------- MODULE Notifications ----------------------------
(***************************************************************************)
(* The workflow of a notification and the reminder job:                    *)
(* src/features/notifications/service.ts.  readAt decides nothing and is   *)
(* left out, and so is the action that sets it.                            *)
(***************************************************************************)
EXTENDS StockTables

NoteRequest ==
    [op : {"acknowledge", "complete", "retry"}, user : Users, note : OriginIds \cup ReminderIds,
     version : Nat]
    \cup [op : {"assign"}, user : Users, note : OriginIds \cup ReminderIds,
          version : Nat, owner : Users, when : {"later", "due"}]
    \cup [op : {"remind"}, note : OriginIds]

NoteOps == {"acknowledge", "complete", "retry", "assign"}

Owner(n) == IF note[n].owner = Nil THEN note[n].recipient ELSE note[n].owner

(* notificationScope: a driver sees neither stock nor staff notifications. *)
InScope(u, n) ==
    /\ u \in {note[n].recipient, note[n].owner}
    /\ rank[u] = "driver" => note[n].item = Nil /\ ~ note[n].staffOnly

BeginHandling(s) ==
    /\ \E u \in Users, n \in Notes :
         /\ rank[u] # "none" /\ InScope(u, n)
         /\ note[n].version < MaxVersion
         /\ \/ \E op \in {"acknowledge", "complete", "retry"} :
                 Begin(s, [op |-> op, user |-> u, note |-> n, version |-> note[n].version])
            \/ \E to \in Users, when \in {"later", "due"} :
                 Begin(s, [op |-> "assign", user |-> u, note |-> n, owner |-> to,
                           when |-> when, version |-> note[n].version])
    /\ UNCHANGED left

(* An acknowledgement already given is answered without a write.           *)
CanHandle(r) ==
    LET n == note[r.note]
    IN  /\ rank[r.user] # "none" /\ InScope(r.user, r.note)
        /\ n.origin = Nil
        /\ r.op \in {"acknowledge", "complete"} => Owner(r.note) = r.user
        /\ r.op = "acknowledge" => ~ n.ack
        /\ ~ n.resolved /\ r.version = n.version
        /\ r.op = "assign" => IsStaff(r.user)
        /\ r.op = "complete" => n.item = Nil /\ n.ack
        /\ r.op = "retry" => n.status \in {"RETRY", "FAILED"}

(* Mutant: an assignment leaves the version as it was.                     *)
Handled_SameVersion(r) ==
    LET n == note[r.note]
    IN  IF r.op = "acknowledge" THEN [n EXCEPT !.ack = TRUE, !.version = @ + 1]
        ELSE [n EXCEPT !.owner = r.user, !.action = TRUE, !.ack = FALSE,
                       !.status = "PENDING", !.attempts = 0, !.next = "due"]

Handled(r) ==
    LET n == [note[r.note] EXCEPT !.version = @ + 1]
    IN  IF r.op = "acknowledge"
        THEN IF n.action THEN [n EXCEPT !.ack = TRUE]
             ELSE [n EXCEPT !.ack = TRUE, !.next = "never", !.status = "CANCELLED"]
        ELSE IF r.op = "assign"
        THEN [n EXCEPT !.owner = r.owner, !.staffOnly = TRUE, !.action = TRUE,
                       !.ack = FALSE, !.status = "PENDING", !.attempts = 0,
                       !.next = r.when]
        ELSE IF r.op = "complete"
        THEN [n EXCEPT !.resolved = TRUE, !.next = "never", !.status = "CANCELLED"]
        ELSE [n EXCEPT !.attempts = 0, !.next = "due", !.status = "PENDING"]

OpenReminders(n) == {m \in Notes : note[m].origin = n /\ ~ note[m].resolved}

(* complete resolves the reminders of the notification with it.            *)
Completed(r) ==
    IF r.op = "complete" THEN Resolved(note, OpenReminders(r.note)) ELSE note

(* retry plans the reminder for now, which is after any run began; a past  *)
(* deadline is due for a run under way too.                                *)
SaveNote(r) ==
    /\ note' = [Completed(r) EXCEPT ![r.note] = Handled(r)]
    /\ due' = [j \in Jobs |-> IF r.op = "assign" /\ r.when = "due" THEN due[j]
                              ELSE due[j] \ {r.note}]
    /\ UNCHANGED <<item, custody, rank, active>>

(* A message (operations create) or a document about to expire             *)
(* (scripts/notify-expiry.ts); the script names the same notification by   *)
(* the same identifier again and leaves it alone.                          *)
Notify ==
    /\ Room
    /\ \E k \in Plain, u \in Users, staffOnly \in BOOLEAN :
         /\ <<"plain", k>> \notin Notes
         /\ rank[u] # "none"
         /\ staffOnly => rank[u] = "staff"
         /\ note' = Put(note, <<"plain", k>>, Fresh(Nil, u, staffOnly))
    /\ UNCHANGED <<item, custody, rank, active, tx, run, faults>>

-----------------------------------------------------------------------------
(* runNotificationReminders.  A run reads the due notifications once (its  *)
(* pages of 100 are read as one) and visits them one transaction each.     *)

IsDue(n) == note[n].origin = Nil /\ ~ note[n].resolved /\ note[n].next = "due"

StartRun(j) ==
    /\ phase[j] = "idle" /\ left[j] = {}
    /\ {n \in Notes : IsDue(n)} # {}
    /\ left' = [left EXCEPT ![j] = {n \in Notes : IsDue(n)}]
    /\ due' = [due EXCEPT ![j] = {n \in Notes : IsDue(n)}]
    /\ UNCHANGED <<tables, tx, faults>>

Visit(j) ==
    \E n \in left[j] :
        /\ Begin(j, [op |-> "remind", note |-> n])
        /\ left' = [left EXCEPT ![j] = @ \ {n}]

(* Mutant: the row is not looked at again under its lock.                  *)
StillDue_NotRead(j) == TRUE

(* The row read again under its lock; due for this run is what was planned *)
(* for a moment before it began.                                           *)
StillDue(j) == req[j].note \in due[j] /\ IsDue(req[j].note)

Eligible(n) ==
    \/ IsStaff(Owner(n))
    \/ rank[Owner(n)] = "driver" /\ ~ note[n].staffOnly /\ note[n].item = Nil

Decision(n) ==
    IF note[n].ack /\ ~ note[n].action THEN "cancel"
    ELSE IF Eligible(n) THEN "create" ELSE "retry"

Look(j) ==
    /\ Ready(j) /\ req[j].op = "remind" /\ StillDue(j)
    /\ phase' = [phase EXCEPT ![j] = Decision(req[j].note)]
    /\ UNCHANGED <<tables, req, todo, held, run, faults>>

Skip(j) ==
    /\ Ready(j) /\ req[j].op = "remind" /\ ~ StillDue(j)
    /\ End(j)
    /\ UNCHANGED <<tables, run, faults>>

ReminderId(n) == <<"reminder", n, note[n].version, note[n].attempts + 1>>

Reminder(n) ==
    [Fresh(note[n].item, Owner(n), note[n].staffOnly)
       EXCEPT !.origin = n, !.next = "never", !.status = "NONE"]

Tried(n, status, next) ==
    [note[n] EXCEPT !.attempts = @ + 1, !.status = status, !.next = next]

SaveReminder(j) ==
    LET n == req[j].note
    IN  /\ \/ /\ phase[j] = "cancel"
              /\ note' = [note EXCEPT ![n].next = "never", ![n].status = "CANCELLED"]
           \/ /\ phase[j] = "retry"
              /\ note' = [note EXCEPT ![n] =
                            IF note[n].attempts + 1 >= MaxAttempts
                            THEN Tried(n, "FAILED", "never")
                            ELSE Tried(n, "RETRY", "later")]
           \/ /\ phase[j] = "create"
              /\ ReminderId(n) \notin Notes
              /\ note' = Put([note EXCEPT ![n] = Tried(n, "CREATED", "never")],
                             ReminderId(n), Reminder(n))
        /\ due' = [k \in Jobs |-> due[k] \ {n}]
        /\ UNCHANGED <<item, custody, rank, active>>

(* Time passes: what was planned for later is due.                         *)
ComesDue ==
    /\ \E n \in Notes : /\ note[n].next = "later"
                        /\ note' = [note EXCEPT ![n].next = "due"]
    /\ UNCHANGED <<item, custody, rank, active, tx, run, faults>>
=============================================================================
