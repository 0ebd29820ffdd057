# Fahrvia: specifications, model checking and proofs

Fahrvia (Fahriva) runs the fleet of a delivery company: drivers and vehicles, who drives what, physical
keys, delivery waves, work time, stock, score imports, notifications. It is a Next.js application over
PostgreSQL, accessed through Prisma. Every write is one interactive transaction at READ COMMITTED (score
imports: SERIALIZABLE) that locks rows by hand (`SELECT ... FOR UPDATE`), checks, and writes. The
repository's tests run on a single-connection database, so they cannot interleave two transactions
(`docs/STAGES.md:42` calls native concurrency qualification pending). That is what these modules are for:
they check and prove what the hand-placed row locks, version checks and re-read memberships achieve when
transactions really overlap, are refused, time out or lose their connection.

## Inventory

| Component (source under `src/src`) | State it keeps | Operations | What is hard | What makes it correct |
|---|---|---|---|---|
| Fleet registry (`features/fleet`) | drivers, vehicles, service periods | create, update, archive, reactivate | archival against everything that refers to the row | nothing outstanding with an archived row; one open period per active vehicle |
| Assignments (`features/fleet`, `assignments`) | open and closed assignments | assign, close | two requests for one driver or vehicle | one open assignment per driver and vehicle |
| Keys (`features/keys`) | keys, slots, holder, version, replacement chain | create, transfer, retire, replace | slot allocation, stale clients | distinct slots, linear replacement, nothing retired in use |
| Waves (`features/waves`) | waves, participants, progress, version | create, update, progress, start, complete | locks on many rows, plan made long before the start | nobody on two tours, completed waves frozen |
| Accounts (`features/accounts`) | memberships, sessions | change role and access | administrators changing each other; archival disables accounts | an account as driver needs an active driver |
| Work time (`features/work-time`, `operations`) | entries, clock events, corrections | start/pause/resume/finish, request/decide, admin edit/approve | retries of the same request, overlapping entries, clock steps | no overlap, each command booked once, breaks within the shift |
| Score imports (`features/score`, `workers/score`, `components/score-import.tsx`) | revisions of a week, their scores, source bytes; the panel's choices and draft; workers under way | choose, preview, commit, revert; read a file | snapshot taken before the lock, bytes outside the transaction; answers to choices since changed; workers that never answer | one published revision, a restorable chain; the draft offered is of what is shown; every line is its driver's or an error |
| Inventory and alerts (`features/inventory`) | stock, custody, shortage and its alerts | issue, return, adjust, update, configure, reconcile | repeated requests, one identifier under two items, alerts of a shortage that is over | pieces lent once and never more than there are; open alerts belong to the shortage of now |
| Notifications (`features/notifications`) | workflow state, reminder schedule | acknowledge, assign, complete, retry, the reminder job | job against users and another job, failing runs, lock inversion with stock | one reminder per plan; every plan ends |
| Invitations (`features/invitations`) | invitation, token, issuer and the issuer's version | create, resend, revoke, accept, list, transport answer | late transport answers, issuer losing the role, the same address twice | whoever is let in was invited by someone who still may, once |
| Uploads, inspections (`features/uploads`, `inspections`, `components/vehicle-inspections.tsx`) | stored objects, bytes, reports, the form's draft | upload, submit, repeat | bytes outside the transaction, ambiguous commits | bytes and rows match; one report per visit |
| Delivery details (`features/delivery`, `components/delivery-panel.tsx`) | revision chain | create, correct | two corrections of one revision, a panel that shows what was | linear chain, one current row |
| Categories (`features/categories`) | categories, labels of vehicles | create, rename, archive, reactivate, label a vehicle | labels copied into vehicles | labels equal the category's name |
| Lists (`components/module-table.tsx`) | controls, latest request, rows shown | filter, page, retry, row buttons | requests overtaking one another, functions made for old controls | the sign of loading is taken away; the list shown is the one asked for |
| Read models (`server/queries.ts`, `server/policy.ts`), downloads | none of their own | every list, the dashboard, a file | role and tour change while a request runs; list and download decide separately | nobody is shown more than one role and tour of theirs entitle to; what is listed, or evidence of a correction, can be opened |
| Planning, messages, documents (`features/operations`) | events, threads, documents | plan, change, remove; send; archive | single-row writes, scope | threads stay between two people |
| Local database (`scripts/local*`) | database, retained databases, archives, lock file | bootstrap, dev, upgrade, backup, restore | killed anywhere, lock removed by hand, application connected | nothing committed is lost, no half database in use |
| HTTP, authentication (`server`, `app/api`) | sessions, rate limits | principal, limits | principal loaded before the transaction | checked again inside it |
| The rest of the user interface, deployment checks, mail transport | none shared | rendering, forms, I/O | - | not modelled |

Components interact only through rows and row locks of the shared database: an archival reads assignments,
keys and waves and disables an account; an inspection reads assignment and shift; a reminder inserts a row
that refers to a stock item. There are no callbacks and no queues between them.

## Modules

    FleetTables          rows, requests, row locks, the steps every transaction is made of
      Assignments  Keys  Waves  Registry       one module per component: request, check, write
        Fleet            all of them on one database: Init, Next, Spec, fairness, properties
          FleetInvariant   the inductive invariant
            MCFleet          instances for TLC
            FleetLocks       types, frame lemmas
              FleetSafety      the theorems; Fleet implements Custody
    Custody              what Fleet promises, without transactions

    TimeTables           rows, requests, row locks and steps of the work-time transactions
      ShiftClock  Corrections  TimeOffice      the three services that write work time
        WorkTime         all of them on one database: Init, Next, Spec, properties
          MCWorkTime       instances for TLC
          WorkTimeInvariant  the inductive invariant
            WorkTimeSafety   what each write keeps, frame lemmas, the theorems;
                             WorkTime implements Timesheet
    Timesheet            what WorkTime promises, without transactions

    ScoreImports         imports of one week: tables, snapshots, requests, Spec, properties
      MCScoreImports       instances for TLC
      ScoreSafety          invariant, theorems, ScoreImports implements Revisions
    Revisions            what ScoreImports promises, without transactions

    StockTables          rows, row locks and steps of stock and notification transactions
      Inventory  Notifications                 the two services; the reminder job
        Stockroom        both on one database: Init, Next, Spec, fairness, properties
          MCStockroom      instances for TLC
          StockSafety      invariant, theorems, Stockroom implements Store
    Store                what the inventory promises, without transactions

    Access               invitations and account changes: requests, row locks, mail, properties
      MCAccess             an instance for TLC
      AccessSafety         invariant, theorems

    Values               the value that stands for nothing
      Evidence  Categories  Deliveries  Lists  Views  Upkeep  Previews      a part each
        Office           one of them at a time: OfficeSpec, properties
          MCOffice         an instance for TLC
          OfficeSafety     an invariant of each part, theorems

    FiniteOrder          a least number, a maximal element: for FleetSafety, WorkTimeSafety, ScoreSafety

The parts do not share variables. Where one needs what another does to its rows, that is one action of the
environment: `Staff` of `TimeOffice` and of `Stockroom` (archival, reactivation, account changes),
`DriverChanged` of `Access` (the registry), `DutyChanges` of `Evidence` (the shift clock, assignments),
`RowsChange`, `RoleChanges`, `TourChanges` of `Views`. Each is free to happen whenever the row locks the
transaction holds permit it, so these parts promise what they promise whatever the others do. Score imports
name their row by identifier and read nothing but memberships from elsewhere.

The seven parts under `Office` share no rows worth composing, or only through such an action. `Office`
puts them under one next-state relation, of which a behaviour uses one part while the others rest; that
composes nothing and is there so that one instance answers for all of them. `Lists` is also run on its own
for the property that fails.

### The fleet

`Fleet` starts with empty tables apart from the seeded drivers and vehicles. A session (one HTTP request,
one transaction) goes through these steps, with the steps of other sessions in between:

| Step | Code |
|---|---|
| `Arrive` (`BeginAssign`, `BeginKeyTransfer`, ...) | `principalFromHeaders`, role check, the row read before any lock to learn what to lock, the client's copy of the row (`saw`) |
| `Lock` (`LockRow`, `LockWave`) | one `SELECT ... FOR UPDATE` per row; the membership of the actor `FOR SHARE`, last |
| `Check` / `Refuse` | the reads and conditions of the operation (`CanAssign`, `CanArchiveDriver`, ...) |
| `Authorise` / `Refuse` | the membership read again under its lock |
| `Commit` | the writes (`Assign`, `ArchiveDriver`, ...) and COMMIT: locks are gone |
| `Abort` | connection lost, interactive transaction timed out |

`CreateDriver`, `CreateVehicle` and `ChangeAccount` are one step each: the first two write rows nobody else
can name yet, the third holds every row it reads and writes locked throughout.

Abstractions, each on the safe side:

* Keys and `close` read some rows after the membership lock; here all reads precede it, so what was read
  has more time to become stale. The code refuses earlier in some cases; `Abort` covers that.
* `saw` is the whole row the client loaded, but the code only ever compares its version. That the rest is
  the same too is a property (`NoLostUpdate`).
* Versions and revisions are counted without bound in the specification; the guards of the `Begin` actions
  leave a row alone at `MaxVersion`/`MaxRev`. `updatedAt`, which the driver reactivation compares, counts as
  a revision: two updates in one millisecond are not modelled.
* Packages and deliveries of a wave are one flag, `done`. Names, dates, reasons, audit and key custody log
  are left out: written with the change, read by no operation.
* The partial unique indexes (`prisma/migrations/20260908_invariants`, `20260912_key_lifecycle`) and the
  categories' advisory lock are left out: the row locks alone turn out to suffice.
* A rename of a category relabels vehicles under their row locks (`vehicle.updateMany`). Labels and the rename
  are in `Categories`, not here, so `NoDeadlock` does not speak of renames.
* `ADMIN` stands for both administrator roles. An account is linked to a driver from the start; linking by
  invitation is in `Access`.
* A driver update by the registry and a vehicle update change no column another operation reads apart from
  the revision.

### Work time

| Step of `WorkTime` | Code |
|---|---|
| `Arrive` (`BeginPunch`, `BeginRequest`, `BeginDecide`, `BeginCreate`, `BeginUpdate`, `BeginApprove`) | the request with what its client had loaded: identifier of the command, entry, version |
| `LockRow` | `SELECT ... FOR UPDATE` of an entry (which tells a decision and an amendment whose driver to lock next) and of drivers; the membership `FOR SHARE` |
| `MissRow` | the driver's own statement (`... AND "driverId" = ...`) finds no row, because an administrator gave the entry to someone else; the transaction goes on and refuses later |
| `Check` / `Refuse` | `new Date()` after the locks, then the conditions (`CanStart`, `CanPunch`, `CanRequest`, `CanDecide`, `CanCreate`, `CanUpdate`, `CanApprove`) |
| `Replay` | the identifier was booked before: the current state is answered, nothing is written |
| `Commit` / `Abort` | writes and COMMIT / connection lost, time-out |
| `Staff` | archival, reactivation, account change of a driver |

A page repeats a command with the identifier it had until it gets an answer, in several tabs if there are
several; so any command arrives with any identifier, used or not, at any version up to the current one. That
covers lost, duplicated, delayed and reordered requests. The clock of the server may show any time of `Times`
at each read: it may stand still and step back.

* Times are small numbers in one unit; the break of a shift is counted in it, and `breakMinutes`, its
  rounding, is left out together with the whole-minute rule for entries made by hand.
* A driver stands for its profile and its account: who is linked to whom does not change here.
* The fingerprint of a repeated correction and its decision identifier only choose between answering and
  refusing: both leave the database alone, and both are `Refuse`.
* The primary key of corrections and the foreign key that ties them to the driver of their entry are modelled
  (`AskFor`, `CanUpdate`), because both decide what commits. The unique indexes of events and pending
  corrections are left out: the locks alone turn out to suffice (`BookedOnce`, `CorrectionsSound`).
* Reports, exports and the time-zone arithmetic of shifts are left out.

### Score imports

| Step of `ScoreImports` | Code |
|---|---|
| `Upload` | `previewScore` up to `storeBytes`: the file is parsed and its bytes are stored, outside any transaction |
| `Lock` | `pg_advisory_xact_lock` of the week |
| `Look` | the published revision, read statement by statement (READ COMMITTED) |
| `Repeat` / `Record` | a duplicate is answered / the draft is inserted and committed |
| `FailPreview`, `RemoveBytes` | an error or a duplicate, and the `finally` that removes the bytes |
| `BeginChange` | `changeScoreImport`: the SERIALIZABLE transaction begins, its first statement takes the snapshot; the lock is still to come |
| `Change` | status checks on the snapshot, the updates, COMMIT |
| `FailChange` | a refusal (403, 409, 422), `could not serialize`, the unique index, a lost connection |
| `Crash` | the server stops between any two steps |

PostgreSQL is modelled as far as the argument needs it: a SERIALIZABLE transaction sees its snapshot
(`snap`) and may not update a row changed since (`dirty`, `Serializes`), and no two rows of a week are
COMMITTED (`OneCurrent`, the index `one_published_score_period`). The further aborts of its predicate locks
are among `FailChange`, which is always possible; nothing here relies on them.

* An instance is one week of one organisation: lock, queries and index are all per week.
* An import's identifier stands for the key of its bytes too; both are drawn at random once.
* The content of a file is what parsing makes of it, its hash included; whether it has errors is `Valid`.
* The score rows are left out: they are written with their import, get its status in the same transaction
  and are read through it.
* `Faults` says what an instance lets fail: `"lost"` is the answer to a COMMIT that succeeded, `"crash"` the
  server.

### Stock and notifications

| Step of `Stockroom` | Code |
|---|---|
| `BeginStock`, `BeginSettings`, `BeginReconcile`, `BeginHandling` | `issueInventory`, `returnInventory`, adjust and update of an item, `configureStockAlert`, `reconcileStockAlerts`, `notificationAction` |
| `LockRow` | one `SELECT ... FOR UPDATE` per row: item, then holder; the notification; the membership `FOR SHARE`, last |
| `Check` / `Refuse` | the conditions (`CanIssue`, `CanReturn`, ..., `CanHandle`), the person named (`Person`), the identifier looked up (`IsNew`) |
| `Commit` | the writes with `evaluateStockAlert` (`SaveStock`), `SaveNote`, `SaveReminder`; rows it writes without having locked them (`Touches`) are waited for here |
| `Collide` | the unique index of issue identifiers: two issues of different items share no row lock |
| `BreakDeadlock` | PostgreSQL ends one of two transactions that wait for each other |
| `StartRun`, `Visit`, `Look`, `Skip` | `runNotificationReminders`: the list read once, then one transaction per row that looks again |
| `Fail` | connection lost, time-out; in the job the error leaves the loop and the run |
| `Notify`, `ComesDue`, `Staff`, `CreateItem` | messages and expiring documents; time; accounts and fleet; a new item |

* Identifiers of alerts and reminders are hashes in the code and tuples of what is hashed here.
* Planned times are "never", "later" or "due". A row planned for now after a run began is due for later runs
  only (`due`).
* `readAt`, the movement log and names are left out: nothing reads them to decide.
* The person an alert or assignment names is read without a lock (`Person`); that is why `ChecksStand`, which
  says what was checked is true at the commit, is about `Admissible` alone.
* `MaxStock` is the column's 2^31 - 1, `MaxAttempts` five in the code.

### Invitations and accounts

| Step of `Access` | Code |
|---|---|
| `BeginInvite`, `BeginChangeInvitation`, `BeginAccept`, `BeginChange` | the four requests with what was read before their transaction |
| `Check` / `Refuse` | the locks (`Rows`) and the conditions under them: `MayInvite` (`liveAdmin`), `DriverFits` (`checkDriver`), `Usable`, the version of an account |
| `Commit` | `Invite`, `Resend`, `Revoke`, `Accept`, `Change`; the unique indexes of open invitations and of addresses |
| `Answer` | the mail is sent after COMMIT and the answer recorded by token, whenever it comes |
| `Age`, `DriverChanged`, `Abort` | resend after a minute and expiry after 72 hours; the registry: a driver's address changes, archival disables the linked account while its role is DRIVER, reactivation leaves the account; everything that ends a transaction |

The locks of a transaction are taken in one step: one that waits has written nothing, and a deadlock is an
`Abort`. A token is a model value, which stands for the random bytes and their hash. The role and the driver
of an invitation and the address at which an account is made are kept, the password is not. Drivers start
with an address each (`SeedEmail`) and keep addresses apart among themselves, as the table's index does.

### Evidence, categories, delivery details

* `Evidence` follows a request from its first check (`CheckEarly`) over the storage of each file
  (`StoreNext`) to the transaction (`CheckLate`, then `Commit`, `Interrupted` - COMMIT's answer lost, with
  or without effect - or `RolledBack`), to the removal of what it stored (`CleanUp`, each file on its own).
  An upload whose COMMIT answer was lost removes the bytes of a row that is there (`uploads/service.ts:214`);
  nothing promises otherwise, so `StoreMatches` excuses it. For score imports the same loss is a finding.
  `Crash` stops all requests anywhere. `excused` names the requests after which the store may hold bytes
  that no row mentions, or an upload's row without its bytes. The form (`LoadForm`, `SubmitReport`,
  `Resend`, `Hear`, `TimeOut`, `Leave`) repeats an unconfirmed report under the identifier it had. What
  makes a picture or a PDF valid is a choice of `StoreNext`; the answers of a report are left out.
* `Categories` has `mutateCategory` and `vehicleCategories` as transactions under one advisory lock: `Ask`,
  `Prepare` (lock and checks), `SaveCategory` or the vehicle's write, `Reject`. One type of category; names
  that differ in case only are one name.
* `Deliveries` has `saveDelivery` with its locks (`Lock`, `SaveEntry`) and the panel whose entries may still
  be those of the driver or the kind chosen before. The measures of an entry are left out.

### Lists, views, upkeep

* `Lists` is the state of `module-table.tsx`: controls, the 250 ms timer, the number of the latest request,
  what each request asked for. A function made by an earlier render carries that render's controls: that is
  `for` in `request` and `act`. Search, status, week and order are one filter.
* `Views` reads a person's role when a request comes (`Come`), the rows later, in two reads where the code
  uses two (`ReadVans` then `ReadRows`; `ReadFile` then `ReadTour`). Rows carry the columns the lists are
  scoped with. Corrections of working time (`Corrected`) ask for no permission but read the role again
  under a lock; a document handed in with one (`HandIn`) stays open to its driver and to administrators
  after it is archived or renewed (`Renew`), the evidence case of `download`. `tours` is a history variable
  of the properties: the vans the person had at each moment since the request came. Abstractions: a person
  and their driver profile are one name, so is a file and its one document or report (files are never used
  again), and the correction a document belongs to is only the mark `evidence`. A request under way goes on
  with the role it came with and, for documents, with the tour it has read, though either has ended since:
  the code does so, and the properties speak of what must not be added.
* `Upkeep` has every step of `bootstrap`, `dev`, `upgrade`, `backup` and `restore` at which something
  outside the process changes; a command may stop with an error (`Stop`) or be killed (`Kill`) between any
  two. `RemoveLock` and `Recover` are what an operator does by hand according to `docs/LOCAL-DATABASE.md`.

### Previews

`Previews` is what happens before `ScoreImports` has a file: the panel, the workers and the rows.

| Step of `Previews` | Code |
|---|---|
| `ChooseFile`, `ChooseWeek`, `ChooseHeader`, `ChooseSheet`, `ChooseMapping`, `Reopen` | the form of `score-import.tsx`: each change takes back the draft and its confirmation; closing the panel unmounts the form and nothing else |
| `AskPreview`, `ShowPreview`, `PreviewFails`, `HistoryLoads` | `preview`: what was chosen is sent, the answer sets sheet, mapping and draft |
| `Confirm`, `AskCommit`, `AskRevert`, `ChangeDone`, `ChangeFails` | the confirmation of a replacement, `act` |
| `Upload`, `WorkerAnswers`, `WorkerBreaks` | `parseIsolated`: the count of two workers, the first of message, exit, error and time limit |
| `ReadLine` (`AfterLine`, `Identified`) | one line of `normalizeRows`: blank, refused, or the score of the driver it names |

* A file is not kept: what its lines are comes out as they are read, and any file may turn out to be any.
  A line is the texts in two columns, which may name a driver, and of all other cells whether there are any
  and whether they are right. E-mail addresses and transporter ids are drawn from the same texts, so any
  column may hold what belongs into the other.
* Two drivers may have the same address but for case, which the database tells apart and the parser does not.
* The mapping shown is a name; that of the worker is what it does. Formats of cells, the structure of XLSX
  and CSV files and the row numbers of errors are left out.

## Runs

All instances have two sessions, which is every pairwise race; each row-lock argument is about two
transactions (the proofs below are for any number of sessions). `alerts` has one session, a job and
`Staff`; `office` two or three actors according to the part, and one reader for `Views`.

| Run | Instance | Question |
|---|---|---|
| `fleet_custody` | one vehicle, driver, key, wave, assignment; 14 operations; versions to 3 | does each transaction act as one atomic step of `Custody` (`ImplementsCustody`), on checks that still hold (`ChecksStillHold`), on the row its client saw (`NoLostUpdate`), leaving nothing outstanding and no open service period with what left the fleet (`LeavesSettled`), and a frozen history (`HistoryFrozen`)? |
| `fleet_conflicts` | two vehicles, drivers, waves, assignments with crossing participants; or the keys of a third vehicle, registered with 0-2 of them | double assignment and double tour (`PairsExclusive`), slots, retirement and replacement (`KeysConsistent`), circular waiting (`NoDeadlock`) |
| `fleet_accounts` | a driver with an account, an administrator, a vehicle, two assignment identifiers | `AccountNeedsDriver`; under fairness every request is answered (`Answered`) |
| `worktime_sheet` | one driver, an administrator, two entries, four identifiers, times 0-3, an open and two ended proposals, one correction; versions to 4 | does each transaction act as one atomic step of `Timesheet` (`ImplementsTimesheet`), on checks that still hold (`ChecksStand`)? Do shifts not overlap, contain their breaks and get booked once, whatever the server's clock does (`ShiftsSound`)? Are bookings one legal sequence that adds up to the shift (`ClockHistory`) and is nothing rewritten (`HistoryKept`)? |
| `worktime_corrections` | two drivers, two entries that may change hands, two corrections, versions to 3 | one pending request per shift, none applied twice, nothing decided that was not shown (`DecisionsSound`); circular waiting (`NoDeadlock`) |
| `score_week` | three imports, two good contents and a faulty one; crashes, lost answers | do commits and reverts decide on what is still true (`SnapshotSuffices`), stay revisions one chain that can be taken back to its start (`ChainSound`), is each transaction one atomic step of `Revisions` (`ImplementsRevisions`)? |
| `score_source` | two imports, lost answers | `SourceRetained`, which fails |
| `stock` | two items of up to two pieces, two holders, two identifiers; or a message, or an item with a threshold and its alert, with two jobs; versions to 3 | is every stock transaction one step of `Store` (`ImplementsStore`) on checks that stand (`ChecksStand`); does each plan make one reminder, and do completing a notification and recovering an item take the reminders along while jobs run (`RemindersFollow`)? |
| `alerts` | an item with a threshold, two people, a message; one session, one job, one fault | do open alerts and reminders belong to the shortage of now (`AlertsFollowStock`); under fairness every planned reminder ends (`RemindersSettle`) and whoever is responsible is alerted (`AlertsReach`) |
| `access` | a super-administrator, an administrator, places for two accounts; two invitations, two tokens, two drivers, three addresses | `Admission`, `OneAccount` (two invitations accepted at once, for drivers whose addresses change meanwhile), `DeliveryTold` |
| `office` | one part at a time, see below | `StoreMatches`, `OneReport`, `BookedOnDuty` (evidence); `LabelsFollow` (categories); `LinearHistory` (deliveries); `LoadingEnds` (lists); `OwnOnly`, `ListedOpens` (views); `Recoverable`, `Guarded` (upkeep); `PreviewTells` (previews) |
| `list_stale` | two filters, two pages, two requests | `SettledMatches`, which fails |

Several properties are conjunctions of what used to be said apart and is proved part by part:
`PairsExclusive` (`OneOpenAssignment`, `OneActiveWave`), `LeavesSettled` (`ArchivedHoldsNothing`,
`ServicePeriodOpen`), `ShiftsSound` (`NoOverlap`, `BookedOnce`, `ShiftsProper`), `DecisionsSound`
(`CorrectionsSound`, `DecidedAsSeen`), `PreviewTells` (`DraftAsShown`, `LinesAsWritten`, `Counted`: what the
panel, the lines and the workers promise). The types of `Fleet` are proved (`TypeCorrect`) and not run.

### Bounds and constraints

Four identifiers are a complete shift with a break (start, pause, resume, finish) and times 0-3 let each
booking have its own time; a second break adds no new rule. Two entries are what an overlap needs, two
drivers what an entry that changes hands and crossing lock requests need. Two vehicles and two drivers are
what crossing lock requests need; one of each suffices for every rule that relates one row to what refers to
it. Three imports are a chain of three, or a chain of two and a draft that competes for its top. Sessions,
and identifiers without an order, are symmetric; vehicles and drivers are not, because locks are taken in
their order; and nothing is symmetric in the two runs with liveness.

Some instances answer two questions, and a constraint keeps them from multiplying:

| Constraint | Run | Kept apart |
|---|---|---|
| `OneSubject` | `fleet_conflicts` | tours of the first two vehicles; keys of the third |
| `ClockOrOffice` | `worktime_sheet` | a shift of the clock with all commands while access comes and goes; starts and ends beside the office and corrections |
| `OneSubject` | `worktime_corrections` | two corrections of an entry; two entries and the clock |
| `OneTopic` | `stock` | loans of items nobody watches; a message, or an item with a threshold and its alert, with two jobs and one session, or with two sessions before any reminder |
| `OneIdentifier` | `stock` | one item with everything; two items that are lent one piece under one identifier |
| `Calm` | `access` | with one driver, beside one invitation one other thing happens: a change of an account or driver, its expiry, a second invitation, and when an invitation is closed requests come one at a time (`Quiet`); with both drivers and two accounts to make, invitations and acceptances at once while addresses change (`Enrolling`) |
| `OneMatter`, `Focused` (action) | `office` | files of one or two lines read with any columns; a second worker beside the first; the panel with two workers and a file of one line |
| `FewRequests`, `OnePanelMoves`, `OneTopic`, `FewBackups` | `office` | at most two requests for evidence, inspections apart from uploads; one panel is browsed; one row of the kind asked for, or the documents of a renewal, or messages, and nobody with a role or van the request does not look at; two backups |
| `Prompt`, `InOrder` (action) | `office` | what was read is answered next; names that mean nothing are used in order |

What a constraint separates meets no rule in common: tours and keys of different vehicles, the threshold of an
item and the identifier of an issue. The combinations left out are not checked; the proofs, which know no
constraint, cover them for everything but liveness.

`alerts` has two attempts instead of five, settings and notifications up to version 2 and one shortage: a
row at the bound is left alone. That does not help the liveness properties, because the last attempt and
the last version are reached, and `RemindersSettle` and `AlertsReach` must hold of those rows too.

`fleet_conflicts` has two identifiers of keys, so that a key has one successor there is shown by the theorem
(`KeysSound`) alone; `alerts` has one shortage, and alerts of later ones are covered by `AlertsAlwaysFollow`.

`fleet_conflicts`, both work-time runs, both score runs, `stock` and `alerts` switch the deadlock
check off: with their identifiers and versions used up nothing is left to do; circular waits are what
`NoDeadlock` is about.

### Fairness

`Fleet` (`FairSpec`): weak for `Check`, `Authorise` and `Refuse` - a transaction under way executes its next
statement; strong for `Lock` and `Commit` - PostgreSQL queues the waiters of a row, so a waiter is served
though the row is taken again and again (an archival's commit waits for the account's row). Nothing is
assumed of clients: arriving is not fair, nor are aborts.

`Stockroom` (`FairSpec`): strong for the steps of a transaction, for the same reason; weak for the start of
a job, which is scheduled every few minutes, and strong for its visits and for the reconciliation, which is
run again and again but finds its session or its row busy in between; weak for `BreakDeadlock`, without
saying whom PostgreSQL ends, and for `ComesDue`, time. Failures are bounded by `MaxFaults`: a job that fails
for ever delivers nothing, and since an error leaves the loop, a row whose transaction fails every time may
keep the rows behind it waiting for ever; the bound leaves that row out. People do nothing of themselves.

### What fails

`score_source` shows that `previewScore` removes the stored bytes whenever its transaction reports an error,
so a COMMIT whose answer is lost leaves a draft, which can be published, without the source that
`docs/STAGE-14A.md` says is retained. Inspections keep their bytes in that case (`docs/STAGE-22C.md`,
`StoreMatches`).

`list_stale` shows that a row button still at work when the filter is changed ends with the reload of the
render it was clicked in. That reload takes the newest request number, so its answer is shown: nothing loads,
nothing is expected, no error is shown, and the rows are those of the old controls. `docs/STAGE-18.md` says
late responses are discarded. The dialogs and panels reload in the same way. That the sign of loading
always goes away is checked and holds (`LoadingEnds`).

## Proofs

Every safety property, action property and refinement a passing run checks is also the statement of a
theorem; PROJECT.json lists them. The proofs hold for any number of sessions, rows and versions. They rest on
named assumptions on the constants, which the runs evaluate for their instances:

| Assumption | Says |
|---|---|
| `FleetAssumption` | identifiers are ordered, an account belongs to at most one driver, `Nil` and the two places OFFICE and MISSING are no identifiers |
| `TimeAssumption` | times are natural numbers, driver identifiers are ordered, `Nil` is neither a time nor an entry, and there are a driver and a time (for the row of an entry that does not exist yet) |
| `ScoreAssumption` | valid contents are contents, there is one, `Nil` is no import and no session, the imports of a week are finitely many |
| `StockAssumption`, `NilAssumption` | quantities are positive, bounds natural numbers, jobs no sessions, and `Nil` none of the rows, identifiers and loans it stands in for |
| `AccessAssumption` | the seeded roles and addresses and what is asked for are of their types, `Nil` is none of the rows and identifiers |
| `EvidenceAssumption`, `CategoriesAssumption`, `DeliveriesAssumption`, `ListsAssumption`, `UpkeepAssumption` | `Nil` and the reserved words are none of the rows and identifiers, bounds are natural numbers |
| `PreviewsAssumption` | drivers are finitely many; `Nil` is none of the words that say what a panel waits for |

Finiteness is assumed in two places and for a reason in each: the chain of revisions is followed by a count of
imports (`ScoreAssumption`), and a driver is identified by how many have an address (`PreviewsAssumption`).

Two facts take the place of induction over data, which this prover cannot apply: every non-empty set of
natural numbers has a least element (`LeastNumber`, a least counterexample instead of an induction) and
every non-empty finite set has a maximal element in a strict order (`MaximalElement`). A recursive function
is compared with an explicit sequence of its values.

### The fleet

`FleetLocks` proves `TypeCorrect`. `FleetSafety` proves that `Inductive` (`IInv` and, per theorem, its
property) holds always, and from it the properties listed in PROJECT.json.

`ChecksStillHold` is not inductive: why does nobody archive the driver a transaction has just found active?
Because the archival would hold the driver's lock. The invariant therefore says, in named parts, that
a row is locked by one session (`Exclusive`); that a transaction which has checked holds every row of its
request (`Covered`); that a request and its rows belong together and identifiers identify (`Busy`,
`Anchored`, `Identified`); and that equal versions mean equal rows (`Versioned`). The argument is the same
for every operation and is laid out once in `FleetLocks`: a write changes only rows its session holds
(frame lemmas, one per operation); a check reads only rows its session holds; so a check of another session
survives the write. The property theorems then follow by cases over the writes, each of which has its own
check still true when it happens.

* `HistoryStays`: every row a write changes is one its check has just found open, usable or not yet completed.
* `DeadlockFree`: a circle of waiting transactions is a set of sessions each of which waits for another of the
  set, whatever its size. `QueueInv` says that what a transaction still has to lock comes after all it holds
  in one order of the rows (`LockOrder`) and that the transactions under way are finitely many in every
  reachable state, although sessions may be infinitely many. Among those of the set, take one that waits for
  a row no other waits beyond: whoever holds that row is in the set too, and waits for a later one.
* `FleetIsCustody`: a commit is the step of `Custody` that bears its name, because the check it made is still
  true (`ChecksHold`) and says what that step requires; all other steps leave the tables alone.

### Work time

`WorkTimeInvariant` adds to `ChecksStand`, `NoOverlap` and `BookedOnce` what makes them inductive.

* `Exclusive` and `Covered`: as above, a transaction that has checked holds the locks of its request. There
  is one way round it: a driver's own statement may find no row (`MissRow`), and the transaction goes on
  without the entry's lock. `Missed` says why that is harmless: then the entry belongs to someone else, or it
  came back at a version the driver never saw; versions only grow, so the transaction can no longer pass its
  checks.
* `Busy`: a request names an existing entry at a version that entry has had; an approver's copy at the
  current version is the current row.
* `RowsSound`: an open shift has a booking at or after every time its row contains (`Latest`), which is what
  keeps breaks shorter than shifts when the clock steps back, because the next command must be later than the
  last booking; a pending correction at the row's version quotes the row's times, an approved one lies behind
  the row's version.

`WorkTimeSafety` first proves three families of lemmas. *Keeps*: each write leaves entries, bookings and
corrections sound (`WriteKeeps`). *Frame*: a write changes only what its session has locked: entries it holds
or has just recorded for a driver it holds, with a higher version (`WriteFrame`). *Stable*: what another
session checked under its own locks survives that. They are assembled, one case per action, into
`Invariance`, and the property theorems derived. `ImplementsTimesheet` then needs no further invariant: given
`NoOverlap` in the next state, starting and punching are `Work`, recording and amending by the office are
`Keep`, deciding is `Settle`, and an approval, a request and every step that only moves locks leave the
timesheet unchanged. `DeadlockFree` goes as for the fleet: entries, drivers, membership, in this order, and
the driver an entry names is learnt under the entry's lock and comes after it (`LearntLater`).

`BookingsAddUp` has an invariant of its own. `Ledger` says that each entry of the clock has a log: its bookings
at versions 0, 1, ..., n, each after the one before it in time and a legal continuation of it, with a running
total of the pauses booked; and that the entry agrees with the first booking, the last one and the total
unless an approved correction replaced its times. A start opens a log (`StartBooks`), a punch appends to
it - it is checked against the entry, and what makes the entry stand for the last booking is `Agrees` -
(`PunchBooks`). The office amends entries that have no bookings and approves, as it decides corrections,
shifts that have ended, whose version is no longer the length of the log (`OfficeBooks`, `CorrectionBooks`).
`SumsAgree` then finds `BreakBooked`, a recursive sum, in the totals of the log.

### Score imports

The invariant of `ScoreSafety` has two parts that matter. `Honest`: a snapshot differs from the table in dirty
rows only. `Fresh`: a preview under way works on an identifier that has no row and no other preview, so its
insert is no row another decision was about. A commit reads its own row and the published one, and updates
both; that it gets through says neither was dirty, hence both are as they were seen (`CommitSeen`). If the
snapshot had no published row there is nothing it could have updated; then the unique index refuses a second
one, which is the one place where the index is needed. A revert updates every row it decided on
(`RevertSeen`). With `SnapshotsSuffice` each `Change` is a decision on the current table, and `Record`,
`Change` are the steps `Draft`, `Publish`, `TakeBack` of `Revisions` (`ScoresAreRevisions`).

`ChainAlwaysSound` follows the chain. `Stack(n, c)` says that the published and replaced rows are c[1] to
c[n] without repetition, each naming the one below it as the one it replaced, which has another content, and
c[n] the one drivers see. A commit pushes, a revert pops, and nothing else touches the chain. `StackSound`
finds that the walk from the current row along `previous`, a recursive function, visits just these rows.

### Stock and notifications

No set need be finite. `IInv` of `StockSafety` says, beside the types:

* `Exclusive`: a row other than a membership is locked by one transaction. `Own`: a transaction holds, or
  has still on its list, every row of its request; the rows it works on exist; once it has checked it holds
  them all and its check is true, and in the job the row is still due.
* `RunsOn`: what a run still has to visit are notifications that exist.
* `RowInv`: reminders name their origin and notifications refer to items that exist, pieces are between
  zero and the column's width (`PiecesBounded`), and alerts follow the stock (`AlertsFollowStock`).

Who writes holds every row of the request (`WriterHolds`), so what another transaction has checked and holds
is not touched. The exception are the rows in `Touches`, which a write waits for in the commit: alerts ended
with a shortage and reminders completed with their notification. No transaction at work holds them then,
which is why the wait, absent in the mutant `Commit_Unreferenced`, matters. `StoreImplemented` maps `Commit`
of an issue, of a return and of everything else that changes stock to `Lend`, `GiveBack` and `Restock`; that
an issue is lent once needs the index, here `IsNew` in the commit, because issues of two items hold no lock
in common.

`RemindersAlwaysFollow` needs to know why the identifier of a reminder, which is made of its origin and the
origin's version, has never been used. `RemindInv`: a reminder bears a version its origin has had, and while
the origin plans another one, all that exist bear lower versions (`Traced`). Whoever plans again raises the
version (`Replans`), and whoever sends takes the plan away with it; a notification that ends takes its
reminders along (`EndsAll`).

### Invitations and accounts

`IInv` of `AccessSafety` names what the code does with its locks: transactions that have checked hold locks
that do not conflict (`Apart`), and what an acceptance found - the invitation pending with its token, its
issuer still entitled, its driver free - is true until it commits (`AcceptStands`), because everything that
could change it must lock one of these rows. Beside it: accounts that are linked exist (`Linkage`), and the
newest token of an invitation was mailed for it (`Mailed`), which is why the answer to an older one, found by
its own token, says nothing of the invitation (`DeliveryTold`).

### Evidence, categories, deliveries, lists, views, upkeep, previews

In `Office` only one of these moves. `OfficeSafety` proves each theorem from the invariant of its part, which
is empty while another part is at work.

* Evidence (`StoreKept`, `OneEach`, `OnDutyOnly`). `Stored` says phase by phase what the store holds for a
  request; `Held` that one request at a time is past its second check with a lock, and that what it found
  there is true; `Talk` that an identifier belongs to one visit, on the form and in every request under way.
  So an inspection that commits is the first of its visit, whatever its first check had seen.
* Categories (`LabelsFollowCategories`). One clerk holds the lock (`JobsOK`); names are unique and a label is
  its category's name (`Labelled`); what the holder found is true until it writes (`WorkStands`).
* Deliveries (`OneHistory`). Who holds the lock of an entry corrects the current one, and one panel holds it
  (`Corrects`), so a correction is put at the end of a line.
* Lists (`LoadingSettles`). `LoadingTold` is inductive as it stands.
* Views (`ShownTheirOwn`, `OffersOpenAlways`). `Entitled`: the tours a request has read are those of one
  moment since it came, the documents a download still has to decide are current and meant for drivers, and
  the answer is made of rows that the role it came with and the tour of one such moment entitle to.
* Upkeep (`NothingIsLost`, `BackedUpFirst`). One command is past its lock; `Stands` says what it may count on
  at each step, which is what commands without the lock and the application cannot disturb: the snapshot
  it took, the staged database it alone knows, the archive it has checked. `Preserved`: the target is
  complete, and every commit is in it or in a retained database.
* Previews (`PreviewTellsAlways`). `LinesOK`: who has been seen, which lines are errors and which are scores
  is a function of the lines read so far, which says that the order of answers and the state of other
  workers have no part in it. `FormOK`: while the panel waits for a preview it has no draft and its form is
  what was asked about. `WorkersOK`: the count is the number of workers.

### Conjunctions

`PairsAlwaysExclusive`, `LeavingSettles`, `ShiftsAlwaysSound` and `DecisionsAlwaysSound` put together what
the theorems on their parts prove, so that the property of a run is the statement of a theorem.
`HistoryAlwaysKept` follows from the same invariant of work time, one case per write.

### Left to the model checker

`Answered`, `RemindersSettle` and `AlertsReach`: liveness under fairness is out of the prover's reach, since
it needs ENABLED. The runs also show what a proof does not: that the assumptions can be met, and that every
property fails for some mutant of the code it is about.

## Plan

1. Done: the fleet core, its refinement of `Custody`, its invariant and its safety theorems.
2. Done: `WorkTime` with a client that repeats requests; its invariant and the refinement of `Timesheet`.
3. Done: `ScoreImports`: revisions of a week under SERIALIZABLE; refinement of a stack of revisions.
4. Done: `Stockroom` with alerts and reminders; its invariant and the refinement of `Store`.
5. Done: `Access`: invitations and accounts.
6. Done: `Evidence`, `Categories`, `Deliveries`, `Lists`, `Views`, `Upkeep`, `Previews`.
7. Done: a theorem for every safety and action property and every refinement a run checks.
8. Next: lemmas towards the liveness properties that are safety in themselves (what a transaction that can
   take no step waits for, that a reminder that is due is in the list of the run that sees it), and shorter
   proofs where one lemma would serve several components (row locks are exclusive and cover a request in four
   of them).

## Not modelled

* The rest of the user interface: rendering and forms. The requests it sends are inputs of the models, and
  the pages that repeat commands, corrections, inspections, deliveries and score files are part of them.
* Service periods of vehicles are counted, not kept: that there is one open period per active vehicle is
  checked (`ServicePeriodOpen`), that closed ones stay as they are is not.
* Deployment checks and mail transport: operational tooling and input/output; what the transport answers
  is `Answer` of `Access`.
* HTTP layer and authentication: rate limits, cookies, two-factor state and body limits only refuse, and
  share no state with the services.
* Read models beyond the lists, the dashboard and downloads: the assignment board, histories, conversations,
  reports and the journal read for staff, or with the condition of a list that is modelled.
* Marking a message read and resolving a photo report: no list depends on them.
* Archival, update and vehicle reactivation act on the principal loaded with the request and never read the
  membership again. That is modelled as it is (`Unchecked` of `FleetTables`); no promise of the repository
  covers it, so no property is about it.
* The formats and containers of score files, exports and time-zone arithmetic: functions of their input that
  keep no state.
