------------------------------- MODULE Upkeep -------------------------------
(***************************************************************************)
(* The operator's commands for a local database (src/scripts/local-cli.mjs *)
(* and src/scripts/local): bootstrap, dev, upgrade, backup and restore.    *)
(* Each is a row of steps on the databases of one cluster, and may fail or *)
(* be killed after any of them; the application connects by name and       *)
(* writes meanwhile.  Nothing is rolled back: what a stopped command leaves*)
(* behind is there for the next one, and for the operator to sort out.     *)
(***************************************************************************)
EXTENDS Values, Naturals, FiniteSets

CONSTANTS
    Operators,      \* commands that run at one time
    MaxCommits,     \* bound on what the application writes
    MaxRelease,     \* bound on releases, each with one more migration
    MaxKept         \* bound on databases left behind

VARIABLES
    target,         \* the database the application uses, or Nil
    kept,           \* databases retained, or abandoned while restoring
    archives,       \* backups: data and schema
    marker,         \* the file database-created
    lock,           \* the file operation.lock
    release,        \* migrations checked in
    commits,        \* everything the application ever committed
    client,         \* whether the application is connected
    op              \* commands under way

upkeep == <<target, kept, archives, marker, lock, release, commits, client, op>>

Database == [data : SUBSET Nat, schema : Nat, whole : BOOLEAN, clean : BOOLEAN,
             mark : BOOLEAN, open : BOOLEAN]

ASSUME UpkeepAssumption == MaxRelease \in Nat /\ Nil \notin Database

NoCommand    == [cmd |-> "none", at |-> "none"]
Alive   == {o \in Operators : op[o] # NoCommand}
Empty   == [data |-> {}, schema |-> 0, whole |-> TRUE, clean |-> TRUE,
            mark |-> FALSE, open |-> TRUE]
Usable  == target # Nil /\ target.open

(* The staging database of a restore goes with the command, and stays when *)
(* that stops.                                                             *)
Left(o) == IF "staging" \in DOMAIN op[o] /\ op[o].staging # Nil THEN {op[o].staging} ELSE {}

At(o, step) == op[o].at = step
To(o, step) == op' = [op EXCEPT ![o].at = step]

(* The command ends, well or not; its locks are released in any case.      *)
End(o) == op' = [op EXCEPT ![o] = NoCommand] /\ lock' = FALSE

-----------------------------------------------------------------------------
(* lockLocal, then startDatabase and clusterLock, which excludes whoever   *)
(* holds it though the file was taken away.  Which command it is matters   *)
(* only from there; bootstrap may restore as well.                         *)
Begin(o) ==
    /\ op[o] = NoCommand /\ ~ lock /\ lock' = TRUE
    /\ op' = [op EXCEPT ![o] = [cmd |-> "any", makes |-> FALSE, at |-> "begun", since |-> {}, saved |-> Nil,
                                from |-> Nil, staging |-> Nil]]
    /\ UNCHANGED <<target, kept, archives, marker, release, commits, client>>

ClusterLock(o) ==
    /\ At(o, "begun")
    /\ \A q \in Alive \ {o} : At(q, "begun")
    /\ \E cmd \in {"bootstrap", "dev", "upgrade", "backup", "restore"}, makes \in BOOLEAN :
         /\ cmd = "bootstrap" => makes
         /\ makes => cmd \in {"bootstrap", "restore"}
         /\ op' = [op EXCEPT ![o].at = "locked", ![o].cmd = cmd, ![o].makes = makes]
    /\ UNCHANGED <<target, kept, archives, marker, lock, release, commits, client>>

(* A target is created where there never was one, and by bootstrap only.   *)
MayCreate(o) ==
    op[o].makes /\ ~ marker /\ kept = {}

Create(o) ==
    /\ At(o, "locked") /\ target = Nil /\ MayCreate(o)
    /\ target' = Empty /\ To(o, "created")
    /\ UNCHANGED <<kept, archives, marker, lock, release, commits, client>>

Comment(o) ==
    /\ At(o, "created")
    /\ target' = [target EXCEPT !.mark = TRUE] /\ To(o, "known")
    /\ UNCHANGED <<kept, archives, marker, lock, release, commits, client>>

Recognise(o) ==
    /\ At(o, "locked") /\ target # Nil /\ target.mark
    /\ To(o, "known")
    /\ UNCHANGED <<target, kept, archives, marker, lock, release, commits, client>>

(* The marker is written, and both identities can sign in.                 *)
Provisioned(o) ==
    /\ At(o, "known") /\ marker' = TRUE
    /\ Usable
    /\ op' = [op EXCEPT ![o].at = "ready", ![o].since = target.data]
    /\ UNCHANGED <<target, kept, archives, lock, release, commits, client>>

-----------------------------------------------------------------------------
(* Mutant: only the command upgrade takes a backup first.                  *)
BacksUp_UpgradeOnly(o) == op[o].cmd = "upgrade"

BacksUp(o) == op[o].cmd = "upgrade" \/ target.schema < release

(* The plan: a finished history that is a prefix of the release.           *)
PlanMigration(o) ==
    /\ At(o, "ready") /\ op[o].cmd \in {"bootstrap", "dev", "upgrade"}
    /\ target.clean /\ target.schema <= release
    /\ IF BacksUp(o) THEN To(o, "save") /\ UNCHANGED lock
       ELSE IF op[o].cmd = "bootstrap" \/ target.schema < release THEN To(o, "migrate") /\ UNCHANGED lock
       ELSE End(o)
    /\ UNCHANGED <<target, kept, archives, marker, release, commits, client>>

(* backup: a snapshot, dumped under another name until it is verified.     *)
Snapshot(o) ==
    /\ At(o, "save") \/ (At(o, "ready") /\ op[o].cmd = "backup")
    /\ Usable
    /\ op' = [op EXCEPT ![o].at = "dumped",
                        ![o].saved = [data |-> target.data, schema |-> target.schema]]
    /\ UNCHANGED <<target, kept, archives, marker, lock, release, commits, client>>

Archive(o) ==
    /\ At(o, "dumped")
    /\ archives' = archives \cup {op[o].saved}
    /\ IF op[o].cmd = "backup" THEN End(o)
       ELSE /\ op' = [op EXCEPT ![o].at = IF op[o].cmd = "restore" THEN "saved" ELSE "migrate",
                                ![o].saved = Nil]
            /\ UNCHANGED lock
    /\ UNCHANGED <<target, kept, marker, release, commits, client>>

(* prisma migrate deploy on the target: done, or stopped half way.         *)
Migrate(o) ==
    /\ At(o, "migrate") /\ Usable
    /\ \/ target' = [target EXCEPT !.schema = release]
       \/ /\ target.schema < release
          /\ target' = [target EXCEPT !.schema = release, !.clean = FALSE]
    /\ End(o)
    /\ UNCHANGED <<kept, archives, marker, release, commits, client>>

-----------------------------------------------------------------------------
(* restore: into a database of its own, which replaces the target last.    *)
Stage(o) ==
    /\ At(o, "ready") /\ op[o].cmd = "restore"
    /\ \E a \in {x \in archives : x.schema > 0} :
         op' = [op EXCEPT ![o].at = "staged", ![o].from = a,
                          ![o].staging = [Empty EXCEPT !.whole = FALSE]]
    /\ UNCHANGED <<target, kept, archives, marker, lock, release, commits, client>>

(* Mutant: pg_restore commits what it can.                                 *)
LoadStaging_Partly(o) ==
    /\ At(o, "staged")
    /\ \E part \in {{}, op[o].from.data} :
         op' = [op EXCEPT ![o].at = "loaded",
                  ![o].staging = [@ EXCEPT !.data = part, !.whole = part = op[o].from.data,
                                           !.schema = op[o].from.schema]]
    /\ UNCHANGED <<target, kept, archives, marker, lock, release, commits, client>>

(* pg_restore in a single transaction, and the counts of the manifest.     *)
LoadStaging(o) ==
    /\ At(o, "staged")
    /\ op' = [op EXCEPT ![o].at = "loaded",
                ![o].staging = [@ EXCEPT !.data = op[o].from.data, !.whole = TRUE,
                                         !.schema = op[o].from.schema]]
    /\ UNCHANGED <<target, kept, archives, marker, lock, release, commits, client>>

(* The migrations that are missing, the grants, and a try as the runtime.  *)
Fit(o) ==
    /\ At(o, "loaded") /\ op[o].staging.schema <= release
    /\ op' = [op EXCEPT ![o].at = "fit", ![o].staging.schema = release]
    /\ UNCHANGED <<target, kept, archives, marker, lock, release, commits, client>>

(* Nobody is connected: a safety backup, then the gate is closed, and      *)
(* nobody must have come in between.                                       *)
Quiet(o) ==
    /\ At(o, "fit") /\ ~ client /\ To(o, "save")
    /\ UNCHANGED <<target, kept, archives, marker, lock, release, commits, client>>

Close(o) ==
    /\ At(o, "saved")
    /\ target' = [target EXCEPT !.open = FALSE] /\ To(o, "closed")
    /\ UNCHANGED <<kept, archives, marker, lock, release, commits, client>>

Gate(o) ==
    /\ At(o, "closed")
    /\ IF client
       THEN /\ target' = [target EXCEPT !.open = TRUE] /\ End(o)
            /\ kept' = kept \cup Left(o)
       ELSE To(o, "gated") /\ UNCHANGED <<target, kept, lock>>
    /\ UNCHANGED <<archives, marker, release, commits, client>>

(* The renames; PostgreSQL renames no database in use.                     *)
Retain(o) ==
    /\ At(o, "gated") /\ ~ client
    /\ kept' = kept \cup {target} /\ target' = Nil /\ To(o, "moved")
    /\ UNCHANGED <<archives, marker, lock, release, commits, client>>

Promote(o) ==
    /\ At(o, "moved") /\ target = Nil
    /\ target' = op[o].staging
    /\ op' = [op EXCEPT ![o].at = "promoted", ![o].staging = Nil]
    /\ UNCHANGED <<kept, archives, marker, lock, release, commits, client>>

Adopt(o) ==
    /\ At(o, "promoted")
    /\ target' = [target EXCEPT !.mark = TRUE] /\ End(o)
    /\ UNCHANGED <<kept, archives, marker, release, commits, client>>

-----------------------------------------------------------------------------
(* A check or a tool fails, or the command waits in vain: it stops there.  *)
Stop(o) ==
    /\ op[o] # NoCommand /\ End(o)
    /\ kept' = kept \cup Left(o)
    /\ UNCHANGED <<target, archives, marker, release, commits, client>>

(* It is killed: the file operation.lock stays.                            *)
Kill(o) ==
    /\ op[o] # NoCommand
    /\ op' = [op EXCEPT ![o] = NoCommand] /\ kept' = kept \cup Left(o)
    /\ UNCHANGED <<target, archives, marker, lock, release, commits, client>>

(* By hand: the lock is removed, even while its owner still runs; and once *)
(* nothing runs, an interrupted promotion is finished or undone.           *)
RemoveLock ==
    /\ lock /\ lock' = FALSE
    /\ UNCHANGED <<target, kept, archives, marker, release, commits, client, op>>

Recover ==
    /\ Alive = {}
    /\ \/ /\ target = Nil
          /\ \E d \in kept : /\ d.mark /\ target' = [d EXCEPT !.open = TRUE]
                             /\ kept' = kept \ {d}
       \/ /\ target # Nil /\ ~ (target.open /\ target.mark)
          /\ target' = [target EXCEPT !.open = TRUE, !.mark = TRUE]
          /\ UNCHANGED kept
    /\ UNCHANGED <<archives, marker, lock, release, commits, client, op>>

(* Another release is checked out while no command runs.                   *)
NewRelease ==
    /\ Alive = {} /\ release < MaxRelease
    /\ release' = release + 1
    /\ UNCHANGED <<target, kept, archives, marker, lock, commits, client, op>>

(* The application, or a worker.                                           *)
Connect ==
    /\ ~ client /\ Usable /\ target.schema > 0 /\ client' = TRUE
    /\ UNCHANGED <<target, kept, archives, marker, lock, release, commits, op>>

WriteSomething ==
    /\ client /\ Cardinality(commits) < MaxCommits
    /\ LET n == Cardinality(commits) + 1
       IN  commits' = commits \cup {n} /\ target' = [target EXCEPT !.data = @ \cup {n}]
    /\ UNCHANGED <<kept, archives, marker, lock, release, client, op>>

Disconnect ==
    /\ client /\ client' = FALSE
    /\ UNCHANGED <<target, kept, archives, marker, lock, release, commits, op>>

UpkeepInit ==
    /\ target = Nil /\ kept = {} /\ archives = {} /\ marker = FALSE /\ lock = FALSE
    /\ release = 1 /\ commits = {} /\ client = FALSE
    /\ op = [o \in Operators |-> NoCommand]

UpkeepNext ==
    \/ RemoveLock \/ Recover \/ NewRelease \/ Connect \/ WriteSomething \/ Disconnect
    \/ \E o \in Operators :
         \/ Begin(o) \/ ClusterLock(o) \/ Create(o) \/ Comment(o) \/ Recognise(o)
         \/ Provisioned(o) \/ PlanMigration(o) \/ Snapshot(o) \/ Archive(o) \/ Migrate(o)
         \/ Stage(o) \/ LoadStaging(o) \/ Fit(o) \/ Quiet(o) \/ Close(o) \/ Gate(o)
         \/ Retain(o) \/ Promote(o) \/ Adopt(o) \/ Stop(o) \/ Kill(o)

UpkeepSpec == UpkeepInit /\ [][UpkeepNext]_upkeep

UpkeepBound == Cardinality(kept) <= MaxKept

-----------------------------------------------------------------------------
(* Whatever stops, and wherever: the application finds a complete database *)
(* or none, and everything it ever committed is in a database that is      *)
(* still there (backup.mjs:299, "Nothing is automatically dropped").       *)
NothingLost ==
    /\ target # Nil => target.whole
    /\ commits \subseteq UNION {d.data : d \in kept \cup (IF target = Nil THEN {} ELSE {target})}

(* A fresh database takes the name only while nothing was ever committed;  *)
(* and the schema of a database changes in place only behind a backup with *)
(* all it held when the command began (docs/LOCAL-DATABASE.md:60, "The     *)
(* backup is the recovery boundary").                                      *)
Guards ==
    /\ target = Nil /\ target' = Empty => commits = {}
    /\ target # Nil /\ target' # Nil => (target'.schema # target.schema =>
         \E o \in Operators, a \in archives :
            op[o].at = "migrate" /\ op[o].since \subseteq a.data /\ a.schema = target.schema)
=============================================================================
