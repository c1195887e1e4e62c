----------------------------- MODULE Migrations -----------------------------
(***************************************************************************)
(* The migrator and its ledger: src/lib/server/db/migrate.ts and ledger.ts *)
(* in that directory, with the manifest that mirrors a tree for review.    *)
(*                                                                         *)
(* Migrators are started at any time, several at once, with whatever tree  *)
(* their release carries: an older or a newer one, or one whose history    *)
(* was edited.  A process can die at any point; the database ends what it  *)
(* had begun some time later, and only then frees its advisory lock.       *)
(***************************************************************************)
EXTENDS Integers, FiniteSets

CONSTANTS
  Migrator,   \* processes that may run at the same time
  NoMigrator, \* nobody has the advisory lock
  Trees,      \* the drizzle/ trees that releases carry, each a set of migrations
  Statements  \* the statements of a migration, splitStatements of its file

ASSUME MigrationsAssumption ==
  /\ NoMigrator \notin Migrator
  /\ \A t \in Trees : \A p \in t : p.idx \in Nat
  \* A journal names an index once.
  /\ \A t \in Trees : \A p, q \in t : p.idx = q.idx => p = q
  \* A migration is its index, its name and the checksum of its file.
  /\ \A t, u \in Trees : \A p \in t, q \in u :
       p.idx = q.idx /\ p.tag = q.tag /\ p.checksum = q.checksum => p = q
  /\ Statements \subseteq Int

\* drizzle-kit begins the name of a migration with its index.
ASSUME TagsAssumption ==
  \A t, u \in Trees : \A p \in t, q \in u : p.tag = q.tag => p.idx = q.idx

VARIABLES
  ledger,  \* migration.applied_migration: the rows that are committed
  created, \* the ledger's table exists
  schema,  \* the statements in effect, as pairs of a migration and a statement
  lock,    \* who has the advisory lock
  pc,      \* where each migrator stands
  tree,    \* what it has planned: read from its release before it locks anything;
           \* {} while it does not run
  dryRun,  \* whether it was started with --dry-run
  pending, \* what verifyLedger left it to apply
  tx,      \* the statements of its open transaction
  code     \* what it has exited with

vars == <<ledger, created, schema, lock, pc, tree, dryRun, pending, tx, code>>

Migration == UNION Trees
Code == {"none", "ok", "drift", "unavailable", "malformed", "failed"}
Place == {"off", "locking", "ensuring", "verifying", "applying", "recorded",
          "unlocking", "dead", "deadCommitting"}

TypeOK ==
  /\ ledger \subseteq Migration
  /\ created \in BOOLEAN
  /\ schema \subseteq Migration \X Statements
  /\ lock \in Migrator \union {NoMigrator}
  /\ pc \in [Migrator -> Place]
  /\ tree \in [Migrator -> Trees \union {{}}]
  /\ dryRun \in [Migrator -> BOOLEAN]
  /\ pending \in [Migrator -> SUBSET Migration]
  /\ tx \in [Migrator -> SUBSET (Migration \X Statements)]
  /\ code \in [Migrator -> Code]

Init ==
  /\ ledger = {}
  /\ created = FALSE
  /\ schema = {}
  /\ lock = NoMigrator
  /\ pc = [m \in Migrator |-> "off"]
  /\ tree = [m \in Migrator |-> {}]
  /\ dryRun = [m \in Migrator |-> FALSE]
  /\ pending = [m \in Migrator |-> {}]
  /\ tx = [m \in Migrator |-> {}]
  /\ code = [m \in Migrator |-> "none"]

-----------------------------------------------------------------------------
(* verifyLedger: the four ways in which history can have been rewritten.   *)

Planned(plan, idx) == {p \in plan : p.idx = idx}
\* A mistaken check: an applied migration that the release lacks is no drift.
DeletedUnnoticed(plan, rows) == {}

Deleted(plan, rows) == {r \in rows : Planned(plan, r.idx) = {}}
Renamed(plan, rows) == {r \in rows : \E p \in Planned(plan, r.idx) : p.tag # r.tag}
Changed(plan, rows) ==
  {r \in rows : \E p \in Planned(plan, r.idx) : p.tag = r.tag /\ p.checksum # r.checksum}

Pending(plan, rows) == {p \in plan : \A r \in rows : r.idx # p.idx}
Inserted(plan, rows) == {p \in Pending(plan, rows) : \E r \in rows : p.idx < r.idx}

Drifted(plan, rows) ==
  Deleted(plan, rows) \union Renamed(plan, rows) \union Changed(plan, rows)
    \union Inserted(plan, rows) # {}

\* applyOne takes the pending migrations in the order of the journal.
NextOf(waiting) == CHOOSE p \in waiting : \A q \in waiting : p.idx <= q.idx

\* The manifest that db-generate writes beside the tree, a checksum for each file,
\* and what db-check says of one that was committed and the tree that stands now:
\* files it does not record, files that changed, and entries without a file.
Manifest(plan) == {[file |-> p.tag, checksum |-> p.checksum] : p \in plan}
Recorded(manifest, p) == {e \in manifest : e.file = p.tag}
DiffManifestOneWay(manifest, plan) ==
  {p \in plan : \A e \in Recorded(manifest, p) : e.checksum # p.checksum}

DiffManifest(manifest, plan) ==
  {p \in plan : Recorded(manifest, p) = {}}
    \union {p \in plan : \E e \in Recorded(manifest, p) : e.checksum # p.checksum}
    \union {e \in manifest : \A p \in plan : p.tag # e.file}

-----------------------------------------------------------------------------
(* runMigrator.                                                            *)

Goto(m, place) == pc' = [pc EXCEPT ![m] = place]

\* Everything that is decided before the lock: the options, and the planned
\* migrations, read from the release.
Start(m) ==
  /\ pc[m] = "off"
  /\ \E t \in Trees, dry \in BOOLEAN :
       /\ tree' = [tree EXCEPT ![m] = t]
       /\ dryRun' = [dryRun EXCEPT ![m] = dry]
  /\ code' = [code EXCEPT ![m] = "none"]
  /\ Goto(m, "locking")
  /\ UNCHANGED <<ledger, created, schema, lock, pending, tx>>

\* No connection string or no database; no directory of migrations; a journal that
\* cannot be read, which is thrown.
StartFails(m) ==
  /\ pc[m] = "off"
  /\ \E c \in {"unavailable", "malformed", "failed"} : code' = [code EXCEPT ![m] = c]
  /\ UNCHANGED <<ledger, created, schema, lock, pc, tree, dryRun, pending, tx>>

\* A mistaken lock, held by each connection of a pool.
LockAnyway(m) ==
  /\ pc[m] = "locking"
  /\ lock' = m
  /\ Goto(m, "ensuring")
  /\ UNCHANGED <<ledger, created, schema, tree, dryRun, pending, tx, code>>

\* pg_advisory_lock waits while another session has the lock.
Lock(m) ==
  /\ pc[m] = "locking"
  /\ lock = NoMigrator
  /\ lock' = m
  /\ Goto(m, "ensuring")
  /\ UNCHANGED <<ledger, created, schema, tree, dryRun, pending, tx, code>>

EnsureLedger(m) ==
  /\ pc[m] = "ensuring"
  /\ created' = TRUE
  /\ Goto(m, "verifying")
  /\ UNCHANGED <<ledger, schema, lock, tree, dryRun, pending, tx, code>>

\* readApplied and verifyLedger: refuse, or stop, or have something to apply.
Verify(m) ==
  LET drifted == Drifted(tree[m], ledger)
      waiting == Pending(tree[m], ledger)
      stops == drifted \/ waiting = {} \/ dryRun[m]
  IN /\ pc[m] = "verifying"
     /\ created
     /\ code' = [code EXCEPT ![m] = IF drifted THEN "drift" ELSE IF stops THEN "ok" ELSE @]
     /\ pending' = [pending EXCEPT ![m] = IF stops THEN {} ELSE waiting]
     /\ Goto(m, IF stops THEN "unlocking" ELSE "applying")
     /\ UNCHANGED <<ledger, created, schema, lock, tree, dryRun, tx>>

\* A mistaken migrator runs the statements outside a transaction.
StatementAtOnce(m) ==
  /\ pc[m] = "applying"
  /\ \E s \in Statements :
       /\ {r \in Statements : <<NextOf(pending[m]), r>> \in tx[m]} = {r \in Statements : r < s}
       /\ tx' = [tx EXCEPT ![m] = @ \union {<<NextOf(pending[m]), s>>}]
       /\ schema' = schema \union {<<NextOf(pending[m]), s>>}
  /\ UNCHANGED <<ledger, created, lock, pc, tree, dryRun, pending, code>>

\* One statement of the migration that is being applied; none is in effect
\* before the transaction commits.
Statement(m) ==
  /\ pc[m] = "applying"
  /\ \E s \in Statements :
       /\ {r \in Statements : <<NextOf(pending[m]), r>> \in tx[m]} = {r \in Statements : r < s}
       /\ tx' = [tx EXCEPT ![m] = @ \union {<<NextOf(pending[m]), s>>}]
  /\ UNCHANGED <<ledger, created, schema, lock, pc, tree, dryRun, pending, code>>

\* After the last statement, the ledger's row, in the same transaction.
Record(m) ==
  /\ pc[m] = "applying"
  /\ tx[m] = {NextOf(pending[m])} \X Statements
  /\ Goto(m, "recorded")
  /\ UNCHANGED <<ledger, created, schema, lock, tree, dryRun, pending, tx, code>>

\* What the database does with a commit: the statements and the row at once.
Committed(m) ==
  /\ ledger' = ledger \union {NextOf(pending[m])}
  /\ schema' = schema \union tx[m]
  /\ tx' = [tx EXCEPT ![m] = {}]

Commit(m) ==
  LET rest == pending[m] \ {NextOf(pending[m])}
  IN /\ pc[m] = "recorded"
     /\ Committed(m)
     /\ pending' = [pending EXCEPT ![m] = rest]
     /\ code' = [code EXCEPT ![m] = IF rest = {} THEN "ok" ELSE @]
     /\ Goto(m, IF rest = {} THEN "unlocking" ELSE "applying")
     /\ UNCHANGED <<created, lock, tree, dryRun>>

\* A statement fails, or the commit does or is reported to: roll back, and throw.
Fail(m) ==
  /\ pc[m] \in {"ensuring", "verifying", "applying", "recorded"}
  /\ \/ /\ tx' = [tx EXCEPT ![m] = {}]
        /\ UNCHANGED <<ledger, schema>>
     \/ pc[m] = "recorded" /\ Committed(m)
  /\ pending' = [pending EXCEPT ![m] = {}]
  /\ code' = [code EXCEPT ![m] = "failed"]
  /\ Goto(m, "unlocking")
  /\ UNCHANGED <<created, lock, tree, dryRun>>

\* The process is gone, with what it had read.
Leave(m) ==
  /\ tree' = [tree EXCEPT ![m] = {}]
  /\ dryRun' = [dryRun EXCEPT ![m] = FALSE]
  /\ Goto(m, "off")

\* The finally block, whatever happened.
Unlock(m) ==
  /\ pc[m] = "unlocking"
  /\ lock' = NoMigrator
  /\ Leave(m)
  /\ UNCHANGED <<ledger, created, schema, pending, tx, code>>

\* The process dies; its session, the lock and the transaction live on.
Crash(m) ==
  /\ pc[m] \notin {"off", "dead", "deadCommitting"}
  /\ code' = [code EXCEPT ![m] = "none"]
  /\ Goto(m, IF pc[m] = "recorded" THEN "deadCommitting" ELSE "dead")
  /\ UNCHANGED <<ledger, created, schema, lock, tree, dryRun, pending, tx>>

\* The database notices: a commit that had reached it stands, anything else is
\* rolled back, and the lock goes with the session.
SessionEnds(m) ==
  /\ pc[m] \in {"dead", "deadCommitting"}
  /\ \/ /\ tx' = [tx EXCEPT ![m] = {}]
        /\ UNCHANGED <<ledger, schema>>
     \/ pc[m] = "deadCommitting" /\ Committed(m)
  /\ lock' = IF lock = m THEN NoMigrator ELSE lock
  /\ pending' = [pending EXCEPT ![m] = {}]
  /\ Leave(m)
  /\ UNCHANGED <<created, code>>

Next ==
  \E m \in Migrator :
    \/ Start(m) \/ StartFails(m) \/ Lock(m) \/ EnsureLedger(m) \/ Verify(m)
    \/ Statement(m) \/ Record(m) \/ Commit(m) \/ Fail(m) \/ Unlock(m)
    \/ Crash(m) \/ SessionEnds(m)

Spec == Init /\ [][Next]_vars

-----------------------------------------------------------------------------
(* Properties.                                                             *)

\* Whatever dies when, the statements in effect are exactly those of the
\* recorded migrations, each of them whole (migrate.ts, "a crash mid-migration
\* can never leave an applied migration unrecorded or a recorded migration
\* unapplied").
SchemaIsLedger == schema = ledger \X Statements

\* History is only continued, and only by a release that contains all of it:
\* whatever other migrators do meanwhile, a migration is applied after every
\* migration in the ledger, by the holder of the lock, from a tree that
\* agrees with each row (migrate.ts, "refuse, changing nothing, if the ledger
\* and the checked-in migrations disagree").
HistoryIsContinued ==
  [][ledger' # ledger =>
       /\ lock # NoMigrator
       /\ ledger \subseteq ledger'
       /\ ledger' \subseteq tree[lock]
       /\ \A p \in ledger' \ ledger, r \in ledger : r.idx < p.idx]_vars

\* A migrator that applies and reports success has left the database at its own
\* release, neither behind it nor past it, at the moment it says so; and the drift
\* that it refuses is one that a review of its tree against the manifest of the
\* applied release has shown (ledger.ts, "editing a committed migration stops being
\* a deploy-time incident and becomes a diff").
ExitCodesAreTrue ==
  [][\A m \in Migrator : code'[m] # code[m] =>
       /\ code'[m] = "ok" /\ ~dryRun[m] => ledger' = tree[m]
       /\ code'[m] = "drift" => DiffManifest(Manifest(ledger), tree[m]) # {}]_vars
=============================================================================
