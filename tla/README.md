# A verification project for greatfallstoolbus.org

TLA+ modules for the server of the Great Falls Tool Bus and the gates in front of
what it publishes: the transactional outbox and its mail, contributions with their
Stripe projection and receipts, memberships and sessions, the review of
applications, agreement versions and activations, schema migrations, the reader of
the mailing list archive, the web process, and the tools that keep protected names
and values out of public texts. TLC checks each module on a small instance; TLAPS
proves their safety for every size of their constants. Source paths are relative
to the repository root.

## 1. The system

A SvelteKit server and a worker process share one PostgreSQL database. Every request
and every job is a transaction of `withTenant` (`src/lib/server/db/tenant.ts`), at
READ COMMITTED. Side effects that must follow a commit (mail, Stripe, cleaning up)
are rows of `outbox_job`, inserted in the transaction that causes them and run by
workers afterwards. Beside them stand programs of their own: the migrator, the
dispatcher that starts a container, and scripts that run before a commit or a build.

| Part | State | Operations | Talks to |
|---|---|---|---|
| Outbox (`outbox/`, `worker.ts`) | `outbox_job`: status, attempts, lease owner and expiry, `available_at` | enqueue; claim, renew, run, complete or release; dead-letter | every part enqueues; handlers are callbacks |
| Mail (`outbox/handlers/mail-shared.ts`, `mail/`) | `mail_delivery_journal`; the delivery gate of each process | three-phase handler | outbox runs it; it sends to an SMTP peer |
| Contribution (`contribution/`) | `contribution_agreement` | choose, cancel | members, Checkout |
| Receipts (`contribution/receipt.ts`, the finance route) | `finance_receipt`, append-only | record, correct, net | finance; settles the agreement |
| Stripe (`stripe/`, webhook route) | `stripe_event_inbox` | ingest, project | Stripe's deliveries; outbox; writes the agreement |
| Membership (`membership/`) | `membership` (status, version), persons, assents, agreement versions | provision, activate, pause, resume, leave, remove, publish | applications, sessions, outbox |
| Sessions (`auth/`, `hooks.server.ts`) | `auth.sessions`, `auth.users`, role grants | log in, validate, reauthenticate, log out, set a password, revoke, reap | every authenticated route |
| Rate limiter (`application/ratelimit.ts`) | hits of each caller, in memory | check | public forms |
| Applications (`application/`) | `application` (status, version), claim, tour, decision, tokens | submit, verify, withdraw, claim, schedule, approve, decline | outbox, membership |
| Migrations (`db/migrate.ts`, `db/ledger.ts`) | `applied_migration`, the schema, an advisory lock | verify, apply, exit | the release's tree of SQL files and its manifest |
| Discussion archive (`discuss-archive.ts`, the discuss routes) | none: a page in the making | read the index or a thread, sanitise, serve | a remote HyperKitty |
| Web process (`server.js`, `platform-entrypoint.mjs`, `hooks.server.ts`) | the index of validators; browsers' copies | start, ask, revalidate | sirv and the generated handler |
| Drafts (`naming-consent.ts`, the discuss scripts) | a key, enrolled names, committed hashes, drafts on branches | enrol, hash, stage, reconcile, check, merge | git, machines without the key |
| Leak scan (`scripts/lib/leak-scan.mjs` and its runners) | none: a list of files in the making | list, look up, read, print excerpts, exit | CI, git, the working tree that others change |
| Static projection (`projection/`, the snapshot script) | the checked-in snapshot | validate, sync | other sites' authorities |
| The rest | audit log, inventory schema, pages, build | | |

What is hard in it, and what makes each part correct:

- **Outbox.** Workers interleave statement by statement on shared rows; leases
  lapse under slow handlers, processes die, a commit can be reached and reported as
  failed. Correct: at least once, never settled by a worker that lost its lease,
  charged only for throws, and no job stranded.
- **Mail.** The send cannot be part of a transaction, so a crash or a timeout
  between the send and its record is ambiguous. Correct: no retry sends twice, the
  journal tells the truth, ambiguity ends visibly.
- **Contribution and Stripe.** Events come late, repeatedly and in any order, are
  projected by several handlers at once, and compete with members, finance and
  offboarding for one row. Correct: the agreement converges to the subscription, and
  a refund stands.
- **Receipts.** Forms are posted twice, at once and with other figures, while the
  agreement changes rail. Correct: the net is that of the figures that stand, and
  what is called recorded is recorded.
- **Membership and sessions.** A departure sweeps sessions while others log in,
  reauthenticate or change passwords, under row locks held across statements; a
  session's instants pass through a reader that knows another zone. Correct: access
  ends with the membership, once, and liveness is judged by the true time.
- **Applications.** Several keyholders post forms from stale pages, twice, while the
  applicant verifies or withdraws from copies of a link. Correct: one ending, by the
  claimant, with all its effects, and repeats that converge.
- **Agreement versions and activations.** Each statement sees what others have
  committed by then, so a number or a current version that was read is stale when it
  is used. Correct: a form publishes once, and whoever activates has assented to the
  text they were shown while it was current.
- **Migrations.** Migrators of different releases start at once and die between
  statements, their sessions outliving them. Correct: the schema is what the ledger
  says, history is only continued, and exit codes are true.
- **Discussion archive.** A page is many reads of an archive that changes and fails
  meanwhile, of texts that anybody wrote. Correct: nobody can be reached through it,
  words keep their writers, a page is whole.
- **Web process.** Containers of several builds answer a browser that keeps copies.
  Correct: what is shown is what the answering container holds.
- **Gates.** Names are enrolled, drafts staged and branches merged on machines that
  know different things, and a tree is changed while it is scanned. Correct: nothing gets
  past by a check that could not see, and a verdict is true of what was listed.

`PROJECT.json` lists every hazard at its line, with the properties that cover it or
the reason none does.

## 2. The modules

`OutboxContract` is the abstract specification: jobs are owed, their handlers run any
number of times, and each is kept after an acknowledgement or given up after its
budget of throws. `Outbox` implements it (`KeepsContract`), `MailDelivery` implements
`Outbox` (`IsOutbox`), and `Contribution` is built on the contract instead of the
workers, which is what the refinement is for.

    OutboxContract  <--refines--  Outbox  <--refines--  MailDelivery
          ^                         |                       |
          | INSTANCE                +----- OutboxProofs ----+
      Contribution, Receipts ------ ContributionProofs
      Membership -- MembershipProofs            Application -- ApplicationProofs
      Activation -- ActivationProofs

    MCContribution = Contribution | Receipts
    MCWeb          = DiscussArchive (pages, bodies) | WebServer | SessionTime
    MCDrafts       = Drafts | LeakScan | TreeScan | StaticProjection

    Migrations, WebServer, SessionTime ----------------- ServerProofs
    Drafts, LeakScan, TreeScan, StaticProjection,
    DiscussArchive ------------------------------------- PublicationProofs

    Ordering: what sort and filter do, in DiscussArchive, LeakScan and SessionTime
    DataLemmas: sequences, sums, orders and recursion, for the proofs about them

An `MC...` module declares model values, instances and symmetry for TLC. `MCContribution`,
`MCWeb` and `MCDrafts` check several specifications in one run: they share no variable,
and `part` says which one a behaviour belongs to.

**Outbox** (`outbox/dispatch.ts`, `outbox/enqueue.ts`, `worker.ts`). `status`,
`attempts` and `owner` are columns; `live` and `ready` stand for the comparisons of
`lease_expires_at` and `available_at` with `now()`, and change when the clock passes
the stored instant. `pc`, `token`, `batch` and `current` are where a worker stands in
`dispatchOnce`. A claim is two steps (`LockBatch`, `CommitClaim`) so that `SKIP LOCKED`
and the waits for its locks are visible; renewal, completion and release are one
statement each, with a guard on the token (`Holds`). Each, the claim included, has an
`...Errs` action: the transaction throws, and its effect may or may not have been
committed (`ClaimErrs` may leave rows leased by a worker that does not know of them). `Crash`,
`Shutdown` and `Start` are the process. The order in which a claim prefers rows is
left open, as is the amount of a backoff.

**MailDelivery** (`mail-shared.ts`, `mail/journal.ts`, `mail/delivery.ts`) splits the
handler that `Outbox` leaves open into its statements: the read of the outcome, the
read of the intent (another statement, so another snapshot), the commit of the intent,
the send outside any transaction, and the commit of the outcome. Every phase can
throw, after its effect or before it; a crash in the send may leave a copy with the
peer. `gate` is the delivery mode, which a process reads when it starts. `sent` and
`overlapped` are history.

**Contribution** (`contribution/`, `stripe/`, `outbox/handlers/cancel-billing.ts`).
One person's agreement and all its writers. Stripe is external: its subscriptions
change on their own and every change emits an event. A handler reads (`Begin`) and
writes (`Project`) in two steps because the retrieval from Stripe precedes the UPDATE
with nothing held. `writer` and `overtaken` are history.

**Receipts** (`contribution/receipt.ts`, `finance-read.ts`, the finance route). `rows`
is the table in the order of its inserts. A posted form is two steps, the reads and the
insert (`OpenRecord`/`FinishRecord`, `OpenCorrect`/`FinishCorrect`); an insert of a key
that another transaction holds waits (`KeyHeld`), and one whose key stands is compared
with the row (`Differs`). What the other fields of a form carry is compared as the
amount is, and is one figure here.

**Membership** (`membership/transition.ts`, `offboard.ts`, `activate.ts`,
`auth/session.ts`, `auth/reauth.ts`, the routes that call them). `status` and `version`
are columns, `owner` is the session table, `request` what each open transaction has
done and locked. Locks are derived from that (`Holds`, `Proving`, `Sweeping`), so a
request that waits is an action that is not enabled, and deadlocks are resolved by
`Abort`, as PostgreSQL does. A sweep fixes its set of rows when it starts, as DELETE
does.

**Application** (`application/claim.ts`, `decide.ts`, `intake.ts`, `tokens.ts`,
`provisionOnApproval`, the review routes). `forms` is every form any page ever offered,
the queue (`LoadQueue`) a claim and the review of one application (`LoadPage`) the rest:
each can be posted at any time, again and concurrently. A request reads the grant
(`Open`) and acts under the row lock later. `Answer` is the order of checks of each
operation, which decides between convergence and conflict.

**Activation** (`membership/agreement.ts`, `membership/activate.ts`, the publish and
assent routes, the decision email's links) details what `Membership` takes as one
action. A publication is three steps: the comparison with the form's preview
(`OpenPublish`), the second reading of the next number (`TakeNumber`), the insert
(`CommitPublish`). An activation notes the time and looks at its token
(`OpenActivation`), then consumes it, locks the membership, requires the agreement and
creates the user (`Register`), then commits (`CommitActivation`). Locks and uncommitted
inserts follow from where a request stands; `Ends` is a refusal or a rollback at any
point. A version's `form` and a request's `posted` are history.

**Migrations** (`db/migrate.ts`, `db/ledger.ts`, the script). A migrator reads its tree
before it locks anything (`Start`), waits for the advisory lock (`Lock`), creates the
ledger if there is none, verifies (`Verify`: renamed, edited, deleted and inserted
migrations), then runs the statements of one migration after another, records each in
the transaction of its statements (`Record`) and commits. `StartFails` is a malformed
configuration, an unreachable database or an unreadable tree, each with its exit code. `Crash` leaves the session,
its lock and perhaps its last commit to PostgreSQL (`SessionEnds`).

**DiscussArchive** (`discuss-archive.ts`, the discuss routes). `Change` is the world:
people post, moderators remove. A page is the list, then each thread's detail and
starter, up to `HYDRATE_CONCURRENCY` at once (`ReadDetail`, `ReadStarter`), any of which
may fail; then it is mapped, gated and served (`ServeIndex`, `ServeThread`). A text is
a sequence of words of the kinds the regular expressions tell apart (an address, a
spelled-out one, the private list, an unclosed `<`), so the sanitiser is a function on
words. The quotation of a body is a fold (`Take`) over its lines.

**WebServer** (`server.js`, `platform-entrypoint.mjs`, `hooks.server.ts`). A build is a
function from files to bodies. `RunPlatformEntrypoint` is the choice of a role and its
exit codes; `EtagIndex` the walk over both trees, where a client file has its exact path
only and a prerendered page its spellings too (`Entries`); `RequestListener` one request through
the patched response, sirv and the hook. `copies` are the browser's. The generated
handler and sirv are external, modelled as `server.js` describes them.

**SessionTime** (`auth/session.ts`, `auth/adapter.ts`, `auth/reauth.ts`,
`hooks.server.ts`, `application/ratelimit.ts`). A clock of its own: `zone` is that of
the process, `DateStyle` that of the connection; `VendorExpired` is the vendored reader,
which deletes what it takes for expired, `Live` and `Fresh` the server's own judgement.
`hits` is the limiter's memory, lost in a `Restart`.

**Drafts** (`naming-consent.ts`, `discuss-to-svx.mjs`, the hash and validation scripts,
`discuss-drafts-ci-scope.ts`). A digest is the pair of its key and its token. `Stage`,
`Reconcile` and `GenerateHashes` are the tools, `EditByHand` and `EnrollToken` people,
`LoseFiles` another machine; `Check` passes or fails a branch with what the machine
knows, within `IdentityGateScope`; `Merge` merges a checked one. `cleared` and `blind`
are history.

**LeakScan** (`scanText` and `excerptAt` of `leak-scan.mjs`) are operators on texts:
`Raw` the findings, `ExcerptAt` what is printed of one (the window, opened for what it
cuts through, then one pass of redaction for each value). TLC enumerates every text up to
the bound.

**TreeScan** (`check-tracked-tree.mjs`, `leak-scan-src.mjs`, `check-build-output.mjs`,
with `collectFiles` and `scanBuildDirectory`) is one run of a gate: `List` takes the list,
`LookUp` and `Missing` look each file up, `Classified` ends the run or starts the reading
(`ReadFile`, `Unreadable`), `Judge` gives the verdict; `CannotList` is a git that does not
answer, or a build that is not there. `ChangeDisk` is whoever writes to the tree
meanwhile, and `onDiskSince`, the history of it, what the verdict is compared with.

**StaticProjection** (`static-snapshot.ts`, `static-projection-snapshot.mts`). A hash,
digest or signature is what it was computed over. `Answers` mixes parts of different
publications; `Accepted` is every check of the script with its options; `Sync` writes.

## 3. The runs

| Run | Instance | What it shows |
|---|---|---|
| `outbox` | 2 workers, 2 jobs, batches of 2, 2 attempts, 3 faults, 4 tokens | Two workers hold one job only after an overdue lease; only the holder settles a live lease; the contract |
| `mail` | 2 workers, 1 job, 2 attempts, 2 faults, 3 tokens, fair | One copy unless handlers overlap; the journal is true; a refinement of Outbox; interrupted sends dead-letter; every enqueued job settles |
| `contribution` | 2 events, 1 subscription, 2 handlers, 1 throw; 1 actor, 2 requests, amounts 0 to 2, 3 forms, 2 changes of the agreement | Convergence unless a projection is overtaken; refunds outlast events; the net is that of the latest figures; answers are true; duplicates converge |
| `contribution_stale_read` | as `contribution` | Violation: a cancelled subscription resurrected |
| `membership` | 2 keyholders, 2 requests, 3 sessions, 4 moves | Only late sessions survive a departure; a password change ends old sessions; departures are final and as shown; authority ends |
| `late_login` | as `membership` | Violation: a login overtakes the sweep |
| `application` | 2 keyholders, 2 requests, 2 receipts | One ending; tokens spent for effect; decided by the claimant; acts as shown and under a grant; repeated review forms converge |
| `activation` | 2 people, 2 addresses, 2 links, 2 operators, 2 requests, 2 instants, 2 versions | A form publishes once; a link is spent exactly by an activation, with one account of its own; the assent was current |
| `migrations` | 2 migrators, every tree of up to 3 migrations with edited, renamed and missing ones, 2 statements | The schema is the ledger; history is continued; exit codes are true |
| `web` | an index of 2 of 3 threads, bodies of 4 lines; 2 containers, 2 contents of one size, 3 deployments and starts; 2 sessions, 3 zones, a clock to 4 | Served pages are public and whole; words keep their writer; pages are the container's; liveness, freshness and rates are judged by the true time |
| `drafts` | a short, a normal and a long token, 1 draft, 2 branches, 2 keys, 3 edits; every text of 5 characters over 4 overlapping values; 3 gates, 2 texts, 3 other files, 2 roots, 2 changes during a scan; 7 publications, 2 of them made | Only cleared drafts are merged; the tools keep the check; excerpts hide values; the gates' verdicts are true of what they listed; synced means published |
| `failed_diff` | as `drafts` | Violation: a check passes that has compared nothing |

**Properties by name**, with the theorem that states each for every value of the
constants:

| Run | Property | Theorem |
|---|---|---|
| `outbox` (`MCOutbox.cfg`) | `OverlapOnlyAfterOverrun` | `LeaseCoversExecution` |
| `outbox` (`MCOutbox.cfg`) | `HolderDecides` | `SettledByHolder` |
| `outbox` (`MCOutbox.cfg`) | `KeepsContract` | `RefinesContract` |
| `mail` (`MCMail.cfg`) | `OneCopyUnlessOverlapped` | `SingleCopy` |
| `mail` (`MCMail.cfg`) | `JournalIsTrue` | `TrueJournal` |
| `mail` (`MCMail.cfg`) | `IsOutbox` | `MailRefinesOutbox` |
| `mail` (`MCMail.cfg`) | `InterruptedDeadLetters` | model-checked only |
| `mail` (`MCMail.cfg`) | `EveryJobSettles` | model-checked only |
| `contribution` (`MCContribution.cfg`) | `Converges` | `EventsConverge` (one subscription) |
| `contribution` (`MCContribution.cfg`) | `RefundOutlastsEvents` | `RefundStands` |
| `contribution_stale_read` (`MCStaleRead.cfg`) | `NoResurrection` | refuted on purpose |
| `membership` (`MCMembership.cfg`) | `OnlyLateSessionsSurvive` | `DepartedHaveLateSessions` |
| `membership` (`MCMembership.cfg`) | `ResetEndsOldSessions` | `ResetsEndSessions` |
| `membership` (`MCMembership.cfg`) | `DepartureIsFinal` | `DeparturesAreFinal` |
| `membership` (`MCMembership.cfg`) | `DepartsAsShown` | `DeparturesAreAsShown` |
| `membership` (`MCMembership.cfg`) | `AuthorityEnds` | `AuthorityEndsWithMembership` |
| `late_login` (`MCLateLogin.cfg`) | `NoLoginAfterOffboard` | refuted on purpose |
| `application` (`MCApplication.cfg`) | `OneEnding` | `EndsOnce` |
| `application` (`MCApplication.cfg`) | `TokensSpentForEffect` | `TokensSpentOnce` |
| `application` (`MCApplication.cfg`) | `DecidedByClaimant` | `ClaimantDecides` |
| `application` (`MCApplication.cfg`) | `ActsAsShown` | `FormsActAsShown` |
| `application` (`MCApplication.cfg`) | `RepeatedReviewConverges` | `RepeatsConverge` |
| `application` (`MCApplication.cfg`) | `ActsUnderGrant` | `GrantsAreNeeded` |
| `activation` (`MCActivation.cfg`) | `OnePublicationPerForm` | `FormsPublishOnce` |
| `activation` (`MCActivation.cfg`) | `ActivatesOnce` | `LinksActivateOnce` |
| `activation` (`MCActivation.cfg`) | `AssentWasCurrent` | `AssentsAreCurrent` |
| `contribution` (`MCContribution.cfg`) | `NetIsLatestFigures` | `NetIsOfPayments` |
| `contribution` (`MCContribution.cfg`) | `AnswersAreTrue` | `RecordedIsRecorded` |
| `contribution` (`MCContribution.cfg`) | `DuplicatesConverge` | `RepeatsAreRecognised` |
| `migrations` (`MCMigrations.cfg`) | `SchemaIsLedger` | `CrashesLeaveNoHalf` |
| `migrations` (`MCMigrations.cfg`) | `HistoryIsContinued` | `HistoryContinued` |
| `migrations` (`MCMigrations.cfg`) | `ExitCodesAreTrue` | `ExitCodesTrue` |
| `web` (`MCWeb.cfg`) | `ServedIsPublic` | `PagesArePublic` |
| `web` (`MCWeb.cfg`) | `PagesAreWhole` | `PagesAreServedWhole` |
| `web` (`MCWeb.cfg`) | `WordsKeepTheirWriter` | `BodiesKeepTheirWriters` |
| `web` (`MCWeb.cfg`) | `PagesAreTheContainers` | `VisitorsSeeTheBuild` |
| `web` (`MCWeb.cfg`) | `JudgedByTrueTime` | `SessionsAreJudgedByTime` |
| `drafts` (`MCDrafts.cfg`) | `OnlyClearedDraftsAreMerged` | `MergedWasCleared` |
| `drafts` (`MCDrafts.cfg`) | `ExcerptsHideValues` | `ExcerptsShowNoValue` |
| `drafts` (`MCDrafts.cfg`) | `SyncedWasPublished` | `SyncWritesPublications` |
| `drafts` (`MCDrafts.cfg`) | `ToolsKeepTheCheck` | `ToolsKeepPassing` |
| `drafts` (`MCDrafts.cfg`) | `VerdictsAreTrue` | `GatesTellTheTruth` |
| `failed_diff` (`MCFailedDiff.cfg`) | `NothingPassesUncompared` | refuted on purpose |

The remaining theorems are the inductive invariants and type invariants they rest on:
OutboxProofs: `Inductive`, `TypeCorrect`, `BudgetIsThrows`, `MailInductive`,
`MailTypeCorrect`;
MembershipProofs: `MembershipInductive`, `MembershipTypeCorrect`;
ContributionProofs: `ContributionInductive`, `ReceiptsInductive`;
ApplicationProofs: `ApplicationInductive`, `ApplicationTypeCorrect`;
ActivationProofs: `ActivationInductive`, `ActivationTypeCorrect`;
ServerProofs: `MigrationsInductive`, `MigrationsTypeCorrect`;
PublicationProofs: `DraftsInductive`, `DraftsTypeCorrect`, `ArchiveInductive`.

Every property of a passing run has a mutant in `PROJECT.json`: a definition of the
model changed the way a bug would change the code, under which TLC finds the property
violated.

**Bounds.** Each conflict here is between two actors over one or two rows, so two
workers, requests, keyholders, migrators or handlers suffice to show it. `outbox` has
two jobs because batches, their waiting members and locks need a second row; two
attempts give a retry and a last attempt; three faults let a lease lapse, the worker
that took over crash, and a commit be lost in one behaviour. Tokens are fresh in the
code; the model reuses one when no row or worker holds it. `contribution` has two events
because its guards concern pairs (a status and a deletion, a status and a refund).
`membership` has three sessions: the one in hand, another of the same person and a late
one. `activation` has two versions and two instants so that one can be superseded,
backdated or yet to take effect. Receipts have three forms: one to record, one to
correct, one to correct the correction. `migrations` has two statements so that a
migration can be half done. `web` has one thread more than the index holds, two bodies
of equal size because sizes are what weak validators compare, and offsets on either side
of UTC. `drafts` has texts long enough for two values that overlap and a window that
cuts through a third, and two changes during a scan, to take a value away and bring it
back. The bounds of the model are named where they are declared:
`MaxFaults`, `MaxThrowing`, `MaxMoves`, `MaxVersions`, `MaxTime`, `MaxForms`,
`MaxChoices`, `MaxLines`, `MaxChanges`, `MaxSteps`, `MaxEdits`, `MaxText`, `MaxDiskChanges`,
`MaxPublished`; the ids of events, subscriptions and sessions bound their numbers. Every
other counter is bounded by the code. `CHECK_DEADLOCK FALSE` is used where everything may
be done; `membership` and `migrations` never stop and are checked for deadlock. Symmetry
is used for safety only, never with liveness.

**Fairness.** `EveryJobSettles` and `InterruptedDeadLetters` assume that a worker keeps
running its loop and a handler ends one way or another, that a dead process is restarted
(`runWorkerLoop` under its supervisor) and that time passes (leases lapse, backoffs
elapse). Weak fairness of each worker's own progress as a whole and of the clock for
each row says exactly that (`MailFairness`). Nothing makes a caller enqueue, a handler
succeed or a fault happen, and faults are bounded: a handler that outlives every lease,
or kills its process every time, is retried for ever by this code (two hazards say so).

## 4. Where the code and its documents disagree

Three runs end in a counterexample on purpose. Each checks one sentence of a comment,
quoted in `PROJECT.json` with its line:

1. *Stripe* (`project.ts`: retrieval "is what makes reverse-order delivery CONVERGE
   instead of resurrecting a cancelled contribution"). It does unless a projection is
   overtaken between its retrieval and its write; `Converges` says so precisely.
2. *Offboarding* (`offboard.ts`: "Every session the member's auth user holds dies in
   THIS transaction"). A login that has verified its password but not inserted its
   session is not seen by the sweep; `OnlyLateSessionsSurvive` bounds what remains.
3. *Drafts* (`discuss-drafts-ci-scope.ts`: fails closed "rather than treating "couldn't
   check" the same as "checked, nothing changed""). The validator reads a `git diff` that
   fails as one without a line (`validate-discuss-drafts.mts:99`), and where no key is
   known such a branch passes with nothing compared; `OnlyClearedDraftsAreMerged` is
   therefore of branches that are not `blind`.

Modelling met further differences. Each is an exemption in the property named, or a
condition of it:

- *Mail* (`journal.ts:39-40`: dead-letters "instead of risking a second copy"): two
  handlers that overlap after an overdue lease both find no intent and both send
  (`OneCopyUnlessOverlapped`).
- *Publishing* (the publish route re-derives the number and refuses "if it moved"): the
  number is read once more for the insert, and can move between the two readings.
- *Decisions* (`decide.ts:248-251`: a repeat "returns the standing result instead of
  409ing"): the version is compared first (`:280`), and the repeated form has the old one.
- *Refunds*: `project.ts` calls a refund absorbing, and offboarding's cancellation
  overwrites it; `RefundOutlastsEvents` states what every document agrees on.
- *Receipts* (`receipt.ts:240-246`: a sum must not count "every corrected receipt" twice):
  the page offers a correction of what was not corrected then, and the action does not ask
  again, so that two forms of one receipt are both accepted and both count.
  `NetIsLatestFigures` is of receipts corrected once (`CorrectedTwice` exempts the others).
- *Excerpts* (`leak-scan.mjs:227-230`: "not even a truncated fragment" of the needle is
  printed): where two values partly overlap, the pass of the longer takes the end of the
  shorter and leaves its head. `ExcerptsHideValues` says of values not `Entangled` so that
  no part of them is shown, and of the others that they are not shown whole.
- *Leak gates*: a verdict is of each file when it was read and not of one instant; the
  two gates of tracked files take their list from the index and the contents from the
  working tree; and where `check-build-output.mjs` promises "one or more findings" by its
  exit code 1, a build file that vanishes or cannot be read ends it with 1 too, by an
  exception that nobody catches. `VerdictsAreTrue` says per path what holds in spite of
  that, and claims nothing of the build's code 1.
- *Migrations*: the manifest of a release ignores the order of the journal, so that
  every drift shows in it rests on the numbers in file names (`TagsAssumption`).
- *Archive*: one subject that the gate refuses, an empty one or a lone `@` among them,
  empties the whole index (`PagesAreWhole`); an unclosed `<` swallows the quotation marks
  after it (`WordsKeepTheirWriter`).
- *Web*: the index prefers the prerendered file where sirv answers with the client
  tree's (`TwoFiles`); copies that the generated server gave carry validators of size
  only, and sirv still accepts them.
- *Sessions*: a process east of UTC deletes live sessions (`KeptWhileAlive`, which
  `adapter.ts:64-81` documents as residual).
- *Drafts*: names longer than the longest match are enrolled and never found; two
  branches that pass apart are not checked together (`cleared` records when).
- *Projection*: `--expected-source-authority` is not applied to pulses, counts are not
  checked for unknown kinds, and nothing asks how old a signature is; `SyncedWasPublished`
  claims none of these.

## 5. What is proved

Every safety property and every action property of the runs is a theorem, for any number
of actors, requests, rows, threads, files and tokens, texts and bodies of any length, and
any bound, under the assumptions that the modules name:

- null values lie outside their sets, bounds are natural numbers;
- a protected value is not empty (`LeakScanAssumption`: the rules and the denied literals
  are not);
- the archive holds threads of at least one message (`ArchivesAssumption`);
- a file whose name is a hash has the same content in every build (`HashedNames`), and
  the order of the names of migrations is that of the journal (`TagsAssumption`, used
  only for the drift half of `ExitCodesTrue`);
- the client tree of a build has no pages (`ClientHasNoPages`: the bundler writes them to
  the prerendered tree), so that no client file answers under another spelling of its path.

`EventsConverge` assumes one subscription (`OneSub`), as `Converges` itself does.

Hardly any of the safety properties is inductive as it stands. Each proof module names
the parts of its invariants (`IInv` in the older components), has one lemma for each
action (with shared lemmas for what actions have in common), and derives each property
from the invariant, or from the invariant and a step.

- **OutboxProofs**: `TypeOK`, `AttemptsAreThrows`, `OverlapOnlyAfterOverrun`,
  `HolderDecides`, `KeepsContract`. `PlaceInv` (where a worker stands determines its
  token, batch and job), `RowInv` (a row has an owner exactly while leased; attempts,
  throws and dead letters agree), `TokenInv` (no two workers hold one token), `LockInv`
  (locked rows stay claimable, by one worker), `KnownInv`, `ResultInv` (a result is on
  record before it is settled), `ProtectedInv` (who executes and has not overrun holds a
  live lease: two on one row would be two tokens in one column). `RefinesContract` maps
  every step to one of the contract or to a stutter.
- **OutboxProofs**, mail: every step of the handlers is one of the outbox or leaves it alone
  (`MailRefinesOutbox`), so the invariant of the outbox is used, not proved again. On top,
  `PhaseInv`, `OverlapInv`, `CopyInv`, `OutcomeInv` and `RecordInv` relate phases and
  journal; from them `MailTypeCorrect`, `SingleCopy` and `TrueJournal`.
- **ContributionProofs**: `EventsConverge` rests on what is *owed*: wherever a projection
  has left the agreement behind the subscription, an event of the change waits
  (`BehindInv`), also for a handler that holds a stale status (`StaleInv`); a deletion is
  the last change (`DeletedInv`). `RefundStands` needs none of it, nor one subscription.
- **ContributionProofs**, receipts: `RecordedIsRecorded` and `RepeatsAreRecognised` rest on the keys: one
  row of each part of an operation, a reversal only beside its replacement (`KeyInv`), a
  correction on the rail of what it corrects (`RequestInv`), and one rail until the second
  change of the agreement (`RailInv`).
- **MembershipProofs**: all five properties of the run. `SweepInv` (one sweep of a
  membership, which nothing moves meanwhile), `HeldInv` (a session in hand is its
  person's, in one hand), `OvertakenInv` and `GhostInv` (who is in flight beside or after a
  sweep is overtaken, or holds a late session), `MissedInv` (what a sweep has missed is
  late), `VersionInv` (versions count moves, which is why an equal version means an
  unmoved membership).
- **ApplicationProofs**: all six properties of the run. `VersionInv` (a version tells the
  statuses of an application apart), `ClaimInv`, `RequestInv`, `AppliedInv` (what a form
  that took effect implies), `TokenInv`.
- **ActivationProofs**: the three properties of the run. `NumberInv`, `OperatorInv` and
  `TakenInv` (the numbers between a form's preview and its own version were taken by
  others), `LinkInv`, `AssentInv` (what was current at a noted time), `RegisteredInv` (a
  registered request has person, link and address for itself), `SpentInv`.
- **ServerProofs**, migrations: the three properties of the run. `LockInv` (who has the
  advisory lock), `WorkInv` (what was verified stays true: the history is a first part of
  the tree), `WholeInv` (a recorded transaction has every statement).
- **ServerProofs**, the web process: `VisitorsSeeTheBuild`. `ProcInv` (a container's index
  is that of its own build) and `CopyInv` (a copy is a page with the digest of its body,
  or an asset with a weak validator); `CopyIsTheFile` is the heart: when a validator
  matches, the copy is what the answering container holds, whichever build it came from.
- **ServerProofs**, time: `SessionsAreJudgedByTime`. The sessions need types only. For the
  limiter `LimitInv` relates its pruned memory to everything it ever allowed: the memory
  is the end of that, and what was dropped had left the window (`Counts`), so that no
  window anywhere has more than the limit, and the wait it names is neither too short nor
  too long.
- **PublicationProofs**, drafts: `DraftsInv` is the property with the same of every branch
  whose check has passed. A keyed check clears what it reads; an unkeyed one passes
  only what main has already (`UnkeyedCheckSkips`). `ToolsKeepPassing` is about a step.
- **PublicationProofs**, the leak scan: `ExcerptsShowNoValue`, for any values and texts.
  `StartsFound` says what a search from left to right finds; `RedactedHides` that after a
  value's own pass no match of it can be read whole, whatever passes came before, which is
  the first half. For the second, `Reaches` is the invariant of the opening window: it has
  no gaps, and has whole whatever it touches that the first window did not; at the end,
  and because every value had its turn, it has whole whatever it touches at all. Then a
  pass takes a shorter occurrence whole or not at all (`RedactedWhole`), because it lies
  within the match or apart from it, and the longest come first (`LongestFirstCovers`).
- **PublicationProofs**, the leak gates: `GatesTellTheTruth`. The invariant relates the run
  to the history of the disk: what has been looked up was there, a text that has been read
  had, at some time since the list was taken, what was found or not found in it, and a
  listed file that is opaque to the scan or unknown to it is accounted for at the step that
  ends the looking up.
- **PublicationProofs**, the projection: `SyncWritesPublications` follows the pieces of an
  accepted answer to the publications they are from (`AcceptedWasPublished`).
- **PublicationProofs**, the archive: `PageInv` is what has been read in each phase.
  `PagesArePublic` is that what is built passes the gate; `PagesAreServedWhole` that sort
  and filter lose, repeat and misplace nothing (`ThreadsAreOrdered`, `MessagesAreOrdered`).
  `BodiesKeepTheirWriters` goes through the lines of a body: after each, the
  paragraphs and the open one hold the words so far, at their levels (`TakeShows`,
  `FlushShows`).
- **ContributionProofs**, the net: `NetIsOfPayments` shows that the sum over the rows that
  count is the sum over the payments, of one latest figure each: a correction leads from
  the row that it reverses to the replacement, always a later one, so that following them
  takes each payment to one last row and no two to the same.

**Data of any size.** The induction rules of the proof library take an operator, which the
provers cannot instantiate. `DataLemmas` has them for a *set* instead (`NatInductionOfSet`,
`SubsetInduction`), from the library's theorem that a well-founded relation has minimal
elements, and with them: recursive functions exist and unfold (`RecursionExists`), sums
over finite sets split, agree and follow a one-to-one map, `FlattenSeq` appends, and sort
and filter (`Ordering`) list each position once and in order. The sort is stated by what
it puts first, with no loop, so that it is checked by TLC and proved about in one form.

Only model-checked: the two liveness properties of mail, `EveryJobSettles` and
`InterruptedDeadLetters`, which rest on fairness and so on ENABLED, which the prover does
not reason about.

## 6. What is not modelled, and what is left

- **Mailbox and mailing list removal**: handlers without state of their own, jobs like any
  other to `Outbox`.
- **Tenancy**: row-level security is PostgreSQL's; each module is one tenant.
- **Audit log** (append-only, read by no operation), **inventory** (a schema without
  operations), **pages and assets**, **build and deployment**.
- **Role grants** are read and revoked where `Application` and `Receipts` need them, and
  constant in `Membership`; granting anew has no caller but the seeding scripts, and the
  operator allowlist is a fixed list.
- The change of an email address has no caller.
- The SMTP and HTTP wire formats, templates, the validation of form contents, password
  hashing and webhook signatures, the regular expressions themselves.

Simplifications inside the modules, each stated where it is made: the TTL of
verification tokens and activation links and of sessions in `Membership` (they can end at
any time; `SessionTime` has the clock), the replay of an activation (it amounts to a
login), one figure for what a receipt form carries, one thing that a draft says.

Left for later: a composition of `Activation` with `Application`'s approval, role grants
that change in `Membership`, and convergence for a person with several subscriptions.

## 7. Running it

    tlc -workers 2 -config MCOutbox.cfg MCOutbox
    tlapm MembershipProofs.tla

A run takes up to two and a half minutes with two workers; each proof module takes from
half a minute to a few minutes.
