------------------------------- MODULE Outbox -------------------------------
(***************************************************************************)
(* The transactional outbox of src/lib/server/outbox: rows of outbox_job   *)
(* and the workers that claim, run and settle them (dispatchOnce under     *)
(* runWorkerLoop).                                                         *)
(*                                                                         *)
(* Time is two sets of rows: "ready" holds those with available_at <=      *)
(* now(), "live" those with lease_expires_at >= now(), and the actions     *)
(* BackoffElapses, LeaseLapses and LeaseOverdue move a row when the clock  *)
(* passes its stored instant.  Which of the claimable rows a claim takes   *)
(* is left open: the code takes those with the oldest available_at first.  *)
(*                                                                         *)
(* A claim transaction is two steps, so that the rows it has locked can be *)
(* met by another claim (which skips them) and by another worker's write   *)
(* (which waits).  The other transactions are one statement each and one   *)
(* step each.                                                              *)
(***************************************************************************)
EXTENDS Naturals, FiniteSets

CONSTANTS
  Worker,       \* worker processes sharing the queue
  Key,          \* one element per (tenant, kind, idempotency_key)
  Token,        \* lease tokens, "<worker>#<uuid>"
  NoToken,      \* lease_owner is null
  NoJob,        \* a worker is running no job
  BatchSize,    \* rows one claim may take
  MaxAttempts,  \* outbox_job.max_attempts
  MaxFaults     \* bound of the model: crashes, database errors and overdue leases

ASSUME OutboxAssumption ==
  /\ MaxAttempts \in Nat \ {0}
  /\ BatchSize \in Nat \ {0}
  /\ MaxFaults \in Nat
  /\ NoToken \notin Token
  /\ NoJob \notin Key

VARIABLES
  status,   \* of each key's row: outbox_status, or "absent"
  attempts, \* of each row
  owner,    \* of each row: lease_owner
  live,     \* the rows whose lease_expires_at has not passed
  ready,    \* the rows whose available_at has passed
  pc,       \* where each worker stands in dispatchOnce
  token,    \* the lease token of the worker's current claim
  batch,    \* rows locked by an open claim, then the claimed jobs not yet reached
  current,  \* the job whose handler the worker is running or settling
  overran,  \* workers whose lease lapsed under the handler they are running
  acked,    \* history: jobs whose handler has returned normally
  thrown,   \* history: how often each job's handler has thrown
  faults    \* how many faults have happened, at most MaxFaults

rowVars == <<status, attempts, owner, live, ready>>
workerVars == <<pc, token, batch, current, overran>>
historyVars == <<acked, thrown>>
vars == <<status, attempts, owner, live, ready,
          pc, token, batch, current, overran, acked, thrown, faults>>

Status == {"absent", "pending", "leased", "done", "dead"}
Place == {"down", "idle", "claiming", "cycle", "running", "completing", "releasing"}

TypeOK ==
  /\ status \in [Key -> Status]
  /\ attempts \in [Key -> Nat]
  /\ owner \in [Key -> Token \union {NoToken}]
  /\ live \in SUBSET Key
  /\ ready \in SUBSET Key
  /\ pc \in [Worker -> Place]
  /\ token \in [Worker -> Token \union {NoToken}]
  /\ batch \in [Worker -> SUBSET Key]
  /\ current \in [Worker -> Key \union {NoJob}]
  /\ overran \in SUBSET Worker
  /\ acked \in SUBSET Key
  /\ thrown \in [Key -> Nat]
  /\ faults \in Nat

Init ==
  /\ status = [k \in Key |-> "absent"]
  /\ attempts = [k \in Key |-> 0]
  /\ owner = [k \in Key |-> NoToken]
  /\ live = {}
  /\ ready = {}
  /\ pc = [w \in Worker |-> "idle"]
  /\ token = [w \in Worker |-> NoToken]
  /\ batch = [w \in Worker |-> {}]
  /\ current = [w \in Worker |-> NoJob]
  /\ overran = {}
  /\ acked = {}
  /\ thrown = [k \in Key |-> 0]
  /\ faults = 0

----------------------------------------------------------------------------
\* A worker that holds a job: its handler is running, or its result is being
\* recorded.
Executing(w) == pc[w] \in {"running", "completing", "releasing"}

\* The claim's lock on a row: other claims skip it, other writes wait for it.
RowLocked(k) == \E w \in Worker : pc[w] = "claiming" /\ k \in batch[w]

\* Mutation: the guard forgets the token, as if any lease would do.
HoldsAnyLease(w, k) == status[k] = "leased"

\* The guard of renewLease, completeJob and releaseJob: still leased, and by
\* this very claim.
Holds(w, k) == status[k] = "leased" /\ owner[k] = token[w]

\* Mutation: the claim forgets that a lease may be live.
ClaimableUnderLease(k) == status[k] \in {"pending", "leased"} /\ k \in ready

\* Mutation: the claim never takes back a row whose lease lapsed.
ClaimablePending(k) == status[k] = "pending" /\ k \in ready

\* The predicate of claimBatch.
Claimable(k) ==
  /\ status[k] \in {"pending", "leased"}
  /\ k \in ready
  /\ k \notin live

TokensInUse == {owner[k] : k \in Key} \union {token[w] : w \in Worker}

Fault == faults < MaxFaults /\ faults' = faults + 1

----------------------------------------------------------------------------
(* The enqueue of a caller's transaction, at its commit.                    *)

\* The unique key lets one insert through.  A later enqueue of the same key is
\* absorbed, or throws DeadIdempotencyKeyError and rolls its caller back when
\* the standing row is dead: neither changes a row.
Enqueue(k) ==
  /\ status[k] = "absent"
  /\ status' = [status EXCEPT ![k] = "pending"]
  /\ ready' = ready \union {k}
  /\ UNCHANGED <<attempts, owner, live, workerVars, historyVars, faults>>

----------------------------------------------------------------------------
(* Time.                                                                    *)

BackoffElapses(k) ==
  /\ status[k] = "pending"
  /\ k \notin ready
  /\ ready' = ready \union {k}
  /\ UNCHANGED <<status, attempts, owner, live, workerVars, historyVars, faults>>

\* The lease of a row nobody works on any more.
LeaseLapses(k) ==
  /\ k \in live
  /\ \A w \in Worker : token[w] = owner[k] => k \notin batch[w] \union {current[w]}
  /\ live' = live \ {k}
  /\ UNCHANGED <<status, attempts, owner, ready, workerVars, historyVars, faults>>

\* The lease of a row whose worker is alive: the row waited behind its batch,
\* or one handler outlived its own lease.
LeaseOverdue(w, k) ==
  /\ k \in live
  /\ token[w] = owner[k]
  /\ k \in batch[w] \union {current[w]}
  /\ Fault
  /\ live' = live \ {k}
  /\ overran' = IF current[w] = k THEN overran \union {w} ELSE overran
  /\ UNCHANGED <<status, attempts, owner, ready, pc, token, batch, current, historyVars>>

----------------------------------------------------------------------------
(* dispatchOnce.                                                            *)

\* The claim's SELECT ... FOR UPDATE SKIP LOCKED.
LockBatch(w) ==
  LET free == {k \in Key : Claimable(k) /\ ~RowLocked(k)}
  IN /\ pc[w] = "idle"
     /\ \E S \in SUBSET free :
          /\ S # {}
          /\ Cardinality(S) = IF Cardinality(free) < BatchSize
                                THEN Cardinality(free) ELSE BatchSize
          /\ batch' = [batch EXCEPT ![w] = S]
     /\ pc' = [pc EXCEPT ![w] = "claiming"]
     /\ UNCHANGED <<rowVars, token, current, overran, historyVars, faults>>

\* The UPDATE of the same statement: every row of the batch has a token never seen
\* before.
Claimed(w, t) ==
  /\ t \in Token \ TokensInUse
  /\ owner' = [k \in Key |-> IF k \in batch[w] THEN t ELSE owner[k]]
  /\ status' = [k \in Key |-> IF k \in batch[w] THEN "leased" ELSE status[k]]
  /\ live' = live \union batch[w]
  /\ UNCHANGED <<attempts, ready>>

\* It commits, and the worker has the rows.
CommitClaim(w) ==
  /\ pc[w] = "claiming"
  /\ \E t \in Token : Claimed(w, t) /\ token' = [token EXCEPT ![w] = t]
  /\ pc' = [pc EXCEPT ![w] = "cycle"]
  /\ UNCHANGED <<batch, current, overran, historyVars, faults>>

\* The claim transaction fails, before its commit or after it with the answer lost:
\* the loop reports the error and tries again, and knows of no row that it claimed.
ClaimErrs(w) ==
  /\ pc[w] = "claiming"
  /\ Fault
  /\ UNCHANGED rowVars \/ \E t \in Token : Claimed(w, t)
  /\ pc' = [pc EXCEPT ![w] = "idle"]
  /\ batch' = [batch EXCEPT ![w] = {}]
  /\ UNCHANGED <<token, current, overran, historyVars>>

\* renewLease before the handler: a fresh lease, or the job is skipped.
RenewLease(w, k) ==
  /\ pc[w] = "cycle"
  /\ k \in batch[w]
  /\ ~RowLocked(k)
  /\ batch' = [batch EXCEPT ![w] = @ \ {k}]
  /\ IF Holds(w, k)
       THEN /\ live' = live \union {k}
            /\ pc' = [pc EXCEPT ![w] = "running"]
            /\ current' = [current EXCEPT ![w] = k]
       ELSE UNCHANGED <<live, pc, current>>
  /\ UNCHANGED <<status, attempts, owner, ready, token, overran, historyVars, faults>>

\* The renewal's transaction throws.  Its commit may have been reached.
RenewErrs(w, k) ==
  /\ pc[w] = "cycle"
  /\ k \in batch[w]
  /\ ~RowLocked(k)
  /\ Fault
  /\ batch' = [batch EXCEPT ![w] = @ \ {k}]
  /\ \/ UNCHANGED live
     \/ Holds(w, k) /\ live' = live \union {k}
  /\ UNCHANGED <<status, attempts, owner, ready, pc, token, current, overran, historyVars>>

HandlerReturns(w) ==
  /\ pc[w] = "running"
  /\ pc' = [pc EXCEPT ![w] = "completing"]
  /\ acked' = acked \union {current[w]}
  /\ UNCHANGED <<rowVars, token, batch, current, overran, thrown, faults>>

\* The handler throws, or no handler is registered for the kind.
HandlerThrows(w) ==
  /\ pc[w] = "running"
  /\ pc' = [pc EXCEPT ![w] = "releasing"]
  /\ thrown' = [thrown EXCEPT ![current[w]] = @ + 1]
  /\ UNCHANGED <<rowVars, token, batch, current, overran, acked, faults>>

\* The worker is through with its current job, whatever was recorded.
NextJob(w) ==
  /\ pc' = [pc EXCEPT ![w] = "cycle"]
  /\ current' = [current EXCEPT ![w] = NoJob]
  /\ overran' = overran \ {w}
  /\ UNCHANGED <<token, batch>>

\* Mutation: completion writes a value lease_owner cannot hold.
CompletedUntyped(k) ==
  /\ status' = [status EXCEPT ![k] = "done"]
  /\ owner' = [owner EXCEPT ![k] = NoJob]
  /\ live' = live \ {k}
  /\ UNCHANGED <<attempts, ready>>

\* completeJob's UPDATE on a row it matches.
Completed(k) ==
  /\ status' = [status EXCEPT ![k] = "done"]
  /\ owner' = [owner EXCEPT ![k] = NoToken]
  /\ live' = live \ {k}
  /\ UNCHANGED <<attempts, ready>>

\* Mutation: the budget allows one failure too many.
SpentLate(n) == n > MaxAttempts

\* The attempt budget is used up.
Spent(n) == n >= MaxAttempts

\* releaseJob's UPDATE on a row it matches: charge the attempt, and decide
\* between a retry after a backoff and the dead letter, in one statement.
Released(k) ==
  LET spent == Spent(attempts[k] + 1)
  IN /\ attempts' = [attempts EXCEPT ![k] = @ + 1]
     /\ status' = [status EXCEPT ![k] = IF spent THEN "dead" ELSE "pending"]
     /\ ready' = IF spent THEN ready ELSE ready \ {k}
     /\ owner' = [owner EXCEPT ![k] = NoToken]
     /\ live' = live \ {k}

CompleteJob(w) ==
  /\ pc[w] = "completing"
  /\ ~RowLocked(current[w])
  /\ IF Holds(w, current[w]) THEN Completed(current[w]) ELSE UNCHANGED rowVars
  /\ NextJob(w)
  /\ UNCHANGED <<historyVars, faults>>

\* The completion's transaction throws: counted as lost, never as a failure of
\* the handler.  Its commit may have been reached.
CompleteErrs(w) ==
  /\ pc[w] = "completing"
  /\ ~RowLocked(current[w])
  /\ Fault
  /\ \/ UNCHANGED rowVars
     \/ Holds(w, current[w]) /\ Completed(current[w])
  /\ NextJob(w)
  /\ UNCHANGED historyVars

ReleaseJob(w) ==
  /\ pc[w] = "releasing"
  /\ ~RowLocked(current[w])
  /\ IF Holds(w, current[w]) THEN Released(current[w]) ELSE UNCHANGED rowVars
  /\ NextJob(w)
  /\ UNCHANGED <<historyVars, faults>>

ReleaseErrs(w) ==
  /\ pc[w] = "releasing"
  /\ ~RowLocked(current[w])
  /\ Fault
  /\ \/ UNCHANGED rowVars
     \/ Holds(w, current[w]) /\ Released(current[w])
  /\ NextJob(w)
  /\ UNCHANGED historyVars

\* The cycle is over and its token with it.
EndCycle(w) ==
  /\ pc[w] = "cycle"
  /\ batch[w] = {}
  /\ pc' = [pc EXCEPT ![w] = "idle"]
  /\ token' = [token EXCEPT ![w] = NoToken]
  /\ UNCHANGED <<rowVars, batch, current, overran, historyVars, faults>>

----------------------------------------------------------------------------
(* Processes.                                                               *)

\* What the process knew is gone.  A claim it had open rolls back.
Exit(w) ==
  /\ pc' = [pc EXCEPT ![w] = "down"]
  /\ token' = [token EXCEPT ![w] = NoToken]
  /\ batch' = [batch EXCEPT ![w] = {}]
  /\ current' = [current EXCEPT ![w] = NoJob]
  /\ overran' = overran \ {w}
  /\ UNCHANGED <<rowVars, historyVars>>

\* SIGTERM is obeyed between jobs: the rest of the batch is left to lapse.  A
\* process that dies there leaves the same behind.
Shutdown(w) ==
  /\ pc[w] \in {"idle", "cycle"}
  /\ Fault
  /\ Exit(w)

Crash(w) ==
  /\ pc[w] \notin {"down", "idle", "cycle"}
  /\ Fault
  /\ Exit(w)

Start(w) ==
  /\ pc[w] = "down"
  /\ pc' = [pc EXCEPT ![w] = "idle"]
  /\ UNCHANGED <<rowVars, token, batch, current, overran, historyVars, faults>>

----------------------------------------------------------------------------
\* What a worker does of its own accord when nothing goes wrong.
Progress(w) ==
  \/ LockBatch(w)
  \/ CommitClaim(w)
  \/ \E k \in Key : RenewLease(w, k)
  \/ HandlerReturns(w)
  \/ HandlerThrows(w)
  \/ CompleteJob(w)
  \/ ReleaseJob(w)
  \/ EndCycle(w)
  \/ Start(w)

Trouble(w) ==
  \/ ClaimErrs(w)
  \/ \E k \in Key : RenewErrs(w, k)
  \/ CompleteErrs(w)
  \/ ReleaseErrs(w)
  \/ \E k \in Key : LeaseOverdue(w, k)
  \/ Shutdown(w)
  \/ Crash(w)

Clock(k) == BackoffElapses(k) \/ LeaseLapses(k)

Next ==
  \/ \E k \in Key : Enqueue(k) \/ Clock(k)
  \/ \E w \in Worker : Progress(w) \/ Trouble(w)

Spec == Init /\ [][Next]_vars

----------------------------------------------------------------------------
(* Properties.                                                              *)

\* A job's attempts are handler throws and nothing else: a crash, a lapsed
\* lease or a failed bookkeeping transaction never uses one up, and the row is
\* dead exactly when the budget is spent (dispatch.ts, "only the handler's own
\* throw can consume an attempt").
AttemptsAreThrows ==
  \A k \in Key :
    /\ attempts[k] <= thrown[k]
    /\ attempts[k] <= MaxAttempts
    /\ status[k] = "dead" <=> attempts[k] = MaxAttempts

\* Two workers are in the same handler only if one of them outlived the lease
\* it was given for that handler: waiting behind a batch, a reclaim, a crash or
\* a failed renewal never causes it (dispatch.ts, "the lease covers the
\* execution, not just the claim").
OverlapOnlyAfterOverrun ==
  \A v, w \in Worker :
    /\ v # w
    /\ Executing(v) /\ Executing(w)
    /\ current[v] = current[w]
    => v \in overran \/ w \in overran

\* A leased row leaves its lease only by the hand of the worker that holds its
\* token and has run its handler, unless the lease has lapsed: no zombie
\* settles a row that was reclaimed, and no claim takes a row from a live lease
\* (dispatch.ts, "the guard is a per-claim token, not a worker name").
HolderDecides ==
  [][\A k \in Key :
       /\ status[k] = "leased"
       /\ \/ status'[k] # "leased"
          \/ k \in live /\ owner'[k] # owner[k]
       => \E w \in Worker :
            /\ token[w] = owner[k]
            /\ current[w] = k
            /\ pc[w] \in {"completing", "releasing"}]_vars

\* What a row's status says of the promise made with it.
PromiseOf(s) ==
  CASE s = "absent" -> "none"
    [] s = "done" -> "kept"
    [] s = "dead" -> "givenUp"
    [] OTHER -> "owed"

Contract == INSTANCE OutboxContract WITH
  promise <- [k \in Key |-> PromiseOf(status[k])],
  charged <- attempts

\* Every behaviour of the workers is one the contract allows: at least once,
\* charged only for throws, final once settled (enqueue.ts and dispatch.ts,
\* "at-least-once by contract").
KeepsContract == Contract!Spec

\* With faults bounded, every enqueued job is run to done or dead: no lapsed
\* lease, lost row or crashed worker strands it (dispatch.ts, "a worker that
\* dies mid-job does not strand its rows beyond one lease").
EveryJobSettles ==
  \A k \in Key : status[k] = "pending" ~> status[k] \in {"done", "dead"}
=============================================================================
