--------------------------- MODULE OutboxContract ---------------------------
(***************************************************************************)
(* What the transactional outbox promises its callers, with no workers,    *)
(* leases or clocks.  A job whose enqueue committed is owed.  Its handler  *)
(* may run any number of times, each run ending in an acknowledgement or a *)
(* throw.  The job is kept only after an acknowledgement, and it is given  *)
(* up only when MaxAttempts throws have been charged to it.  Kept and      *)
(* given up are final.                                                     *)
(***************************************************************************)
EXTENDS Naturals

CONSTANTS
  Key,          \* one element per (tenant, kind, idempotency_key)
  MaxAttempts   \* outbox_job.max_attempts

VARIABLES
  promise,   \* what became of each job
  charged,   \* throws charged to each job's budget
  thrown,    \* throws of each job's handler, charged or not
  acked      \* jobs whose handler has returned normally at least once

contractVars == <<promise, charged, thrown, acked>>

Init ==
  /\ promise = [k \in Key |-> "none"]
  /\ charged = [k \in Key |-> 0]
  /\ thrown = [k \in Key |-> 0]
  /\ acked = {}

\* The caller's transaction commits, and the job with it.
Owe(k) ==
  /\ promise[k] = "none"
  /\ promise' = [promise EXCEPT ![k] = "owed"]
  /\ UNCHANGED <<charged, thrown, acked>>

\* A run of the handler returns.  It may be a run whose worker was presumed
\* dead, so it can come after the job is kept or given up.
Acknowledge(k) ==
  /\ promise[k] # "none"
  /\ acked' = acked \union {k}
  /\ UNCHANGED <<promise, charged, thrown>>

\* A run of the handler throws, again possibly long after the job is settled.
Throw(k) ==
  /\ promise[k] # "none"
  /\ thrown' = [thrown EXCEPT ![k] = @ + 1]
  /\ UNCHANGED <<promise, charged, acked>>

\* One throw is charged to the job, and the last one its budget allows gives
\* the job up in the same step.
Charge(k) ==
  /\ promise[k] = "owed"
  /\ charged[k] < thrown[k]
  /\ charged' = [charged EXCEPT ![k] = @ + 1]
  /\ promise' = [promise EXCEPT
                   ![k] = IF charged[k] + 1 >= MaxAttempts THEN "givenUp" ELSE "owed"]
  /\ UNCHANGED <<thrown, acked>>

Keep(k) ==
  /\ promise[k] = "owed"
  /\ k \in acked
  /\ promise' = [promise EXCEPT ![k] = "kept"]
  /\ UNCHANGED <<charged, thrown, acked>>

Next ==
  \E k \in Key : Owe(k) \/ Acknowledge(k) \/ Throw(k) \/ Charge(k) \/ Keep(k)

Spec == Init /\ [][Next]_contractVars
=============================================================================
