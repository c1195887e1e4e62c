---------------------------- MODULE OutboxProofs ----------------------------
(***************************************************************************)
(* Proofs about Outbox and MailDelivery for any sets of workers, jobs and  *)
(* tokens, any batch size, attempt budget and bound on faults.  The mail   *)
(* handlers take the steps of Outbox, so the invariant of the outbox holds *)
(* of them; on top of it stands one that ties each handler's phase to the  *)
(* journal and to what the peer has accepted.                              *)
(***************************************************************************)
EXTENDS MailDelivery, TLAPS

----------------------------------------------------------------------------
(* The inductive invariant, in parts.                                       *)

\* A worker's variables agree with its place in the cycle.
PlaceInv ==
  /\ \A w \in Worker : current[w] \in Key <=> Executing(w)
  /\ \A w \in Worker : pc[w] \in {"down", "idle"} => batch[w] = {}
  /\ \A w \in Worker : token[w] = NoToken <=> pc[w] \in {"down", "idle", "claiming"}
  /\ \A w \in overran : Executing(w)

\* A row's columns agree with its status.
RowInv ==
  \A k \in Key :
    /\ owner[k] \in Token <=> status[k] = "leased"
    /\ k \in live => status[k] = "leased"
    /\ status[k] \in {"leased", "done"} => k \in ready
    /\ attempts[k] <= thrown[k]
    /\ attempts[k] <= MaxAttempts
    /\ status[k] = "dead" <=> attempts[k] = MaxAttempts

\* A token belongs to one claim.
TokenInv == \A v, w \in Worker : token[v] = token[w] /\ token[v] # NoToken => v = w

\* What an open claim has locked stays claimable, and no other claim has it.
LockInv ==
  /\ \A w \in Worker : pc[w] = "claiming" => \A k \in batch[w] : Claimable(k)
  /\ \A v, w \in Worker :
       pc[v] = "claiming" /\ pc[w] = "claiming" /\ v # w => batch[v] \intersect batch[w] = {}

\* Workers only ever meet rows that were enqueued.
KnownInv ==
  \A w \in Worker, k \in Key : k \in batch[w] \/ current[w] = k => status[k] # "absent"

\* A worker about to record a result has that result, and if it still holds the
\* row the throw it will charge has not been charged yet.
ResultInv ==
  \A w \in Worker :
    /\ pc[w] = "completing" => current[w] \in acked
    /\ pc[w] = "releasing" /\ Holds(w, current[w]) => attempts[current[w]] < thrown[current[w]]

\* Until its lease lapses, the worker in a handler holds the row, under a live lease.
ProtectedInv ==
  \A w \in Worker :
    Executing(w) /\ w \notin overran => Holds(w, current[w]) /\ current[w] \in live

IInv ==
  /\ TypeOK
  /\ PlaceInv
  /\ RowInv
  /\ TokenInv
  /\ LockInv
  /\ KnownInv
  /\ ResultInv
  /\ ProtectedInv
----------------------------------------------------------------------------
(* Each action preserves the invariant.                                     *)

LEMMA EnqueueKeeps == ASSUME IInv, NEW k \in Key, Enqueue(k) PROVE IInv'
<1> USE OutboxAssumption DEF IInv, TypeOK, Status, Place, rowVars, workerVars, historyVars, Enqueue
<1>1. TypeOK'
  OBVIOUS
<1>2. PlaceInv'
  BY DEF PlaceInv, Executing
<1>3. RowInv'
  BY DEF RowInv
<1>4. TokenInv'
  BY DEF TokenInv
<1>5. LockInv'
  BY DEF LockInv, Claimable
<1>6. KnownInv'
  BY DEF KnownInv
<1>7. ResultInv'
  BY DEF ResultInv, Holds
<1>8. ProtectedInv'
  BY DEF ProtectedInv, Holds, Executing
<1> QED
  BY <1>1, <1>2, <1>3, <1>4, <1>5, <1>6, <1>7, <1>8 DEF IInv

LEMMA BackoffElapsesKeeps == ASSUME IInv, NEW k \in Key, BackoffElapses(k) PROVE IInv'
<1> USE OutboxAssumption DEF IInv, TypeOK, Status, Place, rowVars, workerVars, historyVars, BackoffElapses
<1>1. TypeOK'
  OBVIOUS
<1>2. PlaceInv'
  BY DEF PlaceInv, Executing
<1>3. RowInv'
  BY DEF RowInv
<1>4. TokenInv'
  BY DEF TokenInv
<1>5. LockInv'
  BY DEF LockInv, Claimable
<1>6. KnownInv'
  BY DEF KnownInv
<1>7. ResultInv'
  BY DEF ResultInv, Holds
<1>8. ProtectedInv'
  BY DEF ProtectedInv, Holds, Executing
<1> QED
  BY <1>1, <1>2, <1>3, <1>4, <1>5, <1>6, <1>7, <1>8 DEF IInv

LEMMA LeaseLapsesKeeps == ASSUME IInv, NEW k \in Key, LeaseLapses(k) PROVE IInv'
<1> USE OutboxAssumption DEF IInv, TypeOK, Status, Place, rowVars, workerVars, historyVars, LeaseLapses
<1>1. TypeOK'
  OBVIOUS
<1>2. PlaceInv'
  BY DEF PlaceInv, Executing
<1>3. RowInv'
  BY DEF RowInv
<1>4. TokenInv'
  BY DEF TokenInv
<1>5. LockInv'
  BY DEF LockInv, Claimable
<1>6. KnownInv'
  BY DEF KnownInv
<1>7. ResultInv'
  BY DEF ResultInv, Holds
<1>8. ProtectedInv'
  BY DEF ProtectedInv, Holds, Executing
<1> QED
  BY <1>1, <1>2, <1>3, <1>4, <1>5, <1>6, <1>7, <1>8 DEF IInv

LEMMA LeaseOverdueKeeps == ASSUME IInv, NEW w \in Worker, NEW k \in Key, LeaseOverdue(w, k) PROVE IInv'
<1> USE OutboxAssumption DEF IInv, TypeOK, Status, Place, rowVars, workerVars, historyVars, LeaseOverdue, Fault
<1>1. TypeOK'
  OBVIOUS
<1>2. PlaceInv'
  BY DEF PlaceInv, Executing
<1>3. RowInv'
  BY DEF RowInv
<1>4. TokenInv'
  BY DEF TokenInv
<1>5. LockInv'
  BY DEF LockInv, Claimable
<1>6. KnownInv'
  BY DEF KnownInv
<1>7. ResultInv'
  BY DEF ResultInv, Holds
<1>8. ProtectedInv'
  BY DEF ProtectedInv, Holds, Executing, RowInv, TokenInv
<1> QED
  BY <1>1, <1>2, <1>3, <1>4, <1>5, <1>6, <1>7, <1>8 DEF IInv

LEMMA LockBatchKeeps == ASSUME IInv, NEW w \in Worker, LockBatch(w) PROVE IInv'
<1> USE OutboxAssumption DEF IInv, TypeOK, Status, Place, rowVars, workerVars, historyVars, LockBatch
<1>1. TypeOK'
  OBVIOUS
<1>2. PlaceInv'
  BY DEF PlaceInv, Executing
<1>3. RowInv'
  BY DEF RowInv
<1>4. TokenInv'
  BY DEF TokenInv
<1>5. LockInv'
  BY DEF LockInv, Claimable, RowLocked
<1>6. KnownInv'
  BY DEF KnownInv, Claimable
<1>7. ResultInv'
  BY DEF ResultInv, Holds
<1>8. ProtectedInv'
  BY DEF ProtectedInv, Holds, Executing
<1> QED
  BY <1>1, <1>2, <1>3, <1>4, <1>5, <1>6, <1>7, <1>8 DEF IInv

LEMMA CommitClaimKeeps == ASSUME IInv, NEW w \in Worker, CommitClaim(w) PROVE IInv'
<1> USE OutboxAssumption DEF IInv, TypeOK, Status, Place, rowVars, workerVars, historyVars, CommitClaim, Claimed
<1>1. TypeOK'
  OBVIOUS
<1>2. PlaceInv'
  BY DEF PlaceInv, Executing
<1>3. RowInv'
  BY DEF RowInv, LockInv, Claimable
<1>4. TokenInv'
  BY DEF TokenInv, TokensInUse
<1>5. LockInv'
  BY DEF LockInv, Claimable
<1>6. KnownInv'
  BY DEF KnownInv
<1>7. ResultInv'
  BY DEF ResultInv, Holds, PlaceInv, Executing, TokensInUse
<1>8. ProtectedInv'
  BY DEF ProtectedInv, Holds, Executing, LockInv, Claimable
<1> QED
  BY <1>1, <1>2, <1>3, <1>4, <1>5, <1>6, <1>7, <1>8 DEF IInv

LEMMA ClaimErrsKeeps == ASSUME IInv, NEW w \in Worker, ClaimErrs(w) PROVE IInv'
<1> USE OutboxAssumption DEF IInv, TypeOK, Status, Place, rowVars, workerVars, historyVars, ClaimErrs, Fault
<1>1. CASE UNCHANGED rowVars
  <2>1. TypeOK' /\ RowInv' /\ TokenInv' /\ KnownInv'
    BY <1>1 DEF RowInv, TokenInv, KnownInv
  <2>2. PlaceInv' /\ LockInv'
    BY <1>1 DEF PlaceInv, Executing, LockInv, Claimable
  <2>3. ResultInv' /\ ProtectedInv'
    BY <1>1 DEF ResultInv, ProtectedInv, Holds, Executing
  <2> QED
    BY <2>1, <2>2, <2>3
<1>2. ASSUME NEW t \in Token, Claimed(w, t) PROVE IInv'
  <2> USE <1>2 DEF Claimed
  <2>1. TypeOK'
    OBVIOUS
  <2>2. PlaceInv'
    BY DEF PlaceInv, Executing
  <2>3. RowInv'
    BY DEF RowInv, LockInv, Claimable
  <2>4. TokenInv'
    BY DEF TokenInv, TokensInUse
  <2>5. LockInv'
    BY DEF LockInv, Claimable
  <2>6. KnownInv'
    BY DEF KnownInv
  <2>7. ResultInv'
    BY DEF ResultInv, Holds, PlaceInv, Executing, TokensInUse
  <2>8. ProtectedInv'
    BY DEF ProtectedInv, Holds, Executing, LockInv, Claimable
  <2> QED
    BY <2>1, <2>2, <2>3, <2>4, <2>5, <2>6, <2>7, <2>8
<1> QED
  BY <1>1, <1>2

LEMMA RenewLeaseKeeps == ASSUME IInv, NEW w \in Worker, NEW k \in Key, RenewLease(w, k) PROVE IInv'
<1> USE OutboxAssumption DEF IInv, TypeOK, Status, Place, rowVars, workerVars, historyVars, RenewLease
<1>1. TypeOK'
  OBVIOUS
<1>2. PlaceInv'
  BY DEF PlaceInv, Executing
<1>3. RowInv'
  BY DEF RowInv, Holds
<1>4. TokenInv'
  BY DEF TokenInv
<1>5. LockInv'
  BY DEF LockInv, Claimable, RowLocked
<1>6. KnownInv'
  BY DEF KnownInv
<1>7. ResultInv'
  BY DEF ResultInv, Holds
<1>8. ProtectedInv'
  BY DEF ProtectedInv, Holds, Executing
<1> QED
  BY <1>1, <1>2, <1>3, <1>4, <1>5, <1>6, <1>7, <1>8 DEF IInv

LEMMA RenewErrsKeeps == ASSUME IInv, NEW w \in Worker, NEW k \in Key, RenewErrs(w, k) PROVE IInv'
<1> USE OutboxAssumption DEF IInv, TypeOK, Status, Place, rowVars, workerVars, historyVars, RenewErrs, Fault
<1>1. TypeOK'
  OBVIOUS
<1>2. PlaceInv'
  BY DEF PlaceInv, Executing
<1>3. RowInv'
  BY DEF RowInv, Holds
<1>4. TokenInv'
  BY DEF TokenInv
<1>5. LockInv'
  BY DEF LockInv, Claimable, RowLocked
<1>6. KnownInv'
  BY DEF KnownInv
<1>7. ResultInv'
  BY DEF ResultInv, Holds
<1>8. ProtectedInv'
  BY DEF ProtectedInv, Holds, Executing
<1> QED
  BY <1>1, <1>2, <1>3, <1>4, <1>5, <1>6, <1>7, <1>8 DEF IInv

LEMMA HandlerReturnsKeeps == ASSUME IInv, NEW w \in Worker, HandlerReturns(w) PROVE IInv'
<1> USE OutboxAssumption DEF IInv, TypeOK, Status, Place, rowVars, workerVars, historyVars, HandlerReturns
<1>1. TypeOK'
  BY DEF PlaceInv, Executing
<1>2. PlaceInv'
  BY DEF PlaceInv, Executing
<1>3. RowInv'
  BY DEF RowInv
<1>4. TokenInv'
  BY DEF TokenInv
<1>5. LockInv'
  BY DEF LockInv, Claimable
<1>6. KnownInv'
  BY DEF KnownInv
<1>7. ResultInv'
  BY DEF ResultInv, Holds
<1>8. ProtectedInv'
  BY DEF ProtectedInv, Holds, Executing
<1> QED
  BY <1>1, <1>2, <1>3, <1>4, <1>5, <1>6, <1>7, <1>8 DEF IInv

LEMMA HandlerThrowsKeeps == ASSUME IInv, NEW w \in Worker, HandlerThrows(w) PROVE IInv'
<1> USE OutboxAssumption DEF IInv, TypeOK, Status, Place, rowVars, workerVars, historyVars, HandlerThrows
<1>1. TypeOK'
  BY DEF PlaceInv, Executing
<1>2. PlaceInv'
  BY DEF PlaceInv, Executing
<1>3. RowInv'
  BY DEF RowInv
<1>4. TokenInv'
  BY DEF TokenInv
<1>5. LockInv'
  BY DEF LockInv, Claimable
<1>6. KnownInv'
  BY DEF KnownInv
<1>7. ResultInv'
  BY DEF ResultInv, Holds, PlaceInv, Executing, RowInv
<1>8. ProtectedInv'
  BY DEF ProtectedInv, Holds, Executing
<1> QED
  BY <1>1, <1>2, <1>3, <1>4, <1>5, <1>6, <1>7, <1>8 DEF IInv

LEMMA CompleteJobKeeps == ASSUME IInv, NEW w \in Worker, CompleteJob(w) PROVE IInv'
<1> USE OutboxAssumption DEF IInv, TypeOK, Status, Place, rowVars, workerVars, historyVars, CompleteJob, Completed, NextJob
<1>1. TypeOK'
  OBVIOUS
<1>2. PlaceInv'
  BY DEF PlaceInv, Executing
<1>3. RowInv'
  BY DEF RowInv, Holds
<1>4. TokenInv'
  BY DEF TokenInv
<1>5. LockInv'
  BY DEF LockInv, Claimable, RowLocked
<1>6. KnownInv'
  BY DEF KnownInv
<1>7. ResultInv'
  BY DEF ResultInv, Holds, PlaceInv, Executing
<1>8. ProtectedInv'
  BY DEF ProtectedInv, Holds, Executing, RowInv, TokenInv
<1> QED
  BY <1>1, <1>2, <1>3, <1>4, <1>5, <1>6, <1>7, <1>8 DEF IInv

LEMMA CompleteErrsKeeps == ASSUME IInv, NEW w \in Worker, CompleteErrs(w) PROVE IInv'
<1> USE OutboxAssumption DEF IInv, TypeOK, Status, Place, rowVars, workerVars, historyVars, CompleteErrs, Completed, NextJob, Fault
<1>1. TypeOK'
  OBVIOUS
<1>2. PlaceInv'
  BY DEF PlaceInv, Executing
<1>3. RowInv'
  BY DEF RowInv, Holds
<1>4. TokenInv'
  BY DEF TokenInv
<1>5. LockInv'
  BY DEF LockInv, Claimable, RowLocked
<1>6. KnownInv'
  BY DEF KnownInv
<1>7. ResultInv'
  BY DEF ResultInv, Holds, PlaceInv, Executing
<1>8. ProtectedInv'
  BY DEF ProtectedInv, Holds, Executing, RowInv, TokenInv
<1> QED
  BY <1>1, <1>2, <1>3, <1>4, <1>5, <1>6, <1>7, <1>8 DEF IInv

LEMMA ReleaseJobKeeps == ASSUME IInv, NEW w \in Worker, ReleaseJob(w) PROVE IInv'
<1> USE OutboxAssumption DEF IInv, TypeOK, Status, Place, rowVars, workerVars, historyVars, ReleaseJob, Released, Spent, NextJob
<1>1. TypeOK'
  OBVIOUS
<1>2. PlaceInv'
  BY DEF PlaceInv, Executing
<1>3. RowInv'
  BY DEF RowInv, ResultInv, Holds
<1>4. TokenInv'
  BY DEF TokenInv
<1>5. LockInv'
  BY DEF LockInv, Claimable, RowLocked
<1>6. KnownInv'
  BY DEF KnownInv
<1>7. ResultInv'
  BY DEF ResultInv, Holds, PlaceInv, Executing
<1>8. ProtectedInv'
  BY DEF ProtectedInv, Holds, Executing, RowInv, TokenInv
<1> QED
  BY <1>1, <1>2, <1>3, <1>4, <1>5, <1>6, <1>7, <1>8 DEF IInv

LEMMA ReleaseErrsKeeps == ASSUME IInv, NEW w \in Worker, ReleaseErrs(w) PROVE IInv'
<1> USE OutboxAssumption DEF IInv, TypeOK, Status, Place, rowVars, workerVars, historyVars, ReleaseErrs, Released, Spent, NextJob, Fault
<1>1. TypeOK'
  OBVIOUS
<1>2. PlaceInv'
  BY DEF PlaceInv, Executing
<1>3. RowInv'
  <2>1. CASE UNCHANGED rowVars
    BY <2>1 DEF RowInv
  <2>2. CASE Holds(w, current[w]) /\ Released(current[w])
    <3>1. /\ current[w] \in Key /\ status[current[w]] = "leased" /\ current[w] \in ready
          /\ attempts[current[w]] < thrown[current[w]]
      BY <2>2 DEF RowInv, PlaceInv, Executing, ResultInv, Holds
    <3>2. ASSUME NEW k \in Key, k # current[w]
          PROVE  /\ status'[k] = status[k] /\ owner'[k] = owner[k] /\ attempts'[k] = attempts[k]
                 /\ k \in live' <=> k \in live
                 /\ k \in ready' <=> k \in ready
      BY <2>2, <3>1, <3>2
    <3>3. UNCHANGED thrown
      OBVIOUS
    <3>4. /\ owner'[current[w]] = NoToken /\ current[w] \notin live'
          /\ attempts'[current[w]] = attempts[current[w]] + 1
          /\ status'[current[w]] = IF attempts[current[w]] + 1 = MaxAttempts THEN "dead" ELSE "pending"
      BY <2>2, <3>1 DEF RowInv
    <3> QED BY <3>1, <3>2, <3>3, <3>4 DEF RowInv
  <2> QED
    BY <2>1, <2>2
<1>4. TokenInv'
  BY DEF TokenInv
<1>5. LockInv'
  BY DEF LockInv, Claimable, RowLocked
<1>6. KnownInv'
  BY DEF KnownInv
<1>7. ResultInv'
  BY DEF ResultInv, Holds, PlaceInv, Executing
<1>8. ProtectedInv'
  BY DEF ProtectedInv, Holds, Executing, RowInv, TokenInv
<1> QED
  BY <1>1, <1>2, <1>3, <1>4, <1>5, <1>6, <1>7, <1>8 DEF IInv

LEMMA EndCycleKeeps == ASSUME IInv, NEW w \in Worker, EndCycle(w) PROVE IInv'
<1> USE OutboxAssumption DEF IInv, TypeOK, Status, Place, rowVars, workerVars, historyVars, EndCycle
<1>1. TypeOK'
  OBVIOUS
<1>2. PlaceInv'
  BY DEF PlaceInv, Executing
<1>3. RowInv'
  BY DEF RowInv
<1>4. TokenInv'
  BY DEF TokenInv
<1>5. LockInv'
  BY DEF LockInv, Claimable
<1>6. KnownInv'
  BY DEF KnownInv
<1>7. ResultInv'
  BY DEF ResultInv, Holds
<1>8. ProtectedInv'
  BY DEF ProtectedInv, Holds, Executing
<1> QED
  BY <1>1, <1>2, <1>3, <1>4, <1>5, <1>6, <1>7, <1>8 DEF IInv

LEMMA ExitKeeps == ASSUME IInv, NEW w \in Worker, Shutdown(w) \/ Crash(w) PROVE IInv'
<1> USE OutboxAssumption DEF IInv, TypeOK, Status, Place, rowVars, workerVars, historyVars, Shutdown, Crash, Exit, Fault
<1>1. TypeOK'
  OBVIOUS
<1>2. PlaceInv'
  BY DEF PlaceInv, Executing
<1>3. RowInv'
  BY DEF RowInv
<1>4. TokenInv'
  BY DEF TokenInv
<1>5. LockInv'
  BY DEF LockInv, Claimable
<1>6. KnownInv'
  BY DEF KnownInv
<1>7. ResultInv'
  BY DEF ResultInv, Holds
<1>8. ProtectedInv'
  BY DEF ProtectedInv, Holds, Executing
<1> QED
  BY <1>1, <1>2, <1>3, <1>4, <1>5, <1>6, <1>7, <1>8 DEF IInv

LEMMA StartKeeps == ASSUME IInv, NEW w \in Worker, Start(w) PROVE IInv'
<1> USE OutboxAssumption DEF IInv, TypeOK, Status, Place, rowVars, workerVars, historyVars, Start
<1>1. TypeOK'
  OBVIOUS
<1>2. PlaceInv'
  BY DEF PlaceInv, Executing
<1>3. RowInv'
  BY DEF RowInv
<1>4. TokenInv'
  BY DEF TokenInv
<1>5. LockInv'
  BY DEF LockInv, Claimable
<1>6. KnownInv'
  BY DEF KnownInv
<1>7. ResultInv'
  BY DEF ResultInv, Holds
<1>8. ProtectedInv'
  BY DEF ProtectedInv, Holds, Executing
<1> QED
  BY <1>1, <1>2, <1>3, <1>4, <1>5, <1>6, <1>7, <1>8 DEF IInv

----------------------------------------------------------------------------
(* The theorems.                                                            *)

\* Everything below rests on this: the invariant is inductive.
THEOREM Inductive == Spec => []IInv
<1>1. Init => IInv
  BY OutboxAssumption
  DEF Init, IInv, TypeOK, PlaceInv, RowInv, TokenInv, LockInv, KnownInv, ResultInv,
      ProtectedInv, Executing, Status, Place
<1>2. IInv /\ [Next]_vars => IInv'
  <2> SUFFICES ASSUME IInv, [Next]_vars PROVE IInv'
    OBVIOUS
  <2>1. CASE UNCHANGED vars
    BY <2>1
    DEF vars, IInv, TypeOK, PlaceInv, RowInv, TokenInv, LockInv, KnownInv, ResultInv,
        ProtectedInv, Executing, Holds, Claimable
  <2>2. ASSUME NEW k \in Key, Enqueue(k) \/ Clock(k) PROVE IInv'
    BY <2>2, EnqueueKeeps, BackoffElapsesKeeps, LeaseLapsesKeeps DEF Clock
  <2>3. ASSUME NEW w \in Worker, Progress(w) PROVE IInv'
    BY <2>3, LockBatchKeeps, CommitClaimKeeps, RenewLeaseKeeps, HandlerReturnsKeeps,
       HandlerThrowsKeeps, CompleteJobKeeps, ReleaseJobKeeps, EndCycleKeeps, StartKeeps
    DEF Progress
  <2>4. ASSUME NEW w \in Worker, Trouble(w) PROVE IInv'
    BY <2>4, ClaimErrsKeeps, RenewErrsKeeps, CompleteErrsKeeps, ReleaseErrsKeeps,
       LeaseOverdueKeeps, ExitKeeps
    DEF Trouble
  <2> QED
    BY <2>1, <2>2, <2>3, <2>4 DEF Next
<1> QED
  BY <1>1, <1>2, PTL DEF Spec

\* The rows, the workers and the histories keep their types.
THEOREM TypeCorrect == Spec => []TypeOK
BY Inductive, PTL DEF IInv

\* For any budget, a job is dead exactly when that many throws of its handler
\* were charged to it, and nothing but a throw is ever charged.
THEOREM BudgetIsThrows == Spec => []AttemptsAreThrows
<1>1. IInv => AttemptsAreThrows
  BY DEF IInv, RowInv, AttemptsAreThrows
<1> QED
  BY <1>1, Inductive, PTL

\* For any number of workers, the only way two of them are in one handler is
\* that one outlived the lease it was given for that run.
THEOREM LeaseCoversExecution == Spec => []OverlapOnlyAfterOverrun
<1>1. IInv => OverlapOnlyAfterOverrun
  <2> SUFFICES ASSUME IInv, NEW v \in Worker, NEW w \in Worker,
                      Executing(v), Executing(w), current[v] = current[w],
                      v \notin overran, w \notin overran
               PROVE  v = w
    BY DEF OverlapOnlyAfterOverrun
  <2>1. token[v] = token[w]
    BY DEF IInv, ProtectedInv, Holds
  <2>2. token[v] # NoToken
    BY DEF IInv, PlaceInv, Executing
  <2> QED
    BY <2>1, <2>2 DEF IInv, TokenInv
<1> QED
  BY <1>1, Inductive, PTL
\* One step of HolderDecides, for one row.
SettledBy(k) ==
  /\ status[k] = "leased"
  /\ \/ status'[k] # "leased"
     \/ k \in live /\ owner'[k] # owner[k]
  => \E w \in Worker :
       /\ token[w] = owner[k]
       /\ current[w] = k
       /\ pc[w] \in {"completing", "releasing"}

\* A row under a live lease is out of reach of every claim, and a lapsed one
\* stays leased when it is claimed again.
LEMMA ClaimSparesLive ==
  ASSUME IInv, NEW w \in Worker, pc[w] = "claiming",
         NEW t \in Token, Claimed(w, t), NEW k \in Key
  PROVE  SettledBy(k)
<1>1. k \in batch[w] => k \notin live
  BY DEF IInv, LockInv, Claimable, TypeOK
<1>2. status'[k] = IF k \in batch[w] THEN "leased" ELSE status[k]
  BY DEF Claimed
<1>3. owner'[k] # owner[k] => k \in batch[w]
  BY DEF Claimed
<1> QED
  BY <1>1, <1>2, <1>3 DEF SettledBy

\* Recording a result moves only the row the worker holds.
LEMMA RecordsOwnRow ==
  ASSUME IInv, NEW w \in Worker, NEW k \in Key,
         CompleteJob(w) \/ CompleteErrs(w) \/ ReleaseJob(w) \/ ReleaseErrs(w)
  PROVE  SettledBy(k)
<1>1. pc[w] \in {"completing", "releasing"}
  BY DEF CompleteJob, CompleteErrs, ReleaseJob, ReleaseErrs
<1>2. CASE UNCHANGED rowVars
  BY <1>2 DEF SettledBy, rowVars
<1>3. CASE Holds(w, current[w]) /\ Completed(current[w])
  BY <1>1, <1>3 DEF SettledBy, Holds, Completed, IInv, TypeOK
<1>4. CASE Holds(w, current[w]) /\ Released(current[w])
  BY <1>1, <1>4 DEF SettledBy, Holds, Released, IInv, TypeOK
<1> QED
  BY <1>2, <1>3, <1>4 DEF CompleteJob, CompleteErrs, ReleaseJob, ReleaseErrs

\* For any number of workers, a leased row is settled by its holder, or lapses.
THEOREM SettledByHolder == Spec => HolderDecides
<1>1. IInv /\ [Next]_vars => [\A k \in Key : SettledBy(k)]_vars
  <2> SUFFICES ASSUME IInv, Next, NEW k \in Key PROVE SettledBy(k)
    OBVIOUS
  <2>1. ASSUME NEW j \in Key, Enqueue(j) \/ Clock(j) PROVE SettledBy(k)
    BY <2>1 DEF Enqueue, Clock, BackoffElapses, LeaseLapses, SettledBy, IInv, TypeOK
  <2>2. ASSUME NEW w \in Worker, Progress(w) PROVE SettledBy(k)
    <3>1. CASE CommitClaim(w)
      BY <3>1, ClaimSparesLive DEF CommitClaim
    <3>2. CASE CompleteJob(w) \/ ReleaseJob(w)
      BY <3>2, RecordsOwnRow
    <3>3. CASE UNCHANGED <<status, owner>>
      BY <3>3 DEF SettledBy
    <3> QED
      BY <2>2, <3>1, <3>2, <3>3
      DEF Progress, LockBatch, RenewLease, HandlerReturns, HandlerThrows, EndCycle, Start, rowVars
  <2>3. ASSUME NEW w \in Worker, Trouble(w) PROVE SettledBy(k)
    <3>1. CASE CompleteErrs(w) \/ ReleaseErrs(w)
      BY <3>1, RecordsOwnRow
    <3>2. CASE ClaimErrs(w) /\ ~UNCHANGED rowVars
      BY <3>2, ClaimSparesLive DEF ClaimErrs
    <3>3. CASE UNCHANGED <<status, owner>>
      BY <3>3 DEF SettledBy
    <3> QED
      BY <2>3, <3>1, <3>2, <3>3
      DEF Trouble, ClaimErrs, RenewErrs, LeaseOverdue, Shutdown, Crash, Exit, rowVars
  <2> QED
    BY <2>1, <2>2, <2>3 DEF Next
<1>2. [\A k \in Key : SettledBy(k)]_vars
      => [\A k \in Key :
            /\ status[k] = "leased"
            /\ \/ status'[k] # "leased"
               \/ k \in live /\ owner'[k] # owner[k]
            => \E w \in Worker :
                 /\ token[w] = owner[k]
                 /\ current[w] = k
                 /\ pc[w] \in {"completing", "releasing"}]_vars
  BY DEF SettledBy
<1> QED
  BY <1>1, <1>2, Inductive, PTL DEF Spec, HolderDecides

----------------------------------------------------------------------------
(* The outbox implements its contract.                                      *)

\* The contract's stutter: nothing it can see has changed.
Unseen ==
  /\ \A k \in Key : PromiseOf(status'[k]) = PromiseOf(status[k])
  /\ UNCHANGED <<attempts, thrown, acked>>

LEMMA UnseenStutters == Unseen => UNCHANGED Contract!contractVars
BY DEF Unseen, Contract!contractVars

LEMMA EnqueueOwes == ASSUME IInv, NEW k \in Key, Enqueue(k) PROVE Contract!Owe(k)
BY DEF Enqueue, Contract!Owe, PromiseOf, IInv, TypeOK, historyVars

LEMMA ReturnAcknowledges ==
  ASSUME IInv, NEW w \in Worker, HandlerReturns(w)
  PROVE  current[w] \in Key /\ Contract!Acknowledge(current[w])
<1>1. current[w] \in Key /\ status[current[w]] # "absent"
  BY DEF HandlerReturns, IInv, PlaceInv, Executing, KnownInv
<1> QED
  BY <1>1 DEF HandlerReturns, Contract!Acknowledge, PromiseOf, IInv, TypeOK, Status, rowVars

LEMMA ThrowThrows ==
  ASSUME IInv, NEW w \in Worker, HandlerThrows(w)
  PROVE  current[w] \in Key /\ Contract!Throw(current[w])
<1>1. current[w] \in Key /\ status[current[w]] # "absent"
  BY DEF HandlerThrows, IInv, PlaceInv, Executing, KnownInv
<1> QED
  BY <1>1 DEF HandlerThrows, Contract!Throw, PromiseOf, IInv, TypeOK, Status, rowVars

\* Only an acknowledged job is marked done.
LEMMA CompletionKeeps ==
  ASSUME IInv, NEW w \in Worker, pc[w] = "completing",
         Holds(w, current[w]), Completed(current[w]), UNCHANGED historyVars
  PROVE  current[w] \in Key /\ Contract!Keep(current[w])
<1>1. current[w] \in Key /\ current[w] \in acked
  BY DEF IInv, PlaceInv, Executing, ResultInv
<1> QED
  BY <1>1 DEF Completed, Holds, Contract!Keep, PromiseOf, IInv, TypeOK, historyVars

\* A throw is charged once, and the last one gives the job up.
LEMMA ReleaseCharges ==
  ASSUME IInv, NEW w \in Worker, pc[w] = "releasing",
         Holds(w, current[w]), Released(current[w]), UNCHANGED historyVars
  PROVE  current[w] \in Key /\ Contract!Charge(current[w])
<1>1. current[w] \in Key /\ attempts[current[w]] < thrown[current[w]]
  BY DEF IInv, PlaceInv, Executing, ResultInv
<1>2. status[current[w]] = "leased"
  BY DEF Holds
<1>3. ASSUME NEW k \in Key
      PROVE  PromiseOf(status'[k]) = IF k # current[w] THEN PromiseOf(status[k])
                                     ELSE IF attempts[k] + 1 >= MaxAttempts
                                            THEN "givenUp" ELSE "owed"
  BY <1>1 DEF Released, Spent, PromiseOf, IInv, TypeOK
<1>4. attempts' = [attempts EXCEPT ![current[w]] = @ + 1]
  BY DEF Released
<1> QED
  BY <1>1, <1>2, <1>3, <1>4 DEF Contract!Charge, PromiseOf, historyVars

\* Every behaviour of any number of workers, with any faults, is one that the
\* contract of enqueue.ts allows.
THEOREM RefinesContract == Spec => KeepsContract
<1>1. Init => Contract!Init
  BY DEF Init, Contract!Init, PromiseOf
<1>2. IInv /\ [Next]_vars => [Contract!Next]_Contract!contractVars
  <2> SUFFICES ASSUME IInv, [Next]_vars PROVE Contract!Next \/ UNCHANGED Contract!contractVars
    OBVIOUS
  <2>1. CASE Unseen
    BY <2>1, UnseenStutters
  <2>2. ASSUME NEW k \in Key, Enqueue(k) PROVE Contract!Next
    BY <2>2, EnqueueOwes DEF Contract!Next
  <2>3. ASSUME NEW w \in Worker, HandlerReturns(w) PROVE Contract!Next
    BY <2>3, ReturnAcknowledges DEF Contract!Next
  <2>4. ASSUME NEW w \in Worker, HandlerThrows(w) PROVE Contract!Next
    BY <2>4, ThrowThrows DEF Contract!Next
  <2>5. ASSUME NEW w \in Worker, CompleteJob(w) \/ CompleteErrs(w)
        PROVE  Contract!Next \/ Unseen
    <3>1. UNCHANGED historyVars /\ pc[w] = "completing"
      BY <2>5 DEF CompleteJob, CompleteErrs
    <3>2. CASE UNCHANGED rowVars
      BY <3>1, <3>2 DEF rowVars, historyVars, Unseen
    <3>3. CASE Holds(w, current[w]) /\ Completed(current[w])
      BY <3>1, <3>3, CompletionKeeps DEF Contract!Next
    <3> QED
      BY <2>5, <3>2, <3>3 DEF CompleteJob, CompleteErrs
  <2>6. ASSUME NEW w \in Worker, ReleaseJob(w) \/ ReleaseErrs(w)
        PROVE  Contract!Next \/ Unseen
    <3>1. UNCHANGED historyVars /\ pc[w] = "releasing"
      BY <2>6 DEF ReleaseJob, ReleaseErrs
    <3>2. CASE UNCHANGED rowVars
      BY <3>1, <3>2 DEF rowVars, historyVars, Unseen
    <3>3. CASE Holds(w, current[w]) /\ Released(current[w])
      BY <3>1, <3>3, ReleaseCharges DEF Contract!Next
    <3> QED
      BY <2>6, <3>2, <3>3 DEF ReleaseJob, ReleaseErrs
  <2>7. ASSUME NEW w \in Worker, CommitClaim(w) \/ ClaimErrs(w) PROVE Unseen
    <3>1. pc[w] = "claiming" /\ UNCHANGED historyVars
      BY <2>7 DEF CommitClaim, ClaimErrs
    <3>2. CASE UNCHANGED rowVars
      BY <3>1, <3>2 DEF Unseen, rowVars, historyVars
    <3>3. ASSUME NEW t \in Token, Claimed(w, t) PROVE Unseen
      <4>1. \A k \in batch[w] : status[k] \in {"pending", "leased"}
        BY <3>1 DEF IInv, LockInv, Claimable
      <4> QED
        BY <3>1, <3>3, <4>1 DEF Claimed, Unseen, PromiseOf, historyVars
    <3> QED
      BY <2>7, <3>2, <3>3 DEF CommitClaim, ClaimErrs
  <2>8. UNCHANGED <<status, attempts, thrown, acked>> => Unseen
    BY DEF Unseen
  <2>9. ASSUME NEW w \in Worker, Progress(w) PROVE Contract!Next \/ Unseen
    BY <2>9, <2>3, <2>4, <2>5, <2>6, <2>7, <2>8
    DEF Progress, LockBatch, RenewLease, EndCycle, Start, rowVars, historyVars
  <2>10. ASSUME NEW w \in Worker, Trouble(w) PROVE Contract!Next \/ Unseen
    BY <2>10, <2>5, <2>6, <2>7, <2>8
    DEF Trouble, RenewErrs, LeaseOverdue, Shutdown, Crash, Exit, rowVars, historyVars
  <2>11. ASSUME NEW k \in Key, Clock(k) PROVE Unseen
    BY <2>11, <2>8 DEF Clock, BackoffElapses, LeaseLapses, historyVars
  <2> QED
    BY <2>1, <2>2, <2>8, <2>9, <2>10, <2>11 DEF Next, vars
<1> QED
  BY <1>1, <1>2, Inductive, PTL DEF Spec, KeepsContract, Contract!Spec


----------------------------------------------------------------------------
(* A mail step is an outbox step.                                           *)

\* Whatever a worker or the clock does here is a step of Outbox or a stutter.
LEMMA MailStepIsOutboxStep == ASSUME [MailNext]_allVars PROVE [Next]_vars
<1>1. CASE \E k \in Key : Enqueue(k) \/ MailClock(k)
  BY <1>1 DEF MailClock, Next
<1>2. ASSUME NEW w \in Worker, Dispatch(w) \/ DispatchTrouble(w) PROVE Next
  BY <1>2 DEF Dispatch, DispatchTrouble, Next, Progress, Trouble
<1>3. ASSUME NEW w \in Worker, Handle(w) PROVE Next \/ UNCHANGED vars
  BY <1>3 DEF Handle, Refuse, ReadOutcome, ReadIntent, Replay, RefuseAmbiguous, CommitIntent, Phase1Throws,
              Send, SendThrows, CommitOutcome, Phase3Throws, Return, Throw, Next, Progress
<1>4. ASSUME NEW w \in Worker, MailStart(w) \/ MailCrash(w) PROVE Next
  BY <1>4 DEF MailStart, MailCrash, Next, Progress, Trouble
<1>5. ASSUME NEW w \in Worker, NEW k \in Key, MailLeaseOverdue(w, k) PROVE Next
  BY <1>5 DEF MailLeaseOverdue, Next, Trouble
<1>6. CASE UNCHANGED allVars
  BY <1>6 DEF allVars
<1> QED
  BY <1>1, <1>2, <1>3, <1>4, <1>5, <1>6 DEF MailNext, MailProgress, MailTrouble

\* Every behaviour of the mail handlers is one of Outbox: what is proved of any
\* outbox handler holds for them.
THEOREM MailRefinesOutbox == MailSpec => IsOutbox
<1>1. MailInit => Init
  BY DEF MailInit
<1> QED
  BY <1>1, MailStepIsOutboxStep, PTL DEF MailSpec, IsOutbox, Spec

----------------------------------------------------------------------------
(* The inductive invariant, in parts.                                       *)

\* A worker is past the start of its handler only while it runs it, and sends
\* nothing without an intent on record.
PhaseInv ==
  \A w \in Worker :
    /\ phase[w] # "start" => pc[w] = "running"
    /\ phase[w] \in {"intended", "sent"} => current[w] \in intent

\* The history of overlaps knows every handler that has outlived its lease.
OverlapInv == \A w \in overran : current[w] \in overlapped

\* Before the send there is no copy, unless handlers have overlapped; afterwards
\* there is one, and the intent that keeps the next attempt from sending.
CopyInv ==
  \A k \in Key :
    /\ sent[k] > 0 => k \in intent
    /\ k \notin overlapped =>
         /\ sent[k] <= 1
         /\ \A w \in Worker :
              current[w] = k /\ phase[w] \in {"rendering", "intended"} => sent[k] = 0

\* While a handler runs undisturbed no outcome stands, and a disabled one has sent
\* nothing.
OutcomeInv ==
  \A k \in Key : k \notin overlapped =>
    /\ outcome[k] = "disabled" => sent[k] = 0
    /\ \A w \in Worker : current[w] = k =>
         /\ phase[w] # "start" => outcome[k] = "none"
         /\ phase[w] = "sent" /\ gate[w] = "disabled" => sent[k] = 0

\* What is recorded has happened.
RecordInv ==
  /\ \A w \in Worker : phase[w] = "sent" /\ gate[w] = "smtp" => sent[current[w]] > 0
  /\ \A k \in Key :
       /\ outcome[k] = "sent" => sent[k] > 0
       /\ k \in acked => outcome[k] # "none"
       /\ status[k] = "done" => k \in acked

MailInv == MailTypeOK /\ PhaseInv /\ OverlapInv /\ CopyInv /\ OutcomeInv /\ RecordInv

----------------------------------------------------------------------------
(* Each step preserves the invariant.                                       *)

\* Two workers in the handler of the same job overlap.
LEMMA Overlap ==
  ASSUME IInv, OverlapInv, NEW v \in Worker, NEW w \in Worker, v # w,
         Executing(v), Executing(w), current[v] = current[w]
  PROVE  current[w] \in overlapped
<1>1. SUFFICES ASSUME v \notin overran, w \notin overran PROVE FALSE
  BY <1>1 DEF OverlapInv
<1>2. Holds(v, current[v]) /\ Holds(w, current[w])
  BY <1>1 DEF IInv, ProtectedInv
<1>3. token[v] = token[w]
  BY <1>2 DEF Holds
<1>4. token[v] # NoToken
  BY DEF IInv, PlaceInv, Executing
<1> QED
  BY <1>3, <1>4 DEF IInv, TokenInv

\* A running handler has a job, which no other handler is amid unless they overlap.
LEMMA Alone ==
  ASSUME IInv, PhaseInv, OverlapInv, NEW w \in Worker, pc[w] = "running"
  PROVE  /\ current[w] \in Key
         /\ \A v \in Worker : v # w /\ phase[v] # "start" /\ current[v] = current[w]
               => current[w] \in overlapped
BY Overlap DEF IInv, PlaceInv, PhaseInv, Executing

\* A step of the dispatcher that leaves running handlers running.
Undisturbed ==
  /\ UNCHANGED mailVars
  /\ \A w \in Worker : pc[w] = "running" => pc'[w] = "running" /\ current'[w] = current[w]
  /\ \A w \in overran' : w \in overran /\ current'[w] = current[w]
  /\ acked' = acked
  /\ \A k \in Key : status'[k] = "done" => k \in acked

LEMMA UndisturbedKeeps == ASSUME MailInv, TypeOK', Undisturbed PROVE MailInv'
<1> USE DEF MailInv, MailTypeOK, Undisturbed, mailVars
<1>1. MailTypeOK'
  OBVIOUS
<1>2. \A w \in Worker : phase[w] # "start" => pc'[w] = "running" /\ current'[w] = current[w]
  BY DEF PhaseInv
<1>3. PhaseInv'
  BY <1>2 DEF PhaseInv
<1>4. OverlapInv'
  BY DEF OverlapInv
<1>5. CopyInv'
  BY <1>2 DEF CopyInv
<1>6. OutcomeInv'
  BY <1>2 DEF OutcomeInv
<1>7. RecordInv'
  BY <1>2 DEF RecordInv
<1> QED
  BY <1>1, <1>3, <1>4, <1>5, <1>6, <1>7

LEMMA DispatchUndisturbed ==
  ASSUME IInv, MailInv, NEW w \in Worker, Dispatch(w) \/ DispatchTrouble(w)
  PROVE  Undisturbed
<1> USE DEF IInv, TypeOK, MailInv, RecordInv, Undisturbed, rowVars, historyVars
<1> UNCHANGED mailVars
  BY DEF Dispatch, DispatchTrouble
<1>1. CASE LockBatch(w) \/ CommitClaim(w) \/ EndCycle(w) \/ ClaimErrs(w)
  BY <1>1 DEF LockBatch, CommitClaim, Claimed, EndCycle, ClaimErrs
<1>2. CASE \E k \in Key : RenewLease(w, k) \/ RenewErrs(w, k)
  BY <1>2 DEF RenewLease, RenewErrs, PlaceInv, Executing
<1>3. CASE CompleteJob(w) \/ CompleteErrs(w)
  BY <1>3 DEF CompleteJob, CompleteErrs, NextJob, Completed, ResultInv
<1>4. CASE ReleaseJob(w) \/ ReleaseErrs(w)
  BY <1>4 DEF ReleaseJob, ReleaseErrs, NextJob, Released
<1>5. CASE Shutdown(w)
  BY <1>5 DEF Shutdown, Exit
<1> QED
  BY <1>1, <1>2, <1>3, <1>4, <1>5 DEF Dispatch, DispatchTrouble

LEMMA RefuseKeeps ==
  ASSUME IInv, TypeOK', MailInv, NEW w \in Worker, Refuse(w)
  PROVE  MailInv'
<1> USE OutboxAssumption DEF MailInv, MailTypeOK, IInv, TypeOK, Place, Phase, Gate, vars, rowVars, workerVars, historyVars, Refuse, Throw, Advance, HandlerThrows, At
<1>1. MailTypeOK'
  OBVIOUS
<1>2. PhaseInv'
  BY DEF PhaseInv
<1>3. OverlapInv'
  BY DEF OverlapInv
<1>4. CopyInv'
  BY Alone DEF CopyInv, PhaseInv
<1>5. OutcomeInv'
  BY Alone DEF OutcomeInv, CopyInv, PhaseInv
<1>6. RecordInv'
  BY Alone DEF RecordInv, PhaseInv
<1> QED
  BY <1>1, <1>2, <1>3, <1>4, <1>5, <1>6

LEMMA ReadOutcomeKeeps ==
  ASSUME IInv, TypeOK', MailInv, NEW w \in Worker, ReadOutcome(w)
  PROVE  MailInv'
<1> USE OutboxAssumption DEF MailInv, MailTypeOK, IInv, TypeOK, Place, Phase, Gate, vars, rowVars, workerVars, historyVars, ReadOutcome, Advance, At
<1>1. MailTypeOK'
  OBVIOUS
<1>2. PhaseInv'
  BY DEF PhaseInv
<1>3. OverlapInv'
  BY DEF OverlapInv
<1>4. CopyInv'
  BY Alone DEF CopyInv, PhaseInv
<1>5. OutcomeInv'
  BY Alone DEF OutcomeInv, CopyInv, PhaseInv
<1>6. RecordInv'
  BY Alone DEF RecordInv, PhaseInv
<1> QED
  BY <1>1, <1>2, <1>3, <1>4, <1>5, <1>6

LEMMA ReadIntentKeeps ==
  ASSUME IInv, TypeOK', MailInv, NEW w \in Worker, ReadIntent(w)
  PROVE  MailInv'
<1> USE OutboxAssumption DEF MailInv, MailTypeOK, IInv, TypeOK, Place, Phase, Gate, vars, rowVars, workerVars, historyVars, ReadIntent, Advance, At, Unintended
<1>1. MailTypeOK'
  OBVIOUS
<1>2. PhaseInv'
  BY DEF PhaseInv
<1>3. OverlapInv'
  BY DEF OverlapInv
<1>4. CopyInv'
  BY Alone DEF CopyInv, PhaseInv
<1>5. OutcomeInv'
  BY Alone DEF OutcomeInv, CopyInv, PhaseInv
<1>6. RecordInv'
  BY Alone DEF RecordInv, PhaseInv
<1> QED
  BY <1>1, <1>2, <1>3, <1>4, <1>5, <1>6

LEMMA ReplayKeeps ==
  ASSUME IInv, TypeOK', MailInv, NEW w \in Worker, Replay(w)
  PROVE  MailInv'
<1> USE OutboxAssumption DEF MailInv, MailTypeOK, IInv, TypeOK, Place, Phase, Gate, vars, rowVars, workerVars, historyVars, Replay, Return, Advance, HandlerReturns, At
<1>1. MailTypeOK'
  OBVIOUS
<1>2. PhaseInv'
  BY DEF PhaseInv
<1>3. OverlapInv'
  BY DEF OverlapInv
<1>4. CopyInv'
  BY Alone DEF CopyInv, PhaseInv
<1>5. OutcomeInv'
  BY Alone DEF OutcomeInv, CopyInv, PhaseInv
<1>6. RecordInv'
  BY Alone DEF RecordInv, PhaseInv
<1> QED
  BY <1>1, <1>2, <1>3, <1>4, <1>5, <1>6

LEMMA RefuseAmbiguousKeeps ==
  ASSUME IInv, TypeOK', MailInv, NEW w \in Worker, RefuseAmbiguous(w)
  PROVE  MailInv'
<1> USE OutboxAssumption DEF MailInv, MailTypeOK, IInv, TypeOK, Place, Phase, Gate, vars, rowVars, workerVars, historyVars, RefuseAmbiguous, Throw, Advance, HandlerThrows, At
<1>1. MailTypeOK'
  OBVIOUS
<1>2. PhaseInv'
  BY DEF PhaseInv
<1>3. OverlapInv'
  BY DEF OverlapInv
<1>4. CopyInv'
  BY Alone DEF CopyInv, PhaseInv
<1>5. OutcomeInv'
  BY Alone DEF OutcomeInv, CopyInv, PhaseInv
<1>6. RecordInv'
  BY Alone DEF RecordInv, PhaseInv
<1> QED
  BY <1>1, <1>2, <1>3, <1>4, <1>5, <1>6

LEMMA CommitIntentKeeps ==
  ASSUME IInv, TypeOK', MailInv, NEW w \in Worker, CommitIntent(w)
  PROVE  MailInv'
<1> USE OutboxAssumption DEF MailInv, MailTypeOK, IInv, TypeOK, Place, Phase, Gate, vars, rowVars, workerVars, historyVars, CommitIntent, Advance, At
<1>1. MailTypeOK'
  BY Alone
<1>2. PhaseInv'
  BY DEF PhaseInv
<1>3. OverlapInv'
  BY DEF OverlapInv
<1>4. CopyInv'
  BY Alone DEF CopyInv, PhaseInv
<1>5. OutcomeInv'
  BY Alone DEF OutcomeInv, CopyInv, PhaseInv
<1>6. RecordInv'
  BY Alone DEF RecordInv, PhaseInv
<1> QED
  BY <1>1, <1>2, <1>3, <1>4, <1>5, <1>6

LEMMA Phase1ThrowsKeeps ==
  ASSUME IInv, TypeOK', MailInv, NEW w \in Worker, Phase1Throws(w)
  PROVE  MailInv'
<1> USE OutboxAssumption DEF MailInv, MailTypeOK, IInv, TypeOK, Place, Phase, Gate, vars, rowVars, workerVars, historyVars, Phase1Throws, Throw, Advance, HandlerThrows, At
<1>1. MailTypeOK'
  OBVIOUS
<1>2. PhaseInv'
  BY DEF PhaseInv
<1>3. OverlapInv'
  BY DEF OverlapInv
<1>4. CopyInv'
  BY Alone DEF CopyInv, PhaseInv
<1>5. OutcomeInv'
  BY Alone DEF OutcomeInv, CopyInv, PhaseInv
<1>6. RecordInv'
  BY Alone DEF RecordInv, PhaseInv
<1> QED
  BY <1>1, <1>2, <1>3, <1>4, <1>5, <1>6

LEMMA SendKeeps ==
  ASSUME IInv, TypeOK', MailInv, NEW w \in Worker, Send(w)
  PROVE  MailInv'
<1> USE OutboxAssumption DEF MailInv, MailTypeOK, IInv, TypeOK, Place, Phase, Gate, vars, rowVars, workerVars, historyVars, Send, Advance, At, Delivered
<1>1. MailTypeOK'
  OBVIOUS
<1>2. PhaseInv'
  BY DEF PhaseInv
<1>3. OverlapInv'
  BY DEF OverlapInv
<1>4. CopyInv'
  BY Alone DEF CopyInv, PhaseInv
<1>5. OutcomeInv'
  BY Alone DEF OutcomeInv, CopyInv, PhaseInv
<1>6. RecordInv'
  BY Alone DEF RecordInv, PhaseInv
<1> QED
  BY <1>1, <1>2, <1>3, <1>4, <1>5, <1>6

LEMMA SendThrowsKeeps ==
  ASSUME IInv, TypeOK', MailInv, NEW w \in Worker, SendThrows(w)
  PROVE  MailInv'
<1> USE OutboxAssumption DEF MailInv, MailTypeOK, IInv, TypeOK, Place, Phase, Gate, vars, rowVars, workerVars, historyVars, SendThrows, Throw, Advance, HandlerThrows, At, Delivered
<1>1. MailTypeOK'
  OBVIOUS
<1>2. PhaseInv'
  BY DEF PhaseInv
<1>3. OverlapInv'
  BY DEF OverlapInv
<1>4. CopyInv'
  BY Alone DEF CopyInv, PhaseInv
<1>5. OutcomeInv'
  BY Alone DEF OutcomeInv, CopyInv, PhaseInv
<1>6. RecordInv'
  BY Alone DEF RecordInv, PhaseInv
<1> QED
  BY <1>1, <1>2, <1>3, <1>4, <1>5, <1>6

LEMMA CommitOutcomeKeeps ==
  ASSUME IInv, TypeOK', MailInv, NEW w \in Worker, CommitOutcome(w)
  PROVE  MailInv'
<1> USE OutboxAssumption DEF MailInv, MailTypeOK, IInv, TypeOK, Place, Phase, Gate, vars, rowVars, workerVars, historyVars, CommitOutcome, Return, Advance, HandlerReturns, At, Recorded
<1>1. MailTypeOK'
  OBVIOUS
<1>2. PhaseInv'
  BY DEF PhaseInv
<1>3. OverlapInv'
  BY DEF OverlapInv
<1>4. CopyInv'
  BY Alone DEF CopyInv, PhaseInv
<1>5. OutcomeInv'
  BY Alone DEF OutcomeInv, CopyInv, PhaseInv
<1>6. RecordInv'
  BY Alone DEF RecordInv, PhaseInv
<1> QED
  BY <1>1, <1>2, <1>3, <1>4, <1>5, <1>6

LEMMA Phase3ThrowsKeeps ==
  ASSUME IInv, TypeOK', MailInv, NEW w \in Worker, Phase3Throws(w)
  PROVE  MailInv'
<1> USE OutboxAssumption DEF MailInv, MailTypeOK, IInv, TypeOK, Place, Phase, Gate, vars, rowVars, workerVars, historyVars, Phase3Throws, Throw, Advance, HandlerThrows, At, Recorded
<1>1. MailTypeOK'
  OBVIOUS
<1>2. PhaseInv'
  BY DEF PhaseInv
<1>3. OverlapInv'
  BY DEF OverlapInv
<1>4. CopyInv'
  BY Alone DEF CopyInv, PhaseInv
<1>5. OutcomeInv'
  BY Alone DEF OutcomeInv, CopyInv, PhaseInv
<1>6. RecordInv'
  BY Alone DEF RecordInv, PhaseInv
<1> QED
  BY <1>1, <1>2, <1>3, <1>4, <1>5, <1>6

LEMMA MailCrashKeeps ==
  ASSUME IInv, TypeOK', MailInv, NEW w \in Worker, MailCrash(w)
  PROVE  MailInv'
<1> USE OutboxAssumption DEF MailInv, MailTypeOK, IInv, TypeOK, Place, Phase, Gate, vars, rowVars, workerVars, historyVars, MailCrash, Crash, Exit, Advance, At, Delivered
<1>1. MailTypeOK'
  OBVIOUS
<1>2. PhaseInv'
  BY DEF PhaseInv
<1>3. OverlapInv'
  BY DEF OverlapInv
<1>4. CopyInv'
  BY Alone DEF CopyInv, PhaseInv
<1>5. OutcomeInv'
  BY Alone DEF OutcomeInv, CopyInv, PhaseInv
<1>6. RecordInv'
  <2>1. \A k \in Key : sent[k] \in Nat /\ sent'[k] \in Nat /\ sent[k] <= sent'[k]
    <3>1. CASE UNCHANGED sent
      BY <3>1
    <3>2. CASE At(w, "intended") /\ Delivered(current[w])
      BY <3>2
    <3> QED BY <3>1, <3>2
  <2>2. UNCHANGED <<outcome, acked, status, gate>>
    OBVIOUS
  <2>3. \A v \in Worker : phase'[v] = "sent" => v # w /\ phase[v] = "sent" /\ current'[v] = current[v]
    OBVIOUS
  <2>4. \A v \in Worker : phase[v] = "sent" => current[v] \in Key
    BY DEF PhaseInv, PlaceInv, Executing
  <2> QED BY <2>1, <2>2, <2>3, <2>4 DEF RecordInv
<1> QED
  BY <1>1, <1>2, <1>3, <1>4, <1>5, <1>6

LEMMA MailStartKeeps ==
  ASSUME IInv, TypeOK', MailInv, NEW w \in Worker, MailStart(w)
  PROVE  MailInv'
<1> USE OutboxAssumption DEF MailInv, MailTypeOK, IInv, TypeOK, Place, Phase, Gate, vars, rowVars, workerVars, historyVars, MailStart, Start
<1>1. MailTypeOK'
  OBVIOUS
<1>2. PhaseInv'
  BY DEF PhaseInv
<1>3. OverlapInv'
  BY DEF OverlapInv
<1>4. CopyInv'
  BY Alone DEF CopyInv, PhaseInv
<1>5. OutcomeInv'
  BY Alone DEF OutcomeInv, CopyInv, PhaseInv
<1>6. RecordInv'
  BY Alone DEF RecordInv, PhaseInv
<1> QED
  BY <1>1, <1>2, <1>3, <1>4, <1>5, <1>6

LEMMA MailLeaseOverdueKeeps ==
  ASSUME IInv, TypeOK', MailInv, NEW w \in Worker, NEW k \in Key, MailLeaseOverdue(w, k)
  PROVE  MailInv'
<1> USE DEF MailInv, MailTypeOK, TypeOK, IInv, historyVars, MailLeaseOverdue, LeaseOverdue
<1>1. MailTypeOK'
  OBVIOUS
<1>2. PhaseInv'
  BY DEF PhaseInv
<1>3. OverlapInv'
  BY DEF OverlapInv
<1>4. CopyInv'
  BY DEF CopyInv
<1>5. OutcomeInv'
  BY DEF OutcomeInv
<1>6. RecordInv'
  BY DEF RecordInv
<1> QED
  BY <1>1, <1>2, <1>3, <1>4, <1>5, <1>6

LEMMA QueueUndisturbed ==
  ASSUME IInv, MailInv, NEW k \in Key, (Enqueue(k) /\ UNCHANGED mailVars) \/ MailClock(k)
  PROVE  Undisturbed
<1> USE DEF IInv, TypeOK, MailInv, RecordInv, Undisturbed, workerVars, historyVars
<1>1. CASE Enqueue(k) /\ UNCHANGED mailVars
  BY <1>1 DEF Enqueue
<1>2. CASE MailClock(k)
  BY <1>2 DEF MailClock, Clock, BackoffElapses, LeaseLapses
<1> QED
  BY <1>1, <1>2

----------------------------------------------------------------------------
\* Both invariants hold in every state of the mail handlers.
THEOREM MailInductive == MailSpec => [](IInv /\ MailInv)
<1>1. MailSpec => []IInv
  BY MailRefinesOutbox, Inductive, PTL DEF IsOutbox
<1>2. MailInit => MailInv
  BY DEF MailInit, Init, MailInv, MailTypeOK, TypeOK, Status, Place, Phase, PhaseInv, OverlapInv,
         CopyInv, OutcomeInv, RecordInv
<1>3. IInv /\ IInv' /\ MailInv /\ [MailNext]_allVars => MailInv'
  <2> SUFFICES ASSUME IInv, IInv', MailInv, [MailNext]_allVars PROVE MailInv'
    OBVIOUS
  <2> TypeOK'
    BY DEF IInv
  <2>1. ASSUME NEW k \in Key, (Enqueue(k) /\ UNCHANGED mailVars) \/ MailClock(k) PROVE MailInv'
    BY <2>1, QueueUndisturbed, UndisturbedKeeps
  <2>2. ASSUME NEW w \in Worker, Dispatch(w) \/ DispatchTrouble(w) PROVE MailInv'
    BY <2>2, DispatchUndisturbed, UndisturbedKeeps
  <2>3. ASSUME NEW w \in Worker, Handle(w) PROVE MailInv'
    BY <2>3, RefuseKeeps, ReadOutcomeKeeps, ReadIntentKeeps, ReplayKeeps, RefuseAmbiguousKeeps, CommitIntentKeeps,
       Phase1ThrowsKeeps, SendKeeps, SendThrowsKeeps, CommitOutcomeKeeps, Phase3ThrowsKeeps
       DEF Handle
  <2>4. ASSUME NEW w \in Worker, MailStart(w) \/ MailCrash(w) PROVE MailInv'
    BY <2>4, MailStartKeeps, MailCrashKeeps
  <2>5. ASSUME NEW w \in Worker, NEW k \in Key, MailLeaseOverdue(w, k) PROVE MailInv'
    BY <2>5, MailLeaseOverdueKeeps
  <2>6. CASE UNCHANGED allVars
    <3>1. Undisturbed
      BY <2>6 DEF allVars, vars, Undisturbed, IInv, TypeOK, MailInv, RecordInv
    <3> QED
      BY <3>1, UndisturbedKeeps
  <2> QED
    BY <2>1, <2>2, <2>3, <2>4, <2>5, <2>6 DEF MailNext, MailProgress, MailTrouble
<1> QED
  BY <1>1, <1>2, <1>3, PTL DEF MailSpec

\* Every variable of the mail handlers keeps its type.
THEOREM MailTypeCorrect == MailSpec => []MailTypeOK
<1>1. MailInv => MailTypeOK
  BY DEF MailInv
<1> QED
  BY <1>1, MailInductive, PTL

\* A second copy takes a handler that has outlived its lease (mail-shared.ts).
THEOREM SingleCopy == MailSpec => []OneCopyUnlessOverlapped
<1>1. MailInv => OneCopyUnlessOverlapped
  BY DEF MailInv, MailTypeOK, CopyInv, OneCopyUnlessOverlapped
<1> QED
  BY <1>1, MailInductive, PTL

\* The journal never claims more than has happened, and no job is done without it
\* (journal.ts).
THEOREM TrueJournal == MailSpec => []JournalIsTrue
<1>1. MailInv => JournalIsTrue
  BY DEF MailInv, OutcomeInv, RecordInv, JournalIsTrue
<1> QED
  BY <1>1, MailInductive, PTL
=============================================================================
