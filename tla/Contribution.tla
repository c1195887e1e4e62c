---------------------------- MODULE Contribution ----------------------------
(***************************************************************************)
(* One person's contribution agreement and everything that writes it: the  *)
(* member's choice (src/lib/server/contribution/agreement.ts), the finance *)
(* desk's receipts (receipt.ts), the projection of Stripe's events         *)
(* (src/lib/server/stripe) and the cancellation that offboarding enqueues  *)
(* (outbox/handlers/cancel-billing.ts).                                    *)
(*                                                                         *)
(* Stripe is external: subscriptions change on their own, each change      *)
(* emits an event, and events are delivered late and in any order.  The    *)
(* outbox is its contract, OutboxContract, which Outbox implements: a job  *)
(* that is owed may be run again and again, by several handlers at once.   *)
(***************************************************************************)
EXTENDS Naturals, FiniteSets

CONSTANTS
  Event,        \* Stripe event ids: also the bound on how many there are
  CancelBilling,\* the job that offboarding enqueues
  Sub,          \* the subscriptions the person may take out, one after another
  Runner,       \* handlers that may run at the same time
  NoJob,        \* a runner is idle
  MaxAttempts,  \* outbox_job.max_attempts
  MaxThrowing   \* bound of the model: jobs whose handler may throw

ASSUME ContributionAssumption ==
  /\ CancelBilling \notin Event
  /\ NoJob \notin Event \union {CancelBilling}
  /\ MaxAttempts \in Nat \ {0}
  /\ MaxThrowing \in Nat

Job == Event \union {CancelBilling}

VARIABLES
  agreement,  \* contribution_agreement.state, or "none"
  writer,     \* history: who wrote it last
  choosing,   \* a choice is in flight: its transaction has seen an active membership
  checkout,   \* a Checkout session is open at Stripe
  left,       \* the membership has been left or ended
  sub,        \* Stripe's status of each subscription
  emitted,    \* of each event: what Stripe emitted, or Nothing
  inbox,      \* the events in stripe_event_inbox
  processed,  \* the inbox rows with processed_at set
  job,        \* what each runner is handling
  saw,        \* the status each runner has retrieved from Stripe
  overtaken,  \* history: runners in whose handler another one's projection committed
  promise, charged, thrown, acked  \* the outbox, as its contract has it

memberVars == <<choosing, checkout, left>>
agreementVars == <<agreement, writer>>
stripeVars == <<sub, emitted>>
runVars == <<job, saw, overtaken>>
outboxVars == <<promise, charged, thrown, acked>>
vars == <<agreement, writer, choosing, checkout, left, sub, emitted, inbox, processed,
          job, saw, overtaken, promise, charged, thrown, acked>>

OutboxJobs == INSTANCE OutboxContract WITH Key <- Job

AgreementState == {"none", "zero", "cash_pending", "cash_recorded", "stripe_pending",
                   "stripe_active", "stripe_past_due", "cancelled", "refunded"}
SubStatus == {"absent", "active", "past_due", "canceled"}
EventKind == {"status", "deleted", "refunded", "partial"}
Nothing == [kind |-> "none"]

TypeOK ==
  /\ agreement \in AgreementState
  /\ writer \in {"choice", "receipt", "projection", "overtaken", "offboarding"}
  /\ choosing \in BOOLEAN
  /\ checkout \in BOOLEAN
  /\ left \in BOOLEAN
  /\ sub \in [Sub -> SubStatus]
  /\ emitted \in [Event -> [kind : EventKind, of : Sub] \union {Nothing}]
  /\ processed \subseteq inbox
  /\ inbox \subseteq {e \in Event : emitted[e] # Nothing}
  /\ job \in [Runner -> Job \union {NoJob}]
  /\ saw \in [Runner -> SubStatus]
  /\ overtaken \subseteq Runner
  /\ promise \in [Job -> {"none", "owed", "kept", "givenUp"}]

Init ==
  /\ agreement = "none"
  /\ writer = "choice"
  /\ choosing = FALSE
  /\ checkout = FALSE
  /\ left = FALSE
  /\ sub = [s \in Sub |-> "absent"]
  /\ emitted = [e \in Event |-> Nothing]
  /\ inbox = {}
  /\ processed = {}
  /\ job = [r \in Runner |-> NoJob]
  /\ saw = [r \in Runner |-> "absent"]
  /\ overtaken = {}
  /\ OutboxJobs!Init

Write(state, who) == agreement' = state /\ writer' = who

----------------------------------------------------------------------------
(* The member and the finance desk.                                         *)

\* The contribution page's transaction reads the membership.
OpenChoice ==
  /\ ~choosing
  /\ ~left
  /\ choosing' = TRUE
  /\ UNCHANGED <<agreementVars, checkout, left, stripeVars, inbox, processed, runVars, outboxVars>>

\* A card choice opens a Checkout session, unless Stripe refuses; no other one does.
StartCheckout(state) ==
  \/ UNCHANGED checkout
  \/ state = "stripe_pending" /\ checkout' = TRUE

\* It upserts the agreement whatever its state, and commits; Checkout comes after.
CommitChoice(state) ==
  /\ choosing
  /\ choosing' = FALSE
  /\ Write(state, "choice")
  /\ StartCheckout(state)
  /\ UNCHANGED <<left, stripeVars, inbox, processed, runVars, outboxVars>>

\* A cash or check receipt, or the reversal of one, is recorded.
RecordReceipt ==
  /\ agreement = "cash_pending"
  /\ Write("cash_recorded", "receipt")
  /\ UNCHANGED <<memberVars, stripeVars, inbox, processed, runVars, outboxVars>>

\* The membership ends and the cancellation is enqueued with it.
Offboard ==
  /\ ~left
  /\ left' = TRUE
  /\ OutboxJobs!Owe(CancelBilling)
  /\ UNCHANGED <<agreementVars, choosing, checkout, stripeVars, inbox, processed, runVars>>

----------------------------------------------------------------------------
(* Stripe.                                                                  *)

Emit(kind, s) ==
  \E e \in Event :
    /\ emitted[e] = Nothing
    /\ emitted' = [emitted EXCEPT ![e] = [kind |-> kind, of |-> s]]

\* The person completes Checkout.
Subscribe(s) ==
  /\ checkout
  /\ sub[s] = "absent"
  /\ sub' = [sub EXCEPT ![s] = "active"]
  /\ checkout' = FALSE
  /\ Emit("status", s)
  /\ UNCHANGED <<agreementVars, choosing, left, inbox, processed, runVars, outboxVars>>

\* An invoice is paid or fails.
Bill(s) ==
  /\ sub[s] \in {"active", "past_due"}
  /\ \E status \in {"active", "past_due"} : sub' = [sub EXCEPT ![s] = status]
  /\ Emit("status", s)
  /\ UNCHANGED <<agreementVars, memberVars, inbox, processed, runVars, outboxVars>>

EndSubscription(s) ==
  /\ sub[s] \in {"active", "past_due"}
  /\ sub' = [sub EXCEPT ![s] = "canceled"]
  /\ Emit("deleted", s)
  /\ UNCHANGED <<agreementVars, memberVars, inbox, processed, runVars, outboxVars>>

Refund(s) ==
  /\ sub[s] # "absent"
  /\ Emit("refunded", s) \/ Emit("partial", s)
  /\ UNCHANGED <<agreementVars, memberVars, sub, inbox, processed, runVars, outboxVars>>

\* The webhook stores the event and enqueues its projection, or finds it stored.
Deliver(e) ==
  /\ emitted[e] # Nothing
  /\ e \notin inbox
  /\ inbox' = inbox \union {e}
  /\ OutboxJobs!Owe(e)
  /\ UNCHANGED <<agreementVars, memberVars, stripeVars, processed, runVars>>

----------------------------------------------------------------------------
(* The handlers.                                                            *)

\* stateForSubscriptionStatus.
StateFor(status) ==
  CASE status = "active" -> "stripe_active"
    [] status = "past_due" -> "stripe_past_due"
    [] status = "canceled" -> "cancelled"
    [] OTHER -> "stripe_pending"

\* A handler starts; the projection of a status event retrieves the subscription.
Begin(r, k) ==
  /\ job[r] = NoJob
  /\ promise[k] = "owed"
  /\ job' = [job EXCEPT ![r] = k]
  /\ saw' = [saw EXCEPT ![r] = IF k \in Event /\ emitted[k].kind = "status"
                                 THEN sub[emitted[k].of] ELSE "absent"]
  /\ UNCHANGED <<overtaken, agreementVars, memberVars, stripeVars, inbox, processed, outboxVars>>

Done(r) ==
  /\ job' = [job EXCEPT ![r] = NoJob]
  /\ saw' = [saw EXCEPT ![r] = "absent"]

\* The projection's own write, or one that another's has overtaken.
WriteBy(r, state) ==
  Write(state, IF r \in overtaken THEN "overtaken" ELSE "projection")

\* Mutation: the write forgets that a refund stands.
WriteUnguarded(r, state) ==
  IF agreement # "none" THEN WriteBy(r, state) ELSE UNCHANGED agreementVars

\* The guarded write, which matches no row when there is none or it is refunded.
WriteUnlessRefunded(r, state) ==
  IF agreement \notin {"none", "refunded"}
    THEN WriteBy(r, state) ELSE UNCHANGED agreementVars

\* Mutation: the projection trusts an event's own order and never looks again.
ProjectionFromPayload(r, event) ==
  CASE event.kind = "status" -> WriteUnlessRefunded(r, "stripe_active")
    [] event.kind = "deleted" -> WriteUnlessRefunded(r, "cancelled")
    [] event.kind = "refunded" /\ agreement # "none" -> WriteBy(r, "refunded")
    [] OTHER -> UNCHANGED agreementVars

\* What each kind of event does to the agreement.
Projection(r, event) ==
  CASE event.kind = "status" -> WriteUnlessRefunded(r, StateFor(saw[r]))
    [] event.kind = "deleted" -> WriteUnlessRefunded(r, "cancelled")
    [] event.kind = "refunded" /\ agreement # "none" -> WriteBy(r, "refunded")
    [] OTHER -> UNCHANGED agreementVars

\* The projection writes the agreement and the inbox row's stamp, and commits.
Project(r) ==
  /\ job[r] \in Event
  /\ Projection(r, emitted[job[r]])
  /\ processed' = processed \union {job[r]}
  /\ OutboxJobs!Acknowledge(job[r])
  /\ Done(r)
  /\ overtaken' = {q \in Runner \ {r} : job[q] # NoJob}
  /\ UNCHANGED <<memberVars, stripeVars, inbox>>

\* cancelBillingHandler.
Cancel(r) ==
  /\ job[r] = CancelBilling
  /\ IF agreement \notin {"none", "cancelled"}
       THEN Write("cancelled", "offboarding") ELSE UNCHANGED agreementVars
  /\ OutboxJobs!Acknowledge(CancelBilling)
  /\ Done(r)
  /\ overtaken' = overtaken \ {r}
  /\ UNCHANGED <<memberVars, stripeVars, inbox, processed>>

\* Stripe or the database fails, and the transaction is rolled back.
RunThrows(r) ==
  /\ job[r] # NoJob
  /\ thrown[job[r]] < MaxAttempts
  /\ Cardinality({k \in Job : thrown[k] > 0} \union {job[r]}) <= MaxThrowing
  /\ OutboxJobs!Throw(job[r])
  /\ Done(r)
  /\ overtaken' = overtaken \ {r}
  /\ UNCHANGED <<agreementVars, memberVars, stripeVars, inbox, processed>>

\* The worker dies, or its database connection does.
RunLost(r) ==
  /\ job[r] # NoJob
  /\ Done(r)
  /\ overtaken' = overtaken \ {r}
  /\ UNCHANGED <<agreementVars, memberVars, stripeVars, inbox, processed, outboxVars>>

\* The dispatcher records a result.
Settle(k) ==
  /\ OutboxJobs!Keep(k) \/ OutboxJobs!Charge(k)
  /\ UNCHANGED <<agreementVars, memberVars, stripeVars, inbox, processed, runVars>>

----------------------------------------------------------------------------
Member ==
  \/ OpenChoice
  \/ \E state \in {"zero", "cash_pending", "stripe_pending"} : CommitChoice(state)
  \/ RecordReceipt
  \/ Offboard

Stripe == \E s \in Sub : Subscribe(s) \/ Bill(s) \/ EndSubscription(s) \/ Refund(s)

Handle(r) ==
  \/ \E k \in Job : Begin(r, k)
  \/ Project(r)
  \/ Cancel(r)
  \/ RunThrows(r)
  \/ RunLost(r)

Next ==
  \/ Member
  \/ Stripe
  \/ \E e \in Event : Deliver(e)
  \/ \E r \in Runner : Handle(r)
  \/ \E k \in Job : Settle(k)

Spec == Init /\ [][Next]_vars

----------------------------------------------------------------------------
(* Properties.                                                              *)

\* Stripe is quiet and everything it emitted has been projected.
Quiet ==
  /\ \A e \in Event : emitted[e] # Nothing => promise[e] = "kept"
  /\ \A r \in Runner : job[r] = NoJob

\* Whatever the order of delivery and however often each event is projected,
\* when Stripe is quiet the agreement is where the person's one subscription is,
\* unless a refund stands, or the last writer was another one or a projection
\* that another projection had overtaken (project.ts, "this is what makes
\* reverse-order delivery CONVERGE").
Converges ==
  Quiet /\ writer = "projection" =>
    \/ agreement = "refunded"
    \/ \A s \in Sub : agreement = StateFor(sub[s])

\* No projection, late, repeated or overtaken, moves a refunded agreement: only
\* a new choice or offboarding does (project.ts, "REFUNDED IS ABSORBING").
RefundOutlastsEvents ==
  [][agreement = "refunded" /\ agreement' # "refunded" =>
       writer' \in {"choice", "offboarding"}]_vars

\* What project.ts says of reverse-order delivery, that it converges "instead of
\* resurrecting a cancelled contribution": once the only subscription is
\* cancelled and every event projected, the agreement is cancelled or refunded.
NoResurrection ==
  Quiet /\ writer \in {"projection", "overtaken"} /\ (\A s \in Sub : sub[s] = "canceled")
    => agreement \in {"cancelled", "refunded"}
=============================================================================
