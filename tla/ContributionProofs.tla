------------------------- MODULE ContributionProofs -------------------------
(***************************************************************************)
(* Proofs about Contribution for any number of events, handlers and         *)
(* attempts: that events converge, for a person with one subscription, and  *)
(* that none of them undoes a refund.  What carries the first is what is    *)
(* still owed: wherever a projection has left the agreement behind the      *)
(* subscription, an event of the change waits to be projected.              *)
(*                                                                         *)
(* And about Receipts, for any number of actors, requests, forms and        *)
(* figures: what is answered to a form is true of the rows, a repeat is     *)
(* called a conflict only where the code means it, and the net comes to     *)
(* what was paid.  All rest on the keys: of one operation there is one row  *)
(* of each part.                                                            *)
(***************************************************************************)
EXTENDS Contribution, Receipts, SequenceTheorems, DataLemmas

-----------------------------------------------------------------------------
(* The inductive invariant, in parts.                                       *)

\* A job that was acknowledged was owed, one that is kept was acknowledged; an event
\* that is owed was delivered, and one that is handled was emitted.
JobInv ==
  /\ acked \subseteq Job
  /\ \A k \in Job : /\ promise[k] = "kept" => k \in acked
                    /\ k \in acked => promise[k] # "none"
  /\ \A e \in Event : promise[e] # "none" => e \in inbox
  /\ \A r \in Runner : job[r] \in Event => emitted[job[r]] # Nothing

\* A subscription's deletion is its last change.
DeletedInv ==
  \A e \in Event : emitted[e].kind = "deleted" => \A s \in Sub : sub[s] = "canceled"

\* Events of a change that were not projected yet.
Owed == {e \in Event \ acked : emitted[e].kind \in {"status", "deleted"}}

\* A handler that has retrieved a status which is not the present one is overtaken,
\* or the event of the change is still owed.
StaleInv ==
  \A r \in Runner, s \in Sub :
    job[r] \in Event /\ r \notin overtaken /\ saw[r] # sub[s]
      => \/ emitted[job[r]].kind # "status"
         \/ Owed \ {job[r]} # {}

\* What a projection has left behind the subscription is owed an event.
BehindInv ==
  /\ agreement = "none" => writer = "choice"
  /\ \A s \in Sub :
       writer = "projection" /\ agreement \notin {"refunded", StateFor(sub[s])} => Owed # {}

IInv == TypeOK /\ JobInv /\ DeletedInv /\ StaleInv /\ BehindInv

\* The one subscription of the person.
OneSub == \A s, t \in Sub : s = t

LEMMA InitIsInvariant == ASSUME Init PROVE IInv
<1> USE DEF Init, OutboxJobs!Init
<1>1. TypeOK
  BY DEF TypeOK, AgreementState, SubStatus
<1>2. JobInv
  BY ContributionAssumption DEF JobInv, Job
<1>3. DeletedInv
  BY DEF DeletedInv, Nothing
<1>4. StaleInv /\ BehindInv
  BY ContributionAssumption DEF StaleInv, BehindInv
<1> QED BY <1>1, <1>2, <1>3, <1>4 DEF IInv

-----------------------------------------------------------------------------
(* The member, the finance desk and offboarding.                            *)

\* A step of which neither Stripe nor a handler nor a job knows anything.
LEMMA WritesKeep ==
  ASSUME IInv, TypeOK', agreement' # "none", writer' # "projection",
         UNCHANGED <<stripeVars, inbox, processed, runVars, outboxVars>>
  PROVE  IInv'
BY DEF IInv, JobInv, DeletedInv, StaleInv, BehindInv, Owed, stripeVars, runVars, outboxVars

LEMMA OpenChoiceKeeps == ASSUME IInv, OpenChoice PROVE IInv'
BY DEF OpenChoice, IInv, TypeOK, JobInv, DeletedInv, StaleInv, BehindInv, Owed, agreementVars,
       stripeVars, runVars, outboxVars

LEMMA CommitChoiceKeeps ==
  ASSUME IInv, NEW state \in {"zero", "cash_pending", "stripe_pending"}, CommitChoice(state)
  PROVE  IInv'
<1>1. TypeOK'
  BY DEF CommitChoice, StartCheckout, Write, IInv, TypeOK, AgreementState, stripeVars, runVars,
         outboxVars
<1> QED BY <1>1, WritesKeep DEF CommitChoice, Write

LEMMA RecordReceiptKeeps == ASSUME IInv, RecordReceipt PROVE IInv'
<1>1. TypeOK'
  BY DEF RecordReceipt, Write, IInv, TypeOK, AgreementState, memberVars, stripeVars, runVars,
         outboxVars
<1> QED BY <1>1, WritesKeep DEF RecordReceipt, Write

LEMMA OffboardKeeps == ASSUME IInv, Offboard PROVE IInv'
<1> USE DEF Offboard, OutboxJobs!Owe, agreementVars, stripeVars, runVars
<1>1. TypeOK'
  BY DEF IInv, TypeOK
<1>2. JobInv'
  BY ContributionAssumption DEF IInv, TypeOK, JobInv, Job
<1>3. DeletedInv' /\ StaleInv' /\ BehindInv'
  BY DEF IInv, DeletedInv, StaleInv, BehindInv, Owed
<1> QED BY <1>1, <1>2, <1>3 DEF IInv

-----------------------------------------------------------------------------
(* Stripe.                                                                  *)

\* An event that is emitted is owed, and is not what any handler is running.
LEMMA EmittedIsOwed ==
  ASSUME IInv, NEW kind \in EventKind, NEW s \in Sub, Emit(kind, s), UNCHANGED <<job, acked>>
  PROVE  /\ emitted' \in [Event -> [kind : EventKind, of : Sub] \union {Nothing}]
         /\ \A d \in Event : emitted[d] # Nothing => emitted'[d] = emitted[d]
         /\ \A d \in Event : emitted'[d] # emitted[d] => emitted'[d].kind = kind
         /\ Owed \subseteq Owed'
         /\ kind \in {"status", "deleted"} => Owed' # {} /\ \A r \in Runner : Owed' \ {job[r]} # {}
<1>1. PICK e \in Event : /\ emitted[e] = Nothing
                         /\ emitted' = [emitted EXCEPT ![e] = [kind |-> kind, of |-> s]]
  BY DEF Emit
<1>2. [kind |-> kind, of |-> s] # Nothing
  BY DEF EventKind, Nothing
<1>3. emitted' \in [Event -> [kind : EventKind, of : Sub] \union {Nothing}]
  BY <1>1 DEF IInv, TypeOK
<1>4. emitted'[e].kind = kind /\ \A d \in Event : d # e => emitted'[d] = emitted[d]
  BY <1>1 DEF IInv, TypeOK
<1>5. e \notin acked /\ \A r \in Runner : job[r] # e
  BY <1>1 DEF IInv, TypeOK, JobInv, Job
<1>6. Owed \subseteq Owed'
  BY <1>1, <1>4 DEF Owed, Nothing
<1>7. kind \in {"status", "deleted"} => e \in Owed'
  BY <1>4, <1>5 DEF Owed
<1> QED BY <1>1, <1>3, <1>4, <1>5, <1>6, <1>7

\* A change of the subscription, and its event.
LEMMA ChangeKeeps ==
  ASSUME IInv, OneSub, NEW s \in Sub, NEW status \in SubStatus, NEW kind \in {"status", "deleted"},
         sub' = [sub EXCEPT ![s] = status], Emit(kind, s),
         sub[s] # "canceled", kind = "deleted" => status = "canceled",
         checkout' \in BOOLEAN,
         UNCHANGED <<agreementVars, choosing, left, inbox, processed, runVars, outboxVars>>
  PROVE  IInv'
<1> USE DEF agreementVars, runVars, outboxVars
<1>1. /\ emitted' \in [Event -> [kind : EventKind, of : Sub] \union {Nothing}]
      /\ \A d \in Event : emitted[d] # Nothing => emitted'[d] = emitted[d]
      /\ \A d \in Event : emitted'[d] # emitted[d] => emitted'[d].kind = kind
      /\ Owed' # {} /\ \A r \in Runner : Owed' \ {job[r]} # {}
  BY EmittedIsOwed DEF EventKind
<1>2. \A e \in Event : emitted[e] # Nothing => emitted'[e] # Nothing
  BY <1>1
<1>3. TypeOK'
  BY <1>1, <1>2 DEF IInv, TypeOK
<1>4. JobInv'
  BY <1>2 DEF IInv, JobInv
<1>5. DeletedInv'
  BY <1>1 DEF IInv, TypeOK, DeletedInv, OneSub
<1>6. StaleInv' /\ BehindInv'
  BY <1>1 DEF IInv, StaleInv, BehindInv
<1> QED BY <1>3, <1>4, <1>5, <1>6 DEF IInv

LEMMA RefundKeeps == ASSUME IInv, NEW s \in Sub, Refund(s) PROVE IInv'
<1> USE DEF Refund, agreementVars, memberVars, runVars, outboxVars
<1>1. PICK kind \in {"refunded", "partial"} : Emit(kind, s)
  OBVIOUS
<1>2. /\ emitted' \in [Event -> [kind : EventKind, of : Sub] \union {Nothing}]
      /\ \A d \in Event : emitted[d] # Nothing => emitted'[d] = emitted[d]
      /\ \A d \in Event : emitted'[d] # emitted[d] => emitted'[d].kind = kind
      /\ Owed \subseteq Owed'
  BY <1>1, EmittedIsOwed DEF EventKind
<1>3. \A e \in Event : emitted[e] # Nothing => emitted'[e] # Nothing
  BY <1>2
<1>4. TypeOK'
  BY <1>2, <1>3 DEF IInv, TypeOK
<1>5. JobInv'
  BY <1>3 DEF IInv, JobInv
<1>6. DeletedInv'
  BY <1>2 DEF IInv, DeletedInv
<1>7. StaleInv'
  BY <1>2 DEF IInv, StaleInv, JobInv
<1>8. BehindInv'
  BY <1>2 DEF IInv, BehindInv
<1> QED BY <1>4, <1>5, <1>6, <1>7, <1>8 DEF IInv

LEMMA StripeKeeps == ASSUME IInv, OneSub, NEW s \in Sub,
                            Subscribe(s) \/ Bill(s) \/ EndSubscription(s) \/ Refund(s)
                     PROVE  IInv'
<1>1. CASE Subscribe(s)
  BY <1>1, ChangeKeeps DEF Subscribe, SubStatus
<1>2. CASE Bill(s)
  <2>1. PICK status \in {"active", "past_due"} : sub' = [sub EXCEPT ![s] = status]
    BY <1>2 DEF Bill
  <2>2. checkout' \in BOOLEAN
    BY <1>2 DEF Bill, memberVars, IInv, TypeOK
  <2> QED BY <1>2, <2>1, <2>2, ChangeKeeps DEF Bill, SubStatus, memberVars
<1>3. CASE EndSubscription(s)
  <2>1. checkout' \in BOOLEAN
    BY <1>3 DEF EndSubscription, memberVars, IInv, TypeOK
  <2> QED BY <1>3, <2>1, ChangeKeeps DEF EndSubscription, SubStatus, memberVars
<1> QED BY <1>1, <1>2, <1>3, RefundKeeps

LEMMA DeliverKeeps == ASSUME IInv, NEW e \in Event, Deliver(e) PROVE IInv'
<1> USE DEF Deliver, OutboxJobs!Owe, agreementVars, memberVars, stripeVars, runVars
<1>1. TypeOK'
  BY DEF IInv, TypeOK
<1>2. JobInv'
  BY DEF IInv, TypeOK, JobInv, Job
<1>3. DeletedInv' /\ StaleInv' /\ BehindInv'
  BY DEF IInv, DeletedInv, StaleInv, BehindInv, Owed
<1> QED BY <1>1, <1>2, <1>3 DEF IInv

-----------------------------------------------------------------------------
(* The handlers.                                                            *)

LEMMA BeginKeeps == ASSUME IInv, OneSub, NEW r \in Runner, NEW k \in Job, Begin(r, k) PROVE IInv'
<1> USE DEF Begin, agreementVars, memberVars, stripeVars, outboxVars
<1>1. k \in Event => emitted[k] \in [kind : EventKind, of : Sub]
  BY DEF IInv, TypeOK, JobInv
<1>2. TypeOK'
  BY <1>1 DEF IInv, TypeOK, SubStatus
<1>3. JobInv'
  BY DEF IInv, TypeOK, JobInv
<1>4. StaleInv'
  <2>1. \A q \in Runner : q # r => job'[q] = job[q] /\ saw'[q] = saw[q]
    OBVIOUS
  <2>2. k \in Event /\ emitted[k].kind = "status" => \A s \in Sub : saw'[r] = sub[s]
    BY <1>1 DEF IInv, TypeOK, OneSub
  <2>3. job'[r] = k
    BY DEF IInv, TypeOK
  <2> QED BY <2>1, <2>2, <2>3 DEF IInv, StaleInv, Owed
<1>5. DeletedInv' /\ BehindInv'
  BY DEF IInv, DeletedInv, BehindInv, Owed
<1> QED BY <1>2, <1>3, <1>4, <1>5 DEF IInv

\* What a projection writes, if it does.
LEMMA ProjectionWrites ==
  ASSUME NEW r \in Runner, NEW event \in [kind : EventKind, of : Sub], Projection(r, event)
  PROVE  \/ /\ agreement' = agreement /\ writer' = writer
            /\ event.kind \in {"status", "deleted"} => agreement \in {"none", "refunded"}
         \/ /\ event.kind \in {"status", "deleted", "refunded"}
            /\ agreement' = (IF event.kind = "status" THEN StateFor(saw[r])
                             ELSE IF event.kind = "deleted" THEN "cancelled" ELSE "refunded")
            /\ writer' = (IF r \in overtaken THEN "overtaken" ELSE "projection")
<1>1. CASE event.kind = "status"
  BY <1>1 DEF Projection, WriteUnlessRefunded, WriteBy, Write, agreementVars
<1>2. CASE event.kind = "deleted"
  BY <1>2 DEF Projection, WriteUnlessRefunded, WriteBy, Write, agreementVars
<1>3. CASE event.kind \in {"refunded", "partial"}
  BY <1>3 DEF Projection, WriteBy, Write, agreementVars
<1> QED BY <1>1, <1>2, <1>3 DEF EventKind

LEMMA ProjectKeeps == ASSUME IInv, OneSub, NEW r \in Runner, Project(r) PROVE IInv'
<1> DEFINE e == job[r]
           event == emitted[e]
<1>1. /\ e \in Event /\ Projection(r, event)
      /\ processed' = processed \union {e}
      /\ promise[e] # "none" /\ acked' = acked \union {e}
      /\ UNCHANGED <<promise, charged, thrown>>
      /\ job' = [job EXCEPT ![r] = NoJob] /\ saw' = [saw EXCEPT ![r] = "absent"]
      /\ overtaken' = {q \in Runner \ {r} : job[q] # NoJob}
      /\ UNCHANGED <<choosing, checkout, left, sub, emitted, inbox>>
  BY DEF Project, Done, OutboxJobs!Acknowledge, memberVars, stripeVars
<1>2. event \in [kind : EventKind, of : Sub] /\ event # Nothing
  BY <1>1 DEF IInv, TypeOK, JobInv
<1>3. /\ Owed \ {e} = Owed'
      /\ event.kind \notin {"status", "deleted"} => Owed' = Owed
  BY <1>1 DEF Owed
<1>4. StateFor(saw[r]) \in AgreementState \ {"none"}
  BY DEF StateFor, AgreementState
<1> HIDE DEF e, event
<1>5. \/ /\ agreement' = agreement /\ writer' = writer
         /\ event.kind \in {"status", "deleted"} => agreement \in {"none", "refunded"}
      \/ /\ event.kind \in {"status", "deleted", "refunded"}
         /\ agreement' = (IF event.kind = "status" THEN StateFor(saw[r])
                          ELSE IF event.kind = "deleted" THEN "cancelled" ELSE "refunded")
         /\ writer' = (IF r \in overtaken THEN "overtaken" ELSE "projection")
  BY <1>1, <1>2, ProjectionWrites
<1>6. TypeOK'
  <2>1. processed' \subseteq inbox'
    BY <1>1 DEF IInv, TypeOK, JobInv
  <2>2. agreement' \in AgreementState
    BY <1>4, <1>5 DEF IInv, TypeOK, AgreementState
  <2>3. writer' \in {"choice", "receipt", "projection", "overtaken", "offboarding"}
    BY <1>5 DEF IInv, TypeOK
  <2> QED BY <1>1, <2>1, <2>2, <2>3 DEF IInv, TypeOK, SubStatus
<1>7. JobInv'
  BY <1>1, ContributionAssumption DEF IInv, TypeOK, JobInv, Job
<1>8. DeletedInv'
  BY <1>1 DEF IInv, DeletedInv
<1>9. StaleInv'
  BY <1>1, ContributionAssumption DEF IInv, TypeOK, StaleInv
<1>10. BehindInv'
  <2>1. CASE agreement' = agreement /\ writer' = writer
             /\ (event.kind \in {"status", "deleted"} => agreement \in {"none", "refunded"})
    BY <1>1, <1>3, <2>1 DEF IInv, BehindInv
  <2>2. CASE event.kind = "status" /\ agreement' = StateFor(saw[r])
             /\ writer' = (IF r \in overtaken THEN "overtaken" ELSE "projection")
    <3>1. \A s \in Sub : r \notin overtaken /\ saw[r] # sub[s] => Owed \ {e} # {}
      BY <1>1, <2>2 DEF IInv, StaleInv, e, event
    <3> QED BY <1>1, <1>3, <1>4, <2>2, <3>1 DEF BehindInv
  <2>3. CASE event.kind = "deleted" /\ agreement' = "cancelled"
    <3>1. \A s \in Sub : StateFor(sub[s]) = "cancelled"
      BY <1>1, <2>3 DEF IInv, DeletedInv, StateFor, event
    <3> QED BY <1>1, <2>3, <3>1 DEF BehindInv
  <2>4. CASE event.kind = "refunded" /\ agreement' = "refunded"
    BY <2>4 DEF BehindInv
  <2> QED BY <1>5, <2>1, <2>2, <2>3, <2>4
<1> QED BY <1>6, <1>7, <1>8, <1>9, <1>10 DEF IInv

LEMMA CancelKeeps == ASSUME IInv, NEW r \in Runner, Cancel(r) PROVE IInv'
<1>1. /\ job[r] = CancelBilling /\ promise[CancelBilling] # "none"
      /\ \/ agreement' = "cancelled" /\ writer' = "offboarding"
         \/ UNCHANGED <<agreement, writer>>
      /\ acked' = acked \union {CancelBilling}
      /\ job' = [job EXCEPT ![r] = NoJob] /\ saw' = [saw EXCEPT ![r] = "absent"]
      /\ overtaken' = overtaken \ {r}
      /\ UNCHANGED <<choosing, checkout, left, sub, emitted, inbox, processed, promise,
                     charged, thrown>>
  BY DEF Cancel, Write, Done, OutboxJobs!Acknowledge, agreementVars, memberVars, stripeVars
<1>2. TypeOK'
  BY <1>1 DEF IInv, TypeOK, AgreementState, SubStatus
<1>3. JobInv'
  BY <1>1, ContributionAssumption DEF IInv, TypeOK, JobInv, Job
<1>4. Owed' = Owed
  BY <1>1, ContributionAssumption DEF Owed
<1>5. DeletedInv' /\ BehindInv'
  BY <1>1, <1>4 DEF IInv, DeletedInv, BehindInv
<1>6. StaleInv'
  BY <1>1, <1>4, ContributionAssumption DEF IInv, TypeOK, StaleInv
<1> QED BY <1>2, <1>3, <1>5, <1>6 DEF IInv

LEMMA RunEndsKeeps == ASSUME IInv, NEW r \in Runner, RunThrows(r) \/ RunLost(r) PROVE IInv'
<1>1. /\ job' = [job EXCEPT ![r] = NoJob] /\ saw' = [saw EXCEPT ![r] = "absent"]
      /\ overtaken' = overtaken \ {r}
      /\ UNCHANGED <<agreement, writer, choosing, checkout, left, sub, emitted, inbox, processed,
                     promise, acked>>
  BY DEF RunThrows, RunLost, Done, OutboxJobs!Throw, agreementVars, memberVars,
         stripeVars, outboxVars
<1>2. TypeOK'
  BY <1>1 DEF IInv, TypeOK, SubStatus
<1>3. JobInv'
  BY <1>1, ContributionAssumption DEF IInv, TypeOK, JobInv, Job
<1>4. DeletedInv' /\ BehindInv'
  BY <1>1 DEF IInv, DeletedInv, BehindInv, Owed
<1>5. StaleInv'
  BY <1>1, ContributionAssumption DEF IInv, TypeOK, StaleInv, Owed
<1> QED BY <1>2, <1>3, <1>4, <1>5 DEF IInv

LEMMA SettleKeeps == ASSUME IInv, NEW k \in Job, Settle(k) PROVE IInv'
<1>1. /\ promise[k] = "owed"
      /\ \/ promise' = [promise EXCEPT ![k] = "kept"] /\ k \in acked
         \/ promise' = [promise EXCEPT ![k] = "givenUp"]
         \/ promise' = [promise EXCEPT ![k] = "owed"]
      /\ UNCHANGED <<agreement, writer, choosing, checkout, left, sub, emitted, inbox, processed,
                     job, saw, overtaken, acked>>
  BY DEF Settle, OutboxJobs!Keep, OutboxJobs!Charge, agreementVars, memberVars, stripeVars, runVars
<1>2. TypeOK'
  BY <1>1 DEF IInv, TypeOK
<1>3. JobInv'
  <2>1. promise \in [Job -> {"none", "owed", "kept", "givenUp"}] /\ JobInv
    BY DEF IInv, TypeOK
  <2>2. ASSUME NEW d \in Job, promise'[d] # "none" PROVE promise[d] # "none"
    BY <1>1, <2>1, <2>2
  <2>3. ASSUME NEW d \in Job, promise[d] # "none" PROVE promise'[d] # "none"
    BY <1>1, <2>1, <2>3
  <2>4. ASSUME NEW d \in Job, promise'[d] = "kept" PROVE d \in acked
    BY <1>1, <2>1, <2>4 DEF JobInv
  <2>5. ASSUME NEW e \in Event, promise'[e] # "none" PROVE e \in inbox
    <3>1. e \in Job
      BY DEF Job
    <3>2. promise[e] # "none"
      BY <2>2, <2>5, <3>1
    <3> QED BY <2>1, <3>2 DEF JobInv
  <2>6. /\ acked' \subseteq Job
        /\ \A r \in Runner : job'[r] \in Event => emitted'[job'[r]] # Nothing
    BY <1>1, <2>1 DEF JobInv
  <2>7. ASSUME NEW d \in Job, d \in acked' PROVE promise'[d] # "none"
    BY <1>1, <2>1, <2>3, <2>7 DEF JobInv
  <2> QED BY <1>1, <2>4, <2>5, <2>6, <2>7 DEF JobInv
<1>4. DeletedInv' /\ StaleInv' /\ BehindInv'
  BY <1>1 DEF IInv, DeletedInv, StaleInv, BehindInv, Owed
<1> QED BY <1>2, <1>3, <1>4 DEF IInv

LEMMA StepKeeps == ASSUME IInv, OneSub, [Next]_vars PROVE IInv'
<1>1. CASE UNCHANGED vars
  BY <1>1 DEF vars, IInv, TypeOK, JobInv, DeletedInv, StaleInv, BehindInv, Owed
<1>2. CASE Next
  BY <1>2, OpenChoiceKeeps, CommitChoiceKeeps, RecordReceiptKeeps, OffboardKeeps, StripeKeeps,
     DeliverKeeps, BeginKeeps, ProjectKeeps, CancelKeeps, RunEndsKeeps, SettleKeeps
     DEF Next, Member, Stripe, Handle
<1> QED BY <1>1, <1>2

-----------------------------------------------------------------------------
(* The theorems.                                                            *)

\* For a person with one subscription, types, jobs and what is owed hold together
\* in any order of deliveries, projections and failures.
THEOREM ContributionInductive == ASSUME OneSub PROVE Spec => []IInv
<1>1. Init => IInv
  BY InitIsInvariant
<1>2. IInv /\ [Next]_vars => IInv'
  BY StepKeeps
<1> QED BY <1>1, <1>2, PTL DEF Spec

\* When Stripe is quiet and everything is projected, the agreement is where the one
\* subscription is, unless the last projection was overtaken or a refund stands.
THEOREM EventsConverge == ASSUME OneSub PROVE Spec => []Converges
<1>1. ASSUME IInv, Quiet, writer = "projection", agreement # "refunded", NEW s \in Sub
      PROVE  agreement = StateFor(sub[s])
  <2>1. Owed = {}
    BY <1>1 DEF Owed, Quiet, IInv, JobInv, Nothing, Job
  <2> QED BY <1>1, <2>1 DEF IInv, BehindInv
<1>2. IInv => Converges
  BY <1>1 DEF Converges
<1> QED BY <1>2, ContributionInductive, PTL

\* No event moves a refunded agreement, with however many subscriptions.
THEOREM RefundStands == Spec => RefundOutlastsEvents
<1>1. ASSUME Next, agreement = "refunded", agreement' # "refunded"
      PROVE  writer' \in {"choice", "offboarding"}
  <2>1. CASE Member
    BY <1>1, <2>1 DEF Member, OpenChoice, CommitChoice, RecordReceipt, Offboard, Write,
                      agreementVars
  <2>2. CASE Stripe \/ (\E e \in Event : Deliver(e)) \/ \E k \in Job : Settle(k)
    BY <1>1, <2>2 DEF Stripe, Subscribe, Bill, EndSubscription, Refund, Deliver, Settle,
                      agreementVars
  <2>3. CASE \E r \in Runner : Handle(r)
    BY <1>1, <2>3 DEF Handle, Begin, Project, Projection, WriteUnlessRefunded, WriteBy, Cancel,
                      RunThrows, RunLost, Write, agreementVars
  <2> QED BY <1>1, <2>1, <2>2, <2>3 DEF Next
<1>2. [Next]_vars => (agreement = "refunded" /\ agreement' # "refunded"
                       => writer' \in {"choice", "offboarding"})
  BY <1>1 DEF vars
<1> QED BY <1>2, PTL DEF Spec, RefundOutlastsEvents

-----------------------------------------------------------------------------
(* Receipts: the inductive invariant, in parts.                             *)

Posted == [pc : {"recording", "replacing"}, op : Nat, amount : Amount, rail : Rail]

Written == [op : Nat, part : Part, rail : Rail, amount : Amount, reverses : Nat]

RowsOK ==
  /\ terms \in [state : State, rail : Rail \union {NoRail}]
  /\ rows \in Seq(Written)
  /\ forms \in Seq(Form)
  /\ choices \in Nat
  /\ request \in [Request -> {Idle} \union Posted]

\* A form corrects a row that is there, if any.
FormInv == \A op \in DOMAIN forms : forms[op].of # 0 => forms[op].of \in Id

\* A request posts a form, and what it has read fits: a correction has the rail of
\* the receipt it corrects.
RequestInv ==
  \A r \in Request : request[r] # Idle =>
    LET q == request[r]
    IN  /\ q.op \in DOMAIN forms /\ q.amount \in Amount /\ q.rail \in Rail
        /\ \/ q.pc = "recording" /\ forms[q.op].of = 0
           \/ q.pc = "replacing" /\ forms[q.op].of # 0 /\ q.rail = rows[forms[q.op].of].rail

\* A row is that of a form; a reversal is followed by its replacement, which has the
\* rail of the receipt that both correct.
RowInv(i) ==
  /\ rows[i].op \in DOMAIN forms
  /\ rows[i].part = "record" <=> forms[rows[i].op].of = 0
  /\ rows[i].part # "reverse" => rows[i].reverses = 0
  /\ rows[i].part = "reverse" => Standing(rows[i].op, "replacement") # {}
  /\ rows[i].part = "replacement" => rows[i].rail = rows[forms[rows[i].op].of].rail

\* It is the only one of its part.
KeyInv ==
  /\ \A i \in Id : RowInv(i)
  /\ \A i, j \in Id : rows[i].op = rows[j].op /\ rows[i].part = rows[j].part => i = j

\* Before the first choice nothing can be recorded, and before the second every
\* receipt has the rail of the agreement.
RailInv ==
  /\ choices = 0 =>
       terms.state = "other" /\ rows = <<>> /\ \A r \in Request : request[r] = Idle
  /\ choices = 1 =>
       /\ \A i \in Id : rows[i].rail = terms.rail
       /\ \A r \in Request : request[r] # Idle => request[r].rail = terms.rail

ReceiptsInv ==
  RowsOK /\ FormInv /\ RequestInv /\ KeyInv /\ RailInv /\ AnswersAreTrue /\ DuplicatesConverge

LEMMA ReceiptsInitIsInvariant == ASSUME ReceiptsInit PROVE ReceiptsInv
<1>1. RowsOK
  BY DEF ReceiptsInit, RowsOK, State
<1>2. FormInv /\ RequestInv /\ KeyInv /\ RailInv
  BY DEF ReceiptsInit, FormInv, RequestInv, KeyInv, RowInv, RailInv, Id
<1>3. AnswersAreTrue /\ DuplicatesConverge
  BY DEF ReceiptsInit, AnswersAreTrue, DuplicatesConverge, NoAnswer
<1> QED BY <1>1, <1>2, <1>3 DEF ReceiptsInv

-----------------------------------------------------------------------------
(* What the keys tell.                                                      *)

LEMMA Lengths ==
  ASSUME RowsOK
  PROVE  /\ Len(rows) \in Nat /\ Id = 1..Len(rows) /\ \A i \in Id : rows[i] \in Written
         /\ Len(forms) \in Nat /\ DOMAIN forms = 1..Len(forms)
         /\ \A op \in DOMAIN forms : forms[op] \in Form
BY LenProperties, ElementOfSeq DEF RowsOK, Id

\* One row has what a row with a figure has, and no other.
LEMMA FigureOnce ==
  ASSUME RowsOK, KeyInv, NEW i \in Id, rows[i].part # "reverse"
  PROVE  {j \in Id : /\ rows[j].op = rows[i].op
                     /\ rows[j].part # "reverse"
                     /\ rows[j].amount = rows[i].amount} = {i}
<1>1. ASSUME NEW j \in Id, rows[j].op = rows[i].op, rows[j].part # "reverse" PROVE j = i
  <2>1. rows[i].part \in Part /\ rows[j].part \in Part
    BY Lengths DEF Written
  <2>2. rows[i].part = rows[j].part
    BY <1>1, <2>1 DEF KeyInv, RowInv, Part
  <2> QED BY <1>1, <2>2 DEF KeyInv, RowInv
<1> QED BY <1>1

\* A conflict is with the row of the key, and about its rail, if the amount agrees.
LEMMA TrueConflict ==
  ASSUME RowsOK, FormInv, RequestInv, KeyInv, RailInv, NEW r \in Request, request[r] # Idle,
         NEW part \in {"record", "replacement"},
         part = "record" <=> forms[request[r].op].of = 0,
         NEW k \in Standing(request[r].op, part),
         Differs([op |-> request[r].op, part |-> part, rail |-> request[r].rail,
                  amount |-> request[r].amount, reverses |-> 0], rows[k]),
         NEW i \in Id, rows[i].op = request[r].op, rows[i].part # "reverse",
         rows[i].amount = request[r].amount
  PROVE  rows[i].part = "record" /\ rows[i].rail # request[r].rail /\ choices > 1
<1>1. rows[i].part = part /\ k = i
  <2>1. rows[i].part \in Part
    BY Lengths DEF Written
  <2>2. rows[i].part = part
    BY <2>1 DEF KeyInv, RowInv, Part
  <2> QED BY <2>2 DEF KeyInv, RowInv, Standing
<1>2. rows[i].rail # request[r].rail
  BY <1>1 DEF Differs, KeyInv, RowInv
<1>3. part = "record"
  BY <1>1, <1>2 DEF KeyInv, RowInv, RequestInv
<1>4. choices \notin {0, 1}
  BY <1>2 DEF RailInv
<1> QED BY <1>1, <1>2, <1>3, <1>4 DEF RowsOK

-----------------------------------------------------------------------------
(* The page, the agreement and the first halves.                            *)

LEMMA OfferKeeps == ASSUME ReceiptsInv, NEW a \in Actor, Offer(a) PROVE ReceiptsInv'
<1>1. PICK i \in {0} \union NetRows : forms' = Append(forms, [by |-> a, of |-> i])
  BY DEF Offer
<1>2. i \in Nat /\ (i # 0 => i \in Id)
  BY <1>1, Lengths DEF NetRows, ReceiptsInv
<1>3. /\ forms' \in Seq(Form) /\ Len(forms') = Len(forms) + 1
      /\ \A op \in DOMAIN forms : op \in DOMAIN forms' /\ forms'[op] = forms[op]
      /\ \A op \in DOMAIN forms' : op \in DOMAIN forms \/ forms'[op].of = i
  <2>1. [by |-> a, of |-> i] \in Form /\ forms \in Seq(Form)
    BY <1>2 DEF Form, ReceiptsInv, RowsOK
  <2> QED BY <1>1, <2>1, Lengths DEF ReceiptsInv
<1>4. UNCHANGED <<terms, choices, rows, request>> /\ answer' = NoAnswer
  BY DEF Offer
<1>5. RowsOK' /\ FormInv'
  BY <1>2, <1>3, <1>4 DEF ReceiptsInv, RowsOK, FormInv, Id
<1>6. RequestInv' /\ KeyInv' /\ RailInv'
  BY <1>3, <1>4 DEF ReceiptsInv, RequestInv, KeyInv, RowInv, RailInv, Id, Standing
<1>7. AnswersAreTrue' /\ DuplicatesConverge'
  BY <1>4 DEF NoAnswer, AnswersAreTrue, DuplicatesConverge
<1> QED BY <1>5, <1>6, <1>7 DEF ReceiptsInv

LEMMA ChooseKeeps ==
  ASSUME ReceiptsInv, NEW rail \in Rail \union {NoRail}, Choose(rail) PROVE ReceiptsInv'
<1>1. /\ choices' = choices + 1 /\ choices \in Nat
      /\ terms' \in [state : State, rail : Rail \union {NoRail}]
      /\ UNCHANGED <<rows, forms, request>> /\ answer' = NoAnswer
  BY DEF Choose, ReceiptsInv, RowsOK, State
<1>2. RowsOK' /\ FormInv' /\ RequestInv' /\ KeyInv'
  BY <1>1 DEF ReceiptsInv, RowsOK, FormInv, RequestInv, KeyInv, RowInv, Id, Standing
<1>3. RailInv'
  BY <1>1 DEF ReceiptsInv, RailInv, Id
<1>4. AnswersAreTrue' /\ DuplicatesConverge'
  BY <1>1 DEF NoAnswer, AnswersAreTrue, DuplicatesConverge
<1> QED BY <1>2, <1>3, <1>4 DEF ReceiptsInv

LEMMA RevokeFinanceKeeps == ASSUME ReceiptsInv, NEW a \in Actor, RevokeFinance(a) PROVE ReceiptsInv'
<1>1. UNCHANGED <<terms, choices, rows, forms, request>> /\ answer' = NoAnswer
  BY DEF RevokeFinance
<1>2. RowsOK' /\ FormInv' /\ RequestInv' /\ KeyInv' /\ RailInv'
  BY <1>1 DEF ReceiptsInv, RowsOK, FormInv, RequestInv, KeyInv, RowInv, RailInv, Id, Standing
<1>3. AnswersAreTrue' /\ DuplicatesConverge'
  BY <1>1 DEF NoAnswer, AnswersAreTrue, DuplicatesConverge
<1> QED BY <1>2, <1>3 DEF ReceiptsInv

\* A request opens with what the form and the agreement, or the receipt, give it.
LEMMA OpenKeeps ==
  ASSUME ReceiptsInv, NEW r \in Request, NEW q \in Posted, request' = [request EXCEPT ![r] = q],
         q.op \in DOMAIN forms, q.pc = "recording" <=> forms[q.op].of = 0,
         q.pc = "replacing" => q.rail = rows[forms[q.op].of].rail,
         choices # 0, choices = 1 => q.rail = terms.rail,
         UNCHANGED <<terms, choices, rows, forms>>, answer' = NoAnswer
  PROVE  ReceiptsInv'
<1>1. /\ request'[r] = q /\ \A k \in Request \ {r} : request'[k] = request[k]
      /\ q.amount \in Amount /\ q.rail \in Rail /\ q.pc \in {"recording", "replacing"}
  BY DEF ReceiptsInv, RowsOK, Posted
<1>2. RowsOK' /\ FormInv' /\ KeyInv'
  BY DEF ReceiptsInv, RowsOK, FormInv, KeyInv, RowInv, Id, Standing
<1>3. RequestInv'
  BY <1>1 DEF ReceiptsInv, RequestInv
<1>4. RailInv'
  BY <1>1 DEF ReceiptsInv, RailInv, Id
<1>5. AnswersAreTrue' /\ DuplicatesConverge'
  BY DEF NoAnswer, AnswersAreTrue, DuplicatesConverge
<1> QED BY <1>2, <1>3, <1>4, <1>5 DEF ReceiptsInv

LEMMA OpenRecordKeeps ==
  ASSUME ReceiptsInv, NEW r \in Request, NEW op \in DOMAIN forms, NEW amount \in Amount,
         OpenRecord(r, op, amount)
  PROVE  ReceiptsInv'
<1> DEFINE rail == CashCheckRail(terms)
           q == [pc |-> "recording", op |-> op, amount |-> amount, rail |-> rail]
<1>1. UNCHANGED <<terms, choices, rows, forms>> /\ answer' = NoAnswer /\ forms[op].of = 0
  BY DEF OpenRecord
<1>2. CASE UNCHANGED request
  <2>1. RowsOK' /\ FormInv' /\ RequestInv' /\ KeyInv' /\ RailInv'
    BY <1>1, <1>2 DEF ReceiptsInv, RowsOK, FormInv, RequestInv, KeyInv, RowInv, RailInv, Id, Standing
  <2>2. AnswersAreTrue' /\ DuplicatesConverge'
    BY <1>1 DEF NoAnswer, AnswersAreTrue, DuplicatesConverge
  <2> QED BY <2>1, <2>2 DEF ReceiptsInv
<1>3. CASE rail # NoRail /\ request' = [request EXCEPT ![r] = q]
  <2>1. rail = terms.rail /\ rail \in Rail /\ terms.state # "other"
    BY <1>3 DEF CashCheckRail, ReceiptsInv, RowsOK
  <2>2. choices # 0 /\ op \in Nat
    BY <2>1, Lengths DEF ReceiptsInv, RailInv
  <2>3. q \in Posted
    BY <2>1, <2>2 DEF Posted
  <2> QED BY <1>1, <1>3, <2>1, <2>2, <2>3, OpenKeeps
<1> QED BY <1>2, <1>3 DEF OpenRecord

LEMMA OpenCorrectKeeps ==
  ASSUME ReceiptsInv, NEW r \in Request, NEW op \in DOMAIN forms, NEW amount \in Amount,
         OpenCorrect(r, op, amount)
  PROVE  ReceiptsInv'
<1> DEFINE target == rows[forms[op].of]
           q == [pc |-> "replacing", op |-> op, amount |-> amount, rail |-> target.rail]
<1>1. UNCHANGED <<terms, choices, rows, forms>> /\ answer' = NoAnswer /\ forms[op].of # 0
  BY DEF OpenCorrect
<1>2. CASE UNCHANGED request
  <2>1. RowsOK' /\ FormInv' /\ RequestInv' /\ KeyInv' /\ RailInv'
    BY <1>1, <1>2 DEF ReceiptsInv, RowsOK, FormInv, RequestInv, KeyInv, RowInv, RailInv, Id, Standing
  <2>2. AnswersAreTrue' /\ DuplicatesConverge'
    BY <1>1 DEF NoAnswer, AnswersAreTrue, DuplicatesConverge
  <2> QED BY <2>1, <2>2 DEF ReceiptsInv
<1>3. CASE request' = [request EXCEPT ![r] = q]
  <2>1. forms[op].of \in Id /\ target \in Written /\ op \in Nat
    BY <1>1, Lengths DEF ReceiptsInv, FormInv
  <2>2. q \in Posted
    BY <2>1 DEF Posted, Written
  <2>3. choices # 0 /\ (choices = 1 => target.rail = terms.rail)
    BY <2>1 DEF ReceiptsInv, RailInv, Id
  <2> QED BY <1>1, <1>3, <2>2, <2>3, OpenKeeps
<1> QED BY <1>2, <1>3 DEF OpenCorrect, RailOfCorrection

-----------------------------------------------------------------------------
(* The second halves.                                                       *)

\* A request ends, and changes nothing or finds a row that has its key.
LEMMA EndKeeps ==
  ASSUME ReceiptsInv, NEW r \in Request, request' = [request EXCEPT ![r] = Idle],
         UNCHANGED <<terms, choices, rows, forms>>, AnswersAreTrue', DuplicatesConverge'
  PROVE  ReceiptsInv'
<1>1. request'[r] = Idle /\ \A k \in Request \ {r} : request'[k] = request[k]
  BY DEF ReceiptsInv, RowsOK
<1>2. RowsOK' /\ FormInv' /\ KeyInv'
  BY DEF ReceiptsInv, RowsOK, FormInv, KeyInv, RowInv, Id, Standing
<1>3. RequestInv' /\ RailInv'
  BY <1>1 DEF ReceiptsInv, RequestInv, RailInv, Id
<1> QED BY <1>2, <1>3 DEF ReceiptsInv

\* The request finds its row: the answer is true of it, or a conflict about the rail.
LEMMA FoundKeeps ==
  ASSUME ReceiptsInv, NEW r \in Request, request[r] # Idle, request' = [request EXCEPT ![r] = Idle],
         UNCHANGED <<terms, choices, rows, forms>>,
         NEW part \in {"record", "replacement"},
         part = "record" <=> forms[request[r].op].of = 0,
         NEW row,
         row = [op |-> request[r].op, part |-> part, rail |-> request[r].rail,
                amount |-> request[r].amount, reverses |-> 0],
         Standing(request[r].op, part) # {},
         Told(request[r], IF \E i \in Standing(request[r].op, part) : Differs(row, rows[i])
                            THEN "conflict" ELSE "done")
  PROVE  ReceiptsInv'
<1> DEFINE old == Standing(request[r].op, part)
<1>1. /\ answer'.op = request[r].op /\ answer'.amount = request[r].amount
      /\ answer'.rail = request[r].rail
      /\ answer'.is = IF \E i \in old : Differs(row, rows[i]) THEN "conflict" ELSE "done"
      /\ row.amount = request[r].amount
  BY DEF Told
<1>3. AnswersAreTrue'
  <2>1. CASE \E i \in old : Differs(row, rows[i])
    BY <1>1, <2>1 DEF AnswersAreTrue
  <2>2. CASE \A i \in old : ~Differs(row, rows[i])
    <3>1. PICK i \in old : ~Differs(row, rows[i])
      BY <2>2
    <3>2. /\ i \in Id /\ rows[i].part # "reverse"
          /\ rows[i].op = request[r].op /\ rows[i].amount = request[r].amount
      BY <1>1, <3>1 DEF Standing, Differs
    <3>3. {j \in Id : /\ rows[j].op = request[r].op
                      /\ rows[j].part # "reverse"
                      /\ rows[j].amount = request[r].amount} = {i}
      BY <3>2, FigureOnce DEF ReceiptsInv
    <3>4. {j \in Id : /\ rows[j].op = answer.op
                      /\ rows[j].part # "reverse"
                      /\ rows[j].amount = answer.amount}' = {i}
      BY <1>1, <3>3 DEF Id
    <3> QED BY <3>4, FS_Singleton DEF AnswersAreTrue
  <2> QED BY <2>1, <2>2
<1>4. DuplicatesConverge'
  <2>1. ASSUME answer'.is = "conflict", NEW i \in Id, rows[i].op = request[r].op,
               rows[i].part # "reverse", rows[i].amount = request[r].amount
        PROVE  rows[i].part = "record" /\ rows[i].rail # request[r].rail /\ choices > 1
    <3>1. PICK k \in old : Differs(row, rows[k])
      BY <1>1, <2>1
    <3> QED BY <2>1, <3>1, TrueConflict DEF ReceiptsInv
  <2> QED BY <1>1, <2>1 DEF DuplicatesConverge, Id
<1> QED BY <1>3, <1>4, EndKeeps

\* A request ends with rows that are new: what it inserts is the first with its keys,
\* its row is the last, and a reversal before it is of the same operation.
LEMMA InsertKeeps ==
  ASSUME ReceiptsInv, NEW r \in Request, request[r] # Idle, request' = [request EXCEPT ![r] = Idle],
         terms' = Recorded(terms), UNCHANGED <<choices, forms>>, rows' \in Seq(Written),
         NEW op, op = request[r].op, NEW part \in {"record", "replacement"},
         part = "record" <=> forms[op].of = 0,
         Standing(op, part) = {},
         NEW n \in Nat, n = Len(rows'), NEW m \in Nat, m = Len(rows),
         n = IF part = "record" THEN m + 1 ELSE m + 2,
         \A i \in Id : rows'[i] = rows[i],
         rows'[n] = [op |-> op, part |-> part, rail |-> request[r].rail,
                     amount |-> request[r].amount, reverses |-> 0],
         part = "replacement" => /\ rows'[m + 1].op = op
                                 /\ rows'[m + 1].part = "reverse"
                                 /\ rows'[m + 1].rail = request[r].rail,
         Told(request[r], "done")
  PROVE  ReceiptsInv'
<1>1. /\ request'[r] = Idle /\ \A k \in Request \ {r} : request'[k] = request[k]
      /\ Id = 1..m /\ Id' = 1..n /\ n \in Id'
      /\ \A i \in Id' : i \in Id \/ i = n \/ (part = "replacement" /\ i = m + 1)
      /\ Id \subseteq Id' /\ n \notin Id /\ m + 1 \notin Id
  <2>1. request'[r] = Idle /\ \A k \in Request \ {r} : request'[k] = request[k]
    BY DEF ReceiptsInv, RowsOK
  <2>2. Id = 1..m
    BY Lengths DEF ReceiptsInv
  <2>3. Id' = 1..n
    BY LenProperties DEF Id
  <2> QED BY <2>1, <2>2, <2>3
<1>2. /\ op \in DOMAIN forms /\ request[r].rail \in Rail
      /\ part = "replacement" => forms[op].of \in Id /\ request[r].rail = rows[forms[op].of].rail
  BY DEF ReceiptsInv, RequestInv, FormInv
<1>3. RowsOK'
  BY DEF ReceiptsInv, RowsOK, Recorded, State
<1>4. FormInv'
  BY <1>1 DEF ReceiptsInv, FormInv
<1>5. RequestInv'
  BY <1>1 DEF ReceiptsInv, RequestInv, FormInv
<1>6. \A i \in Id : rows[i].op = op => rows[i].part # part /\ rows[i].part # "reverse"
  <2>1. ASSUME NEW i \in Id, rows[i].op = op PROVE rows[i].part # part
    BY <2>1 DEF Standing
  <2>2. ASSUME NEW i \in Id, rows[i].op = op, rows[i].part = "reverse" PROVE FALSE
    <3>1. Standing(op, "replacement") # {} /\ part # "replacement" /\ forms[op].of # 0
      BY <2>2 DEF ReceiptsInv, KeyInv, RowInv
    <3> QED BY <3>1
  <2> QED BY <2>1, <2>2
<1>7. KeyInv'
  <2>1. ASSUME NEW i \in Id PROVE RowInv(i)'
    <3>1. RowInv(i) /\ rows'[i] = rows[i]
      BY DEF ReceiptsInv, KeyInv
    <3>2. forms[rows[i].op].of # 0 => forms[rows[i].op].of \in Id
      BY <3>1 DEF ReceiptsInv, FormInv, RowInv
    <3>3. rows[i].part = "replacement" => rows[i].rail = rows'[forms[rows[i].op].of].rail
      BY <3>1, <3>2 DEF RowInv, ReceiptsInv, KeyInv
    <3>4. rows[i].part = "reverse" => Standing(rows[i].op, "replacement")' # {}
      BY <1>1, <3>1 DEF RowInv, Standing
    <3> QED BY <3>1, <3>3, <3>4 DEF RowInv
  <2>2. RowInv(n)'
    <3>1. part = "replacement" => rows'[n].rail = rows'[forms[op].of].rail
      BY <1>2
    <3> QED BY <1>2, <3>1 DEF RowInv
  <2>3. ASSUME part = "replacement" PROVE RowInv(m + 1)'
    <3>1. n \in Standing(op, "replacement")'
      BY <1>1, <2>3 DEF Standing
    <3>2. (m + 1)' = m + 1
      OBVIOUS
    <3> QED BY <1>2, <2>3, <3>1, <3>2 DEF RowInv
  <2>4. ASSUME NEW i \in Id', NEW j \in Id', rows'[i].op = rows'[j].op,
               rows'[i].part = rows'[j].part
        PROVE  i = j
    <3>1. CASE i \in Id /\ j \in Id
      BY <2>4, <3>1 DEF ReceiptsInv, KeyInv
    <3>2. CASE i \notin Id \/ j \notin Id
      <4>1. \A k \in Id' \ Id : rows'[k].op = op
        BY <1>1
      <4>2. \A k \in Id' \ Id : rows'[k].part \in {part, "reverse"}
        BY <1>1
      <4>3. i \notin Id /\ j \notin Id
        BY <1>6, <2>4, <3>2, <4>1, <4>2
      <4> QED BY <1>1, <2>4, <4>3
    <3> QED BY <3>1, <3>2
  <2> QED BY <1>1, <2>1, <2>2, <2>3, <2>4 DEF KeyInv
<1>8. RailInv'
  <2>1. choices # 0 /\ terms'.rail = terms.rail
    BY DEF ReceiptsInv, RailInv, Recorded, RowsOK
  <2>2. choices = 1 => request[r].rail = terms.rail
    BY DEF ReceiptsInv, RailInv
  <2> QED BY <1>1, <2>1, <2>2 DEF ReceiptsInv, RailInv
<1>9. AnswersAreTrue'
  <2>1. /\ rows'[n].part = part /\ rows'[n].part # "reverse"
        /\ answer'.op = rows'[n].op /\ answer'.amount = rows'[n].amount
    BY DEF Told
  <2>3. {j \in Id' : /\ rows'[j].op = rows'[n].op
                     /\ rows'[j].part # "reverse"
                     /\ rows'[j].amount = rows'[n].amount} = {n}
    <3>1. ASSUME NEW j \in Id', rows'[j].op = rows'[n].op, rows'[j].part # "reverse" PROVE j = n
      <4>1. j \notin Id
        <5>1. ASSUME j \in Id PROVE FALSE
          <6>1. rows[j].part \in Part /\ RowInv(j) /\ rows'[j] = rows[j] /\ rows[j].op = op
            BY <3>1, <5>1, Lengths DEF ReceiptsInv, KeyInv, Written
          <6>2. rows[j].part = part
            BY <3>1, <6>1 DEF RowInv, Part
          <6> QED BY <1>6, <5>1, <6>1, <6>2
        <5> QED BY <5>1
      <4> QED BY <1>1, <3>1, <4>1
    <3> QED BY <1>1, <2>1, <3>1
  <2>4. {j \in Id : /\ rows[j].op = answer.op
                    /\ rows[j].part # "reverse"
                    /\ rows[j].amount = answer.amount}' = {n}
    BY <2>1, <2>3 DEF Told
  <2> QED BY <2>4, FS_Singleton DEF AnswersAreTrue
<1>10. DuplicatesConverge'
  BY DEF Told, DuplicatesConverge
<1> QED BY <1>3, <1>4, <1>5, <1>7, <1>8, <1>9, <1>10 DEF ReceiptsInv

LEMMA FinishRecordKeeps == ASSUME ReceiptsInv, NEW r \in Request, FinishRecord(r) PROVE ReceiptsInv'
<1> DEFINE q == request[r]
           row == [op |-> q.op, part |-> "record", rail |-> q.rail,
                   amount |-> q.amount, reverses |-> 0]
<1>1. /\ q # Idle /\ forms[q.op].of = 0 /\ row \in Written
      /\ request' = [request EXCEPT ![r] = Idle] /\ UNCHANGED <<choices, forms>>
  <2>1. q.pc = "recording" /\ q # Idle
    BY DEF FinishRecord, Idle
  <2>2. q.op \in DOMAIN forms /\ forms[q.op].of = 0 /\ q.amount \in Amount /\ q.rail \in Rail
    BY <2>1 DEF ReceiptsInv, RequestInv
  <2> QED BY <2>1, <2>2, Lengths DEF FinishRecord, Written, Part, ReceiptsInv
<1>2. CASE Standing(q.op, "record") = {}
  <2>1. rows' = Append(rows, row) /\ terms' = Recorded(terms) /\ Told(q, "done")
    BY <1>2 DEF FinishRecord
  <2>2. /\ rows' \in Seq(Written) /\ Len(rows) \in Nat /\ Len(rows') = Len(rows) + 1
        /\ rows'[Len(rows')] = row /\ \A i \in Id : rows'[i] = rows[i]
    BY <1>1, <2>1, Lengths DEF ReceiptsInv, RowsOK
  <2> HIDE DEF row
  <2>3. row = [op |-> q.op, part |-> "record", rail |-> q.rail,
               amount |-> q.amount, reverses |-> 0]
    BY DEF row
  <2>4. PICK n \in Nat, m \in Nat, op \in {q.op} : n = Len(rows') /\ m = Len(rows)
    BY <2>2
  <2>5. n = m + 1 /\ rows'[n] = row /\ op = q.op
    BY <2>2, <2>4
  <2> HIDE DEF q
  <2>6. /\ row = [op |-> op, part |-> "record", rail |-> request[r].rail,
                  amount |-> request[r].amount, reverses |-> 0]
        /\ op = request[r].op /\ request[r] # Idle /\ forms[op].of = 0
        /\ Standing(op, "record") = {} /\ Told(request[r], "done")
    BY <1>1, <1>2, <2>1, <2>3, <2>5 DEF q
  <2>7. PICK part \in {"record", "replacement"} : part = "record"
    OBVIOUS
  <2>8. /\ part = "record" <=> forms[op].of = 0
        /\ Standing(op, part) = {}
        /\ n = IF part = "record" THEN m + 1 ELSE m + 2
        /\ rows'[n] = [op |-> op, part |-> part, rail |-> request[r].rail,
                       amount |-> request[r].amount, reverses |-> 0]
        /\ part = "replacement" => /\ rows'[m + 1].op = op
                                   /\ rows'[m + 1].part = "reverse"
                                   /\ rows'[m + 1].rail = request[r].rail
    BY <2>5, <2>6, <2>7
  <2>9. /\ rows' \in Seq(Written) /\ n = Len(rows') /\ m = Len(rows)
        /\ \A i \in Id : rows'[i] = rows[i]
    BY <2>2, <2>4
  <2>10. /\ op = request[r].op /\ request[r] # Idle /\ Told(request[r], "done")
         /\ terms' = Recorded(terms) /\ request' = [request EXCEPT ![r] = Idle]
         /\ UNCHANGED <<choices, forms>>
    BY <1>1, <2>1, <2>6 DEF q
  <2> QED BY <2>8, <2>9, <2>10, InsertKeeps, ZenonT(60)
<1>3. CASE Standing(q.op, "record") # {}
  <2>1. /\ UNCHANGED <<rows, terms>>
        /\ Told(q, IF \E i \in Standing(q.op, "record") : Differs(row, rows[i])
                     THEN "conflict" ELSE "done")
    BY <1>3 DEF FinishRecord
  <2> QED BY <1>1, <1>3, <2>1, FoundKeeps
<1> QED BY <1>2, <1>3

LEMMA FinishCorrectKeeps == ASSUME ReceiptsInv, NEW r \in Request, FinishCorrect(r) PROVE ReceiptsInv'
<1> DEFINE q == request[r]
           row == [op |-> q.op, part |-> "replacement", rail |-> q.rail,
                   amount |-> q.amount, reverses |-> 0]
           reversal == [op |-> q.op, part |-> "reverse", rail |-> q.rail,
                        amount |-> rows[forms[q.op].of].amount, reverses |-> forms[q.op].of]
<1>1. /\ q # Idle /\ forms[q.op].of # 0 /\ row \in Written /\ reversal \in Written
      /\ request' = [request EXCEPT ![r] = Idle] /\ UNCHANGED <<choices, forms>>
  <2>1. q.pc = "replacing" /\ q # Idle
    BY DEF FinishCorrect, Idle
  <2>2. /\ q.op \in DOMAIN forms /\ forms[q.op].of # 0 /\ q.amount \in Amount /\ q.rail \in Rail
        /\ forms[q.op].of \in Id
    BY <2>1 DEF ReceiptsInv, RequestInv, FormInv
  <2>3. rows[forms[q.op].of].amount \in Amount /\ forms[q.op].of \in Nat /\ q.op \in Nat
    BY <2>2, Lengths DEF ReceiptsInv, Written
  <2> QED BY <2>1, <2>2, <2>3 DEF FinishCorrect, Written, Part
<1>2. CASE CashCheckRail(terms) = NoRail
  <2>1. UNCHANGED <<rows, terms>> /\ answer' = NoAnswer
    BY <1>2 DEF FinishCorrect
  <2>2. AnswersAreTrue' /\ DuplicatesConverge'
    BY <2>1 DEF NoAnswer, AnswersAreTrue, DuplicatesConverge
  <2> QED BY <1>1, <2>1, <2>2, EndKeeps
<1>3. CASE CashCheckRail(terms) # NoRail /\ Standing(q.op, "replacement") = {}
  <2>1. /\ rows' = rows \o <<reversal, row>> /\ terms' = Recorded(terms)
        /\ Told(q, "done")
    BY <1>3 DEF FinishCorrect, Correction
  <2> HIDE DEF row, reversal
  <2>2. <<reversal, row>> \in Seq(Written) /\ Len(<<reversal, row>>) = 2 /\ rows \in Seq(Written)
    BY <1>1 DEF ReceiptsInv, RowsOK
  <2>3. /\ rows' \in Seq(Written) /\ Len(rows) \in Nat /\ Len(rows') = Len(rows) + 2
        /\ \A i \in 1..Len(rows) : rows'[i] = rows[i]
        /\ rows'[Len(rows) + 1] = reversal /\ rows'[Len(rows')] = row
    BY <2>1, <2>2, ConcatProperties, Lengths DEF ReceiptsInv
  <2>4. \A i \in Id : rows'[i] = rows[i]
    BY <2>3, Lengths DEF ReceiptsInv
  <2>5. /\ row = [op |-> q.op, part |-> "replacement", rail |-> q.rail,
                  amount |-> q.amount, reverses |-> 0]
        /\ reversal.op = q.op /\ reversal.part = "reverse" /\ reversal.rail = q.rail
    BY DEF row, reversal
  <2>6. PICK n \in Nat, m \in Nat, op \in {q.op} : n = Len(rows') /\ m = Len(rows)
    BY <2>3
  <2>7. n = m + 2 /\ rows'[n] = row /\ rows'[m + 1] = reversal /\ op = q.op
    BY <2>3, <2>6
  <2> HIDE DEF q
  <2>8. /\ row = [op |-> op, part |-> "replacement", rail |-> request[r].rail,
                  amount |-> request[r].amount, reverses |-> 0]
        /\ reversal.op = op /\ reversal.part = "reverse" /\ reversal.rail = request[r].rail
        /\ op = request[r].op /\ request[r] # Idle /\ forms[op].of # 0
        /\ Standing(op, "replacement") = {} /\ Told(request[r], "done")
    BY <1>1, <1>3, <2>1, <2>5, <2>7 DEF q
  <2>9. /\ rows'[m + 1].op = op /\ rows'[m + 1].part = "reverse"
        /\ rows'[m + 1].rail = request[r].rail
        /\ rows'[n] = [op |-> op, part |-> "replacement", rail |-> request[r].rail,
                       amount |-> request[r].amount, reverses |-> 0]
        /\ n = IF "replacement" = "record" THEN m + 1 ELSE m + 2
    BY <2>7, <2>8
  <2> QED BY <1>1, <2>1, <2>3, <2>4, <2>6, <2>8, <2>9, InsertKeeps
<1>4. CASE CashCheckRail(terms) # NoRail /\ Standing(q.op, "replacement") # {}
  <2>1. /\ UNCHANGED <<rows, terms>>
        /\ Told(q, IF \E i \in Standing(q.op, "replacement") : Differs(row, rows[i])
                     THEN "conflict" ELSE "done")
    BY <1>4 DEF FinishCorrect
  <2> QED BY <1>1, <1>4, <2>1, FoundKeeps
<1> QED BY <1>2, <1>3, <1>4

LEMMA ReceiptsStepKeeps == ASSUME ReceiptsInv, [ReceiptsNext]_receiptsVars PROVE ReceiptsInv'
<1>1. CASE UNCHANGED receiptsVars
  BY <1>1 DEF receiptsVars, ReceiptsInv, RowsOK, FormInv, RequestInv, KeyInv, RowInv, RailInv, AnswersAreTrue,
              DuplicatesConverge, Id, Standing
<1>2. CASE ReceiptsNext
  BY <1>2, OfferKeeps, ChooseKeeps, RevokeFinanceKeeps, OpenRecordKeeps, OpenCorrectKeeps,
     FinishRecordKeeps, FinishCorrectKeeps
     DEF ReceiptsNext
<1> QED BY <1>1, <1>2

-----------------------------------------------------------------------------
(* The theorems.                                                            *)

\* Forms, requests, rows and answers fit one another in every interleaving.
THEOREM ReceiptsInductive == ReceiptsSpec => []ReceiptsInv
<1>1. ReceiptsInit => ReceiptsInv
  BY ReceiptsInitIsInvariant
<1>2. ReceiptsInv /\ [ReceiptsNext]_receiptsVars => ReceiptsInv'
  BY ReceiptsStepKeeps
<1> QED BY <1>1, <1>2, PTL DEF ReceiptsSpec

\* What is called recorded is in the rows, once.
THEOREM RecordedIsRecorded == ReceiptsSpec => []AnswersAreTrue
<1>1. ReceiptsInv => AnswersAreTrue
  BY DEF ReceiptsInv
<1> QED BY <1>1, ReceiptsInductive, PTL

\* A repeat of what was recorded is a conflict only for a new receipt, after the
\* agreement has changed its rail.
THEOREM RepeatsAreRecognised == ReceiptsSpec => []DuplicatesConverge
<1>1. ReceiptsInv => DuplicatesConverge
  BY DEF ReceiptsInv
<1> QED BY <1>1, ReceiptsInductive, PTL

-----------------------------------------------------------------------------
(* What the net comes to.                                                   *)

\* A form corrects a receipt; its reversal reverses that one, stands with its
\* replacement, and both come after it.
Reversed(i) == \E k \in Id : rows[k].op = rows[i].op /\ rows[k].part = "reverse"

CorrectionInv ==
  /\ \A op \in DOMAIN forms : forms[op].of # 0 => rows[forms[op].of].reverses = 0
  /\ \A i \in Id :
       /\ rows[i].part = "reverse" => rows[i].reverses = forms[rows[i].op].of
       /\ rows[i].part = "replacement" => Reversed(i)
       /\ rows[i].part # "record" => forms[rows[i].op].of < i

\* Rows that stay as they are keep it, also with one more form.
LEMMA FormsKeepCorrections ==
  ASSUME ReceiptsInv, CorrectionInv, UNCHANGED rows,
         DOMAIN forms \subseteq DOMAIN forms', \A op \in DOMAIN forms : forms'[op] = forms[op],
         \A op \in DOMAIN forms' \ DOMAIN forms : forms'[op].of \in {0} \union NetRows
  PROVE  CorrectionInv'
<1>1. \A op \in DOMAIN forms' : forms'[op].of # 0 => rows[forms'[op].of].reverses = 0
  BY DEF CorrectionInv, NetRows, Correctable
<1>2. ASSUME NEW i \in Id
      PROVE  /\ rows[i].part = "reverse" => rows[i].reverses = forms'[rows[i].op].of
             /\ rows[i].part = "replacement" => Reversed(i)'
             /\ rows[i].part # "record" => forms'[rows[i].op].of < i
  <2>1. forms'[rows[i].op] = forms[rows[i].op]
    BY DEF ReceiptsInv, KeyInv, RowInv
  <2> QED BY <2>1 DEF CorrectionInv, Reversed, Id
<1> QED BY <1>1, <1>2 DEF CorrectionInv, Id

\* So do rows that are inserted whole.
LEMMA InsertKeepsCorrections ==
  ASSUME ReceiptsInv, CorrectionInv, UNCHANGED forms, Id \subseteq Id', Id' \subseteq Nat,
         \A i \in Id : rows'[i] = rows[i],
         \A i \in Id' \ Id :
           \/ rows'[i].part = "record"
           \/ /\ rows'[i].part = "reverse" /\ rows'[i].reverses = forms[rows'[i].op].of
              /\ forms[rows'[i].op].of < i
           \/ /\ rows'[i].part = "replacement" /\ Reversed(i)'
              /\ forms[rows'[i].op].of < i
  PROVE  CorrectionInv'
<1>1. \A op \in DOMAIN forms : forms[op].of # 0 => rows'[forms[op].of].reverses = 0
  BY DEF CorrectionInv, ReceiptsInv, FormInv
<1>2. ASSUME NEW i \in Id'
      PROVE  /\ rows'[i].part = "reverse" => rows'[i].reverses = forms[rows'[i].op].of
             /\ rows'[i].part = "replacement" => Reversed(i)'
             /\ rows'[i].part # "record" => forms[rows'[i].op].of < i
  <2>1. CASE i \in Id
    <3>1. rows'[i].part = "replacement" => Reversed(i)'
      BY <2>1 DEF CorrectionInv, Reversed
    <3> QED BY <2>1, <3>1 DEF CorrectionInv
  <2>2. CASE i \notin Id
    BY <2>2
  <2> QED BY <2>1, <2>2
<1> QED BY <1>1, <1>2 DEF CorrectionInv

LEMMA CorrectionStep ==
  ASSUME ReceiptsInv, CorrectionInv, [ReceiptsNext]_receiptsVars PROVE CorrectionInv'
<1>1. ASSUME UNCHANGED <<rows, forms>> PROVE CorrectionInv'
  BY <1>1, FormsKeepCorrections
<1>2. ASSUME NEW a \in Actor, Offer(a) PROVE CorrectionInv'
  <2>1. PICK i \in {0} \union NetRows : forms' = Append(forms, [by |-> a, of |-> i])
    BY <1>2 DEF Offer
  <2>2. /\ \A op \in DOMAIN forms : op \in DOMAIN forms' /\ forms'[op] = forms[op]
        /\ \A op \in DOMAIN forms' : op \in DOMAIN forms \/ forms'[op].of = i
    <3>1. i \in Nat
      BY Lengths DEF NetRows, ReceiptsInv
    <3>2. [by |-> a, of |-> i] \in Form /\ forms \in Seq(Form)
      BY <3>1 DEF Form, ReceiptsInv, RowsOK
    <3> QED BY <2>1, <3>2, Lengths DEF ReceiptsInv
  <2> QED BY <1>2, <2>1, <2>2, FormsKeepCorrections DEF Offer
<1>3. ASSUME NEW r \in Request, FinishRecord(r) PROVE CorrectionInv'
  <2> DEFINE q == request[r]
             row == [op |-> q.op, part |-> "record", rail |-> q.rail,
                     amount |-> q.amount, reverses |-> 0]
  <2>1. CASE UNCHANGED rows
    BY <1>1, <1>3, <2>1 DEF FinishRecord
  <2>2. CASE rows' = Append(rows, row)
    <3>1. /\ Id' = 1..Len(rows) + 1 /\ rows'[Len(rows) + 1] = row
          /\ \A i \in Id : rows'[i] = rows[i]
      BY <2>2, Lengths DEF ReceiptsInv, RowsOK, Id
    <3>2. Id \subseteq Id' /\ Id' \subseteq Nat /\ Id' \ Id = {Len(rows) + 1}
      BY <3>1, Lengths DEF ReceiptsInv
    <3>3. \A i \in Id' \ Id : rows'[i].part = "record"
      BY <3>1, <3>2
    <3> QED BY <1>3, <3>1, <3>2, <3>3, InsertKeepsCorrections DEF FinishRecord
  <2> QED BY <1>3, <2>1, <2>2 DEF FinishRecord
<1>4. ASSUME NEW r \in Request, FinishCorrect(r) PROVE CorrectionInv'
  <2> DEFINE q == request[r]
             row == [op |-> q.op, part |-> "replacement", rail |-> q.rail,
                     amount |-> q.amount, reverses |-> 0]
             reversal == [op |-> q.op, part |-> "reverse", rail |-> q.rail,
                          amount |-> rows[forms[q.op].of].amount, reverses |-> forms[q.op].of]
  <2>1. CASE UNCHANGED rows
    BY <1>1, <1>4, <2>1 DEF FinishCorrect
  <2>2. CASE rows' = rows \o <<reversal, row>>
    <3>1. /\ q.op \in DOMAIN forms /\ q.amount \in Amount /\ q.rail \in Rail
          /\ forms[q.op].of \in Id
      <4>1. q # Idle /\ q.pc = "replacing"
        BY <1>4 DEF FinishCorrect, Idle
      <4> QED BY <4>1 DEF ReceiptsInv, RequestInv, FormInv
    <3>2. row \in Written /\ reversal \in Written
      <4>1. rows[forms[q.op].of].amount \in Amount /\ forms[q.op].of \in Nat /\ q.op \in Nat
        BY <3>1, Lengths DEF ReceiptsInv, Written
      <4> QED BY <3>1, <4>1 DEF Written, Part
    <3> HIDE DEF row, reversal
    <3>3. <<reversal, row>> \in Seq(Written) /\ Len(<<reversal, row>>) = 2 /\ rows \in Seq(Written)
      BY <3>2 DEF ReceiptsInv, RowsOK
    <3>4. /\ Len(rows') = Len(rows) + 2 /\ rows' \in Seq(Written)
          /\ \A i \in 1..Len(rows) : rows'[i] = rows[i]
          /\ rows'[Len(rows) + 1] = reversal /\ rows'[Len(rows) + 2] = row
      BY <2>2, <3>3, ConcatProperties, Lengths DEF ReceiptsInv
    <3>5. Id' = 1..Len(rows) + 2
      BY <3>4, LenProperties DEF Id
    <3>6. /\ Id \subseteq Id' /\ Id' \subseteq Nat
          /\ Id' \ Id = {Len(rows) + 1, Len(rows) + 2}
          /\ forms[q.op].of < Len(rows) + 1
      BY <3>1, <3>5, Lengths DEF ReceiptsInv
    <3>7. /\ reversal.op = q.op /\ reversal.part = "reverse" /\ reversal.reverses = forms[q.op].of
          /\ row.op = q.op /\ row.part = "replacement"
      BY DEF row, reversal
    <3>9. \A i \in Id : rows'[i] = rows[i]
      BY <3>4, Lengths DEF ReceiptsInv
    <3>10. forms' = forms
      BY <1>4 DEF FinishCorrect
    <3> HIDE DEF q
    <3>11. /\ rows'[Len(rows) + 1].part = "reverse"
           /\ rows'[Len(rows) + 1].reverses = forms[rows'[Len(rows) + 1].op].of
           /\ forms[rows'[Len(rows) + 1].op].of < Len(rows) + 1
      BY <3>4, <3>6, <3>7
    <3>12. PICK n \in Id' : n = Len(rows) + 2
      BY <3>6
    <3>13. /\ rows'[n].part = "replacement" /\ Reversed(n)' /\ forms[rows'[n].op].of < n
      <4>1. Len(rows) \in Nat /\ forms[q.op].of \in Nat
        BY <3>1, Lengths DEF ReceiptsInv
      <4> QED BY <3>4, <3>6, <3>7, <3>12, <4>1 DEF Reversed
    <3> QED BY <3>6, <3>9, <3>10, <3>11, <3>12, <3>13, InsertKeepsCorrections
  <2> QED BY <1>4, <2>1, <2>2 DEF FinishCorrect, Correction
<1>5. CASE UNCHANGED receiptsVars
  BY <1>1, <1>5 DEF receiptsVars
<1>6. CASE ReceiptsNext
  BY <1>1, <1>2, <1>3, <1>4, <1>6
     DEF ReceiptsNext, Choose, RevokeFinance, OpenRecord, OpenCorrect
<1> QED BY <1>5, <1>6

Corrected == {i \in Id : ReversalsOf(i) # {}}
Replacements == {i \in Id : rows[i].part = "replacement"}

\* The replacements that a figure is taken from.
After(i) == UNION {Standing(rows[k].op, "replacement") : k \in ReversalsOf(i)}

\* next leads from each receipt that was corrected to its replacement, further on.
Leads(next) ==
  /\ next \in [Corrected -> Replacements]
  /\ \A i \in Corrected : next[i] > i /\ After(i) = {next[i]}

\* A reversal is of a receipt, by a form for it.
LEMMA ReversalsAreOfForms ==
  ASSUME ReceiptsInv, CorrectionInv, NEW i \in Id, NEW k \in ReversalsOf(i)
  PROVE  /\ k \in Id /\ rows[k].part = "reverse" /\ rows[k].op \in DOMAIN forms
         /\ forms[rows[k].op].of = i
<1>1. i # 0 /\ k \in Id /\ rows[k].reverses = i
  BY Lengths DEF ReceiptsInv, ReversalsOf
<1>2. rows[k].part = "reverse" /\ rows[k].op \in DOMAIN forms
  BY <1>1 DEF ReceiptsInv, KeyInv, RowInv
<1> QED BY <1>1, <1>2 DEF CorrectionInv

LEMMA ReplacementsFollow ==
  ASSUME ReceiptsInv, CorrectionInv, CorrectedTwice = {}
  PROVE  /\ \E next : Leads(next)
         /\ \A next : Leads(next) =>
              /\ \A i, j \in Corrected : next[i] = next[j] => i = j
              /\ Replacements = {next[i] : i \in Corrected}
<1>1. \A i \in Id : \A k, l \in ReversalsOf(i) : k = l
  <2> SUFFICES ASSUME NEW i \in Id, NEW k \in ReversalsOf(i), NEW l \in ReversalsOf(i), k # l
               PROVE  FALSE
    OBVIOUS
  <2>1. IsFiniteSet(ReversalsOf(i))
    <3>1. IsFiniteSet(Id)
      BY Lengths, FS_Interval DEF ReceiptsInv
    <3> QED BY <3>1, FS_Subset DEF ReversalsOf
  <2>2. Cardinality({k, l}) = 2 /\ {k, l} \subseteq ReversalsOf(i)
    <3>1. IsFiniteSet({k}) /\ Cardinality({k}) = 1 /\ {k, l} = {k} \union {l} /\ l \notin {k}
      BY FS_Singleton
    <3>2. Cardinality({k} \union {l}) = Cardinality({k}) + 1
      BY <3>1, FS_AddElement
    <3> QED BY <3>1, <3>2
  <2>3. Cardinality(ReversalsOf(i)) \in Nat /\ Cardinality(ReversalsOf(i)) >= 2
    BY <2>1, <2>2, FS_Subset, FS_CardinalityType
  <2> QED BY <2>3 DEF CorrectedTwice
<1>2. ASSUME NEW i \in Corrected
      PROVE  \E j \in Replacements :
               /\ j > i /\ After(i) = {j}
               /\ rows[j].op \in DOMAIN forms /\ forms[rows[j].op].of = i
  <2>1. PICK k \in ReversalsOf(i) : ReversalsOf(i) = {k}
    BY <1>1 DEF Corrected
  <2>2. /\ i \in Id /\ k \in Id /\ rows[k].part = "reverse" /\ rows[k].op \in DOMAIN forms
        /\ forms[rows[k].op].of = i
    BY ReversalsAreOfForms DEF Corrected
  <2>3. PICK j \in Id : rows[j].op = rows[k].op /\ rows[j].part = "replacement"
    BY <2>2 DEF ReceiptsInv, KeyInv, RowInv, Standing
  <2>4. Standing(rows[k].op, "replacement") = {j}
    BY <2>3 DEF ReceiptsInv, KeyInv, Standing
  <2>5. After(i) = {j}
    BY <2>1, <2>4 DEF After
  <2>6. i < j
    BY <2>2, <2>3 DEF CorrectionInv
  <2> QED BY <2>2, <2>3, <2>5, <2>6, Lengths DEF Replacements, ReceiptsInv
<1>3. \E next : Leads(next)
  <2> DEFINE next == [i \in Corrected |-> CHOOSE j \in Replacements : j > i /\ After(i) = {j}]
  <2>1. Leads(next)
    BY <1>2 DEF Leads
  <2> QED BY <2>1
<1>4. ASSUME NEW next, Leads(next)
      PROVE  /\ \A i, j \in Corrected : next[i] = next[j] => i = j
             /\ Replacements = {next[i] : i \in Corrected}
  <2>1. \A i \in Corrected : next[i] \in Replacements /\ forms[rows[next[i]].op].of = i
    BY <1>2, <1>4 DEF Leads
  <2>2. ASSUME NEW j \in Replacements PROVE \E i \in Corrected : next[i] = j
    <3> DEFINE i == forms[rows[j].op].of
    <3>1. j \in Id /\ rows[j].part = "replacement" /\ rows[j].op \in DOMAIN forms /\ i \in Id
      BY DEF Replacements, ReceiptsInv, KeyInv, RowInv, FormInv
    <3>2. PICK k \in Id : rows[k].op = rows[j].op /\ rows[k].part = "reverse"
      BY <3>1 DEF CorrectionInv, Reversed
    <3>3. rows[k].reverses = i
      BY <3>2 DEF CorrectionInv
    <3>4. k \in ReversalsOf(i) /\ i \in Corrected
      BY <3>1, <3>2, <3>3 DEF ReversalsOf, Corrected
    <3>5. j \in After(i)
      BY <3>1, <3>2, <3>4 DEF After, Standing
    <3>6. After(i) = {next[i]}
      BY <1>4, <3>4 DEF Leads
    <3> QED BY <3>4, <3>5, <3>6
  <2> QED BY <2>1, <2>2
<1> QED BY <1>3, <1>4

\* A figure is a row's amount or that of its replacement.
LEMMA FigureFollows ==
  ASSUME ReceiptsInv, NEW next, Leads(next)
  PROVE  /\ Figure \in [Id -> Int]
         /\ \A i \in Id : Figure[i] = IF i \in Corrected THEN Figure[next[i]] ELSE rows[i].amount
<1> DEFINE Body(g, i) == IF ReversalsOf(i) = {} THEN rows[i].amount ELSE SumFunctionOnSet(g, After(i))
           n == Len(rows)
           Since(k) == {i \in Id : i + k > n}
           Follows(g, i) == g[i] = IF i \in Corrected THEN g[next[i]] ELSE rows[i].amount
           Solves(g, k) == g \in [Since(k) -> Int] /\ \A i \in Since(k) : Follows(g, i)
           P == {k \in Nat : \E g : Solves(g, k)}
<1>1. n \in Nat /\ Id = 1..n /\ \A i \in Id : rows[i].amount \in Int
  <2>1. n \in Nat /\ Id = 1..n /\ \A i \in Id : rows[i] \in Written
    BY Lengths DEF ReceiptsInv
  <2>2. \A i \in Id : rows[i].amount \in Amount
    BY <2>1 DEF Written
  <2>3. Amount \subseteq Int
    BY ReceiptsAssumption
  <2> QED BY <2>1, <2>2, <2>3
<1>2. \A i \in Corrected : i \in Id /\ next[i] \in Id /\ next[i] > i
  BY DEF Leads, Corrected, Replacements
<1>3. 0 \in P
  <2>1. Since(0) = {}
    BY <1>1
  <2>2. Solves([i \in Since(0) |-> 0], 0)
    BY <2>1
  <2> HIDE DEF Solves
  <2>3. 0 \in Nat
    OBVIOUS
  <2> QED BY <2>2, <2>3
<1>4. ASSUME NEW k \in Nat, k \in P PROVE k + 1 \in P
  <2>1. PICK g : Solves(g, k)
    BY <1>4
  <2> DEFINE value(i) == IF i \in Corrected THEN g[next[i]] ELSE rows[i].amount
             h == [i \in Since(k + 1) |-> IF i \in Since(k) THEN g[i] ELSE value(i)]
  <2>2. Since(k) \subseteq Since(k + 1)
    BY <1>1
  <2>3. \A i \in Since(k + 1) : i \in Corrected => next[i] \in Since(k)
    BY <1>1, <1>2
  <2>4. \A i \in Since(k + 1) : value(i) \in Int
    BY <1>1, <2>1, <2>3
  <2>5. h \in [Since(k + 1) -> Int]
    BY <2>1, <2>4
  <2>6. ASSUME NEW i \in Since(k + 1) PROVE Follows(h, i)
    <3>1. h[i] = value(i)
      BY <2>1
    <3>2. i \in Corrected => h[next[i]] = g[next[i]]
      BY <2>2, <2>3
    <3> QED BY <3>1, <3>2
  <2> HIDE DEF h
  <2>7. Solves(h, k + 1)
    BY <2>5, <2>6
  <2>8. k + 1 \in Nat
    OBVIOUS
  <2> HIDE DEF Solves
  <2> QED BY <2>7, <2>8
<1>5. PICK g : Solves(g, n)
  <2>1. \A k \in Nat : k \in P
    <3> HIDE DEF P
    <3> QED BY <1>3, <1>4, NatInductionOfSet
  <2> HIDE DEF Solves
  <2> QED BY <1>1, <2>1
<1>6. Since(n) = Id
  BY <1>1
<1>7. \A i \in Corrected : After(i) = {next[i]} /\ ReversalsOf(i) # {}
  BY DEF Leads, Corrected
<1>8. \A i \in Id : i \notin Corrected => ReversalsOf(i) = {}
  BY DEF Corrected
<1>9. \A f : \A i \in Id : (i \in Corrected => f[next[i]] \in Int) =>
        Body(f, i) = IF i \in Corrected THEN f[next[i]] ELSE rows[i].amount
  BY <1>7, <1>8, SumOne
<1>10. g = [i \in Id |-> Body(g, i)]
  <2>1. \A i \in Id : g[i] = Body(g, i)
    BY <1>2, <1>5, <1>6, <1>9
  <2> HIDE DEF Body
  <2> QED BY <1>5, <1>6, <2>1
<1>11. Figure = CHOOSE f : f = [i \in Id |-> Body(f, i)]
  BY DEF Figure, After
<1>12. Figure = [i \in Id |-> Body(Figure, i)]
  <2> HIDE DEF Body
  <2> QED BY <1>10, <1>11
<1> DEFINE Q == {k \in Nat : \A i \in Since(k) : Figure[i] \in Int}
<1>13. 0 \in Q
  BY <1>1
<1>14. ASSUME NEW k \in Nat, k \in Q PROVE k + 1 \in Q
  <2>1. ASSUME NEW i \in Since(k + 1) PROVE Figure[i] \in Int
    <3>1. i \in Corrected => Figure[next[i]] \in Int
      BY <1>1, <1>2, <1>14
    <3>2. Figure[i] = Body(Figure, i)
      <4> HIDE DEF Body
      <4> QED BY <1>12
    <3> QED BY <1>1, <1>9, <3>1, <3>2
  <2> QED BY <2>1
<1>15. \A i \in Id : Figure[i] \in Int
  <2>1. \A k \in Nat : k \in Q
    <3> HIDE DEF Q
    <3> QED BY <1>13, <1>14, NatInductionOfSet
  <2> QED BY <1>1, <1>6, <2>1
<1>16. \A i \in Id : Figure[i] = Body(Figure, i)
  <2> HIDE DEF Body
  <2> QED BY <1>12
<1>17. Figure \in [Id -> Int]
  <2> HIDE DEF Body
  <2> QED BY <1>12, <1>15
<1> QED BY <1>2, <1>9, <1>15, <1>16, <1>17

\* Each receipt is a payment or a replacement, and counts or was corrected.
LEMMA NetIsPayments ==
  ASSUME ReceiptsInv, CorrectionInv PROVE NetIsLatestFigures
<1> SUFFICES ASSUME CorrectedTwice = {}
             PROVE  /\ Cardinality(NetRows) = Cardinality(Payments)
                    /\ NetAmountCents = SumFunctionOnSet(Figure, Payments)
  BY DEF NetIsLatestFigures
<1>1. PICK next : Leads(next)
  BY ReplacementsFollow
<1>2. /\ \A i, j \in Corrected : next[i] = next[j] => i = j
      /\ Replacements = {next[i] : i \in Corrected}
  BY <1>1, ReplacementsFollow
<1>3. /\ NetRows \union Corrected = Payments \union Replacements
      /\ NetRows \intersect Corrected = {} /\ Payments \intersect Replacements = {}
  <2>1. \A i \in Id : rows[i].reverses = 0 <=> rows[i].part # "reverse"
    <3>1. \A i \in Id : rows[i].part # "reverse" => rows[i].reverses = 0
      BY DEF ReceiptsInv, KeyInv, RowInv
    <3>2. ASSUME NEW i \in Id, rows[i].part = "reverse" PROVE rows[i].reverses # 0
      <4>1. forms[rows[i].op].of # 0
        BY <3>2 DEF ReceiptsInv, KeyInv, RowInv
      <4> QED BY <3>2, <4>1 DEF CorrectionInv
    <3> QED BY <3>1, <3>2
  <2>2. \A i \in Id : rows[i].part \in Part
    BY Lengths DEF ReceiptsInv, Written
  <2>3. \A i \in Corrected : rows[i].reverses = 0
    <3> SUFFICES ASSUME NEW i \in Corrected PROVE rows[i].reverses = 0
      OBVIOUS
    <3>1. PICK k \in ReversalsOf(i) : i \in Id
      BY DEF Corrected
    <3>2. rows[k].op \in DOMAIN forms /\ forms[rows[k].op].of = i
      BY <3>1, ReversalsAreOfForms
    <3>3. i # 0
      BY <3>1, Lengths DEF ReceiptsInv
    <3> QED BY <3>2, <3>3 DEF CorrectionInv
  <2> QED BY <2>1, <2>2, <2>3 DEF NetRows, Correctable, Corrected, Payments, Replacements, Part
<1>4. IsFiniteSet(NetRows) /\ IsFiniteSet(Corrected) /\ IsFiniteSet(Payments) /\ IsFiniteSet(Replacements)
  <2>1. IsFiniteSet(Id)
    BY Lengths, FS_Interval DEF ReceiptsInv
  <2> QED BY <2>1, FS_Subset DEF NetRows, Corrected, Payments, Replacements
<1>5. Cardinality(Corrected) = Cardinality(Replacements)
  <2>1. next \in Bijection(Corrected, Replacements)
    BY <1>1, <1>2 DEF Leads, Bijection, Injection, Surjection, IsInjective
  <2> QED BY <1>4, <2>1, FS_Bijection DEF ExistsBijection
<1>6. Cardinality(NetRows) = Cardinality(Payments)
  <2>1. /\ Cardinality(NetRows \union Corrected) = Cardinality(NetRows) + Cardinality(Corrected) - 0
        /\ Cardinality(Payments \union Replacements)
             = Cardinality(Payments) + Cardinality(Replacements) - 0
    BY <1>3, <1>4, FS_Union, FS_EmptySet
  <2>2. /\ Cardinality(NetRows) \in Nat /\ Cardinality(Payments) \in Nat
        /\ Cardinality(Replacements) \in Nat
    BY <1>4, FS_CardinalityType
  <2>3. Cardinality(NetRows \union Corrected) = Cardinality(Payments \union Replacements)
    BY <1>3
  <2> QED BY <1>5, <2>1, <2>2, <2>3
<1>7. /\ Figure \in [Id -> Int]
      /\ \A i \in Corrected : Figure[i] = Figure[next[i]]
      /\ \A i \in NetRows : Figure[i] = rows[i].amount
  BY <1>1, FigureFollows DEF Corrected, NetRows, Correctable
<1>8. \A S \in SUBSET Id : \A i \in S : Figure[i] \in Int
  BY <1>7
<1>9. /\ NetRows \in SUBSET Id /\ Corrected \in SUBSET Id /\ Payments \in SUBSET Id
      /\ Replacements \in SUBSET Id
  BY DEF NetRows, Corrected, Payments, Replacements
<1>10. SumFunctionOnSet(Figure, Corrected) = SumFunctionOnSet(Figure, Replacements)
  <2>1. \A i \in Corrected : Figure[next[i]] \in Int /\ Figure[i] = Figure[next[i]]
    BY <1>1, <1>7, <1>9 DEF Leads
  <2> QED BY <1>2, <1>4, <2>1, SumImage
<1>11. /\ SumFunctionOnSet(Figure, NetRows \union Corrected)
            = SumFunctionOnSet(Figure, NetRows) + SumFunctionOnSet(Figure, Corrected)
       /\ SumFunctionOnSet(Figure, Payments \union Replacements)
            = SumFunctionOnSet(Figure, Payments) + SumFunctionOnSet(Figure, Replacements)
  <2>1. NetRows \union Corrected \in SUBSET Id /\ Payments \union Replacements \in SUBSET Id
    BY <1>9
  <2> QED BY <1>3, <1>4, <1>8, <2>1, SumUnion
<1>12. NetAmountCents = SumFunctionOnSet(Figure, NetRows)
  <2>1. \A i \in NetRows : Figure[i] \in Int /\ Figure[i] = [j \in NetRows |-> rows[j].amount][i]
    BY <1>7, <1>9
  <2> QED BY <1>4, <2>1, SumAgree DEF NetAmountCents
<1>13. /\ SumFunctionOnSet(Figure, NetRows) \in Int /\ SumFunctionOnSet(Figure, Payments) \in Int
       /\ SumFunctionOnSet(Figure, Replacements) \in Int
  BY <1>4, <1>8, <1>9, SumRemove
<1>14. NetAmountCents = SumFunctionOnSet(Figure, Payments)
  <2>1. SumFunctionOnSet(Figure, NetRows \union Corrected)
          = SumFunctionOnSet(Figure, Payments \union Replacements)
    BY <1>3
  <2>2. PICK a \in Int, b \in Int, c \in Int :
          /\ a = SumFunctionOnSet(Figure, NetRows) /\ b = SumFunctionOnSet(Figure, Payments)
          /\ c = SumFunctionOnSet(Figure, Replacements)
    BY <1>13
  <2>3. a + c = b + c
    BY <1>10, <1>11, <2>1, <2>2
  <2>4. a = b
    BY <2>3
  <2> QED BY <1>12, <2>2, <2>4
<1> QED BY <1>6, <1>14

\* Unless a receipt was corrected twice, each payment counts once, at its latest figure.
THEOREM NetIsOfPayments == ReceiptsSpec => []NetIsLatestFigures
<1>1. ReceiptsInit => CorrectionInv
  BY DEF ReceiptsInit, CorrectionInv, Id
<1>2. ReceiptsInv /\ CorrectionInv /\ [ReceiptsNext]_receiptsVars => CorrectionInv'
  BY CorrectionStep
<1>3. ReceiptsInv /\ CorrectionInv => NetIsLatestFigures
  BY NetIsPayments
<1> QED BY <1>1, <1>2, <1>3, ReceiptsInductive, PTL DEF ReceiptsSpec

=============================================================================
