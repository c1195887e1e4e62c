---------------------------- MODULE MailDelivery ----------------------------
(***************************************************************************)
(* The application mail handlers of src/lib/server/outbox/handlers, run by *)
(* the workers of Outbox: createApplicationMailHandler and the journal of  *)
(* src/lib/server/mail/journal.ts.                                         *)
(*                                                                         *)
(* Every job of this module is a mail job.  Outbox leaves open what a      *)
(* handler does between RenewLease and HandlerReturns or HandlerThrows;    *)
(* here it is three phases: a transaction that reads the journal, renders  *)
(* and records the intent, a send outside any transaction, and a second    *)
(* transaction that records the outcome.                                   *)
(***************************************************************************)
EXTENDS Outbox

VARIABLES
  intent,     \* the jobs with an intent row
  outcome,    \* of each job: the mode of its outcome row, or "none"
  phase,      \* how far each worker is in the handler it runs
  gate,       \* what each process resolves its delivery to
  sent,       \* history: copies of each job's message the peer accepted
  overlapped  \* history: jobs whose lease lapsed under a running handler

mailVars == <<intent, outcome, phase, gate, sent, overlapped>>
allVars == <<vars, mailVars>>

Gate == {"disabled", "smtp"}
Phase == {"start", "unrecorded", "rendering", "intended", "sent"}

MailTypeOK ==
  /\ TypeOK
  /\ intent \in SUBSET Key
  /\ outcome \in [Key -> {"none", "disabled", "sent"}]
  /\ phase \in [Worker -> Phase]
  /\ gate \in [Worker -> Gate]
  /\ sent \in [Key -> Nat]
  /\ overlapped \in SUBSET Key

MailInit ==
  /\ Init
  /\ intent = {}
  /\ outcome = [k \in Key |-> "none"]
  /\ phase = [w \in Worker |-> "start"]
  /\ gate \in [Worker -> Gate]
  /\ sent = [k \in Key |-> 0]
  /\ overlapped = {}

----------------------------------------------------------------------------
At(w, p) == pc[w] = "running" /\ phase[w] = p

Advance(w, p) == phase' = [phase EXCEPT ![w] = p]

\* The handler is over; the next job starts its own.
Return(w) == HandlerReturns(w) /\ Advance(w, "start")
Throw(w) == HandlerThrows(w) /\ Advance(w, "start")

\* Mutation: the handler forgets that an intent may stand.
UnintendedAlways(k) == k \in Key

\* The job has no intent row.
Unintended(k) == k \notin intent

\* The peer has one more copy, or what is left of the connection cannot tell.
Delivered(k) == sent' = [sent EXCEPT ![k] = @ + 1]

\* Mutation: the outcome is recorded whatever the send came to.
RecordedAsSent(w) ==
  outcome' = [outcome EXCEPT ![current[w]] = IF @ = "none" THEN "sent" ELSE @]

\* The outcome row, first write wins.
Recorded(w) ==
  outcome' = [outcome EXCEPT ![current[w]] =
                IF @ # "none" THEN @ ELSE IF gate[w] = "smtp" THEN "sent" ELSE "disabled"]

----------------------------------------------------------------------------
(* Phase 1.                                                                 *)

\* The template is not approved, the mail settings are half there or the job's
\* payload is malformed: no transaction is opened.
Refuse(w) ==
  /\ At(w, "start")
  /\ Throw(w)
  /\ UNCHANGED <<intent, outcome, gate, sent, overlapped>>

\* The handler's first read finds no outcome; its second is a statement of its own,
\* and sees what another handler of the job has committed in between.
ReadOutcome(w) ==
  /\ At(w, "start")
  /\ outcome[current[w]] = "none"
  /\ Advance(w, "unrecorded")
  /\ UNCHANGED <<vars, intent, outcome, gate, sent, overlapped>>

\* No intent either: the message is being rendered.
ReadIntent(w) ==
  /\ At(w, "unrecorded")
  /\ Unintended(current[w])
  /\ Advance(w, "rendering")
  /\ UNCHANGED <<vars, intent, outcome, gate, sent, overlapped>>

\* An outcome stands: nothing is left to do.
Replay(w) ==
  /\ At(w, "start")
  /\ outcome[current[w]] # "none"
  /\ Return(w)
  /\ UNCHANGED <<intent, outcome, gate, sent, overlapped>>

\* Mutation: an ambiguous delivery passes for delivered.
RefuseQuietly(w) ==
  /\ At(w, "unrecorded")
  /\ current[w] \in intent
  /\ Return(w)
  /\ UNCHANGED <<intent, outcome, gate, sent, overlapped>>

\* An intent stands without an outcome: AmbiguousDeliveryStateError.
RefuseAmbiguous(w) ==
  /\ At(w, "unrecorded")
  /\ current[w] \in intent
  /\ Throw(w)
  /\ UNCHANGED <<intent, outcome, gate, sent, overlapped>>

\* The intent row is inserted, or found standing, and the transaction commits.
CommitIntent(w) ==
  /\ At(w, "rendering")
  /\ intent' = intent \union {current[w]}
  /\ Advance(w, "intended")
  /\ UNCHANGED <<vars, outcome, gate, sent, overlapped>>

\* The transaction throws: the aggregate is gone, or the database failed.  Its
\* commit may have been reached.
Phase1Throws(w) ==
  /\ At(w, "rendering")
  /\ \/ UNCHANGED intent
     \/ intent' = intent \union {current[w]}
  /\ Throw(w)
  /\ UNCHANGED <<outcome, gate, sent, overlapped>>

----------------------------------------------------------------------------
(* Phases 2 and 3.                                                          *)

Send(w) ==
  /\ At(w, "intended")
  /\ IF gate[w] = "smtp" THEN Delivered(current[w]) ELSE UNCHANGED sent
  /\ Advance(w, "sent")
  /\ UNCHANGED <<vars, intent, outcome, gate, overlapped>>

\* The peer refuses, hangs or closes, before or after it accepted the message.
SendThrows(w) ==
  /\ At(w, "intended")
  /\ gate[w] = "smtp"
  /\ UNCHANGED sent \/ Delivered(current[w])
  /\ Throw(w)
  /\ UNCHANGED <<intent, outcome, gate, overlapped>>

\* Mutation: the handler settles its own job with the outcome.
CommitOutcomeSettling(w) ==
  /\ At(w, "sent")
  /\ Recorded(w)
  /\ status' = [status EXCEPT ![current[w]] = "done"]
  /\ UNCHANGED <<attempts, owner, live, ready, workerVars, historyVars, faults, phase>>
  /\ UNCHANGED <<intent, gate, sent, overlapped>>

CommitOutcome(w) ==
  /\ At(w, "sent")
  /\ Recorded(w)
  /\ Return(w)
  /\ UNCHANGED <<intent, gate, sent, overlapped>>

\* The outcome's transaction throws, its commit reached or not.
Phase3Throws(w) ==
  /\ At(w, "sent")
  /\ UNCHANGED outcome \/ Recorded(w)
  /\ Throw(w)
  /\ UNCHANGED <<intent, gate, sent, overlapped>>

----------------------------------------------------------------------------
(* The dispatcher's steps, with what they do to the handler.                *)

\* The process dies in the handler or around it, perhaps with the message on
\* its way.
MailCrash(w) ==
  /\ Crash(w)
  /\ Advance(w, "start")
  /\ \/ UNCHANGED sent
     \/ At(w, "intended") /\ gate[w] = "smtp" /\ Delivered(current[w])
  /\ UNCHANGED <<intent, outcome, gate, overlapped>>

\* A process that starts reads its settings anew.
MailStart(w) ==
  /\ Start(w)
  /\ \E g \in Gate : gate' = [gate EXCEPT ![w] = g]
  /\ UNCHANGED <<intent, outcome, phase, sent, overlapped>>

MailLeaseOverdue(w, k) ==
  /\ LeaseOverdue(w, k)
  /\ overlapped' = IF current[w] = k THEN overlapped \union {k} ELSE overlapped
  /\ UNCHANGED <<intent, outcome, phase, gate, sent>>

\* The rest of Outbox does not touch mail.
Dispatch(w) ==
  /\ \/ LockBatch(w)
     \/ CommitClaim(w)
     \/ \E k \in Key : RenewLease(w, k)
     \/ CompleteJob(w)
     \/ ReleaseJob(w)
     \/ EndCycle(w)
  /\ UNCHANGED mailVars

DispatchTrouble(w) ==
  /\ \/ ClaimErrs(w)
     \/ \E k \in Key : RenewErrs(w, k)
     \/ CompleteErrs(w)
     \/ ReleaseErrs(w)
     \/ Shutdown(w)
  /\ UNCHANGED mailVars

Handle(w) ==
  \/ Refuse(w)
  \/ ReadOutcome(w)
  \/ ReadIntent(w)
  \/ Replay(w)
  \/ RefuseAmbiguous(w)
  \/ CommitIntent(w)
  \/ Phase1Throws(w)
  \/ Send(w)
  \/ SendThrows(w)
  \/ CommitOutcome(w)
  \/ Phase3Throws(w)

MailProgress(w) == Dispatch(w) \/ Handle(w) \/ MailStart(w)

MailTrouble(w) ==
  \/ DispatchTrouble(w)
  \/ \E k \in Key : MailLeaseOverdue(w, k)
  \/ MailCrash(w)

MailClock(k) == Clock(k) /\ UNCHANGED mailVars

MailNext ==
  \/ \E k \in Key : (Enqueue(k) /\ UNCHANGED mailVars) \/ MailClock(k)
  \/ \E w \in Worker : MailProgress(w) \/ MailTrouble(w)

MailSpec == MailInit /\ [][MailNext]_allVars

\* As in Outbox: workers run, handlers end, processes restart, time passes.
MailFairness ==
  /\ \A w \in Worker : WF_allVars(MailProgress(w))
  /\ \A k \in Key : WF_allVars(MailClock(k))

FairMailSpec == MailSpec /\ MailFairness

----------------------------------------------------------------------------
(* Properties.                                                              *)

\* No retry, crash, lost commit or replay sends a second copy: that takes a
\* lease lapsing under a handler that is still running (mail-shared.ts, "the
\* handler refuses to send again").
OneCopyUnlessOverlapped == \A k \in Key : sent[k] > 1 => k \in overlapped

\* The journal is true and the queue agrees with it: a message recorded sent
\* was accepted, one recorded disabled went nowhere unless two handlers
\* overlapped, and a job is done only with an outcome on record.
JournalIsTrue ==
  \A k \in Key :
    /\ outcome[k] = "sent" => sent[k] > 0
    /\ outcome[k] = "disabled" /\ k \notin overlapped => sent[k] = 0
    /\ status[k] = "done" => outcome[k] # "none"

\* A job has an intent on record, no outcome, and nobody left who might write it.
Interrupted(k) ==
  /\ k \in intent
  /\ outcome[k] = "none"
  /\ \A w \in Worker : current[w] # k

\* An interrupted send is not retried and not forgotten: its job dead-letters
\* (journal.ts, "the job dead-letters visibly").
InterruptedDeadLetters == \A k \in Key : Interrupted(k) ~> status[k] = "dead"

\* The handler is one the outbox knows: what a worker does here is a behaviour
\* of Outbox, so its properties hold for mail.
IsOutbox == Spec

=============================================================================
