------------------------------ MODULE Application ------------------------------
(***************************************************************************)
(* One application for membership, from its submission to the end of it    *)
(* (src/lib/server/application, membership/activate.ts's approval, the     *)
(* receipt email's rendering, and the routes of apply and review).         *)
(*                                                                         *)
(* What makes it hard is what is posted: keyholders work from forms that   *)
(* carry the version of the page they were on and can be posted again, at  *)
(* any time and several at once (a double click, a retry, the back         *)
(* button), and an applicant may hold the links of several copies of the   *)
(* receipt.  Every request is one transaction.  A keyholder's reads the    *)
(* grant first and then queues for the application's row lock, so it is    *)
(* two actions, Open and its commit; a refused one changes nothing.        *)
(***************************************************************************)
EXTENDS Naturals, FiniteSets

CONSTANTS
  Keyholder,  \* people who begin with a live keyholder grant
  Request,    \* keyholders' requests that can be under way at the same time
  Copy,       \* receipts that can be rendered, each with its pair of links
  NoOne       \* the claimant of an unclaimed application, the author of no decision

ASSUME ApplicationAssumption == NoOne \notin Keyholder

VARIABLES
  status,       \* application.status, "none" before the row exists
  version,      \* application.version
  verifiedAt,   \* application.email_verified_at has been set
  claimant,     \* the keyholder of the live application_claim row
  decision,     \* the application_decision row
  provisioned,  \* the person and the membership rows exist
  jobs,         \* outbox jobs enqueued for the application
  verify,       \* the verify_email token of each copy
  withdraw,     \* the withdraw token of each copy
  grant,        \* the keyholders whose grant is live
  forms,        \* what can be posted: the forms of every page that was loaded
  request,      \* the form each request under way has posted
  applied,      \* history: forms whose request took effect
  overran       \* history: requests under way when their keyholder's grant ended

keyholderVars == <<grant, forms, request, applied, overran>>
tokenVars == <<verify, withdraw>>
vars == <<status, version, verifiedAt, claimant, decision, provisioned, jobs,
          tokenVars, keyholderVars>>

Status == {"submitted", "email_verified", "claimed", "tour_scheduled",
           "approved", "declined", "withdrawn"}
Terminal == {"approved", "declined", "withdrawn"}
TokenState == {"unminted", "live", "used", "expired"}
Job == {"receipt_email", "decision_email", "withdrawn_ack"}

\* A form posts the version its page was loaded at; shown is history, the status
\* its page was showing.  A request made without a page posts no version.
Act == {"claim", "tour", "approve", "decline"}
Unversioned == 0
Form == [by : Keyholder, act : Act, seen : Nat, shown : Status \union {"none"}]
Formless == {[by |-> k, act |-> a, seen |-> Unversioned, shown |-> "none"] :
               k \in Keyholder, a \in Act}
NoDecision == [kind |-> "none", by |-> NoOne]
Decision == [kind : {"approved", "declined"}, by : Keyholder]
Idle == [op |-> "idle"]
Posted == [op : {"posted"}, form : Form]

Init ==
  /\ status = "none"
  /\ version = 1
  /\ verifiedAt = FALSE
  /\ claimant = NoOne
  /\ decision = NoDecision
  /\ provisioned = FALSE
  /\ jobs = {}
  /\ verify = [c \in Copy |-> "unminted"]
  /\ withdraw = [c \in Copy |-> "unminted"]
  /\ grant = Keyholder
  /\ forms = Formless
  /\ request = [r \in Request |-> Idle]
  /\ applied = {}
  /\ overran = {}

----------------------------------------------------------------------------
(* The applicant.                                                           *)

\* submitApplication: a repeat with the same idempotency key reads the standing row.
Submit ==
  /\ status = "none"
  /\ status' = "submitted"
  /\ jobs' = jobs \union {"receipt_email"}
  /\ UNCHANGED <<version, verifiedAt, claimant, decision, provisioned, tokenVars, keyholderVars>>

\* The receipt's render mints a pair of tokens; two executions of its job can
\* each render a copy.
RenderReceipt(c) ==
  /\ "receipt_email" \in jobs
  /\ verify[c] = "unminted"
  /\ verify' = [verify EXCEPT ![c] = "live"]
  /\ withdraw' = [withdraw EXCEPT ![c] = "live"]
  /\ UNCHANGED <<status, version, verifiedAt, claimant, decision, provisioned, jobs, keyholderVars>>

\* A verify_email token outlives its TTL; a withdraw token has none.
ExpireVerify(c) ==
  /\ verify[c] = "live"
  /\ verify' = [verify EXCEPT ![c] = "expired"]
  /\ UNCHANGED <<status, version, verifiedAt, claimant, decision, provisioned, jobs, withdraw,
                 keyholderVars>>

\* Mutation: the token is consumed in a transaction of its own, before the status
\* is looked at.
VerifyEmailEarlyConsume(c) ==
  /\ verify[c] = "live"
  /\ verify' = [verify EXCEPT ![c] = "used"]
  /\ IF status = "submitted"
       THEN status' = "email_verified" /\ version' = version + 1 /\ verifiedAt' = TRUE
       ELSE UNCHANGED <<status, version, verifiedAt>>
  /\ UNCHANGED <<claimant, decision, provisioned, jobs, withdraw, keyholderVars>>

\* verifyEmail: a refusal rolls the consumption of the token back.
VerifyEmail(c) ==
  /\ verify[c] = "live"
  /\ status = "submitted"
  /\ verify' = [verify EXCEPT ![c] = "used"]
  /\ status' = "email_verified"
  /\ version' = version + 1
  /\ verifiedAt' = TRUE
  /\ UNCHANGED <<claimant, decision, provisioned, jobs, withdraw, keyholderVars>>

\* Mutation: whatever was decided meanwhile, the applicant's word is the last.
MayWithdrawDecided == status \in Status \ {"withdrawn"}

MayWithdraw == status \in Status \ Terminal

\* withdrawApplication: it posts no version, and it too rolls back when refused.
Withdraw(c) ==
  /\ withdraw[c] = "live"
  /\ MayWithdraw
  /\ withdraw' = [withdraw EXCEPT ![c] = "used"]
  /\ status' = "withdrawn"
  /\ version' = version + 1
  /\ jobs' = jobs \union {"withdrawn_ack"}
  /\ UNCHANGED <<verifiedAt, claimant, decision, provisioned, verify, keyholderVars>>

----------------------------------------------------------------------------
(* The keyholders' pages and requests.                                      *)

\* A form of k's for one of the acts, as a page rendered now would carry it.
FormsOf(k, acts) == {[by |-> k, act |-> a, seen |-> version, shown |-> status] : a \in acts}

\* The review queue shows an application from its verified email to its decision,
\* and lets it be claimed while nobody has.
QueueOffers(k) ==
  IF status = "email_verified" /\ claimant = NoOne THEN FormsOf(k, {"claim"}) ELSE {}

\* The review of one application, where its live claim is k's own.
DetailOffers(k) ==
  {f \in FormsOf(k, Act \ {"claim"}) :
     /\ claimant = k
     /\ \/ f.act = "tour" /\ status = "claimed"
        \/ f.act = "approve" /\ status = "tour_scheduled"
        \/ f.act = "decline" /\ status \in {"claimed", "tour_scheduled"}}

\* k gets a page of the offered forms, some of them new.
Renders(k, offered) ==
  /\ k \in grant
  /\ ~(offered \subseteq forms)
  /\ forms' = forms \union offered
  /\ UNCHANGED <<status, version, verifiedAt, claimant, decision, provisioned, jobs, tokenVars,
                 grant, request, applied, overran>>

LoadQueue(k) == Renders(k, QueueOffers(k))

LoadPage(k) == Renders(k, DetailOffers(k))

\* Mutation: the session is taken for the grant.
GrantedBySession(k) == k \in Keyholder

\* requireKeyholder
Granted(k) == k \in grant

\* The transaction opens, reads the grant and asks for the row lock.
Open(r, f) ==
  /\ request[r] = Idle
  /\ f \in forms
  /\ Granted(f.by)
  /\ request' = [request EXCEPT ![r] = [op |-> "posted", form |-> f]]
  /\ UNCHANGED <<status, version, verifiedAt, claimant, decision, provisioned, jobs, tokenVars,
                 grant, forms, applied, overran>>

\* revokeRole: an operator ends a keyholder's grant.
RevokeGrant(k) ==
  /\ k \in grant
  /\ grant' = grant \ {k}
  /\ overran' = overran \union {r \in Request : request[r] # Idle /\ request[r].form.by = k}
  /\ UNCHANGED <<status, version, verifiedAt, claimant, decision, provisioned, jobs, tokenVars,
                 forms, request, applied>>

----------------------------------------------------------------------------
(* What is answered to a form once the row is locked: "done" when it takes   *)
(* effect, "standing" when it had already, or the conflict.                  *)

\* Mutation: no form carries a version.
CurrentUnchecked(f) == f.seen \in Nat

\* checkExpectedVersion
Current(f) == f.seen \in {Unversioned, version}

\* Mutation: any keyholder may act on a claimed application.
IsClaimantAny(k) == claimant # NoOne /\ k \in Keyholder

\* requireClaimant
IsClaimant(k) == claimant = k

\* Mutation: the version is looked at before the standing claim.
ClaimAnswerVersionFirst(f) ==
  CASE ~Current(f) -> "version_conflict"
    [] Current(f) /\ status \in {"claimed", "tour_scheduled"} ->
         IF claimant = f.by THEN "standing" ELSE "claim_conflict"
    [] Current(f) /\ status = "email_verified" -> "done"
    [] OTHER -> "illegal"

ClaimAnswer(f) ==
  CASE status \in {"claimed", "tour_scheduled"} ->
         IF claimant = f.by THEN "standing" ELSE "claim_conflict"
    [] status \notin {"claimed", "tour_scheduled"} /\ ~Current(f) -> "version_conflict"
    [] status = "email_verified" /\ Current(f) ->
         IF claimant = NoOne THEN "done" ELSE "claim_conflict"
    [] OTHER -> "illegal"

TourAnswer(f) ==
  CASE status = "tour_scheduled" -> IF IsClaimant(f.by) THEN "standing" ELSE "not_claimant"
    [] status # "tour_scheduled" /\ ~Current(f) -> "version_conflict"
    [] status = "claimed" /\ Current(f) -> IF IsClaimant(f.by) THEN "done" ELSE "not_claimant"
    [] OTHER -> "illegal"

\* approveApplication and declineApplication: the version first, then convergence.
DecisionAnswer(f, sources, kind) ==
  CASE ~Current(f) -> "version_conflict"
    [] Current(f) /\ status \in sources -> IF IsClaimant(f.by) THEN "done" ELSE "not_claimant"
    [] Current(f) /\ status = kind /\ decision = [kind |-> kind, by |-> f.by] -> "standing"
    [] OTHER -> "illegal"

Answer(f) ==
  CASE f.act = "claim" -> ClaimAnswer(f)
    [] f.act = "tour" -> TourAnswer(f)
    [] f.act = "approve" -> DecisionAnswer(f, {"tour_scheduled"}, "approved")
    [] f.act = "decline" -> DecisionAnswer(f, {"claimed", "tour_scheduled"}, "declined")

Posts(r, act) == request[r] # Idle /\ request[r].form.act = act

TakesEffect(r) ==
  /\ Answer(request[r].form) = "done"
  /\ request' = [request EXCEPT ![r] = Idle]
  /\ applied' = applied \union {request[r].form}
  /\ overran' = overran \ {r}
  /\ UNCHANGED <<verifiedAt, tokenVars, grant, forms>>

Claim(r) ==
  /\ Posts(r, "claim")
  /\ claimant' = request[r].form.by
  /\ status' = "claimed"
  /\ version' = version + 1
  /\ TakesEffect(r)
  /\ UNCHANGED <<decision, provisioned, jobs>>

ScheduleTour(r) ==
  /\ Posts(r, "tour")
  /\ status' = "tour_scheduled"
  /\ version' = version + 1
  /\ TakesEffect(r)
  /\ UNCHANGED <<claimant, decision, provisioned, jobs>>

CommitDecision(r, kind) ==
  /\ decision' = [kind |-> kind, by |-> request[r].form.by]
  /\ status' = kind
  /\ version' = version + 1
  /\ jobs' = jobs \union {"decision_email"}

\* provisionOnApproval: the person and the membership in the decision's transaction.
Approve(r) ==
  /\ Posts(r, "approve")
  /\ CommitDecision(r, "approved")
  /\ provisioned' = TRUE
  /\ TakesEffect(r)
  /\ UNCHANGED claimant

Decline(r) ==
  /\ Posts(r, "decline")
  /\ CommitDecision(r, "declined")
  /\ TakesEffect(r)
  /\ UNCHANGED <<claimant, provisioned>>

\* The standing result is returned, the form is refused, or its transaction is
\* rolled back.
EndsUnchanged(r) ==
  /\ request[r] # Idle
  /\ request' = [request EXCEPT ![r] = Idle]
  /\ overran' = overran \ {r}
  /\ UNCHANGED <<status, version, verifiedAt, claimant, decision, provisioned, jobs, tokenVars,
                 grant, forms, applied>>

Next ==
  \/ Submit
  \/ \E c \in Copy : RenderReceipt(c) \/ ExpireVerify(c) \/ VerifyEmail(c) \/ Withdraw(c)
  \/ \E k \in Keyholder : LoadQueue(k) \/ LoadPage(k) \/ RevokeGrant(k)
  \/ \E r \in Request :
       \/ \E f \in forms : Open(r, f)
       \/ Claim(r) \/ ScheduleTour(r) \/ Approve(r) \/ Decline(r) \/ EndsUnchanged(r)

ApplicationSpec == Init /\ [][Next]_vars

----------------------------------------------------------------------------
(* Properties.                                                              *)

\* Every variable holds what its column or its token may hold.
TypeOK ==
  /\ status \in Status \union {"none"}
  /\ version \in Nat
  /\ verifiedAt \in BOOLEAN
  /\ claimant \in Keyholder \union {NoOne}
  /\ decision \in Decision \union {NoDecision}
  /\ provisioned \in BOOLEAN
  /\ jobs \subseteq Job
  /\ verify \in [Copy -> TokenState]
  /\ withdraw \in [Copy -> TokenState]
  /\ grant \subseteq Keyholder
  /\ forms \subseteq Form
  /\ request \in [Request -> {Idle} \union Posted]
  /\ applied \subseteq forms
  /\ overran \subseteq Request

\* Approve, decline and withdraw race and exactly one of them commits, with all its
\* effects and none of another's: the decision row, the provisioning and the email of
\* the ending the application is in (decide.ts: "exactly one terminal transition").
OneEnding ==
  /\ status \in {"approved", "declined"} => decision.kind = status
  /\ decision # NoDecision => status = decision.kind
  /\ provisioned <=> status = "approved"
  /\ "decision_email" \in jobs <=> status \in {"approved", "declined"}
  /\ "withdrawn_ack" \in jobs <=> status = "withdrawn"

\* A token is spent exactly when what it authorises happened, however many copies of
\* the links there are: a refused verification or withdrawal gives the token back
\* (consumeToken runs first, in the transaction that the refusal rolls back).
TokensSpentForEffect ==
  /\ Cardinality({c \in Copy : verify[c] = "used"}) = (IF verifiedAt THEN 1 ELSE 0)
  /\ Cardinality({c \in Copy : withdraw[c] = "used"}) = (IF status = "withdrawn" THEN 1 ELSE 0)

\* One keyholder claims, and that keyholder alone moves the application to the end.
DecidedByClaimant ==
  /\ decision # NoDecision => decision.by = claimant
  /\ \A f \in applied : f.by = claimant
  /\ status \in {"claimed", "tour_scheduled"} => claimant # NoOne

\* A form takes effect on the application its page was showing, not on one that moved
\* under it: the versions tell any two of its statuses apart.
ActsAsShown ==
  \A f \in forms \ Formless : Answer(f) = "done" => f.shown = status

\* Posting again a claim or a tour form that took effect returns the standing result
\* for as long as the review goes on, although the form carries the version from before
\* (claim.ts: convergence is checked before checkExpectedVersion on purpose).
RepeatedReviewConverges ==
  \A f \in applied : f.act \in {"claim", "tour"} /\ status \notin Terminal => Answer(f) = "standing"

\* A keyholder whose grant has ended acts only through a request whose transaction had
\* read the grant before it ended (requireKeyholder runs in the action's transaction).
ActsUnderGrant ==
  [][\A r \in Request : request[r] # Idle /\ applied' # applied /\ request'[r] = Idle =>
       request[r].form.by \in grant \/ r \in overran]_vars

=============================================================================
