-------------------------- MODULE ApplicationProofs -------------------------
(***************************************************************************)
(* Proofs about Application for any number of keyholders, requests and      *)
(* copies of the receipt.  A form that is posted late is what makes the     *)
(* invariants hard: what carries them is that a version tells the statuses  *)
(* of an application apart, and that only one claim can take effect.        *)
(***************************************************************************)
EXTENDS Application, FiniteSetTheorems, TLAPS

-----------------------------------------------------------------------------
(* The inductive invariant, in parts.                                       *)

\* An application has a claimant from its claim on.
ClaimInv ==
  /\ status \in {"none", "submitted", "email_verified"} => claimant = NoOne
  /\ status \in {"claimed", "tour_scheduled", "approved", "declined"} => claimant # NoOne

\* A form of a page has the version of the status that the page was showing; no
\* page shows an application that does not exist.
VersionInv ==
  /\ version > 0
  /\ \A f \in forms :
       /\ f.seen <= version
       /\ f.seen = version => f.shown = status
       /\ f.seen # Unversioned => status # "none"
       /\ f.seen = Unversioned => f \in Formless

\* What is under way was offered, and to a grant that was live when it was read.
RequestInv ==
  \A r \in Request : request[r] # Idle =>
    /\ request[r].form \in forms
    /\ request[r].form.by \in grant \/ r \in overran

\* A form that has taken effect means an application under review, or ended, and a
\* tour that was scheduled stays so.
AppliedInv ==
  \A f \in applied : status \notin Terminal =>
    /\ status \in {"claimed", "tour_scheduled"}
    /\ f.act = "tour" => status = "tour_scheduled"

\* The tokens of a copy are minted together; of either purpose none is spent, or one.
Spent(tokens) == {c \in Copy : tokens[c] = "used"}
TokenInv ==
  /\ \A c \in Copy : verify[c] = "unminted" <=> withdraw[c] = "unminted"
  /\ status \in {"none", "submitted"} => ~verifiedAt
  /\ IF verifiedAt THEN \E c \in Copy : Spent(verify) = {c} ELSE Spent(verify) = {}
  /\ IF status = "withdrawn" THEN \E c \in Copy : Spent(withdraw) = {c} ELSE Spent(withdraw) = {}

IInv ==
  TypeOK /\ ClaimInv /\ VersionInv /\ RequestInv /\ AppliedInv /\ TokenInv
    /\ OneEnding /\ DecidedByClaimant

\* Nobody has done anything at the beginning.
LEMMA InitIsInvariant == ASSUME Init PROVE IInv
<1>1. TypeOK
  <2>1. Formless \subseteq Form
    BY DEF Formless, Form, Unversioned
  <2>2. /\ verify \in [Copy -> TokenState] /\ withdraw \in [Copy -> TokenState]
        /\ request \in [Request -> {Idle} \union Posted]
    BY DEF Init, TokenState
  <2> QED BY <2>1, <2>2 DEF Init, TypeOK
<1>2. VersionInv
  BY DEF Init, VersionInv, Formless, Unversioned
<1>3. ClaimInv /\ RequestInv /\ AppliedInv
  BY DEF Init, ClaimInv, RequestInv, AppliedInv
<1>4. TokenInv
  BY DEF Init, TokenInv, Spent
<1>5. OneEnding /\ DecidedByClaimant
  BY DEF Init, OneEnding, DecidedByClaimant, NoDecision
<1> QED BY <1>1, <1>2, <1>3, <1>4, <1>5 DEF IInv

-----------------------------------------------------------------------------
(* What is answered to a form.                                              *)

\* A form takes effect from the statuses of its act only, in their current version,
\* and, but for a claim, by the claimant alone.
LEMMA DoneFrom ==
  ASSUME NEW f \in Form, Answer(f) = "done"
  PROVE  /\ Current(f)
         /\ f.act = "claim" => status = "email_verified" /\ claimant = NoOne
         /\ f.act = "tour" => status = "claimed" /\ claimant = f.by
         /\ f.act = "approve" => status = "tour_scheduled" /\ claimant = f.by
         /\ f.act = "decline" => status \in {"claimed", "tour_scheduled"} /\ claimant = f.by
<1>1. CASE f.act = "claim"
  BY <1>1 DEF Answer, ClaimAnswer
<1>2. CASE f.act = "tour"
  BY <1>2 DEF Answer, TourAnswer, IsClaimant
<1>3. CASE f.act = "approve"
  BY <1>3 DEF Answer, DecisionAnswer, IsClaimant
<1>4. CASE f.act = "decline"
  BY <1>4 DEF Answer, DecisionAnswer, IsClaimant
<1> QED BY <1>1, <1>2, <1>3, <1>4 DEF Form, Act

\* What a request that takes effect was posted with.
LEMMA PostedForm ==
  ASSUME IInv, NEW r \in Request, request[r] # Idle
  PROVE  /\ request[r].form \in Form /\ request[r].form \in forms
         /\ request[r].form.by \in Keyholder /\ request[r].form.by # NoOne
<1>1. request[r] \in Posted
  BY DEF IInv, TypeOK
<1> QED BY <1>1, ApplicationAssumption DEF IInv, RequestInv, Posted, Form

-----------------------------------------------------------------------------
(* The applicant's actions preserve the invariant.                          *)

LEMMA SubmitKeeps == ASSUME IInv, Submit PROVE IInv'
<1> USE DEF Submit, keyholderVars, tokenVars
<1>1. TypeOK'
  BY DEF IInv, TypeOK, Status, Job
<1>2. ClaimInv' /\ AppliedInv'
  BY DEF IInv, ClaimInv, AppliedInv, Terminal
<1>3. VersionInv'
  BY DEF IInv, TypeOK, VersionInv, Form, Unversioned
<1>4. RequestInv'
  BY DEF IInv, RequestInv
<1>5. TokenInv'
  BY DEF IInv, TokenInv
<1>6. OneEnding' /\ DecidedByClaimant'
  BY DEF IInv, TypeOK, OneEnding, DecidedByClaimant, ClaimInv, Decision
<1> QED BY <1>1, <1>2, <1>3, <1>4, <1>5, <1>6 DEF IInv

LEMMA RenderReceiptKeeps == ASSUME IInv, NEW c \in Copy, RenderReceipt(c) PROVE IInv'
<1> USE DEF RenderReceipt, keyholderVars
<1>1. TypeOK'
  BY DEF IInv, TypeOK, TokenState
<1>2. TokenInv'
  <2>1. Spent(verify)' = Spent(verify) /\ Spent(withdraw)' = Spent(withdraw)
    BY DEF IInv, TypeOK, TokenInv, Spent
  <2>2. \A d \in Copy : (verify[d] = "unminted" <=> withdraw[d] = "unminted")'
    BY DEF IInv, TypeOK, TokenInv
  <2> QED BY <2>1, <2>2 DEF IInv, TokenInv
<1>3. ClaimInv' /\ VersionInv' /\ RequestInv' /\ AppliedInv'
  BY DEF IInv, ClaimInv, VersionInv, RequestInv, AppliedInv
<1>4. OneEnding' /\ DecidedByClaimant'
  BY DEF IInv, OneEnding, DecidedByClaimant
<1> QED BY <1>1, <1>2, <1>3, <1>4 DEF IInv

LEMMA ExpireVerifyKeeps == ASSUME IInv, NEW c \in Copy, ExpireVerify(c) PROVE IInv'
<1> USE DEF ExpireVerify, keyholderVars
<1>1. TypeOK'
  BY DEF IInv, TypeOK, TokenState
<1>2. TokenInv'
  <2>1. Spent(verify)' = Spent(verify) /\ Spent(withdraw)' = Spent(withdraw)
    BY DEF IInv, TypeOK, Spent
  <2>2. \A d \in Copy : (verify[d] = "unminted" <=> withdraw[d] = "unminted")'
    BY DEF IInv, TypeOK, TokenInv
  <2> QED BY <2>1, <2>2 DEF IInv, TokenInv
<1>3. ClaimInv' /\ VersionInv' /\ RequestInv' /\ AppliedInv'
  BY DEF IInv, ClaimInv, VersionInv, RequestInv, AppliedInv
<1>4. OneEnding' /\ DecidedByClaimant'
  BY DEF IInv, OneEnding, DecidedByClaimant
<1> QED BY <1>1, <1>2, <1>3, <1>4 DEF IInv

\* A step to another status and the next version, which takes no form.
LEMMA NextVersionKeeps ==
  ASSUME TypeOK, VersionInv, status # "none", status' # "none",
         forms' = forms, version' = version + 1
  PROVE  VersionInv'
<1> SUFFICES ASSUME NEW f \in forms
             PROVE  /\ f.seen <= version'
                    /\ f.seen # version'
                    /\ f.seen = Unversioned => f \in Formless
  BY DEF TypeOK, VersionInv
<1>1. f.seen \in Nat /\ f.seen <= version /\ version \in Nat
  BY DEF TypeOK, VersionInv, Form
<1> QED BY <1>1 DEF VersionInv

LEMMA VerifyEmailKeeps == ASSUME IInv, NEW c \in Copy, VerifyEmail(c) PROVE IInv'
<1> USE DEF VerifyEmail, keyholderVars
<1>1. TypeOK'
  BY DEF IInv, TypeOK, TokenState, Status
<1>2. TokenInv'
  <2>1. Spent(verify) = {} /\ Spent(withdraw)' = Spent(withdraw)
    BY DEF IInv, TokenInv, Spent
  <2>2. Spent(verify)' = {c}
    BY <2>1 DEF IInv, TypeOK, Spent
  <2>3. \A d \in Copy : (verify[d] = "unminted" <=> withdraw[d] = "unminted")'
    BY DEF IInv, TypeOK, TokenInv
  <2> QED BY <2>1, <2>2, <2>3 DEF IInv, TokenInv
<1>3. ClaimInv' /\ RequestInv' /\ AppliedInv'
  BY DEF IInv, ClaimInv, RequestInv, AppliedInv, Terminal
<1>4. VersionInv'
  BY NextVersionKeeps DEF IInv
<1>5. OneEnding' /\ DecidedByClaimant'
  BY DEF IInv, TypeOK, OneEnding, DecidedByClaimant, Decision, NoDecision
<1> QED BY <1>1, <1>2, <1>3, <1>4, <1>5 DEF IInv

LEMMA WithdrawKeeps == ASSUME IInv, NEW c \in Copy, Withdraw(c) PROVE IInv'
<1> USE DEF Withdraw, keyholderVars, MayWithdraw
<1>1. TypeOK'
  BY DEF IInv, TypeOK, TokenState, Status, Job
<1>2. TokenInv'
  <2>1. Spent(withdraw) = {} /\ Spent(verify)' = Spent(verify)
    BY DEF IInv, TokenInv, Spent, Terminal
  <2>2. Spent(withdraw)' = {c}
    BY <2>1 DEF IInv, TypeOK, Spent
  <2>3. \A d \in Copy : (verify[d] = "unminted" <=> withdraw[d] = "unminted")'
    BY DEF IInv, TypeOK, TokenInv
  <2> QED BY <2>1, <2>2, <2>3 DEF IInv, TokenInv
<1>3. ClaimInv' /\ RequestInv' /\ AppliedInv'
  BY DEF IInv, ClaimInv, RequestInv, AppliedInv, Terminal
<1>4. VersionInv'
  BY NextVersionKeeps DEF IInv, Status
<1>5. OneEnding' /\ DecidedByClaimant'
  BY DEF IInv, TypeOK, OneEnding, DecidedByClaimant, Decision, NoDecision, Terminal
<1> QED BY <1>1, <1>2, <1>3, <1>4, <1>5 DEF IInv

-----------------------------------------------------------------------------
(* The keyholders' actions preserve the invariant.                          *)

LEMMA LoadKeeps ==
  ASSUME IInv, NEW k \in Keyholder, LoadQueue(k) \/ LoadPage(k)
  PROVE  IInv'
<1>1. PICK offered : /\ Renders(k, offered)
                     /\ offered \in {QueueOffers(k), DetailOffers(k)}
  BY DEF LoadQueue, LoadPage
<1> USE DEF Renders, tokenVars
<1>2. \A f \in offered : /\ f \in Form /\ f.seen = version /\ f.shown = status
                         /\ status # "none"
  <2>1. TypeOK
    BY DEF IInv
  <2>2. CASE offered = QueueOffers(k)
    BY <2>1, <2>2 DEF QueueOffers, FormsOf, Form, Act, TypeOK
  <2>3. CASE offered = DetailOffers(k)
    BY <2>1, <2>3 DEF DetailOffers, FormsOf, Form, Act, TypeOK
  <2> QED BY <1>1, <2>2, <2>3
<1>3. TypeOK'
  BY <1>1, <1>2 DEF IInv, TypeOK
<1>4. VersionInv'
  BY <1>1, <1>2 DEF IInv, TypeOK, VersionInv, Unversioned
<1>5. ClaimInv' /\ RequestInv' /\ AppliedInv' /\ TokenInv'
  BY <1>1 DEF IInv, ClaimInv, RequestInv, AppliedInv, TokenInv
<1>6. OneEnding' /\ DecidedByClaimant'
  BY <1>1 DEF IInv, OneEnding, DecidedByClaimant
<1> QED BY <1>3, <1>4, <1>5, <1>6 DEF IInv

LEMMA OpenKeeps == ASSUME IInv, NEW r \in Request, NEW f \in forms, Open(r, f) PROVE IInv'
<1> USE DEF Open, tokenVars
<1>1. TypeOK'
  BY DEF IInv, TypeOK, Posted
<1>2. RequestInv'
  BY DEF IInv, TypeOK, RequestInv, Granted
<1>3. ClaimInv' /\ VersionInv' /\ AppliedInv' /\ TokenInv'
  BY DEF IInv, ClaimInv, VersionInv, AppliedInv, TokenInv
<1>4. OneEnding' /\ DecidedByClaimant'
  BY DEF IInv, OneEnding, DecidedByClaimant
<1> QED BY <1>1, <1>2, <1>3, <1>4 DEF IInv

LEMMA RevokeGrantKeeps == ASSUME IInv, NEW k \in Keyholder, RevokeGrant(k) PROVE IInv'
<1> USE DEF RevokeGrant, tokenVars
<1>1. TypeOK'
  BY DEF IInv, TypeOK
<1>2. RequestInv'
  BY DEF IInv, TypeOK, RequestInv
<1>3. ClaimInv' /\ VersionInv' /\ AppliedInv' /\ TokenInv'
  BY DEF IInv, ClaimInv, VersionInv, AppliedInv, TokenInv
<1>4. OneEnding' /\ DecidedByClaimant'
  BY DEF IInv, OneEnding, DecidedByClaimant
<1> QED BY <1>1, <1>2, <1>3, <1>4 DEF IInv

\* The end of a request leaves nobody else's under way without its grant.
LEMMA RequestEnds ==
  ASSUME IInv, NEW r \in Request, request' = [request EXCEPT ![r] = Idle],
         overran' = overran \ {r}, UNCHANGED <<forms, grant>>
  PROVE  RequestInv' /\ request' \in [Request -> {Idle} \union Posted] /\ overran' \subseteq Request
BY DEF IInv, TypeOK, RequestInv

LEMMA EndsUnchangedKeeps == ASSUME IInv, NEW r \in Request, EndsUnchanged(r) PROVE IInv'
<1> USE DEF EndsUnchanged, tokenVars
<1>1. RequestInv' /\ TypeOK'
  BY RequestEnds DEF IInv, TypeOK
<1>2. ClaimInv' /\ VersionInv' /\ AppliedInv' /\ TokenInv'
  BY DEF IInv, ClaimInv, VersionInv, AppliedInv, TokenInv
<1>3. OneEnding' /\ DecidedByClaimant'
  BY DEF IInv, OneEnding, DecidedByClaimant
<1> QED BY <1>1, <1>2, <1>3 DEF IInv

\* What is common to the four acts that take effect: the form was current and
\* posted by somebody, and the next version begins.
LEMMA EffectKeeps ==
  ASSUME IInv, NEW r \in Request, request[r] # Idle, TakesEffect(r), version' = version + 1,
         status \notin {"none", "submitted", "withdrawn"},
         status' \in Status \ {"submitted", "withdrawn"}
  PROVE  /\ VersionInv' /\ RequestInv' /\ TokenInv'
         /\ request' \in [Request -> {Idle} \union Posted] /\ overran' \subseteq Request
         /\ applied' \subseteq forms' /\ forms' \subseteq Form /\ grant' \subseteq Keyholder
         /\ version' \in Nat /\ verifiedAt' \in BOOLEAN
         /\ verify' \in [Copy -> TokenState] /\ withdraw' \in [Copy -> TokenState]
<1> USE DEF TakesEffect, tokenVars
<1>1. RequestInv' /\ request' \in [Request -> {Idle} \union Posted] /\ overran' \subseteq Request
  BY RequestEnds
<1>2. VersionInv'
  BY NextVersionKeeps DEF IInv, Status
<1>3. TokenInv'
  BY DEF IInv, TokenInv, Status
<1>4. request[r].form \in forms
  BY PostedForm
<1> QED BY <1>1, <1>2, <1>3, <1>4 DEF IInv, TypeOK

LEMMA ClaimKeeps == ASSUME IInv, NEW r \in Request, Claim(r) PROVE IInv'
<1> DEFINE f == request[r].form
<1>1. /\ request[r] # Idle /\ f.act = "claim"
      /\ claimant' = f.by /\ status' = "claimed" /\ version' = version + 1
      /\ TakesEffect(r) /\ applied' = applied \union {f}
      /\ UNCHANGED <<decision, provisioned, jobs>>
  BY DEF Claim, Posts, TakesEffect
<1>2. f \in Form /\ f.by \in Keyholder /\ f.by # NoOne
  BY <1>1, PostedForm
<1>3. status = "email_verified" /\ claimant = NoOne
  BY <1>1, <1>2, DoneFrom DEF TakesEffect
<1>4. applied = {}
  BY <1>3 DEF IInv, AppliedInv, Terminal
<1> HIDE DEF f
<1>5. /\ VersionInv' /\ RequestInv' /\ TokenInv' /\ TypeOK'
  BY <1>1, <1>2, <1>3, EffectKeeps DEF IInv, TypeOK, Status
<1>6. ClaimInv' /\ AppliedInv'
  BY <1>1, <1>2, <1>4 DEF ClaimInv, AppliedInv
<1>7. OneEnding' /\ DecidedByClaimant'
  <2>1. decision = NoDecision
    BY <1>3 DEF IInv, TypeOK, OneEnding, Decision
  <2>2. OneEnding'
    BY <1>1, <1>3, <2>1 DEF IInv, OneEnding, NoDecision
  <2>3. DecidedByClaimant'
    BY <1>1, <1>2, <1>4, <2>1 DEF DecidedByClaimant
  <2> QED BY <2>2, <2>3
<1> QED BY <1>5, <1>6, <1>7 DEF IInv

LEMMA ScheduleTourKeeps == ASSUME IInv, NEW r \in Request, ScheduleTour(r) PROVE IInv'
<1> DEFINE f == request[r].form
<1>1. /\ request[r] # Idle /\ f.act = "tour"
      /\ status' = "tour_scheduled" /\ version' = version + 1
      /\ TakesEffect(r) /\ applied' = applied \union {f}
      /\ UNCHANGED <<claimant, decision, provisioned, jobs>>
  BY DEF ScheduleTour, Posts, TakesEffect
<1>2. f \in Form
  BY <1>1, PostedForm
<1>3. status = "claimed" /\ claimant = f.by
  BY <1>1, <1>2, DoneFrom DEF TakesEffect
<1> HIDE DEF f
<1>4. /\ VersionInv' /\ RequestInv' /\ TokenInv' /\ TypeOK'
  BY <1>1, <1>3, EffectKeeps DEF IInv, TypeOK, Status
<1>5. ClaimInv' /\ AppliedInv'
  BY <1>1, <1>3 DEF IInv, ClaimInv, AppliedInv, Terminal
<1>6. OneEnding' /\ DecidedByClaimant'
  <2>1. decision = NoDecision
    BY <1>3 DEF IInv, TypeOK, OneEnding, Decision
  <2>2. OneEnding'
    BY <1>1, <1>3, <2>1 DEF IInv, OneEnding, NoDecision
  <2>3. DecidedByClaimant'
    BY <1>1, <1>2, <1>3, <2>1 DEF IInv, DecidedByClaimant, ClaimInv
  <2> QED BY <2>2, <2>3
<1> QED BY <1>4, <1>5, <1>6 DEF IInv

\* Approval and decline differ in the provisioning only.
LEMMA DecisionKeeps ==
  ASSUME IInv, NEW r \in Request, NEW kind \in {"approved", "declined"}, request[r] # Idle,
         request[r].form.act = (IF kind = "approved" THEN "approve" ELSE "decline"),
         CommitDecision(r, kind), TakesEffect(r), claimant' = claimant,
         provisioned' = (provisioned \/ kind = "approved")
  PROVE  IInv'
<1> DEFINE f == request[r].form
<1>1. /\ decision' = [kind |-> kind, by |-> f.by]
      /\ status' = kind /\ version' = version + 1
      /\ jobs' = jobs \union {"decision_email"}
      /\ applied' = applied \union {f}
  BY DEF CommitDecision, TakesEffect
<1>2. f \in Form /\ f.by \in Keyholder /\ f.by # NoOne
  BY PostedForm
<1>3. status \in {"claimed", "tour_scheduled"} /\ claimant = f.by
  BY <1>2, DoneFrom DEF TakesEffect
<1> HIDE DEF f
<1>4. /\ decision' \in Decision /\ decision' # NoDecision
      /\ decision'.kind = kind /\ decision'.by = f.by
  BY <1>1, <1>2 DEF Decision, NoDecision
<1>5. provisioned' \in BOOLEAN /\ (provisioned' <=> kind = "approved")
  BY <1>3 DEF IInv, TypeOK, OneEnding
<1>6. /\ VersionInv' /\ RequestInv' /\ TokenInv' /\ TypeOK'
  BY <1>1, <1>3, <1>4, <1>5, EffectKeeps DEF IInv, TypeOK, Status, Job
<1>7. ClaimInv' /\ AppliedInv'
  BY <1>1, <1>2, <1>3 DEF ClaimInv, AppliedInv, Terminal
<1>8. OneEnding'
  BY <1>1, <1>3, <1>4, <1>5 DEF IInv, OneEnding
<1>9. DecidedByClaimant'
  BY <1>1, <1>2, <1>3, <1>4 DEF IInv, DecidedByClaimant
<1> QED BY <1>6, <1>7, <1>8, <1>9 DEF IInv

LEMMA ApproveKeeps == ASSUME IInv, NEW r \in Request, Approve(r) PROVE IInv'
<1>1. provisioned' = (provisioned \/ "approved" = "approved") /\ request[r].form.act = "approve"
  BY DEF Approve, Posts
<1> QED BY <1>1, DecisionKeeps DEF Approve, Posts

LEMMA DeclineKeeps == ASSUME IInv, NEW r \in Request, Decline(r) PROVE IInv'
<1>1. provisioned' = (provisioned \/ "declined" = "approved") /\ request[r].form.act = "decline"
  BY DEF Decline, Posts, IInv, TypeOK
<1> QED BY <1>1, DecisionKeeps DEF Decline, Posts

LEMMA StepKeeps == ASSUME IInv, [Next]_vars PROVE IInv'
<1>1. CASE UNCHANGED vars
  BY <1>1 DEF vars, tokenVars, keyholderVars, IInv, TypeOK, ClaimInv, VersionInv, RequestInv,
              AppliedInv, TokenInv, OneEnding, DecidedByClaimant
<1>2. CASE Next
  BY <1>2, SubmitKeeps, RenderReceiptKeeps, ExpireVerifyKeeps, VerifyEmailKeeps, WithdrawKeeps,
     LoadKeeps, RevokeGrantKeeps, OpenKeeps, ClaimKeeps, ScheduleTourKeeps, ApproveKeeps,
     DeclineKeeps, EndsUnchangedKeeps DEF Next
<1> QED BY <1>1, <1>2

-----------------------------------------------------------------------------
(* The theorems.                                                            *)

\* Statuses, versions, forms, tokens and requests hold together whatever is
\* posted when.
THEOREM ApplicationInductive == ApplicationSpec => []IInv
<1>1. Init => IInv
  BY InitIsInvariant
<1>2. IInv /\ [Next]_vars => IInv'
  BY StepKeeps
<1> QED BY <1>1, <1>2, PTL DEF ApplicationSpec

\* Every variable holds what its column or its token may hold.
THEOREM ApplicationTypeCorrect == ApplicationSpec => []TypeOK
<1>1. IInv => TypeOK
  BY DEF IInv
<1> QED BY <1>1, ApplicationInductive, PTL

\* One ending, with all its effects and none of another's.
THEOREM EndsOnce == ApplicationSpec => []OneEnding
<1>1. IInv => OneEnding
  BY DEF IInv
<1> QED BY <1>1, ApplicationInductive, PTL

\* One keyholder claims and decides.
THEOREM ClaimantDecides == ApplicationSpec => []DecidedByClaimant
<1>1. IInv => DecidedByClaimant
  BY DEF IInv
<1> QED BY <1>1, ApplicationInductive, PTL

\* A form acts on the status that its page was showing, or not at all.
THEOREM FormsActAsShown == ApplicationSpec => []ActsAsShown
<1>1. ASSUME IInv, NEW f \in forms \ Formless, Answer(f) = "done"
      PROVE  f.shown = status
  <2>1. f \in Form /\ f.seen # Unversioned
    BY <1>1 DEF IInv, TypeOK, VersionInv
  <2>2. Current(f)
    BY <1>1, <2>1, DoneFrom
  <2> QED BY <1>1, <2>1, <2>2 DEF Current, IInv, VersionInv
<1>2. IInv => ActsAsShown
  BY <1>1 DEF ActsAsShown
<1> QED BY <1>2, ApplicationInductive, PTL

\* A claim or a tour form that took effect has the standing result for an answer.
THEOREM RepeatsConverge == ApplicationSpec => []RepeatedReviewConverges
<1>1. ASSUME IInv, NEW f \in applied, f.act \in {"claim", "tour"}, status \notin Terminal
      PROVE  Answer(f) = "standing"
  <2>1. status \in {"claimed", "tour_scheduled"} /\ claimant = f.by
    BY <1>1 DEF IInv, AppliedInv, DecidedByClaimant
  <2>2. CASE f.act = "claim"
    BY <2>1, <2>2 DEF Answer, ClaimAnswer
  <2>3. CASE f.act = "tour"
    <3>1. status = "tour_scheduled"
      BY <1>1, <2>3 DEF IInv, AppliedInv
    <3> QED BY <2>1, <2>3, <3>1 DEF Answer, TourAnswer, IsClaimant
  <2> QED BY <1>1, <2>2, <2>3
<1>2. IInv => RepeatedReviewConverges
  BY <1>1 DEF RepeatedReviewConverges
<1> QED BY <1>2, ApplicationInductive, PTL

\* A token is spent exactly when what it authorises has happened.
THEOREM TokensSpentOnce == ApplicationSpec => []TokensSpentForEffect
<1>1. \A c : Cardinality({c}) = 1
  BY FS_Singleton
<1>2. Cardinality({}) = 0
  BY FS_EmptySet
<1>3. IInv => TokensSpentForEffect
  BY <1>1, <1>2 DEF IInv, TypeOK, TokenInv, Spent, TokensSpentForEffect
<1> QED BY <1>3, ApplicationInductive, PTL

\* A form takes effect under its keyholder's grant, or under one that ended while
\* its request was under way.
THEOREM GrantsAreNeeded == ApplicationSpec => ActsUnderGrant
<1>1. IInv => \A r \in Request : request[r] # Idle => request[r].form.by \in grant \/ r \in overran
  BY DEF IInv, RequestInv
<1>2. IInv /\ [Next]_vars =>
        \A r \in Request : request[r] # Idle /\ applied' # applied /\ request'[r] = Idle =>
          request[r].form.by \in grant \/ r \in overran
  BY <1>1
<1> QED BY <1>2, ApplicationInductive, PTL DEF ApplicationSpec, ActsUnderGrant

=============================================================================
