----------------------------- MODULE Activation -----------------------------
(***************************************************************************)
(* The versions of the membership agreement, published by operators        *)
(* (src/lib/server/membership/agreement.ts, the agreement/publish route),  *)
(* and the activations that record one (membership/activate.ts, the assent *)
(* route, the links that the decision email mints).                        *)
(*                                                                         *)
(* A request is one transaction at READ COMMITTED, so each of its reads    *)
(* sees what others have committed by then.  It takes a step wherever that *)
(* matters and commits in the last; what it has locked or inserted follows *)
(* from where it stands, and whoever needs it waits.  A request that is    *)
(* refused, or whose transaction fails, ends without effect (Ends).        *)
(*                                                                         *)
(* Time is the instant of clock.  The operators' grants, their place on    *)
(* the allowlist and the rate limit are taken for given.                   *)
(***************************************************************************)
EXTENDS Naturals, FiniteSets

CONSTANTS
  Person,      \* people with an approved application and a pending membership
  Address,     \* their e-mail addresses: two people may have given the same
  Token,       \* activation links that can be mailed
  Operator,    \* people who may publish
  Request,     \* requests that can be under way at the same time
  NoOne,       \* whom an unminted link or an unused address belongs to
  MaxTime,     \* bound of the model: the last instant
  MaxVersions  \* bound of the model: agreement versions

ASSUME ActivationAssumption ==
  /\ NoOne \notin Person
  /\ MaxTime \in Nat
  /\ MaxVersions \in Nat

VARIABLES
  clock,     \* the present
  versions,  \* the rows of agreement_version; form is history: what was posted
  address,   \* of each person
  mailedTo,  \* whose link each token is
  token,     \* the state of each token
  links,     \* the activation forms that were shown
  active,    \* the people whose membership is active
  recorded,  \* membership.agreement_version_id, also in the assent row
  account,   \* the person whose auth user has the address for its handle
  request    \* how far each request is

membershipVars == <<address, mailedTo, token, links, active, recorded, account>>
vars == <<clock, versions, membershipVars, request>>

Time == 0..MaxTime
Id == 1..MaxVersions
NoVersion == 0

Preview == [by : Operator, seen : Id \union {MaxVersions + 1}]
Link == [token : Token, shown : Id]
Version == [id : Id, effective : Time, form : Preview]

Idle == [op |-> "idle"]
\* An operator's user row is locked and the preview has been compared.
Previewed == [op : {"previewed"}, form : Preview]
\* The next free number has been read once more.
Numbered == [op : {"numbered"}, form : Preview, id : Id]
\* The token was found unconsumed; posted is history: the version current then.
Opened == [op : {"opened"}, form : Link, at : Time, valid : BOOLEAN, posted : Id]
\* Token and membership are locked, the agreement is checked, the user inserted.
Registered == [op : {"registered"}, form : Link, at : Time, valid : {TRUE}, posted : Id]

TypeOK ==
  /\ clock \in Time
  /\ versions \subseteq Version
  /\ address \in [Person -> Address]
  /\ mailedTo \in [Token -> Person \union {NoOne}]
  /\ token \in [Token -> {"unminted", "live", "expired", "used"}]
  /\ links \subseteq Link
  /\ active \subseteq Person
  /\ recorded \in [Person -> Id \union {NoVersion}]
  /\ account \in [Address -> Person \union {NoOne}]
  /\ request \in [Request -> {Idle} \union Previewed \union Numbered \union Opened \union Registered]

Init ==
  /\ clock = 0
  /\ versions = {}
  /\ address \in [Person -> Address]
  /\ mailedTo = [t \in Token |-> NoOne]
  /\ token = [t \in Token |-> "unminted"]
  /\ links = {}
  /\ active = {}
  /\ recorded = [p \in Person |-> NoVersion]
  /\ account = [a \in Address |-> NoOne]
  /\ request = [r \in Request |-> Idle]

In(r, op) == request[r].op = op

Becomes(r, state) == request' = [request EXCEPT ![r] = state]

Ends(r) ==
  /\ ~In(r, "idle")
  /\ Becomes(r, Idle)
  /\ UNCHANGED <<clock, versions, membershipVars>>

Tick ==
  /\ clock < MaxTime
  /\ clock' = clock + 1
  /\ UNCHANGED <<versions, membershipVars, request>>

----------------------------------------------------------------------------
(* Publication.                                                             *)

\* nextVersionId: max + 1 of the committed rows.
NextId == CHOOSE n \in 1..MaxVersions + 1 :
  /\ \A v \in versions : v.id < n
  /\ n = 1 \/ \E v \in versions : v.id = n - 1

\* Mutation: reauthenticate reads the user without FOR UPDATE.
OperatorFreeUnlocked(o) == o \in Operator

\* reauthenticate locks the operator's user row until the transaction ends.
OperatorFree(o) ==
  \A r \in Request : In(r, "previewed") \/ In(r, "numbered") => request[r].form.by # o

\* The first layer: of all the forms that were ever shown, the one with a number that
\* is still the next passes.
OpenPublish(r, o) ==
  /\ In(r, "idle")
  /\ OperatorFree(o)
  /\ Becomes(r, [op |-> "previewed", form |-> [by |-> o, seen |-> NextId]])
  /\ UNCHANGED <<clock, versions, membershipVars>>

\* publishAgreementVersion reads the next number for itself.
TakeNumber(r) ==
  /\ In(r, "previewed")
  /\ NextId <= MaxVersions
  /\ Becomes(r, [op |-> "numbered", form |-> request[r].form, id |-> NextId])
  /\ UNCHANGED <<clock, versions, membershipVars>>

\* The second layer, the primary key: ON CONFLICT DO NOTHING.
Taken(id) == \E v \in versions : v.id = id

\* The insert waits for another of the same number, and then finds it taken.  The
\* version takes effect now or at any instant the operator has chosen.
CommitPublish(r, effective) ==
  /\ In(r, "numbered")
  /\ ~Taken(request[r].id)
  /\ versions' = versions \union
       {[id |-> request[r].id, effective |-> effective, form |-> request[r].form]}
  /\ Becomes(r, Idle)
  /\ UNCHANGED <<clock, membershipVars>>

----------------------------------------------------------------------------
(* Activation.                                                              *)

\* pickCurrent: the greatest effective_from at or before now, then the highest id.
CurrentAt(now) ==
  LET due == {v \in versions : v.effective <= now}
      later(v, w) == v.effective > w.effective \/ (v.effective = w.effective /\ v.id > w.id)
  IN  IF due = {} THEN NoVersion
      ELSE (CHOOSE v \in due : \A w \in due : ~later(w, v)).id

\* The decision email's render mints a link; the job may render more than one.
RenderDecision(t, p) ==
  /\ token[t] = "unminted"
  /\ token' = [token EXCEPT ![t] = "live"]
  /\ mailedTo' = [mailedTo EXCEPT ![t] = p]
  /\ UNCHANGED <<clock, versions, address, links, active, recorded, account, request>>

ExpireToken(t) ==
  /\ token[t] = "live"
  /\ token' = [token EXCEPT ![t] = "expired"]
  /\ UNCHANGED <<clock, versions, address, mailedTo, links, active, recorded, account, request>>

\* peekActivation: a link is good or it is not, and looking consumes nothing.
Good(t) == token[t] = "live"

\* The assent page: a link that is still good, and the current agreement.
LoadAssent(t) ==
  /\ Good(t)
  /\ CurrentAt(clock) # NoVersion
  /\ links' = links \union {[token |-> t, shown |-> CurrentAt(clock)]}
  /\ links' # links
  /\ UNCHANGED <<clock, versions, address, mailedTo, token, active, recorded, account, request>>

\* activateMembership notes the time and looks at the token: a consumed one is a
\* replay, which changes nothing here.  Expiry is judged by the time noted.
OpenActivation(r, f) ==
  /\ In(r, "idle")
  /\ token[f.token] # "used"
  /\ Becomes(r, [op |-> "opened", form |-> f, at |-> clock, valid |-> token[f.token] = "live",
                 posted |-> CurrentAt(clock)])
  /\ UNCHANGED <<clock, versions, membershipVars>>

Owner(r) == mailedTo[request[r].form.token]

Registering(p) == {r \in Request : In(r, "registered") /\ Owner(r) = p}

\* What consumeToken finds once it has the row's lock.
Unconsumed(t) == token[t] # "used"

\* What lockMembership finds.
Pending(p) == p \notin active

\* Mutation: the version on the form is recorded whichever is current.
PresentsAny(r) == request[r].form.shown \in {v.id : v \in versions}

\* requireCurrentAgreement, by the time the request noted.
PresentsCurrent(r) == request[r].form.shown = CurrentAt(request[r].at)

\* Mutation: handles are not unique.
HandleFreeUnindexed(a) == a \in Address

\* The unique index on the handle, where an insert waits for another's outcome.
HandleFree(a) ==
  /\ account[a] = NoOne
  /\ \A p \in Person : address[p] = a => Registering(p) = {}

\* Mutation: the token is consumed in a transaction of its own.
RegisterConsuming(r) ==
  LET p == Owner(r)
  IN  /\ In(r, "opened")
      /\ Registering(p) = {}
      /\ request[r].valid
      /\ Unconsumed(request[r].form.token)
      /\ Pending(p)
      /\ PresentsCurrent(r)
      /\ HandleFree(address[p])
      /\ token' = [token EXCEPT ![request[r].form.token] = "used"]
      /\ Becomes(r, [request[r] EXCEPT !.op = "registered"])
      /\ UNCHANGED <<clock, versions, address, mailedTo, links, active, recorded, account>>

\* The token is consumed, the membership locked, the agreement required and the
\* user created, each of them or none.
Register(r) ==
  LET p == Owner(r)
  IN  /\ In(r, "opened")
      /\ Registering(p) = {}
      /\ request[r].valid
      /\ Unconsumed(request[r].form.token)
      /\ Pending(p)
      /\ PresentsCurrent(r)
      /\ HandleFree(address[p])
      /\ Becomes(r, [request[r] EXCEPT !.op = "registered"])
      /\ UNCHANGED <<clock, versions, membershipVars>>

CommitActivation(r) ==
  LET p == Owner(r)
  IN  /\ In(r, "registered")
      /\ token' = [token EXCEPT ![request[r].form.token] = "used"]
      /\ active' = active \union {p}
      /\ recorded' = [recorded EXCEPT ![p] = request[r].form.shown]
      /\ account' = [account EXCEPT ![address[p]] = p]
      /\ Becomes(r, Idle)
      /\ UNCHANGED <<clock, versions, address, mailedTo, links>>

Next ==
  \/ Tick
  \/ \E t \in Token : ExpireToken(t) \/ LoadAssent(t) \/ \E p \in Person : RenderDecision(t, p)
  \/ \E r \in Request :
       \/ \E o \in Operator : OpenPublish(r, o)
       \/ TakeNumber(r)
       \/ \E effective \in Time : CommitPublish(r, effective)
       \/ \E f \in links : OpenActivation(r, f)
       \/ Register(r)
       \/ CommitActivation(r)
       \/ Ends(r)

Spec == Init /\ [][Next]_vars

----------------------------------------------------------------------------
(* Properties.                                                              *)

\* A form that is posted twice, even at once, publishes once (the route's
\* "DOUBLE-SUBMIT SAFETY"): an operator's requests queue for the user row before
\* they look at the next number.  The version has the number that its form showed
\* unless another operator's publication took that one (README, section 4).
OnePublicationPerForm ==
  \A v \in versions :
    /\ \A w \in versions : v.form = w.form => v = w
    /\ v.id # v.form.seen => \E w \in versions : w.id = v.form.seen /\ w.form.by # v.form.by

\* Every activation records the version its page had shown and that was current when
\* its form was posted, whatever is published, backdated or comes into effect from
\* the first statement to the commit (assent/+page.server.ts: "never a silent assent to text
\* the person did not read").
AssentWasCurrent ==
  [][\A r \in Request : In(r, "registered") /\ active' # active /\ ~In(r, "registered")' =>
       recorded'[Owner(r)] = request[r].form.shown /\ request[r].form.shown = request[r].posted]_vars

\* A membership is active exactly when one of its links was spent on it, and one only:
\* copies of the link, double clicks and refusals that come after the token was consumed
\* included (activateMembership: "token consumption included"); and then the account of
\* its address is its own: of two people with one address the second is refused.
ActivatesOnce ==
  \A p \in Person :
    /\ Cardinality({t \in Token : mailedTo[t] = p /\ token[t] = "used"}) = (IF p \in active THEN 1 ELSE 0)
    /\ p \in active <=> account[address[p]] = p

=============================================================================
