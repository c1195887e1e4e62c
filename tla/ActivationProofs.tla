-------------------------- MODULE ActivationProofs --------------------------
(***************************************************************************)
(* Proofs about Activation for any number of people, links, operators,      *)
(* requests, instants and versions.  What carries them is what a request    *)
(* that is not committed keeps others from doing: it has locked its         *)
(* operator or its person, and its inserts hold their keys.                 *)
(***************************************************************************)
EXTENDS Activation, WellFoundedInduction, FiniteSetTheorems, TLAPS

-----------------------------------------------------------------------------
(* Numbers and the current version.                                         *)

\* A set of numbers that is not empty has a least one.
LEMMA Least ==
  ASSUME NEW T \in SUBSET Nat, T # {}
  PROVE  \E x \in T : \A y \in T : x <= y
<1> DEFINE R == OpToRel(<, Nat)
<1>1. PICK x \in T : \A y \in T : ~ (<<y, x>> \in R)
  <2> HIDE DEF R
  <2>1. IsWellFoundedOn(R, Nat)
    BY NatLessThanWellFounded DEF R
  <2> QED BY <2>1, WFMin
<1>2. \A y \in T : ~ (y < x)
  BY <1>1 DEF OpToRel
<1> QED BY <1>2

\* The number after all those in use, which is the next.
LEMMA NextIdIsNext ==
  ASSUME versions \subseteq Version
  PROVE  /\ NextId \in 1..MaxVersions + 1
         /\ \A v \in versions : v.id < NextId
         /\ NextId = 1 \/ \E v \in versions : v.id = NextId - 1
<1> DEFINE T == {n \in 1..MaxVersions + 1 : \A v \in versions : v.id < n}
<1>1. T \subseteq Nat /\ MaxVersions + 1 \in T
  BY ActivationAssumption DEF Version, Id
<1>2. PICK n \in T : \A k \in T : n <= k
  BY <1>1, Least
<1>3. n = 1 \/ \E v \in versions : v.id = n - 1
  <2> SUFFICES ASSUME n # 1, \A v \in versions : v.id # n - 1 PROVE FALSE
    OBVIOUS
  <2>1. n - 1 \in 1..MaxVersions + 1
    BY <1>2, ActivationAssumption
  <2>2. \A v \in versions : v.id < n - 1
    BY <1>2, ActivationAssumption DEF Version, Id
  <2>3. n - 1 \in T
    BY <2>1, <2>2
  <2> QED BY <1>2, <2>3, ActivationAssumption
<1> QED BY <1>2, <1>3 DEF NextId

Later(v, w) == v.effective > w.effective \/ (v.effective = w.effective /\ v.id > w.id)
Due(set, now) == {v \in set : v.effective <= now}
Latest(v, due) == v \in due /\ \A w \in due : ~Later(w, v)

\* Of the versions that are due one is the latest.
LEMMA LatestExists ==
  ASSUME NEW due \in SUBSET Version, due # {}
  PROVE  \E v \in due : Latest(v, due)
<1>1. PICK v0 \in due : \A w \in due : w.effective <= v0.effective
  <2> DEFINE T == {MaxTime - v.effective : v \in due}
  <2>1. T \subseteq Nat /\ T # {}
    BY ActivationAssumption DEF Version, Time
  <2>2. PICK x \in T : \A y \in T : x <= y
    BY <2>1, Least
  <2>3. PICK v \in due : x = MaxTime - v.effective
    BY <2>2
  <2>4. ASSUME NEW w \in due PROVE w.effective <= v.effective
    <3>1. x <= MaxTime - w.effective
      BY <2>2
    <3> QED BY <2>3, <3>1, ActivationAssumption DEF Version, Time
  <2> QED BY <2>4
<1> DEFINE last == {v \in due : v.effective = v0.effective}
<1>2. PICK v1 \in last : \A w \in last : w.id <= v1.id
  <2> DEFINE T == {MaxVersions - v.id : v \in last}
  <2>1. T \subseteq Nat /\ T # {}
    BY ActivationAssumption DEF Version, Id
  <2>2. PICK x \in T : \A y \in T : x <= y
    BY <2>1, Least
  <2>3. PICK v \in last : x = MaxVersions - v.id
    BY <2>2
  <2>4. ASSUME NEW w \in last PROVE w.id <= v.id
    <3>1. x <= MaxVersions - w.id
      BY <2>2
    <3> QED BY <2>3, <3>1, ActivationAssumption DEF Version, Id
  <2> QED BY <2>4
<1>3. ASSUME NEW w \in due, Later(w, v1) PROVE FALSE
  <2>1. w.effective <= v0.effective /\ v1.effective = v0.effective
    BY <1>1
  <2>2. w.effective \in Int /\ v0.effective \in Int /\ w.id \in Int /\ v1.id \in Int
    BY ActivationAssumption DEF Version, Time, Id
  <2>3. w.effective = v1.effective /\ w.id > v1.id
    BY <1>3, <2>1, <2>2 DEF Later
  <2>4. w \in last
    BY <2>1, <2>3
  <2> QED BY <1>2, <2>2, <2>3, <2>4
<1> QED BY <1>2, <1>3 DEF Latest

\* What pickCurrent finds in a set of versions.
CurrentIn(set, now) ==
  LET later(v, w) == v.effective > w.effective \/ (v.effective = w.effective /\ v.id > w.id)
  IN  IF Due(set, now) = {} THEN NoVersion
      ELSE (CHOOSE v \in Due(set, now) : \A w \in Due(set, now) : ~later(w, v)).id

Unique(set) == \A v, w \in set : v.id = w.id => v = w

LEMMA CurrentAtIsIn ==
  ASSUME NEW now \in Time
  PROVE  /\ CurrentAt(now) = CurrentIn(versions, now)
         /\ CurrentAt(now)' = CurrentIn(versions', now)
BY DEF CurrentAt, CurrentIn, Due

\* It is the latest that is due, and there is one such.
LEMMA CurrentIsLatest ==
  ASSUME NEW set \in SUBSET Version, Unique(set), NEW now \in Time,
         NEW v \in set, Latest(v, Due(set, now))
  PROVE  CurrentIn(set, now) = v.id
<1> DEFINE due == Due(set, now)
           later(u, w) == u.effective > w.effective \/ (u.effective = w.effective /\ u.id > w.id)
           chosen == CHOOSE u \in due : \A w \in due : ~later(w, u)
<1>1. v \in due /\ \A w \in due : ~later(w, v)
  BY DEF Latest, Due, Later
<1>2. chosen \in due /\ \A w \in due : ~later(w, chosen)
  <2> HIDE DEF due
  <2> QED BY <1>1
<1>3. chosen = v
  <2>1. ~later(chosen, v) /\ ~later(v, chosen)
    BY <1>1, <1>2
  <2>2. chosen \in set
    BY <1>2 DEF Due
  <2>3. chosen.effective \in Int /\ v.effective \in Int /\ chosen.id \in Int /\ v.id \in Int
    BY <2>2, ActivationAssumption DEF Version, Time, Id
  <2>4. chosen.id = v.id
    BY <2>1, <2>3
  <2> QED BY <2>2, <2>4 DEF Unique
<1>4. due # {}
  BY <1>1
<1>5. CurrentIn(set, now) = IF due = {} THEN NoVersion ELSE chosen.id
  BY DEF CurrentIn
<1> QED BY <1>3, <1>4, <1>5

\* The current version is one of the set, if any is due.
LEMMA CurrentIsOne ==
  ASSUME NEW set \in SUBSET Version, Unique(set), NEW now \in Time
  PROVE  CurrentIn(set, now) = NoVersion \/ \E v \in set : CurrentIn(set, now) = v.id
<1>1. CASE Due(set, now) = {}
  BY <1>1 DEF CurrentIn
<1>2. CASE Due(set, now) # {}
  <2>1. PICK v \in set : Latest(v, Due(set, now))
    BY <1>2, LatestExists DEF Due
  <2> QED BY <2>1, CurrentIsLatest
<1> QED BY <1>1, <1>2

\* Where one more version is published, the current one stays or is that one.
LEMMA CurrentAfterPublication ==
  ASSUME NEW set \in SUBSET Version, NEW n \in Version, Unique(set \union {n}), NEW now \in Time
  PROVE  CurrentIn(set \union {n}, now) \in {CurrentIn(set, now), n.id}
<1> DEFINE more == set \union {n}
<1>1. CASE Due(more, now) = {}
  <2>1. Due(set, now) = {}
    BY <1>1 DEF Due
  <2> QED BY <1>1, <2>1 DEF CurrentIn
<1>2. CASE Due(more, now) # {}
  <2>1. PICK v \in more : Latest(v, Due(more, now))
    BY <1>2, LatestExists DEF Due
  <2>2. CurrentIn(more, now) = v.id
    BY <2>1, CurrentIsLatest
  <2>3. CASE v \in set
    <3>1. Latest(v, Due(set, now))
      BY <2>1, <2>3 DEF Latest, Due
    <3>2. Unique(set)
      BY DEF Unique
    <3> QED BY <2>2, <2>3, <3>1, <3>2, CurrentIsLatest
  <2>4. CASE v = n
    BY <2>2, <2>4
  <2> QED BY <2>1, <2>3, <2>4
<1> QED BY <1>1, <1>2

-----------------------------------------------------------------------------
(* The inductive invariant, in parts.                                       *)

Publishing(r) == request[r].op \in {"previewed", "numbered"}
Activating(r) == request[r].op \in {"opened", "registered"}

\* Numbers run on, and no version has a number before the one its form showed.
NumberInv ==
  /\ Unique(versions)
  /\ \A v \in versions : v.form.seen <= v.id
  /\ \A v \in versions : \A n \in 1..v.id - 1 : \E w \in versions : w.id = n

\* An operator publishes in one request at a time, and what the operator published
\* before is older than what the form of that request showed.
OperatorInv ==
  \A r \in Request : Publishing(r) =>
    /\ \A q \in Request : q # r /\ Publishing(q) => request[q].form.by # request[r].form.by
    /\ \A v \in versions : v.form.by = request[r].form.by => v.id < request[r].form.seen

\* A number that was taken is not before the one that the form showed.
TakenInv ==
  \A r \in Request :
    /\ In(r, "previewed") => \/ request[r].form.seen = 1
                             \/ \E v \in versions : v.id >= request[r].form.seen - 1
    /\ In(r, "numbered") => /\ request[r].form.seen <= request[r].id
                            /\ \/ request[r].id = 1
                               \/ \E v \in versions : v.id = request[r].id - 1

\* A form of an assent page has a link that was mailed and a version that was
\* published, and there is a current version from then on.
LinkInv ==
  /\ \A t \in Token : token[t] = "unminted" <=> mailedTo[t] = NoOne
  /\ \A f \in links :
       /\ token[f.token] # "unminted"
       /\ \E v \in versions : v.id = f.shown
  /\ links # {} => \E v \in versions : v.effective <= clock
  /\ \A r \in Request : Activating(r) => request[r].form \in links

\* What is current at the time that a request noted is what was current when it
\* was posted, or nothing that its form could have shown.
AssentInv ==
  \A r \in Request :
    /\ In(r, "opened") => \/ CurrentIn(versions, request[r].at) = request[r].posted
                          \/ CurrentIn(versions, request[r].at) # request[r].form.shown
    /\ In(r, "registered") => request[r].form.shown = request[r].posted

\* A request that has registered has its person, its link and its address for itself.
RegisteredInv ==
  \A r \in Request : In(r, "registered") =>
    /\ token[request[r].form.token] # "used"
    /\ Owner(r) \notin active
    /\ account[address[Owner(r)]] = NoOne
    /\ \A q \in Request : q # r /\ In(q, "registered") => address[Owner(q)] # address[Owner(r)]

SpentOn(p) == {t \in Token : mailedTo[t] = p /\ token[t] = "used"}

\* Nothing is spent on a pending membership, one link on an active one, which has
\* the account of its address.
SpentInv ==
  \A p \in Person :
    /\ IF p \in active THEN \E t \in Token : SpentOn(p) = {t} ELSE SpentOn(p) = {}
    /\ p \in active <=> account[address[p]] = p

PublishInv == NumberInv /\ OperatorInv /\ TakenInv /\ OnePublicationPerForm
ActivateInv == LinkInv /\ AssentInv /\ RegisteredInv /\ SpentInv
IInv == TypeOK /\ PublishInv /\ ActivateInv

LEMMA InitIsInvariant == ASSUME Init PROVE IInv
<1>1. TypeOK
  BY ActivationAssumption DEF Init, TypeOK, Time
<1>2. PublishInv
  BY DEF Init, PublishInv, NumberInv, OperatorInv, TakenInv, OnePublicationPerForm, Unique,
         Publishing, In, Idle
<1>3. ActivateInv
  BY ActivationAssumption DEF Init, ActivateInv, LinkInv, AssentInv, RegisteredInv, SpentInv,
         SpentOn, Activating, In, Idle
<1> QED BY <1>1, <1>2, <1>3 DEF IInv

\* What a request is, by where it stands.
LEMMA Places ==
  ASSUME TypeOK, NEW r \in Request
  PROVE  /\ request[r].op \in {"idle", "previewed", "numbered", "opened", "registered"}
         /\ request[r].op = "idle" => request[r] = Idle
         /\ request[r].op = "previewed" => request[r] \in Previewed
         /\ request[r].op = "numbered" => request[r] \in Numbered
         /\ request[r].op = "opened" => request[r] \in Opened
         /\ request[r].op = "registered" => request[r] \in Registered
<1>1. request[r] \in {Idle} \union Previewed \union Numbered \union Opened \union Registered
  BY DEF TypeOK
<1>2. Idle.op = "idle"
  BY DEF Idle
<1>3. \A q \in Previewed : q.op = "previewed"
  BY DEF Previewed
<1>4. \A q \in Numbered : q.op = "numbered"
  BY DEF Numbered
<1>5. \A q \in Opened : q.op = "opened"
  BY DEF Opened
<1>6. \A q \in Registered : q.op = "registered"
  BY DEF Registered
<1> QED BY <1>1, <1>2, <1>3, <1>4, <1>5, <1>6

\* The owner of a request is the person whose link it posted.
LEMMA OwnerIsPerson ==
  ASSUME IInv, NEW r \in Request, Activating(r)
  PROVE  /\ request[r].form \in links /\ request[r].form.token \in Token
         /\ Owner(r) \in Person /\ address[Owner(r)] \in Address
<1>1. request[r].form \in links /\ token[request[r].form.token] # "unminted"
  BY DEF IInv, ActivateInv, LinkInv
<1>2. request[r].form.token \in Token
  BY <1>1 DEF IInv, TypeOK, Link
<1>3. mailedTo[request[r].form.token] \in Person
  BY <1>1, <1>2 DEF IInv, TypeOK, ActivateInv, LinkInv
<1> QED BY <1>1, <1>2, <1>3 DEF Owner, IInv, TypeOK

-----------------------------------------------------------------------------
(* Steps that change no request, and ends of requests.                      *)

\* The request of a step is where it stood, or elsewhere.
LEMMA Moved ==
  ASSUME TypeOK, NEW r \in Request, NEW state, Becomes(r, state)
  PROVE  request'[r] = state /\ \A q \in Request : q # r => request'[q] = request[q]
BY DEF TypeOK, Becomes

LEMMA EndsKeeps == ASSUME IInv, NEW r \in Request, Ends(r) PROVE IInv'
<1>1. request'[r] = Idle /\ \A q \in Request : q # r => request'[q] = request[q]
  BY Moved DEF Ends, IInv
<1>2. TypeOK'
  BY DEF Ends, Becomes, IInv, TypeOK, membershipVars
<1>3. PublishInv'
  BY <1>1 DEF Ends, IInv, PublishInv, NumberInv, OperatorInv, TakenInv, OnePublicationPerForm,
              Publishing, In, Idle
<1>4. ActivateInv'
  BY <1>1 DEF Ends, IInv, ActivateInv, LinkInv, AssentInv, RegisteredInv, SpentInv, SpentOn, Owner,
              Activating, In, Idle, membershipVars
<1> QED BY <1>2, <1>3, <1>4 DEF IInv

LEMMA TickKeeps == ASSUME IInv, Tick PROVE IInv'
<1>1. TypeOK'
  BY ActivationAssumption DEF Tick, IInv, TypeOK, Time, membershipVars
<1>2. PublishInv'
  BY DEF Tick, IInv, PublishInv, NumberInv, OperatorInv, TakenInv, OnePublicationPerForm,
         Publishing, In
<1>3. LinkInv'
  BY ActivationAssumption DEF Tick, IInv, TypeOK, Version, Time, ActivateInv, LinkInv, Activating,
                              membershipVars
<1>4. AssentInv' /\ RegisteredInv' /\ SpentInv'
  BY DEF Tick, IInv, ActivateInv, AssentInv, RegisteredInv, SpentInv, SpentOn, Owner, In,
         membershipVars
<1> QED BY <1>1, <1>2, <1>3, <1>4 DEF IInv, ActivateInv

LEMMA RenderDecisionKeeps ==
  ASSUME IInv, NEW t \in Token, NEW p \in Person, RenderDecision(t, p)
  PROVE  IInv'
<1>1. /\ token' = [token EXCEPT ![t] = "live"] /\ mailedTo' = [mailedTo EXCEPT ![t] = p]
      /\ token[t] = "unminted"
      /\ UNCHANGED <<clock, versions, address, links, active, recorded, account, request>>
  BY DEF RenderDecision
<1>2. TypeOK'
  BY <1>1 DEF IInv, TypeOK
<1>3. PublishInv'
  BY <1>1 DEF IInv, PublishInv, NumberInv, OperatorInv, TakenInv, OnePublicationPerForm,
         Publishing, In
<1>4. LinkInv'
  BY <1>1, ActivationAssumption DEF IInv, TypeOK, ActivateInv, LinkInv, Activating, Link
<1>5. AssentInv'
  BY <1>1 DEF IInv, ActivateInv, AssentInv, In
<1>6. RegisteredInv'
  <2>1. \A r \in Request : In(r, "registered") =>
          request[r].form.token \in Token /\ request[r].form.token # t
    BY <1>1, OwnerIsPerson DEF IInv, ActivateInv, LinkInv, Activating, In
  <2>2. \A r \in Request : In(r, "registered") =>
          Owner(r)' = Owner(r) /\ token'[request[r].form.token] = token[request[r].form.token]
    BY <1>1, <2>1 DEF Owner, IInv, TypeOK
  <2> QED BY <1>1, <2>2 DEF IInv, ActivateInv, RegisteredInv, In
<1>7. SpentInv'
  <2>1. \A x \in Person : SpentOn(x)' = SpentOn(x)
    BY <1>1 DEF SpentOn, IInv, TypeOK
  <2> QED BY <1>1, <2>1 DEF IInv, ActivateInv, SpentInv
<1> QED BY <1>2, <1>3, <1>4, <1>5, <1>6, <1>7 DEF IInv, ActivateInv

LEMMA ExpireTokenKeeps == ASSUME IInv, NEW t \in Token, ExpireToken(t) PROVE IInv'
<1>1. /\ token' = [token EXCEPT ![t] = "expired"] /\ token[t] = "live"
      /\ UNCHANGED <<clock, versions, address, mailedTo, links, active, recorded, account, request>>
  BY DEF ExpireToken
<1>2. TypeOK'
  BY <1>1 DEF IInv, TypeOK
<1>3. PublishInv'
  BY <1>1 DEF IInv, PublishInv, NumberInv, OperatorInv, TakenInv, OnePublicationPerForm,
         Publishing, In
<1>4. \A u \in Token : /\ token'[u] = "unminted" <=> token[u] = "unminted"
                       /\ token'[u] = "used" <=> token[u] = "used"
  BY <1>1 DEF IInv, TypeOK
<1>5. LinkInv'
  BY <1>1, <1>4 DEF IInv, TypeOK, ActivateInv, LinkInv, Activating, Link
<1>6. AssentInv'
  BY <1>1 DEF IInv, ActivateInv, AssentInv, In
<1>7. RegisteredInv'
  BY <1>1, <1>4, OwnerIsPerson DEF IInv, ActivateInv, RegisteredInv, Activating, In, Owner
<1>8. SpentInv'
  <2>1. \A x \in Person : SpentOn(x)' = SpentOn(x)
    BY <1>1, <1>4 DEF SpentOn
  <2> QED BY <1>1, <2>1 DEF IInv, ActivateInv, SpentInv
<1> QED BY <1>2, <1>3, <1>5, <1>6, <1>7, <1>8 DEF IInv, ActivateInv

LEMMA LoadAssentKeeps == ASSUME IInv, NEW t \in Token, LoadAssent(t) PROVE IInv'
<1> DEFINE f == [token |-> t, shown |-> CurrentAt(clock)]
<1>1. /\ links' = links \union {f} /\ token[t] = "live" /\ CurrentAt(clock) # NoVersion
      /\ UNCHANGED <<clock, versions, address, mailedTo, token, active, recorded, account, request>>
  BY DEF LoadAssent, Good
<1>2. clock \in Time /\ versions \in SUBSET Version /\ Unique(versions)
  BY DEF IInv, TypeOK, PublishInv, NumberInv
<1>3. PICK v \in versions : v.id = CurrentAt(clock)
  BY <1>1, <1>2, CurrentIsOne, CurrentAtIsIn
<1>4. f \in Link /\ f.token = t /\ f.shown = v.id
  BY <1>2, <1>3 DEF Link, Version
<1>5. \E w \in versions : w.effective <= clock
  BY <1>1 DEF CurrentAt
<1> HIDE DEF f
<1>6. TypeOK'
  BY <1>1, <1>4 DEF IInv, TypeOK
<1>7. PublishInv'
  BY <1>1 DEF IInv, PublishInv, NumberInv, OperatorInv, TakenInv, OnePublicationPerForm,
         Publishing, In
<1>8. LinkInv'
  BY <1>1, <1>4, <1>5 DEF IInv, ActivateInv, LinkInv, Activating
<1>9. AssentInv' /\ RegisteredInv' /\ SpentInv'
  BY <1>1 DEF IInv, ActivateInv, AssentInv, RegisteredInv, SpentInv, SpentOn, Owner, In
<1> QED BY <1>6, <1>7, <1>8, <1>9 DEF IInv, ActivateInv

-----------------------------------------------------------------------------
(* Publication.                                                             *)

LEMMA OpenPublishKeeps ==
  ASSUME IInv, NEW r \in Request, NEW o \in Operator, OpenPublish(r, o)
  PROVE  IInv'
<1> DEFINE f == [by |-> o, seen |-> NextId]
<1>1. /\ request[r].op = "idle" /\ OperatorFree(o)
      /\ request' = [request EXCEPT ![r] = [op |-> "previewed", form |-> f]]
      /\ UNCHANGED <<clock, versions, membershipVars>>
  BY DEF OpenPublish, In, Becomes
<1>2. /\ request'[r].op = "previewed" /\ request'[r].form = f
      /\ \A q \in Request : q # r => request'[q] = request[q]
  BY <1>1 DEF IInv, TypeOK
<1>3. /\ NextId \in 1..MaxVersions + 1
      /\ \A v \in versions : v.id < NextId
      /\ NextId = 1 \/ \E v \in versions : v.id = NextId - 1
  BY NextIdIsNext DEF IInv, TypeOK
<1>4. f \in Preview /\ f.by = o /\ f.seen = NextId
  BY <1>3, ActivationAssumption DEF Preview, Id
<1> HIDE DEF f
<1>5. TypeOK'
  <2>1. [op |-> "previewed", form |-> f] \in Previewed
    BY <1>4 DEF Previewed
  <2> QED BY <1>1, <2>1 DEF IInv, TypeOK, membershipVars
<1>6. OperatorInv'
  <2>1. \A q \in Request : Publishing(q) => q # r /\ request[q].form.by # o
    BY <1>1 DEF OperatorFree, Publishing, In
  <2>2. \A q \in Request : q # r => (Publishing(q)' <=> Publishing(q)) /\ request'[q] = request[q]
    BY <1>2 DEF Publishing
  <2> QED BY <1>1, <1>2, <1>3, <1>4, <2>1, <2>2 DEF IInv, PublishInv, OperatorInv, Publishing
<1>7. TakenInv'
  <2>1. \A v \in versions : v.id \in Nat
    BY ActivationAssumption DEF IInv, TypeOK, Version, Id
  <2> QED BY <1>1, <1>2, <1>3, <1>4, <2>1 DEF IInv, PublishInv, TakenInv, In
<1>8. NumberInv' /\ OnePublicationPerForm'
  BY <1>1 DEF IInv, PublishInv, NumberInv, OnePublicationPerForm
<1>9. ActivateInv'
  <2>1. \A q \in Request : request'[q] = request[q] \/ (~Activating(q) /\ ~Activating(q)')
    BY <1>1, <1>2 DEF Activating
  <2>2. LinkInv'
    BY <1>1, <2>1 DEF IInv, ActivateInv, LinkInv, Activating, membershipVars
  <2>3. AssentInv'
    BY <1>1, <2>1 DEF IInv, ActivateInv, AssentInv, Activating, In, membershipVars
  <2>4. RegisteredInv'
    BY <1>1, <2>1 DEF IInv, ActivateInv, RegisteredInv, Activating, Owner, In, membershipVars
  <2>5. SpentInv'
    BY <1>1 DEF IInv, ActivateInv, SpentInv, SpentOn, membershipVars
  <2> QED BY <2>2, <2>3, <2>4, <2>5 DEF ActivateInv
<1> QED BY <1>5, <1>6, <1>7, <1>8, <1>9 DEF IInv, PublishInv

LEMMA TakeNumberKeeps == ASSUME IInv, NEW r \in Request, TakeNumber(r) PROVE IInv'
<1> DEFINE f == request[r].form
           n == NextId
<1>1. /\ request[r].op = "previewed" /\ n <= MaxVersions
      /\ request' = [request EXCEPT ![r] = [op |-> "numbered", form |-> f, id |-> n]]
      /\ UNCHANGED <<clock, versions, membershipVars>>
  BY DEF TakeNumber, In, Becomes
<1>2. /\ request'[r].op = "numbered" /\ request'[r].form = f /\ request'[r].id = n
      /\ \A q \in Request : q # r => request'[q] = request[q]
  BY <1>1 DEF IInv, TypeOK
<1>3. /\ n \in 1..MaxVersions + 1
      /\ \A v \in versions : v.id < n
      /\ n = 1 \/ \E v \in versions : v.id = n - 1
  BY NextIdIsNext DEF IInv, TypeOK
<1>4. f \in Preview /\ f.seen \in Nat
  <2>1. request[r] \in Previewed
    BY <1>1, Places DEF IInv
  <2> QED BY <2>1, ActivationAssumption DEF Previewed, Preview, Id
<1>5. n \in Id
  BY <1>1, <1>3, ActivationAssumption DEF Id
<1>6. f.seen <= n
  <2>1. f.seen = 1 \/ \E v \in versions : v.id >= f.seen - 1
    BY <1>1 DEF IInv, PublishInv, TakenInv, In
  <2>2. \A v \in versions : v.id \in Nat
    BY ActivationAssumption DEF IInv, TypeOK, Version, Id
  <2> QED BY <1>3, <1>4, <1>5, <2>1, <2>2, ActivationAssumption
<1>7. \A q \in Request : /\ Publishing(q)' <=> Publishing(q)
                         /\ request'[q].form = request[q].form
  BY <1>1, <1>2 DEF Publishing
<1> HIDE DEF f, n
<1>8. TypeOK'
  <2>1. [op |-> "numbered", form |-> f, id |-> n] \in Numbered
    BY <1>4, <1>5 DEF Numbered
  <2> QED BY <1>1, <2>1 DEF IInv, TypeOK, membershipVars
<1>9. OperatorInv'
  BY <1>1, <1>7 DEF IInv, PublishInv, OperatorInv
<1>10. TakenInv'
  BY <1>1, <1>2, <1>3, <1>6 DEF IInv, PublishInv, TakenInv, In
<1>11. NumberInv' /\ OnePublicationPerForm'
  BY <1>1 DEF IInv, PublishInv, NumberInv, OnePublicationPerForm
<1>12. ActivateInv'
  <2>1. \A q \in Request : request'[q] = request[q] \/ (~Activating(q) /\ ~Activating(q)')
    BY <1>1, <1>2 DEF Activating
  <2>2. LinkInv'
    BY <1>1, <2>1 DEF IInv, ActivateInv, LinkInv, Activating, membershipVars
  <2>3. AssentInv'
    BY <1>1, <2>1 DEF IInv, ActivateInv, AssentInv, Activating, In, membershipVars
  <2>4. RegisteredInv'
    BY <1>1, <2>1 DEF IInv, ActivateInv, RegisteredInv, Activating, Owner, In, membershipVars
  <2>5. SpentInv'
    BY <1>1 DEF IInv, ActivateInv, SpentInv, SpentOn, membershipVars
  <2> QED BY <2>2, <2>3, <2>4, <2>5 DEF ActivateInv
<1> QED BY <1>8, <1>9, <1>10, <1>11, <1>12 DEF IInv, PublishInv

LEMMA CommitPublishKeeps ==
  ASSUME IInv, NEW r \in Request, NEW effective \in Time, CommitPublish(r, effective)
  PROVE  IInv'
<1> DEFINE f == request[r].form
           n == request[r].id
           new == [id |-> n, effective |-> effective, form |-> f]
<1>1. /\ request[r].op = "numbered" /\ \A v \in versions : v.id # n
      /\ versions' = versions \union {new}
      /\ request' = [request EXCEPT ![r] = Idle]
      /\ UNCHANGED <<clock, membershipVars>>
  BY DEF CommitPublish, In, Becomes, Taken
<1>2. /\ request'[r] = Idle /\ request'[r].op = "idle"
      /\ \A q \in Request : q # r => request'[q] = request[q]
  BY <1>1 DEF IInv, TypeOK, Idle
<1>3. f \in Preview /\ f.seen \in Nat /\ n \in Id /\ n \in Nat
  <2>1. request[r] \in Numbered
    BY <1>1, Places DEF IInv
  <2> QED BY <2>1, ActivationAssumption DEF Numbered, Preview, Id
<1>4. new \in Version /\ new.id = n /\ new.form = f
  BY <1>3 DEF Version
<1>5. /\ f.seen <= n
      /\ n = 1 \/ \E v \in versions : v.id = n - 1
  BY <1>1 DEF IInv, PublishInv, TakenInv, In
<1>6. \A v \in versions : v.form.by = f.by => v.id < f.seen
  BY <1>1 DEF IInv, PublishInv, OperatorInv, Publishing
<1>7. \A q \in Request : q # r /\ Publishing(q) => request[q].form.by # f.by
  BY <1>1 DEF IInv, PublishInv, OperatorInv, Publishing
<1>8. \A v \in versions : v \in Version /\ v.id \in Nat /\ v.form.seen \in Nat
  BY ActivationAssumption DEF IInv, TypeOK, Version, Id, Preview
<1> HIDE DEF f, n, new
<1>9. TypeOK'
  BY <1>1, <1>4 DEF IInv, TypeOK, membershipVars
<1>10. Unique(versions')
  BY <1>1, <1>4 DEF IInv, PublishInv, NumberInv, Unique
<1>11. NumberInv'
  <2>1. \A v \in versions' : v.form.seen <= v.id
    BY <1>1, <1>4, <1>5 DEF IInv, PublishInv, NumberInv
  <2>2. ASSUME NEW k \in 1..n - 1 PROVE \E w \in versions : w.id = k
    <3>1. PICK v \in versions : v.id = n - 1
      BY <1>3, <1>5
    <3>2. k = v.id \/ k \in 1..v.id - 1
      BY <1>3, <3>1
    <3> QED BY <3>1, <3>2 DEF IInv, PublishInv, NumberInv
  <2>3. \A v \in versions' : \A k \in 1..v.id - 1 : \E w \in versions' : w.id = k
    BY <1>1, <1>4, <2>2 DEF IInv, PublishInv, NumberInv
  <2> QED BY <1>10, <2>1, <2>3 DEF NumberInv
<1>12. OnePublicationPerForm'
  <2>1. ASSUME NEW v \in versions PROVE v.form # f
    <3>1. v.form = f => v.id < f.seen /\ f.seen <= v.id
      BY <1>6 DEF IInv, PublishInv, NumberInv
    <3> QED BY <1>3, <1>8, <3>1
  <2>2. ASSUME n # f.seen PROVE \E w \in versions : w.id = f.seen /\ w.form.by # f.by
    <3>1. f.seen \in 1..n - 1
      <4>1. f.seen \in Nat \ {0}
        BY <1>3, ActivationAssumption DEF Preview, Id
      <4> QED BY <1>3, <1>5, <2>2, <4>1
    <3>2. PICK v \in versions : v.id = n - 1
      BY <1>3, <1>5, <3>1
    <3>3. f.seen = v.id \/ f.seen \in 1..v.id - 1
      BY <1>3, <3>1, <3>2
    <3>4. PICK w \in versions : w.id = f.seen
      BY <3>2, <3>3 DEF IInv, PublishInv, NumberInv
    <3>5. w.form.by # f.by
      BY <1>3, <1>6, <3>4
    <3> QED BY <3>4, <3>5
  <2>3. ASSUME NEW v \in versions'
        PROVE  /\ \A w \in versions' : v.form = w.form => v = w
               /\ v.id # v.form.seen =>
                    \E w \in versions' : w.id = v.form.seen /\ w.form.by # v.form.by
    <3>1. CASE v \in versions
      BY <1>1, <1>4, <2>1, <3>1 DEF IInv, PublishInv, OnePublicationPerForm
    <3>2. CASE v = new
      BY <1>1, <1>4, <2>1, <2>2, <3>2
    <3> QED BY <1>1, <3>1, <3>2
  <2> QED BY <2>3 DEF OnePublicationPerForm
<1>13. OperatorInv'
  <2>1. \A q \in Request : Publishing(q)' => q # r /\ Publishing(q) /\ request'[q] = request[q]
    BY <1>2 DEF Publishing
  <2>2. \A q \in Request : Publishing(q)' => new.form.by # request[q].form.by
    BY <1>4, <1>7, <2>1
  <2> QED BY <1>1, <2>1, <2>2 DEF IInv, PublishInv, OperatorInv
<1>14. TakenInv'
  BY <1>1, <1>2 DEF IInv, PublishInv, TakenInv, In
<1>15. LinkInv'
  BY <1>1, <1>2 DEF IInv, ActivateInv, LinkInv, Activating, membershipVars
<1>16. AssentInv'
  <2> SUFFICES ASSUME NEW q \in Request, q # r
               PROVE  In(q, "opened") =>
                        \/ CurrentIn(versions', request[q].at) = request[q].posted
                        \/ CurrentIn(versions', request[q].at) # request[q].form.shown
    BY <1>1, <1>2 DEF IInv, ActivateInv, AssentInv, In
  <2> SUFFICES ASSUME In(q, "opened")
               PROVE  \/ CurrentIn(versions', request[q].at) = request[q].posted
                      \/ CurrentIn(versions', request[q].at) # request[q].form.shown
    OBVIOUS
  <2>1. request[q].at \in Time
    BY Places DEF IInv, In, Opened
  <2>2. CurrentIn(versions', request[q].at) \in {CurrentIn(versions, request[q].at), n}
    BY <1>1, <1>4, <1>10, <2>1, CurrentAfterPublication DEF IInv, TypeOK
  <2>3. request[q].form.shown # n
    BY <1>1 DEF IInv, ActivateInv, LinkInv, Activating, In
  <2> QED BY <2>2, <2>3 DEF IInv, ActivateInv, AssentInv
<1>17. RegisteredInv' /\ SpentInv'
  BY <1>1, <1>2 DEF IInv, ActivateInv, RegisteredInv, SpentInv, SpentOn, Owner, In,
         membershipVars
<1> QED BY <1>9, <1>11, <1>12, <1>13, <1>14, <1>15, <1>16, <1>17 DEF IInv, PublishInv, ActivateInv

-----------------------------------------------------------------------------
(* Activation.                                                              *)

\* A step of an activation, which is about no publication.
LEMMA PublishInvKept ==
  ASSUME IInv, NEW r \in Request, ~Publishing(r), ~Publishing(r)', UNCHANGED versions,
         \A q \in Request : q # r => request'[q] = request[q]
  PROVE  PublishInv'
BY DEF IInv, PublishInv, NumberInv, OperatorInv, TakenInv, OnePublicationPerForm,
         Publishing, In

LEMMA OpenActivationKeeps ==
  ASSUME IInv, NEW r \in Request, NEW f \in links, OpenActivation(r, f)
  PROVE  IInv'
<1> DEFINE new == [op |-> "opened", form |-> f, at |-> clock, valid |-> token[f.token] = "live",
                   posted |-> CurrentAt(clock)]
<1>1. /\ request[r].op = "idle" /\ request' = [request EXCEPT ![r] = new]
      /\ UNCHANGED <<clock, versions, membershipVars>>
  BY DEF OpenActivation, In, Becomes
<1>2. request'[r] = new /\ \A q \in Request : q # r => request'[q] = request[q]
  BY <1>1 DEF IInv, TypeOK
<1>3. CurrentAt(clock) \in Id /\ CurrentIn(versions, clock) = CurrentAt(clock)
  <2>1. clock \in Time /\ versions \in SUBSET Version /\ Unique(versions)
    BY DEF IInv, TypeOK, PublishInv, NumberInv
  <2>2. Due(versions, clock) # {}
    BY DEF IInv, ActivateInv, LinkInv, Due
  <2>3. PICK v \in versions : Latest(v, Due(versions, clock))
    BY <2>1, <2>2, LatestExists DEF Due
  <2>4. CurrentIn(versions, clock) = v.id
    BY <2>1, <2>3, CurrentIsLatest
  <2> QED BY <2>1, <2>4, CurrentAtIsIn DEF Version
<1>4. /\ new \in Opened /\ new.op = "opened" /\ new.form = f /\ new.at = clock
      /\ new.posted = CurrentAt(clock)
  BY <1>3 DEF Opened, IInv, TypeOK
<1> HIDE DEF new
<1>5. TypeOK'
  BY <1>1, <1>4 DEF IInv, TypeOK, membershipVars
<1>6. PublishInv'
  BY <1>1, <1>2, <1>4, PublishInvKept DEF Publishing
<1>7. LinkInv'
  BY <1>1, <1>2, <1>4 DEF IInv, ActivateInv, LinkInv, Activating, membershipVars
<1>8. AssentInv'
  BY <1>1, <1>2, <1>3, <1>4 DEF IInv, ActivateInv, AssentInv, In
<1>9. RegisteredInv' /\ SpentInv'
  BY <1>1, <1>2, <1>4 DEF IInv, ActivateInv, RegisteredInv, SpentInv, SpentOn, Owner, In,
         membershipVars
<1> QED BY <1>5, <1>6, <1>7, <1>8, <1>9 DEF IInv, ActivateInv

LEMMA RegisterKeeps == ASSUME IInv, NEW r \in Request, Register(r) PROVE IInv'
<1> DEFINE p == Owner(r)
           new == [request[r] EXCEPT !.op = "registered"]
<1>1. /\ request[r].op = "opened" /\ request[r].valid
      /\ token[request[r].form.token] # "used" /\ p \notin active
      /\ request[r].form.shown = CurrentAt(request[r].at)
      /\ HandleFree(address[p])
      /\ request' = [request EXCEPT ![r] = new]
      /\ UNCHANGED <<clock, versions, membershipVars>>
  BY DEF Register, In, Becomes, Unconsumed, Pending, PresentsCurrent
<1>2. request'[r] = new /\ \A q \in Request : q # r => request'[q] = request[q]
  BY <1>1 DEF IInv, TypeOK
<1>3. request[r] \in Opened
  BY <1>1, Places DEF IInv
<1>4. /\ new \in Registered /\ new.op = "registered" /\ new.form = request[r].form
      /\ new.posted = request[r].posted
  BY <1>1, <1>3 DEF Opened, Registered
<1>5. p \in Person /\ address[p] \in Address
  BY <1>1, OwnerIsPerson DEF Activating
<1> HIDE DEF new
<1>6. TypeOK'
  BY <1>1, <1>4 DEF IInv, TypeOK, membershipVars
<1>7. PublishInv'
  BY <1>1, <1>2, <1>4, PublishInvKept DEF Publishing
<1>8. LinkInv'
  BY <1>1, <1>2, <1>4 DEF IInv, ActivateInv, LinkInv, Activating, membershipVars
<1>9. AssentInv'
  <2>1. CurrentAt(request[r].at) = CurrentIn(versions, request[r].at)
    BY <1>3, CurrentAtIsIn DEF Opened
  <2>2. request[r].form.shown = request[r].posted
    BY <1>1, <2>1 DEF IInv, ActivateInv, AssentInv, In
  <2> QED BY <1>1, <1>2, <1>4, <2>2 DEF IInv, ActivateInv, AssentInv, In
<1>10. RegisteredInv'
  <2>1. \A q \in Request : Owner(q)' = Owner(q)
    BY <1>1, <1>2, <1>4 DEF Owner, membershipVars
  <2>2. \A q \in Request : q # r => (In(q, "registered")' <=> In(q, "registered"))
    BY <1>2 DEF In
  <2>3. \A q \in Request : In(q, "registered") =>
          Owner(q) \in Person /\ address[Owner(q)] # address[p]
    <3> SUFFICES ASSUME NEW q \in Request, In(q, "registered")
                 PROVE  Owner(q) \in Person /\ address[Owner(q)] # address[p]
      OBVIOUS
    <3>1. Owner(q) \in Person /\ q \in Registering(Owner(q))
      BY OwnerIsPerson DEF Activating, In, Registering
    <3> QED BY <1>1, <3>1 DEF HandleFree
  <2>4. account[address[p]] = NoOne
    BY <1>1 DEF HandleFree
  <2>5. \A q \in Request : q # r => request'[q].form = request[q].form
    BY <1>2
  <2> QED BY <1>1, <1>2, <1>4, <2>1, <2>2, <2>3, <2>4, <2>5
          DEF IInv, ActivateInv, RegisteredInv, membershipVars
<1>11. SpentInv'
  BY <1>1 DEF IInv, ActivateInv, SpentInv, SpentOn, membershipVars
<1> QED BY <1>6, <1>7, <1>8, <1>9, <1>10, <1>11 DEF IInv, ActivateInv

LEMMA CommitActivationKeeps == ASSUME IInv, NEW r \in Request, CommitActivation(r) PROVE IInv'
<1> DEFINE p == Owner(r)
           t == request[r].form.token
<1>1. /\ request[r].op = "registered"
      /\ token' = [token EXCEPT ![t] = "used"]
      /\ active' = active \union {p}
      /\ recorded' = [recorded EXCEPT ![p] = request[r].form.shown]
      /\ account' = [account EXCEPT ![address[p]] = p]
      /\ request' = [request EXCEPT ![r] = Idle]
      /\ UNCHANGED <<clock, versions, address, mailedTo, links>>
  BY DEF CommitActivation, In, Becomes
<1>2. /\ request'[r] = Idle /\ request'[r].op = "idle"
      /\ \A q \in Request : q # r => request'[q] = request[q]
  BY <1>1 DEF IInv, TypeOK, Idle
<1>3. /\ request[r].form \in links /\ t \in Token /\ p \in Person /\ address[p] \in Address
      /\ mailedTo[t] = p
  BY <1>1, OwnerIsPerson DEF Activating, Owner
<1>4. /\ token[t] # "used" /\ p \notin active /\ account[address[p]] = NoOne
      /\ \A q \in Request : q # r /\ In(q, "registered") => address[Owner(q)] # address[p]
  BY <1>1 DEF IInv, ActivateInv, RegisteredInv, In
<1>5. request[r].form.shown \in Id /\ token[t] # "unminted"
  BY <1>3 DEF IInv, TypeOK, Link, ActivateInv, LinkInv
<1> HIDE DEF p, t
<1>6. TypeOK'
  BY <1>1, <1>3, <1>5 DEF IInv, TypeOK
<1>7. PublishInv'
  BY <1>1, <1>2, PublishInvKept DEF Publishing
<1>8. LinkInv'
  BY <1>1, <1>2, <1>3, <1>5 DEF IInv, TypeOK, ActivateInv, LinkInv, Activating, Link
<1>9. AssentInv'
  BY <1>1, <1>2 DEF IInv, ActivateInv, AssentInv, In
<1>10. RegisteredInv'
  <2>1. \A q \in Request : In(q, "registered")' =>
          /\ q # r /\ In(q, "registered") /\ request'[q] = request[q] /\ Owner(q)' = Owner(q)
    BY <1>1, <1>2 DEF In, Owner
  <2>2. \A q \in Request : In(q, "registered") =>
          /\ Owner(q) \in Person /\ request[q].form.token \in Token
          /\ mailedTo[request[q].form.token] = Owner(q)
    BY OwnerIsPerson DEF Activating, In, Owner
  <2>3. \A q \in Request : In(q, "registered") /\ q # r =>
          /\ Owner(q) # p /\ request[q].form.token # t /\ address[Owner(q)] # address[p]
    BY <1>3, <1>4, <2>2
  <2> QED BY <1>1, <1>3, <2>1, <2>2, <2>3 DEF IInv, TypeOK, ActivateInv, RegisteredInv
<1>11. SpentInv'
  <2>1. ASSUME NEW x \in Person, x = p PROVE SpentOn(x)' = {t}
    <3>1. SpentOn(x) = {}
      BY <1>4, <2>1 DEF IInv, ActivateInv, SpentInv
    <3>2. SpentOn(x)' = SpentOn(x) \union {t}
      BY <1>1, <1>3, <2>1 DEF IInv, TypeOK, SpentOn
    <3> QED BY <3>1, <3>2
  <2>2. ASSUME NEW x \in Person, x # p PROVE SpentOn(x)' = SpentOn(x)
    BY <1>1, <1>3, <2>2 DEF IInv, TypeOK, SpentOn
  <2>3. \A x \in Person : x # p => (account'[address[x]] = x <=> account[address[x]] = x)
    BY <1>1, <1>3, <1>4, ActivationAssumption DEF IInv, TypeOK
  <2>4. account'[address[p]] = p
    BY <1>1, <1>3 DEF IInv, TypeOK
  <2>5. ASSUME NEW x \in Person
        PROVE  /\ IF x \in active' THEN \E u \in Token : SpentOn(x)' = {u} ELSE SpentOn(x)' = {}
               /\ x \in active' <=> account'[address'[x]] = x
    <3>1. CASE x = p
      BY <1>1, <1>3, <2>1, <2>4, <3>1
    <3>2. CASE x # p
      BY <1>1, <2>2, <2>3, <3>2 DEF IInv, ActivateInv, SpentInv
    <3> QED BY <3>1, <3>2
  <2> QED BY <2>5 DEF SpentInv
<1> QED BY <1>6, <1>7, <1>8, <1>9, <1>10, <1>11 DEF IInv, ActivateInv

LEMMA StepKeeps == ASSUME IInv, [Next]_vars PROVE IInv'
<1>1. CASE UNCHANGED vars
  BY <1>1 DEF vars, membershipVars, IInv, TypeOK, PublishInv, NumberInv, OperatorInv, TakenInv,
              OnePublicationPerForm, Publishing, ActivateInv, LinkInv, AssentInv, RegisteredInv,
              SpentInv, SpentOn, Owner, Activating, In
<1>2. CASE Next
  BY <1>2, TickKeeps, ExpireTokenKeeps, LoadAssentKeeps, RenderDecisionKeeps, OpenPublishKeeps,
     TakeNumberKeeps, CommitPublishKeeps, OpenActivationKeeps, RegisterKeeps,
     CommitActivationKeeps, EndsKeeps DEF Next
<1> QED BY <1>1, <1>2

-----------------------------------------------------------------------------
(* The theorems.                                                            *)

\* Numbers, operators, links, accounts and what requests hold stay together under
\* any interleaving of publications and activations.
THEOREM ActivationInductive == Spec => []IInv
<1>1. Init => IInv
  BY InitIsInvariant
<1>2. IInv /\ [Next]_vars => IInv'
  BY StepKeeps
<1> QED BY <1>1, <1>2, PTL DEF Spec

\* Every variable keeps its type.
THEOREM ActivationTypeCorrect == Spec => []TypeOK
<1>1. IInv => TypeOK
  BY DEF IInv
<1> QED BY <1>1, ActivationInductive, PTL

\* A form publishes once, and under the number it showed unless another operator
\* took that one.
THEOREM FormsPublishOnce == Spec => []OnePublicationPerForm
<1>1. IInv => OnePublicationPerForm
  BY DEF IInv, PublishInv
<1> QED BY <1>1, ActivationInductive, PTL

\* One link is spent on an active membership, and none on a pending one; the account
\* of the address is its own.
THEOREM LinksActivateOnce == Spec => []ActivatesOnce
<1>1. \A t : Cardinality({t}) = 1
  BY FS_Singleton
<1>2. Cardinality({}) = 0
  BY FS_EmptySet
<1>3. IInv => ActivatesOnce
  BY <1>1, <1>2 DEF IInv, ActivateInv, SpentInv, SpentOn, ActivatesOnce
<1> QED BY <1>3, ActivationInductive, PTL

\* An activation records the version that its page had shown and that was current
\* when its form was posted.
THEOREM AssentsAreCurrent == Spec => AssentWasCurrent
<1>1. ASSUME IInv, Next, NEW r \in Request, In(r, "registered"), active' # active,
             ~In(r, "registered")'
      PROVE  /\ recorded'[Owner(r)] = request[r].form.shown
             /\ request[r].form.shown = request[r].posted
  <2>1. \E q \in Request : CommitActivation(q)
    BY <1>1 DEF Next, Tick, ExpireToken, LoadAssent, RenderDecision, OpenPublish, TakeNumber,
                CommitPublish, OpenActivation, Register, Ends, membershipVars
  <2>2. CommitActivation(r)
    BY <1>1, <2>1, Moved DEF CommitActivation, In, IInv
  <2>3. Owner(r) \in Person
    BY <1>1, OwnerIsPerson DEF Activating, In
  <2>4. recorded'[Owner(r)] = request[r].form.shown
    BY <2>2, <2>3, <1>1 DEF CommitActivation, IInv, TypeOK
  <2>5. request[r].form.shown = request[r].posted
    BY <1>1 DEF IInv, ActivateInv, AssentInv
  <2> QED BY <2>4, <2>5
<1>2. IInv /\ [Next]_vars =>
        \A r \in Request : In(r, "registered") /\ active' # active /\ ~In(r, "registered")' =>
          recorded'[Owner(r)] = request[r].form.shown /\ request[r].form.shown = request[r].posted
  BY <1>1 DEF vars, membershipVars
<1> QED BY <1>2, ActivationInductive, PTL DEF Spec, AssentWasCurrent

=============================================================================
