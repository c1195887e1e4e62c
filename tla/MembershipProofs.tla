-------------------------- MODULE MembershipProofs --------------------------
(***************************************************************************)
(* Proofs about Membership for any number of people, requests and sessions: *)
(* that a departure is final and is made from what its page showed, and     *)
(* which sessions and which powers outlive it.  The row locks carry them:   *)
(* one sweep of a membership at a time, which nothing moves meanwhile, and  *)
(* one request at a time that has a session in hand.                        *)
(***************************************************************************)
EXTENDS Membership, TLAPS

-----------------------------------------------------------------------------
(* The inductive invariant, in parts.                                       *)

\* A version counts the moves of its membership, on every page too.
VersionInv ==
  /\ \A p \in Person : version[p] = moves[p] + 1
  /\ \A r \in Request :
       /\ In(r, "page") => request[r].version = request[r].moves + 1
       /\ In(r, "reauth") => request[r].form.version = request[r].form.moves + 1

\* Of one membership there is one sweep, and what it saw stays true until it ends.
SweepInv ==
  \A r \in Request : In(r, "offboard") =>
    /\ status[request[r].of] \in {"active", "paused"}
    /\ moves[request[r].of] = request[r].seen
    /\ \A q \in Request : In(q, "offboard") /\ request[q].of = request[r].of => q = r

\* r has a session in hand.
InHand(r) == In(r, "reauth") \/ (In(r, "offboard") /\ request[r].held # NoSession)

\* It is a session of the one who asks, and in one hand only.
HeldInv ==
  \A r \in Request : InHand(r) =>
    /\ request[r].held \in Session
    /\ owner[request[r].held] = request[r].who
    /\ In(r, "reauth") => request[r].form.who = request[r].who
    /\ \A q \in Request : InHand(q) /\ request[q].held = request[r].held => q = r

\* Whoever is in flight beside a sweep of theirs is overtaken.
OvertakenInv ==
  \A r, q \in Request : In(r, "offboard") /\ q # r /\ Proving(q, request[r].of) => q \in overtaken

\* Whoever is in flight after their departure was overtaken, or has a late session.
GhostInv ==
  \A q \in Request, p \in Person :
    Proving(q, p) /\ status[p] \in Departed =>
      q \in overtaken \/ (InHand(q) /\ request[q].held \in late)

\* What a sweep has missed is late.
MissedInv ==
  \A r \in Request, s \in Session :
    In(r, "offboard") /\ owner[s] = request[r].of =>
      s \in request[r].doomed \/ s = request[r].held \/ s \in late

IInv ==
  /\ MembershipTypeOK
  /\ VersionInv
  /\ SweepInv
  /\ HeldInv
  /\ OvertakenInv
  /\ GhostInv
  /\ MissedInv
  /\ OnlyLateSessionsSurvive

-----------------------------------------------------------------------------
(* What is under way, kind by kind.                                         *)

State == {Idle} \union Page \union Login \union Reauth \union Offboarding

LEMMA Kinds ==
  ASSUME NEW x \in State
  PROVE  /\ x.op = "idle" <=> x = Idle
         /\ x.op = "page" => x \in Page
         /\ x.op = "login" => x \in Login
         /\ x.op = "reauth" => x \in Reauth
         /\ x.op = "offboard" => x \in Offboarding
BY DEF State, Idle, Page, Login, Reauth, Offboarding

\* What each kind of request carries.
LEMMA Carried ==
  ASSUME MembershipTypeOK, NEW r \in Request
  PROVE  /\ request[r] \in State
         /\ In(r, "page") => request[r] \in Page
         /\ In(r, "login") => request[r].who \in Person
         /\ In(r, "reauth") => /\ request[r].who \in Person /\ request[r].held \in Session
                               /\ request[r].form \in Page
         /\ In(r, "offboard") => /\ request[r].who \in Person /\ request[r].of \in Person
                                 /\ request[r].to \in Departed
                                 /\ request[r].held \in Session \union {NoSession}
                                 /\ request[r].doomed \in SUBSET Session
                                 /\ request[r].seen \in Nat
<1>1. request[r] \in State
  BY DEF MembershipTypeOK, State
<1> QED BY <1>1, Kinds DEF In, Page, Login, Reauth, Offboarding

\* One request changes and the others stay as they are.
LEMMA OneChanges ==
  ASSUME MembershipTypeOK, NEW r \in Request, NEW x, request' = [request EXCEPT ![r] = x]
  PROVE  /\ request'[r] = x
         /\ \A q \in Request : q # r => request'[q] = request[q]
BY DEF MembershipTypeOK

LEMMA InitIsInvariant == ASSUME Init PROVE IInv
<1>1. MembershipTypeOK
  BY DEF Init, MembershipTypeOK, Status
<1>2. VersionInv /\ SweepInv
  BY DEF Init, VersionInv, SweepInv, In, Idle
<1>3. HeldInv /\ OvertakenInv /\ GhostInv /\ MissedInv
  BY DEF Init, HeldInv, OvertakenInv, GhostInv, MissedInv, InHand, Proving, In, Idle
<1>4. OnlyLateSessionsSurvive
  BY MembershipAssumption DEF Init, OnlyLateSessionsSurvive
<1> QED BY <1>1, <1>2, <1>3, <1>4 DEF IInv

-----------------------------------------------------------------------------
(* Sessions that end, and memberships that move without a departure.        *)

\* Rows that nobody holds are deleted.
LEMMA DeletionKeeps ==
  ASSUME IInv, MembershipTypeOK', NEW gone \in SUBSET Session,
         \A r \in Request, s \in gone : ~Holds(r, s),
         owner' = [s \in Session |-> IF s \in gone THEN NoOne ELSE owner[s]],
         late' = late \ gone,
         UNCHANGED <<rowVars, request, overtaken>>
  PROVE  IInv'
<1> USE DEF rowVars
<1>1. VersionInv' /\ SweepInv' /\ OvertakenInv'
  BY DEF IInv, VersionInv, SweepInv, OvertakenInv, In, Proving
<1>2. \A r \in Request : InHand(r) => request[r].held \in Session \ gone
  BY DEF IInv, HeldInv, InHand, Holds
<1>3. HeldInv' /\ GhostInv'
  BY <1>2 DEF IInv, HeldInv, GhostInv, InHand, In, Proving
<1>4. MissedInv'
  <2>1. \A r \in Request : In(r, "offboard") => request[r].of # NoOne
    BY Carried, MembershipAssumption DEF IInv
  <2> QED BY <2>1 DEF IInv, MissedInv, In
<1>5. OnlyLateSessionsSurvive'
  BY MembershipAssumption DEF IInv, OnlyLateSessionsSurvive
<1> QED BY <1>1, <1>3, <1>4, <1>5 DEF IInv

LEMMA EndSessionKeeps == ASSUME IInv, NEW s \in Session, EndSession(s) PROVE IInv'
<1>1. MembershipTypeOK'
  BY DEF EndSession, Rotate, Forget, rowVars, IInv, MembershipTypeOK
<1>2. owner' = [t \in Session |-> IF t \in {s} THEN NoOne ELSE owner[t]]
  BY DEF EndSession, Rotate
<1> QED BY <1>1, <1>2, DeletionKeeps DEF EndSession, Forget

LEMMA SetPasswordKeeps == ASSUME IInv, NEW p \in Person, SetPassword(p) PROVE IInv'
<1>1. MembershipTypeOK'
  BY DEF SetPassword, Rotate, SessionsOf, rowVars, IInv, MembershipTypeOK
<1>2. owner' = [t \in Session |-> IF t \in SessionsOf(p) THEN NoOne ELSE owner[t]]
  BY DEF SetPassword, Rotate
<1>3. SessionsOf(p) \in SUBSET Session
  BY DEF SessionsOf
<1> QED BY <1>1, <1>2, <1>3, DeletionKeeps DEF SetPassword

\* A membership that nobody sweeps becomes active or paused.
LEMMA MoveKeeps ==
  ASSUME IInv, NEW p \in Person, NEW to \in {"active", "paused"}, Moves(p, to),
         \A r \in Request : ~Sweeping(r, p),
         UNCHANGED <<owed, owner, request, outdated, overtaken, late>>
  PROVE  IInv'
<1>1. /\ MembershipTypeOK /\ status'[p] = to /\ moves'[p] = moves[p] + 1
      /\ version'[p] = version[p] + 1
      /\ \A q \in Person \ {p} : /\ status'[q] = status[q] /\ moves'[q] = moves[q]
                                 /\ version'[q] = version[q]
  BY DEF Moves, IInv, MembershipTypeOK
<1>2. MembershipTypeOK'
  BY DEF Moves, IInv, MembershipTypeOK, Status
<1>3. VersionInv'
  BY <1>1 DEF IInv, VersionInv, MembershipTypeOK, In
<1>4. SweepInv'
  <2>1. \A r \in Request : In(r, "offboard") => request[r].of \in Person \ {p}
    BY <1>1, Carried DEF Sweeping
  <2> QED BY <1>1, <2>1 DEF IInv, SweepInv, In
<1>5. HeldInv' /\ OvertakenInv' /\ MissedInv'
  BY DEF IInv, HeldInv, OvertakenInv, MissedInv, InHand, Proving, In
<1>6. GhostInv' /\ OnlyLateSessionsSurvive'
  BY <1>1 DEF IInv, GhostInv, OnlyLateSessionsSurvive, Departed, InHand, Proving, In
<1> QED BY <1>2, <1>3, <1>4, <1>5, <1>6 DEF IInv

LEMMA PauseKeeps == ASSUME IInv, NEW p \in Person, Pause(p) \/ Resume(p) PROVE IInv'
BY MoveKeeps DEF Pause, Resume, MembershipFree

\* An application that is activated has no sweep to disturb.
LEMMA ActivateKeeps ==
  ASSUME IInv, NEW p \in Person, NEW s \in Session, Activate(p, s)
  PROVE  IInv'
<1>1. /\ MembershipTypeOK /\ status'[p] = "active" /\ moves'[p] = moves[p] + 1
      /\ version'[p] = version[p] + 1
      /\ \A q \in Person \ {p} : /\ status'[q] = status[q] /\ moves'[q] = moves[q]
                                 /\ version'[q] = version[q]
      /\ UNCHANGED <<request, overtaken, late>>
      /\ owner'[s] = p /\ owner[s] = NoOne /\ \A t \in Session \ {s} : owner'[t] = owner[t]
  BY DEF Activate, Fresh, Moves, Rotate, IInv, MembershipTypeOK
<1>2. MembershipTypeOK'
  BY DEF Activate, Moves, Rotate, IInv, MembershipTypeOK, Status
<1>3. VersionInv'
  BY <1>1 DEF IInv, VersionInv, MembershipTypeOK, In
<1>4. \A r \in Request : In(r, "offboard") => request[r].of \in Person \ {p}
  BY <1>1, Carried DEF IInv, SweepInv, Activate
<1>5. SweepInv'
  BY <1>1, <1>4 DEF IInv, SweepInv, In
<1>6. \A r \in Request : InHand(r) => request[r].held # s
  BY <1>1, Carried, MembershipAssumption DEF IInv, HeldInv, InHand
<1>7. HeldInv' /\ OvertakenInv'
  BY <1>1, <1>6 DEF IInv, HeldInv, OvertakenInv, InHand, Proving, In
<1>8. MissedInv'
  BY <1>1, <1>4 DEF IInv, MissedInv, In
<1>9. GhostInv' /\ OnlyLateSessionsSurvive'
  BY <1>1, MembershipAssumption
     DEF IInv, GhostInv, OnlyLateSessionsSurvive, Departed, InHand, Proving, In
<1> QED BY <1>2, <1>3, <1>5, <1>7, <1>8, <1>9 DEF IInv

-----------------------------------------------------------------------------
(* Requests that begin.                                                     *)

LEMMA LoadPageKeeps ==
  ASSUME IInv, NEW r \in Request, NEW p \in Person, NEW q \in Person, LoadPage(r, p, q)
  PROVE  IInv'
<1> DEFINE page == [op |-> "page", who |-> p, of |-> q, version |-> version[q], moves |-> moves[q]]
<1>1. /\ page \in Page /\ request' = [request EXCEPT ![r] = page]
      /\ UNCHANGED <<status, version, owed, moves, owner, outdated, overtaken, late>>
  BY DEF LoadPage, Becomes, rowVars, Page, IInv, MembershipTypeOK
<1>2. request'[r] = page /\ \A k \in Request : k # r => request'[k] = request[k]
  BY <1>1, OneChanges DEF IInv
<1> HIDE DEF page
<1>3. page.op = "page" /\ page.version = page.moves + 1
  BY DEF page, IInv, VersionInv
<1>4. MembershipTypeOK'
  BY <1>1 DEF IInv, MembershipTypeOK
<1>5. VersionInv' /\ SweepInv'
  BY <1>1, <1>2, <1>3 DEF IInv, VersionInv, SweepInv, In
<1>6. HeldInv' /\ OvertakenInv'
  BY <1>1, <1>2, <1>3 DEF IInv, HeldInv, OvertakenInv, InHand, Proving, In
<1>7. GhostInv' /\ MissedInv' /\ OnlyLateSessionsSurvive'
  BY <1>1, <1>2, <1>3
     DEF IInv, GhostInv, MissedInv, OnlyLateSessionsSurvive, InHand, Proving, In
<1> QED BY <1>4, <1>5, <1>6, <1>7 DEF IInv

LEMMA OpenLoginKeeps ==
  ASSUME IInv, NEW r \in Request, NEW p \in Person, OpenLogin(r, p)
  PROVE  IInv'
<1> DEFINE login == [op |-> "login", who |-> p]
<1>1. /\ login \in Login /\ request' = [request EXCEPT ![r] = login] /\ In(r, "idle")
      /\ UNCHANGED <<status, version, owed, moves, owner, outdated, late>>
      /\ overtaken \subseteq overtaken' /\ overtaken' \subseteq Request
      /\ (\E k \in Request : Sweeping(k, p)) => r \in overtaken'
      /\ status[p] \notin Departed
  BY DEF OpenLogin, Becomes, Starts, MembershipFree, MayLogIn, Departed, rowVars, Login, IInv,
         MembershipTypeOK
<1>2. request'[r] = login /\ \A k \in Request : k # r => request'[k] = request[k]
  BY <1>1, OneChanges DEF IInv
<1> HIDE DEF login
<1>3. login.op = "login" /\ login.who = p
  BY DEF login
<1>4. MembershipTypeOK'
  BY <1>1 DEF IInv, MembershipTypeOK
<1>5. VersionInv' /\ SweepInv'
  BY <1>1, <1>2, <1>3 DEF IInv, VersionInv, SweepInv, In
<1>6. HeldInv'
  BY <1>1, <1>2, <1>3 DEF IInv, HeldInv, InHand, In
<1>7. OvertakenInv'
  BY <1>1, <1>2, <1>3 DEF IInv, OvertakenInv, Sweeping, Proving, In
<1>8. GhostInv'
  BY <1>1, <1>2, <1>3 DEF IInv, GhostInv, InHand, Proving, In
<1>9. MissedInv' /\ OnlyLateSessionsSurvive'
  BY <1>1, <1>2, <1>3 DEF IInv, MissedInv, OnlyLateSessionsSurvive, In
<1> QED BY <1>4, <1>5, <1>6, <1>7, <1>8, <1>9 DEF IInv

\* The session taken in hand is live, so that of somebody departed is late.
LEMMA OpenReauthKeeps ==
  ASSUME IInv, NEW r \in Request, NEW s \in Session, OpenReauth(r, s)
  PROVE  IInv'
<1> DEFINE p == request[r].who
           reauth == [op |-> "reauth", who |-> p, held |-> s, form |-> request[r]]
<1>1. /\ In(r, "page") /\ request[r] \in Page /\ p \in Person
      /\ request[r].version = request[r].moves + 1
      /\ owner[s] = p /\ \A q \in Request \ {r} : ~Holds(q, s)
  BY Carried DEF OpenReauth, TakesRow, RowFree, IInv, VersionInv, Page
<1>2. /\ reauth \in Reauth /\ request' = [request EXCEPT ![r] = reauth]
      /\ UNCHANGED <<status, version, owed, moves, owner, outdated, late>>
      /\ overtaken \subseteq overtaken' /\ overtaken' \subseteq Request
      /\ (\E k \in Request : Sweeping(k, p)) => r \in overtaken'
  BY <1>1 DEF OpenReauth, Becomes, Starts, MembershipFree, rowVars, Reauth, IInv, MembershipTypeOK
<1>3. request'[r] = reauth /\ \A k \in Request : k # r => request'[k] = request[k]
  BY <1>2, OneChanges DEF IInv
<1>4. /\ reauth.op = "reauth" /\ reauth.who = p /\ reauth.held = s
      /\ reauth.form.version = reauth.form.moves + 1 /\ reauth.form.who = p
  BY <1>1
<1> HIDE DEF reauth, p
<1>5. MembershipTypeOK'
  BY <1>2 DEF IInv, MembershipTypeOK
<1>6. VersionInv' /\ SweepInv'
  BY <1>1, <1>2, <1>3, <1>4 DEF IInv, VersionInv, SweepInv, In
<1>7. HeldInv'
  BY <1>1, <1>2, <1>3, <1>4 DEF IInv, HeldInv, InHand, Holds, In
<1>8. OvertakenInv'
  BY <1>1, <1>2, <1>3, <1>4 DEF IInv, OvertakenInv, Sweeping, Proving, In
<1>9. GhostInv'
  BY <1>1, <1>2, <1>3, <1>4 DEF IInv, GhostInv, OnlyLateSessionsSurvive, InHand, Proving, In
<1>10. MissedInv' /\ OnlyLateSessionsSurvive'
  BY <1>1, <1>2, <1>3, <1>4 DEF IInv, MissedInv, OnlyLateSessionsSurvive, In
<1> QED BY <1>5, <1>6, <1>7, <1>8, <1>9, <1>10 DEF IInv

-----------------------------------------------------------------------------
(* Requests that sweep.                                                     *)

\* The page is in its membership's version, so it has seen its last move; whoever
\* is in flight as the member is overtaken, and no session is missed yet.
LEMMA SweepKeeps ==
  ASSUME IInv, NEW r \in Request, NEW form \in Page, NEW held \in Session \union {NoSession},
         NEW to \in Departed, Sweep(r, form, held, to), In(r, "page") \/ In(r, "reauth"),
         form.version = form.moves + 1,
         held # NoSession => /\ In(r, "reauth") /\ request[r].held = held
                             /\ request[r].who = form.who
  PROVE  IInv'
<1> DEFINE p == form.of
           offboarding == [op |-> "offboard", who |-> form.who, held |-> held, of |-> p, to |-> to,
                           seen |-> form.moves, doomed |-> Swept(p) \ {held}]
<1>1. /\ p \in Person /\ form.who \in Person /\ form.moves \in Nat /\ form.version \in Nat
      /\ Swept(p) = {s \in Session : owner[s] = p}
  BY DEF Page, Swept, SessionsOf
<1>2. /\ offboarding \in Offboarding /\ request' = [request EXCEPT ![r] = offboarding]
      /\ UNCHANGED <<status, version, owed, moves, owner, outdated, late>>
      /\ overtaken' = overtaken \union {q \in Request \ {r} : Proving(q, p)}
      /\ status[p] \in {"active", "paused"} /\ form.version = version[p]
      /\ \A q \in Request : ~Sweeping(q, p)
  BY <1>1 DEF Sweep, Becomes, MembershipFree, rowVars, Offboarding
<1>3. request'[r] = offboarding /\ \A k \in Request : k # r => request'[k] = request[k]
  BY <1>2, OneChanges DEF IInv
<1>4. /\ offboarding.op = "offboard" /\ offboarding.who = form.who /\ offboarding.held = held
      /\ offboarding.of = p /\ offboarding.seen = form.moves
      /\ offboarding.doomed = Swept(p) \ {held}
  OBVIOUS
<1>5. moves[p] = form.moves
  BY <1>1, <1>2 DEF IInv, VersionInv, MembershipTypeOK
<1> HIDE DEF offboarding, p
<1>6. MembershipTypeOK'
  BY <1>2 DEF IInv, MembershipTypeOK
<1>7. VersionInv'
  BY <1>2, <1>3, <1>4 DEF IInv, VersionInv, In
<1>8. SweepInv'
  BY <1>2, <1>3, <1>4, <1>5 DEF IInv, SweepInv, Sweeping, In
<1>9. HeldInv'
  BY <1>2, <1>3, <1>4 DEF IInv, HeldInv, InHand, In
<1>10. OvertakenInv'
  <2>1. \A k, q \in Request : In(k, "offboard")' /\ q # k /\ Proving(q, request[k].of)' /\ k # r
                              => Proving(q, request[k].of)
    BY <1>2, <1>3, <1>4 DEF Proving, In
  <2>2. \A q \in Request : q # r /\ Proving(q, p)' => Proving(q, p)
    BY <1>2, <1>3, <1>4 DEF Proving, In
  <2> QED BY <1>2, <1>3, <1>4, <2>1, <2>2 DEF IInv, OvertakenInv, In
<1>11. GhostInv'
  <2>1. \A q \in Request, o \in Person : Proving(q, o)' => Proving(q, o)
    BY <1>2, <1>3, <1>4 DEF Proving, In
  <2>2. \A q \in Request : Proving(q, request[q].who) /\ InHand(q) =>
                             \/ InHand(q)' /\ request'[q].held = request[q].held
                             \/ ~(\E o \in Person : Proving(q, o)')
    BY <1>2, <1>3, <1>4 DEF Proving, InHand, In
  <2>3. \A q \in Request, o \in Person : Proving(q, o) => request[q].who = o
    BY DEF Proving
  <2> QED BY <1>2, <2>1, <2>2, <2>3 DEF IInv, GhostInv
<1>12. MissedInv'
  BY <1>1, <1>2, <1>3, <1>4 DEF IInv, MissedInv, In
<1>13. OnlyLateSessionsSurvive'
  BY <1>2 DEF IInv, OnlyLateSessionsSurvive
<1> QED BY <1>6, <1>7, <1>8, <1>9, <1>10, <1>11, <1>12, <1>13 DEF IInv

LEMMA LeaveKeeps == ASSUME IInv, NEW r \in Request, Leave(r) PROVE IInv'
<1>1. request[r] \in Page /\ request[r].version = request[r].moves + 1
  BY Carried DEF Leave, IInv, VersionInv
<1> QED BY <1>1, SweepKeeps DEF Leave, Departed

LEMMA RemoveKeeps == ASSUME IInv, NEW r \in Request, Remove(r) PROVE IInv'
<1>1. /\ request[r].form \in Page /\ request[r].held \in Session
      /\ request[r].form.version = request[r].form.moves + 1
      /\ request[r].form.who = request[r].who
  BY Carried DEF Remove, IInv, VersionInv, HeldInv, InHand
<1> QED BY <1>1, SweepKeeps DEF Remove, Departed

-----------------------------------------------------------------------------
(* Requests that end by opening a session.                                  *)

\* p's request r, which is no sweep, ends with the session s in the place of gone.
LEMMA OpeningKeeps ==
  ASSUME IInv, MembershipTypeOK', NEW r \in Request, NEW s \in Session, NEW p \in Person,
         NEW gone \in SUBSET Session, Proving(r, p), ~In(r, "offboard"), Fresh(s),
         InHand(r) => request[r].held \in gone,
         \A q \in Request : InHand(q) /\ q # r => request[q].held \notin gone,
         Rotate(gone, {s}, p), Inherit(r, gone, s), Ends(r), UNCHANGED rowVars
  PROVE  IInv'
<1>1. /\ request'[r] = Idle /\ \A k \in Request : k # r => request'[k] = request[k]
      /\ UNCHANGED <<status, version, owed, moves>>
  BY OneChanges DEF IInv, Ends, rowVars
<1>2. /\ owner'[s] = p /\ owner[s] = NoOne /\ p # NoOne
      /\ \A t \in Session \ {s} : owner'[t] = IF t \in gone THEN NoOne ELSE owner[t]
  BY MembershipAssumption DEF Rotate, Fresh
<1>3. /\ overtaken' = overtaken \ {r}
      /\ \A t \in late : t \in gone \/ t \in late'
      /\ r \in overtaken \/ gone \cap late # {} => s \in late'
  BY DEF Inherit
<1>4. VersionInv' /\ SweepInv'
  BY <1>1 DEF IInv, VersionInv, SweepInv, In, Idle
<1>5. \A q \in Request : q # r /\ InHand(q) =>
        /\ request[q].held \in Session \ gone /\ request[q].held # s
  BY <1>2, Carried, MembershipAssumption DEF IInv, HeldInv, InHand
<1>6. HeldInv'
  BY <1>1, <1>2, <1>5 DEF IInv, HeldInv, InHand, In, Idle
<1>7. OvertakenInv' /\ GhostInv'
  BY <1>1, <1>3, <1>5 DEF IInv, OvertakenInv, GhostInv, InHand, Proving, In, Idle
<1>8. \A q \in Request : In(q, "offboard") => request[q].of # NoOne
  BY Carried, MembershipAssumption DEF IInv
<1>9. MissedInv'
  BY <1>1, <1>2, <1>3, <1>8 DEF IInv, MissedInv, OvertakenInv, In, Idle
<1>10. OnlyLateSessionsSurvive'
  <2>1. status[p] \in Departed => s \in late'
    BY <1>3 DEF IInv, GhostInv
  <2> QED BY <1>1, <1>2, <1>3, <2>1, MembershipAssumption DEF IInv, OnlyLateSessionsSurvive
<1> QED BY <1>4, <1>6, <1>7, <1>9, <1>10 DEF IInv

LEMMA CommitLoginKeeps ==
  ASSUME IInv, NEW r \in Request, NEW s \in Session, CommitLogin(r, s)
  PROVE  IInv'
<1>1. request[r].who \in Person /\ In(r, "login")
  BY Carried DEF CommitLogin, IInv
<1>2. MembershipTypeOK'
  BY <1>1 DEF CommitLogin, Rotate, Inherit, Ends, rowVars, IInv, MembershipTypeOK
<1>3. Proving(r, request[r].who) /\ ~In(r, "offboard") /\ ~InHand(r)
  BY <1>1 DEF Proving, InHand, In
<1> QED BY <1>1, <1>2, <1>3, OpeningKeeps DEF CommitLogin

LEMMA CommitReauthKeeps ==
  ASSUME IInv, NEW r \in Request, NEW s \in Session, CommitReauth(r, s)
  PROVE  IInv'
<1>1. request[r].who \in Person /\ request[r].held \in Session /\ In(r, "reauth")
  BY Carried DEF CommitReauth, IInv
<1>2. MembershipTypeOK'
  BY <1>1 DEF CommitReauth, Rotate, Inherit, Ends, rowVars, IInv, MembershipTypeOK
<1>3. Proving(r, request[r].who) /\ ~In(r, "offboard") /\ InHand(r)
  BY <1>1 DEF Proving, InHand, In
<1>4. \A q \in Request : InHand(q) /\ q # r => request[q].held # request[r].held
  BY <1>3 DEF IInv, HeldInv
<1>5. {request[r].held} \in SUBSET Session
  BY <1>1
<1> QED BY <1>1, <1>2, <1>3, <1>4, <1>5, OpeningKeeps DEF CommitReauth

-----------------------------------------------------------------------------
(* Departures.                                                              *)

\* The sweep r of p ends: gone, all it saw, is deleted, and opened, nothing or a
\* session of somebody else who had one in hand, takes its place.
LEMMA DepartureKeeps ==
  ASSUME IInv, MembershipTypeOK', NEW r \in Request, In(r, "offboard"), Offboards(r),
         NEW opened \in SUBSET Session,
         opened # {} => InHand(r) /\ request[r].who # request[r].of /\ \A s \in opened : Fresh(s),
         NEW gone \in SUBSET Session,
         gone = request[r].doomed \union ({request[r].held} \ {NoSession}),
         Rotate(gone, opened, request[r].who),
         overtaken' = overtaken \ {r},
         \A t \in late : t \in gone \/ t \in late',
         r \in overtaken \/ gone \cap late # {} => opened \subseteq late'
  PROVE  IInv'
<1> DEFINE p == request[r].of
           who == request[r].who
<1>1. /\ MembershipTypeOK /\ p \in Person /\ who \in Person /\ who # NoOne /\ p # NoOne
      /\ request[r].held \in Session \union {NoSession}
  BY Carried, MembershipAssumption DEF IInv
<1>2. /\ request'[r] = Idle /\ \A k \in Request : k # r => request'[k] = request[k]
      /\ version'[p] = version[p] + 1 /\ moves'[p] = moves[p] + 1
      /\ \A q \in Person \ {p} : /\ status'[q] = status[q] /\ moves'[q] = moves[q]
                                 /\ version'[q] = version[q]
  BY <1>1, OneChanges DEF Offboards, Moves, Ends, MembershipTypeOK
<1>3. /\ \A t \in opened : owner'[t] = who /\ owner[t] = NoOne
      /\ \A t \in Session \ opened : owner'[t] = IF t \in gone THEN NoOne ELSE owner[t]
  BY DEF Rotate, Fresh
<1>4. \A q \in Request \ {r} : InHand(q) =>
        request[q].held \in Session /\ request[q].held \notin gone /\ request[q].held \notin opened
  <2>1. ASSUME NEW q \in Request \ {r}, InHand(q) PROVE request[q].held \notin gone
    <3>1. request[q].held \notin request[r].doomed
      BY <2>1 DEF Offboards, RowFree, Holds, InHand
    <3>2. request[r].held = request[q].held => InHand(r)
      BY <2>1, MembershipAssumption DEF IInv, HeldInv, InHand
    <3>3. request[r].held # request[q].held
      BY <2>1, <3>2 DEF IInv, HeldInv
    <3> QED BY <3>1, <3>3
  <2>2. \A q \in Request : InHand(q) => request[q].who # NoOne
    BY Carried, MembershipAssumption DEF IInv, InHand
  <2> QED BY <1>3, <2>1, <2>2 DEF IInv, HeldInv
<1>5. \A q \in Request \ {r} : In(q, "offboard") => request[q].of \in Person \ {p}
  BY Carried DEF IInv, SweepInv
<1>6. opened # {} => Proving(r, who)
  BY DEF InHand, Proving
<1> HIDE DEF p, who
<1>7. VersionInv'
  BY <1>1, <1>2 DEF IInv, VersionInv, MembershipTypeOK, In, Idle
<1>8. SweepInv'
  BY <1>2, <1>5 DEF IInv, SweepInv, In, Idle
<1>9. HeldInv'
  BY <1>2, <1>3, <1>4 DEF IInv, HeldInv, InHand, In, Idle
<1>10. OvertakenInv'
  BY <1>2 DEF IInv, OvertakenInv, Proving, In, Idle
<1>11. GhostInv'
  <2>1. ASSUME NEW q \in Request, NEW o \in Person, Proving(q, o)', o = p
        PROVE  q \in overtaken'
    <3>1. q # r /\ Proving(q, request[r].of)
      BY <1>2, <2>1 DEF Proving, In, Idle, p
    <3> QED BY <3>1 DEF IInv, OvertakenInv
  <2>2. ASSUME NEW q \in Request, NEW o \in Person, Proving(q, o)', o # p,
               status'[o] \in Departed
        PROVE  q \in overtaken' \/ (InHand(q)' /\ request'[q].held \in late')
    <3>1. q # r /\ Proving(q, o) /\ status[o] \in Departed
      BY <1>2, <2>2 DEF Proving, In, Idle
    <3>2. InHand(q) => InHand(q)' /\ request'[q].held = request[q].held
      BY <1>2, <3>1 DEF InHand, In
    <3> QED BY <1>4, <3>1, <3>2 DEF IInv, GhostInv
  <2> QED BY <2>1, <2>2 DEF GhostInv
<1>12. MissedInv'
  <2>1. ASSUME NEW q \in Request, NEW s \in Session, In(q, "offboard")',
               owner'[s] = request'[q].of
        PROVE  s \in request'[q].doomed \/ s = request'[q].held \/ s \in late'
    <3>1. q # r /\ In(q, "offboard") /\ request'[q] = request[q]
      BY <1>2, <2>1 DEF In, Idle
    <3>2. CASE s \in opened
      <4>1. r \in overtaken
        BY <1>3, <1>6, <2>1, <3>1, <3>2 DEF IInv, OvertakenInv
      <4> QED BY <3>2, <4>1
    <3>3. CASE s \notin opened
      <4>1. owner[s] = request[q].of /\ s \notin gone
        BY <1>3, <1>5, <2>1, <3>1, <3>3, MembershipAssumption
      <4> QED BY <3>1, <4>1 DEF IInv, MissedInv
    <3> QED BY <3>2, <3>3
  <2> QED BY <2>1 DEF MissedInv
<1>13. OnlyLateSessionsSurvive'
  <2>1. ASSUME NEW s \in Session, NEW o \in Person, owner'[s] = o, status'[o] \in Departed
        PROVE  s \in late'
    <3>1. CASE s \in opened
      <4>1. o = who /\ o # p /\ InHand(r) /\ Proving(r, o)
        BY <1>3, <1>6, <2>1, <3>1 DEF who, p
      <4>2. status[o] \in Departed
        BY <1>2, <2>1, <4>1
      <4>3. r \in overtaken \/ request[r].held \in late
        BY <4>1, <4>2 DEF IInv, GhostInv
      <4>4. request[r].held \in gone
        BY <4>1, MembershipAssumption DEF IInv, HeldInv
      <4> QED BY <3>1, <4>3, <4>4
    <3>2. CASE s \notin opened
      <4>1. owner[s] = o /\ s \notin gone
        BY <1>3, <2>1, <3>2, MembershipAssumption
      <4>2. CASE o = p
        BY <4>1, <4>2, MembershipAssumption DEF IInv, MissedInv, p
      <4>3. CASE o # p
        BY <1>2, <2>1, <4>1, <4>3 DEF IInv, OnlyLateSessionsSurvive
      <4> QED BY <4>2, <4>3
    <3> QED BY <3>1, <3>2
  <2> QED BY <2>1 DEF OnlyLateSessionsSurvive
<1> QED BY <1>7, <1>8, <1>9, <1>10, <1>11, <1>12, <1>13 DEF IInv

LEMMA CommitOffboardKeeps == ASSUME IInv, NEW r \in Request, CommitOffboard(r) PROVE IInv'
<1> DEFINE gone == request[r].doomed \union ({request[r].held} \ {NoSession})
<1>1. /\ In(r, "offboard") /\ Offboards(r) /\ gone \in SUBSET Session
      /\ request[r].of \in Person /\ request[r].to \in Departed
  BY Carried DEF CommitOffboard, Offboards, IInv
<1>2. /\ Rotate(gone, {}, NoOne) /\ outdated' = outdated \ (gone \union {r})
      /\ late' = late \ gone /\ overtaken' = overtaken \ {r}
  BY DEF CommitOffboard
<1> HIDE DEF gone
<1>3. Rotate(gone, {}, request[r].who)
  BY <1>2 DEF Rotate
<1>4. MembershipTypeOK'
  BY <1>1, <1>2 DEF Rotate, Offboards, Moves, Ends, IInv, MembershipTypeOK, Status, Departed
<1> QED BY <1>1, <1>2, <1>3, <1>4, DepartureKeeps DEF gone

LEMMA CommitRemovalKeeps ==
  ASSUME IInv, NEW r \in Request, NEW s \in Session, CommitRemoval(r, s)
  PROVE  IInv'
<1> DEFINE gone == request[r].doomed \union {request[r].held}
<1>1. /\ In(r, "offboard") /\ Offboards(r) /\ InHand(r)
      /\ request[r].who # request[r].of /\ Fresh(s) /\ request[r].held # NoSession
  BY DEF CommitRemoval, Offboards, InHand
<1>2. /\ request[r].of \in Person /\ request[r].who \in Person /\ request[r].to \in Departed
      /\ gone \in SUBSET Session
      /\ gone = request[r].doomed \union ({request[r].held} \ {NoSession})
  BY <1>1, Carried DEF IInv
<1>3. Rotate(gone, {s}, request[r].who) /\ Inherit(r, gone, s)
  BY DEF CommitRemoval
<1> HIDE DEF gone
<1>4. MembershipTypeOK'
  BY <1>1, <1>2, <1>3
     DEF Rotate, Inherit, Offboards, Moves, Ends, IInv, MembershipTypeOK, Status, Departed
<1>5. /\ overtaken' = overtaken \ {r}
      /\ \A t \in late : t \in gone \/ t \in late'
      /\ r \in overtaken \/ gone \cap late # {} => {s} \subseteq late'
  BY <1>3 DEF Inherit
<1> QED BY <1>1, <1>2, <1>3, <1>4, <1>5, DepartureKeeps

\* A sweep that is undone leaves nobody overtaken by it; no other one is of its member.
LEMMA AbortKeeps == ASSUME IInv, NEW r \in Request, Abort(r) PROVE IInv'
<1> DEFINE unswept == IF In(r, "offboard") THEN {request[r].of} ELSE {}
<1>1. /\ overtaken' = overtaken \ ({r} \union {q \in Request : \E p \in unswept : Proving(q, p)})
      /\ late' = {s \in late : owner[s] \notin unswept}
      /\ Ends(r) /\ outdated' = outdated \ {r}
      /\ UNCHANGED <<status, version, owed, moves, owner>>
  BY DEF Abort, rowVars
<1>2. request'[r] = Idle /\ \A k \in Request : k # r => request'[k] = request[k]
  BY <1>1, OneChanges DEF Ends, IInv
<1>3. /\ \A p \in unswept : status[p] \notin Departed
      /\ \A q \in Request \ {r} : In(q, "offboard") => request[q].of \notin unswept
  BY DEF IInv, SweepInv, Departed
<1> HIDE DEF unswept
<1>4. MembershipTypeOK'
  BY <1>1 DEF Ends, IInv, MembershipTypeOK
<1>5. VersionInv' /\ SweepInv' /\ HeldInv'
  BY <1>1, <1>2 DEF IInv, VersionInv, SweepInv, HeldInv, InHand, In, Idle
<1>6. \A q \in Request, p \in Person : Proving(q, p)' => q # r /\ Proving(q, p) /\ request[q].who = p
  BY <1>2 DEF Proving, In, Idle
<1>7. OvertakenInv'
  <2>1. ASSUME NEW k \in Request, NEW q \in Request, In(k, "offboard")', q # k,
               Proving(q, request[k].of)'
        PROVE  q \in overtaken'
    <3>1. /\ k # r /\ In(k, "offboard") /\ request'[k] = request[k]
          /\ q # r /\ Proving(q, request[k].of) /\ request[q].who = request[k].of
      BY <1>2, <2>1 DEF Proving, In, Idle
    <3>2. q \in overtaken /\ request[k].of \notin unswept
      BY <1>3, <2>1, <3>1 DEF IInv, OvertakenInv
    <3>3. \A p \in unswept : ~Proving(q, p)
      BY <3>1, <3>2 DEF Proving
    <3> QED BY <1>1, <3>1, <3>2, <3>3
  <2> QED BY <2>1 DEF OvertakenInv
<1>8. GhostInv'
  <2>1. ASSUME NEW q \in Request, NEW p \in Person, Proving(q, p)', status[p] \in Departed
        PROVE  q \in overtaken' \/ (InHand(q)' /\ request'[q].held \in late')
    <3>1. q # r /\ Proving(q, p) /\ request[q].who = p /\ p \notin unswept
      BY <1>3, <1>6, <2>1
    <3>2. CASE q \in overtaken
      BY <1>1, <3>1, <3>2 DEF Proving
    <3>3. CASE InHand(q) /\ request[q].held \in late
      <4>1. owner[request[q].held] = p
        BY <3>1, <3>3 DEF IInv, HeldInv
      <4> QED BY <1>1, <1>2, <3>1, <3>3, <4>1 DEF InHand, In
    <3> QED BY <2>1, <3>1, <3>2, <3>3 DEF IInv, GhostInv
  <2> QED BY <1>1, <2>1 DEF GhostInv
<1>9. MissedInv'
  BY <1>1, <1>2, <1>3 DEF IInv, MissedInv, In, Idle
<1>10. OnlyLateSessionsSurvive'
  BY <1>1, <1>3 DEF IInv, OnlyLateSessionsSurvive
<1> QED BY <1>4, <1>5, <1>7, <1>8, <1>9, <1>10 DEF IInv

LEMMA StepKeeps == ASSUME IInv, [Next]_vars PROVE IInv'
<1>1. CASE UNCHANGED vars
  BY <1>1 DEF vars, IInv, MembershipTypeOK, VersionInv, SweepInv, HeldInv, OvertakenInv, GhostInv,
              MissedInv, OnlyLateSessionsSurvive, InHand, Proving, In
<1>2. CASE Next
  BY <1>2, ActivateKeeps, PauseKeeps, SetPasswordKeeps, EndSessionKeeps, OpenLoginKeeps,
     LoadPageKeeps, CommitLoginKeeps, OpenReauthKeeps, CommitReauthKeeps, CommitRemovalKeeps,
     LeaveKeeps, RemoveKeeps, CommitOffboardKeeps, AbortKeeps
     DEF Next
<1> QED BY <1>1, <1>2

-----------------------------------------------------------------------------
(* The theorems.                                                            *)

\* Types, locks and what they protect hold together in every interleaving.
THEOREM MembershipInductive == Spec => []IInv
<1>1. Init => IInv
  BY InitIsInvariant
<1>2. IInv /\ [Next]_vars => IInv'
  BY StepKeeps
<1> QED BY <1>1, <1>2, PTL DEF Spec

\* Every variable keeps its type.
THEOREM MembershipTypeCorrect == Spec => []MembershipTypeOK
<1>1. IInv => MembershipTypeOK
  BY DEF IInv
<1> QED BY <1>1, MembershipInductive, PTL

\* Of the sessions of somebody who departed only late ones are left.
THEOREM DepartedHaveLateSessions == Spec => []OnlyLateSessionsSurvive
<1>1. IInv => OnlyLateSessionsSurvive
  BY DEF IInv
<1> QED BY <1>1, MembershipInductive, PTL

\* No live session and no request in flight has proved a password that was replaced:
\* nobody is in flight as the user whose row setPassword has locked.
THEOREM ResetsEndSessions == Spec => []ResetEndsOldSessions
<1> DEFINE Nobody == outdated = {}
<1>1. Init => Nobody
  BY DEF Init
<1>2. Nobody /\ [Next]_vars => Nobody'
  <2> SUFFICES ASSUME Nobody, [Next]_vars PROVE Nobody'
    OBVIOUS
  <2>1. CASE UNCHANGED vars
    BY <2>1 DEF vars
  <2>2. CASE \E p \in Person, s \in Session : Activate(p, s)
    BY <2>2 DEF Activate
  <2>3. CASE \E p \in Person : Pause(p) \/ Resume(p) \/ SetPassword(p)
    <3>1. ASSUME NEW p \in Person, Pause(p) \/ Resume(p) PROVE Nobody'
      BY <3>1 DEF Pause, Resume
    <3>2. ASSUME NEW p \in Person, SetPassword(p) PROVE Nobody'
      BY <3>2 DEF SetPassword, UserFree
    <3> QED BY <2>3, <3>1, <3>2
  <2>4. CASE \E s \in Session : EndSession(s)
    BY <2>4 DEF EndSession, Forget
  <2>5. CASE \E r \in Request, p \in Person : OpenLogin(r, p)
    BY <2>5 DEF OpenLogin, Starts
  <2>6. CASE \E r \in Request, p, q \in Person : LoadPage(r, p, q)
    BY <2>6 DEF LoadPage
  <2>7. CASE \E r \in Request, s \in Session :
               CommitLogin(r, s) \/ OpenReauth(r, s) \/ CommitReauth(r, s) \/ CommitRemoval(r, s)
    <3>1. ASSUME NEW r \in Request, NEW s \in Session, CommitLogin(r, s) PROVE Nobody'
      BY <3>1 DEF CommitLogin, Inherit, Forget
    <3>2. ASSUME NEW r \in Request, NEW s \in Session, OpenReauth(r, s) PROVE Nobody'
      BY <3>2 DEF OpenReauth, Starts
    <3>3. ASSUME NEW r \in Request, NEW s \in Session, CommitReauth(r, s) PROVE Nobody'
      BY <3>3 DEF CommitReauth, Inherit
    <3>4. ASSUME NEW r \in Request, NEW s \in Session, CommitRemoval(r, s) PROVE Nobody'
      BY <3>4 DEF CommitRemoval, Inherit
    <3> QED BY <2>7, <3>1, <3>2, <3>3, <3>4
  <2>8. CASE \E r \in Request : Leave(r) \/ Remove(r) \/ CommitOffboard(r) \/ Abort(r)
    <3>1. ASSUME NEW r \in Request, Leave(r) \/ Remove(r) PROVE Nobody'
      <4>1. outdated' = outdated
        BY <3>1 DEF Leave, Remove, Sweep
      <4> QED BY <4>1
    <3>2. ASSUME NEW r \in Request, CommitOffboard(r) PROVE Nobody'
      <4>1. \E gone : outdated' = outdated \ gone
        BY <3>2 DEF CommitOffboard
      <4> QED BY <4>1
    <3>3. ASSUME NEW r \in Request, Abort(r) PROVE Nobody'
      <4>1. outdated' = outdated \ {r}
        BY <3>3 DEF Abort
      <4> QED BY <4>1
    <3> QED BY <2>8, <3>1, <3>2, <3>3
  <2> QED BY <2>1, <2>2, <2>3, <2>4, <2>5, <2>6, <2>7, <2>8 DEF Next
<1>3. Nobody => ResetEndsOldSessions
  BY DEF ResetEndsOldSessions
<1> QED BY <1>1, <1>2, <1>3, PTL DEF Spec

\* Only a transition writes a membership, and none leads out of a departure.
THEOREM DeparturesAreFinal == Spec => DepartureIsFinal
<1>1. ASSUME IInv, Next, NEW p \in Person, status[p] \in Departed
      PROVE  status'[p] = status[p] /\ version'[p] = version[p]
  <2>1. CASE \E q \in Person, s \in Session : Activate(q, s)
    BY <1>1, <2>1 DEF Activate, Moves, Departed, IInv, MembershipTypeOK
  <2>2. CASE \E q \in Person : Pause(q) \/ Resume(q)
    BY <1>1, <2>2 DEF Pause, Resume, Moves, Departed, IInv, MembershipTypeOK
  <2>3. CASE \E r \in Request : In(r, "offboard") /\ Offboards(r)
    BY <1>1, <2>3 DEF Offboards, Moves, Departed, IInv, SweepInv, MembershipTypeOK
  <2>4. CASE UNCHANGED <<status, version>>
    BY <2>4
  <2> QED BY <1>1, <2>1, <2>2, <2>3, <2>4
      DEF Next, SetPassword, EndSession, OpenLogin, LoadPage, CommitLogin, OpenReauth,
          CommitReauth, CommitRemoval, Leave, Remove, Sweep, CommitOffboard, Offboards, Abort, rowVars
<1>2. IInv /\ [Next]_vars => \A p \in Person : status[p] \in Departed =>
                               status'[p] = status[p] /\ version'[p] = version[p]
  BY <1>1 DEF vars
<1> QED BY <1>2, MembershipInductive, PTL DEF Spec, DepartureIsFinal

\* A departure takes effect on the membership that its page has shown.
THEOREM DeparturesAreAsShown == Spec => DepartsAsShown
<1>1. IInv => \A r \in Request : In(r, "offboard") => moves[request[r].of] = request[r].seen
  BY DEF IInv, SweepInv
<1>2. IInv /\ [Next]_vars =>
        \A r \in Request : In(r, "offboard") /\ owed' # owed /\ ~In(r, "offboard")' =>
          moves[request[r].of] = request[r].seen
  BY <1>1
<1> QED BY <1>2, MembershipInductive, PTL DEF Spec, DepartsAsShown

\* Whoever removes somebody is no member who departed, or holds a late session.
THEOREM AuthorityEndsWithMembership == Spec => AuthorityEnds
<1>1. IInv => \A r \in Request : In(r, "offboard") /\ request[r].held # NoSession =>
                status[request[r].who] \notin Departed \/ request[r].held \in late
  BY Carried DEF IInv, HeldInv, InHand, OnlyLateSessionsSurvive
<1>2. IInv /\ [Next]_vars =>
        \A r \in Request :
          In(r, "offboard") /\ owed' # owed /\ ~In(r, "offboard")' /\ request[r].held # NoSession =>
            status[request[r].who] \notin Departed \/ request[r].held \in late
  BY <1>1
<1> QED BY <1>2, MembershipInductive, PTL DEF Spec, AuthorityEnds

=============================================================================
