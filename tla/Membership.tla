----------------------------- MODULE Membership -----------------------------
(***************************************************************************)
(* Memberships, the sessions that give access to them, and the requests    *)
(* that move both: activation, login, reauthentication, pause and resume,  *)
(* leaving and removal (src/lib/server/membership, src/lib/server/auth and *)
(* the routes that call them).                                             *)
(*                                                                         *)
(* Every request is one PostgreSQL transaction at READ COMMITTED.  A       *)
(* request whose transaction another one can observe in the middle is two  *)
(* actions: the reads, checks and row locks, then the commit; what locks   *)
(* its way past everybody is one.  A request that is refused changes       *)
(* nothing and ends; so does one whose transaction is rolled back, by a    *)
(* crash, a timeout or PostgreSQL's deadlock detector (Abort).             *)
(*                                                                         *)
(* Read committed is what makes the sweep of offboarding partial: DELETE   *)
(* sees the rows committed when it starts, waits for those that another    *)
(* transaction has locked, and never sees the ones inserted meanwhile.     *)
(***************************************************************************)
EXTENDS Naturals, FiniteSets

CONSTANTS
  Person,      \* people with an approved application
  Keyholder,   \* those with a live keyholder grant
  Request,     \* requests that can be under way at the same time
  Session,     \* rows of auth.sessions that can exist at the same time
  NoOne,       \* the owner of a row that does not exist
  NoSession,   \* held by an offboarding that rotates no session
  MaxMoves     \* bound of the model: status changes of one membership

ASSUME MembershipAssumption ==
  /\ Keyholder \subseteq Person
  /\ NoOne \notin Person
  /\ NoSession \notin Session
  /\ MaxMoves \in Nat

VARIABLES
  status,    \* membership.status
  version,   \* membership.version
  owed,      \* people whose offboarding jobs have been enqueued
  owner,     \* whose live session each row is
  request,   \* what each request is in the middle of
  moves,     \* history: status changes of each membership
  outdated,  \* history: sessions and requests that proved an old password
  overtaken, \* history: requests in flight while their person's sessions are swept
  late       \* history: the sessions those requests opened

rowVars == <<status, version, owed, moves>>
vars == <<status, version, owed, owner, request, moves, outdated, overtaken, late>>

Status == {"pending_assent", "active", "paused", "left", "removed"}
Departed == {"left", "removed"}

Idle == [op |-> "idle"]
\* A form on somebody's screen: who sees it, whose membership it shows and how.
Page == [op : {"page"}, who : Person, of : Person, version : Nat, moves : Nat]
\* authenticate has locked the user row and verified the password.
Login == [op : {"login"}, who : Person]
\* reauthenticate has also deleted the row of the session in hand.
Reauth == [op : {"reauth"}, who : Person, held : Session, form : Page]
\* The membership row is locked and the member's sessions are being deleted.
Offboarding == [op : {"offboard"}, who : Person, held : Session \union {NoSession},
                of : Person, to : Departed, seen : Nat, doomed : SUBSET Session]

MembershipTypeOK ==
  /\ status \in [Person -> Status]
  /\ version \in [Person -> Nat]
  /\ owed \subseteq Person
  /\ owner \in [Session -> Person \union {NoOne}]
  /\ request \in [Request -> {Idle} \union Page \union Login \union Reauth \union Offboarding]
  /\ moves \in [Person -> Nat]
  /\ outdated \subseteq Session \union Request
  /\ overtaken \subseteq Request
  /\ late \subseteq Session

Init ==
  /\ status = [p \in Person |-> "pending_assent"]
  /\ version = [p \in Person |-> 1]
  /\ owed = {}
  /\ owner = [s \in Session |-> NoOne]
  /\ request = [r \in Request |-> Idle]
  /\ moves = [p \in Person |-> 0]
  /\ outdated = {}
  /\ overtaken = {}
  /\ late = {}

----------------------------------------------------------------------------
(* The locks.  A row is locked by the transaction that has selected it FOR  *)
(* UPDATE, changed it or deleted it, until that transaction ends.           *)

SessionsOf(p) == {s \in Session : owner[s] = p}

In(r, op) == request[r].op = op

Holds(r, s) ==
  \/ In(r, "reauth") /\ s = request[r].held
  \/ In(r, "offboard") /\ (s = request[r].held \/ s \in request[r].doomed)

\* r waits for a session row that another request has deleted.
RowFree(r, s) == \A q \in Request \ {r} : ~Holds(q, s)

\* r has locked p's row of auth.users: it has verified a password of p's.
Proving(r, p) ==
  /\ \/ In(r, "login")
     \/ In(r, "reauth")
     \/ In(r, "offboard") /\ request[r].held # NoSession
  /\ request[r].who = p

\* Mutation: credentials are read without SELECT FOR UPDATE.
UserFreeUnlocked(p) == p \in Person

UserFree(p) == \A r \in Request : ~Proving(r, p)

Sweeping(r, p) == In(r, "offboard") /\ request[r].of = p

\* Mutation: lockMembership reads the row without FOR UPDATE.
MembershipFreeUnlocked(p) == p \in Person

MembershipFree(p) == \A r \in Request : ~Sweeping(r, p)

----------------------------------------------------------------------------
(* Sessions.                                                                *)

\* A row that is inserted is nobody's and not one that a request saw and lost.
Fresh(s) == owner[s] = NoOne /\ \A r \in Request : ~Holds(r, s)

\* The request ends here.
Ends(r) == request' = [request EXCEPT ![r] = Idle]

Becomes(r, state) == request' = [request EXCEPT ![r] = state]

\* The rows of gone are deleted and opened, a set of at most one row, is p's.
\* What is remembered of a session goes with its row.
Rotate(gone, opened, p) ==
  owner' = [s \in Session |-> IF s \in opened THEN p ELSE IF s \in gone THEN NoOne ELSE owner[s]]

\* The history of a request that ends by opening the session s, with the password
\* and, when it rotates, with a session of gone.
Inherit(r, gone, s) ==
  /\ outdated' = (outdated \ ({r} \union gone)) \union (IF r \in outdated THEN {s} ELSE {})
  /\ late' = (late \ gone) \union (IF r \in overtaken \/ gone \cap late # {} THEN {s} ELSE {})
  /\ overtaken' = overtaken \ {r}

Forget(gone) ==
  /\ outdated' = outdated \ gone
  /\ late' = late \ gone
  /\ UNCHANGED overtaken

\* r is in flight as p: while p's sessions are being swept it is overtaken.
Starts(r, p) ==
  /\ overtaken' = IF MembershipFree(p) THEN overtaken ELSE overtaken \union {r}
  /\ UNCHANGED <<outdated, late>>

\* Mutation: the login page lets anybody in whose password is right.
MayLogInAny(p) == status[p] # "pending_assent"

\* A login honours these statuses, a replayed activation only an active one.
MayLogIn(p) == status[p] \in {"active", "paused"}

\* authenticate: lock the user row, verify the password, insert the session; then
\* the route reads the membership.  (A replayed activation reads it first.)
OpenLogin(r, p) ==
  /\ In(r, "idle")
  /\ UserFree(p)
  /\ MayLogIn(p)
  /\ Becomes(r, [op |-> "login", who |-> p])
  /\ Starts(r, p)
  /\ UNCHANGED <<rowVars, owner>>

CommitLogin(r, s) ==
  /\ In(r, "login")
  /\ Fresh(s)
  /\ Rotate({}, {s}, request[r].who)
  /\ Inherit(r, {}, s)
  /\ Ends(r)
  /\ UNCHANGED rowVars

\* Logout deletes the row; a session past its expiry is refused and reaped.
EndSession(s) ==
  /\ owner[s] # NoOne
  /\ \A r \in Request : ~Holds(r, s)
  /\ Rotate({s}, {}, NoOne)
  /\ Forget({s})
  /\ UNCHANGED <<rowVars, request>>

\* setPassword: lock the user row, write the new hash, delete the user's sessions.
\* What is in flight as p, and any session that outlives this, proved the old one.
SetPassword(p) ==
  /\ status[p] # "pending_assent"
  /\ UserFree(p)
  /\ \A s \in SessionsOf(p), r \in Request : ~Holds(r, s)
  /\ Rotate(SessionsOf(p), {}, NoOne)
  /\ outdated' = (outdated \ SessionsOf(p)) \union {r \in Request : Proving(r, p)}
  /\ late' = late \ SessionsOf(p)
  /\ UNCHANGED <<rowVars, request, overtaken>>

----------------------------------------------------------------------------
(* The membership.                                                          *)

\* Mutation: a transition forgets to bump the version.
MovesUnversioned(p, to) ==
  /\ status' = [status EXCEPT ![p] = to]
  /\ version' = IF to \in Departed THEN [version EXCEPT ![p] = @ + 1] ELSE version
  /\ moves' = [moves EXCEPT ![p] = @ + 1]

\* Every transition bumps the version.
Moves(p, to) ==
  /\ status' = [status EXCEPT ![p] = to]
  /\ version' = [version EXCEPT ![p] = @ + 1]
  /\ moves' = [moves EXCEPT ![p] = @ + 1]

\* activateMembership, its transaction whole: the token, the agreement, the user,
\* the assent, the membership and the first session.
Activate(p, s) ==
  /\ status[p] = "pending_assent"
  /\ moves[p] < MaxMoves
  /\ Fresh(s)
  /\ Moves(p, "active")
  /\ Rotate({}, {s}, p)
  /\ UNCHANGED <<owed, request, outdated, overtaken, late>>

\* pauseMembership and resumeMembership.  The request may leave the expected
\* version out, so that whatever page it comes from, it is not compared.
Pause(p) ==
  /\ SessionsOf(p) # {}
  /\ MembershipFree(p)
  /\ status[p] = "active"
  /\ moves[p] < MaxMoves
  /\ Moves(p, "paused")
  /\ UNCHANGED <<owed, owner, request, outdated, overtaken, late>>

Resume(p) ==
  /\ SessionsOf(p) # {}
  /\ MembershipFree(p)
  /\ status[p] = "paused"
  /\ moves[p] < MaxMoves
  /\ Moves(p, "active")
  /\ UNCHANGED <<owed, owner, request, outdated, overtaken, late>>

\* The membership page shows members their own, the removal page shows a keyholder
\* all of them; both carry the version into the form.
LoadPage(r, p, q) ==
  /\ In(r, "idle")
  /\ SessionsOf(p) # {}
  /\ p = q \/ p \in Keyholder
  /\ Becomes(r, [op |-> "page", who |-> p, of |-> q, version |-> version[q], moves |-> moves[q]])
  /\ UNCHANGED <<rowVars, owner, outdated, overtaken, late>>

\* Mutation: the sweep misses one session.
SweptButOne(p) == {s \in SessionsOf(p) : \E t \in SessionsOf(p) : t # s}

\* What revokeAllSessions deletes.
Swept(p) == SessionsOf(p)

\* leaveMembership and removeMembership agree from lockMembership on: the version is
\* the one the form shows, the status is one that can be left, the sessions go.
Sweep(r, form, held, to) ==
  LET p == form.of
  IN  /\ MembershipFree(p)
      /\ form.version = version[p]
      /\ status[p] \in {"active", "paused"}
      /\ moves[p] < MaxMoves
      /\ Becomes(r, [op |-> "offboard", who |-> form.who, held |-> held, of |-> p, to |-> to,
                     seen |-> form.moves, doomed |-> Swept(p) \ {held}])
      /\ overtaken' = overtaken \union {q \in Request \ {r} : Proving(q, p)}
      /\ UNCHANGED <<rowVars, owner, outdated, late>>

Leave(r) ==
  /\ In(r, "page")
  /\ request[r].who = request[r].of
  /\ SessionsOf(request[r].who) # {}
  /\ Sweep(r, request[r], NoSession, "left")

\* Mutation: reauthentication does not ask whether the session was still live.
TakesRowUnasked(r, p, s) == owner[s] \in {p, NoOne} /\ RowFree(r, s)

\* deleteSession deletes the row of the session in hand, or finds none.
TakesRow(r, p, s) == owner[s] = p /\ RowFree(r, s)

\* reauthenticate: lock the user row, verify the password, delete the session in
\* hand, which must still be there.
OpenReauth(r, s) ==
  /\ In(r, "page")
  /\ request[r].who \in Keyholder
  /\ UserFree(request[r].who)
  /\ TakesRow(r, request[r].who, s)
  /\ Becomes(r, [op |-> "reauth", who |-> request[r].who, held |-> s, form |-> request[r]])
  /\ Starts(r, request[r].who)
  /\ UNCHANGED <<rowVars, owner>>

Remove(r) ==
  /\ In(r, "reauth")
  /\ Sweep(r, request[r].form, request[r].held, "removed")

\* What follows the reauthentication changes nothing here: the membership was
\* removed already, or the request publishes an agreement.
CommitReauth(r, s) ==
  /\ In(r, "reauth")
  /\ Fresh(s)
  /\ Rotate({request[r].held}, {s}, request[r].who)
  /\ Inherit(r, {request[r].held}, s)
  /\ Ends(r)
  /\ UNCHANGED rowVars

\* offboardCommit: the transition, the sweep and the jobs, all at once, when the
\* sweep has got hold of every row it saw.
Offboards(r) ==
  /\ In(r, "offboard")
  /\ \A s \in request[r].doomed : RowFree(r, s)
  /\ Moves(request[r].of, request[r].to)
  /\ owed' = owed \union {request[r].of}
  /\ Ends(r)

\* A member who leaves and a keyholder who removes themselves keep no session.
CommitOffboard(r) ==
  /\ Offboards(r)
  /\ request[r].held = NoSession \/ request[r].who = request[r].of
  /\ LET gone == request[r].doomed \union ({request[r].held} \ {NoSession})
     IN  Rotate(gone, {}, NoOne) /\ outdated' = outdated \ (gone \union {r}) /\ late' = late \ gone
  /\ overtaken' = overtaken \ {r}

\* A keyholder who removes somebody else gets the rotated session.
CommitRemoval(r, s) ==
  /\ Offboards(r)
  /\ request[r].held # NoSession
  /\ request[r].who # request[r].of
  /\ Fresh(s)
  /\ LET gone == request[r].doomed \union {request[r].held}
     IN  Rotate(gone, {s}, request[r].who) /\ Inherit(r, gone, s)

\* The request ends without effect, and nobody was overtaken by a sweep undone.
Abort(r) ==
  /\ ~In(r, "idle")
  /\ Ends(r)
  /\ LET unswept == IF In(r, "offboard") THEN {request[r].of} ELSE {}
     IN  /\ overtaken' = overtaken \ ({r} \union {q \in Request : \E p \in unswept : Proving(q, p)})
         /\ late' = {s \in late : owner[s] \notin unswept}
  /\ outdated' = outdated \ {r}
  /\ UNCHANGED <<rowVars, owner>>

Next ==
  \/ \E p \in Person, s \in Session : Activate(p, s)
  \/ \E p \in Person : Pause(p) \/ Resume(p) \/ SetPassword(p)
  \/ \E s \in Session : EndSession(s)
  \/ \E r \in Request, p \in Person : OpenLogin(r, p)
  \/ \E r \in Request, p, q \in Person : LoadPage(r, p, q)
  \/ \E r \in Request, s \in Session :
       CommitLogin(r, s) \/ OpenReauth(r, s) \/ CommitReauth(r, s) \/ CommitRemoval(r, s)
  \/ \E r \in Request : Leave(r) \/ Remove(r) \/ CommitOffboard(r) \/ Abort(r)

Spec == Init /\ [][Next]_vars

----------------------------------------------------------------------------
(* Properties.                                                              *)

\* Whoever has left or been removed holds no session but those opened by a login or
\* a reauthentication that was in flight while theirs were swept, and those rotated
\* from one: no session from before survives offboardCommit, and no login that
\* begins after it gets one.
OnlyLateSessionsSurvive ==
  \A s \in Session : \A p \in Person :
    owner[s] = p /\ status[p] \in Departed => s \in late

\* Every live session was opened with the password its user has now: a login that
\* races setPassword either commits before it, and its session is deleted, or
\* waits for the user row and is refused (lockUserRow).
ResetEndsOldSessions == Session \cap outdated = {}

\* A departure is final and happens once: of a leave and a removal that race, or of
\* two clicks, one takes effect, and nothing moves the membership or its version
\* afterwards (the row lock, expectedVersion and MEMBERSHIP_TRANSITIONS together).
DepartureIsFinal ==
  [][\A p \in Person : status[p] \in Departed =>
       status'[p] = status[p] /\ version'[p] = version[p]]_vars

\* Nobody leaves or is removed on the strength of a page that has gone stale:
\* between the form and its effect the membership has not moved, not even there
\* and back again.
DepartsAsShown ==
  [][\A r \in Request : In(r, "offboard") /\ owed' # owed /\ ~In(r, "offboard")' =>
       moves[request[r].of] = request[r].seen]_vars

\* A keyholder's power to remove ends with their own membership: their role grant
\* outlives it, so only the liveness check of reauthenticate stands in the way.  The
\* late sessions of the race above do keep it.
AuthorityEnds ==
  [][\A r \in Request :
       In(r, "offboard") /\ owed' # owed /\ ~In(r, "offboard")' /\ request[r].held # NoSession =>
         status[request[r].who] \notin Departed \/ request[r].held \in late]_vars

\* What revokeMemberAccess promises: every session the member's auth user holds
\* dies in this transaction.
NoLoginAfterOffboard ==
  \A p \in Person : status[p] \in Departed => SessionsOf(p) = {}
=============================================================================
