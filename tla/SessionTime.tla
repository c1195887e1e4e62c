----------------------------- MODULE SessionTime ----------------------------
(***************************************************************************)
(* What the web process decides by the clock: whether a session is alive    *)
(* (hooks.server.ts, auth/session.ts, auth/adapter.ts), whether it is fresh *)
(* enough for a sensitive action (auth/reauth.ts), and whether a caller     *)
(* asks too often (application/ratelimit.ts).                              *)
(*                                                                         *)
(* A session's instants are stored as digits of UTC without a zone.  The    *)
(* vendored adapter reads them in the zone of the process, and in the date  *)
(* style of the transaction; it deletes what it takes for expired.         *)
(***************************************************************************)
EXTENDS Integers, Sequences, FiniteSets, FiniteSetsExt, Ordering

CONSTANTS
  Id,        \* session ids
  Key,       \* callers; those without an address share one
  Offset,    \* zones, east of UTC positive
  Ttl,       \* SESSION_TTL_MS
  Window,    \* REAUTH_WINDOW_MS
  HitMax,    \* LOGIN_RATE_LIMIT_MAX
  HitWindow, \* LOGIN_RATE_LIMIT_WINDOW_MS
  ReapLimit, \* ReapExpiredSessionsOptions.limit
  NoSession,
  MaxTime    \* bound of the model: the clock

ASSUME TimeAssumption ==
  /\ Offset \subseteq Int
  /\ {Ttl, Window, HitMax, HitWindow, ReapLimit, MaxTime} \subseteq Nat /\ HitMax > 0

VARIABLES
  now,     \* the clock of PostgreSQL, in UTC
  zone,    \* the zone of the process
  rows,    \* auth.sessions: what is stored for each id, or NoSession
  request, \* the session that a request carries once it has been resolved
  hits,    \* loginRateLimiter: the counted attempts of each caller
  granted, \* every attempt this process has allowed, for the properties
  answer,  \* the last decision
  lost     \* the zones in which a live session was deleted as expired

timeVars == <<now, zone, rows, request, hits, granted, answer, lost>>

-----------------------------------------------------------------------------
(* Instants.                                                               *)

DateStyle == {"ISO", "SQL, DMY"}

\* A mistaken transaction that leaves the style as it finds it.
PinLeftOut(style) == style

\* PIN_ISO_DATESTYLE_SQL
Pinned(style) == "ISO"

\* tryParseDbInstant, normalizeSessionInstants: only the ISO form is an instant.
Normalized(row, style) == [row EXCEPT !.readable = style = "ISO"]

\* getSession of the adapter: the digits are read in the zone of the process, or, in
\* another style, as some other date or as none.
VendorExpired(row, style, misread) ==
  IF style = "ISO" THEN row.expires - zone < now ELSE misread

\* sessionExpiryVerdict; also the candidates of reapExpiredSessions.
Expired(row) == row.expires <= now

\* isFreshlyAuthenticated
Fresh(session) ==
  /\ session.readable
  /\ now - session.created >= 0 /\ now - session.created <= Window

-----------------------------------------------------------------------------
(* The limiter.                                                            *)

Live(stamps) == Selected(stamps, {n \in DOMAIN stamps : stamps[n] > now - HitWindow})

\* Every caller's stale attempts go on every check.
Pruned == [k \in Key |-> Live(hits[k])]
Allowed(k) == Len(Live(hits[k])) < HitMax
RetryAfter(k) == Head(Live(hits[k])) + HitWindow - now

Counted(k) == [Pruned EXCEPT ![k] = Append(@, now)]

-----------------------------------------------------------------------------
TimeInit ==
  /\ now = 0 /\ zone \in Offset
  /\ rows = [i \in Id |-> NoSession] /\ request = NoSession
  /\ hits = [k \in Key |-> <<>>] /\ granted = hits
  /\ answer = [told |-> "nothing"] /\ lost = {}

Tick ==
  /\ now < MaxTime /\ now' = now + 1
  /\ UNCHANGED <<zone, rows, request, hits, granted, answer, lost>>

\* The limiter is the process's own; the sessions are not.
Restart ==
  /\ zone' \in Offset
  /\ hits' = [k \in Key |-> <<>>] /\ granted' = hits'
  /\ request' = NoSession /\ answer' = [told |-> "nothing"]
  /\ UNCHANGED <<now, rows, lost>>

New(i) == [id |-> i, created |-> now, expires |-> now + Ttl, readable |-> TRUE]

\* The limiter counts a caller before anything is looked at.
Denied(k) ==
  /\ ~Allowed(k)
  /\ hits' = Pruned /\ answer' = [told |-> "later", to |-> k, wait |-> RetryAfter(k), at |-> now]
  /\ UNCHANGED <<now, zone, rows, request, granted, lost>>

\* Credentials are refused, or a session is made; nothing pins the style here.
LogIn(k) ==
  /\ Allowed(k)
  /\ hits' = Counted(k) /\ granted' = [granted EXCEPT ![k] = Append(@, now)]
  /\ \/ UNCHANGED <<rows, request>>
     \/ \E i \in Id, style \in DateStyle :
          /\ rows[i] = NoSession
          /\ rows' = [rows EXCEPT ![i] = New(i)] /\ request' = Normalized(New(i), style)
  /\ answer' = [told |-> "nothing"]
  /\ UNCHANGED <<now, zone, lost>>

\* resolveAuthSession and validateSession.  No cookie, an id of no row or of no shape, or
\* an error of the database, and the request is anonymous.
ResolveAnonymous ==
  /\ request' = NoSession /\ answer' = [told |-> "nothing"]
  /\ UNCHANGED <<now, zone, rows, hits, granted, lost>>

ValidateSession(i) ==
  /\ rows[i] # NoSession
  /\ \E style \in DateStyle, misread \in BOOLEAN :
       IF VendorExpired(rows[i], Pinned(style), misread)
       THEN /\ rows' = [rows EXCEPT ![i] = NoSession]
            /\ lost' = IF rows[i].expires > now THEN lost \union {zone} ELSE lost
            /\ request' = NoSession /\ answer' = [told |-> "nothing"]
       ELSE /\ request' = IF Expired(rows[i]) THEN NoSession ELSE Normalized(rows[i], Pinned(style))
            /\ answer' = IF Expired(rows[i]) THEN [told |-> "nothing"]
                         ELSE [told |-> "live", session |-> rows[i], at |-> now]
            /\ UNCHANGED <<rows, lost>>
  /\ UNCHANGED <<now, zone, hits, granted>>

\* requireFreshReauth, possibly long after the request was resolved.
RequireFreshReauth ==
  /\ request # NoSession
  /\ answer' = IF Fresh(request) THEN [told |-> "fresh", session |-> request, at |-> now]
               ELSE [told |-> "reauth_required", session |-> request, at |-> now]
  /\ UNCHANGED <<now, zone, rows, request, hits, granted, lost>>

\* reauthenticate: the row is exchanged for a new one if it is still there.
Reauthenticate ==
  /\ request # NoSession /\ rows[request.id] # NoSession
  /\ \E i \in Id, style \in DateStyle :
       /\ rows[i] = NoSession
       /\ rows' = [rows EXCEPT ![request.id] = NoSession, ![i] = New(i)]
       /\ request' = Normalized(New(i), style)
  /\ answer' = [told |-> "nothing"]
  /\ UNCHANGED <<now, zone, hits, granted, lost>>

\* revokeSession
LogOut(i) ==
  /\ rows[i] # NoSession
  /\ rows' = [rows EXCEPT ![i] = NoSession]
  /\ UNCHANGED <<now, zone, request, hits, granted, answer, lost>>

\* reapExpiredSessions: the oldest first, up to the limit.
Reap ==
  LET candidates == {i \in Id : rows[i] # NoSession /\ Expired(rows[i])}
  IN /\ candidates # {}
     /\ \E reaped \in SUBSET candidates :
          /\ Cardinality(reaped) = Min({ReapLimit, Cardinality(candidates)})
          /\ \A i \in reaped, j \in candidates \ reaped : rows[i].expires <= rows[j].expires
          /\ rows' = [i \in Id |-> IF i \in reaped THEN NoSession ELSE rows[i]]
          /\ lost' = IF \E i \in reaped : rows[i].expires > now THEN lost \union {0} ELSE lost
  /\ UNCHANGED <<now, zone, request, hits, granted, answer>>

TimeNext ==
  \/ Tick \/ Restart \/ ResolveAnonymous \/ RequireFreshReauth \/ Reauthenticate \/ Reap
  \/ \E k \in Key : Denied(k) \/ LogIn(k)
  \/ \E i \in Id : ValidateSession(i) \/ LogOut(i)

TimeSpec == TimeInit /\ [][TimeNext]_timeVars

-----------------------------------------------------------------------------
InWindow(k, t) == Cardinality({n \in DOMAIN granted[k] : granted[k][n] > t - HitWindow /\ granted[k][n] <= t})

LiveIsAlive == answer.told = "live" => answer.session.expires > answer.at

KeptWhileAlive == \A z \in lost : z > 0

FreshIsRecent ==
  answer.told = "fresh" => answer.at - answer.session.created \in 0..Window

NeverTooOften ==
  /\ \A k \in Key, t \in 0..now : InWindow(k, t) <= HitMax
  /\ answer.told = "later" =>
       /\ InWindow(answer.to, answer.at + answer.wait) < HitMax
       /\ InWindow(answer.to, answer.at + answer.wait - 1) >= HitMax

\* No zone and no date style, of the process, the connection or the transaction, makes an
\* expired session live or a stale one fresh, and none makes a live one be deleted but a
\* process east of UTC (adapter.ts:64-81 records that residual); in no window does a
\* process admit more attempts of a caller than the limit, and a caller that waits as long
\* as it is told, and not less, is admitted (session.ts:264-293, ratelimit.ts:42-46).
JudgedByTrueTime == LiveIsAlive /\ KeptWhileAlive /\ FreshIsRecent /\ NeverTooOften

=============================================================================
