---------------------------- MODULE OAuthOrigins -----------------------------
(***************************************************************************)
(* The origins of registered OAuth clients, as the identity service uses   *)
(* them: cached for TTL next to the database (oauth-client-origins.ts),    *)
(* and cached again for CORS_TTL by the middleware (proxy.ts), which       *)
(* fetches them from the internal route, and adds one origin of its own.   *)
(* Administrators change the clients; each change is followed by a refresh *)
(* nobody waits for.                                                       *)
(*                                                                         *)
(* Time is relative, as in TokenProvider: Tick lets one unit pass.  The    *)
(* history variable `last` knows how long ago an origin was, and was not,  *)
(* registered.  A query's result, and a response of the route, takes at    *)
(* most Latency.                                                           *)
(***************************************************************************)
EXTENDS Naturals

CONSTANTS Origin,     \* origins a client's redirect URI may have
          TestOrigin, \* the one proxy.ts names itself; a client may have it, too
          Request,    \* slots for concurrent fetches
          TTL,        \* TTL_MS
          CORS_TTL,   \* CORS_TTL_MS
          Latency,
          MaxPending  \* bound on changes whose refresh has not started

ASSUME OriginsAssumption ==
  TTL \in Nat /\ CORS_TTL \in Nat /\ Latency \in Nat /\ MaxPending \in Nat

VARIABLES db,         \* the origins of the clients' redirect URIs
          last,       \* history: time since an origin was, and was not, in db
          pending,    \* changes whose refreshOAuthClientOrigins has not started
          excused,    \* history: the last change met a fetch under way, or lost its refresh
          cache,      \* `cache` of oauth-client-origins.ts
          corsCache,  \* `corsCache` of proxy.ts
          request     \* the running fetches

vars == <<db, last, pending, excused, cache, corsCache, request>>

\* The longest time a decision of the middleware may lag behind the database.
Lag == TTL + CORS_TTL + Latency + Latency

\* What a set of origins says of an origin.
Answer == {"yes", "no"}
Says(S, o) == IF o \in S THEN "yes" ELSE "no"

\* A cached set, and the time since it was stored; FALSE in `full` is null.
Empty == [full |-> FALSE, origins |-> {}, age |-> 0]
Stored(S) == [full |-> TRUE, origins |-> S, age |-> 0]
Valid(c, ttl) == c.full /\ c.age < ttl

Idle == [pc |-> "idle", for |-> "none", origins |-> {}, travel |-> 0]

(***************************************************************************)
(* OAuth clients                                                           *)
(***************************************************************************)

\* create, update or delete commits: any change of the set of origins.
change ==
  /\ pending < MaxPending
  /\ \E S \in SUBSET Origin :
       /\ db' = S
       /\ last' = [o \in Origin |-> [last[o] EXCEPT ![Says(S, o)] = 0]]
  /\ pending' = pending + 1
  /\ excused' = \E r \in Request : request[r].pc = "read"
  /\ UNCHANGED <<cache, corsCache, request>>

Start(r, for) ==
  /\ request[r].pc = "idle"
  /\ request' = [request EXCEPT ![r] = [Idle EXCEPT !.pc = "sent", !.for = for]]

\* Mutant: the refresh keeps the cached set until its query returns.
BugRefresh(r) ==
  /\ pending > 0
  /\ pending' = pending - 1
  /\ Start(r, "refresh")
  /\ UNCHANGED <<db, last, excused, cache, corsCache>>

\* refreshOAuthClientOrigins, up to its query.
refreshOAuthClientOrigins(r) ==
  /\ pending > 0
  /\ pending' = pending - 1
  /\ cache' = Empty
  /\ Start(r, "refresh")
  /\ UNCHANGED <<db, last, excused, corsCache>>

\* The service rejects Better Auth's response after the change was made: the action
\* fails before its refresh.
skip_refresh ==
  /\ pending > 0
  /\ pending' = pending - 1
  /\ excused' = TRUE
  /\ UNCHANGED <<db, last, cache, corsCache, request>>

(***************************************************************************)
(* fetchAndApply and getOAuthClientOrigins                                 *)
(***************************************************************************)

\* The database answers the query.
findMany(r) ==
  /\ request[r].pc = "sent"
  /\ request' = [request EXCEPT ![r].pc = "read", ![r].origins = db, ![r].travel = 0]
  /\ UNCHANGED <<db, last, pending, excused, cache, corsCache>>

\* What becomes of a fetch that has its origins: the route sends them on.
Answered(S) == [pc |-> "answered", for |-> "route", origins |-> S, travel |-> 0]
Done(r, S) == [request EXCEPT ![r] = IF @.for = "route" THEN Answered(S) ELSE Idle]

\* The rest of fetchAndApply: the cache (and validAudiencesRef with it) takes what
\* the query returned, whichever query comes last.
fetchAndApply(r) ==
  /\ request[r].pc = "read"
  /\ cache' = Stored(request[r].origins)
  /\ request' = Done(r, request[r].origins)
  /\ UNCHANGED <<db, last, pending, excused, corsCache>>

\* The query fails; nobody hears of a refresh that does.
fetch_error(r) ==
  /\ request[r].pc \in {"sent", "read"}
  /\ request' = [request EXCEPT ![r] = Idle]
  /\ UNCHANGED <<db, last, pending, excused, cache, corsCache>>

\* trustedOrigins of Better Auth finds no valid cache.
trustedOrigins(r) ==
  /\ ~Valid(cache, TTL)
  /\ Start(r, "auth")
  /\ UNCHANGED <<db, last, pending, excused, cache, corsCache>>

(***************************************************************************)
(* The route and the middleware                                            *)
(***************************************************************************)

\* getAllowedOrigins finds no valid cache and asks the route.
getAllowedOrigins(r) ==
  /\ ~Valid(corsCache, CORS_TTL)
  /\ request[r].pc = "idle"
  /\ request' = [request EXCEPT ![r] = [Idle EXCEPT !.pc = "asked", !.for = "route"]]
  /\ UNCHANGED <<db, last, pending, excused, cache, corsCache>>

\* Mutant: the route serves whatever is cached.
BugRoute(r) ==
  /\ request[r].pc = "asked"
  /\ request' = IF cache.full THEN Done(r, cache.origins)
                ELSE [request EXCEPT ![r].pc = "sent"]
  /\ UNCHANGED <<db, last, pending, excused, cache, corsCache>>

\* GET /api/internal/cors-origins: the cached origins, or a query.
route(r) ==
  /\ request[r].pc = "asked"
  /\ request' = IF Valid(cache, TTL) THEN Done(r, cache.origins)
                ELSE [request EXCEPT ![r].pc = "sent"]
  /\ UNCHANGED <<db, last, pending, excused, cache, corsCache>>

\* The response is lost: the middleware falls back to what it has, however old, for
\* this one request.
cors_error(r) ==
  /\ request[r].pc \in {"asked", "answered"}
  /\ request' = [request EXCEPT ![r] = Idle]
  /\ UNCHANGED <<db, last, pending, excused, cache, corsCache>>

\* What the middleware decides by.  It adds its own origin to the cached set itself,
\* before every decision.
Allowed(S) == S \cup {TestOrigin}

\* The response arrives: its set is cached, and the decision that waited for it made
\* before any other; later decisions add to the set what it has.
cors_ok(r) ==
  /\ request[r].pc = "answered"
  /\ corsCache' = Stored(Allowed(request[r].origins))
  /\ request' = [request EXCEPT ![r] = Idle]
  /\ UNCHANGED <<db, last, pending, excused, cache>>

-----------------------------------------------------------------------------

Older(c, ttl) == [c EXCEPT !.age = IF @ < ttl THEN @ + 1 ELSE @]
Travelling(r) == request[r].pc \in {"read", "answered"}

Tick ==
  /\ \A r \in Request : Travelling(r) => request[r].travel < Latency
  /\ last' = [o \in Origin |-> [a \in Answer |->
       IF a = Says(db, o) THEN 0 ELSE IF last[o][a] <= Lag THEN last[o][a] + 1 ELSE last[o][a]]]
  /\ cache' = Older(cache, TTL)
  /\ corsCache' = Older(corsCache, CORS_TTL)
  /\ request' = [r \in Request |->
       IF Travelling(r) THEN [request[r] EXCEPT !.travel = @ + 1] ELSE request[r]]
  /\ UNCHANGED <<db, pending, excused>>

Init ==
  /\ db \in SUBSET Origin
  /\ last = [o \in Origin |-> [a \in Answer |-> IF a = Says(db, o) THEN 0 ELSE Lag + 1]]
  /\ pending = 0
  /\ excused = FALSE
  /\ cache = Empty
  /\ corsCache = Empty
  /\ request = [r \in Request |-> Idle]

Next ==
  \/ change \/ skip_refresh \/ Tick
  \/ \E r \in Request :
       \/ refreshOAuthClientOrigins(r) \/ trustedOrigins(r) \/ getAllowedOrigins(r)
       \/ findMany(r) \/ fetchAndApply(r) \/ fetch_error(r)
       \/ route(r) \/ cors_error(r) \/ cors_ok(r)

Spec == Init /\ [][Next]_vars

-----------------------------------------------------------------------------
(***************************************************************************)
(* Properties                                                              *)
(***************************************************************************)

CacheType == [full : BOOLEAN, origins : SUBSET Allowed(Origin), age : Nat]
RequestType == [pc : {"idle", "asked", "sent", "read", "answered"},
                for : {"none", "refresh", "auth", "route"},
                origins : SUBSET Origin, travel : 0..Latency]

\* Every variable has its type, and only the middleware's cache may hold an origin
\* that no client has; an origin's present state has lasted for no time; only the
\* middleware's requests are answered to the middleware.
TypeOK ==
  /\ db \subseteq Origin
  /\ last \in [Origin -> [Answer -> Nat]]
  /\ \A o \in Origin : last[o][Says(db, o)] = 0
  /\ pending \in Nat
  /\ excused \in BOOLEAN
  /\ cache \in CacheType /\ cache.origins \subseteq Origin /\ corsCache \in CacheType
  /\ request \in [Request -> RequestType]
  /\ \A r \in Request : request[r].pc \in {"asked", "answered"} => request[r].for = "route"

\* What a copy says of an origin was true at most n ago.
Within(ages, S, n) == \A o \in Origin : ages[o][Says(S, o)] <= n
TrueWithin(S, n) == Within(last, S, n)

\* The middleware never decides from its valid cache what the database has not said
\* within Lag, although the cache is filled from another cache, and responses and
\* queries overtake each other.  Its own origin is the exception: that one is always
\* allowed, whatever the database says or has ever said of it.
DecisionsWithinLag ==
  Valid(corsCache, CORS_TTL) =>
    \E S \in SUBSET Origin : TrueWithin(S, Lag) /\ corsCache.origins = Allowed(S)

\* Once every change has been followed by its refresh, the valid cache agrees with
\* the database, whatever fetches are still under way, unless the last change met a
\* fetch that had read and not yet applied its origins, or lost its refresh.
QuietCacheAgrees ==
  pending = 0 /\ ~excused /\ Valid(cache, TTL) => cache.origins = db
=============================================================================
