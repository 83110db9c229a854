-------------------------- MODULE OriginRulesProofs --------------------------
(***************************************************************************)
(* Proofs about OriginRules, for any origins, buckets, replicas, numbers   *)
(* of concurrent fetches and requests, lifetimes and latencies.            *)
(*                                                                         *)
(* The caches of the identity service.  An invariant that bounds only the  *)
(* middleware's cache is not inductive: its content came from a response,  *)
(* which came from the other cache or from a query.  WithinLag bounds the  *)
(* age of what each of the four holds.  The middleware's cache holds an    *)
(* origin more than came to it, its own.                                   *)
(***************************************************************************)
EXTENDS OriginRules, SequenceTheorems, TLAPS


\* What a query returned, or a response carries, is as old as its journey allows.
TravellersWithinLag ==
  \A r \in Request :
    /\ request[r].pc = "read" => TrueWithin(request[r].origins, request[r].travel)
    /\ request[r].pc = "answered" =>
         TrueWithin(request[r].origins, TTL + Latency + request[r].travel)

\* What the middleware decides by came from a set that is as old as n allows.
DecidesWithin(n) ==
  \E S \in SUBSET Origin : TrueWithin(S, n) /\ corsCache.origins = Allowed(S)

CachesWithinLag ==
  /\ Valid(cache, TTL) => TrueWithin(cache.origins, Latency + cache.age)
  /\ Valid(corsCache, CORS_TTL) => DecidesWithin(TTL + Latency + Latency + corsCache.age)

\* Unless a change met it, a query under way has read what the database says, and
\* once no refresh is owed, so does the cache.
ReadsAgree ==
  ~excused => \A r \in Request : request[r].pc = "read" => request[r].origins = db

LagInv == TypeOK /\ TravellersWithinLag /\ CachesWithinLag
AgreeInv == TypeOK /\ ReadsAgree /\ QuietCacheAgrees

-----------------------------------------------------------------------------
(***************************************************************************)
(* Types                                                                   *)
(***************************************************************************)

\* The records that Start, Done and the caches put together.
LEMMA RecordTypes ==
  /\ Empty \in CacheType
  /\ \A S \in SUBSET Allowed(Origin) : Stored(S) \in CacheType
  /\ \A S \in SUBSET Origin : Allowed(S) \subseteq Allowed(Origin) /\ S \subseteq Allowed(Origin)
  /\ Idle \in RequestType
  /\ \A for \in {"refresh", "auth", "route"}, pc \in {"sent", "asked"} :
       [Idle EXCEPT !.pc = pc, !.for = for] \in RequestType
  /\ \A S \in SUBSET Origin : Answered(S) \in RequestType
  <1>0. \A S \in SUBSET Origin : Allowed(S) \subseteq Allowed(Origin) /\ S \subseteq Allowed(Origin)
    BY DEF Allowed
  <1>1. Empty \in CacheType /\ \A S \in SUBSET Allowed(Origin) : Stored(S) \in CacheType
    BY DEF Empty, Stored, CacheType
  <1>2. Idle \in RequestType
    BY OriginsAssumption DEF Idle, RequestType
  <1>3. \A for \in {"refresh", "auth", "route"}, pc \in {"sent", "asked"} :
          [Idle EXCEPT !.pc = pc, !.for = for] \in RequestType
    BY <1>2 DEF RequestType
  <1>4. \A S \in SUBSET Origin : Answered(S) \in RequestType
    BY OriginsAssumption DEF Answered, RequestType
  <1>5. QED BY <1>0, <1>1, <1>2, <1>3, <1>4

LEMMA StartType ==
  ASSUME request \in [Request -> RequestType], NEW r \in Request,
         NEW for \in {"refresh", "auth", "route"}, Start(r, for)
  PROVE  request' \in [Request -> RequestType]
  <1>1. [Idle EXCEPT !.pc = "sent", !.for = for] \in RequestType
    BY RecordTypes
  <1>2. QED BY <1>1 DEF Start

LEMMA DoneType ==
  ASSUME request \in [Request -> RequestType], NEW r \in Request, NEW S \in SUBSET Origin
  PROVE  Done(r, S) \in [Request -> RequestType]
  <1>1. Idle \in RequestType
    BY RecordTypes
  <1>2. Answered(S) \in RequestType
    BY RecordTypes
  <1>3. QED BY <1>1, <1>2 DEF Done

LEMMA TypeInit == Init => TypeOK
  <1>1. SUFFICES ASSUME Init PROVE TypeOK
    OBVIOUS
  <1>2. Lag + 1 \in Nat
    BY OriginsAssumption DEF Lag
  <1>3. last \in [Origin -> [Answer -> Nat]]
    BY <1>1, <1>2 DEF Init, Answer
  <1>4. \A o \in Origin : last[o][Says(db, o)] = 0
    BY <1>1 DEF Init, Says, Answer
  <1>5. QED
    BY <1>1, <1>3, <1>4, RecordTypes DEF Init, TypeOK, Idle, Empty

\* A change of the database restarts the clock of what it now says.
LEMMA ChangeType ==
  ASSUME TypeOK, change
  PROVE  /\ db' \subseteq Origin
         /\ last' \in [Origin -> [Answer -> Nat]]
         /\ \A o \in Origin : last'[o][Says(db', o)] = 0
         /\ \A o \in Origin, a \in Answer : last'[o][a] <= last[o][a]
  <1>1. PICK S \in SUBSET Origin :
          /\ db' = S
          /\ last' = [o \in Origin |-> [last[o] EXCEPT ![Says(S, o)] = 0]]
    BY DEF change
  <1>2. \A o \in Origin : last[o] \in [Answer -> Nat] /\ Says(S, o) \in Answer
    BY DEF TypeOK, Says, Answer
  <1>3. \A o \in Origin :
          /\ last'[o] \in [Answer -> Nat]
          /\ last'[o][Says(S, o)] = 0
          /\ \A a \in Answer : last'[o][a] <= last[o][a]
    BY <1>1, <1>2
  <1>4. QED BY <1>1, <1>3 DEF TypeOK

\* Time adds at most one unit to what was once true, and none to what still is.
LEMMA TickType ==
  ASSUME TypeOK, Tick
  PROVE  /\ last' \in [Origin -> [Answer -> Nat]]
         /\ \A o \in Origin : last'[o][Says(db, o)] = 0
         /\ \A o \in Origin, a \in Answer : last'[o][a] <= last[o][a] + 1
         /\ cache' \in CacheType /\ cache'.origins \subseteq Origin /\ corsCache' \in CacheType
         /\ request' \in [Request -> RequestType]
         /\ \A r \in Request : /\ request'[r].pc = request[r].pc
                               /\ request'[r].for = request[r].for
                               /\ request'[r].origins = request[r].origins
                               /\ request[r].pc \in {"read", "answered"} =>
                                    request'[r].travel = request[r].travel + 1
  <1>1. \A o \in Origin, a \in Answer : last[o][a] \in Nat /\ Says(db, o) \in Answer
    BY DEF TypeOK, Says, Answer
  <1>2. \A o \in Origin, a \in Answer :
          last'[o][a] = IF a = Says(db, o) THEN 0
                        ELSE IF last[o][a] <= Lag THEN last[o][a] + 1 ELSE last[o][a]
    BY DEF Tick
  <1>3. last' \in [Origin -> [Answer -> Nat]]
    <2>1. \A o \in Origin, a \in Answer : last[o][a] + 1 \in Nat
      BY <1>1
    <2>2. QED BY <1>1, <2>1 DEF Tick
  <1>4. \A o \in Origin, a \in Answer : last'[o][a] <= last[o][a] + 1
    BY <1>1, <1>2
  <1>5. cache' \in CacheType /\ cache'.origins \subseteq Origin /\ corsCache' \in CacheType
    <2>1. \A c \in CacheType, n \in Nat : c.age + 1 \in Nat /\ [c EXCEPT !.age = n] \in CacheType
      BY DEF CacheType
    <2>2. \A c \in CacheType, ttl \in Nat :
            c.age \in Nat /\ Older(c, ttl) \in CacheType /\ Older(c, ttl).origins = c.origins
      BY <2>1 DEF Older, CacheType
    <2>3. QED BY <2>2, OriginsAssumption DEF Tick, TypeOK
  <1>6. \A r \in Request :
          request'[r] = IF Travelling(r) THEN [request[r] EXCEPT !.travel = @ + 1] ELSE request[r]
    BY DEF Tick
  <1>7. \A r \in Request : request[r] \in RequestType
    BY DEF TypeOK
  <1>8. \A r \in Request : Travelling(r) => request[r].travel + 1 \in 0..Latency
    BY <1>7, OriginsAssumption DEF Tick, RequestType
  <1>9. \A r \in Request : request'[r] \in RequestType
    BY <1>6, <1>7, <1>8 DEF RequestType
  <1>10. request' \in [Request -> RequestType]
    BY <1>9 DEF Tick
  <1>11. \A r \in Request : /\ request'[r].pc = request[r].pc
                            /\ request'[r].for = request[r].for
                            /\ request'[r].origins = request[r].origins
                            /\ request[r].pc \in {"read", "answered"} =>
                                 request'[r].travel = request[r].travel + 1
    BY <1>6, <1>7 DEF RequestType, Travelling
  <1>12. \A o \in Origin : last'[o][Says(db, o)] = 0
    BY <1>1, <1>2 DEF TypeOK, Says, Answer
  <1>13. QED BY <1>3, <1>4, <1>5, <1>10, <1>11, <1>12

\* One step of a fetch keeps the types, and leaves the database alone.
LEMMA FetchType ==
  ASSUME TypeOK, NEW r \in Request,
         \/ refreshOAuthClientOrigins(r) \/ trustedOrigins(r) \/ getAllowedOrigins(r)
         \/ findMany(r) \/ fetchAndApply(r) \/ fetch_error(r)
         \/ route(r) \/ cors_error(r) \/ cors_ok(r)
  PROVE  TypeOK' /\ UNCHANGED <<db, last>>
  <1> USE DEF TypeOK
  <1>0. request[r] \in RequestType /\ request[r].origins \in SUBSET Origin
    BY DEF RequestType
  <1>1. CASE refreshOAuthClientOrigins(r)
    <2>1. request' \in [Request -> RequestType]
      BY <1>1, StartType DEF refreshOAuthClientOrigins
    <2>2. \A q \in Request : request'[q].pc \in {"asked", "answered"} => request'[q].for = "route"
      BY <1>1 DEF refreshOAuthClientOrigins, Start, Idle
    <2>3. pending' \in Nat
      BY <1>1 DEF refreshOAuthClientOrigins
    <2>4. cache' \in CacheType /\ cache'.origins \subseteq Origin
      BY <1>1, RecordTypes DEF refreshOAuthClientOrigins, Empty
    <2>5. QED BY <1>1, <2>1, <2>2, <2>3, <2>4 DEF refreshOAuthClientOrigins
  <1>2. CASE trustedOrigins(r)
    <2>1. request' \in [Request -> RequestType]
      BY <1>2, StartType DEF trustedOrigins
    <2>2. \A q \in Request : request'[q].pc \in {"asked", "answered"} => request'[q].for = "route"
      BY <1>2 DEF trustedOrigins, Start, Idle
    <2>3. QED BY <1>2, <2>1, <2>2 DEF trustedOrigins
  <1>3. CASE getAllowedOrigins(r)
    <2>1. [Idle EXCEPT !.pc = "asked", !.for = "route"] \in RequestType
      BY RecordTypes
    <2>2. request' \in [Request -> RequestType]
      BY <1>3, <2>1 DEF getAllowedOrigins
    <2>3. \A q \in Request : request'[q].pc \in {"asked", "answered"} => request'[q].for = "route"
      BY <1>3 DEF getAllowedOrigins, Idle
    <2>4. QED BY <1>3, <2>2, <2>3 DEF getAllowedOrigins
  <1>4. CASE findMany(r)
    <2>1. [request[r] EXCEPT !.pc = "read", !.origins = db, !.travel = 0] \in RequestType
      <3>1. 0 \in 0..Latency /\ db \in SUBSET Origin
        BY OriginsAssumption
      <3>2. QED BY <1>0, <3>1 DEF RequestType
    <2>2. request' = [request EXCEPT ![r] = [request[r] EXCEPT !.pc = "read", !.origins = db,
            !.travel = 0]]
      BY <1>4 DEF findMany
    <2>3. QED BY <1>4, <2>1, <2>2 DEF findMany
  <1>5. CASE fetchAndApply(r)
    <2>1. request' \in [Request -> RequestType]
      BY <1>0, <1>5, DoneType DEF fetchAndApply
    <2>2. \A q \in Request : request'[q].pc \in {"asked", "answered"} => request'[q].for = "route"
      BY <1>5 DEF fetchAndApply, Done, Answered, Idle
    <2>3. cache' \in CacheType /\ cache'.origins \subseteq Origin
      BY <1>0, <1>5, RecordTypes DEF fetchAndApply, Stored
    <2>4. QED BY <1>5, <2>1, <2>2, <2>3 DEF fetchAndApply
  <1>6. CASE fetch_error(r)
    BY <1>6, RecordTypes DEF fetch_error, Idle
  <1>7. CASE route(r)
    <2>1. [request[r] EXCEPT !.pc = "sent"] \in RequestType
      BY <1>0 DEF RequestType
    <2>2. cache.origins \in SUBSET Origin
      OBVIOUS
    <2>3. request' \in [Request -> RequestType]
      <3>1. CASE Valid(cache, TTL)
        BY <1>7, <2>2, <3>1, DoneType DEF route
      <3>2. CASE ~Valid(cache, TTL)
        <4>1. request' = [request EXCEPT ![r] = [request[r] EXCEPT !.pc = "sent"]]
          BY <1>7, <3>2 DEF route
        <4>2. QED BY <2>1, <4>1
      <3>3. QED BY <3>1, <3>2
    <2>4. \A q \in Request : request'[q].pc \in {"asked", "answered"} => request'[q].for = "route"
      <3>1. CASE Valid(cache, TTL)
        BY <1>7, <3>1 DEF route, Done, Answered, Idle
      <3>2. CASE ~Valid(cache, TTL)
        BY <1>7, <3>2 DEF route
      <3>3. QED BY <3>1, <3>2
    <2>5. QED BY <1>7, <2>3, <2>4 DEF route
  <1>8. CASE cors_error(r)
    BY <1>8, RecordTypes DEF cors_error, Idle
  <1>9. CASE cors_ok(r)
    <2>1. corsCache' \in CacheType
      BY <1>0, <1>9, RecordTypes DEF cors_ok
    <2>2. QED BY <1>9, <2>1, RecordTypes DEF cors_ok, Idle
  <1>10. QED BY <1>1, <1>2, <1>3, <1>4, <1>5, <1>6, <1>7, <1>8, <1>9

LEMMA TypeNext == TypeOK /\ [Next]_vars => TypeOK'
  <1>1. SUFFICES ASSUME TypeOK, [Next]_vars PROVE TypeOK'
    OBVIOUS
  <1>2. CASE change
    BY <1>1, <1>2, ChangeType DEF change, TypeOK
  <1>3. CASE skip_refresh
    BY <1>1, <1>3 DEF skip_refresh, TypeOK
  <1>4. CASE Tick
    BY <1>1, <1>4, TickType DEF Tick, TypeOK
  <1>5. ASSUME NEW r \in Request,
               \/ refreshOAuthClientOrigins(r) \/ trustedOrigins(r) \/ getAllowedOrigins(r)
               \/ findMany(r) \/ fetchAndApply(r) \/ fetch_error(r)
               \/ route(r) \/ cors_error(r) \/ cors_ok(r)
        PROVE  TypeOK'
    BY <1>1, <1>5, FetchType
  <1>6. CASE UNCHANGED vars
    BY <1>1, <1>6 DEF vars, TypeOK
  <1>7. QED BY <1>1, <1>2, <1>3, <1>4, <1>5, <1>6 DEF Next

\* Every variable of OAuthOrigins keeps its type, a response is only ever for the
\* middleware, and the database contradicts none of what it says now.
THEOREM TypeCorrect == Spec => []TypeOK
  <1>1. QED BY TypeInit, TypeNext, PTL DEF Spec

-----------------------------------------------------------------------------
(***************************************************************************)
(* What a copy says was true not long ago                                  *)
(***************************************************************************)

LEMMA NowTrue ==
  ASSUME TypeOK, NEW n \in Nat
  PROVE  Within(last, db, n)
  <1>1. \A o \in Origin : last[o][Says(db, o)] = 0
    BY DEF TypeOK
  <1>2. ASSUME NEW o \in Origin
        PROVE  last[o][Says(db, o)] <= n
    <2>1. last[o][Says(db, o)] = 0 /\ 0 <= n
      BY <1>1
    <2>2. QED BY <2>1
  <1>3. QED BY <1>2 DEF Within

LEMMA Weaken ==
  ASSUME TypeOK, NEW S \in SUBSET Origin, NEW m \in Nat, NEW n \in Nat, m <= n,
         Within(last, S, m)
  PROVE  Within(last, S, n)
  <1>1. \A o \in Origin : last[o][Says(S, o)] \in Nat /\ last[o][Says(S, o)] <= m
    BY DEF TypeOK, Says, Answer, Within
  <1>2. ASSUME NEW o \in Origin
        PROVE  last[o][Says(S, o)] <= n
    <2>1. last[o][Says(S, o)] \in Nat /\ last[o][Says(S, o)] <= m
      BY <1>1
    <2>2. QED BY <2>1
  <1>3. QED BY <1>2 DEF Within

\* After a step of the clock a copy is one unit older, after any other no older.
LEMMA LaterTrue ==
  ASSUME TypeOK, Tick, NEW S \in SUBSET Origin, NEW n \in Nat, Within(last, S, n)
  PROVE  Within(last', S, n + 1)
  <1>1. \A o \in Origin : Says(S, o) \in Answer /\ last[o][Says(S, o)] \in Nat
    BY DEF TypeOK, Says, Answer
  <1>2. \A o \in Origin : last'[o][Says(S, o)] <= last[o][Says(S, o)] + 1
    BY <1>1, TickType
  <1>3. \A o \in Origin : last'[o][Says(S, o)] \in Nat
    BY <1>1, TickType
  <1>4. QED BY <1>1, <1>2, <1>3 DEF Within

LEMMA StillTrue ==
  ASSUME TypeOK, change \/ UNCHANGED last, NEW S \in SUBSET Origin, NEW n \in Nat,
         Within(last, S, n)
  PROVE  Within(last', S, n)
  <1>1. \A o \in Origin : Says(S, o) \in Answer /\ last[o][Says(S, o)] \in Nat
    BY DEF TypeOK, Says, Answer
  <1>2. \A o \in Origin : /\ last'[o][Says(S, o)] <= last[o][Says(S, o)]
                          /\ last'[o][Says(S, o)] \in Nat
    BY <1>1, ChangeType
  <1>3. QED BY <1>1, <1>2 DEF Within

LEMMA LagInit == Init => LagInv
  <1>1. SUFFICES ASSUME Init PROVE LagInv
    OBVIOUS
  <1>2. TypeOK
    BY <1>1, TypeInit
  <1>3. QED
    BY <1>1, <1>2 DEF Init, LagInv, TravellersWithinLag, CachesWithinLag, Idle, Empty, Valid

\* The clock: everything under way and everything cached gets older with it.
LEMMA TickLag ==
  ASSUME LagInv, Tick
  PROVE  TravellersWithinLag' /\ CachesWithinLag'
  <1> USE DEF LagInv
  <1>1. \A r \in Request : /\ request[r].origins \in SUBSET Origin
                           /\ request[r].travel \in Nat
                           /\ TTL + Latency + request[r].travel \in Nat
    <2>1. \A r \in Request : request[r] \in RequestType
      BY DEF TypeOK
    <2>2. QED BY <2>1, OriginsAssumption DEF RequestType
  <1>2. TravellersWithinLag'
    <2>1. ASSUME NEW r \in Request, request'[r].pc = "read"
          PROVE  Within(last', request'[r].origins, request'[r].travel)
      <3>1. Within(last, request[r].origins, request[r].travel)
        BY <2>1, TickType DEF TravellersWithinLag, TrueWithin
      <3>2. Within(last', request[r].origins, request[r].travel + 1)
        BY <1>1, <3>1, LaterTrue
      <3>3. request'[r].origins = request[r].origins /\ request'[r].travel = request[r].travel + 1
        BY <2>1, TickType
      <3>4. QED BY <3>2, <3>3
    <2>2. ASSUME NEW r \in Request, request'[r].pc = "answered"
          PROVE  Within(last', request'[r].origins, TTL + Latency + request'[r].travel)
      <3>1. Within(last, request[r].origins, TTL + Latency + request[r].travel)
        BY <2>2, TickType DEF TravellersWithinLag, TrueWithin
      <3>2. Within(last', request[r].origins, TTL + Latency + request[r].travel + 1)
        BY <1>1, <3>1, LaterTrue
      <3>3. request'[r].origins = request[r].origins /\ request'[r].travel = request[r].travel + 1
        BY <2>2, TickType
      <3>4. TTL + Latency + request'[r].travel = TTL + Latency + request[r].travel + 1
        BY <1>1, <3>3, OriginsAssumption
      <3>5. QED BY <3>2, <3>3, <3>4
    <2>3. QED BY <2>1, <2>2 DEF TravellersWithinLag, TrueWithin
  <1>3. /\ cache.origins \in SUBSET Origin /\ cache.age \in Nat /\ cache \in CacheType
        /\ corsCache.age \in Nat /\ corsCache \in CacheType
    BY DEF TypeOK, CacheType
  <1>4. \A c \in CacheType, ttl \in Nat :
          Valid(Older(c, ttl), ttl) => /\ Valid(c, ttl)
                                       /\ Older(c, ttl).origins = c.origins
                                       /\ Older(c, ttl).age = c.age + 1
    BY DEF Valid, Older, CacheType
  <1>5. Valid(cache', TTL) => Within(last', cache'.origins, Latency + cache'.age)
    <2>1. SUFFICES ASSUME Valid(cache', TTL)
                   PROVE  Within(last', cache'.origins, Latency + cache'.age)
      OBVIOUS
    <2>2. Valid(cache, TTL) /\ cache'.origins = cache.origins /\ cache'.age = cache.age + 1
      BY <1>3, <1>4, <2>1, OriginsAssumption DEF Tick
    <2>3. Latency + cache.age \in Nat /\ Latency + cache.age + 1 = Latency + cache'.age
      BY <1>3, <2>2, OriginsAssumption
    <2>4. Within(last', cache.origins, Latency + cache.age + 1)
      BY <1>3, <2>2, <2>3, LaterTrue DEF CachesWithinLag, TrueWithin
    <2>5. QED BY <2>2, <2>3, <2>4
  <1>6. ASSUME Valid(corsCache', CORS_TTL)
        PROVE  DecidesWithin(TTL + Latency + Latency + corsCache.age)'
    <2>1. /\ Valid(corsCache, CORS_TTL)
          /\ corsCache'.origins = corsCache.origins /\ corsCache'.age = corsCache.age + 1
      BY <1>3, <1>4, <1>6, OriginsAssumption DEF Tick
    <2>2. PICK S \in SUBSET Origin : /\ Within(last, S, TTL + Latency + Latency + corsCache.age)
                                     /\ corsCache.origins = Allowed(S)
      BY <2>1 DEF CachesWithinLag, DecidesWithin, TrueWithin
    <2>3. /\ TTL + Latency + Latency + corsCache.age \in Nat
          /\ TTL + Latency + Latency + corsCache.age + 1
               = TTL + Latency + Latency + corsCache'.age
      BY <1>3, <2>1, OriginsAssumption
    <2>4. Within(last', S, TTL + Latency + Latency + corsCache.age + 1)
      BY <2>2, <2>3, LaterTrue
    <2>5. QED BY <2>1, <2>2, <2>3, <2>4 DEF DecidesWithin, TrueWithin
  <1>7. QED BY <1>2, <1>5, <1>6 DEF CachesWithinLag, TrueWithin, Valid

\* A step of a fetch hands on what it has, at no loss of time: the database to a
\* query, a query's result to the cache and to a response, the cache to a response,
\* a response to the middleware's cache.
LEMMA FetchLag ==
  ASSUME LagInv, NEW r \in Request,
         \/ refreshOAuthClientOrigins(r) \/ trustedOrigins(r) \/ getAllowedOrigins(r)
         \/ findMany(r) \/ fetchAndApply(r) \/ fetch_error(r)
         \/ route(r) \/ cors_error(r) \/ cors_ok(r)
  PROVE  TravellersWithinLag' /\ CachesWithinLag'
  <1> USE DEF LagInv, TravellersWithinLag, CachesWithinLag, DecidesWithin, TrueWithin
  <1>0. /\ request \in [Request -> RequestType] /\ request[r] \in RequestType
        /\ request[r].origins \in SUBSET Origin /\ request[r].travel \in 0..Latency
        /\ cache.origins \in SUBSET Origin /\ cache.age \in Nat
    BY DEF TypeOK, RequestType, CacheType
  <1>1. last' = last
    BY FetchType
  <1>2. CASE request' = [request EXCEPT ![r] = Idle] /\ cache' = cache /\ corsCache' = corsCache
    BY <1>0, <1>1, <1>2 DEF Idle
  <1>3. CASE refreshOAuthClientOrigins(r)
    BY <1>0, <1>1, <1>3 DEF refreshOAuthClientOrigins, Start, Idle, Empty, Valid
  <1>4. CASE trustedOrigins(r)
    BY <1>0, <1>1, <1>4 DEF trustedOrigins, Start, Idle
  <1>5. CASE getAllowedOrigins(r)
    BY <1>0, <1>1, <1>5 DEF getAllowedOrigins, Idle
  <1>6. CASE findMany(r)
    <2>1. request' = [request EXCEPT ![r] = [request[r] EXCEPT !.pc = "read", !.origins = db,
            !.travel = 0]]
      BY <1>6 DEF findMany
    <2>2. request'[r].pc = "read" /\ request'[r].origins = db /\ request'[r].travel = 0
      BY <1>0, <2>1 DEF RequestType
    <2>3. Within(last, db, 0)
      BY NowTrue
    <2>4. QED BY <1>0, <1>1, <1>6, <2>1, <2>2, <2>3 DEF findMany
  <1>7. CASE fetchAndApply(r)
    <2>1. Within(last, request[r].origins, request[r].travel)
      BY <1>7 DEF fetchAndApply
    <2>2. Within(last, request[r].origins, Latency)
            /\ Within(last, request[r].origins, TTL + Latency)
      BY <1>0, <2>1, Weaken, OriginsAssumption
    <2>3. /\ cache'.origins = request[r].origins /\ cache'.age = 0
          /\ corsCache' = corsCache
      BY <1>7 DEF fetchAndApply, Stored
    <2>4. Latency + cache'.age = Latency
      BY <2>3, OriginsAssumption
    <2>5. request' = [request EXCEPT ![r] = Idle]
          \/ request' = [request EXCEPT ![r] = Answered(request[r].origins)]
      BY <1>0, <1>7 DEF fetchAndApply, Done
    <2>6. TTL + Latency + 0 = TTL + Latency
      BY OriginsAssumption
    <2>7. TravellersWithinLag'
      <3>1. \A q \in Request : q # r => request'[q] = request[q]
        BY <1>0, <2>5
      <3>2. request'[r].pc \in {"idle", "answered"}
        BY <1>0, <2>5 DEF Idle, Answered
      <3>3. request'[r].pc = "answered" =>
              request'[r].origins = request[r].origins /\ request'[r].travel = 0
        BY <1>0, <2>5 DEF Idle, Answered
      <3>4. QED BY <1>1, <2>2, <2>6, <3>1, <3>2, <3>3
    <2>8. QED BY <1>1, <2>2, <2>3, <2>4, <2>7
  <1>8. CASE fetch_error(r)
    BY <1>2, <1>8 DEF fetch_error
  <1>9. CASE route(r)
    <2>1. CASE Valid(cache, TTL)
      <3>1. Within(last, cache.origins, Latency + cache.age)
        BY <2>1
      <3>2. Latency + cache.age \in Nat /\ TTL + Latency \in Nat
              /\ Latency + cache.age <= TTL + Latency
        BY <1>0, <2>1, OriginsAssumption DEF Valid
      <3>3. Within(last, cache.origins, TTL + Latency)
        BY <1>0, <3>1, <3>2, Weaken
      <3>4. request' = [request EXCEPT ![r] = Idle]
            \/ request' = [request EXCEPT ![r] = Answered(cache.origins)]
        BY <1>0, <1>9, <2>1 DEF route, Done
      <3>5. TTL + Latency + 0 = TTL + Latency
        BY OriginsAssumption
      <3>6. TravellersWithinLag'
        <4>1. \A q \in Request : q # r => request'[q] = request[q]
          BY <1>0, <3>4
        <4>2. request'[r].pc \in {"idle", "answered"}
          BY <1>0, <3>4 DEF Idle, Answered
        <4>3. request'[r].pc = "answered" =>
                request'[r].origins = cache.origins /\ request'[r].travel = 0
          BY <1>0, <3>4 DEF Idle, Answered
        <4>4. QED BY <1>1, <3>3, <3>5, <4>1, <4>2, <4>3
      <3>7. QED BY <1>1, <1>9, <3>6 DEF route
    <2>2. CASE ~Valid(cache, TTL)
      <3>1. request' = [request EXCEPT ![r] = [request[r] EXCEPT !.pc = "sent"]]
        BY <1>9, <2>2 DEF route
      <3>2. request'[r].pc = "sent"
        BY <1>0, <3>1 DEF RequestType
      <3>3. QED BY <1>0, <1>1, <1>9, <3>1, <3>2 DEF route
    <2>3. QED BY <2>1, <2>2
  <1>10. CASE cors_error(r)
    BY <1>2, <1>10 DEF cors_error
  <1>11. CASE cors_ok(r)
    <2>1. Within(last, request[r].origins, TTL + Latency + request[r].travel)
      BY <1>11 DEF cors_ok
    <2>2. /\ TTL + Latency + request[r].travel \in Nat
          /\ TTL + Latency + Latency \in Nat
          /\ TTL + Latency + request[r].travel <= TTL + Latency + Latency
          /\ TTL + Latency + Latency + 0 = TTL + Latency + Latency
      BY <1>0, OriginsAssumption
    <2>3. Within(last, request[r].origins, TTL + Latency + Latency + 0)
      BY <1>0, <2>1, <2>2, Weaken
    <2>4. corsCache'.origins = Allowed(request[r].origins) /\ corsCache'.age = 0
      BY <1>11 DEF cors_ok, Stored
    <2>5. QED BY <1>0, <1>1, <1>11, <2>3, <2>4 DEF cors_ok, Idle
  <1>12. QED BY <1>3, <1>4, <1>5, <1>6, <1>7, <1>8, <1>9, <1>10, <1>11

LEMMA LagNext == LagInv /\ [Next]_vars => LagInv'
  <1>1. SUFFICES ASSUME LagInv, [Next]_vars PROVE LagInv'
    OBVIOUS
  <1>2. TypeOK'
    BY <1>1, TypeNext DEF LagInv
  <1>3. CASE change \/ skip_refresh \/ UNCHANGED vars
    <2>1. /\ change \/ UNCHANGED last
          /\ cache' = cache /\ corsCache' = corsCache /\ request' = request
      BY <1>3 DEF change, skip_refresh, vars
    <2>2. \A r \in Request : /\ request[r].origins \in SUBSET Origin
                             /\ request[r].travel \in Nat
                             /\ TTL + Latency + request[r].travel \in Nat
      <3>1. \A r \in Request : request[r] \in RequestType
        BY <1>1 DEF LagInv, TypeOK
      <3>2. QED BY <3>1, OriginsAssumption DEF RequestType
    <2>3. /\ cache.origins \in SUBSET Origin /\ Latency + cache.age \in Nat
          /\ TTL + Latency + Latency + corsCache.age \in Nat
      BY <1>1, OriginsAssumption DEF LagInv, TypeOK, CacheType
    <2>4. TravellersWithinLag'
      BY <1>1, <2>1, <2>2, StillTrue DEF LagInv, TravellersWithinLag, TrueWithin
    <2>5. CachesWithinLag'
      BY <1>1, <2>1, <2>3, StillTrue DEF LagInv, CachesWithinLag, DecidesWithin, TrueWithin
    <2>6. QED BY <1>2, <2>4, <2>5 DEF LagInv
  <1>4. CASE Tick
    BY <1>1, <1>2, <1>4, TickLag DEF LagInv
  <1>5. ASSUME NEW r \in Request,
               \/ refreshOAuthClientOrigins(r) \/ trustedOrigins(r) \/ getAllowedOrigins(r)
               \/ findMany(r) \/ fetchAndApply(r) \/ fetch_error(r)
               \/ route(r) \/ cors_error(r) \/ cors_ok(r)
        PROVE  LagInv'
    BY <1>1, <1>2, <1>5, FetchLag DEF LagInv
  <1>6. QED BY <1>1, <1>3, <1>4, <1>5 DEF Next

LEMMA LagBounds == LagInv => DecisionsWithinLag
  <1>1. SUFFICES ASSUME LagInv, Valid(corsCache, CORS_TTL)
                 PROVE  DecidesWithin(Lag)
    BY DEF DecisionsWithinLag, DecidesWithin
  <1>2. corsCache.age \in Nat /\ corsCache.age < CORS_TTL
    BY <1>1 DEF LagInv, TypeOK, CacheType, Valid
  <1>3. /\ TTL + Latency + Latency + corsCache.age \in Nat /\ Lag \in Nat
        /\ TTL + Latency + Latency + corsCache.age <= Lag
    BY <1>2, OriginsAssumption DEF Lag
  <1>4. PICK S \in SUBSET Origin : /\ Within(last, S, TTL + Latency + Latency + corsCache.age)
                                   /\ corsCache.origins = Allowed(S)
    BY <1>1 DEF LagInv, CachesWithinLag, DecidesWithin, TrueWithin
  <1>5. Within(last, S, Lag)
    BY <1>1, <1>3, <1>4, Weaken DEF LagInv
  <1>6. QED BY <1>4, <1>5 DEF DecidesWithin, TrueWithin

\* However fetches, refreshes and responses overtake each other, whatever of them
\* fails, the middleware's valid cache says of no origin what the database has not
\* said within TTL + CORS_TTL and the time of one query and one response, but of the
\* origin that the middleware adds itself, which it always allows.
THEOREM WithinLag == Spec => []DecisionsWithinLag
  <1>1. QED BY LagInit, LagNext, LagBounds, PTL DEF Spec

-----------------------------------------------------------------------------
(***************************************************************************)
(* After its refresh, the cache agrees with the database                   *)
(***************************************************************************)

LEMMA AgreeInit == Init => AgreeInv
  BY TypeInit DEF Init, AgreeInv, ReadsAgree, QuietCacheAgrees, Idle, Empty, Valid

LEMMA AgreeNext == AgreeInv /\ [Next]_vars => AgreeInv'
  <1>1. SUFFICES ASSUME AgreeInv, [Next]_vars PROVE AgreeInv'
    OBVIOUS
  <1>2. TypeOK'
    BY <1>1, TypeNext DEF AgreeInv
  <1>3. SUFFICES ReadsAgree' /\ QuietCacheAgrees'
    BY <1>2 DEF AgreeInv
  <1> USE <1>1 DEF AgreeInv, ReadsAgree, QuietCacheAgrees
  <1>4. pending \in Nat /\ request \in [Request -> RequestType]
    BY DEF TypeOK
  <1>5. CASE change
    BY <1>4, <1>5 DEF change
  <1>6. CASE skip_refresh
    BY <1>6 DEF skip_refresh
  <1>7. CASE Tick
    <2>1. \A r \in Request : request'[r].pc = request[r].pc
            /\ request'[r].origins = request[r].origins
      BY <1>7, TickType
    <2>2. cache \in CacheType
      BY DEF TypeOK
    <2>3. Valid(cache', TTL) => Valid(cache, TTL) /\ cache'.origins = cache.origins
      BY <1>7, <2>2, OriginsAssumption DEF Tick, Valid, Older, CacheType
    <2>4. QED BY <1>7, <2>1, <2>3 DEF Tick, Valid
  <1>8. ASSUME NEW r \in Request, refreshOAuthClientOrigins(r)
        PROVE  ReadsAgree' /\ QuietCacheAgrees'
    BY <1>4, <1>8 DEF refreshOAuthClientOrigins, Start, Idle, Empty, Valid
  <1>9. ASSUME NEW r \in Request, trustedOrigins(r)
        PROVE  ReadsAgree' /\ QuietCacheAgrees'
    BY <1>4, <1>9 DEF trustedOrigins, Start, Idle, Valid
  <1>10. ASSUME NEW r \in Request, getAllowedOrigins(r)
         PROVE  ReadsAgree' /\ QuietCacheAgrees'
    BY <1>4, <1>10 DEF getAllowedOrigins, Idle, Valid
  <1>11. ASSUME NEW r \in Request, findMany(r)
         PROVE  ReadsAgree' /\ QuietCacheAgrees'
    <2>1. request' = [request EXCEPT ![r] = [request[r] EXCEPT !.pc = "read", !.origins = db,
            !.travel = 0]]
      BY <1>11 DEF findMany
    <2>2. request'[r].origins = db
      BY <1>4, <2>1 DEF RequestType
    <2>3. QED BY <1>4, <1>11, <2>1, <2>2 DEF findMany, Valid
  <1>12. ASSUME NEW r \in Request, fetchAndApply(r)
         PROVE  ReadsAgree' /\ QuietCacheAgrees'
    <2>1. request' = [request EXCEPT ![r] = Idle]
          \/ request' = [request EXCEPT ![r] = Answered(request[r].origins)]
      BY <1>4, <1>12 DEF fetchAndApply, Done
    <2>2. request'[r].pc # "read"
      BY <1>4, <2>1 DEF Idle, Answered
    <2>3. \A q \in Request : q # r => request'[q] = request[q]
      BY <1>4, <2>1
    <2>4. ReadsAgree'
      BY <1>12, <2>2, <2>3 DEF fetchAndApply
    <2>5. QuietCacheAgrees'
      BY <1>12 DEF fetchAndApply, Stored
    <2>6. QED BY <2>4, <2>5
  <1>13. ASSUME NEW r \in Request, fetch_error(r) \/ cors_error(r) \/ cors_ok(r)
         PROVE  ReadsAgree' /\ QuietCacheAgrees'
    BY <1>4, <1>13 DEF fetch_error, cors_error, cors_ok, Idle, Valid
  <1>14. ASSUME NEW r \in Request, route(r)
         PROVE  ReadsAgree' /\ QuietCacheAgrees'
    <2>1. \/ request' = [request EXCEPT ![r] = Idle]
          \/ request' = [request EXCEPT ![r] = Answered(cache.origins)]
          \/ request' = [request EXCEPT ![r] = [request[r] EXCEPT !.pc = "sent"]]
      BY <1>4, <1>14 DEF route, Done
    <2>2. request'[r].pc # "read"
      <3>1. CASE request' = [request EXCEPT ![r] = [request[r] EXCEPT !.pc = "sent"]]
        BY <1>4, <3>1 DEF RequestType
      <3>2. CASE request' = [request EXCEPT ![r] = Idle]
        BY <1>4, <3>2 DEF Idle
      <3>3. CASE request' = [request EXCEPT ![r] = Answered(cache.origins)]
        BY <1>4, <3>3 DEF Answered
      <3>4. QED BY <2>1, <3>1, <3>2, <3>3
    <2>3. QED BY <1>4, <1>14, <2>1, <2>2 DEF route, Valid
  <1>15. CASE UNCHANGED vars
    BY <1>15 DEF vars, Valid
  <1>16. QED
    BY <1>5, <1>6, <1>7, <1>8, <1>9, <1>10, <1>11, <1>12, <1>13, <1>14, <1>15 DEF Next

\* Whatever fetches are under way: once every change has been followed by its
\* refresh, the cache says what the database says, unless the last change came
\* between a query's answer and its use, or its refresh was skipped.
THEOREM RefreshedCacheAgrees == Spec => []QuietCacheAgrees
  <1>1. AgreeInv => QuietCacheAgrees
    BY DEF AgreeInv
  <1>2. QED BY <1>1, AgreeInit, AgreeNext, PTL DEF Spec

-----------------------------------------------------------------------------
(***************************************************************************)
(* The storage configuration.  What is wrong with a row or a bucket is the *)
(* work of a request that read before another one wrote, so the invariant  *)
(* says of every request under way what it knows of the row and of the     *)
(* origins it has read (RequestsKnow), and who may have written since.     *)
(***************************************************************************)

\* What is assumed of the storage's constants.
LEMMA StorageFacts == NoBucket \notin Bucket /\ All \in Origins /\ MaxRequests \in Nat
  BY RulesAssumption DEF Setup!StorageAssumption

Statuses == {"pending_verification", "active", "verification_failed"}
ConfigRow == [mode : {"managed", "byob"}, bucket : Bucket \cup {NoBucket}, creds : Nat,
              status : Statuses, bucketBy : Nat, statusBy : Nat]

\* What a request holds at each step.
Updating == [op : {"update"}, id : Nat, bucket : Bucket, read : ConfigRow]
Probing == [op : {"probe"}, id : Nat, read : ConfigRow]
Judging == [op : {"verdict"}, id : Nat, read : ConfigRow,
            status : {"active", "verification_failed"}]
Securing == [op : {"security"}, id : Nat, origins : Origins, read : Origins]
Syncing == [op : {"sync"}, id : Nat, origins : Origins]
Ruling == [op : {"cors"}, id : Nat, origins : Origins, bucket : Bucket]
Calls == Updating \cup Probing \cup Judging \cup Securing \cup Syncing \cup Ruling

\* q ended after r had begun.
Later(q, r) == q # 0 /\ q \notin before[r]

\* What was written since an update or a verify read the row was written by a
\* request that had not ended when it began.
KnowsRow(c) ==
  /\ c.op = "update" =>
       /\ c.read.status # "active" /\ storage.status = "active" => Later(storage.statusBy, c.id)
       /\ c.read.bucket # NoBucket => storage.bucket # NoBucket
  /\ c.op \in {"probe", "verdict"} =>
       /\ c.read.bucket # NoBucket /\ c.read.creds \in Setup!By
       /\ c.read.creds = storage.creds \/ Later(storage.creds, c.id)
       /\ c.read.bucket = storage.bucket \/ Later(storage.bucketBy, c.id)
  /\ c.op = "verdict" /\ c.status = "active" => <<c.read.bucket, c.read.creds>> \in probed

\* A request that sets origins knows those in the database, unless they were
\* written since it began.
KnowsOrigins(c) ==
  /\ c.op \notin {"sync", "cors"} => c.id # config.by
  /\ c.op = "security" /\ config.by \in before[c.id] => c.read = config.origins
  /\ c.op \in {"sync", "cors"} /\ config.by \in before[c.id] \cup {c.id} =>
       c.origins = config.origins
  /\ c.op = "cors" /\ config.by = c.id /\ Setup!Precedes(storage.bucketBy, c.id) =>
       c.bucket = storage.bucket

\* The requests under way are numbered differently, and writers of the row
\* have ended.
IdsFit ==
  /\ \A h \in Handler : call[h] # Setup!Idle => call[h] \in Calls
  /\ \A g, h \in Handler : call[g] # Setup!Idle /\ call[g].id = call[h].id => g = h
  /\ \A r \in Setup!Requests : before[r] \subseteq ended
  /\ {storage.creds, storage.bucketBy, storage.statusBy} \subseteq {0} \cup ended
  /\ DOMAIN call = Handler /\ before \in Seq(SUBSET Nat)
  /\ storage.mode = "managed" => storage.bucket # NoBucket

\* The inductive invariant of the storage configuration.
RequestsKnow ==
  \A h \in Handler : call[h] # Setup!Idle => KnowsRow(call[h]) /\ KnowsOrigins(call[h])

Typed == Setup!TypeOK /\ IdsFit
SetupInv == Typed /\ RequestsKnow /\ Setup!ActiveWasProbed /\ Setup!CorsFollowsConfig

\* The record a request holds tells which operation it is.
LEMMA CallShapes ==
  ASSUME NEW c \in Calls
  PROVE  /\ c.op = "update" => c \in Updating
         /\ c.op = "probe" => c \in Probing
         /\ c.op = "verdict" => c \in Judging
         /\ c.op = "security" => c \in Securing
         /\ c.op = "sync" => c \in Syncing
         /\ c.op = "cors" => c \in Ruling
         /\ c # Setup!Idle /\ c.id \in Nat
  <1>1. Setup!Idle.op = "idle" BY DEF Setup!Idle
  <1>2. QED BY <1>1 DEF Calls, Updating, Probing, Judging, Securing, Syncing, Ruling

\* The request of a slot that is at some step.
LEMMA CallOf ==
  ASSUME Typed, NEW h \in Handler, call[h] # Setup!Idle
  PROVE  /\ call[h] \in Calls /\ call[h].id \in Setup!Requests \ ended
         /\ call[h].id \in Nat \ {0} /\ Len(before) \in Nat
         /\ \A r \in Setup!Requests : call[h].id \notin before[r]
         /\ \A g \in Handler : g # h => call[g].id # call[h].id
  BY DEF Typed, IdsFit, Setup!TypeOK, Setup!Requests

\* A handler with an operation is not idle.
LEMMA NotIdle == \A h \in Handler : call[h].op # "idle" => call[h] # Setup!Idle
  BY DEF Setup!Idle

\* before only grows, and says of the requests it knows what it said.
LEMMA BeforeKept ==
  ASSUME Typed, before' = before \/ before' = Append(before, ended)
  PROVE  /\ Setup!Requests \subseteq Setup!Requests'
         /\ \A r \in Setup!Requests : before'[r] = before[r]
         /\ before' = Append(before, ended) => Setup!Requests' = Setup!Requests \cup {Setup!NextId}
                                               /\ before'[Setup!NextId] = ended
                                               /\ Setup!NextId \notin Setup!Requests
                                                    /\ Setup!NextId \in Nat \ {0}
         /\ before' \in Seq(SUBSET Nat)
  <1>1. before \in Seq(SUBSET Nat) /\ ended \in SUBSET Nat /\ Len(before) \in Nat
    BY DEF Typed, IdsFit, Setup!TypeOK, Setup!Requests
  <1>2. CASE before' = before BY <1>1, <1>2, AppendProperties DEF Setup!Requests, Setup!NextId
  <1>3. CASE before' = Append(before, ended)
    <2>1. before' \in Seq(SUBSET Nat) /\ Len(before') = Len(before) + 1
          /\ before'[Len(before) + 1] = ended
          /\ \A r \in 1..Len(before) : before'[r] = before[r]
      BY <1>1, <1>3, AppendProperties
    <2>2. QED BY <1>1, <1>3, <2>1 DEF Setup!Requests, Setup!NextId
  <1>4. QED BY <1>2, <1>3

\* The types, and the numbers of the requests, when a request begins ...
LEMMA TypedBegin ==
  ASSUME Typed, NEW h \in Handler, NEW c \in Calls, c.id = Setup!NextId, Setup!Begin(h, c)
  PROVE  Typed'
  <1>1. /\ Setup!Requests' = Setup!Requests \cup {Setup!NextId} /\ before'[Setup!NextId] = ended
        /\ Setup!NextId \notin Setup!Requests /\ Setup!NextId \in Nat \ {0}
        /\ \A r \in Setup!Requests : before'[r] = before[r]
        /\ before' \in Seq(SUBSET Nat)
    BY BeforeKept DEF Setup!Begin
  <1>2. /\ UNCHANGED <<storage, config, cors, probed, ended, failed>>
        /\ \A g \in Handler : call'[g] = IF g = h THEN c ELSE call[g]
        /\ DOMAIN call' = Handler /\ c # Setup!Idle
    BY CallShapes DEF Setup!Begin, Typed, IdsFit
  <1>3. Setup!By \subseteq Setup!By' BY <1>1 DEF Setup!By
  <1>4. Len(before) \in Nat BY DEF Typed, IdsFit
  <1>5. Setup!TypeOK'
    <2>1. /\ storage' \in [mode : {"managed", "byob"}, bucket : Bucket \cup {NoBucket},
               creds : Setup!By',
                  status : {"pending_verification", "active", "verification_failed"},
                  bucketBy : Setup!By', statusBy : Setup!By']
          /\ (storage'.bucket = NoBucket => storage'.creds = 0 /\ storage'.bucketBy = 0)
      BY <1>2, <1>3 DEF Typed, Setup!TypeOK
    <2>2. config' \in [origins : Origins, by : Setup!By']
            /\ cors' \in [Bucket -> [origins : Origins, by : Setup!By']]
      BY <1>2, <1>3 DEF Typed, Setup!TypeOK
    <2>3. probed' \subseteq Bucket \X Setup!By'
      BY <1>2, <1>3 DEF Typed, Setup!TypeOK
    <2>4. \A g \in Handler : call'[g] = Setup!Idle \/ call'[g].id \in Setup!Requests' \ ended'
      BY <1>1, <1>2 DEF Typed, Setup!TypeOK
    <2>5. \A r \in Setup!Requests' : before'[r] \subseteq 1..(r - 1)
      BY <1>1, <1>2, <1>4 DEF Typed, Setup!TypeOK, Setup!Requests, Setup!NextId
    <2>6. failed' \subseteq ended' /\ ended' \subseteq Setup!Requests'
      BY <1>1, <1>2 DEF Typed, Setup!TypeOK
    <2>7. QED BY <2>1, <2>2, <2>3, <2>4, <2>5, <2>6 DEF Setup!TypeOK
  <1>6. IdsFit'
    <2>1. \A g, k \in Handler : call'[g] # Setup!Idle /\ call'[k].id = call'[g].id => g = k
      <3>1. \A g \in Handler : call[g] # Setup!Idle => call[g].id # Setup!NextId
        BY <1>1 DEF Typed, Setup!TypeOK
      <3>2. Setup!Idle.id = 0 BY DEF Setup!Idle
      <3>3. QED BY <3>1, <3>2, <1>1, <1>2 DEF Typed, IdsFit
    <2>2. \A r \in Setup!Requests' : before'[r] \subseteq ended'
      BY <1>1, <1>2 DEF Typed, IdsFit
    <2>3. \A g \in Handler : call'[g] # Setup!Idle => call'[g] \in Calls
      BY <1>2 DEF Typed, IdsFit
    <2>4. QED BY <1>1, <1>2, <2>1, <2>2, <2>3 DEF Typed, IdsFit
  <1>7. QED BY <1>5, <1>6 DEF Typed

\* ... when it goes on ...
LEMMA TypedMove ==
  ASSUME Typed, NEW h \in Handler, call[h] # Setup!Idle, NEW c \in Calls, c.id = call[h].id,
         call' = [call EXCEPT ![h] = c], UNCHANGED <<storage, cors, before, ended, failed>>,
         config' \in [origins : Origins, by : Setup!By], probed' \subseteq Bucket \X Setup!By
  PROVE  Typed'
  <1>1. /\ \A g \in Handler : call'[g] = IF g = h THEN c ELSE call[g]
        /\ DOMAIN call' = Handler /\ c # Setup!Idle /\ Setup!Requests' = Setup!Requests
             /\ Setup!By' = Setup!By
    BY CallShapes DEF Typed, IdsFit, Setup!Requests, Setup!By
  <1>2. Setup!TypeOK' BY <1>1, CallOf DEF Typed, Setup!TypeOK
  <1>3. \A g, k \in Handler : call'[g] # Setup!Idle /\ call'[k].id = call'[g].id => g = k
    <2>1. \A g \in Handler : call'[g].id = call[g].id
            /\ (call'[g] # Setup!Idle <=> call[g] # Setup!Idle)
      BY <1>1
    <2>2. QED BY <2>1 DEF Typed, IdsFit
  <1>4. IdsFit' BY <1>1, <1>3 DEF Typed, IdsFit
  <1>5. QED BY <1>2, <1>4 DEF Typed

\* ... and when it ends.
LEMMA TypedEnd ==
  ASSUME Typed, NEW h \in Handler, call[h] # Setup!Idle, Setup!Fail(h) \/ Setup!Succeed(h),
         storage' \in ConfigRow,
         {storage'.creds, storage'.bucketBy, storage'.statusBy} \subseteq {0} \cup ended',
         storage'.bucket = NoBucket => /\ storage'.creds = 0 /\ storage'.bucketBy = 0
                                       /\ storage'.mode # "managed",
         cors' \in [Bucket -> [origins : Origins, by : Setup!By]], UNCHANGED <<config, probed>>
  PROVE  Typed'
  <1>1. /\ \A g \in Handler : call'[g] = IF g = h THEN Setup!Idle ELSE call[g]
        /\ DOMAIN call' = Handler /\ Setup!Requests' = Setup!Requests /\ Setup!By' = Setup!By
             /\ before' = before
        /\ ended' = ended \cup {call[h].id}
        /\ failed' = failed \/ failed' = failed \cup {call[h].id}
    BY DEF Setup!Fail, Setup!Succeed, Setup!End, Typed, IdsFit, Setup!Requests, Setup!By
  <1>2. /\ call[h].id \in Setup!Requests \ ended
        /\ \A g \in Handler : g # h => call[g].id # call[h].id
    BY CallOf
  <1>3. Setup!TypeOK'
    <2>1. ended' \subseteq Setup!Requests /\ failed' \subseteq ended'
      BY <1>1, <1>2 DEF Typed, Setup!TypeOK
    <2>2. storage' \in [mode : {"managed", "byob"}, bucket : Bucket \cup {NoBucket},
            creds : Setup!By,
                  status : {"pending_verification", "active", "verification_failed"},
                  bucketBy : Setup!By, statusBy : Setup!By]
      BY <2>1 DEF ConfigRow, Statuses, Setup!By
    <2>3. \A g \in Handler : call'[g] = Setup!Idle \/ call'[g].id \in Setup!Requests \ ended'
      BY <1>1, <1>2 DEF Typed, Setup!TypeOK
    <2>4. QED BY <1>1, <2>1, <2>2, <2>3 DEF Typed, Setup!TypeOK
  <1>4. IdsFit'
    <2>1. \A g, k \in Handler : call'[g] # Setup!Idle /\ call'[k].id = call'[g].id => g = k
      <3>1. Setup!Idle.id = 0 /\ \A g \in Handler : call[g] # Setup!Idle => call[g].id # 0
        BY CallOf DEF Setup!Idle
      <3>2. QED BY <1>1, <3>1 DEF Typed, IdsFit
    <2>2. QED BY <1>1, <2>1 DEF Typed, IdsFit
  <1>5. QED BY <1>3, <1>4 DEF Typed

\* What update_commit writes.
LEMMA UpdateWrites ==
  ASSUME SetupInv, NEW h \in Handler, Setup!update_commit(h)
  PROVE  /\ call[h] \in Updating /\ call[h] # Setup!Idle /\ storage' \in ConfigRow
         /\ storage'.creds = call[h].id /\ storage'.statusBy = storage.statusBy
         /\ storage'.bucket # NoBucket
         /\ \/ storage'.bucket = storage.bucket /\ storage'.bucketBy = storage.bucketBy
            \/ storage'.bucketBy = call[h].id
         /\ storage'.status = "active" =>
              storage.status = "active" /\ call[h].read.status # "active"
  <1> DEFINE c == call[h]
  <1>1. c.op = "update" /\ c # Setup!Idle BY NotIdle DEF Setup!update_commit
  <1>2. c \in Updating /\ KnowsRow(c)
    BY <1>1, CallOf, CallShapes DEF SetupInv, RequestsKnow
  <1>3. storage \in ConfigRow
    BY DEF SetupInv, Typed, Setup!TypeOK, ConfigRow, Statuses, Setup!By, Setup!Requests
  <1>4. storage' = [storage EXCEPT
                     !.bucket = Setup!Written(c.read.bucket, @, c.bucket),
                     !.bucketBy = IF c.bucket = c.read.bucket THEN @ ELSE c.id,
                     !.creds = c.id,
                     !.status = Setup!Written(c.read.status, @, "pending_verification")]
    BY DEF Setup!update_commit
  <1>5. /\ c.id \in Nat /\ c.bucket \in Bucket /\ c.read.status \in Statuses
        /\ c.bucket # NoBucket
    BY <1>2, StorageFacts DEF Updating, ConfigRow
  <1>6. c.read.bucket # NoBucket => storage.bucket # NoBucket
    BY <1>1, <1>2 DEF KnowsRow
  <1> HIDE DEF c
  <1>7. /\ storage'.bucket = Setup!Written(c.read.bucket, storage.bucket, c.bucket)
        /\ storage'.bucketBy = (IF c.bucket = c.read.bucket THEN storage.bucketBy ELSE c.id)
        /\ storage'.creds = c.id /\ storage'.statusBy = storage.statusBy
        /\ storage'.status = Setup!Written(c.read.status, storage.status, "pending_verification")
    BY <1>3, <1>4 DEF ConfigRow
  <1>8. storage' \in ConfigRow
    BY <1>3, <1>4, <1>5 DEF ConfigRow, Statuses, Setup!Written
  <1>9. storage'.bucket # NoBucket BY <1>5, <1>6, <1>7 DEF Setup!Written
  <1>10. \/ storage'.bucket = storage.bucket /\ storage'.bucketBy = storage.bucketBy
         \/ storage'.bucketBy = c.id
    BY <1>7 DEF Setup!Written
  <1>11. storage'.status = "active" => storage.status = "active" /\ c.read.status # "active"
    BY <1>7 DEF Setup!Written
  <1>12. QED BY <1>1, <1>2, <1>7, <1>8, <1>9, <1>10, <1>11 DEF c

\* What verdict writes.
LEMMA VerdictWrites ==
  ASSUME SetupInv, NEW h \in Handler, Setup!verdict(h)
  PROVE  /\ call[h] \in Judging /\ call[h] # Setup!Idle /\ storage' \in ConfigRow
         /\ storage'.creds = storage.creds /\ storage'.bucket = storage.bucket
         /\ storage'.bucketBy = storage.bucketBy /\ storage'.mode = storage.mode
         /\ \/ storage'.status = storage.status /\ storage'.statusBy = storage.statusBy
            \/ storage'.status = call[h].status /\ storage'.statusBy = call[h].id
  <1> DEFINE c == call[h]
  <1>1. c.op = "verdict" /\ c # Setup!Idle BY NotIdle DEF Setup!verdict
  <1>2. c \in Judging BY <1>1, CallOf, CallShapes DEF SetupInv
  <1>3. storage \in ConfigRow
    BY DEF SetupInv, Typed, Setup!TypeOK, ConfigRow, Statuses, Setup!By, Setup!Requests
  <1>4. storage' = [storage EXCEPT
                     !.status = Setup!Written(c.read.status, @, c.status),
                     !.statusBy = IF c.status = c.read.status THEN @ ELSE c.id]
    BY DEF Setup!verdict
  <1>5. c.id \in Nat /\ c.status \in Statuses BY <1>2 DEF Judging, Statuses
  <1> HIDE DEF c
  <1>6. /\ storage'.status = Setup!Written(c.read.status, storage.status, c.status)
        /\ storage'.statusBy = (IF c.status = c.read.status THEN storage.statusBy ELSE c.id)
        /\ storage'.creds = storage.creds /\ storage'.bucket = storage.bucket
        /\ storage'.bucketBy = storage.bucketBy /\ storage'.mode = storage.mode
    BY <1>3, <1>4 DEF ConfigRow
  <1>7. storage' \in ConfigRow BY <1>3, <1>4, <1>5 DEF ConfigRow, Statuses, Setup!Written
  <1>8. QED BY <1>1, <1>2, <1>6, <1>7 DEF c, Setup!Written

\* The steps of a request that is under way.
RunStep(h) ==
  \/ Setup!update_commit(h) \/ Setup!probe(h) \/ Setup!verdict(h) \/ Setup!security_commit(h)
  \/ Setup!sync_read(h) \/ Setup!set_bucket_cors(h) \/ Setup!stop(h)

\* Only a request that is under way takes such a step.
LEMMA RunStepOf ==
  ASSUME SetupInv, NEW h \in Handler, RunStep(h)
  PROVE  call[h] # Setup!Idle
  BY NotIdle DEF RunStep, Setup!update_commit, Setup!probe, Setup!verdict, Setup!security_commit,
    Setup!sync_read, Setup!set_bucket_cors, Setup!stop

\* Each leaves the other requests alone and before as it is.
LEMMA OthersKept ==
  ASSUME SetupInv, NEW h \in Handler, RunStep(h)
  PROVE  /\ \A g \in Handler : g # h => call'[g] = call[g]
         /\ before' = before /\ (ended' = ended \/ ended' = ended \cup {call[h].id})
         /\ DOMAIN call' = Handler
  BY DEF SetupInv, Typed, IdsFit, RunStep, Setup!update_commit, Setup!probe, Setup!verdict,
    Setup!security_commit, Setup!sync_read, Setup!set_bucket_cors, Setup!stop, Setup!Fail,
    Setup!Succeed, Setup!End

\* What a request knows stays true when another one moves.
LEMMA RowKnowledgeKept ==
  ASSUME SetupInv, NEW h \in Handler, RunStep(h),
         NEW g \in Handler, g # h, call[g] # Setup!Idle
  PROVE  KnowsRow(call[g])'
  <1>1. /\ KnowsRow(call[g]) /\ call'[g] = call[g] /\ before' = before
        /\ call[h] # Setup!Idle
    BY OthersKept, RunStepOf DEF SetupInv, RequestsKnow
  <1>2. /\ call[h].id # 0 /\ \A r \in Setup!Requests : call[h].id \notin before[r]
        /\ call[g].id \in Setup!Requests
    BY <1>1, CallOf DEF SetupInv
  <1>3. CASE Setup!update_commit(h)
    <2>1. probed' = probed BY <1>3 DEF Setup!update_commit
    <2>2. QED BY <1>1, <1>2, <1>3, <2>1, UpdateWrites DEF KnowsRow, Later, Setup!By,
      Setup!Requests
  <1>4. CASE Setup!verdict(h)
    <2>1. probed' = probed BY <1>4 DEF Setup!verdict
    <2>2. QED BY <1>1, <1>2, <1>4, <2>1, VerdictWrites DEF KnowsRow, Later, Setup!By,
      Setup!Requests
  <1>5. CASE ~ Setup!update_commit(h) /\ ~ Setup!verdict(h)
    <2>1. storage' = storage /\ probed \subseteq probed'
      BY <1>5 DEF RunStep, Setup!probe, Setup!security_commit, Setup!sync_read,
        Setup!set_bucket_cors, Setup!stop
    <2>2. QED BY <1>1, <2>1 DEF KnowsRow, Later, Setup!By, Setup!Requests
  <1>6. QED BY <1>3, <1>4, <1>5

\* The same of the origins it has read.
LEMMA OriginsKnowledgeKept ==
  ASSUME SetupInv, NEW h \in Handler, RunStep(h),
         NEW g \in Handler, g # h, call[g] # Setup!Idle
  PROVE  KnowsOrigins(call[g])'
  <1>1. /\ KnowsOrigins(call[g]) /\ call'[g] = call[g] /\ before' = before
        /\ call[h] # Setup!Idle
    BY OthersKept, RunStepOf DEF SetupInv, RequestsKnow
  <1>2. /\ call[h].id # 0 /\ \A r \in Setup!Requests : call[h].id \notin before[r]
        /\ call[g].id \in Setup!Requests /\ call[g].id # call[h].id
    BY <1>1, CallOf DEF SetupInv
  <1>3. CASE Setup!update_commit(h)
    <2>1. config' = config BY <1>3 DEF Setup!update_commit
    <2>2. QED BY <1>1, <1>2, <1>3, <2>1, UpdateWrites DEF KnowsOrigins, Setup!Precedes
  <1>4. CASE Setup!verdict(h)
    <2>1. config' = config BY <1>4 DEF Setup!verdict
    <2>2. QED BY <1>1, <1>2, <1>4, <2>1, VerdictWrites DEF KnowsOrigins, Setup!Precedes
  <1>5. CASE Setup!security_commit(h)
    <2>1. storage' = storage /\ (config' = config \/ config'.by = call[h].id)
      BY <1>5 DEF Setup!security_commit
    <2>2. QED BY <1>1, <1>2, <2>1 DEF KnowsOrigins, Setup!Precedes
  <1>6. CASE ~ Setup!update_commit(h) /\ ~ Setup!verdict(h) /\ ~ Setup!security_commit(h)
    <2>1. storage' = storage /\ config' = config
      BY <1>6 DEF RunStep, Setup!probe, Setup!sync_read, Setup!set_bucket_cors, Setup!stop
    <2>2. QED BY <1>1, <2>1 DEF KnowsOrigins, Setup!Precedes
  <1>7. QED BY <1>3, <1>4, <1>5, <1>6

\* A request that moves on knows what its next step relies on.
LEMMA OwnKnowledge ==
  ASSUME SetupInv, NEW h \in Handler, RunStep(h), call'[h] # Setup!Idle
  PROVE  /\ call'[h] \in Calls /\ call'[h].id = call[h].id
         /\ call' = [call EXCEPT ![h] = call'[h]]
         /\ UNCHANGED <<storage, cors, before, ended, failed>>
         /\ config' \in [origins : Origins, by : Setup!By] /\ probed' \subseteq Bucket \X Setup!By
         /\ KnowsRow(call[h])' /\ KnowsOrigins(call[h])'
  <1> DEFINE c == call[h]
  <1>0. /\ c # Setup!Idle /\ c \in Calls /\ KnowsRow(c) /\ KnowsOrigins(c)
        /\ c.id \in Setup!Requests /\ c.id # 0 /\ c.id \notin before[c.id]
        /\ DOMAIN call = Handler
    BY RunStepOf, CallOf DEF SetupInv, RequestsKnow, Typed, IdsFit
  <1>1. \A d : call' = [call EXCEPT ![h] = d] => call'[h] = d
    BY <1>0
  <1>2. ~ Setup!Fail(h) /\ ~ Setup!Succeed(h)
    <2>1. SUFFICES ASSUME Setup!End(h) PROVE FALSE BY DEF Setup!Fail, Setup!Succeed
    <2>2. QED BY <2>1, <1>1 DEF Setup!End
  <1>3. CASE Setup!probe(h)
    <2>1. c.op = "probe" /\ c \in Probing BY <1>0, <1>3, CallShapes DEF Setup!probe
    <2>2. PICK status \in {"active", "verification_failed"} :
            /\ call' = [call EXCEPT ![h] = [op |-> "verdict", id |-> c.id,
                                            read |-> c.read, status |-> status]]
            /\ probed' = IF status = "active"
                         THEN probed \cup {<<c.read.bucket, c.read.creds>>} ELSE probed
      BY <1>3 DEF Setup!probe
    <2>0. PICK d : d = [op |-> "verdict", id |-> c.id, read |-> c.read, status |-> status]
      OBVIOUS
    <2>3. call'[h] = d /\ d \in Judging /\ call' = [call EXCEPT ![h] = d]
      BY <2>0, <2>1, <2>2, <1>1 DEF Probing, Judging
    <2>4. UNCHANGED <<storage, config, cors, before, ended, failed>> BY <1>3 DEF Setup!probe
    <2>5. c.read \in ConfigRow /\ c.read.bucket # NoBucket
      BY <2>1, <1>0 DEF Probing, KnowsRow
    <2>6. c.read.creds \in Setup!By
      BY <2>1, <1>0 DEF KnowsRow
    <2>7. KnowsRow(d)'
      BY <2>0, <2>1, <2>2, <2>4, <1>0 DEF KnowsRow, Later, Setup!By, Setup!Requests
    <2>8. KnowsOrigins(d)' BY <2>0, <2>1, <2>4, <1>0 DEF KnowsOrigins, Setup!Precedes
    <2>9. probed' \subseteq Bucket \X Setup!By
      BY <2>2, <2>5, <2>6 DEF SetupInv, Typed, Setup!TypeOK, ConfigRow
    <2>10. config' \in [origins : Origins, by : Setup!By]
      BY <2>4 DEF SetupInv, Typed, Setup!TypeOK
    <2>11. d \in Calls BY <2>3 DEF Calls
    <2>12. KnowsRow(call[h])' BY <2>3, <2>7 DEF KnowsRow
    <2>13. KnowsOrigins(call[h])' BY <2>3, <2>8 DEF KnowsOrigins
    <2>14. call'[h] \in Calls /\ call'[h].id = call[h].id BY <2>3, <2>0, <2>2, <2>11
    <2>15. call' = [call EXCEPT ![h] = call'[h]] BY <2>3, <2>0, <2>2
    <2>16. UNCHANGED <<storage, cors, before, ended, failed>> BY <2>4
    <2>17. QED BY <2>14, <2>15, <2>16, <2>9, <2>10, <2>12, <2>13
  <1>4. CASE Setup!security_commit(h)
    <2>0. PICK d : d = [op |-> "sync", id |-> c.id, origins |-> c.origins]
      OBVIOUS
    <2>1. c.op = "security" /\ c \in Securing
      BY <1>0, <1>4, CallShapes DEF Setup!security_commit
    <2>2. /\ config' = (IF c.origins = c.read THEN config ELSE [origins |-> c.origins, by |-> c.id])
          /\ call' = [call EXCEPT ![h] = d]
          /\ UNCHANGED <<storage, cors, probed, before, ended, failed>>
      BY <1>4, <2>0 DEF Setup!security_commit
    <2>3. call'[h] = d /\ d \in Syncing BY <2>0, <2>1, <2>2, <1>1 DEF Securing, Syncing
    <2>4. KnowsRow(d)' BY <2>0 DEF KnowsRow
    <2>5. config' \in [origins : Origins, by : Setup!By]
      BY <2>1, <2>2, <1>0 DEF SetupInv, Typed, Setup!TypeOK, Securing, Setup!By
    <2>6. KnowsOrigins(d)'
      BY <2>0, <2>1, <2>2, <1>0 DEF KnowsOrigins
    <2>7. d \in Calls BY <2>3 DEF Calls
    <2>8. probed' \subseteq Bucket \X Setup!By BY <2>2 DEF SetupInv, Typed, Setup!TypeOK
    <2>9. KnowsRow(call[h])' BY <2>3, <2>4 DEF KnowsRow
    <2>10. KnowsOrigins(call[h])' BY <2>3, <2>6 DEF KnowsOrigins
    <2>11. call'[h] \in Calls /\ call'[h].id = call[h].id BY <2>3, <2>0, <2>2, <2>7
    <2>12. call' = [call EXCEPT ![h] = call'[h]] BY <2>3, <2>0, <2>2
    <2>13. UNCHANGED <<storage, cors, before, ended, failed>> BY <2>2
    <2>14. QED BY <2>11, <2>12, <2>13, <2>5, <2>8, <2>9, <2>10
  <1>5. CASE Setup!sync_read(h)
    <2>0. PICK d : d = [op |-> "cors", id |-> c.id, origins |-> c.origins,
                 bucket |-> storage.bucket]
      OBVIOUS
    <2>1. c.op = "sync" /\ c \in Syncing BY <1>0, <1>5, CallShapes DEF Setup!sync_read
    <2>2. /\ storage.bucket # NoBucket /\ call' = [call EXCEPT ![h] = d]
          /\ UNCHANGED <<storage, config, cors, probed, before, ended, failed>>
      BY <1>5, <1>2, <2>0 DEF Setup!sync_read
    <2>3. storage.bucket \in Bucket BY <2>2 DEF SetupInv, Typed, Setup!TypeOK
    <2>4. call'[h] = d /\ d \in Ruling BY <2>0, <2>1, <2>2, <2>3, <1>1 DEF Syncing, Ruling
    <2>5. KnowsRow(d)' BY <2>0 DEF KnowsRow
    <2>6. KnowsOrigins(d)' BY <2>0, <2>1, <2>2, <1>0 DEF KnowsOrigins
    <2>7. /\ config' \in [origins : Origins, by : Setup!By] /\ probed' \subseteq Bucket \X Setup!By
      BY <2>2 DEF SetupInv, Typed, Setup!TypeOK
    <2>8. d \in Calls BY <2>4 DEF Calls
    <2>9. KnowsRow(call[h])' BY <2>4, <2>5 DEF KnowsRow
    <2>10. KnowsOrigins(call[h])' BY <2>4, <2>6 DEF KnowsOrigins
    <2>11. call'[h] \in Calls /\ call'[h].id = call[h].id BY <2>4, <2>0, <2>2, <2>8
    <2>12. call' = [call EXCEPT ![h] = call'[h]] BY <2>4, <2>0, <2>2
    <2>13. UNCHANGED <<storage, cors, before, ended, failed>> BY <2>2
    <2>14. QED BY <2>11, <2>12, <2>13, <2>7, <2>9, <2>10
  <1>6. QED
    BY <1>2, <1>3, <1>4, <1>5 DEF RunStep, Setup!update_commit, Setup!verdict,
      Setup!set_bucket_cors, Setup!stop

\* Such a step keeps the types.
LEMMA RunTyped ==
  ASSUME SetupInv, NEW h \in Handler, RunStep(h)
  PROVE  Typed'
  <1>0. call[h] # Setup!Idle /\ Typed BY RunStepOf DEF SetupInv
  <1>1. CASE call'[h] # Setup!Idle
    <2>1. call'[h] \in Calls BY <1>1, OwnKnowledge
    <2>2. QED BY <1>0, <1>1, <2>1, OwnKnowledge, TypedMove
  <1>2. CASE call'[h] = Setup!Idle
    <2>0. Setup!Fail(h) \/ Setup!Succeed(h)
      <3>1. \A d : d.op # "idle" /\ call' = [call EXCEPT ![h] = d] => call'[h] # Setup!Idle
        BY DEF Setup!Idle, SetupInv, Typed, IdsFit
      <3>2. ~ Setup!probe(h) /\ ~ Setup!security_commit(h)
        BY <1>2, <3>1 DEF Setup!probe, Setup!security_commit
      <3>3. QED BY <1>2, <3>1, <3>2 DEF RunStep, Setup!update_commit, Setup!verdict,
        Setup!sync_read, Setup!set_bucket_cors, Setup!stop
    <2>1. ended' = ended \cup {call[h].id} /\ call[h].id \in Setup!Requests
      BY <2>0, <1>0, CallOf DEF Setup!Fail, Setup!Succeed, Setup!End
    <2>2. {storage.creds, storage.bucketBy, storage.statusBy} \subseteq {0} \cup ended
          /\ storage \in ConfigRow
          /\ (storage.bucket = NoBucket => storage.creds = 0 /\ storage.bucketBy = 0
                                           /\ storage.mode # "managed")
          /\ cors \in [Bucket -> [origins : Origins, by : Setup!By]]
      BY DEF SetupInv, Typed, IdsFit, Setup!TypeOK, ConfigRow, Statuses, Setup!By, Setup!Requests
    <2>3. CASE Setup!update_commit(h)
      <3>1. UNCHANGED <<config, cors, probed>> BY <2>3 DEF Setup!update_commit
      <3>2. storage' \in ConfigRow
            /\ {storage'.creds, storage'.bucketBy, storage'.statusBy} \subseteq {0} \cup ended'
            /\ storage'.bucket # NoBucket
        BY <2>1, <2>2, <2>3, UpdateWrites
      <3>3. QED BY <1>0, <2>0, <2>2, <3>1, <3>2, TypedEnd
    <2>4. CASE Setup!verdict(h)
      <3>1. UNCHANGED <<config, cors, probed>> BY <2>4 DEF Setup!verdict
      <3>2. storage' \in ConfigRow
            /\ {storage'.creds, storage'.bucketBy, storage'.statusBy} \subseteq {0} \cup ended'
            /\ (storage'.bucket = NoBucket => storage'.creds = 0 /\ storage'.bucketBy = 0
                                              /\ storage'.mode # "managed")
        BY <2>1, <2>2, <2>4, VerdictWrites
      <3>3. QED BY <1>0, <2>0, <2>2, <3>1, <3>2, TypedEnd
    <2>5. CASE Setup!set_bucket_cors(h)
      <3>1. UNCHANGED <<storage, config, probed>> BY <2>5 DEF Setup!set_bucket_cors
      <3>2. cors' \in [Bucket -> [origins : Origins, by : Setup!By]]
        <4>1. call[h] \in Ruling
          BY <1>0, <2>5, CallOf, CallShapes DEF Setup!set_bucket_cors
        <4>2. /\ [origins |-> call[h].origins, by |-> call[h].id] \in [origins : Origins,
                   by : Setup!By]
              /\ call[h].bucket \in Bucket
          BY <4>1, <2>1 DEF Ruling, Setup!By
        <4>3. cors' = cors \/ cors' = [cors EXCEPT ![call[h].bucket] =
                                         [origins |-> call[h].origins, by |-> call[h].id]]
          BY <2>5 DEF Setup!set_bucket_cors
        <4>4. QED BY <2>2, <4>2, <4>3
      <3>3. QED BY <1>0, <2>0, <2>1, <2>2, <3>1, <3>2, TypedEnd
    <2>6. CASE ~ Setup!update_commit(h) /\ ~ Setup!verdict(h) /\ ~ Setup!set_bucket_cors(h)
      <3>1. UNCHANGED <<storage, config, cors, probed>>
        <4>1. \A d : d.op # "idle" /\ call' = [call EXCEPT ![h] = d] => call'[h] # Setup!Idle
          BY DEF Setup!Idle, SetupInv, Typed, IdsFit
        <4>2. QED BY <1>2, <2>6, <4>1 DEF RunStep, Setup!probe, Setup!security_commit,
          Setup!sync_read, Setup!stop
      <3>2. QED BY <1>0, <2>0, <2>1, <2>2, <3>1, TypedEnd
    <2>7. QED BY <2>3, <2>4, <2>5, <2>6
  <1>3. QED BY <1>1, <1>2

\* A request that has not ended when it writes overlaps every later-written
\* part of what it had read.
LEMMA EndsLast ==
  ASSUME Typed, NEW h \in Handler, call[h] # Setup!Idle, NEW q \in {0} \cup ended,
         Later(q, call[h].id)
  PROVE  Setup!Overlap(call[h].id, q) /\ Setup!Overlap(q, call[h].id)
  <1>1. q \in Setup!Requests /\ call[h].id \notin before[q] /\ q # call[h].id /\ call[h].id # 0
    BY CallOf DEF Later, Typed, Setup!TypeOK
  <1>2. QED BY <1>1 DEF Setup!Overlap, Setup!Precedes, Later

\* A verdict is of the credentials that were probed, so a row it makes active
\* without a probe was written since the verdict's request began.
LEMMA ActiveKept ==
  ASSUME SetupInv, NEW h \in Handler, RunStep(h)
  PROVE  Setup!ActiveWasProbed'
  <1> DEFINE c == call[h]
  <1>0. /\ c # Setup!Idle /\ before' = before /\ KnowsRow(c) /\ Typed
        /\ {storage.creds, storage.bucketBy, storage.statusBy} \subseteq {0} \cup ended
    BY RunStepOf, OthersKept DEF SetupInv, RequestsKnow, Typed, IdsFit
  <1>1. CASE Setup!update_commit(h)
    <2>1. SUFFICES ASSUME storage'.status = "active"
                   PROVE  Setup!Overlap(storage.statusBy, c.id)
      BY <1>0, <1>1, UpdateWrites DEF Setup!ActiveWasProbed, Setup!Overlap, Setup!Precedes
    <2>2. storage.status = "active" /\ c.read.status # "active" /\ c.op = "update"
      BY <1>1, <2>1, UpdateWrites DEF Setup!update_commit
    <2>3. Later(storage.statusBy, c.id) BY <1>0, <2>2 DEF KnowsRow
    <2>4. QED BY <1>0, <2>3, EndsLast
  <1>2. CASE Setup!verdict(h)
    <2>0. probed' = probed /\ c.op = "verdict" BY <1>2 DEF Setup!verdict
    <2>1. CASE storage'.status = storage.status /\ storage'.statusBy = storage.statusBy
      BY <1>0, <1>2, <2>0, <2>1, VerdictWrites
      DEF SetupInv, Setup!ActiveWasProbed, Setup!Overlap, Setup!Precedes
    <2>2. CASE storage'.status = c.status /\ storage'.statusBy = c.id
      <3>1. SUFFICES ASSUME c.status = "active"
                     PROVE  \/ <<storage.bucket, storage.creds>> \in probed
                            \/ Setup!Overlap(c.id, storage.creds)
                                 \/ Setup!Overlap(c.id, storage.bucketBy)
        BY <1>0, <1>2, <2>0, <2>2, VerdictWrites DEF Setup!ActiveWasProbed, Setup!Overlap,
          Setup!Precedes
      <3>2. <<c.read.bucket, c.read.creds>> \in probed BY <1>0, <2>0, <3>1 DEF KnowsRow
      <3>3. CASE Later(storage.creds, c.id) BY <1>0, <3>3, EndsLast
      <3>4. CASE Later(storage.bucketBy, c.id) BY <1>0, <3>4, EndsLast
      <3>5. CASE c.read.creds = storage.creds /\ c.read.bucket = storage.bucket
        BY <3>2, <3>5
      <3>6. QED BY <1>0, <2>0, <3>3, <3>4, <3>5 DEF KnowsRow
    <2>3. QED BY <1>2, <2>1, <2>2, VerdictWrites
  <1>3. CASE ~ Setup!update_commit(h) /\ ~ Setup!verdict(h)
    <2>1. storage' = storage /\ probed \subseteq probed'
      BY <1>3 DEF RunStep, Setup!probe, Setup!security_commit, Setup!sync_read,
        Setup!set_bucket_cors, Setup!stop
    <2>2. QED BY <1>0, <2>1 DEF SetupInv, Setup!ActiveWasProbed, Setup!Overlap, Setup!Precedes
  <1>4. QED BY <1>1, <1>2, <1>3

\* The rules a request sets are the origins it knows.
LEMMA CorsKept ==
  ASSUME SetupInv, NEW h \in Handler, RunStep(h)
  PROVE  Setup!CorsFollowsConfig'
  <1> DEFINE c == call[h]
             u == config.by
  <1>0. /\ c # Setup!Idle /\ before' = before /\ KnowsOrigins(c) /\ Typed
        /\ c \in Calls /\ c.id \in Setup!Requests \ ended
        /\ \A r \in Setup!Requests : c.id \notin before[r]
        /\ (ended' = ended \/ ended' = ended \cup {c.id}) /\ ended \subseteq Setup!Requests
    BY RunStepOf, OthersKept, CallOf DEF SetupInv, RequestsKnow, Typed, Setup!TypeOK
  <1>1. CASE Setup!security_commit(h)
    <2>1. UNCHANGED <<storage, cors, ended, failed>> /\ (config' = config \/ config'.by = c.id)
      BY <1>1 DEF Setup!security_commit
    <2>2. QED BY <1>0, <2>1 DEF SetupInv, Setup!CorsFollowsConfig, Setup!Overlap, Setup!Precedes
  <1>2. CASE Setup!set_bucket_cors(h)
    <2> DEFINE rule == [origins |-> c.origins, by |-> c.id]
    <2>1. /\ c.op = "cors" /\ UNCHANGED <<storage, config>>
          /\ ended' = ended \cup {c.id}
          /\ \/ cors' = [cors EXCEPT ![c.bucket] = rule]
             \/ cors' = cors /\ c.id \in failed'
          /\ failed \subseteq failed'
      BY <1>2 DEF Setup!set_bucket_cors, Setup!Succeed, Setup!Fail, Setup!End
    <2>2. c.bucket \in Bucket /\ cors \in [Bucket -> [origins : Origins, by : Setup!By]]
      BY <1>0, <2>1, CallShapes DEF Ruling, Typed, Setup!TypeOK
    <2>3. SUFFICES ASSUME u \in ended' \ failed', Setup!Precedes(storage.bucketBy, u),
                          storage.bucket # NoBucket
                   PROVE  \/ cors'[storage.bucket].origins = config.origins
                          \/ Setup!Overlap(cors'[storage.bucket].by, u)
      BY <1>0, <2>1 DEF Setup!CorsFollowsConfig, Setup!Precedes, Setup!Overlap
    <2>4. CASE u = c.id
      <3>1. c.bucket = storage.bucket /\ c.origins = config.origins
        BY <1>0, <2>1, <2>3, <2>4 DEF KnowsOrigins
      <3>2. cors' = [cors EXCEPT ![c.bucket] = rule] BY <2>1, <2>3, <2>4
      <3>3. QED BY <2>2, <3>1, <3>2
    <2>5. CASE u # c.id
      <3>1. u \in ended \ failed BY <2>1, <2>3, <2>5
      <3>2. \/ cors[storage.bucket].origins = config.origins
            \/ Setup!Overlap(cors[storage.bucket].by, u)
        BY <2>3, <3>1 DEF SetupInv, Setup!CorsFollowsConfig
      <3>3. CASE cors'[storage.bucket] = cors[storage.bucket]
        BY <3>2, <3>3
      <3>4. CASE cors'[storage.bucket] = rule
        <4>1. u \in Setup!Requests /\ u # 0 /\ c.id # 0
          BY <1>0, <2>3, <3>1, CallOf DEF Setup!Precedes
        <4>2. c.id \notin before[u] BY <1>0, <4>1
        <4>3. CASE u \in before[c.id]
          BY <1>0, <2>1, <3>4, <4>3 DEF KnowsOrigins
        <4>4. CASE u \notin before[c.id]
          BY <2>5, <3>4, <4>1, <4>2, <4>4 DEF Setup!Overlap, Setup!Precedes
        <4>5. QED BY <4>3, <4>4
      <3>5. cors'[storage.bucket] \in {cors[storage.bucket], rule}
        <4>1. storage.bucket \in Bucket BY <1>0, <2>3 DEF Typed, Setup!TypeOK
        <4>2. QED BY <2>1, <2>2, <4>1
      <3>6. QED BY <3>3, <3>4, <3>5
    <2>6. QED BY <2>4, <2>5
  <1>3. CASE ~ Setup!security_commit(h) /\ ~ Setup!set_bucket_cors(h)
    <2>1. config' = config /\ cors' = cors
      BY <1>3 DEF RunStep, Setup!update_commit, Setup!probe, Setup!verdict, Setup!sync_read,
        Setup!stop
    <2>2. \/ storage'.bucket = storage.bucket /\ storage'.bucketBy = storage.bucketBy
          \/ storage'.bucketBy = c.id
      <3>1. CASE Setup!update_commit(h) BY <3>1, UpdateWrites
      <3>2. CASE Setup!verdict(h) BY <3>2, VerdictWrites
      <3>3. CASE ~ Setup!update_commit(h) /\ ~ Setup!verdict(h)
        BY <1>3, <3>3 DEF RunStep, Setup!probe, Setup!sync_read, Setup!stop
      <3>4. QED BY <3>1, <3>2, <3>3
    <2>3. u \in ended' \ failed' => u \in ended \ failed
      <3>1. failed \subseteq failed'
        BY <1>3 DEF RunStep, Setup!update_commit, Setup!probe, Setup!verdict, Setup!sync_read,
          Setup!stop, Setup!Fail, Setup!Succeed
      <3>2. CASE u = c.id /\ ended' # ended
        <4>1. c.op \in {"sync", "cors"} BY <1>0, <3>2 DEF KnowsOrigins
        <4>2. Setup!Fail(h)
          BY <1>3, <3>2, <4>1 DEF RunStep, Setup!update_commit, Setup!probe, Setup!verdict,
            Setup!sync_read, Setup!stop
        <4>3. QED BY <3>2, <4>2 DEF Setup!Fail
      <3>3. QED BY <1>0, <3>1, <3>2
    <2>4. SUFFICES ASSUME u \in ended' \ failed', Setup!Precedes(storage'.bucketBy, u),
                          storage'.bucket # NoBucket
                   PROVE  \/ cors[storage'.bucket].origins = config.origins
                          \/ Setup!Overlap(cors[storage'.bucket].by, u)
      BY <1>0, <2>1 DEF Setup!CorsFollowsConfig, Setup!Precedes, Setup!Overlap
    <2>5. storage'.bucket = storage.bucket /\ storage'.bucketBy = storage.bucketBy
      BY <1>0, <2>2, <2>3, <2>4, CallOf DEF Setup!Precedes
    <2>6. QED BY <2>3, <2>4, <2>5 DEF SetupInv, Setup!CorsFollowsConfig
  <1>4. QED BY <1>1, <1>2, <1>3

\* A step of a request under way keeps the invariant.
LEMMA RunKept ==
  ASSUME SetupInv, NEW h \in Handler, RunStep(h)
  PROVE  SetupInv'
  <1>1. RequestsKnow'
    <2> SUFFICES ASSUME NEW g \in Handler, call'[g] # Setup!Idle
                 PROVE  KnowsRow(call[g])' /\ KnowsOrigins(call[g])'
      BY DEF RequestsKnow
    <2>1. CASE g = h BY <2>1, OwnKnowledge
    <2>2. CASE g # h BY <2>2, OthersKept, RowKnowledgeKept, OriginsKnowledgeKept
    <2>3. QED BY <2>1, <2>2
  <1>2. QED BY <1>1, RunTyped, ActiveKept, CorsKept DEF SetupInv

\* What a request knows when it begins.
LEMMA BeginKept ==
  ASSUME SetupInv, NEW h \in Handler, NEW c \in Calls, c.id = Setup!NextId, Setup!Begin(h, c),
         c.op \notin {"verdict", "sync"},
         c.op \in {"update", "probe"} => c.read = storage,
         c.op = "probe" => storage.bucket # NoBucket,
         c.op = "security" => c.read = config.origins,
         c.op = "cors" => c.origins = config.origins
  PROVE  SetupInv'
  <1>1. /\ UNCHANGED <<storage, config, cors, probed, ended, failed>>
        /\ \A g \in Handler : call'[g] = IF g = h THEN c ELSE call[g]
    BY DEF Setup!Begin, SetupInv, Typed, IdsFit
  <1>2. /\ \A r \in Setup!Requests : before'[r] = before[r]
        /\ Setup!Requests' = Setup!Requests \cup {Setup!NextId}
             /\ Setup!NextId \notin Setup!Requests /\ Setup!NextId # 0
    BY BeforeKept DEF Setup!Begin, SetupInv
  <1>3. storage.creds \in Setup!By /\ config.by \in Setup!By /\ storage.bucketBy \in Setup!By
        /\ storage.statusBy \in Setup!By /\ Setup!By \subseteq Setup!By'
             /\ ended \subseteq Setup!Requests
    BY <1>2 DEF SetupInv, Typed, Setup!TypeOK, Setup!By
  <1>4. KnowsRow(c)' BY <1>1, <1>3 DEF KnowsRow
  <1>5. KnowsOrigins(c)'
    <2>1. c.id # config.by BY <1>2, <1>3 DEF Setup!By
    <2>2. QED BY <1>1, <2>1 DEF KnowsOrigins
  <1>6. ASSUME NEW g \in Handler, g # h, call[g] # Setup!Idle
        PROVE  KnowsRow(call[g])' /\ KnowsOrigins(call[g])'
    <2>1. call[g].id \in Setup!Requests /\ KnowsRow(call[g]) /\ KnowsOrigins(call[g])
            /\ call'[g] = call[g]
      BY <1>1, <1>6, CallOf DEF SetupInv, RequestsKnow
    <2>2. KnowsRow(call[g])' BY <1>1, <1>2, <1>3, <2>1 DEF KnowsRow, Later
    <2>3. KnowsOrigins(call[g])' BY <1>1, <1>2, <1>3, <2>1 DEF KnowsOrigins, Setup!Precedes
    <2>4. QED BY <2>2, <2>3
  <1>7. RequestsKnow'
    <2> SUFFICES ASSUME NEW g \in Handler, call'[g] # Setup!Idle
                 PROVE  KnowsRow(call[g])' /\ KnowsOrigins(call[g])'
      BY DEF RequestsKnow
    <2>1. CASE g = h
      <3>1. call'[g] = c BY <1>1, <2>1
      <3>2. KnowsRow(call[g])' BY <3>1, <1>4 DEF KnowsRow
      <3>3. KnowsOrigins(call[g])' BY <3>1, <1>5 DEF KnowsOrigins
      <3>4. QED BY <3>2, <3>3
    <2>2. CASE g # h BY <1>1, <1>6, <2>2
    <2>3. QED BY <2>1, <2>2
  <1>8. Setup!ActiveWasProbed'
    BY <1>1, <1>2, <1>3 DEF SetupInv, Setup!ActiveWasProbed, Setup!Overlap, Setup!Precedes,
      Setup!By
  <1>9. Setup!CorsFollowsConfig'
    <2>1. storage.bucket # NoBucket => cors[storage.bucket].by \in Setup!By
      BY DEF SetupInv, Typed, Setup!TypeOK
    <2>2. QED BY <1>1, <1>2, <1>3, <2>1 DEF SetupInv, Setup!CorsFollowsConfig, Setup!Overlap,
      Setup!Precedes, Setup!By
  <1>10. QED BY <1>7, <1>8, <1>9, TypedBegin DEF SetupInv

\* The invariant holds when the project is created.
LEMMA SetupStart == Setup!Init => SetupInv
  <1> SUFFICES ASSUME Setup!Init PROVE SetupInv
    OBVIOUS
  <1>1. /\ storage \in ConfigRow /\ storage.creds = 0 /\ storage.bucketBy = 0
             /\ storage.statusBy = 0
        /\ storage.status = "active" => <<storage.bucket, storage.creds>> \in probed
        /\ probed \subseteq Bucket \X {0}
    BY DEF Setup!Init, ConfigRow, Statuses
  <1>2. /\ config = [origins |-> All, by |-> 0] /\ ended = {} /\ failed = {} /\ before = <<>>
        /\ call = [h \in Handler |-> Setup!Idle]
             /\ cors = [b \in Bucket |-> [origins |-> All, by |-> 0]]
    BY DEF Setup!Init
  <1>3. Setup!Requests = {} /\ before \in Seq(SUBSET Nat) BY <1>2, EmptySeq DEF Setup!Requests
  <1>4. Setup!TypeOK
    BY <1>1, <1>2, <1>3, StorageFacts DEF Setup!TypeOK, Setup!By, ConfigRow, Statuses
  <1>5. IdsFit
    <2>1. storage.mode = "managed" => storage.bucket # NoBucket
      BY StorageFacts DEF Setup!Init
    <2>2. QED BY <1>1, <1>2, <1>3, <2>1 DEF IdsFit
  <1>6. RequestsKnow BY <1>2 DEF RequestsKnow
  <1>7. Setup!ActiveWasProbed /\ Setup!CorsFollowsConfig
    BY <1>1, <1>2 DEF Setup!ActiveWasProbed, Setup!CorsFollowsConfig
  <1>8. QED BY <1>4, <1>5, <1>6, <1>7 DEF SetupInv, Typed

\* Every step keeps the invariant.
LEMMA SetupStep == SetupInv /\ [Setup!Next]_Setup!vars => SetupInv'
  <1> SUFFICES ASSUME SetupInv, [Setup!Next]_Setup!vars PROVE SetupInv'
    OBVIOUS
  <1>0. Setup!NextId \in Nat /\ storage \in ConfigRow /\ config.origins \in Origins
    BY DEF SetupInv, Typed, Setup!TypeOK, IdsFit, Setup!NextId, ConfigRow, Statuses, Setup!By,
      Setup!Requests
  <1>1. ASSUME NEW h \in Handler, Setup!update_config(h) PROVE SetupInv'
    <2>1. PICK b \in Bucket :
            Setup!Begin(h, [op |-> "update", id |-> Setup!NextId, bucket |-> b, read |-> storage])
      BY <1>1 DEF Setup!update_config
    <2>2. PICK c : c = [op |-> "update", id |-> Setup!NextId, bucket |-> b, read |-> storage]
      OBVIOUS
    <2>3. c \in Calls BY <1>0, <2>2 DEF Calls, Updating
    <2>4. QED BY <2>1, <2>2, <2>3, BeginKept
  <1>2. ASSUME NEW h \in Handler, Setup!verify(h) PROVE SetupInv'
    <2>1. storage.bucket # NoBucket
            /\ Setup!Begin(h, [op |-> "probe", id |-> Setup!NextId, read |-> storage])
      BY <1>2 DEF Setup!verify
    <2>2. PICK c : c = [op |-> "probe", id |-> Setup!NextId, read |-> storage]
      OBVIOUS
    <2>3. c \in Calls BY <1>0, <2>2 DEF Calls, Probing
    <2>4. QED BY <2>1, <2>2, <2>3, BeginKept
  <1>3. ASSUME NEW h \in Handler, Setup!update_security_config(h) PROVE SetupInv'
    <2>1. PICK o \in Origins :
            Setup!Begin(h, [op |-> "security", id |-> Setup!NextId, origins |-> o,
              read |-> config.origins])
      BY <1>3 DEF Setup!update_security_config
    <2>2. PICK c : c = [op |-> "security", id |-> Setup!NextId, origins |-> o,
                 read |-> config.origins]
      OBVIOUS
    <2>3. c \in Calls BY <1>0, <2>2 DEF Calls, Securing
    <2>4. QED BY <2>1, <2>2, <2>3, BeginKept
  <1>4. ASSUME NEW h \in Handler, Setup!startup(h) PROVE SetupInv'
    <2>1. /\ storage.mode = "managed" /\ storage.status = "active"
          /\ Setup!Begin(h, [op |-> "cors", id |-> Setup!NextId, origins |-> config.origins,
                       bucket |-> storage.bucket])
      BY <1>4 DEF Setup!startup
    <2>2. PICK c : c = [op |-> "cors", id |-> Setup!NextId, origins |-> config.origins,
                        bucket |-> storage.bucket]
      OBVIOUS
    <2>3. storage.bucket \in Bucket
      BY <1>0, <2>1 DEF ConfigRow, SetupInv, Typed, IdsFit
    <2>4. c \in Calls BY <1>0, <2>2, <2>3 DEF Calls, Ruling
    <2>5. QED BY <2>1, <2>2, <2>4, BeginKept
  <1>5. ASSUME NEW h \in Handler, RunStep(h) PROVE SetupInv'
    BY <1>5, RunKept
  <1>6. CASE UNCHANGED Setup!vars
    <2>1. /\ UNCHANGED <<storage, config, cors, probed, call, before, ended, failed>>
          /\ Setup!Requests' = Setup!Requests /\ Setup!By' = Setup!By
      BY <1>6 DEF Setup!vars, Setup!Requests, Setup!By
    <2>2. Setup!TypeOK' BY <2>1 DEF SetupInv, Typed, Setup!TypeOK
    <2>3. IdsFit' BY <2>1 DEF SetupInv, Typed, IdsFit
    <2>4. RequestsKnow'
      BY <2>1 DEF SetupInv, RequestsKnow, KnowsRow, KnowsOrigins, Later, Setup!Precedes
    <2>5. Setup!ActiveWasProbed'
      BY <2>1 DEF SetupInv, Setup!ActiveWasProbed, Setup!Overlap, Setup!Precedes
    <2>6. Setup!CorsFollowsConfig'
      BY <2>1 DEF SetupInv, Setup!CorsFollowsConfig, Setup!Overlap, Setup!Precedes
    <2>7. QED BY <2>2, <2>3, <2>4, <2>5, <2>6 DEF SetupInv, Typed
  <1>7. QED BY <1>1, <1>2, <1>3, <1>4, <1>5, <1>6 DEF Setup!Next, Setup!Update, Setup!Verify,
    Setup!Secure, RunStep

\* Every variable of the storage configuration has its type.
THEOREM SetupTypes == Setup!Spec => []Setup!TypeOK
  <1>1. SetupInv => Setup!TypeOK BY DEF SetupInv, Typed
  <1>2. QED BY <1>1, SetupStart, SetupStep, PTL DEF Setup!Spec

\* A configuration that is active was probed with the credentials and the
\* bucket it has, unless two requests wrote it at once: update_config resets
\* the status of the row it has read.
THEOREM ActiveConfigsWereProbed == Setup!Spec => []ActiveWasProbed
  <1>1. SetupInv => ActiveWasProbed BY DEF SetupInv, ActiveWasProbed
  <1>2. QED BY <1>1, SetupStart, SetupStep, PTL DEF Setup!Spec

\* The bucket of a project has the origins of its configuration, unless a
\* request that set them failed or overlapped another one.
THEOREM CorsRulesFollow == Setup!Spec => []CorsFollowsConfig
  <1>1. SetupInv => CorsFollowsConfig BY DEF SetupInv, CorsFollowsConfig
  <1>2. QED BY <1>1, SetupStart, SetupStep, PTL DEF Setup!Spec

-----------------------------------------------------------------------------
(***************************************************************************)
(* The backend's caches of a project's origins.  A decision may rest on an *)
(* entry that a query filled, so the invariant also bounds the age of what *)
(* an entry holds by the time it has left (EntriesExpire), and that of a   *)
(* row by the time its request has waited (RowsAreFresh).                  *)
(***************************************************************************)


Query == [pc : {"query"}, replica : Replica, waited : Project!Ages]
RowRead == [pc : {"row"}, replica : Replica, waited : Project!Ages, origins : Origins,
            lag : Project!Ages]
Decision == [pc : {"decide"}, replica : Replica, waited : Project!Ages, hit : BOOLEAN,
             origins : Origins, lag : Project!Ages]
Entry == [origins : Origins, lag : Project!Ages, left : 0..PROJECT_TTL]

\* What an entry holds will have left it before it is too old.
EntriesExpire ==
  \A r \in Replica :
    projectCache[r].left > 0 => projectCache[r].lag + projectCache[r].left <= PROJECT_TTL
\* What a query has read is no older than the request has waited.
RowsAreFresh ==
  \A q \in ProjectRequest :
    projectRequest[q].pc = "row" => projectRequest[q].lag <= projectRequest[q].waited
\* The inductive invariant of the project's caches.
PropInv == Project!TypeOK /\ EntriesExpire /\ RowsAreFresh /\ Project!ChangesPropagate

\* Counting up to a bound, counting down, and the time an entry has left.
LEMMA Ticks ==
  /\ \A n \in Project!Ages :
       Project!Up(n) \in Project!Ages /\ n <= Project!Up(n) /\ Project!Up(n) <= n + 1
  /\ \A n, m \in Project!Ages : n <= m => Project!Up(n) <= Project!Up(m)
  /\ \A n \in 0..PROJECT_TTL :
       Project!Down(n) \in 0..PROJECT_TTL /\ (n > 0 => Project!Down(n) = n - 1)
         /\ (n = 0 => Project!Down(n) = 0)
  /\ \A n \in Project!Ages :
       Project!Left(n) \in 0..PROJECT_TTL
         /\ (Project!Left(n) > 0 => n + Project!Left(n) = PROJECT_TTL)
  /\ 0 \in Project!Ages /\ 0 \in 0..PROJECT_TTL
  BY RulesAssumption DEF Project!OriginsAssumption, Project!Ages, Project!Up, Project!Down,
    Project!Left

\* Entries start with what is stored, and with no time left.
LEMMA PropStart == Project!Init => PropInv
  BY RulesAssumption, Ticks DEF Project!Init, PropInv, Project!TypeOK, EntriesExpire,
    RowsAreFresh, Project!ChangesPropagate, Project!NoRequest, Project!OriginsAssumption

\* What a request holds at each step.
LEMMA RequestShapes ==
  ASSUME Project!TypeOK, NEW q \in ProjectRequest
  PROVE  /\ projectRequest[q].pc = "query" => projectRequest[q] \in Query
         /\ projectRequest[q].pc = "row" => projectRequest[q] \in RowRead
         /\ projectRequest[q].pc = "decide" => projectRequest[q] \in Decision
  BY DEF Project!TypeOK, Project!NoRequest, Query, RowRead, Decision

\* A step that gives one request something to hold, and leaves the entries.
LEMMA OneRequest ==
  ASSUME PropInv, NEW q \in ProjectRequest, NEW c, UNCHANGED <<stored, projectCache>>,
         projectRequest' = [projectRequest EXCEPT ![q] = c],
         c \in {Project!NoRequest} \cup Query \cup RowRead \cup Decision,
         c.pc = "row" => c.lag <= c.waited,
         c.pc = "decide" => IF c.hit THEN c.lag < PROJECT_TTL ELSE c.lag <= c.waited
  PROVE  PropInv'
  <1>1. Project!TypeOK' BY DEF PropInv, Project!TypeOK, Query, RowRead, Decision, Project!Ages
  <1>2. EntriesExpire' BY DEF PropInv, EntriesExpire
  <1>3. \A p \in ProjectRequest : projectRequest'[p] = IF p = q THEN c ELSE projectRequest[p]
    BY DEF PropInv, Project!TypeOK
  <1>4. RowsAreFresh' BY <1>3 DEF PropInv, RowsAreFresh
  <1>5. Project!ChangesPropagate' BY <1>3 DEF PropInv, Project!ChangesPropagate
  <1>6. QED BY <1>1, <1>2, <1>4, <1>5 DEF PropInv

\* Every step keeps the invariant.
LEMMA PropStep == PropInv /\ [Project!Next]_Project!vars => PropInv'
  <1> SUFFICES ASSUME PropInv, [Project!Next]_Project!vars PROVE PropInv'
    OBVIOUS
  <1> USE RulesAssumption, Ticks
  <1>0. projectCache \in [Replica -> Entry] /\ stored \in Origins
    BY DEF PropInv, Project!TypeOK, Entry
  <1>1. ASSUME NEW q \in ProjectRequest, NEW r \in Replica, Project!hit(q, r) PROVE PropInv'
    <2> DEFINE c == [pc |-> "decide", replica |-> r, waited |-> 0, hit |-> TRUE,
                     origins |-> projectCache[r].origins, lag |-> projectCache[r].lag]
    <2>1. projectCache[r] \in Entry BY <1>0
    <2>2. c \in Decision BY <2>1 DEF Decision, Entry
    <2>3. c.lag < PROJECT_TTL
      BY <2>1, <1>1, RulesAssumption DEF PropInv, EntriesExpire, Project!hit, Entry, Project!Ages,
        Project!OriginsAssumption
    <2>4. projectRequest' = [projectRequest EXCEPT ![q] = c] /\ UNCHANGED <<stored, projectCache>>
      BY <1>1 DEF Project!hit
    <2>5. c.pc = "decide" /\ c.hit = TRUE OBVIOUS
    <2> HIDE DEF c
    <2>6. QED BY <2>2, <2>3, <2>4, <2>5, OneRequest
  <1>2. ASSUME NEW q \in ProjectRequest, NEW r \in Replica, Project!miss(q, r) PROVE PropInv'
    <2> DEFINE c == [pc |-> "query", replica |-> r, waited |-> 0]
    <2>1. c \in Query /\ c.pc = "query" BY DEF Query
    <2>2. projectRequest' = [projectRequest EXCEPT ![q] = c] /\ UNCHANGED <<stored, projectCache>>
      BY <1>2 DEF Project!miss
    <2> HIDE DEF c
    <2>3. QED BY <2>1, <2>2, OneRequest
  <1>3. ASSUME NEW q \in ProjectRequest, Project!query(q) PROVE PropInv'
    <2> DEFINE c == [pc |-> "row", replica |-> projectRequest[q].replica,
                     waited |-> projectRequest[q].waited, origins |-> stored, lag |-> 0]
    <2>1. projectRequest[q] \in Query BY <1>3, RequestShapes DEF Project!query, PropInv
    <2>2. c \in RowRead /\ c.pc = "row" /\ c.lag <= c.waited
      BY <2>1, <1>0, RulesAssumption DEF Query, RowRead, Project!Ages, Project!OriginsAssumption
    <2>3. projectRequest' = [projectRequest EXCEPT ![q] = c] /\ UNCHANGED <<stored, projectCache>>
      BY <1>3 DEF Project!query
    <2> HIDE DEF c
    <2>4. QED BY <2>2, <2>3, OneRequest
  <1>4. ASSUME NEW q \in ProjectRequest, Project!store(q) PROVE PropInv'
    <2> DEFINE e == [origins |-> projectRequest[q].origins, lag |-> projectRequest[q].lag,
                     left |-> Project!Left(projectRequest[q].waited)]
               c == [pc |-> "decide", replica |-> projectRequest[q].replica,
                     waited |-> projectRequest[q].waited, hit |-> FALSE,
                     origins |-> projectRequest[q].origins, lag |-> projectRequest[q].lag]
               r == projectRequest[q].replica
    <2>1. projectRequest[q] \in RowRead BY <1>4, RequestShapes DEF Project!store, PropInv
    <2>2. projectRequest[q].lag <= projectRequest[q].waited
      BY <1>4 DEF Project!store, PropInv, RowsAreFresh
    <2>3. e \in Entry /\ r \in Replica BY <2>1 DEF RowRead, Entry
    <2>4. e.left > 0 => e.lag + e.left <= PROJECT_TTL
      <3>1. projectRequest[q].waited \in Project!Ages /\ projectRequest[q].lag \in Project!Ages
        BY <2>1 DEF RowRead
      <3>2. Project!Left(projectRequest[q].waited) > 0 =>
              projectRequest[q].waited + Project!Left(projectRequest[q].waited) = PROJECT_TTL
                /\ Project!Left(projectRequest[q].waited) \in Nat
        BY <3>1, RulesAssumption, Ticks DEF Project!OriginsAssumption
      <3>3. QED BY <3>1, <3>2, <2>2, RulesAssumption DEF Project!Ages, Project!OriginsAssumption
    <2>5. c \in Decision /\ c.pc = "decide" /\ c.hit = FALSE /\ c.lag <= c.waited
      BY <2>1, <2>2 DEF RowRead, Decision
    <2>6. /\ projectCache' = [projectCache EXCEPT ![r] = e]
          /\ projectRequest' = [projectRequest EXCEPT ![q] = c]
          /\ stored' = stored
      BY <1>4 DEF Project!store
    <2> HIDE DEF e, c, r
    <2>7. Project!TypeOK'
      BY <2>3, <2>5, <2>6 DEF PropInv, Project!TypeOK, Decision, Entry
    <2>8. \A p \in ProjectRequest : projectRequest'[p] = IF p = q THEN c ELSE projectRequest[p]
      BY <2>6 DEF PropInv, Project!TypeOK
    <2>9. \A s \in Replica : projectCache'[s] = IF s = r THEN e ELSE projectCache[s]
      BY <2>6, <1>0
    <2>10. EntriesExpire' BY <2>4, <2>9 DEF PropInv, EntriesExpire
    <2>11. RowsAreFresh' /\ Project!ChangesPropagate'
      BY <2>5, <2>8 DEF PropInv, RowsAreFresh, Project!ChangesPropagate
    <2>12. QED BY <2>7, <2>10, <2>11 DEF PropInv
  <1>5. ASSUME NEW q \in ProjectRequest, Project!done(q) PROVE PropInv'
    <2>1. Project!NoRequest.pc = "none" BY DEF Project!NoRequest
    <2>2. QED BY <1>5, <2>1, OneRequest DEF Project!done
  <1>6. ASSUME NEW o \in Origins, Project!configure(o) PROVE PropInv'
    <2>1. \A r \in Replica : /\ projectCache'[r] \in Entry
                                  /\ projectCache'[r].left = projectCache[r].left
                             /\ projectCache'[r].lag \in {0, projectCache[r].lag}
      <3> SUFFICES ASSUME NEW r \in Replica
                   PROVE  /\ projectCache'[r] \in Entry
                               /\ projectCache'[r].left = projectCache[r].left
                          /\ projectCache'[r].lag \in {0, projectCache[r].lag}
        OBVIOUS
      <3>1. projectCache[r] \in Entry BY <1>0
      <3>2. projectCache'[r] = IF projectCache[r].origins = o
              THEN [projectCache[r] EXCEPT !.lag = 0] ELSE projectCache[r]
        BY <1>6 DEF Project!configure
      <3>3. QED BY <3>1, <3>2 DEF Entry
    <2>2. \A q \in ProjectRequest :
            \/ projectRequest'[q] = projectRequest[q]
            \/ /\ projectRequest[q].pc = "row" /\ projectRequest'[q] \in RowRead
               /\ projectRequest'[q].lag = 0 /\ projectRequest'[q].waited = projectRequest[q].waited
      <3> SUFFICES ASSUME NEW q \in ProjectRequest, projectRequest'[q] # projectRequest[q]
                   PROVE  /\ projectRequest[q].pc = "row" /\ projectRequest'[q] \in RowRead
                          /\ projectRequest'[q].lag = 0
                               /\ projectRequest'[q].waited = projectRequest[q].waited
        OBVIOUS
      <3>1. projectRequest[q].pc = "row"
              /\ projectRequest'[q] = [projectRequest[q] EXCEPT !.lag = 0]
        BY <1>6 DEF Project!configure
      <3>2. projectRequest[q] \in RowRead BY <3>1, RequestShapes DEF PropInv
      <3>3. QED BY <3>1, <3>2 DEF RowRead
    <2>3. /\ stored' \in Origins
          /\ projectCache' = [r \in Replica |-> projectCache'[r]]
               /\ projectRequest' = [q \in ProjectRequest |-> projectRequest'[q]]
      BY <1>6 DEF Project!configure
    <2>4. Project!TypeOK'
      BY <2>1, <2>2, <2>3 DEF PropInv, Project!TypeOK, Entry, RowRead
    <2>5. EntriesExpire'
      <3> SUFFICES ASSUME NEW r \in Replica, projectCache'[r].left > 0
                   PROVE  projectCache'[r].lag + projectCache'[r].left <= PROJECT_TTL
        BY DEF EntriesExpire
      <3>1. projectCache[r].lag \in Project!Ages /\ projectCache[r].left \in 0..PROJECT_TTL
        BY <1>0 DEF Entry
      <3>2. projectCache[r].lag + projectCache[r].left <= PROJECT_TTL
        BY <2>1 DEF PropInv, EntriesExpire
      <3>3. projectCache'[r].left = projectCache[r].left
              /\ projectCache'[r].lag \in {0, projectCache[r].lag}
        BY <2>1
      <3>4. QED BY <3>1, <3>2, <3>3, RulesAssumption DEF Project!Ages, Project!OriginsAssumption
    <2>6. \A c \in RowRead : 0 <= c.waited /\ c.pc = "row"
      <3> SUFFICES ASSUME NEW c \in RowRead PROVE 0 <= c.waited /\ c.pc = "row"
        OBVIOUS
      <3>1. c.waited \in Project!Ages /\ c.pc = "row" BY DEF RowRead
      <3>2. QED BY <3>1, RulesAssumption DEF Project!Ages, Project!OriginsAssumption
    <2>7. RowsAreFresh' /\ Project!ChangesPropagate'
      BY <2>2, <2>6 DEF PropInv, RowsAreFresh, Project!ChangesPropagate
    <2>8. QED BY <2>4, <2>5, <2>7 DEF PropInv
  <1>7. ASSUME NEW r \in Replica, Project!restart(r) PROVE PropInv'
    <2>1. \A s \in Replica : /\ projectCache'[s] \in Entry
                                  /\ projectCache'[s].lag = projectCache[s].lag
                             /\ projectCache'[s].left \in {0, projectCache[s].left}
      <3> SUFFICES ASSUME NEW s \in Replica
                   PROVE  /\ projectCache'[s] \in Entry
                               /\ projectCache'[s].lag = projectCache[s].lag
                          /\ projectCache'[s].left \in {0, projectCache[s].left}
        OBVIOUS
      <3>1. projectCache[s] \in Entry BY <1>0
      <3>2. projectCache'[s] = IF s = r THEN [projectCache[s] EXCEPT !.left = 0]
              ELSE projectCache[s]
        BY <1>7, <1>0 DEF Project!restart
      <3>3. QED BY <3>1, <3>2 DEF Entry
    <2>2. \A q \in ProjectRequest : projectRequest'[q] \in {Project!NoRequest, projectRequest[q]}
      BY <1>7 DEF Project!restart
    <2>3. /\ stored' = stored /\ projectCache' = [s \in Replica |-> projectCache'[s]]
          /\ projectRequest' = [q \in ProjectRequest |-> projectRequest'[q]]
      BY <1>7, <1>0 DEF Project!restart
    <2>4. Project!TypeOK' BY <2>1, <2>2, <2>3 DEF PropInv, Project!TypeOK, Entry
    <2>5. EntriesExpire' BY <2>1 DEF PropInv, EntriesExpire
    <2>6. RowsAreFresh' /\ Project!ChangesPropagate'
      BY <2>2 DEF PropInv, RowsAreFresh, Project!ChangesPropagate, Project!NoRequest
    <2>7. QED BY <2>4, <2>5, <2>6 DEF PropInv
  <1>8. ASSUME Project!tick PROVE PropInv'
    <2>0. /\ \A r \in Replica :
               Project!Lag(projectCache[r]) \in {0, Project!Up(projectCache[r].lag)}
          /\ \A q \in ProjectRequest :
               Project!Lag(projectRequest[q]) \in {0, Project!Up(projectRequest[q].lag)}
      BY DEF Project!Lag
    <2>1. \A r \in Replica : /\ projectCache'[r] \in Entry
                             /\ projectCache'[r].left = Project!Down(projectCache[r].left)
                             /\ projectCache'[r].lag \in {0, Project!Up(projectCache[r].lag)}
      <3> SUFFICES ASSUME NEW r \in Replica
                   PROVE  /\ projectCache'[r] \in Entry
                               /\ projectCache'[r].left = Project!Down(projectCache[r].left)
                          /\ projectCache'[r].lag \in {0, Project!Up(projectCache[r].lag)}
        OBVIOUS
      <3>1. projectCache[r] \in Entry BY <1>0
      <3>2. projectCache'[r] = [projectCache[r] EXCEPT !.left = Project!Down(@),
              !.lag = Project!Lag(projectCache[r])]
        BY <1>8 DEF Project!tick
      <3>3. projectCache[r].lag \in Project!Ages /\ projectCache[r].left \in 0..PROJECT_TTL
        BY <3>1 DEF Entry
      <3>4. Project!Lag(projectCache[r]) \in Project!Ages
              /\ Project!Down(projectCache[r].left) \in 0..PROJECT_TTL
        BY <3>3, <2>0
      <3>5. QED BY <3>1, <3>2, <3>4, <2>0 DEF Entry
    <2>2. \A q \in ProjectRequest :
            \/ projectRequest[q].pc \notin {"query", "row"}
                 /\ projectRequest'[q] = projectRequest[q]
            \/ projectRequest[q].pc = "query" /\ projectRequest'[q] \in Query
            \/ /\ projectRequest[q].pc = "row" /\ projectRequest'[q] \in RowRead
               /\ projectRequest'[q].lag \in {0, Project!Up(projectRequest[q].lag)}
               /\ projectRequest'[q].waited = Project!Up(projectRequest[q].waited)
      <3> SUFFICES ASSUME NEW q \in ProjectRequest
                   PROVE
            \/ projectRequest[q].pc \notin {"query", "row"}
                 /\ projectRequest'[q] = projectRequest[q]
            \/ projectRequest[q].pc = "query" /\ projectRequest'[q] \in Query
            \/ /\ projectRequest[q].pc = "row" /\ projectRequest'[q] \in RowRead
               /\ projectRequest'[q].lag \in {0, Project!Up(projectRequest[q].lag)}
               /\ projectRequest'[q].waited = Project!Up(projectRequest[q].waited)
        OBVIOUS
      <3>1. CASE projectRequest[q].pc = "query"
        <4>1. projectRequest'[q] = [projectRequest[q] EXCEPT !.waited = Project!Up(@)]
          BY <3>1, <1>8 DEF Project!tick
        <4>2. projectRequest[q] \in Query BY <3>1, RequestShapes DEF PropInv
        <4>3. QED BY <3>1, <4>1, <4>2 DEF Query
      <3>2. CASE projectRequest[q].pc = "row"
        <4>1. projectRequest'[q] = [projectRequest[q] EXCEPT !.waited = Project!Up(@),
                !.lag = Project!Lag(projectRequest[q])]
          BY <3>2, <1>8 DEF Project!tick
        <4>2. projectRequest[q] \in RowRead BY <3>2, RequestShapes DEF PropInv
        <4>3. Project!Lag(projectRequest[q]) \in Project!Ages
                /\ Project!Up(projectRequest[q].waited) \in Project!Ages
          BY <4>2, <2>0 DEF RowRead
        <4>4. QED BY <3>2, <4>1, <4>2, <4>3, <2>0 DEF RowRead
      <3>3. CASE projectRequest[q].pc \notin {"query", "row"}
        BY <3>3, <1>8 DEF Project!tick
      <3>4. QED BY <3>1, <3>2, <3>3
    <2>3. /\ stored' = stored /\ projectCache' = [s \in Replica |-> projectCache'[s]]
          /\ projectRequest' = [q \in ProjectRequest |-> projectRequest'[q]]
      BY <1>8 DEF Project!tick
    <2>4. Project!TypeOK'
      BY <2>1, <2>2, <2>3 DEF PropInv, Project!TypeOK, Entry, RowRead, Query
    <2>5. EntriesExpire'
      <3> SUFFICES ASSUME NEW r \in Replica, projectCache'[r].left > 0
                   PROVE  projectCache'[r].lag + projectCache'[r].left <= PROJECT_TTL
        BY DEF EntriesExpire
      <3>1. projectCache[r].lag \in Project!Ages /\ projectCache[r].left \in 0..PROJECT_TTL
        BY <1>0 DEF Entry
      <3>2. projectCache[r].left > 0 /\ projectCache'[r].left = projectCache[r].left - 1
        BY <2>1, <3>1, RulesAssumption DEF Project!OriginsAssumption
      <3>3. projectCache[r].lag + projectCache[r].left <= PROJECT_TTL
        BY <3>2 DEF PropInv, EntriesExpire
      <3>4. projectCache'[r].lag \in Nat /\ projectCache'[r].lag <= projectCache[r].lag + 1
        BY <2>1, <3>1, RulesAssumption DEF Project!Ages, Project!OriginsAssumption
      <3>5. QED BY <3>1, <3>2, <3>3, <3>4, RulesAssumption DEF Project!Ages,
        Project!OriginsAssumption
    <2>6. RowsAreFresh'
      <3> SUFFICES ASSUME NEW q \in ProjectRequest, projectRequest'[q].pc = "row"
                   PROVE  projectRequest'[q].lag <= projectRequest'[q].waited
        BY DEF RowsAreFresh
      <3>1. /\ projectRequest[q].pc = "row"
            /\ projectRequest'[q].lag \in {0, Project!Up(projectRequest[q].lag)}
            /\ projectRequest'[q].waited = Project!Up(projectRequest[q].waited)
        BY <2>2 DEF Query
      <3>2. projectRequest[q].lag \in Project!Ages /\ projectRequest[q].waited \in Project!Ages
            /\ projectRequest[q].lag <= projectRequest[q].waited
        BY <3>1, RequestShapes DEF PropInv, RowsAreFresh, RowRead
      <3>3. Project!Up(projectRequest[q].lag) <= Project!Up(projectRequest[q].waited)
              /\ Project!Up(projectRequest[q].waited) \in Project!Ages
        BY <3>2
      <3>4. QED BY <3>1, <3>3, RulesAssumption DEF Project!Ages, Project!OriginsAssumption
    <2>7. Project!ChangesPropagate'
      BY <2>2 DEF PropInv, Project!ChangesPropagate, Query, RowRead
    <2>8. QED BY <2>4, <2>5, <2>6, <2>7 DEF PropInv
  <1>9. CASE UNCHANGED Project!vars
    BY <1>9 DEF PropInv, Project!TypeOK, EntriesExpire, RowsAreFresh, Project!ChangesPropagate,
      Project!vars
  <1>10. QED BY <1>1, <1>2, <1>3, <1>4, <1>5, <1>6, <1>7, <1>8, <1>9 DEF Project!Next,
    Project!Serve

\* A decision of the middleware rests on origins that were the project's
\* within the time to live, or, without a cached entry, while it waited.
THEOREM OriginChangesPropagate == Project!Spec => []ChangesPropagate
  <1>1. PropInv => ChangesPropagate BY DEF PropInv, ChangesPropagate
  <1>2. QED BY <1>1, PropStart, PropStep, PTL DEF Project!Spec

==============================================================================
