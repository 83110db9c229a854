--------------------------- MODULE ProjectOrigins ---------------------------
(***************************************************************************)
(* The allowed origins of one project as PerProjectCORSMiddleware sees     *)
(* them: each replica keeps them in a cache, and every request that finds  *)
(* no valid entry queries the database itself and overwrites the entry.    *)
(*                                                                         *)
(* Time passes in ticks.  A value that is held somewhere has a lag: the    *)
(* ticks since the database held it.                                       *)
(***************************************************************************)
EXTENDS Naturals

CONSTANTS Replica,
          Request,    \* requests in progress at once, on any replica
          Origins,    \* values of allowed_origins, one of them for no restriction
          TTL,        \* _CACHE_TTL: 60 seconds
          MaxWait     \* bound: ticks that are counted of a query; a later one counts as this

\* What an instance must be.
OriginsAssumption ==
  /\ Origins # {}
  /\ TTL \in Nat \ {0} /\ MaxWait \in Nat /\ TTL <= MaxWait

VARIABLES stored,   \* allowed_origins in the database
          cache,    \* each replica's entry: left is the time to its expiry
          request   \* what each request does; waited counts from its arrival

vars == <<stored, cache, request>>

NoRequest == [pc |-> "none"]
Up(n) == IF n < MaxWait THEN n + 1 ELSE n
Down(n) == IF n > 0 THEN n - 1 ELSE 0

\* The cache has a valid entry: it answers.
hit(q, r) ==
  /\ request[q] = NoRequest
  /\ cache[r].left > 0
  /\ request' = [request EXCEPT ![q] = [pc |-> "decide", replica |-> r, waited |-> 0, hit |-> TRUE,
                                        origins |-> cache[r].origins, lag |-> cache[r].lag]]
  /\ UNCHANGED <<stored, cache>>

\* There is no entry, or an expired one.
miss(q, r) ==
  /\ request[q] = NoRequest
  /\ cache[r].left = 0
  /\ request' = [request EXCEPT ![q] = [pc |-> "query", replica |-> r, waited |-> 0]]
  /\ UNCHANGED <<stored, cache>>

\* The database answers the query; the result is on its way.
query(q) ==
  /\ request[q].pc = "query"
  /\ request' = [request EXCEPT ![q] = [pc |-> "row", replica |-> request[q].replica,
                                        waited |-> request[q].waited, origins |-> stored, lag |-> 0]]
  /\ UNCHANGED <<stored, cache>>

\* Mutant: the expiry counts from the end of the query.
BugLeft(waited) == TTL

\* The expiry counts from the arrival of the request.
Left(waited) == IF waited < TTL THEN TTL - waited ELSE 0

\* The entry is written, also over a newer one.
store(q) ==
  LET c == request[q] IN
    /\ c.pc = "row"
    /\ cache' = [cache EXCEPT ![c.replica] =
                   [origins |-> c.origins, lag |-> c.lag, left |-> Left(c.waited)]]
    /\ request' = [request EXCEPT ![q] = [pc |-> "decide", replica |-> c.replica, waited |-> c.waited,
                                          hit |-> FALSE, origins |-> c.origins, lag |-> c.lag]]
    /\ UNCHANGED stored

\* dispatch lets the request pass or not, or the query has failed.
done(q) ==
  /\ request[q] # NoRequest
  /\ request' = [request EXCEPT ![q] = NoRequest]
  /\ UNCHANGED <<stored, cache>>

\* Another request commits new origins.  What holds them has no lag any more.
configure(o) ==
  /\ o # stored
  /\ stored' = o
  /\ cache' = [r \in Replica |-> IF cache[r].origins = o THEN [cache[r] EXCEPT !.lag = 0] ELSE cache[r]]
  /\ request' = [q \in Request |-> IF request[q].pc = "row" /\ request[q].origins = o
                                   THEN [request[q] EXCEPT !.lag = 0] ELSE request[q]]

\* A process restarts with an empty cache; its requests are gone.
restart(r) ==
  /\ cache' = [cache EXCEPT ![r].left = 0]
  /\ request' = [q \in Request |-> IF request[q] # NoRequest /\ request[q].replica = r
                                   THEN NoRequest ELSE request[q]]
  /\ UNCHANGED stored

Lag(v) == IF v.origins = stored THEN 0 ELSE Up(v.lag)

\* A decision has been made: it does not age.
tick ==
  /\ cache' = [r \in Replica |-> [cache[r] EXCEPT !.left = Down(@), !.lag = Lag(cache[r])]]
  /\ request' = [q \in Request |->
       CASE request[q].pc = "query" -> [request[q] EXCEPT !.waited = Up(@)]
         [] request[q].pc = "row" -> [request[q] EXCEPT !.waited = Up(@), !.lag = Lag(request[q])]
         [] OTHER -> request[q]]
  /\ UNCHANGED stored

-----------------------------------------------------------------------------

Init ==
  /\ stored \in Origins
  /\ cache = [r \in Replica |-> [origins |-> stored, lag |-> 0, left |-> 0]]
  /\ request = [q \in Request |-> NoRequest]

Serve(q) == \/ \E r \in Replica : hit(q, r) \/ miss(q, r)
            \/ query(q) \/ store(q) \/ done(q)

Next ==
  \/ \E q \in Request : Serve(q)
  \/ \E o \in Origins : configure(o)
  \/ \E r \in Replica : restart(r)
  \/ tick

Spec == Init /\ [][Next]_vars

-----------------------------------------------------------------------------
(***************************************************************************)
(* Properties                                                              *)
(***************************************************************************)

Ages == 0..MaxWait

\* Every variable has its type.
TypeOK ==
  /\ stored \in Origins
  /\ cache \in [Replica -> [origins : Origins, lag : Ages, left : 0..TTL]]
  /\ request \in [Request ->
       {NoRequest}
         \cup [pc : {"query"}, replica : Replica, waited : Ages]
         \cup [pc : {"row"}, replica : Replica, waited : Ages, origins : Origins, lag : Ages]
         \cup [pc : {"decide"}, replica : Replica, waited : Ages, hit : BOOLEAN,
               origins : Origins, lag : Ages]]

\* "A config change propagates within 60 seconds as each replica's cache entry
\* expires": what a request decides by from a cache was in the database less
\* than TTL ago, however long the query behind the entry took and whichever of
\* several queries overwrote it last; what it decides by from its own query was
\* in the database since it arrived.
ChangesPropagate ==
  \A q \in Request : request[q].pc = "decide" =>
    IF request[q].hit THEN request[q].lag < TTL ELSE request[q].lag <= request[q].waited

=============================================================================
