---------------------------- MODULE TokenProvider ----------------------------
(***************************************************************************)
(* FileNestProvider of the React SDK: one cached upload token, a proactive *)
(* refresh timer, de-duplicated fetches with retries, and API calls that   *)
(* fetch a new token and try once more when they are answered with 401.    *)
(*                                                                         *)
(* JavaScript runs each continuation to completion, so an action is the    *)
(* code between two awaits.  Time is relative: a token carries the time    *)
(* left until expiresAt and the timer the time until it is due, and Tick   *)
(* lets one unit pass.  A response, and a request, takes at most Latency;  *)
(* a retry delay and a late timer may take any time.                       *)
(***************************************************************************)
EXTENDS Integers

CONSTANTS Call,          \* slots for concurrent calls of callApi
          Get,           \* the fetch started by getToken (inflightRef)
          Refresh,       \* slots for fetches started by the refresh timer
          Lifetime,      \* what expiresAt grants a new token
          Buffer,        \* tokenRefreshBuffer
          Latency,       \* bound on a response's, and on a request's, travel time
          Retry,         \* tokenRetry
          InitialToken   \* fetchInitialToken

ASSUME TokenAssumption ==
  /\ Get \notin Call /\ Get \notin Refresh /\ Call \cap Refresh = {}
  /\ Lifetime \in Nat /\ Buffer \in Nat /\ Latency \in Nat
  /\ Retry \in Nat \ {0}
  /\ InitialToken \in BOOLEAN
  /\ Buffer + Latency < Lifetime    \* tokens outlive the buffer when they arrive
  /\ Latency + Latency < Lifetime   \* and a request made with a new one

VARIABLES cache,       \* tokenRef
          hasToken,    \* the React state `token` is not null
          tokenError,  \* the React state `tokenError` is not null
          timer,       \* the time until the refresh timer is due
          fetch,       \* the running calls of fetchToken
          call,        \* the running calls of callApi
          mounted,     \* "new", "yes" or "gone"
          busy         \* history: something was running when the provider unmounted

vars == <<cache, hasToken, tokenError, timer, fetch, call, mounted, busy>>

Fetch == {Get} \cup Call \cup Refresh

NoTimer == -1
NoToken == [left |-> 0, revoked |-> TRUE]
IssuedToken == [left |-> Lifetime, revoked |-> FALSE]

IdleFetch == [pc |-> "idle", attempt |-> 0, tok |-> NoToken]
IdleCall == [pc |-> "idle", tok |-> NoToken, travel |-> 0]

Running(f) == fetch[f].pc # "idle"
Fresh == cache.left > Buffer
InFlight(c) == call[c].pc \in {"first", "second"}

(***************************************************************************)
(* fetchToken                                                              *)
(***************************************************************************)

Started == [IdleFetch EXCEPT !.pc = "asked"]

\* The token endpoint issues a token; the response is on its way.
issue(f) ==
  /\ fetch[f].pc = "asked"
  /\ fetch' = [fetch EXCEPT ![f].pc = "answered", ![f].tok = IssuedToken]
  /\ UNCHANGED <<cache, hasToken, tokenError, timer, call, mounted, busy>>

\* What the end of fetch f gives the calls that wait for it: those that share
\* getToken's promise, or the one call that fetches after a 401.
Resume(f, sent) ==
  [c \in Call |->
     IF \/ f = Get /\ call[c].pc = "token"
        \/ f = c /\ call[c].pc = "refresh"
     THEN sent[call[c].pc] ELSE call[c]]

Requests(t) == [pc \in {"token", "refresh"} |->
                  [pc |-> IF pc = "token" THEN "first" ELSE "second",
                   tok |-> t, travel |-> 0]]
Failures == [pc \in {"token", "refresh"} |-> [IdleCall EXCEPT !.pc = "failed"]]

\* Mutant: the timer is armed for the first token only.
BugSchedule(t) == IF hasToken THEN NoTimer ELSE t.left - Buffer

\* The proactive refresh: clearTimeout, and setTimeout if ttl > 0.
Schedule(t) == IF t.left > Buffer THEN t.left - Buffer ELSE NoTimer

\* doFetch returns: the token is cached, the timer armed anew and the waiters
\* resumed.  The response of an older request may come after a newer one's.
fetchToken_ok(f) ==
  /\ fetch[f].pc = "answered"
  /\ cache' = fetch[f].tok
  /\ hasToken' = TRUE
  /\ tokenError' = FALSE
  /\ timer' = Schedule(fetch[f].tok)
  /\ call' = Resume(f, Requests(fetch[f].tok))
  /\ fetch' = [fetch EXCEPT ![f] = IdleFetch]
  /\ UNCHANGED <<mounted, busy>>

\* doFetch throws: a delay and another attempt, or the error for the waiters.
fetchToken_fail(f) ==
  /\ fetch[f].pc \in {"asked", "answered"}
  /\ IF fetch[f].attempt + 1 < Retry
     THEN /\ fetch' = [fetch EXCEPT ![f] = [IdleFetch EXCEPT !.pc = "sleep",
                                             !.attempt = fetch[f].attempt + 1]]
          /\ UNCHANGED <<tokenError, call>>
     ELSE /\ fetch' = [fetch EXCEPT ![f] = IdleFetch]
          /\ tokenError' = TRUE
          /\ call' = Resume(f, Failures)
  /\ UNCHANGED <<cache, hasToken, timer, mounted, busy>>

\* The delay between two attempts is over.
fetchToken_again(f) ==
  /\ fetch[f].pc = "sleep"
  /\ fetch' = [fetch EXCEPT ![f].pc = "asked"]
  /\ UNCHANGED <<cache, hasToken, tokenError, timer, call, mounted, busy>>

\* The refresh timer fires, mounted or not.
timer_fires(r) ==
  /\ timer = 0
  /\ ~Running(r)
  /\ timer' = NoTimer
  /\ fetch' = [fetch EXCEPT ![r] = Started]
  /\ UNCHANGED <<cache, hasToken, tokenError, call, mounted, busy>>

(***************************************************************************)
(* getToken and callApi                                                    *)
(***************************************************************************)

\* The fetches after getToken has found no fresh token: the one in flight is
\* shared, otherwise one is started.
Joined == IF Running(Get) THEN fetch ELSE [fetch EXCEPT ![Get] = Started]

\* The mount effect.
mount ==
  /\ mounted = "new"
  /\ mounted' = "yes"
  /\ fetch' = IF InitialToken THEN Joined ELSE fetch
  /\ UNCHANGED <<cache, hasToken, tokenError, timer, call, busy>>

\* useUploadToken's refresh, which is getToken.
refresh ==
  /\ mounted = "yes"
  /\ ~Fresh
  /\ fetch' = Joined
  /\ UNCHANGED <<cache, hasToken, tokenError, timer, call, mounted, busy>>

\* callApi up to its first request, or to the promise it waits for.
callApi(c) ==
  /\ mounted = "yes"
  /\ call[c].pc \in {"idle", "done", "failed", "unauthorized"}
  /\ IF Fresh
     THEN /\ call' = [call EXCEPT ![c] = Requests(cache)["token"]]
          /\ UNCHANGED fetch
     ELSE /\ call' = [call EXCEPT ![c] = [IdleCall EXCEPT !.pc = "token"]]
          /\ fetch' = Joined
  /\ UNCHANGED <<cache, hasToken, tokenError, timer, mounted, busy>>

Accepted(t) == t.left > 0 /\ ~t.revoked

\* The response to a request is a success, or an error other than 401.
respond(c) ==
  /\ InFlight(c)
  /\ \E pc \in {"done", "failed"} :
       /\ pc = "done" => Accepted(call[c].tok)
       /\ call' = [call EXCEPT ![c] = [IdleCall EXCEPT !.pc = pc]]
  /\ UNCHANGED <<cache, hasToken, tokenError, timer, fetch, mounted, busy>>

\* Mutant: the second attempt is made with a token from getToken, which may be
\* the one the server has just refused.
BugRespond401(c) ==
  /\ call[c].pc = "first"
  /\ ~Accepted(call[c].tok)
  /\ call' = [call EXCEPT ![c].pc = "second", ![c].travel = 0]
  /\ UNCHANGED <<cache, fetch, hasToken, tokenError, timer, mounted, busy>>

\* 401 for the first request: whatever is cached by now is dropped, and the call
\* fetches a token of its own, past the de-duplication.
respond_401(c) ==
  /\ call[c].pc = "first"
  /\ ~Accepted(call[c].tok)
  /\ cache' = NoToken
  /\ call' = [call EXCEPT ![c] = [IdleCall EXCEPT !.pc = "refresh"]]
  /\ fetch' = [fetch EXCEPT ![c] = Started]
  /\ UNCHANGED <<hasToken, tokenError, timer, mounted, busy>>

\* 401 for the second request is the caller's error.
respond_401_again(c) ==
  /\ call[c].pc = "second"
  /\ ~Accepted(call[c].tok)
  /\ call' = [call EXCEPT ![c].pc = "unauthorized"]
  /\ UNCHANGED <<cache, hasToken, tokenError, timer, fetch, mounted, busy>>

\* Mutant: the effect returns no cleanup.
BugUnmount ==
  /\ mounted = "yes"
  /\ mounted' = "gone"
  /\ busy' = ((\E f \in Fetch : Running(f)) \/ \E c \in Call : InFlight(c))
  /\ UNCHANGED <<timer, cache, hasToken, tokenError, fetch, call>>

\* The cleanup of the mount effect clears the timer, and nothing else; without
\* fetchInitialToken the effect returns no cleanup.
unmount ==
  /\ mounted = "yes"
  /\ mounted' = "gone"
  /\ timer' = IF InitialToken THEN NoTimer ELSE timer
  /\ busy' = ((\E f \in Fetch : Running(f)) \/ \E c \in Call : InFlight(c))
  /\ UNCHANGED <<cache, hasToken, tokenError, fetch, call>>

(***************************************************************************)
(* The environment                                                         *)
(***************************************************************************)

\* The server revokes the tokens it has issued.
Revoked(t) == [t EXCEPT !.revoked = TRUE]
revoke ==
  /\ cache' = Revoked(cache)
  /\ fetch' = [f \in Fetch |-> [fetch[f] EXCEPT !.tok = Revoked(@)]]
  /\ call' = [c \in Call |-> IF call[c].pc = "unauthorized" THEN call[c]
                             ELSE [call[c] EXCEPT !.tok = Revoked(@)]]
  /\ UNCHANGED <<hasToken, tokenError, timer, mounted, busy>>

Aged(t) == [t EXCEPT !.left = IF @ > 0 THEN @ - 1 ELSE 0]

\* One unit of time passes.  A timer may be late.
Tick ==
  /\ \A f \in Fetch : fetch[f].pc = "answered" => fetch[f].tok.left > Lifetime - Latency
  /\ \A c \in Call : InFlight(c) => call[c].travel < Latency
  /\ cache' = Aged(cache)
  /\ timer' = IF timer > 0 THEN timer - 1 ELSE timer
  /\ fetch' = [f \in Fetch |-> [fetch[f] EXCEPT !.tok = Aged(@)]]
  /\ call' = [c \in Call |-> IF InFlight(c)
                             THEN [call[c] EXCEPT !.tok = Aged(@), !.travel = @ + 1]
                             ELSE call[c]]
  /\ UNCHANGED <<hasToken, tokenError, mounted, busy>>

-----------------------------------------------------------------------------

Init ==
  /\ cache = NoToken
  /\ hasToken = FALSE
  /\ tokenError = FALSE
  /\ timer = NoTimer
  /\ fetch = [f \in Fetch |-> IdleFetch]
  /\ call = [c \in Call |-> IdleCall]
  /\ mounted = "new"
  /\ busy = FALSE

fetchToken(f) == issue(f) \/ fetchToken_ok(f) \/ fetchToken_fail(f) \/ fetchToken_again(f)
response(c) == respond(c) \/ respond_401(c) \/ respond_401_again(c)

Next ==
  \/ \E f \in Fetch : fetchToken(f)
  \/ \E r \in Refresh : timer_fires(r)
  \/ mount \/ refresh \/ unmount \/ revoke \/ Tick
  \/ \E c \in Call : callApi(c) \/ response(c)

Spec == Init /\ [][Next]_vars

-----------------------------------------------------------------------------
(***************************************************************************)
(* Properties                                                              *)
(***************************************************************************)

TokenType == [left : 0..Lifetime, revoked : BOOLEAN]
FetchType == [pc : {"idle", "asked", "answered", "sleep"}, attempt : 0..(Retry - 1),
              tok : TokenType]
CallType == [pc : {"idle", "token", "first", "refresh", "second", "done", "failed",
                   "unauthorized"},
             tok : TokenType, travel : 0..Latency]

\* Every variable has its type; a fetch that runs for a call runs exactly while
\* the call waits for it.
TypeOK ==
  /\ cache \in TokenType
  /\ hasToken \in BOOLEAN /\ tokenError \in BOOLEAN /\ busy \in BOOLEAN
  /\ timer \in {NoTimer} \cup 0..Lifetime
  /\ fetch \in [Fetch -> FetchType]
  /\ call \in [Call -> CallType]
  /\ mounted \in {"new", "yes", "gone"}
  /\ \A c \in Call : Running(c) <=> call[c].pc = "refresh"
  /\ (\E c \in Call : call[c].pc = "token") => Running(Get)

\* A mounted provider that has had a token and shows no error never stops
\* refreshing: a timer is armed or a fetch is running, whatever the order in which
\* responses, failures, 401s and timers come.
RefreshNeverStops ==
  mounted = "yes" /\ hasToken /\ ~tokenError =>
    timer # NoTimer \/ \E f \in Fetch : Running(f)

\* A call is refused twice only if the server has revoked the token it fetched
\* after the first refusal: the one retry of callApi is enough for tokens that
\* merely expire on the way.
RefusedTwiceOnlyIfRevoked ==
  \A c \in Call : call[c].pc = "unauthorized" => call[c].tok.revoked

\* After the provider is gone the timer is armed, or a refresh runs, only if
\* something was in progress when it unmounted: cleanup stops an idle provider for
\* good (but an answer that arrives later arms the timer again).
IdleProviderStops ==
  mounted = "gone" /\ InitialToken /\ ~busy =>
    timer = NoTimer /\ \A f \in Fetch : ~Running(f)
=============================================================================
