------------------------- MODULE TokenProviderProofs --------------------------
(***************************************************************************)
(* Proofs about TokenProvider, for any number of calls and retries and any *)
(* lifetime of the tokens, buffer and latency that the assumptions admit.  *)
(***************************************************************************)
EXTENDS TokenProvider, TLAPS

\* A response on its way carries a token that has lost at most its travel time.
AnsweredFresh ==
  \A f \in Fetch : fetch[f].pc = "answered" => fetch[f].tok.left >= Lifetime - Latency

\* RefreshNeverStops, already before the mount effect has run.
RefreshGoesOn ==
  mounted # "gone" /\ hasToken /\ ~tokenError =>
    timer # NoTimer \/ \E f \in Fetch : Running(f)

\* The second request of a call is made with a token fetched for it.
SecondFresh ==
  \A c \in Call :
    call[c].pc = "second" =>
      call[c].tok.revoked \/ call[c].tok.left + call[c].travel >= Lifetime - Latency

\* Nothing runs, and no call waits, after an idle provider was unmounted.
IdleStays ==
  mounted = "gone" /\ InitialToken /\ ~busy =>
    /\ timer = NoTimer
    /\ \A f \in Fetch : ~Running(f)
    /\ \A c \in Call : call[c].pc \notin {"token", "first", "refresh", "second"}

Inv ==
  /\ TypeOK /\ AnsweredFresh /\ SecondFresh
  /\ RefreshGoesOn /\ RefusedTwiceOnlyIfRevoked /\ IdleStays

-----------------------------------------------------------------------------
(***************************************************************************)
(* Types                                                                   *)
(***************************************************************************)

LEMMA Tokens ==
  /\ NoToken \in TokenType /\ IssuedToken \in TokenType
  /\ \A t \in TokenType : /\ Aged(t) \in TokenType /\ Revoked(t) \in TokenType
                          /\ t.left \in 0..Lifetime
                          /\ Revoked(t).revoked = TRUE /\ Revoked(t).left = t.left
                          /\ Aged(t).revoked = t.revoked
                          /\ Aged(t).left >= t.left - 1
  <1>1. NoToken \in TokenType /\ IssuedToken \in TokenType
    BY TokenAssumption DEF NoToken, IssuedToken, TokenType
  <1>2. \A t \in TokenType : /\ Revoked(t) \in TokenType /\ t.left \in 0..Lifetime
                             /\ Revoked(t).revoked = TRUE /\ Revoked(t).left = t.left
    BY DEF Revoked, TokenType
  <1>3. ASSUME NEW t \in TokenType
        PROVE  /\ Aged(t) \in TokenType /\ Aged(t).revoked = t.revoked
               /\ Aged(t).left >= t.left - 1
    <2>1. (IF t.left > 0 THEN t.left - 1 ELSE 0) \in 0..Lifetime
      BY TokenAssumption DEF TokenType
    <2>2. (IF t.left > 0 THEN t.left - 1 ELSE 0) >= t.left - 1
      BY TokenAssumption DEF TokenType
    <2>3. QED BY <2>1, <2>2 DEF Aged, TokenType
  <1>4. QED BY <1>1, <1>2, <1>3

LEMMA Records ==
  /\ IdleFetch \in FetchType /\ Started \in FetchType
  /\ IdleFetch.pc = "idle" /\ Started.pc = "asked"
  /\ IdleCall \in CallType /\ IdleCall.pc = "idle"
  /\ \A pc \in {"token", "refresh", "done", "failed"} :
       /\ [IdleCall EXCEPT !.pc = pc] \in CallType
       /\ [IdleCall EXCEPT !.pc = pc].pc = pc
  <1>1. 0 \in 0..(Retry - 1) /\ 0 \in 0..Latency
    BY TokenAssumption
  <1>2. IdleFetch \in FetchType /\ IdleFetch.pc = "idle"
    BY <1>1, Tokens DEF IdleFetch, FetchType
  <1>3. Started \in FetchType /\ Started.pc = "asked"
    BY <1>2 DEF Started, FetchType
  <1>4. IdleCall \in CallType /\ IdleCall.pc = "idle"
    BY <1>1, Tokens DEF IdleCall, CallType
  <1>5. \A pc \in {"token", "refresh", "done", "failed"} :
          /\ [IdleCall EXCEPT !.pc = pc] \in CallType
          /\ [IdleCall EXCEPT !.pc = pc].pc = pc
    BY <1>4 DEF CallType
  <1>6. QED BY <1>2, <1>3, <1>4, <1>5

\* What a call is resumed with: a request with the token, or the error.
LEMMA Resumptions ==
  ASSUME NEW t \in TokenType
  PROVE  /\ \A pc \in {"token", "refresh"} :
              Requests(t)[pc] \in CallType /\ Failures[pc] \in CallType
         /\ Requests(t)["token"].pc = "first" /\ Requests(t)["refresh"].pc = "second"
         /\ Requests(t)["refresh"].tok = t /\ Requests(t)["refresh"].travel = 0
         /\ Failures["token"].pc = "failed" /\ Failures["refresh"].pc = "failed"
  <1>1. 0 \in 0..Latency
    BY TokenAssumption
  <1>2. QED BY <1>1, Records DEF Requests, Failures, CallType

\* Resume touches only the calls that wait for f, and gives each its due.
LEMMA ResumeCalls ==
  ASSUME TypeOK, NEW f \in Fetch, NEW sent,
         \A pc \in {"token", "refresh"} : sent[pc] \in CallType
  PROVE  /\ Resume(f, sent) \in [Call -> CallType]
         /\ \A c \in Call :
              \/ f = Get /\ call[c].pc = "token" /\ Resume(f, sent)[c] = sent["token"]
              \/ f = c /\ call[c].pc = "refresh" /\ Resume(f, sent)[c] = sent["refresh"]
              \/ ~(f = Get /\ call[c].pc = "token") /\ ~(f = c /\ call[c].pc = "refresh")
                   /\ Resume(f, sent)[c] = call[c]
  BY DEF Resume, TypeOK

LEMMA InitInv == Init => Inv
  <1>1. SUFFICES ASSUME Init PROVE Inv
    OBVIOUS
  <1>2. /\ \A f \in Fetch : fetch[f].pc = "idle"
        /\ \A c \in Call : call[c].pc = "idle" /\ c \in Fetch
    BY <1>1, Records DEF Init, Fetch
  <1>3. TypeOK
    BY <1>1, <1>2, Tokens, Records DEF Init, TypeOK, Running
  <1>4. AnsweredFresh /\ SecondFresh /\ RefusedTwiceOnlyIfRevoked
    BY <1>2 DEF AnsweredFresh, SecondFresh, RefusedTwiceOnlyIfRevoked
  <1>5. RefreshGoesOn /\ IdleStays
    BY <1>1 DEF Init, RefreshGoesOn, IdleStays
  <1>6. QED BY <1>3, <1>4, <1>5 DEF Inv

-----------------------------------------------------------------------------
(***************************************************************************)
(* The steps of a fetch                                                    *)
(***************************************************************************)

LEMMA IssueInv ==
  ASSUME Inv, NEW f \in Fetch, issue(f)
  PROVE  Inv'
  <1> USE DEF Inv
  <1>1. fetch \in [Fetch -> FetchType] /\ fetch[f] \in FetchType
    BY DEF TypeOK
  <1>2. fetch' = [fetch EXCEPT ![f] = [fetch[f] EXCEPT !.pc = "answered", !.tok = IssuedToken]]
    BY DEF issue
  <1>3. /\ [fetch[f] EXCEPT !.pc = "answered", !.tok = IssuedToken] \in FetchType
        /\ fetch'[f].pc = "answered" /\ fetch'[f].tok = IssuedToken
    BY <1>1, <1>2, Tokens DEF FetchType
  <1>4. \A g \in Fetch : g # f => fetch'[g] = fetch[g]
    BY <1>1, <1>2
  <1>5. fetch[f].pc = "asked" /\ Call \subseteq Fetch /\ Get \in Fetch
    BY DEF issue, Fetch
  <1>6. fetch' \in [Fetch -> FetchType]
    BY <1>1, <1>2, <1>3
  <1>7. \A g \in Fetch : Running(g) <=> Running(g)'
    BY <1>3, <1>4, <1>5 DEF Running
  <1>8. TypeOK'
    BY <1>5, <1>6, <1>7 DEF TypeOK, issue
  <1>9. AnsweredFresh'
    BY <1>3, <1>4, TokenAssumption DEF AnsweredFresh, IssuedToken
  <1>10. SecondFresh' /\ RefusedTwiceOnlyIfRevoked'
    BY DEF SecondFresh, RefusedTwiceOnlyIfRevoked, issue
  <1>11. RefreshGoesOn' /\ IdleStays'
    BY <1>7 DEF RefreshGoesOn, IdleStays, issue
  <1>12. QED BY <1>8, <1>9, <1>10, <1>11

LEMMA OkInv ==
  ASSUME Inv, NEW f \in Fetch, fetchToken_ok(f)
  PROVE  Inv'
  <1> USE DEF Inv
  <1> DEFINE t == fetch[f].tok
  <1>1. /\ fetch \in [Fetch -> FetchType] /\ t \in TokenType
        /\ fetch[f].pc = "answered" /\ Call \subseteq Fetch /\ Get \in Fetch
    BY DEF TypeOK, FetchType, fetchToken_ok, Fetch
  <1>2. t.left \in Nat /\ t.left >= Lifetime - Latency /\ t.left > Buffer
    BY <1>1, Tokens, TokenAssumption DEF AnsweredFresh
  <1>3. timer' = t.left - Buffer /\ timer' \in 0..Lifetime /\ timer' # NoTimer
    BY <1>1, <1>2, Tokens, TokenAssumption DEF fetchToken_ok, Schedule, NoTimer
  <1>4. /\ fetch' \in [Fetch -> FetchType] /\ fetch'[f].pc = "idle"
        /\ \A g \in Fetch : g # f => fetch'[g] = fetch[g]
    BY <1>1, Records DEF fetchToken_ok
  <1>5. /\ call' \in [Call -> CallType]
        /\ \A c \in Call :
             \/ f = Get /\ call[c].pc = "token" /\ call'[c] = Requests(t)["token"]
             \/ f = c /\ call[c].pc = "refresh" /\ call'[c] = Requests(t)["refresh"]
             \/ ~(f = Get /\ call[c].pc = "token") /\ ~(f = c /\ call[c].pc = "refresh")
                  /\ call'[c] = call[c]
    BY <1>1, Resumptions, ResumeCalls DEF fetchToken_ok
  <1>6. /\ Requests(t)["token"].pc = "first" /\ Requests(t)["refresh"].pc = "second"
        /\ Requests(t)["refresh"].tok = t /\ Requests(t)["refresh"].travel = 0
    BY <1>1, Resumptions
  <1>7. TypeOK'
    <2>1. \A c \in Call : Running(c)' <=> call'[c].pc = "refresh"
      BY <1>1, <1>4, <1>5, <1>6 DEF TypeOK, Running
    <2>2. (\E c \in Call : call'[c].pc = "token") => Running(Get)'
      BY <1>1, <1>4, <1>5, <1>6, TokenAssumption DEF TypeOK, Running
    <2>3. QED BY <1>1, <1>3, <1>4, <1>5, <2>1, <2>2 DEF TypeOK, fetchToken_ok
  <1>8. AnsweredFresh'
    BY <1>4 DEF AnsweredFresh
  <1>9. SecondFresh'
    BY <1>2, <1>5, <1>6, TokenAssumption DEF SecondFresh
  <1>10. RefusedTwiceOnlyIfRevoked'
    BY <1>5, <1>6 DEF RefusedTwiceOnlyIfRevoked
  <1>11. RefreshGoesOn'
    BY <1>3 DEF RefreshGoesOn
  <1>12. IdleStays'
    BY <1>1 DEF IdleStays, Running, fetchToken_ok
  <1>13. QED BY <1>7, <1>8, <1>9, <1>10, <1>11, <1>12

LEMMA FailInv ==
  ASSUME Inv, NEW f \in Fetch, fetchToken_fail(f)
  PROVE  Inv'
  <1> USE DEF Inv
  <1>1. /\ fetch \in [Fetch -> FetchType] /\ fetch[f] \in FetchType
        /\ fetch[f].pc \in {"asked", "answered"} /\ Running(f)
        /\ Call \subseteq Fetch /\ Get \in Fetch
    BY DEF TypeOK, fetchToken_fail, Running, Fetch
  <1>2. IdleStays'
    BY <1>1 DEF IdleStays, fetchToken_fail
  <1>3. CASE fetch[f].attempt + 1 < Retry
    <2> DEFINE s == [IdleFetch EXCEPT !.pc = "sleep", !.attempt = fetch[f].attempt + 1]
    <2>1. fetch[f].attempt + 1 \in 0..(Retry - 1)
      BY <1>1, <1>3, TokenAssumption DEF FetchType
    <2>2. s \in FetchType /\ s.pc = "sleep"
      BY <2>1, Records DEF FetchType
    <2>3. /\ fetch' \in [Fetch -> FetchType] /\ fetch'[f].pc = "sleep"
          /\ \A g \in Fetch : g # f => fetch'[g] = fetch[g]
      BY <1>1, <1>3, <2>2 DEF fetchToken_fail
    <2>4. \A g \in Fetch : Running(g) <=> Running(g)'
      BY <1>1, <2>3 DEF Running
    <2>5. TypeOK'
      BY <1>1, <1>3, <2>3, <2>4 DEF TypeOK, fetchToken_fail
    <2>6. AnsweredFresh'
      BY <2>3 DEF AnsweredFresh
    <2>7. SecondFresh' /\ RefusedTwiceOnlyIfRevoked' /\ RefreshGoesOn'
      BY <1>3, <2>4 DEF SecondFresh, RefusedTwiceOnlyIfRevoked, RefreshGoesOn, fetchToken_fail
    <2>8. QED BY <1>2, <2>5, <2>6, <2>7
  <1>4. CASE ~(fetch[f].attempt + 1 < Retry)
    <2>1. /\ fetch' \in [Fetch -> FetchType] /\ fetch'[f].pc = "idle"
          /\ \A g \in Fetch : g # f => fetch'[g] = fetch[g]
      BY <1>1, <1>4, Records DEF fetchToken_fail
    <2>2. /\ \A pc \in {"token", "refresh"} : Failures[pc] \in CallType
          /\ Failures["token"].pc = "failed" /\ Failures["refresh"].pc = "failed"
      BY Tokens, Resumptions
    <2>3. /\ call' \in [Call -> CallType]
          /\ \A c \in Call :
               \/ f = Get /\ call[c].pc = "token" /\ call'[c].pc = "failed"
               \/ f = c /\ call[c].pc = "refresh" /\ call'[c].pc = "failed"
               \/ ~(f = Get /\ call[c].pc = "token") /\ ~(f = c /\ call[c].pc = "refresh")
                    /\ call'[c] = call[c]
      BY <1>4, <2>2, ResumeCalls DEF fetchToken_fail
    <2>4. TypeOK'
      <3>1. \A c \in Call : Running(c)' <=> call'[c].pc = "refresh"
        BY <1>1, <2>1, <2>3 DEF TypeOK, Running
      <3>2. (\E c \in Call : call'[c].pc = "token") => Running(Get)'
        BY <1>1, <2>1, <2>3, TokenAssumption DEF TypeOK, Running
      <3>3. QED BY <1>4, <2>1, <2>3, <3>1, <3>2 DEF TypeOK, fetchToken_fail
    <2>5. AnsweredFresh'
      BY <2>1 DEF AnsweredFresh
    <2>6. SecondFresh' /\ RefusedTwiceOnlyIfRevoked'
      BY <2>3 DEF SecondFresh, RefusedTwiceOnlyIfRevoked
    <2>7. RefreshGoesOn'
      BY <1>4 DEF RefreshGoesOn, fetchToken_fail
    <2>8. QED BY <1>2, <2>4, <2>5, <2>6, <2>7
  <1>5. QED BY <1>3, <1>4

LEMMA AgainInv ==
  ASSUME Inv, NEW f \in Fetch, fetchToken_again(f)
  PROVE  Inv'
  <1> USE DEF Inv
  <1>1. /\ fetch \in [Fetch -> FetchType] /\ fetch[f] \in FetchType
        /\ fetch[f].pc = "sleep" /\ Call \subseteq Fetch /\ Get \in Fetch
    BY DEF TypeOK, fetchToken_again, Fetch
  <1>2. fetch' = [fetch EXCEPT ![f] = [fetch[f] EXCEPT !.pc = "asked"]]
    BY DEF fetchToken_again
  <1>3. [fetch[f] EXCEPT !.pc = "asked"] \in FetchType /\ fetch'[f].pc = "asked"
    BY <1>1, <1>2 DEF FetchType
  <1>4. fetch' \in [Fetch -> FetchType] /\ \A g \in Fetch : g # f => fetch'[g] = fetch[g]
    BY <1>1, <1>2, <1>3
  <1>5. \A g \in Fetch : Running(g) <=> Running(g)'
    BY <1>1, <1>3, <1>4 DEF Running
  <1>6. TypeOK'
    BY <1>1, <1>4, <1>5 DEF TypeOK, fetchToken_again
  <1>7. AnsweredFresh'
    BY <1>3, <1>4 DEF AnsweredFresh
  <1>8. /\ SecondFresh' /\ RefusedTwiceOnlyIfRevoked'
        /\ RefreshGoesOn' /\ IdleStays'
    BY <1>5 DEF SecondFresh, RefusedTwiceOnlyIfRevoked, RefreshGoesOn, IdleStays,
                fetchToken_again
  <1>9. QED BY <1>6, <1>7, <1>8

-----------------------------------------------------------------------------
(***************************************************************************)
(* The timer, the component and its calls                                  *)
(***************************************************************************)

\* What starting a fetch changes: one more runs, and no answer is made up.
LEMMA StartFetch ==
  ASSUME TypeOK, NEW f \in Fetch, fetch' = [fetch EXCEPT ![f] = Started]
  PROVE  /\ fetch' \in [Fetch -> FetchType] /\ Running(f)'
         /\ \A g \in Fetch : /\ g # f => fetch'[g] = fetch[g]
                             /\ Running(g) => Running(g)'
                             /\ fetch'[g].pc = "answered" => fetch'[g] = fetch[g]
  BY Records DEF TypeOK, Running

LEMMA JoinFetch ==
  ASSUME TypeOK, fetch' = Joined
  PROVE  /\ fetch' \in [Fetch -> FetchType] /\ Running(Get)'
         /\ \A g \in Fetch : /\ g # Get => fetch'[g] = fetch[g]
                             /\ Running(g) => Running(g)'
                             /\ fetch'[g].pc = "answered" => fetch'[g] = fetch[g]
  <1>1. Get \in Fetch
    BY DEF Fetch
  <1>2. CASE Running(Get)
    BY <1>1, <1>2 DEF Joined, TypeOK, Running
  <1>3. CASE ~Running(Get)
    BY <1>1, <1>3, StartFetch DEF Joined
  <1>4. QED BY <1>2, <1>3

LEMMA TimerInv ==
  ASSUME Inv, NEW r \in Refresh, timer_fires(r)
  PROVE  Inv'
  <1> USE DEF Inv
  <1>1. /\ r \in Fetch /\ r \notin Call /\ r # Get /\ Get \in Fetch /\ Call \subseteq Fetch
        /\ fetch' = [fetch EXCEPT ![r] = Started]
    BY TokenAssumption DEF timer_fires, Fetch
  <1>2. /\ fetch' \in [Fetch -> FetchType] /\ Running(r)'
        /\ \A g \in Fetch : /\ g # r => fetch'[g] = fetch[g]
                            /\ Running(g) => Running(g)'
                            /\ fetch'[g].pc = "answered" => fetch'[g] = fetch[g]
    BY <1>1, StartFetch
  <1>3. \A g \in Fetch \ {r} : Running(g) <=> Running(g)'
    BY <1>2 DEF Running
  <1>4. TypeOK'
    BY <1>1, <1>2, <1>3 DEF TypeOK, timer_fires
  <1>5. AnsweredFresh'
    BY <1>2 DEF AnsweredFresh
  <1>6. SecondFresh' /\ RefusedTwiceOnlyIfRevoked'
    BY DEF SecondFresh, RefusedTwiceOnlyIfRevoked, timer_fires
  <1>7. RefreshGoesOn'
    BY <1>1, <1>2 DEF RefreshGoesOn
  <1>8. ~(mounted = "gone" /\ ~busy /\ InitialToken)
    BY DEF IdleStays, timer_fires, NoTimer
  <1>9. IdleStays'
    BY <1>8 DEF IdleStays, timer_fires
  <1>10. QED BY <1>4, <1>5, <1>6, <1>7, <1>9

\* mount and useUploadToken's refresh only start or join a fetch.
LEMMA MountInv ==
  ASSUME Inv, mount \/ refresh
  PROVE  Inv'
  <1> USE DEF Inv
  <1>1. Get \in Fetch /\ Get \notin Call /\ Call \subseteq Fetch
    BY TokenAssumption DEF Fetch
  <1>2. fetch' = Joined \/ fetch' = fetch
    BY DEF mount, refresh
  <1>3. /\ fetch' \in [Fetch -> FetchType]
        /\ \A g \in Fetch : /\ g # Get => fetch'[g] = fetch[g]
                            /\ Running(g) => Running(g)'
                            /\ fetch'[g].pc = "answered" => fetch'[g] = fetch[g]
    BY <1>2, JoinFetch DEF TypeOK, Running
  <1>4. /\ mounted' = "yes"
        /\ UNCHANGED <<cache, hasToken, tokenError, timer, call, busy>>
    BY DEF mount, refresh
  <1>5. \A c \in Call : Running(c) <=> Running(c)'
    BY <1>1, <1>3 DEF Running
  <1>6. TypeOK'
    BY <1>1, <1>3, <1>4, <1>5 DEF TypeOK
  <1>7. AnsweredFresh'
    BY <1>3 DEF AnsweredFresh
  <1>8. SecondFresh' /\ RefusedTwiceOnlyIfRevoked' /\ IdleStays'
    BY <1>4 DEF SecondFresh, RefusedTwiceOnlyIfRevoked, IdleStays
  <1>9. RefreshGoesOn'
    BY <1>3, <1>4 DEF RefreshGoesOn, mount, refresh
  <1>10. QED BY <1>6, <1>7, <1>8, <1>9

LEMMA UnmountInv ==
  ASSUME Inv, unmount
  PROVE  Inv'
  <1> USE DEF Inv
  <1>1. TypeOK'
    BY DEF TypeOK, unmount, Running
  <1>2. AnsweredFresh' /\ SecondFresh' /\ RefusedTwiceOnlyIfRevoked' /\ RefreshGoesOn'
    BY DEF AnsweredFresh, SecondFresh, RefusedTwiceOnlyIfRevoked, RefreshGoesOn, unmount
  <1>3. IdleStays'
    <2>1. SUFFICES ASSUME InitialToken, ~busy'
                   PROVE  /\ timer' = NoTimer
                          /\ \A f \in Fetch : ~Running(f)'
                          /\ \A c \in Call : call'[c].pc \notin {"token", "first", "refresh", "second"}
      BY DEF IdleStays
    <2>2. (\A f \in Fetch : ~Running(f)) /\ \A c \in Call : ~InFlight(c)
      BY <2>1 DEF unmount
    <2>3. \A c \in Call : call[c].pc \notin {"token", "refresh"}
      BY <2>2 DEF TypeOK, Fetch
    <2>4. QED BY <2>1, <2>2, <2>3 DEF unmount, Running, InFlight
  <1>4. QED BY <1>1, <1>2, <1>3

LEMMA CallInv ==
  ASSUME Inv, NEW c \in Call, callApi(c)
  PROVE  Inv'
  <1> USE DEF Inv
  <1>1. /\ call \in [Call -> CallType] /\ call[c].pc \in {"idle", "done", "failed", "unauthorized"}
        /\ Get \in Fetch /\ Get \notin Call /\ Call \subseteq Fetch
        /\ UNCHANGED <<cache, hasToken, tokenError, timer, mounted, busy>> /\ mounted = "yes"
    BY TokenAssumption DEF TypeOK, callApi, Fetch
  <1>2. /\ fetch' \in [Fetch -> FetchType]
        /\ \A g \in Fetch : /\ g # Get => fetch'[g] = fetch[g]
                            /\ Running(g) => Running(g)'
                            /\ fetch'[g].pc = "answered" => fetch'[g] = fetch[g]
    BY JoinFetch DEF TypeOK, callApi, Running
  <1>3. /\ call' \in [Call -> CallType] /\ \A d \in Call : d # c => call'[d] = call[d]
        /\ \/ call'[c].pc = "first"
           \/ call'[c].pc = "token" /\ Running(Get)'
    <2>1. CASE Fresh
      <3>1. Requests(cache)["token"] \in CallType /\ Requests(cache)["token"].pc = "first"
        BY Resumptions DEF TypeOK
      <3>2. call' = [call EXCEPT ![c] = Requests(cache)["token"]]
        BY <2>1 DEF callApi
      <3>3. QED BY <1>1, <3>1, <3>2
    <2>2. CASE ~Fresh
      <3>1. call' = [call EXCEPT ![c] = [IdleCall EXCEPT !.pc = "token"]] /\ fetch' = Joined
        BY <2>2 DEF callApi
      <3>2. Running(Get)'
        BY <3>1, JoinFetch
      <3>3. QED BY <1>1, <3>1, <3>2, Records
    <2>3. QED BY <2>1, <2>2
  <1>4. \A d \in Call : Running(d) <=> Running(d)'
    BY <1>1, <1>2 DEF Running
  <1>5. TypeOK'
    <2>1. \A d \in Call : Running(d)' <=> call'[d].pc = "refresh"
      BY <1>1, <1>3, <1>4 DEF TypeOK
    <2>2. (\E d \in Call : call'[d].pc = "token") => Running(Get)'
      BY <1>1, <1>2, <1>3 DEF TypeOK
    <2>3. QED BY <1>1, <1>2, <1>3, <2>1, <2>2 DEF TypeOK
  <1>6. AnsweredFresh'
    BY <1>2 DEF AnsweredFresh
  <1>7. SecondFresh' /\ RefusedTwiceOnlyIfRevoked'
    BY <1>3 DEF SecondFresh, RefusedTwiceOnlyIfRevoked
  <1>8. RefreshGoesOn' /\ IdleStays'
    BY <1>1, <1>2 DEF RefreshGoesOn, IdleStays
  <1>9. QED BY <1>5, <1>6, <1>7, <1>8

-----------------------------------------------------------------------------
(***************************************************************************)
(* Responses to requests                                                   *)
(***************************************************************************)

\* An unmounted provider that was idle gets no response.
LEMMA RespondIdle ==
  ASSUME Inv, NEW c \in Call, InFlight(c)
  PROVE  ~(mounted = "gone" /\ InitialToken /\ ~busy)
  BY DEF Inv, IdleStays, InFlight

LEMMA RespondInv ==
  ASSUME Inv, NEW c \in Call, respond(c)
  PROVE  Inv'
  <1> USE DEF Inv
  <1>1. /\ call \in [Call -> CallType] /\ call[c].pc \in {"first", "second"}
        /\ UNCHANGED <<cache, hasToken, tokenError, timer, fetch, mounted, busy>>
        /\ ~(mounted = "gone" /\ InitialToken /\ ~busy)
    BY RespondIdle DEF TypeOK, respond, InFlight
  <1>2. /\ call' \in [Call -> CallType] /\ \A d \in Call : d # c => call'[d] = call[d]
        /\ call'[c].pc \in {"done", "failed"}
    BY <1>1, Records DEF respond
  <1>3. TypeOK'
    BY <1>1, <1>2 DEF TypeOK, Running
  <1>4. /\ AnsweredFresh' /\ SecondFresh' /\ RefusedTwiceOnlyIfRevoked'
        /\ RefreshGoesOn' /\ IdleStays'
    BY <1>1, <1>2 DEF AnsweredFresh, SecondFresh, RefusedTwiceOnlyIfRevoked, RefreshGoesOn,
                      IdleStays, Running
  <1>5. QED BY <1>3, <1>4

LEMMA Respond401Inv ==
  ASSUME Inv, NEW c \in Call, respond_401(c)
  PROVE  Inv'
  <1> USE DEF Inv
  <1>1. /\ call \in [Call -> CallType] /\ call[c].pc = "first" /\ c \in Fetch
        /\ Get \in Fetch /\ c # Get /\ Call \subseteq Fetch
        /\ ~(mounted = "gone" /\ InitialToken /\ ~busy)
        /\ UNCHANGED <<hasToken, tokenError, timer, mounted, busy>>
    BY RespondIdle, TokenAssumption DEF TypeOK, respond_401, InFlight, Fetch
  <1>2. /\ fetch' \in [Fetch -> FetchType] /\ Running(c)'
        /\ \A g \in Fetch : /\ g # c => fetch'[g] = fetch[g]
                            /\ Running(g) => Running(g)'
                            /\ fetch'[g].pc = "answered" => fetch'[g] = fetch[g]
    BY <1>1, StartFetch DEF respond_401
  <1>3. /\ call' \in [Call -> CallType] /\ \A d \in Call : d # c => call'[d] = call[d]
        /\ call'[c].pc = "refresh"
    BY <1>1, Records DEF respond_401
  <1>4. TypeOK'
    <2>1. \A d \in Call : Running(d)' <=> call'[d].pc = "refresh"
      BY <1>1, <1>2, <1>3 DEF TypeOK, Running
    <2>2. (\E d \in Call : call'[d].pc = "token") => Running(Get)'
      BY <1>1, <1>2, <1>3 DEF TypeOK
    <2>3. QED BY <1>1, <1>2, <1>3, <2>1, <2>2, Tokens DEF TypeOK, respond_401
  <1>5. AnsweredFresh' /\ SecondFresh' /\ RefusedTwiceOnlyIfRevoked'
    BY <1>2, <1>3 DEF AnsweredFresh, SecondFresh, RefusedTwiceOnlyIfRevoked
  <1>6. RefreshGoesOn' /\ IdleStays'
    BY <1>1, <1>2 DEF RefreshGoesOn, IdleStays
  <1>7. QED BY <1>4, <1>5, <1>6

\* The second refusal: a token this fresh was not refused for its age.
LEMMA Respond401AgainInv ==
  ASSUME Inv, NEW c \in Call, respond_401_again(c)
  PROVE  Inv'
  <1> USE DEF Inv
  <1>1. /\ call \in [Call -> CallType] /\ call[c] \in CallType /\ call[c].pc = "second"
        /\ ~Accepted(call[c].tok) /\ ~(mounted = "gone" /\ InitialToken /\ ~busy)
        /\ UNCHANGED <<cache, hasToken, tokenError, timer, fetch, mounted, busy>>
    BY RespondIdle DEF TypeOK, respond_401_again, InFlight
  <1>2. call[c].tok \in TokenType /\ call[c].travel \in 0..Latency
    BY <1>1 DEF CallType
  <1>3. call[c].tok.revoked
    <2>1. SUFFICES ASSUME ~call[c].tok.revoked PROVE FALSE
      OBVIOUS
    <2>2. call[c].tok.left + call[c].travel >= Lifetime - Latency
      BY <1>1, <2>1 DEF SecondFresh
    <2>3. call[c].tok.left \in Nat /\ ~(call[c].tok.left > 0)
      BY <1>1, <1>2, <2>1, Tokens DEF Accepted
    <2>4. QED BY <1>2, <2>2, <2>3, TokenAssumption
  <1>4. call' = [call EXCEPT ![c] = [call[c] EXCEPT !.pc = "unauthorized"]]
    BY DEF respond_401_again
  <1>5. /\ [call[c] EXCEPT !.pc = "unauthorized"] \in CallType
        /\ call'[c].pc = "unauthorized" /\ call'[c].tok = call[c].tok
    BY <1>1, <1>4 DEF CallType
  <1>6. call' \in [Call -> CallType] /\ \A d \in Call : d # c => call'[d] = call[d]
    BY <1>1, <1>4, <1>5
  <1>7. TypeOK'
    BY <1>1, <1>5, <1>6 DEF TypeOK, Running
  <1>8. RefusedTwiceOnlyIfRevoked'
    BY <1>3, <1>5, <1>6 DEF RefusedTwiceOnlyIfRevoked
  <1>9. AnsweredFresh' /\ SecondFresh' /\ RefreshGoesOn' /\ IdleStays'
    BY <1>1, <1>5, <1>6 DEF AnsweredFresh, SecondFresh, RefreshGoesOn, IdleStays, Running
  <1>10. QED BY <1>7, <1>8, <1>9

-----------------------------------------------------------------------------
(***************************************************************************)
(* The server and the clock                                                *)
(***************************************************************************)

LEMMA RevokeInv ==
  ASSUME Inv, revoke
  PROVE  Inv'
  <1> USE DEF Inv
  <1>1. /\ \A f \in Fetch : fetch[f] \in FetchType /\ fetch[f].tok \in TokenType
        /\ \A c \in Call : call[c] \in CallType /\ call[c].tok \in TokenType
    BY DEF TypeOK, FetchType, CallType
  <1>2. \A f \in Fetch : fetch'[f] = [fetch[f] EXCEPT !.tok = Revoked(fetch[f].tok)]
    BY DEF revoke
  <1>3. ASSUME NEW f \in Fetch
        PROVE  /\ fetch'[f] \in FetchType /\ fetch'[f].pc = fetch[f].pc
               /\ fetch'[f].tok = Revoked(fetch[f].tok)
    <2>1. Revoked(fetch[f].tok) \in TokenType
      BY <1>1, Tokens
    <2>2. fetch'[f] = [fetch[f] EXCEPT !.tok = Revoked(fetch[f].tok)] /\ fetch[f] \in FetchType
      BY <1>1, <1>2
    <2>3. QED BY <2>1, <2>2 DEF FetchType
  <1>4. \A c \in Call : \/ call'[c] = call[c] /\ call[c].pc = "unauthorized"
                        \/ call'[c] = [call[c] EXCEPT !.tok = Revoked(call[c].tok)]
    BY DEF revoke
  <1>5. \A c \in Call : /\ call'[c] \in CallType /\ call'[c].pc = call[c].pc
                        /\ call[c].pc # "unauthorized" => call'[c].tok = Revoked(call[c].tok)
                        /\ call[c].pc = "unauthorized" => call'[c].tok = Revoked(call[c].tok)
                                                          \/ call'[c] = call[c]
    <2> SUFFICES ASSUME NEW c \in Call
                 PROVE  /\ call'[c] \in CallType /\ call'[c].pc = call[c].pc
                        /\ call[c].pc # "unauthorized" => call'[c].tok = Revoked(call[c].tok)
                        /\ call[c].pc = "unauthorized" => call'[c].tok = Revoked(call[c].tok)
                                                          \/ call'[c] = call[c]
      OBVIOUS
    <2>1. call[c] \in CallType /\ Revoked(call[c].tok) \in TokenType
      BY <1>1, Tokens
    <2>2. CASE call'[c] = call[c] /\ call[c].pc = "unauthorized"
      BY <2>1, <2>2
    <2>3. CASE call'[c] = [call[c] EXCEPT !.tok = Revoked(call[c].tok)]
      <3>1. call'[c] \in CallType
        BY <2>1, <2>3 DEF CallType
      <3>2. call'[c].pc = call[c].pc /\ call'[c].tok = Revoked(call[c].tok)
        BY <2>1, <2>3 DEF CallType
      <3>3. QED
        BY <3>1, <3>2
    <2>4. QED
      BY <1>4, <2>2, <2>3
  <1>6. fetch' \in [Fetch -> FetchType] /\ call' \in [Call -> CallType]
    BY <1>3, <1>5 DEF revoke
  <1>7. \A f \in Fetch : Running(f) <=> Running(f)'
    BY <1>3 DEF Running
  <1>8. Call \subseteq Fetch /\ Get \in Fetch
    BY DEF Fetch
  <1>9. TypeOK'
    BY <1>5, <1>6, <1>7, <1>8, Tokens DEF TypeOK, revoke
  <1>10. AnsweredFresh'
    BY <1>1, <1>3, Tokens DEF AnsweredFresh
  <1>11. SecondFresh' /\ RefusedTwiceOnlyIfRevoked'
    BY <1>1, <1>5, Tokens DEF SecondFresh, RefusedTwiceOnlyIfRevoked
  <1>12. RefreshGoesOn' /\ IdleStays'
    BY <1>5, <1>7 DEF RefreshGoesOn, IdleStays, revoke
  <1>13. QED BY <1>9, <1>10, <1>11, <1>12

LEMMA TickInv ==
  ASSUME Inv, Tick
  PROVE  Inv'
  <1> USE DEF Inv
  <1>1. /\ \A f \in Fetch : fetch[f] \in FetchType /\ fetch[f].tok \in TokenType
        /\ \A c \in Call : call[c] \in CallType /\ call[c].tok \in TokenType
                           /\ call[c].travel \in 0..Latency
    BY DEF TypeOK, FetchType, CallType
  <1>2. \A f \in Fetch : fetch'[f] = [fetch[f] EXCEPT !.tok = Aged(fetch[f].tok)]
    BY DEF Tick
  <1>3. ASSUME NEW f \in Fetch
        PROVE  /\ fetch'[f] \in FetchType /\ fetch'[f].pc = fetch[f].pc
               /\ fetch'[f].tok = Aged(fetch[f].tok)
    <2>1. Aged(fetch[f].tok) \in TokenType
      BY <1>1, Tokens
    <2>2. fetch'[f] = [fetch[f] EXCEPT !.tok = Aged(fetch[f].tok)] /\ fetch[f] \in FetchType
      BY <1>1, <1>2
    <2>3. QED BY <2>1, <2>2 DEF FetchType
  <1>4. \A c \in Call :
          call'[c] = IF InFlight(c)
                     THEN [call[c] EXCEPT !.tok = Aged(call[c].tok),
                                          !.travel = call[c].travel + 1]
                     ELSE call[c]
    BY DEF Tick
  <1>5. \A c \in Call : InFlight(c) => call[c].travel + 1 \in 0..Latency
    <2>1. \A c \in Call : InFlight(c) => call[c].travel < Latency
      BY DEF Tick
    <2>2. QED BY <1>1, <2>1, TokenAssumption
  <1>6. \A c \in Call : /\ call'[c] \in CallType /\ call'[c].pc = call[c].pc
                        /\ ~InFlight(c) => call'[c] = call[c]
                        /\ InFlight(c) => /\ call'[c].tok = Aged(call[c].tok)
                                          /\ call'[c].travel = call[c].travel + 1
    <2>1. ASSUME NEW c \in Call, InFlight(c)
          PROVE  /\ call'[c] \in CallType /\ call'[c].pc = call[c].pc
                 /\ call'[c].tok = Aged(call[c].tok)
                 /\ call'[c].travel = call[c].travel + 1
      BY <1>1, <1>4, <1>5, <2>1, Tokens DEF CallType
    <2>2. QED BY <1>1, <1>4, <2>1
  <1>7. fetch' \in [Fetch -> FetchType] /\ call' \in [Call -> CallType]
    BY <1>3, <1>6 DEF Tick
  <1>8. \A f \in Fetch : Running(f) <=> Running(f)'
    BY <1>3 DEF Running
  <1>9. Call \subseteq Fetch /\ Get \in Fetch
    BY DEF Fetch
  <1>10. timer' \in {NoTimer} \cup 0..Lifetime /\ (timer = NoTimer <=> timer' = NoTimer)
    <2>1. timer \in {-1} \cup 0..Lifetime /\ timer' = IF timer > 0 THEN timer - 1 ELSE timer
      BY DEF TypeOK, Tick, NoTimer
    <2>2. QED BY <2>1, TokenAssumption DEF NoTimer
  <1>11. TypeOK'
    BY <1>6, <1>7, <1>8, <1>9, <1>10, Tokens DEF TypeOK, Tick
  <1>12. AnsweredFresh'
    <2>1. SUFFICES ASSUME NEW f \in Fetch, fetch[f].pc = "answered"
                   PROVE  Aged(fetch[f].tok).left >= Lifetime - Latency
      BY <1>3 DEF AnsweredFresh
    <2>2. fetch[f].tok.left > Lifetime - Latency
      BY <2>1 DEF Tick
    <2>3. /\ Aged(fetch[f].tok).left >= fetch[f].tok.left - 1
          /\ Aged(fetch[f].tok).left \in Nat /\ fetch[f].tok.left \in Nat
      BY <1>1, Tokens
    <2>4. QED BY <2>2, <2>3, TokenAssumption
  <1>13. SecondFresh'
    <2>1. SUFFICES ASSUME NEW c \in Call, call[c].pc = "second", ~call'[c].tok.revoked
                   PROVE  call'[c].tok.left + call'[c].travel >= Lifetime - Latency
      BY <1>6 DEF SecondFresh
    <2>2. /\ call'[c].tok = Aged(call[c].tok) /\ call'[c].travel = call[c].travel + 1
      BY <1>6, <2>1 DEF InFlight
    <2>3. call[c].tok.left + call[c].travel >= Lifetime - Latency
      BY <1>1, <2>1, <2>2, Tokens DEF SecondFresh
    <2>4. /\ call'[c].tok.left >= call[c].tok.left - 1
          /\ call'[c].tok.left \in Nat /\ call[c].tok.left \in Nat
      BY <1>1, <2>2, Tokens
    <2>5. QED BY <1>1, <2>2, <2>3, <2>4, TokenAssumption
  <1>14. RefusedTwiceOnlyIfRevoked'
    BY <1>6 DEF RefusedTwiceOnlyIfRevoked, InFlight
  <1>15. RefreshGoesOn' /\ IdleStays'
    BY <1>6, <1>8, <1>10 DEF RefreshGoesOn, IdleStays, Tick
  <1>16. QED BY <1>11, <1>12, <1>13, <1>14, <1>15

-----------------------------------------------------------------------------

LEMMA NextInv == Inv /\ [Next]_vars => Inv'
  <1>1. SUFFICES ASSUME Inv, [Next]_vars PROVE Inv'
    OBVIOUS
  <1>2. ASSUME NEW f \in Fetch, fetchToken(f) PROVE Inv'
    BY <1>1, <1>2, IssueInv, OkInv, FailInv, AgainInv DEF fetchToken
  <1>3. ASSUME NEW r \in Refresh, timer_fires(r) PROVE Inv'
    BY <1>1, <1>3, TimerInv
  <1>4. CASE mount \/ refresh \/ unmount
    BY <1>1, <1>4, MountInv, UnmountInv
  <1>5. CASE revoke \/ Tick
    BY <1>1, <1>5, RevokeInv, TickInv
  <1>6. ASSUME NEW c \in Call, callApi(c) \/ response(c) PROVE Inv'
    BY <1>1, <1>6, CallInv, RespondInv, Respond401Inv, Respond401AgainInv DEF response
  <1>7. CASE UNCHANGED vars
    BY <1>1, <1>7 DEF vars, Inv, TypeOK, AnsweredFresh, SecondFresh, RefreshGoesOn,
                      RefusedTwiceOnlyIfRevoked, IdleStays, Running
  <1>8. QED BY <1>1, <1>2, <1>3, <1>4, <1>5, <1>6, <1>7 DEF Next

LEMMA Invariance == Spec => []Inv
  BY InitInv, NextInv, PTL DEF Spec

\* Every variable of TokenProvider keeps its type, and a fetch that a call started
\* after a 401 runs exactly as long as the call waits for it.
THEOREM TypeCorrect == Spec => []TypeOK
  <1>1. Inv => TypeOK
    BY DEF Inv
  <1>2. QED BY <1>1, Invariance, PTL

\* Whatever the order of answers, failures, 401s and timers, a mounted provider
\* without an error has a timer armed or a fetch running: each answer is still
\* young enough to arm the timer again.
THEOREM RefreshGoesOnForever == Spec => []RefreshNeverStops
  <1>1. Inv => RefreshNeverStops
    BY DEF Inv, RefreshGoesOn, RefreshNeverStops
  <1>2. QED BY <1>1, Invariance, PTL

\* A call is refused a second time only for a token the server has revoked: the
\* token of the retry was fetched for it and reaches the server before it expires.
THEOREM OneRetrySuffices == Spec => []RefusedTwiceOnlyIfRevoked
  <1>1. Inv => RefusedTwiceOnlyIfRevoked
    BY DEF Inv
  <1>2. QED BY <1>1, Invariance, PTL

\* A provider that was idle when it unmounted starts nothing afterwards.
THEOREM UnmountStopsIdle == Spec => []IdleProviderStops
  <1>1. Inv => IdleProviderStops
    BY DEF Inv, IdleStays, IdleProviderStops
  <1>2. QED BY <1>1, Invariance, PTL
=============================================================================
