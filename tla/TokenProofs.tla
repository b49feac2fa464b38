------------------------------ MODULE TokenProofs ------------------------------
(***************************************************************************)
(* Proofs about the access token cache, for any number of callers and any  *)
(* token lifetime, safety margin and latency.                              *)
(***************************************************************************)
EXTENDS TokenCache, TLAPS

\* What the cache knows of QQ's tokens: who was answered holds the newest one,
\* which is neither cached, nor used, nor refused yet; the cached one was never
\* refused and expires here before it does at QQ.
Newest ==
    /\ \A c \in Callers : state[c] = "answered" =>
         /\ token[c] = count
         /\ cached < count
         /\ now <= issuedAt[count] + Latency
         /\ \A d \in Callers : state[d] = "using" => token[d] < count
         /\ \A t \in rejected : t < count
    /\ \A c \in Callers : state[c] = "using" => token[c] <= count
    /\ \A t \in rejected : t <= count
    /\ cached <= count
    /\ cached \notin rejected
    /\ cached # 0 => expiresAt <= issuedAt[cached] + Lifetime - (Safety - Latency)

TokenInv == TokenTypeOK /\ OneRequest /\ Newest

\* Before the first call the cache is empty.
LEMMA InitToken == Init => TokenInv
  BY TokenAssumption
     DEF Init, TokenInv, TokenTypeOK, OneRequest, Newest, Steps, Tokens

\* A caller's step to a known place, with a token where one is due, is well formed.
LEMMA SetType ==
    ASSUME TokenTypeOK, NEW c \in Callers, NEW step \in Steps, NEW t \in 0..MaxTokens,
           step \in {"answered", "using"} => t \in Tokens, Set(c, step, t)
    PROVE  /\ state' \in [Callers -> Steps]
           /\ token' \in [Callers -> 0..MaxTokens]
           /\ \A d \in Callers : state'[d] \in {"answered", "using"} => token'[d] \in Tokens
  BY DEF Set, TokenTypeOK

\* The actions of one caller keep the invariant.
LEMMA CallerStep ==
    ASSUME TokenInv, NEW c \in Callers, Fetch(c) \/ Call(c) \/ Cancel(c)
    PROVE  TokenInv'
  <1> USE TokenAssumption DEF TokenInv
  <1>1. CASE FetchCached(c)
    <2>1. TokenTypeOK'
      BY <1>1 DEF FetchCached, IsCachedTokenFresh, Set, TokenTypeOK, Steps, Tokens,
                  cacheVars, qqVars
    <2>2. OneRequest'
      BY <1>1 DEF FetchCached, Set, OneRequest, TokenTypeOK,
                  IsCachedTokenFresh, cacheVars
    <2>3. Newest'
      BY <1>1 DEF FetchCached, IsCachedTokenFresh, Set, Newest, TokenTypeOK, Tokens,
                  cacheVars, qqVars
    <2> QED
      BY <2>1, <2>2, <2>3
  <1>2. CASE FetchWaits(c)
    <2>1. TokenTypeOK'
      BY <1>2 DEF FetchWaits, Set, TokenTypeOK, Steps, Tokens, cacheVars, qqVars
    <2>2. OneRequest'
      BY <1>2 DEF FetchWaits, Set, OneRequest, TokenTypeOK,
                  IsCachedTokenFresh, cacheVars
    <2>3. Newest'
      BY <1>2 DEF FetchWaits, Set, Newest, TokenTypeOK, cacheVars, qqVars
    <2> QED
      BY <2>1, <2>2, <2>3
  <1>3. CASE Enter(c)
    <2>1. /\ state' \in [Callers -> Steps]
          /\ token' \in [Callers -> 0..MaxTokens]
          /\ \A d \in Callers : state'[d] \in {"answered", "using"} => token'[d] \in Tokens
          /\ holder' \subseteq Callers
      <3>1. CASE IsCachedTokenFresh
        <4>1. Set(c, "using", cached) /\ holder' = holder
          BY <1>3, <3>1 DEF Enter
        <4>2. cached \in Tokens /\ cached \in 0..MaxTokens /\ "using" \in Steps
          BY <3>1 DEF IsCachedTokenFresh, TokenTypeOK, Tokens, Steps
        <4> QED
          BY <4>1, <4>2, SetType DEF TokenTypeOK
      <3>2. CASE ~IsCachedTokenFresh
        <4>1. Set(c, "asking", 0) /\ holder' = {c}
          BY <1>3, <3>2 DEF Enter
        <4>2. 0 \in 0..MaxTokens /\ "asking" \in Steps
          BY DEF Steps
        <4> QED
          BY <4>1, <4>2, SetType
      <3> QED
        BY <3>1, <3>2
    <2>2. TokenTypeOK'
      BY <1>3, <2>1 DEF Enter, TokenTypeOK, cacheVars, qqVars
    <2>3. OneRequest'
      BY <1>3 DEF Enter, Set, OneRequest, TokenTypeOK,
                  IsCachedTokenFresh, cacheVars
    <2>4. Newest'
      BY <1>3 DEF Enter, IsCachedTokenFresh, Set, Newest, TokenTypeOK, Tokens,
                  cacheVars, qqVars
    <2> QED
      BY <2>2, <2>3, <2>4
  <1>4. CASE Issue(c)
    <2>1. TokenTypeOK'
      BY <1>4 DEF Issue, Set, TokenTypeOK, Steps, Tokens, cacheVars
    <2>2. OneRequest'
      BY <1>4 DEF Issue, Set, OneRequest, TokenTypeOK,
                  IsCachedTokenFresh, cacheVars
    <2>3. \A d \in Callers : state[d] # "answered"
      BY <1>4 DEF Issue, OneRequest
    <2>4. \A d \in Callers : state'[d] = "answered" => d = c
      BY <1>4, <2>3 DEF Issue, Set, TokenTypeOK
    <2>5. token'[c] = count' /\ count' = count + 1 /\ issuedAt'[count'] = now
      BY <1>4 DEF Issue, Set, TokenTypeOK, Tokens
    <2>6. \A d \in Callers : state'[d] = "using" => state[d] = "using" /\ token'[d] = token[d]
      BY <1>4 DEF Issue, Set, TokenTypeOK
    <2>7. cached # 0 => issuedAt'[cached] = issuedAt[cached]
      BY <1>4 DEF Issue, TokenTypeOK, Newest, Tokens
    <2>8. /\ cached \in Nat /\ count \in Nat /\ now \in Nat
          /\ \A d \in Callers : token[d] \in Nat
          /\ rejected \subseteq Nat
          /\ cached' = cached /\ rejected' = rejected /\ expiresAt' = expiresAt /\ now' = now
      BY <1>4 DEF Issue, TokenTypeOK, Tokens, cacheVars
    <2>9. \A d \in Callers : state'[d] = "using" => token'[d] < count'
      BY <2>5, <2>6, <2>8 DEF Newest
    <2>10. /\ cached < count' /\ cached \notin rejected
           /\ \A t \in rejected : t < count'
      <3>1. cached <= count /\ cached \notin rejected
        BY DEF Newest
      <3>2. ASSUME NEW t \in rejected PROVE t <= count /\ t \in Nat
        BY <2>8 DEF Newest
      <3>3. ASSUME NEW t \in rejected PROVE t < count'
        BY <2>5, <2>8, <3>2
      <3>4. cached < count'
        BY <2>5, <2>8, <3>1
      <3> QED
        BY <3>1, <3>3, <3>4
    <2>11. cached # 0 => expiresAt <= issuedAt'[cached] + Lifetime - (Safety - Latency)
      BY <2>7 DEF Newest
    <2>12. now <= issuedAt'[count'] + Latency
      BY <2>5, <2>8
    <2>13. count' \in Nat /\ \A d \in Callers : token'[d] \in Nat
      BY <2>1 DEF TokenTypeOK
    <2>14. Newest'
      BY <2>4, <2>5, <2>8, <2>9, <2>10, <2>11, <2>12, <2>13 DEF Newest
    <2> QED
      BY <2>1, <2>2, <2>14
  <1>5. CASE Store(c)
    <2>1. TokenTypeOK'
      BY <1>5 DEF Store, Set, TokenTypeOK, Steps, Tokens, qqVars
    <2>2. OneRequest'
      BY <1>5 DEF Store, Set, OneRequest, TokenTypeOK
    <2>3. \A d \in Callers : state'[d] # "answered"
      BY <1>5 DEF Store, Set, OneRequest, TokenTypeOK
    <2>4. token[c] = count /\ token[c] \in Tokens /\ now <= issuedAt[count] + Latency
      BY <1>5 DEF Store, Newest, TokenTypeOK
    <2>5. Newest'
      BY <1>5, <2>3, <2>4 DEF Store, Set, Newest, TokenTypeOK, Tokens, qqVars
    <2> QED
      BY <2>1, <2>2, <2>5
  <1>6. CASE RequestFails(c) \/ Cancel(c)
    <2>1. Set(c, "idle", 0) /\ 0 \in 0..MaxTokens /\ "idle" \in Steps
      BY <1>6 DEF RequestFails, Cancel, Steps
    <2>2. TokenTypeOK'
      BY <1>6, <2>1, SetType DEF RequestFails, Cancel, TokenTypeOK, cacheVars, qqVars
    <2>3. OneRequest'
      BY <1>6 DEF RequestFails, Cancel, Set, OneRequest, TokenTypeOK,
                  IsCachedTokenFresh, cacheVars
    <2>4. Newest'
      BY <1>6 DEF RequestFails, Cancel, Set, Newest, TokenTypeOK, cacheVars, qqVars
    <2> QED
      BY <2>2, <2>3, <2>4
  <1>7. CASE Accepted(c)
    <2>1. TokenTypeOK'
      BY <1>7 DEF Accepted, Set, TokenTypeOK, Steps, Tokens, cacheVars, qqVars
    <2>2. OneRequest'
      BY <1>7 DEF Accepted, Set, OneRequest, TokenTypeOK,
                  IsCachedTokenFresh, cacheVars
    <2>3. Newest'
      BY <1>7 DEF Accepted, Set, Newest, TokenTypeOK, cacheVars, qqVars
    <2> QED
      BY <2>1, <2>2, <2>3
  <1>8. CASE Rejected(c)
    <2>1. Set(c, "idle", 0) /\ 0 \in 0..MaxTokens /\ "idle" \in Steps
      BY <1>8 DEF Rejected, Steps
    <2>2. token[c] \in Tokens
      BY <1>8 DEF Rejected, TokenTypeOK
    <2>3. TokenTypeOK'
      BY <1>8, <2>1, <2>2, SetType DEF Rejected, TokenTypeOK, qqVars
    <2>4. OneRequest'
      BY <1>8 DEF Rejected, Set, OneRequest, TokenTypeOK, IsCachedTokenFresh
    <2>5. Newest'
      BY <1>8 DEF Rejected, Set, Newest, TokenTypeOK, Tokens, qqVars
    <2> QED
      BY <2>3, <2>4, <2>5
  <1> QED
    BY <1>1, <1>2, <1>3, <1>4, <1>5, <1>6, <1>7, <1>8 DEF Fetch, Call

\* So do QQ, the clock, and a step that changes nothing.
LEMMA WorldStep ==
    ASSUME TokenInv, (\E t \in Tokens : Revoke(t)) \/ Tick \/ UNCHANGED vars
    PROVE  TokenInv'
  <1> USE TokenAssumption DEF TokenInv
  <1>1. CASE \E t \in Tokens : Revoke(t)
    BY <1>1 DEF Revoke, TokenTypeOK, OneRequest, Newest, IsCachedTokenFresh, cacheVars
  <1>2. CASE Tick
    <2>1. TokenTypeOK' /\ OneRequest'
      BY <1>2 DEF Tick, TokenTypeOK, OneRequest, IsCachedTokenFresh, cacheVars, qqVars
    <2>2. Newest'
      BY <1>2 DEF Tick, Newest, TokenTypeOK, Tokens, cacheVars, qqVars
    <2> QED
      BY <2>1, <2>2
  <1>3. CASE UNCHANGED vars
    BY <1>3 DEF vars, cacheVars, qqVars, TokenTypeOK, OneRequest, Newest,
                IsCachedTokenFresh
  <1> QED
    BY <1>1, <1>2, <1>3

\* The invariant is inductive.
LEMMA TokenStep == TokenInv /\ [Next]_vars => TokenInv'
  BY CallerStep, WorldStep DEF Next

\* The cache is well formed, and fetch_access_token never returns None.
THEOREM TokenTypeCorrect == Spec => []TokenTypeOK
  <1>1. TokenInv => TokenTypeOK
    BY DEF TokenInv
  <1> QED
    BY InitToken, TokenStep, <1>1, PTL DEF Spec

\* However many callers meet an empty cache, one of them asks QQ, and those who
\* waited for it do not ask again while its token is fresh.
THEOREM SingleFlight == Spec => []OneRequest
  <1>1. TokenInv => OneRequest
    BY DEF TokenInv
  <1> QED
    BY InitToken, TokenStep, <1>1, PTL DEF Spec

\* Where a returned token comes from: the cache, which found it fresh, or the
\* answer of the caller's own request.
LEMMA ReturnedToken ==
    ASSUME TokenInv, [Next]_vars, NEW c \in Callers,
           state[c] # "using", state'[c] = "using"
    PROVE  \/ IsCachedTokenFresh /\ token'[c] = cached
           \/ state[c] = "answered" /\ token'[c] = token[c]
  <1>1. PICK d \in Callers : Fetch(d) \/ Call(d) \/ Cancel(d)
    BY DEF Next, Revoke, Tick, vars
  <1>2. d = c
    BY <1>1 DEF TokenInv, TokenTypeOK, Fetch, Call, FetchCached, FetchWaits, Enter,
                Issue, Store, RequestFails, Cancel, Accepted, Rejected, Set
  <1> QED
    BY <1>1, <1>2 DEF TokenInv, TokenTypeOK, Fetch, Call, FetchCached, FetchWaits,
                Enter, Issue, Store, RequestFails, Cancel, Accepted, Rejected, Set

\* A token out of the cache is one QQ still honours for the margin.
THEOREM LiveTokens == Spec => ReturnsLiveTokens
  <1>1. ASSUME TokenInv, [Next]_vars
        PROVE  [\A c \in Callers :
                  state[c] # "using" /\ state'[c] = "using" =>
                    \/ state[c] = "answered"
                    \/ now < issuedAt[token'[c]] + Lifetime - (Safety - Latency)]_vars
    <2>1. ASSUME NEW c \in Callers, state[c] # "using", state'[c] = "using",
                 state[c] # "answered"
          PROVE  now < issuedAt[token'[c]] + Lifetime - (Safety - Latency)
      <3>1. IsCachedTokenFresh /\ token'[c] = cached
        BY <1>1, <2>1, ReturnedToken
      <3> QED
        BY <1>1, <3>1, TokenAssumption
           DEF IsCachedTokenFresh, TokenInv, TokenTypeOK, Newest, Tokens
    <2> QED
      BY <2>1
  <1> QED
    BY InitToken, TokenStep, <1>1, PTL DEF Spec, ReturnsLiveTokens

\* A token that was answered 401 is returned to nobody after that.
THEOREM RefusedForGood == Spec => RefusedIsNotReused
  <1>1. ASSUME TokenInv, [Next]_vars
        PROVE  [\A c \in Callers :
                  state[c] # "using" /\ state'[c] = "using" => token'[c] \notin rejected]_vars
    <2>1. ASSUME NEW c \in Callers, state[c] # "using", state'[c] = "using"
          PROVE  token'[c] \notin rejected
      <3>1. CASE IsCachedTokenFresh /\ token'[c] = cached
        BY <1>1, <3>1 DEF TokenInv, Newest
      <3>2. CASE state[c] = "answered" /\ token'[c] = token[c]
        BY <1>1, <3>2 DEF TokenInv, TokenTypeOK, Newest, Tokens
      <3> QED
        BY <1>1, <2>1, <3>1, <3>2, ReturnedToken
    <2> QED
      BY <2>1
  <1> QED
    BY InitToken, TokenStep, <1>1, PTL DEF Spec, RefusedIsNotReused
===============================================================================
