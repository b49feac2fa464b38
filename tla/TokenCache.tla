------------------------------ MODULE TokenCache ------------------------------
(***************************************************************************)
(* QQOfficialAuthClient: the access token shared by the workers' sender    *)
(* and the Gateway client.  Callers are asyncio tasks, so what a caller    *)
(* does between two awaits (the lock, the HTTP request) is one action.     *)
(*                                                                         *)
(*   idle      before fetch_access_token                                   *)
(*   waiting   for the lock                                                *)
(*   asking    the token request is out                                    *)
(*   answered  QQ has issued a token, the response is on its way           *)
(*   using     fetch_access_token has returned, the QQ call is out         *)
(*                                                                         *)
(* Tokens are numbered in the order QQ issues them.                        *)
(***************************************************************************)
EXTENDS Integers

CONSTANTS
    Callers,
    Lifetime, \* expires_in
    Safety,   \* expiry_safety_seconds
    Latency,  \* bound kept by the HTTP timeout: ticks a response may take
    MaxTokens, MaxTime, \* bounds
    Faults    \* subset of {"request", "revoke", "cancel"}

ASSUME TokenAssumption ==
    /\ Safety \in Nat /\ Latency \in Nat /\ Lifetime \in Nat
    \* A token lives longer than its response travels, and the response
    \* travels no longer than the safety margin.
    /\ Latency <= Safety /\ Latency < Lifetime
    /\ MaxTokens \in Nat /\ MaxTime \in Nat

VARIABLES
    state,     \* [Callers -> Steps]
    token,     \* [Callers -> token the caller was answered or returned]
    holder,    \* the callers inside "async with self._lock"
    cached,    \* _cached_token, 0 for None
    expiresAt, \* _cached_token_expires_at
    issuedAt,  \* external: when QQ issued each token
    count,     \* external: tokens issued
    revoked,   \* external: tokens QQ gave up before their time
    rejected,  \* history: tokens a sender has seen refused with 401
    now

cacheVars == <<cached, expiresAt>>
qqVars == <<issuedAt, count, revoked>>
vars == <<state, token, holder, cacheVars, qqVars, rejected, now>>

Steps == {"idle", "waiting", "asking", "answered", "using"}
Tokens == 1..MaxTokens

Init ==
    /\ state = [c \in Callers |-> "idle"]
    /\ token = [c \in Callers |-> 0]
    /\ holder = {}
    /\ cached = 0
    /\ expiresAt = 0
    /\ issuedAt = [t \in Tokens |-> 0]
    /\ count = 0
    /\ revoked = {}
    /\ rejected = {}
    /\ now = 0

Set(c, step, t) ==
    /\ state' = [state EXCEPT ![c] = step]
    /\ token' = [token EXCEPT ![c] = t]

IsCachedTokenFresh == cached # 0 /\ now < expiresAt

\* The check before the lock.
FetchCached(c) ==
    /\ state[c] = "idle"
    /\ IsCachedTokenFresh
    /\ Set(c, "using", cached)
    /\ UNCHANGED <<holder, cacheVars, qqVars, rejected, now>>

FetchWaits(c) ==
    /\ state[c] = "idle"
    /\ ~IsCachedTokenFresh
    /\ Set(c, "waiting", 0)
    /\ UNCHANGED <<holder, cacheVars, qqVars, rejected, now>>

\* Mutant: no second check under the lock.
EnterUnchecked(c) ==
    /\ state[c] = "waiting"
    /\ holder = {}
    /\ holder' = {c}
    /\ Set(c, "asking", 0)
    /\ UNCHANGED <<cacheVars, qqVars, rejected, now>>

\* The lock is free: check again, and ask QQ only if nobody did meanwhile.
Enter(c) ==
    /\ state[c] = "waiting"
    /\ holder = {}
    /\ IF IsCachedTokenFresh
         THEN Set(c, "using", cached) /\ UNCHANGED holder
         ELSE Set(c, "asking", 0) /\ holder' = {c}
    /\ UNCHANGED <<cacheVars, qqVars, rejected, now>>

\* External: QQ issues a token.
Issue(c) ==
    /\ state[c] = "asking"
    /\ count < MaxTokens
    /\ count' = count + 1
    /\ issuedAt' = [issuedAt EXCEPT ![count + 1] = now]
    /\ Set(c, "answered", count + 1)
    /\ UNCHANGED <<holder, cacheVars, revoked, rejected, now>>

\* Mutant: the safety margin is not subtracted.
StoreWithoutMargin(c) ==
    /\ state[c] = "answered"
    /\ cached' = token[c]
    /\ expiresAt' = now + Lifetime
    /\ holder' = holder \ {c}
    /\ Set(c, "using", token[c])
    /\ UNCHANGED <<qqVars, rejected, now>>

\* The response arrived; its lifetime is counted from now, not from the issue.
Store(c) ==
    /\ state[c] = "answered"
    /\ cached' = token[c]
    /\ expiresAt' = now + Lifetime - Safety
    /\ holder' = holder \ {c}
    /\ Set(c, "using", token[c])
    /\ UNCHANGED <<qqVars, rejected, now>>

\* Mutant: the failed request keeps the lock.
RequestFailsLocked(c) ==
    /\ "request" \in Faults
    /\ state[c] \in {"asking", "answered"}
    /\ Set(c, "idle", 0)
    /\ UNCHANGED <<holder, cacheVars, qqVars, rejected, now>>

\* The request or its response failed: the lock is released, nothing is cached.
RequestFails(c) ==
    /\ "request" \in Faults
    /\ state[c] \in {"asking", "answered"}
    /\ holder' = holder \ {c}
    /\ Set(c, "idle", 0)
    /\ UNCHANGED <<cacheVars, qqVars, rejected, now>>

\* The task is cancelled at an await of fetch_access_token.
Cancel(c) ==
    /\ "cancel" \in Faults
    /\ state[c] \in {"waiting", "asking", "answered"}
    /\ holder' = holder \ {c}
    /\ Set(c, "idle", 0)
    /\ UNCHANGED <<cacheVars, qqVars, rejected, now>>

Honoured(t) == t \notin revoked /\ now < issuedAt[t] + Lifetime

\* The QQ call went through, or its failure did not reach invalidate(): the
\* Gateway client, which asks for /gateway/bot with the same token, never does.
Accepted(c) ==
    /\ state[c] = "using"
    /\ Set(c, "idle", 0)
    /\ UNCHANGED <<holder, cacheVars, qqVars, rejected, now>>

\* Mutant: a 401 does not touch the cache.
RejectedKept(c) ==
    /\ state[c] = "using"
    /\ ~Honoured(token[c])
    /\ rejected' = rejected \cup {token[c]}
    /\ Set(c, "idle", 0)
    /\ UNCHANGED <<holder, cacheVars, qqVars, now>>

\* The sender's POST was answered 401: invalidate(), whatever is cached by now.
Rejected(c) ==
    /\ state[c] = "using"
    /\ ~Honoured(token[c])
    /\ rejected' = rejected \cup {token[c]}
    /\ cached' = 0
    /\ expiresAt' = 0
    /\ Set(c, "idle", 0)
    /\ UNCHANGED <<holder, qqVars, now>>

\* External: QQ gives up a token before its time.
Revoke(t) ==
    /\ "revoke" \in Faults
    /\ t <= count
    /\ t \notin revoked
    /\ revoked' = revoked \cup {t}
    /\ UNCHANGED <<state, token, holder, cacheVars, issuedAt, count, rejected, now>>

\* Time passes, but no response takes longer than the timeout allows.
Tick ==
    /\ now < MaxTime
    /\ \A c \in Callers : state[c] = "answered" => now < issuedAt[token[c]] + Latency
    /\ now' = now + 1
    /\ UNCHANGED <<state, token, holder, cacheVars, qqVars, rejected>>

Fetch(c) ==
    \/ FetchCached(c) \/ FetchWaits(c) \/ Enter(c) \/ Issue(c) \/ Store(c)
    \/ RequestFails(c)
Call(c) == Accepted(c) \/ Rejected(c)

Next ==
    \/ \E c \in Callers : Fetch(c) \/ Call(c) \/ Cancel(c)
    \/ \E t \in Tokens : Revoke(t)
    \/ Tick

Spec == Init /\ [][Next]_vars

\* A task that can run runs, and asyncio.Lock wakes its waiters in turn, so a
\* waiter that finds the lock free again and again gets it.
FairSpec ==
    /\ Spec
    /\ \A c \in Callers : WF_vars(FetchCached(c) \/ FetchWaits(c) \/ Issue(c)
                                    \/ Store(c) \/ RequestFails(c))
    /\ \A c \in Callers : SF_vars(Enter(c))

-------------------------------------------------------------------------------
\* The cache is well formed, and who was answered holds a token, never None.
TokenTypeOK ==
    /\ state \in [Callers -> Steps]
    /\ token \in [Callers -> 0..MaxTokens]
    /\ \A c \in Callers : state[c] \in {"answered", "using"} => token[c] \in Tokens
    /\ holder \subseteq Callers
    /\ cached \in 0..MaxTokens
    /\ expiresAt \in Int
    /\ issuedAt \in [Tokens -> 0..MaxTime]
    /\ count \in 0..MaxTokens
    /\ revoked \subseteq Tokens
    /\ rejected \subseteq Tokens
    /\ now \in 0..MaxTime

\* "avoid a duplicate token request under concurrent callers": one request at
\* a time, made by the holder of the lock, and none by a caller that waited while
\* another one got a token that is fresh still.
OneRequest ==
    /\ \A c \in Callers : state[c] \in {"asking", "answered"} <=> c \in holder
    /\ \A c, d \in holder : c = d
    /\ holder # {} => ~IsCachedTokenFresh

\* "we never use a token in the last few seconds of its declared lifetime":
\* what the cache returns is a token QQ still has to honour for the margin,
\* less the time its response took.
ReturnsLiveTokens ==
    [][\A c \in Callers :
          state[c] # "using" /\ state'[c] = "using" =>
            \/ state[c] = "answered"
            \/ now < issuedAt[token'[c]] + Lifetime - (Safety - Latency)]_vars

\* "drop the cached token so the next call forces a refresh": a token that was
\* refused is returned to nobody again.
RefusedIsNotReused ==
    [][\A c \in Callers :
          state[c] # "using" /\ state'[c] = "using" => token'[c] \notin rejected]_vars

\* A caller that waits for the lock gets it: no failed or cancelled request
\* keeps the others out.
WaitersServed ==
    \A c \in Callers : state[c] = "waiting" ~> state[c] # "waiting"
===============================================================================
