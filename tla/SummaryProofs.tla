----------------------------- MODULE SummaryProofs -----------------------------
(***************************************************************************)
(* What holds of SummaryService for every number of retries, window,       *)
(* budget and chunk size: the provider calls stay within their bound and   *)
(* so do their pauses, no text call precedes a refusal for size, which has *)
(* a cause, and the prompts tile the window.                               *)
(***************************************************************************)
EXTENDS SummaryService, SequenceLemmas

CallStates == {"idle", "posting", "sleeping", "answered", "failed"}

CallTypeOK ==
    /\ callState \in CallStates
    /\ attempt \in 0..MaxRetries
    /\ outcomes \in Seq(Outcomes)

\* RetryDiscipline is not inductive: it does not say how many POSTs the
\* attempt stands for, nor what an unfinished call has met so far.
CallIInv ==
    /\ CallTypeOK
    /\ callState = "posting" => Len(outcomes) = attempt
    /\ callState \in {"sleeping", "answered", "failed"} =>
         Len(outcomes) = attempt + 1
    /\ callState = "sleeping" => attempt < MaxRetries
    /\ callState \in {"posting", "sleeping"} =>
         \A i \in 1..Len(outcomes) : outcomes[i] \in Transient
    /\ RetryDiscipline

\* A new call starts with a clean record.
LEMMA StartKeeps == ASSUME StartCall PROVE CallIInv'
BY ProviderAssumption DEF StartCall, CallIInv, CallTypeOK, CallStates, RetryDiscipline

\* Accepting a completion leaves the record of its call alone.
LEMMA ValidatedKeeps ==
    ASSUME CallIInv, NEW i, NEW u, Validated(i, u) PROVE CallIInv'
BY DEF Validated, CallIInv, CallTypeOK, CallStates, RetryDiscipline

\* One POST, answer or pause.
LEMMA CallStepKeeps == ASSUME CallIInv, CallStep PROVE CallIInv'
<1> USE DEF CallIInv, CallTypeOK, CallStates
<1>1. CASE Completes
  <2>1. /\ outcomes' = Append(outcomes, "valid")
        /\ Len(outcomes) = attempt
        /\ \A i \in 1..Len(outcomes) : outcomes[i] \in Transient
    BY <1>1 DEF Completes, Answered
  <2>2. outcomes' \in Seq(Outcomes) /\ Len(outcomes') = attempt + 1
    BY <2>1 DEF Outcomes
  <2>3. \A i \in 1..Len(outcomes') :
          IF i = Len(outcomes') THEN outcomes'[i] = "valid"
          ELSE outcomes'[i] \in Transient
    BY <2>1
  <2> QED BY ProviderAssumption, <1>1, <2>2, <2>3 DEF Completes, RetryDiscipline, Transient, Permanent
<1>2. ASSUME NEW o \in Outcomes, Raises(o) PROVE CallIInv'
  <2>1. /\ outcomes' = Append(outcomes, o)
        /\ Len(outcomes) = attempt
        /\ \A i \in 1..Len(outcomes) : outcomes[i] \in Transient
    BY <1>2 DEF Raises, Answered
  <2>2. outcomes' \in Seq(Outcomes) /\ Len(outcomes') = attempt + 1
    BY <2>1
  <2>3. \A i \in 1..Len(outcomes') :
          IF i = Len(outcomes') THEN outcomes'[i] = o
          ELSE outcomes'[i] \in Transient
    BY <2>1
  <2>4. o # "valid" /\ (o \in Permanent \/ attempt = MaxRetries)
    BY <1>2 DEF Raises, Transient, Permanent, Outcomes
  <2> QED BY ProviderAssumption, <1>2, <2>2, <2>3, <2>4 DEF Raises, RetryDiscipline, Transient, Permanent
<1>3. ASSUME NEW o \in Outcomes, NEW h \in RetryAfters, Retries(o, h) PROVE CallIInv'
  <2>1. /\ outcomes' = Append(outcomes, o)
        /\ Len(outcomes) = attempt
        /\ \A i \in 1..Len(outcomes) : outcomes[i] \in Transient
        /\ o \in Transient
    BY <1>3 DEF Retries, Answered
  <2>2. outcomes' \in Seq(Outcomes) /\ Len(outcomes') = attempt + 1
    BY <2>1
  <2>3. \A i \in 1..Len(outcomes') : outcomes'[i] \in Transient
    BY <2>1
  <2> QED BY ProviderAssumption, <1>3, <2>2, <2>3 DEF Retries, RetryDiscipline, Transient, Permanent
<1>4. CASE Wake
  BY ProviderAssumption, <1>4 DEF Wake, RetryDiscipline
<1> QED BY <1>1, <1>2, <1>3, <1>4 DEF CallStep

LEMMA InitCall == Init => CallIInv
BY ProviderAssumption DEF Init, CallInit, CallIInv, CallTypeOK, CallStates, RetryDiscipline

LEMMA NextCall == CallIInv /\ [Next]_vars => CallIInv'
<1> SUFFICES ASSUME CallIInv, [Next]_vars PROVE CallIInv'
  OBVIOUS
<1>1. CASE UNCHANGED callVars
  BY <1>1 DEF callVars, CallIInv, CallTypeOK, RetryDiscipline
<1>2. CASE StartCall
  BY <1>2, StartKeeps
<1>3. ASSUME NEW i, NEW u, Validated(i, u) PROVE CallIInv'
  BY <1>3, ValidatedKeeps
<1>4. CASE CallStep
  BY <1>4, CallStepKeeps
<1> QED
  BY <1>1, <1>2, <1>3, <1>4
  DEF Next, vars, Query, Describe, Render, Plan, PlaceChunk, HalveChunk, MessageTooLarge, Planned,
      CallNext, TakePayload, TakeMerge, CallFailed, FinishSingle,
      MergeDeterministically, CallMerge

\* A call is retried a bounded number of times and only after a failure that
\* another POST may cure, whatever the server answers.
THEOREM BoundedRetries == Spec => []RetryDiscipline
<1>1. CallIInv => RetryDiscipline
  BY DEF CallIInv
<1> QED BY InitCall, NextCall, <1>1, PTL DEF Spec

-----------------------------------------------------------------------------
\* The back-off.
\* StallBounded is not inductive: a pause is added to the sleeps only when it
\* ends, and then has to leave room for the next, twice as long.
StallInv ==
    /\ slept \in Nat /\ delay \in Nat
    /\ slept < attempt * Minute + PowerOfTwo[attempt]
    /\ delay <= Minute + PowerOfTwo[attempt]

LEMMA RetryDelayBounded ==
    ASSUME CallTypeOK, NEW o, NEW h \in RetryAfters
    PROVE  RetryDelay(o, h) \in Nat /\ RetryDelay(o, h) <= Minute + PowerOfTwo[attempt]
<1>1. PICK b \in Nat : b = PowerOfTwo[attempt]
  BY PowerOfTwoNat DEF CallTypeOK
<1>2. h \in Int
  BY ProviderAssumption
<1> QED
  BY <1>1, <1>2 DEF RetryDelay, Backoff, Minute

\* The next pause fits: the powers up to n add up to less than the next one.
LEMMA StallStep ==
    ASSUME CallIInv, StallInv
    PROVE  /\ slept + delay \in Nat
           /\ slept + delay < (attempt + 1) * Minute + PowerOfTwo[attempt + 1]
           /\ 0 <= Minute + PowerOfTwo[attempt + 1]
<1>1. PICK a \in Nat : a = attempt
  BY DEF CallIInv, CallTypeOK
<1>2. PICK b \in Nat : b = PowerOfTwo[a]
  BY PowerOfTwoNat
<1>3. PowerOfTwo[a + 1] = 2 * b
  <2>1. a + 1 \in Nat /\ a + 1 # 0 /\ (a + 1) - 1 = a
    OBVIOUS
  <2> QED
    BY <1>2, <2>1, PowerOfTwoIs
<1>4. /\ slept \in Nat /\ delay \in Nat
      /\ slept < a * 120 + b /\ delay <= 120 + b
  BY <1>1, <1>2 DEF StallInv, Minute
<1> QED
  BY <1>1, <1>3, <1>4 DEF Minute

LEMMA InitStall == Init => StallInv
BY PowerOfTwoIs DEF Init, CallInit, StallInv, Minute

LEMMA NextStall == CallIInv /\ StallInv /\ [Next]_vars => StallInv'
<1> SUFFICES ASSUME CallIInv, StallInv, [Next]_vars PROVE StallInv'
  OBVIOUS
<1>1. CASE UNCHANGED <<attempt, delay, slept>>
  BY <1>1 DEF StallInv
<1>2. CASE StartCall
  BY <1>2, PowerOfTwoIs DEF StartCall, StallInv, Minute
<1>3. ASSUME NEW o \in Outcomes, NEW h \in RetryAfters, Retries(o, h) PROVE StallInv'
  BY <1>3, RetryDelayBounded DEF Retries, StallInv, CallIInv
<1>4. CASE Wake
  BY <1>4, StallStep DEF Wake, StallInv
<1>5. CASE CallStep
  BY <1>1, <1>3, <1>4, <1>5 DEF CallStep, Completes, Raises
<1>6. ASSUME NEW i, NEW u, Validated(i, u) PROVE UNCHANGED <<attempt, delay, slept>>
  BY <1>6 DEF Validated
<1> QED
  BY <1>1, <1>2, <1>5, <1>6
  DEF Next, vars, callVars, Query, Describe, Render, Plan, PlaceChunk, HalveChunk, MessageTooLarge, Planned,
      CallNext, TakePayload, TakeMerge, CallFailed, FinishSingle,
      MergeDeterministically, CallMerge

\* For any number of retries and any headers: a call sleeps at most a minute per
\* retry on top of its exponential back-off.
THEOREM NoStall == Spec => []StallBounded
<1>1. CallIInv /\ StallInv => StallBounded
  BY StallStep DEF StallBounded
<1> QED
  BY InitCall, NextCall, InitStall, NextStall, <1>1, PTL DEF Spec

-----------------------------------------------------------------------------
Interval == Nat \X Nat

(* The intervals s cover a..b in order; an empty s covers a..a-1. *)
Chain(s, a, b) ==
    /\ Len(s) = 0 => a = b + 1
    /\ Len(s) > 0 => s[1][1] = a /\ s[Len(s)][2] = b
    /\ \A i \in 1..Len(s) : s[i][1] <= s[i][2]
    /\ \A i \in 1..(Len(s) - 1) : s[i + 1][1] = s[i][2] + 1

\* The length of a prompt depends on the window alone.
LEMMA CharsKept == ASSUME UNCHANGED window, NEW f, NEW c PROVE Chars(f, c)' = Chars(f, c)
BY DEF Chars

\* An interval that follows on extends the chain.
LEMMA ChainAppend ==
  ASSUME NEW s \in Seq(Interval), NEW a \in Nat, NEW b \in Nat, Chain(s, a, b),
         NEW c \in Interval, c[1] = b + 1, c[1] <= c[2]
  PROVE  /\ Append(s, c) \in Seq(Interval)
         /\ Chain(Append(s, c), a, c[2])
<1> DEFINE t == Append(s, c)
<1>1. /\ t \in Seq(Interval) /\ Len(t) = Len(s) + 1 /\ t # <<>>
      /\ t[Len(s) + 1] = c
      /\ \A i \in 1..Len(s) : t[i] = s[i]
  BY AppendProperties
<1>2. Len(s) \in Nat
  BY LenProperties
<1> HIDE DEF t
<1>3. \A i \in 1..Len(s) : s[i] \in Interval
  BY ElementOfSeq
<1>4. \A i \in 1..Len(t) : t[i][1] <= t[i][2]
  <2> TAKE i \in 1..Len(t)
  <2>1. CASE i = Len(s) + 1
    BY <2>1, <1>1
  <2>2. CASE i \in 1..Len(s)
    BY <2>2, <1>1 DEF Chain
  <2> QED BY <2>1, <2>2, <1>1, <1>2
<1>5. \A i \in 1..(Len(t) - 1) : t[i + 1][1] = t[i][2] + 1
  <2> TAKE i \in 1..(Len(t) - 1)
  <2>1. CASE i < Len(s)
    <3>1. i \in 1..(Len(s) - 1) /\ t[i] = s[i] /\ t[i + 1] = s[i + 1]
      BY <2>1, <1>1, <1>2
    <3> QED BY <3>1 DEF Chain
  <2>2. CASE i = Len(s)
    BY <2>2, <1>1, <1>2 DEF Chain
  <2> QED BY <2>1, <2>2, <1>1, <1>2
<1>6. t[1][1] = a /\ t[Len(t)][2] = c[2]
  BY <1>1, <1>2 DEF Chain
<1>7. Chain(t, a, c[2])
  BY <1>1, <1>2, <1>4, <1>5, <1>6 DEF Chain
<1> QED BY <1>1, <1>7 DEF t

\* What is left of a chain without its head.
LEMMA ChainTail ==
  ASSUME NEW s \in Seq(Interval), NEW a \in Nat, NEW b \in Nat, Chain(s, a, b), s # <<>>
  PROVE /\ Head(s) \in Interval /\ Head(s)[1] = a /\ a <= Head(s)[2]
        /\ Tail(s) \in Seq(Interval)
        /\ Chain(Tail(s), Head(s)[2] + 1, b)
<1> DEFINE t == Tail(s)
<1>1. /\ t \in Seq(Interval) /\ Len(t) = Len(s) - 1
      /\ \A i \in 1..Len(t) : t[i] = s[i + 1]
  BY HeadTailProperties
<1>2. Len(s) \in Nat /\ Len(s) > 0
  BY EmptySeq, LenProperties
<1>4. Head(s) = s[1] /\ \A i \in 1..Len(s) : s[i] \in Interval
  BY <1>2, ElementOfSeq
<1> HIDE DEF t
<1>5. Chain(t, s[1][2] + 1, b)
  <2>1. \A i \in 1..Len(t) : t[i][1] <= t[i][2]
    BY <1>1, <1>2 DEF Chain
  <2>2. \A i \in 1..(Len(t) - 1) : t[i + 1][1] = t[i][2] + 1
    <3> TAKE i \in 1..(Len(t) - 1)
    <3>1. i + 1 \in 1..(Len(s) - 1) /\ t[i] = s[i + 1] /\ t[i + 1] = s[(i + 1) + 1]
      BY <1>1, <1>2
    <3> QED BY <3>1 DEF Chain
  <2>3. CASE Len(t) = 0
    <3>1. Len(s) = 1 /\ s[1][2] = b
      <4>1. Len(s) = 1
        BY <2>3, <1>1, <1>2
      <4>2. s[Len(s)][2] = b
        BY <1>2 DEF Chain
      <4> QED BY <4>1, <4>2
    <3> QED BY <3>1, <2>1, <2>2, <2>3 DEF Chain
  <2>4. CASE Len(t) > 0
    <3>1. t[1][1] = s[1][2] + 1 /\ t[Len(t)][2] = b
      BY <2>4, <1>1, <1>2 DEF Chain
    <3> QED BY <3>1, <2>1, <2>2, <2>4 DEF Chain
  <2> QED BY <2>3, <2>4, <1>1, <1>2
<1> QED BY <1>1, <1>2, <1>4, <1>5 DEF Chain, t

\* No interval of a chain reaches beyond its end.
LEMMA ChainWithin ==
  ASSUME NEW s \in Seq(Interval), NEW a \in Nat, NEW b \in Nat, Chain(s, a, b),
         NEW i \in 1..Len(s)
  PROVE  s[i][2] <= b
<1>1. Len(s) \in Nat /\ \A k \in 1..Len(s) : s[k] \in Interval
  BY LenProperties, ElementOfSeq
<1> DEFINE Bad == {l \in Nat : Len(s) - l \in 1..Len(s) /\ ~(s[Len(s) - l][2] <= b)}
<1>2. SUFFICES ASSUME ~(s[i][2] <= b) PROVE FALSE
  OBVIOUS
<1>3. Len(s) - i \in Bad
  <2>1. Len(s) - i \in Nat /\ Len(s) - (Len(s) - i) = i
    BY <1>1
  <2> QED BY <1>2, <2>1
<1>4. PICK l \in Bad : \A k \in Bad : l <= k
  <2>1. Bad \subseteq Nat
    OBVIOUS
  <2> HIDE DEF Bad
  <2> QED BY <1>3, <2>1, LeastElement
<1>5. PICK j \in 1..Len(s) : j = Len(s) - l /\ l \in Nat /\ ~(s[j][2] <= b)
  OBVIOUS
<1>6. j # Len(s)
  BY <1>1, <1>5 DEF Chain
<1>7. j + 1 \in 1..Len(s) /\ j \in 1..(Len(s) - 1) /\ l - 1 \in Nat /\ Len(s) - (l - 1) = j + 1
  BY <1>1, <1>5, <1>6
<1>8. s[j + 1][2] <= b
  <2>1. ~(l <= l - 1)
    BY <1>5
  <2>2. l - 1 \notin Bad
    BY <1>4, <2>1
  <2> QED BY <1>7, <2>2
<1>9. s[j + 1][1] = s[j][2] + 1 /\ s[j + 1][1] <= s[j + 1][2]
  BY <1>7 DEF Chain
<1>10. /\ s[j][2] \in Nat /\ s[j + 1][1] \in Nat /\ s[j + 1][2] \in Nat
  BY <1>1, <1>7 DEF Interval
<1>11. PICK p \in Nat, q \in Nat, t \in Nat : p = s[j][2] /\ q = s[j + 1][1] /\ t = s[j + 1][2]
  BY <1>10
<1>12. ~(p <= b) /\ t <= b /\ q = p + 1 /\ q <= t
  BY <1>5, <1>8, <1>9, <1>11
<1> QED BY <1>12

\* Two intervals that lead up to a chain extend it at the front.
LEMMA ChainPush ==
  ASSUME NEW s \in Seq(Interval), NEW a \in Nat, NEW b \in Nat,
         NEW x \in Interval, NEW y \in Interval,
         x[1] = a, x[1] <= x[2], y[1] = x[2] + 1, y[1] <= y[2],
         Chain(s, y[2] + 1, b)
  PROVE /\ <<x, y>> \o s \in Seq(Interval)
        /\ Chain(<<x, y>> \o s, a, b)
<1> DEFINE p == <<x, y>>
           t == p \o s
<1>1. /\ p \in Seq(Interval) /\ Len(p) = 2 /\ p[1] = x /\ p[2] = y
  OBVIOUS
<1>2. Len(s) \in Nat
  BY LenProperties
<1> HIDE DEF p
<1>3. /\ t \in Seq(Interval) /\ Len(t) = Len(s) + 2
      /\ \A i \in 1..Len(t) : t[i] = IF i <= 2 THEN p[i] ELSE s[i - 2]
  <2>1. /\ t \in Seq(Interval) /\ Len(t) = Len(p) + Len(s)
        /\ \A i \in 1..Len(p) + Len(s) :
             t[i] = IF i <= Len(p) THEN p[i] ELSE s[i - Len(p)]
    BY <1>1, ConcatProperties
  <2> QED BY <2>1, <1>1, <1>2
<1> HIDE DEF t
<1>5. \A i \in 1..Len(s) : s[i] \in Interval /\ t[i + 2] = s[i]
  BY <1>2, <1>3, ElementOfSeq
<1>6. t[1] = x /\ t[2] = y
  BY <1>1, <1>2, <1>3
<1>7. t[1][1] = a /\ t[Len(t)][2] = b
  <2>1. CASE Len(s) = 0
    BY <2>1, <1>3, <1>6 DEF Chain, Interval
  <2>2. CASE Len(s) > 0
    <3>1. t[Len(t)] = s[Len(s)]
      BY <2>2, <1>2, <1>3, <1>5
    <3> QED BY <3>1, <2>2, <1>6 DEF Chain
  <2> QED BY <2>1, <2>2, <1>2
<1>8. \A i \in 1..Len(t) : t[i][1] <= t[i][2]
  <2> TAKE i \in 1..Len(t)
  <2>1. CASE i <= 2
    BY <2>1, <1>6
  <2>2. CASE i > 2
    <3>1. i - 2 \in 1..Len(s) /\ t[i] = s[i - 2]
      BY <2>2, <1>2, <1>3
    <3> QED BY <3>1 DEF Chain
  <2> QED BY <2>1, <2>2, <1>2, <1>3
<1>9. \A i \in 1..(Len(t) - 1) : t[i + 1][1] = t[i][2] + 1
  <2> TAKE i \in 1..(Len(t) - 1)
  <2>1. CASE i = 1 BY <2>1, <1>6
  <2>2. CASE i = 2
    <3>1. Len(s) > 0 /\ t[3] = s[1]
      BY <2>2, <1>2, <1>3, <1>5
    <3> QED BY <3>1, <2>2, <1>6 DEF Chain
  <2>3. CASE i > 2
    <3>1. /\ i - 2 \in 1..(Len(s) - 1) /\ i \in 1..Len(t) /\ i + 1 \in 1..Len(t)
          /\ (i + 1) - 2 = (i - 2) + 1 /\ ~(i <= 2) /\ ~(i + 1 <= 2)
      BY <2>3, <1>2, <1>3
    <3>2. t[i] = s[i - 2] /\ t[i + 1] = s[(i - 2) + 1]
      BY <1>3, <3>1
    <3> QED BY <3>1, <3>2 DEF Chain
  <2> QED BY <2>1, <2>2, <2>3, <1>2, <1>3
<1>10. Chain(t, a, b)
  BY <1>2, <1>3, <1>7, <1>8, <1>9 DEF Chain
<1> QED BY <1>3, <1>10 DEF t, p

\* _split_messages cuts a window into consecutive chunks.
LEMMA ChainSplit ==
  ASSUME NEW n \in Nat, n > 0
  PROVE SplitMessages(n) \in Seq(Interval) /\ Chain(SplitMessages(n), 1, n)
<1> DEFINE C == ChunkMessages
           K == (n + C - 1) \div C
           s == SplitMessages(n)
<1>1. C \in Nat /\ C > 0
  BY SummaryAssumption
<1> HIDE DEF C
<1>2. K \in Nat /\ K * C <= n + C - 1 /\ n + C - 1 < (K + 1) * C
  BY <1>1
<1> HIDE DEF K
<1>3. K > 0
  BY <1>1, <1>2
<1>4. \A k \in 1..K : (k - 1) * C < n /\ k * C = (k - 1) * C + C /\ (k - 1) * C \in Nat
  <2> TAKE k \in 1..K
  <2>1. k * C <= K * C BY <1>1, <1>2
  <2>2. k * C = (k - 1) * C + C BY <1>1, <1>2
  <2>3. (k - 1) * C \in Nat BY <1>1, <1>2
  <2>4. k * C \in Nat /\ K * C \in Nat BY <1>1, <1>2
  <2> QED BY <1>1, <1>2, <2>1, <2>2, <2>3, <2>4
<1>5. \A k \in 1..(K - 1) : k * C < n
  <2> TAKE k \in 1..(K - 1)
  <2>1. k + 1 \in 1..K /\ (k + 1) - 1 = k BY <1>2, <1>3
  <2> QED BY <2>1, <1>4
<1>6. K * C >= n /\ K * C \in Nat
  <2>1. (K + 1) * C = K * C + C BY <1>1, <1>2
  <2>2. K * C \in Nat BY <1>1, <1>2
  <2> QED BY <2>1, <2>2, <1>1, <1>2
<1>7. s = [k \in 1..K |-> <<(k - 1) * C + 1, IF k * C > n THEN n ELSE k * C>>]
  BY DEF SplitMessages, C, K
<1> HIDE DEF s
<1>8. \A k \in 1..K : s[k] \in Interval /\ s[k][1] = (k - 1) * C + 1
                      /\ s[k][2] = (IF k * C > n THEN n ELSE k * C)
  BY <1>1, <1>4, <1>7 DEF Interval
<1>9. s \in Seq(Interval) /\ Len(s) = K
  <2>1. s \in [1..K -> Interval]
    BY <1>7, <1>8
  <2>2. s \in Seq(Interval) /\ Len(s) = K
    BY <2>1, <1>2
  <2> QED BY <2>2
<1>10. s[1][1] = 1 /\ s[Len(s)][2] = n
  <2>1. 1 \in 1..K /\ K \in 1..K /\ (1 - 1) * C = 0
    BY <1>1, <1>2, <1>3
  <2>2. s[1][1] = 1
    BY <2>1, <1>8
  <2>3. s[K][2] = n
    <3>1. s[K][2] = IF K * C > n THEN n ELSE K * C
      BY <2>1, <1>8
    <3> QED BY <3>1, <1>6
  <2> QED BY <2>2, <2>3, <1>9
<1>11. \A k \in 1..K : s[k][1] <= s[k][2]
  <2> TAKE k \in 1..K
  <2>1. k * C = (k - 1) * C + C /\ (k - 1) * C < n /\ (k - 1) * C \in Nat
    BY <1>4
  <2> QED BY <2>1, <1>1, <1>8
<1>12. \A k \in 1..(K - 1) : s[k + 1][1] = s[k][2] + 1
  <2> TAKE k \in 1..(K - 1)
  <2>1. k \in 1..K /\ k + 1 \in 1..K /\ (k + 1) - 1 = k
    BY <1>2, <1>3
  <2>2. s[k][2] = k * C
    BY <2>1, <1>4, <1>5, <1>8
  <2>3. s[k + 1][1] = k * C + 1
    BY <2>1, <1>8
  <2> QED BY <2>2, <2>3
<1>13. Chain(s, 1, n)
  BY <1>2, <1>3, <1>9, <1>10, <1>11, <1>12 DEF Chain
<1> QED BY <1>9, <1>13 DEF s

\* What _chunk_prompts has placed and what it still has to place cover the
\* window together, and nothing placed is over the budget.
PlanIInv ==
    /\ window \in Seq(Nat)
    /\ pictures \in Seq(1..Len(window))
    /\ pending \in Seq(Interval)
    /\ prompts \in Seq(Interval)
    /\ phase = "idle" => pictures = <<>>
    /\ phase \in {"idle", "enriching"} => prompts = <<>> /\ pending = <<>>
    /\ phase = "enriching" => Len(window) > 0
    /\ phase = "planning" =>
         \E m \in Nat : Chain(prompts, 1, m) /\ Chain(pending, m + 1, Len(window))
    /\ phase \in {"extracting", "merging"} => Chain(prompts, 1, Len(window))
    /\ phase \in {"planning", "extracting", "merging"} =>
         /\ Len(window) > 0
         /\ \A i \in 1..Len(prompts) : Chars(ChunkFrame, prompts[i]) <= budget

\* Nothing is planned before the query.
LEMMA PlanInit == Init => PlanIInv
BY EmptySeq DEF Init, PlanIInv

\* A step that leaves the plan alone, whatever it does with the calls.
LEMMA PlanUnchanged ==
  ASSUME PlanIInv, UNCHANGED <<window, pictures, pending, prompts, budget>>,
         phase' \notin {"idle", "enriching", "planning"},
         phase' = "extracting" \/ phase' = "merging" => phase \in {"extracting", "merging"}
  PROVE PlanIInv'
BY CharsKept DEF PlanIInv

\* The query takes a window and its pictures,
LEMMA QueryPlans == ASSUME PlanIInv, NEW w \in Windows, Query(w) PROVE PlanIInv'
<1>1. /\ w.chars \in Seq(Nat) /\ Len(w.chars) \in Nat /\ (w.chars # <<>> => Len(w.chars) > 0)
      /\ w.pictures \in Seq(1..Len(w.chars))
  BY SummaryAssumption, EmptySeq, LenProperties
<1>2. /\ window' = w.chars /\ prompts = <<>> /\ pending = <<>>
      /\ UNCHANGED <<prompts, pending>>
      /\ phase' \in {"failed", "done", "enriching"}
  BY DEF Query, Fail, PlanIInv
<1>3. phase' = "enriching" => Len(w.chars) > 0
  BY <1>1 DEF Query, Fail
<1>4. pictures' \in Seq(1..Len(w.chars))
  <2>1. pictures = <<>> \/ phase' = "enriching"
    BY DEF Query, Fail, PlanIInv
  <2>2. CASE pictures' = pictures
    BY <2>1, <2>2, <1>1, EmptySeq DEF Query, Fail
  <2>3. CASE pictures' \in {w.pictures, <<>>}
    BY <2>3, <1>1, EmptySeq
  <2> QED BY <2>2, <2>3 DEF Query
<1> QED BY <1>1, <1>2, <1>3, <1>4 DEF PlanIInv

\* a description gives one message another length,
LEMMA DescribePlans ==
  ASSUME PlanIInv, NEW n \in Described, NEW calls, Describe(n, calls) PROVE PlanIInv'
<1>1. /\ window' = [window EXCEPT ![Head(pictures)] = n] /\ pictures' = Tail(pictures)
      /\ pictures # <<>> /\ phase = "enriching" /\ UNCHANGED <<phase, prompts, pending, budget>>
      /\ n \in Nat
  BY SummaryAssumption DEF Describe
<1>2. window' \in Seq(Nat) /\ Len(window') = Len(window)
  BY <1>1 DEF PlanIInv
<1>3. pictures' \in Seq(1..Len(window'))
  BY <1>1, <1>2, HeadTailProperties DEF PlanIInv
<1> QED BY <1>1, <1>2, <1>3 DEF PlanIInv

\* and the chunks left to be placed are the whole window.
LEMMA RenderPlans == ASSUME PlanIInv, Render PROVE PlanIInv'
<1>1. /\ window \in Seq(Nat) /\ Len(window) \in Nat /\ Len(window) > 0
      /\ prompts = <<>> /\ pending = <<>> /\ <<>> \in Seq(Interval) /\ Len(<<>>) = 0
      /\ UNCHANGED <<window, pictures>>
  BY EmptySeq, LenProperties DEF Render, PlanIInv, pictureVars
<1>3. CASE phase' = "planning"
  <2>1. pending' = SplitMessages(Len(window)) /\ prompts' = <<>>
    BY <1>1, <1>3 DEF Render
  <2>2. pending' \in Seq(Interval) /\ Chain(pending', 1, Len(window))
    BY <1>1, <2>1, ChainSplit
  <2>3. Chain(prompts', 1, 0)
    BY <1>1, <2>1 DEF Chain
  <2> QED BY <1>1, <1>3, <2>1, <2>2, <2>3 DEF PlanIInv
<1>4. CASE phase' = "single"
  <2>1. prompts' = <<<<1, Len(window)>>>> /\ pending' = <<>>
    BY <1>1, <1>4 DEF Render
  <2>2. <<1, Len(window)>> \in Interval
    BY <1>1 DEF Interval
  <2>3. prompts' \in Seq(Interval)
    BY <2>1, <2>2
  <2> QED BY <1>1, <1>4, <2>1, <2>3 DEF PlanIInv
<1> QED BY <1>3, <1>4 DEF Render

\* A chunk that fits moves from what is left to what is placed.
LEMMA PlacePlans == ASSUME PlanIInv, PlaceChunk PROVE PlanIInv'
<1> DEFINE c == Head(pending)
<1>1. /\ phase = "planning" /\ phase' = "planning" /\ pending # <<>>
      /\ Chars(ChunkFrame, c) <= budget
      /\ prompts' = Append(prompts, c) /\ pending' = Tail(pending)
      /\ UNCHANGED <<window, pictures, budget>>
  BY DEF PlaceChunk, Planning, NextFits, Fits, pictureVars
<1>2. PICK m \in Nat : Chain(prompts, 1, m) /\ Chain(pending, m + 1, Len(window))
  BY <1>1 DEF PlanIInv
<1>3. Len(window) \in Nat /\ Len(prompts) \in Nat
  BY LenProperties DEF PlanIInv
<1>4. /\ c \in Interval /\ c[1] = m + 1 /\ m + 1 <= c[2]
      /\ pending' \in Seq(Interval) /\ Chain(pending', c[2] + 1, Len(window))
  BY <1>1, <1>2, <1>3, ChainTail DEF PlanIInv
<1>5. c[1] \in Nat /\ c[2] \in Nat
  BY <1>4 DEF Interval
<1> HIDE DEF c
<1>6. prompts' \in Seq(Interval) /\ Chain(prompts', 1, c[2])
  BY <1>1, <1>2, <1>4, <1>5, ChainAppend DEF PlanIInv
<1>7. \A i \in 1..Len(prompts') :
        PromptChars(window', ChunkFrame, prompts'[i]) <= budget'
  <2>1. /\ Len(prompts') = Len(prompts) + 1 /\ prompts'[Len(prompts) + 1] = c
        /\ \A i \in 1..Len(prompts) : prompts'[i] = prompts[i]
    BY <1>1, <1>4, AppendProperties DEF PlanIInv
  <2> TAKE i \in 1..Len(prompts')
  <2>2. CASE i = Len(prompts) + 1
    BY <2>1, <2>2, <1>1 DEF Chars
  <2>3. CASE i \in 1..Len(prompts)
    BY <2>1, <2>3, <1>1 DEF PlanIInv, Chars
  <2> QED BY <2>1, <2>2, <2>3, <1>3
<1> QED BY <1>1, <1>4, <1>5, <1>6, <1>7 DEF PlanIInv, Chars

\* The halves of a chunk stand where the chunk stood.
LEMMA HalvePlans == ASSUME PlanIInv, HalveChunk PROVE PlanIInv'
<1> DEFINE c == Head(pending)
           h == c[1] + (c[2] - c[1] + 1) \div 2
           x == <<c[1], h - 1>>
           y == <<h, c[2]>>
<1>1. /\ phase = "planning" /\ phase' = "planning" /\ pending # <<>>
      /\ c[1] # c[2]
      /\ pending' = <<x, y>> \o Tail(pending)
      /\ UNCHANGED <<prompts, window, pictures, budget>>
  BY DEF HalveChunk, Planning, SingleMessage, Halves, pictureVars
<1>2. PICK m \in Nat : Chain(prompts, 1, m) /\ Chain(pending, m + 1, Len(window))
  BY <1>1 DEF PlanIInv
<1>3. Len(window) \in Nat
  BY LenProperties DEF PlanIInv
<1>4. /\ c \in Interval /\ c[1] = m + 1 /\ m + 1 <= c[2]
      /\ Tail(pending) \in Seq(Interval) /\ Chain(Tail(pending), c[2] + 1, Len(window))
  BY <1>1, <1>2, <1>3, ChainTail DEF PlanIInv
<1>5. c[1] \in Nat /\ c[2] \in Nat /\ c[1] < c[2]
  BY <1>1, <1>4 DEF Interval
<1> HIDE DEF c
<1>6. h \in Nat /\ c[1] < h /\ h <= c[2]
  BY <1>5
<1> HIDE DEF h
<1>7. x \in Interval /\ y \in Interval
  BY <1>5, <1>6 DEF Interval
<1>8. x[1] = m + 1 /\ x[1] <= x[2] /\ y[1] = x[2] + 1 /\ y[1] <= y[2] /\ y[2] = c[2]
  BY <1>4, <1>5, <1>6
<1> HIDE DEF x, y
<1>9. pending' \in Seq(Interval) /\ Chain(pending', m + 1, Len(window))
  <2>1. Chain(Tail(pending), y[2] + 1, Len(window)) /\ m + 1 \in Nat
    BY <1>4, <1>8
  <2> QED BY <1>1, <1>3, <1>4, <1>7, <1>8, <2>1, ChainPush
<1> QED BY <1>1, <1>2, <1>9, CharsKept DEF PlanIInv

\* When nothing is left, the placed chunks are the window.
LEMMA PlannedPlans == ASSUME PlanIInv, Planned PROVE PlanIInv'
<1>1. /\ phase = "planning" /\ pending = <<>> /\ phase' = "extracting"
      /\ UNCHANGED <<prompts, pending, window, pictures, budget>>
  BY DEF Planned, pictureVars
<1>2. PICK m \in Nat : Chain(prompts, 1, m) /\ Chain(pending, m + 1, Len(window))
  BY <1>1 DEF PlanIInv
<1>3. Len(pending) = 0 /\ Len(window) \in Nat
  BY <1>1, EmptySeq, LenProperties DEF PlanIInv
<1>4. m = Len(window)
  BY <1>2, <1>3 DEF Chain
<1> QED BY <1>1, <1>2, <1>4, CharsKept DEF PlanIInv

\* No action breaks the plan.
LEMMA NextPlans == PlanIInv /\ [Next]_vars => PlanIInv'
<1> SUFFICES ASSUME PlanIInv, [Next]_vars PROVE PlanIInv'
  OBVIOUS
<1>1. ASSUME NEW w \in Windows, Query(w) PROVE PlanIInv'
  BY <1>1, QueryPlans
<1>11. ASSUME NEW n \in Described, NEW calls, Describe(n, calls) PROVE PlanIInv'
  BY <1>11, DescribePlans
<1>12. CASE Render
  BY <1>12, RenderPlans
<1>2. CASE PlaceChunk
  BY <1>2, PlacePlans
<1>3. CASE HalveChunk
  BY <1>3, HalvePlans
<1>4. CASE Planned
  BY <1>4, PlannedPlans
<1>5. CASE MessageTooLarge \/ CallFailed
  BY <1>5, PlanUnchanged DEF MessageTooLarge, CallFailed, Fail, pictureVars
<1>6. CASE UNCHANGED jobVars
  BY <1>6, CharsKept DEF jobVars, pictureVars, PlanIInv
<1>7. ASSUME NEW i, NEW u, TakePayload(i, u) PROVE PlanIInv'
  BY <1>7, CharsKept DEF TakePayload, pictureVars, PlanIInv
<1>8. ASSUME NEW i, NEW u, TakeMerge(i, u) PROVE PlanIInv'
  BY <1>8, PlanUnchanged DEF TakeMerge, Finish, pictureVars
<1>9. CASE FinishSingle \/ MergeDeterministically
  BY <1>9, PlanUnchanged DEF FinishSingle, MergeDeterministically, Finish, pictureVars
<1>10. CASE CallMerge
  BY <1>10, PlanUnchanged DEF CallMerge, Extracted, pictureVars
<1> QED
  BY <1>1, <1>2, <1>3, <1>4, <1>5, <1>6, <1>7, <1>8, <1>9, <1>10, <1>11, <1>12
  DEF Next, vars, Plan, CallNext

\* However a window is cut up, the prompts sent are the window, message by
\* message, and each is within the budget.
THEOREM PromptsTile == Spec => []ChunksTile
<1>1. PlanIInv => ChunksTile
  <2> SUFFICES ASSUME PlanIInv, phase \in {"extracting", "merging"}
               PROVE  /\ Tiles(prompts, Len(window))
                      /\ \A i \in DOMAIN prompts : Chars(ChunkFrame, prompts[i]) <= budget
    BY DEF ChunksTile, Fits
  <2>1. /\ Chain(prompts, 1, Len(window)) /\ Len(window) > 0
        /\ \A i \in 1..Len(prompts) : Chars(ChunkFrame, prompts[i]) <= budget
    BY DEF PlanIInv
  <2>2. Len(prompts) \in Nat /\ DOMAIN prompts = 1..Len(prompts) /\ Len(window) \in Nat
    BY LenProperties DEF PlanIInv
  <2>3. Len(prompts) > 0
    BY <2>1, <2>2 DEF Chain
  <2>4. prompts # <<>>
    BY <2>3, EmptySeq
  <2> QED BY <2>1, <2>2, <2>3, <2>4 DEF Chain, Tiles
<1> QED BY PlanInit, NextPlans, <1>1, PTL DEF Spec

-----------------------------------------------------------------------------
\* No text call is made while the plan may still be refused, none after it
\* was; and what was refused had a message too many or too long.
TooMany == Len(window) > MaxMessages /\ looked = 0
TooLong == \E i \in DOMAIN window : ~Fits(<<i, i>>)

CostIInv ==
    /\ looked \in Nat
    /\ phase = "idle" => looked = 0
    /\ phase \in {"idle", "enriching", "planning"} => callState = "idle" /\ outcomes = <<>>
    /\ failure = "too large" =>
         phase = "failed" /\ callState = "idle" /\ outcomes = <<>> /\ (TooMany \/ TooLong)

LEMMA TooLongKept == ASSUME UNCHANGED <<window, budget>>, TooLong PROVE TooLong'
BY CharsKept DEF TooLong, Fits

\* The chunk that cannot be halved is a message of the window.
LEMMA RefusedForCause == ASSUME PlanIInv, MessageTooLarge PROVE TooLong
<1> DEFINE c == Head(pending)
<1>1. /\ phase = "planning" /\ pending # <<>>
      /\ ~Fits(c) /\ c[1] = c[2]
  BY DEF MessageTooLarge, Planning, NextFits, SingleMessage
<1>2. PICK m \in Nat : Chain(pending, m + 1, Len(window))
  BY <1>1 DEF PlanIInv
<1>3. Len(window) \in Nat /\ DOMAIN window = 1..Len(window)
  BY LenProperties DEF PlanIInv
<1>4. c \in Interval /\ c[1] = m + 1 /\ c = pending[1] /\ 1 \in 1..Len(pending)
  <2>1. c \in Interval /\ c[1] = m + 1
    BY <1>1, <1>2, <1>3, ChainTail DEF PlanIInv
  <2>2. Len(pending) \in Nat /\ Len(pending) > 0
    BY <1>1, EmptySeq, LenProperties DEF PlanIInv
  <2> QED BY <2>1, <2>2
<1>5. c[2] <= Len(window)
  BY <1>2, <1>3, <1>4, ChainWithin DEF PlanIInv
<1>6. c = <<c[1], c[1]>> /\ c[1] \in 1..Len(window)
  BY <1>1, <1>3, <1>4, <1>5 DEF Interval
<1>7. PICK i \in DOMAIN window : c = <<i, i>>
  BY <1>3, <1>6
<1>8. ~Fits(<<i, i>>)
  BY <1>1, <1>7
<1> QED BY <1>8 DEF TooLong

LEMMA NextCost == PlanIInv /\ CostIInv /\ [Next]_vars => CostIInv'
<1> SUFFICES ASSUME PlanIInv, CostIInv, [Next]_vars PROVE CostIInv'
  OBVIOUS
<1>1. ASSUME NEW w \in Windows, Query(w) PROVE CostIInv'
  <2>1. failure' = "too large" => Len(window') > MaxMessages /\ looked = 0 /\ phase' = "failed"
    BY <1>1 DEF Query, Fail, CostIInv
  <2> QED
    BY <1>1, <2>1 DEF Query, Fail, CostIInv, TooMany, callVars
<1>9. ASSUME NEW n \in Described, NEW calls \in {0, 1}, Describe(n, calls) PROVE CostIInv'
  <2>1. /\ phase = "enriching" /\ looked' = looked + calls
        /\ UNCHANGED <<phase, failure, callState, outcomes>>
    BY <1>9 DEF Describe, callVars
  <2>2. looked' \in Nat
    <3>1. calls = 0 \/ calls = 1
      BY <1>9
    <3>2. looked \in Nat
      BY DEF CostIInv
    <3> QED BY <2>1, <3>1, <3>2
  <2> QED BY <2>1, <2>2 DEF CostIInv
<1>10. CASE Render
  BY <1>10 DEF Render, CostIInv, callVars, pictureVars
<1>2. CASE PlaceChunk \/ HalveChunk \/ Planned
  BY <1>2 DEF PlaceChunk, HalveChunk, Planned, Planning, CostIInv, callVars, pictureVars
<1>11. CASE MessageTooLarge
  <2>1. TooLong'
    BY <1>11, RefusedForCause, TooLongKept DEF MessageTooLarge
  <2> QED
    BY <1>11, <2>1 DEF MessageTooLarge, Planning, Fail, CostIInv, callVars, pictureVars
<1>3. CASE CallNext
  BY <1>3 DEF CallNext, Summarizing, StartCall, CostIInv, jobVars, pictureVars
<1>4. CASE CallStep /\ UNCHANGED jobVars
  BY <1>4 DEF CallStep, Completes, Raises, Retries, Answered, Wake, CostIInv, jobVars,
              pictureVars
<1>5. ASSUME NEW i, NEW u, TakePayload(i, u) \/ TakeMerge(i, u) PROVE CostIInv'
  BY <1>5 DEF TakePayload, TakeMerge, Validated, Summarizing, Finish, CostIInv, pictureVars
<1>6. CASE CallFailed
  BY <1>6 DEF CallFailed, Summarizing, Fail, CostIInv, callVars, pictureVars
<1>7. CASE FinishSingle \/ MergeDeterministically \/ CallMerge
  BY <1>7 DEF FinishSingle, MergeDeterministically, CallMerge, Extracted, Finish,
              StartCall, CostIInv, callVars, pictureVars
<1>8. CASE UNCHANGED vars
  BY <1>8, TooLongKept DEF vars, callVars, jobVars, pictureVars, CostIInv, TooMany
<1> QED
  BY <1>1, <1>2, <1>3, <1>4, <1>5, <1>6, <1>7, <1>8, <1>9, <1>10, <1>11 DEF Next, Plan

-----------------------------------------------------------------------------
(***************************************************************************)
(* What the summary says.  A merge without the provider deduplicates the   *)
(* items of all payloads; the folds of the community modules are recursive *)
(* functions, taken apart element by element.                              *)
(***************************************************************************)
OnceMore(seen, x) == IF Contains(seen, x) THEN seen ELSE Append(seen, x)

\* Deduplicated, step by step.
LEMMA DeduplicatedSteps ==
    ASSUME NEW X, NEW s \in Seq(X)
    PROVE  \E f : /\ f[0] = <<>>
                  /\ \A k \in 1..Len(s) : f[k] = OnceMore(f[k - 1], s[k])
                  /\ Deduplicated(s) = f[Len(s)]
<1> DEFINE n == Len(s)
           folds(g) == g = [t \in SUBSET (1..n) |->
                              IF t = {} THEN <<>>
                              ELSE OnceMore(g[t \ {Max(t)}], s[Max(t)])]
           iter == CHOOSE g : folds(g)
           step == [p \in (1..n) \X Seq(X) |-> OnceMore(p[2], s[p[1]])]
           f == [k \in 0..n |-> iter[1..k]]
<1>1. n \in Nat /\ DOMAIN s = 1..n /\ \A i \in 1..n : s[i] \in X
  OBVIOUS
<1>2. Deduplicated(s) = iter[1..n]
  <2>1. Deduplicated(s) =
          (CHOOSE g : g = [t \in SUBSET DOMAIN s |->
                             IF t = {} THEN <<>>
                             ELSE OnceMore(g[t \ {Max(t)}], s[Max(t)])])[DOMAIN s]
    BY Zenon DEF Deduplicated, FoldLeft, MapThenFoldSet, OnceMore
  <2> QED
    BY <1>1, <2>1
<1> HIDE DEF n
<1>3. step \in [(1..n) \X Seq(X) -> Seq(X)]
  BY <1>1 DEF OnceMore
<1>4. PICK g \in [SUBSET (1..n) -> Seq(X)] : FoldsFrom(g, n, <<>>, step)
  <2>1. <<>> \in Seq(X) /\ n \in 0..n
    BY <1>1
  <2> HIDE DEF step
  <2> QED
    BY <1>1, <1>3, <2>1, FoldExists
<1>5. ASSUME NEW t \in SUBSET (1..n), t # {}
      PROVE  step[<<Max(t), g[t \ {Max(t)}]>>] = OnceMore(g[t \ {Max(t)}], s[Max(t)])
  <2>1. t \subseteq 0..n
    BY <1>1
  <2>2. Max(t) \in t
    BY <1>1, <1>5, <2>1, GreatestElement
  <2>3. Max(t) \in 1..n /\ g[t \ {Max(t)}] \in Seq(X)
    BY <2>2
  <2> QED
    BY <2>3
<1> HIDE DEF step
<1>6. folds(g)
  <2>1. g = [t \in SUBSET (1..n) |-> IF t = {} THEN <<>> ELSE step[<<Max(t), g[t \ {Max(t)}]>>]]
    BY <1>4 DEF FoldsFrom
  <2> QED
    BY <1>5, <2>1
<1>7. folds(iter)
  <2> HIDE DEF folds
  <2> QED
    BY <1>6
<1> HIDE DEF iter
<1>8. f[0] = <<>> /\ f[n] = iter[1..n]
  <2>1. 1..0 = {} /\ 0 \in 0..n /\ n \in 0..n /\ {} \in SUBSET (1..n)
    BY <1>1
  <2>2. iter[{}] = <<>>
    BY <1>7, <2>1
  <2> QED
    BY <2>1, <2>2
<1>9. ASSUME NEW k \in 1..n PROVE f[k] = OnceMore(f[k - 1], s[k])
  <2>1. k \in Nat /\ k # 0 /\ k \in 0..n /\ k - 1 \in 0..n /\ 1..k \in SUBSET (1..n)
    BY <1>1
  <2>2. iter[1..k] = OnceMore(iter[(1..k) \ {Max(1..k)}], s[Max(1..k)])
    BY <1>7, <2>1, IntervalTaken, Zenon
  <2>3. Max(1..k) = k /\ (1..k) \ {Max(1..k)} = 1..(k - 1)
    BY <2>1, IntervalTaken
  <2> QED
    BY <2>1, <2>2, <2>3
<1> HIDE DEF f
<1> QED
  BY <1>2, <1>8, <1>9 DEF n

\* What OnceMore keeps of a prefix of s, the first k elements: each element of
\* it once, at the position it has there first, in that order.
AreFirsts(first, d, s, k) ==
    /\ first \in [1..Len(d) -> 1..k]
    /\ \A a \in 1..Len(d) :
          /\ d[a] = s[first[a]]
          /\ \A l \in 1..(first[a] - 1) : s[l] # d[a]
    /\ \A a, b \in 1..Len(d) : a < b => first[a] < first[b]
    /\ \A i \in 1..k : \E a \in 1..Len(d) : d[a] = s[i]

FirstsOf(d, s, k) == \E first : AreFirsts(first, d, s, k)

\* One element more.
LEMMA OnceMoreKeeps ==
    ASSUME NEW X, NEW s \in Seq(X), NEW k \in Nat, k + 1 \in 1..Len(s),
           NEW d \in Seq(X), FirstsOf(d, s, k), NEW e, e = OnceMore(d, s[k + 1])
    PROVE  e \in Seq(X) /\ FirstsOf(e, s, k + 1)
<1>0. PICK first : AreFirsts(first, d, s, k)
  BY DEF FirstsOf
<1>1. /\ first \in [1..Len(d) -> 1..k]
      /\ \A a \in 1..Len(d) :
            /\ d[a] = s[first[a]]
            /\ \A l \in 1..(first[a] - 1) : s[l] # d[a]
      /\ \A a, b \in 1..Len(d) : a < b => first[a] < first[b]
      /\ \A i \in 1..k : \E a \in 1..Len(d) : d[a] = s[i]
  BY <1>0 DEF AreFirsts
<1>2. s[k + 1] \in X /\ Len(d) \in Nat
  OBVIOUS
<1>3. CASE Contains(d, s[k + 1])
  <2>1. e = d
    BY <1>3 DEF OnceMore
  <2>2. PICK a \in 1..Len(d) : d[a] = s[k + 1]
    BY <1>3 DEF Contains
  <2>3. ASSUME NEW i \in 1..k + 1 PROVE \E c \in 1..Len(d) : d[c] = s[i]
    <3>1. i \in 1..k \/ i = k + 1
      OBVIOUS
    <3> QED
      BY <1>1, <2>2, <3>1
  <2>4. first \in [1..Len(d) -> 1..k + 1]
    BY <1>1
  <2>5. AreFirsts(first, d, s, k + 1)
    BY <1>1, <2>3, <2>4 DEF AreFirsts
  <2> QED
    BY <2>1, <2>5 DEF FirstsOf
<1>4. CASE ~Contains(d, s[k + 1])
  <2> DEFINE m == Len(d)
             more == [a \in 1..m + 1 |-> IF a = m + 1 THEN k + 1 ELSE first[a]]
  <2>1. /\ e \in Seq(X) /\ Len(e) = m + 1
        /\ e[m + 1] = s[k + 1] /\ \A a \in 1..m : e[a] = d[a]
    BY <1>2, <1>4 DEF OnceMore
  <2>2. /\ more[m + 1] = k + 1
        /\ \A a \in 1..m : more[a] = first[a] /\ more[a] \in 1..k
    <3>1. m + 1 \in 1..m + 1 /\ \A a \in 1..m : a \in 1..m + 1 /\ a # m + 1
      BY <1>2
    <3>2. \A a \in 1..m : first[a] \in 1..k
      BY <1>1
    <3> HIDE DEF m
    <3> QED
      BY <3>1, <3>2
  <2>3. more \in [1..m + 1 -> 1..k + 1]
    BY <1>1
  <2> HIDE DEF more
  <2>4. ASSUME NEW a \in 1..m + 1
        PROVE  /\ e[a] = s[more[a]]
               /\ \A l \in 1..(more[a] - 1) : s[l] # e[a]
    <3>1. CASE a \in 1..m
      BY <1>1, <2>1, <2>2, <3>1
    <3>2. CASE a = m + 1
      <4>1. ASSUME NEW l \in 1..k, s[l] = s[k + 1] PROVE FALSE
        <5>1. PICK c \in 1..Len(d) : d[c] = s[l]
          BY <1>1
        <5> QED
          BY <1>4, <4>1, <5>1 DEF Contains
      <4>2. more[a] - 1 = k
        BY <2>2, <3>2
      <4> QED
        BY <2>1, <2>2, <3>2, <4>1, <4>2
    <3> QED
      BY <3>1, <3>2
  <2>5. ASSUME NEW a \in 1..m + 1, NEW b \in 1..m + 1, a < b PROVE more[a] < more[b]
    <3>1. a \in 1..m
      BY <1>2, <2>5
    <3>2. b \in 1..m \/ b = m + 1
      BY <1>2
    <3> QED
      BY <1>1, <2>2, <2>5, <3>1, <3>2
  <2>6. ASSUME NEW i \in 1..k + 1 PROVE \E a \in 1..m + 1 : e[a] = s[i]
    <3>1. CASE i \in 1..k
      <4>1. PICK a \in 1..m : d[a] = s[i]
        BY <1>1, <3>1
      <4>2. a \in 1..m + 1 /\ e[a] = s[i]
        BY <1>2, <2>1, <4>1
      <4> QED
        BY <4>2
    <3>2. CASE i = k + 1
      <4>1. m + 1 \in 1..m + 1
        BY <1>2
      <4> QED
        BY <2>1, <3>2, <4>1
    <3> QED
      BY <3>1, <3>2
  <2>7. AreFirsts(more, e, s, k + 1)
    BY <2>1, <2>3, <2>4, <2>5, <2>6 DEF AreFirsts
  <2> QED
    BY <2>1, <2>7 DEF FirstsOf
<1> QED
  BY <1>3, <1>4

\* Deduplicating keeps every element once, in the order of first occurrence.
LEMMA DeduplicatedKeepsFirsts ==
    ASSUME NEW X, NEW s \in Seq(X)
    PROVE  Deduplicated(s) \in Seq(X) /\ FirstsOf(Deduplicated(s), s, Len(s))
<1>1. PICK f : /\ f[0] = <<>>
               /\ \A k \in 1..Len(s) : f[k] = OnceMore(f[k - 1], s[k])
               /\ Deduplicated(s) = f[Len(s)]
  BY DeduplicatedSteps
<1> DEFINE n == Len(s)
           Good(k) == f[k] \in Seq(X) /\ FirstsOf(f[k], s, k)
           Bad == {k \in 0..n : ~Good(k)}
<1>2. n \in Nat
  OBVIOUS
<1>3. ASSUME Bad # {} PROVE FALSE
  <2>1. PICK k \in Bad : \A l \in Bad : k <= l
    <3>1. Bad \subseteq Nat
      OBVIOUS
    <3> HIDE DEF Bad
    <3> QED
      BY <1>3, <3>1, LeastElement
  <2>2. k \in 0..n /\ ~Good(k)
    OBVIOUS
  <2>3. CASE k = 0
    <3> DEFINE first == [a \in 1..0 |-> a]
    <3>1. first \in [1..0 -> 1..0] /\ Len(<<>>) = 0 /\ <<>> \in Seq(X)
      OBVIOUS
    <3>2. \A a : a \notin 1..0
      OBVIOUS
    <3> HIDE DEF first
    <3>3. AreFirsts(first, <<>>, s, 0)
      BY <3>1, <3>2 DEF AreFirsts
    <3>4. FirstsOf(<<>>, s, 0)
      BY <3>3 DEF FirstsOf
    <3> QED
      BY <1>1, <2>2, <2>3, <3>1, <3>4
  <2>4. CASE k # 0
    <3>1. PICK j \in Nat : k = j + 1 /\ j \in 0..n /\ k \in 1..n /\ j = k - 1 /\ ~(k <= j)
      <4>1. k - 1 \in Nat /\ k = (k - 1) + 1 /\ k - 1 \in 0..n /\ k \in 1..n /\ ~(k <= k - 1)
        BY <1>2, <2>2, <2>4
      <4> QED
        BY <4>1
    <3>2. Good(j)
      BY <2>1, <3>1
    <3>3. f[k] = OnceMore(f[j], s[j + 1])
      BY <1>1, <3>1
    <3> QED
      BY <2>2, <3>1, <3>2, <3>3, OnceMoreKeeps
  <2> QED
    BY <2>3, <2>4
<1>4. n \in 0..n
  BY <1>2
<1>5. Good(n)
  BY <1>3, <1>4
<1> QED
  BY <1>1, <1>5

-----------------------------------------------------------------------------
(***************************************************************************)
(* The summary as a whole.                                                 *)
(***************************************************************************)
Payloads == [items : Contents, usage : Usages]

LEMMA ContentsAreItems == \A c \in Contents : c \in Seq(Items)
<1> SUFFICES ASSUME NEW c \in Contents PROVE c \in Seq(Items)
  OBVIOUS
<1>1. c \in Seq(ToSet(c))
  BY SummaryAssumption
<1>2. ToSet(c) \subseteq Items
  BY DEF Items
<1> QED
  BY <1>1, <1>2

\* The items of the payloads, one payload after the other.
AllItems(ps) == FlattenSeq([i \in DOMAIN ps |-> ps[i].items])

\* They are what some payload says.
LEMMA AllItemsAre ==
    ASSUME NEW ps \in Seq(Payloads)
    PROVE  /\ AllItems(ps) \in Seq(Items)
           /\ \A x : (\E i \in DOMAIN ps : Contains(ps[i].items, x)) <=> Contains(AllItems(ps), x)
<1> DEFINE seqs == [i \in DOMAIN ps |-> ps[i].items]
<1>1. /\ Len(ps) \in Nat /\ DOMAIN ps = 1..Len(ps)
      /\ \A i \in 1..Len(ps) : ps[i].items \in Seq(Items)
  <2>1. Len(ps) \in Nat /\ DOMAIN ps = 1..Len(ps)
    OBVIOUS
  <2>2. ASSUME NEW i \in 1..Len(ps) PROVE ps[i].items \in Seq(Items)
    <3>1. ps[i] \in Payloads
      OBVIOUS
    <3>2. ps[i].items \in Contents
      BY <3>1 DEF Payloads
    <3> QED
      BY <3>2, ContentsAreItems
  <2> QED
    BY <2>1, <2>2
<1>2. seqs \in [1..Len(ps) -> Seq(Items)]
  BY <1>1
<1>3. seqs \in Seq(Seq(Items)) /\ Len(seqs) = Len(ps)
  BY <1>1, <1>2, SequenceOf
<1>4. \A i \in 1..Len(ps) : seqs[i] = ps[i].items
  BY <1>1
<1> HIDE DEF seqs
<1>5. PICK flat : flat = FlattenSeq(seqs)
  OBVIOUS
<1>6. flat \in Seq(Items) /\ ComesFrom(flat, seqs, Len(seqs))
  BY <1>3, <1>5, FlattenSpreads
<1>7. ASSUME NEW x, NEW p \in 1..Len(flat), flat[p] = x
      PROVE  \E i \in DOMAIN ps : Contains(ps[i].items, x)
  <2>1. PICK i \in 1..Len(seqs) : \E k \in DOMAIN seqs[i] : x = seqs[i][k]
    BY <1>6, <1>7 DEF ComesFrom
  <2>2. seqs[i] = ps[i].items /\ ps[i].items \in Seq(Items) /\ i \in DOMAIN ps
    BY <1>1, <1>3, <1>4, <2>1
  <2>3. DOMAIN seqs[i] = 1..Len(seqs[i])
    BY <2>2
  <2> QED
    BY <2>1, <2>2, <2>3 DEF Contains
<1>8. ASSUME NEW x, NEW i \in DOMAIN ps, Contains(ps[i].items, x)
      PROVE  \E p \in 1..Len(flat) : flat[p] = x
  <2>1. PICK k \in 1..Len(ps[i].items) : ps[i].items[k] = x
    BY <1>8 DEF Contains
  <2>2. i \in 1..Len(seqs) /\ seqs[i] = ps[i].items
    BY <1>1, <1>3, <1>4
  <2>3. k \in 1..Len(seqs[i]) /\ seqs[i][k] = x
    BY <2>1, <2>2
  <2>4. \E p \in 1..Len(FlattenSeq(seqs)) : FlattenSeq(seqs)[p] = seqs[i][k]
    BY <1>3, <2>2, <2>3, FlattenHolds
  <2> QED
    BY <1>5, <2>3, <2>4
<1>9. AllItems(ps) = flat
  BY <1>5 DEF AllItems, seqs
<1> QED
  BY <1>6, <1>7, <1>8, <1>9 DEF Contains

\* A deterministic merge: what the payloads say, in the order of first mention.
LEMMA UnionIsWhole ==
    ASSUME NEW ps \in Seq(Payloads), NEW all, all = AllItems(ps),
           NEW merged, merged = UnionPayloads(ps)
    PROVE  /\ merged \in Seq(Items)
           /\ \A x : (\E i \in DOMAIN ps : Contains(ps[i].items, x)) <=> Contains(merged, x)
           /\ \E first \in [1..Len(merged) -> 1..Len(all)] :
                /\ \A a, b \in 1..Len(merged) : a < b => first[a] < first[b]
                /\ \A a \in 1..Len(merged) :
                      /\ all[first[a]] = merged[a]
                      /\ \A l \in 1..(first[a] - 1) : all[l] # merged[a]
<1>1. /\ all \in Seq(Items)
      /\ \A x : (\E i \in DOMAIN ps : Contains(ps[i].items, x)) <=> Contains(all, x)
  BY AllItemsAre
<1>2. merged = Deduplicated(all)
  BY DEF UnionPayloads, AllItems
<1>3. merged \in Seq(Items) /\ FirstsOf(merged, all, Len(all))
  BY <1>1, <1>2, DeduplicatedKeepsFirsts
<1>4. PICK first : AreFirsts(first, merged, all, Len(all))
  BY <1>3 DEF FirstsOf
<1>5. /\ first \in [1..Len(merged) -> 1..Len(all)]
      /\ \A a, b \in 1..Len(merged) : a < b => first[a] < first[b]
      /\ \A a \in 1..Len(merged) :
            /\ all[first[a]] = merged[a]
            /\ \A l \in 1..(first[a] - 1) : all[l] # merged[a]
      /\ \A i \in 1..Len(all) : \E a \in 1..Len(merged) : merged[a] = all[i]
  BY <1>4 DEF AreFirsts
<1>6. \A x : Contains(all, x) <=> Contains(merged, x)
  <2>1. ASSUME NEW i \in 1..Len(all) PROVE Contains(merged, all[i])
    BY <1>5 DEF Contains
  <2>2. ASSUME NEW a \in 1..Len(merged) PROVE Contains(all, merged[a])
    <3>1. first[a] \in 1..Len(all) /\ all[first[a]] = merged[a]
      BY <1>5
    <3> QED
      BY <3>1 DEF Contains
  <2>3. ASSUME NEW x, Contains(all, x) PROVE Contains(merged, x)
    BY <2>1, <2>3 DEF Contains
  <2>4. ASSUME NEW x, Contains(merged, x) PROVE Contains(all, x)
    BY <2>2, <2>4 DEF Contains
  <2> QED
    BY <2>3, <2>4
<1> QED
  BY <1>1, <1>3, <1>5, <1>6

\* The total of one report is that report.
LEMMA SumOfOne ==
    ASSUME NEW s, DOMAIN s = 1..1, s[1].usage \in Nat
    PROVE  FoldSeq(LAMBDA p, n : p.usage + n, 0, s) = s[1].usage
<1> DEFINE folds(g) == g = [t \in SUBSET DOMAIN s |->
                              IF t = {} THEN 0
                              ELSE s[CHOOSE x \in t : TRUE].usage + g[t \ {CHOOSE x \in t : TRUE}]]
           iter == CHOOSE g : folds(g)
           g1 == [t \in SUBSET DOMAIN s |-> IF t = {} THEN 0 ELSE s[1].usage + 0]
<1>1. FoldSeq(LAMBDA p, n : p.usage + n, 0, s) = iter[DOMAIN s]
  BY Zenon DEF FoldSeq, FoldFunction, FoldFunctionOnSet, MapThenFoldSet
<1>2. ASSUME NEW t \in SUBSET DOMAIN s, t # {}
      PROVE  (CHOOSE x \in t : TRUE) = 1 /\ t \ {1} = {} /\ {} \in SUBSET DOMAIN s
  <2>1. t = {1}
    BY <1>2
  <2> QED
    BY <2>1
<1>3. folds(g1)
  BY <1>2
<1>4. folds(iter)
  <2> HIDE DEF folds, g1
  <2> QED
    BY <1>3
<1> HIDE DEF iter
<1>5. DOMAIN s \in SUBSET DOMAIN s /\ DOMAIN s # {} /\ {} \in SUBSET DOMAIN s
  OBVIOUS
<1>6. iter[{}] = 0
  BY <1>4, <1>5
<1>7. iter[DOMAIN s] = s[1].usage + iter[{}]
  BY <1>2, <1>4, <1>5
<1>8. iter[DOMAIN s] = s[1].usage
  BY <1>6, <1>7
<1> QED
  BY <1>1, <1>8, Zenon

\* The property's total and total_usage are the same fold.
LEMMA SumIsTotal ==
    ASSUME NEW s
    PROVE  FoldSeq(LAMBDA p, n : p.usage + n, 0, s) =
             FoldSeq(+, 0, [i \in DOMAIN s |-> s[i].usage])
<1> DEFINE u == [i \in DOMAIN s |-> s[i].usage]
           sum(g) == [t \in SUBSET DOMAIN s |->
                        IF t = {} THEN 0
                        ELSE s[CHOOSE x \in t : TRUE].usage + g[t \ {CHOOSE x \in t : TRUE}]]
           total(g) == [t \in SUBSET DOMAIN u |->
                          IF t = {} THEN 0
                          ELSE u[CHOOSE x \in t : TRUE] + g[t \ {CHOOSE x \in t : TRUE}]]
<1>1. FoldSeq(LAMBDA p, n : p.usage + n, 0, s) = (CHOOSE g : g = sum(g))[DOMAIN s]
  BY Zenon DEF FoldSeq, FoldFunction, FoldFunctionOnSet, MapThenFoldSet
<1>2. FoldSeq(+, 0, u) = (CHOOSE g : g = total(g))[DOMAIN u]
  <2> HIDE DEF u
  <2> QED
    BY Zenon DEF FoldSeq, FoldFunction, FoldFunctionOnSet, MapThenFoldSet
<1>3. DOMAIN u = DOMAIN s /\ \A i \in DOMAIN s : u[i] = s[i].usage
  OBVIOUS
<1> HIDE DEF u
<1>4. ASSUME NEW g PROVE sum(g) = total(g)
  <2>1. ASSUME NEW t \in SUBSET DOMAIN s, t # {} PROVE (CHOOSE x \in t : TRUE) \in DOMAIN s
    BY <2>1
  <2> QED
    BY <1>3, <2>1
<1> HIDE DEF sum, total
<1>5. (CHOOSE g : g = sum(g)) = (CHOOSE g : g = total(g))
  BY <1>4
<1> QED
  BY <1>1, <1>2, <1>3, <1>5 DEF u

\* One payload for each prompt, in turn; the merge adds one.
JobIInv ==
    /\ payloads \in Seq(Payloads)
    /\ phase \in {"idle", "enriching", "planning"} => payloads = <<>>
    /\ phase = "single" => Len(prompts) = 1
    /\ Summarizing => Len(payloads) <= Len(prompts)
    /\ Summarizing /\ callState # "idle" => Len(payloads) < Len(prompts)
    /\ phase = "merging" => Len(payloads) = Len(prompts)
    /\ SummaryIsWhole

\* Before the end there is no result to speak of.
LEMMA NotDone == phase # "done" => SummaryIsWhole
BY DEF SummaryIsWhole

LEMMA NotDoneNext == phase' # "done" => SummaryIsWhole'
BY DEF SummaryIsWhole

LEMMA TokensAreTotal == \A ps : TotalUsage(ps) = TokensOf(ps)
<1> SUFFICES ASSUME NEW ps PROVE TotalUsage(ps) = TokensOf(ps)
  OBVIOUS
<1>1. FoldSeq(LAMBDA p, n : p.usage + n, 0, ps) =
        FoldSeq(+, 0, [i \in DOMAIN ps |-> ps[i].usage])
  BY SumIsTotal, Zenon
<1> QED
  BY <1>1, Zenon DEF TotalUsage, TokensOf

\* A merge without the provider says all.
LEMMA UnionSaysAll ==
    ASSUME NEW ps \in Seq(Payloads)
    PROVE  SaysAll(UnionPayloads(ps), ps)
<1> DEFINE all == FlattenSeq([i \in DOMAIN ps |-> ps[i].items])
           First(x) == CHOOSE k \in DOMAIN all : all[k] = x /\ \A l \in 1..(k - 1) : all[l] # x
<1>1. PICK merged : merged = UnionPayloads(ps)
  OBVIOUS
<1>2. PICK flat : flat = AllItems(ps)
  OBVIOUS
<1>3. /\ merged \in Seq(Items)
      /\ \A x : (\E i \in DOMAIN ps : Contains(ps[i].items, x)) <=> Contains(merged, x)
      /\ \E first \in [1..Len(merged) -> 1..Len(flat)] :
            /\ \A a, b \in 1..Len(merged) : a < b => first[a] < first[b]
            /\ \A a \in 1..Len(merged) :
                  /\ flat[first[a]] = merged[a]
                  /\ \A l \in 1..(first[a] - 1) : flat[l] # merged[a]
  <2> HIDE DEF all, First
  <2> QED
    BY <1>1, <1>2, UnionIsWhole
<1>9. all = flat /\ flat \in Seq(Items)
  BY <1>2, AllItemsAre DEF AllItems
<1> HIDE DEF all
<1>4. PICK first \in [1..Len(merged) -> 1..Len(all)] :
        /\ \A a, b \in 1..Len(merged) : a < b => first[a] < first[b]
        /\ \A a \in 1..Len(merged) :
              /\ all[first[a]] = merged[a]
              /\ \A l \in 1..(first[a] - 1) : all[l] # merged[a]
  <2> HIDE DEF First
  <2> QED
    BY <1>3, <1>9
<1>5. ASSUME NEW a \in 1..Len(merged) PROVE First(merged[a]) = first[a]
  <2>1. /\ DOMAIN all = 1..Len(all) /\ Len(all) \in Nat
        /\ first[a] \in DOMAIN all
        /\ all[first[a]] = merged[a]
        /\ \A l \in 1..(first[a] - 1) : all[l] # merged[a]
    BY <1>4, <1>9
  <2>2. PICK k : k = First(merged[a])
    OBVIOUS
  <2>3. /\ k \in DOMAIN all /\ all[k] = merged[a]
        /\ \A l \in 1..(k - 1) : all[l] # merged[a]
    BY <2>1, <2>2
  <2>4. k \in Nat /\ k >= 1 /\ first[a] \in Nat /\ first[a] >= 1
    BY <2>1, <2>3
  <2>5. ~(k < first[a]) /\ ~(first[a] < k)
    BY <2>1, <2>3, <2>4
  <2> QED
    BY <2>2, <2>4, <2>5
<1> HIDE DEF First
<1>6. \A a, b \in DOMAIN merged : a < b => First(merged[a]) < First(merged[b])
  <2>1. DOMAIN merged = 1..Len(merged)
    BY <1>3
  <2> QED
    BY <1>4, <1>5, <2>1
<1>7. \A x \in Items : (\E i \in DOMAIN ps : Contains(ps[i].items, x)) <=> Contains(merged, x)
  BY <1>3
<1>8. SaysAll(merged, ps)
  BY <1>6, <1>7, Zenon DEF SaysAll, all, First
<1> QED
  BY <1>1, <1>8

\* A new prompt's payload: whatever is answered is one of those a completion
\* may hold.
LEMMA ValidatedAppends ==
    ASSUME payloads \in Seq(Payloads), NEW i \in Contents, NEW u \in Usages, Validated(i, u)
    PROVE  /\ payloads' \in Seq(Payloads) /\ Len(payloads') = Len(payloads) + 1
           /\ callState # "idle" /\ callState' = "idle"
           /\ Len(payloads) \in Nat
BY DEF Validated, Payloads

\* Steps of the plan and of a call leave the payloads alone.
LEMMA JobStays ==
    ASSUME JobIInv, UNCHANGED jobVars,
           Summarizing /\ callState' # "idle" => callState # "idle"
    PROVE  JobIInv'
BY DEF JobIInv, jobVars, Summarizing, SummaryIsWhole

LEMMA TokensKept == ASSUME UNCHANGED payloads PROVE TokensOf(payloads)' = TokensOf(payloads)
<1>1. PICK ps : ps = payloads /\ ps = payloads'
  OBVIOUS
<1>2. TokensOf(payloads) = TokensOf(ps)
  BY <1>1
<1>3. TokensOf(payloads)' = TokensOf(ps)
  BY <1>1
<1> QED
  BY <1>2, <1>3

LEMMA SingleEnds == ASSUME JobIInv, FinishSingle PROVE JobIInv'
<1>1. /\ phase = "single" /\ Len(payloads) = 1 /\ Len(prompts) = 1
      /\ payloads \in Seq(Payloads)
      /\ phase' = "done" /\ UNCHANGED <<window, payloads, prompts>>
      /\ result' = [count |-> Len(window), items |-> payloads[1].items,
                    tokens |-> payloads[1].usage, how |-> "single"]
  BY DEF FinishSingle, Finish, AllAnswered, JobIInv
<1>2. payloads[1] \in Payloads /\ DOMAIN payloads = 1..1
  BY <1>1
<1>3. payloads[1].usage \in Nat \cup {NoUsage}
  BY <1>2, SummaryAssumption DEF Payloads
<1>4. payloads[1].usage = TokensOf(payloads)
  <2>1. CASE payloads[1].usage = NoUsage
    <3>1. \E i \in DOMAIN payloads : payloads[i].usage = NoUsage
      BY <1>2, <2>1
    <3> QED
      BY <2>1, <3>1, Zenon DEF TokensOf
  <2>2. CASE payloads[1].usage # NoUsage
    <3>1. ~\E i \in DOMAIN payloads : payloads[i].usage = NoUsage
      BY <1>2, <2>2
    <3>2. FoldSeq(LAMBDA p, n : p.usage + n, 0, payloads) = payloads[1].usage
      <4>1. payloads[1].usage \in Nat
        BY <1>3, <2>2
      <4> QED
        BY <1>2, <4>1, SumOfOne, Zenon
    <3> QED
      BY <3>1, <3>2, Zenon DEF TokensOf
  <2> QED
    BY <2>1, <2>2
<1>5. PICK tokens : tokens = TokensOf(payloads) /\ tokens = payloads[1].usage
  BY <1>4
<1>6. /\ result'.count = Len(window') /\ result'.how = "single"
      /\ result'.tokens = tokens
  BY <1>1, <1>5
<1>7. TokensOf(payloads)' = tokens
  BY <1>1, <1>5, TokensKept
<1>8. /\ Len(payloads') = Len(prompts') + (IF result'.how = "merged" THEN 1 ELSE 0)
      /\ result'.how # "deterministic_merge" /\ result'.tokens = TokensOf(payloads)'
  <2>1. Len(payloads') = 1 /\ Len(prompts') = 1
    BY <1>1
  <2>2. result'.how # "merged" /\ result'.how # "deterministic_merge"
    BY <1>6
  <2>3. result'.tokens = TokensOf(payloads)'
    BY <1>6, <1>7, Zenon
  <2> QED
    BY <2>1, <2>2, <2>3
<1>9. SummaryIsWhole'
  BY <1>6, <1>8, Zenon DEF SummaryIsWhole
<1> QED
  BY <1>1, <1>9 DEF JobIInv, Summarizing

\* The payload of a prompt,
LEMMA PayloadTaken ==
    ASSUME PlanIInv, JobIInv, NEW i \in Contents, NEW u \in Usages, TakePayload(i, u)
    PROVE  JobIInv'
<1>1. /\ Summarizing /\ phase' = phase /\ UNCHANGED <<window, prompts, result>>
      /\ Validated(i, u) /\ payloads \in Seq(Payloads)
      /\ phase = "single" => Len(prompts) = 1
  BY DEF TakePayload, JobIInv
<1>2. /\ payloads' \in Seq(Payloads) /\ Len(payloads') = Len(payloads) + 1
      /\ callState # "idle" /\ callState' = "idle" /\ Len(payloads) \in Nat
  BY <1>1, ValidatedAppends
<1>3. Len(payloads) < Len(prompts) /\ Len(prompts) \in Nat
  <2>1. prompts \in Seq(Interval)
    BY DEF PlanIInv
  <2>2. Len(prompts) \in Nat
    BY <2>1, LenProperties
  <2> QED
    BY <1>1, <1>2, <2>2 DEF JobIInv
<1>4. SummaryIsWhole'
  BY <1>1, NotDoneNext DEF Summarizing
<1> QED
  BY <1>1, <1>2, <1>3, <1>4 DEF JobIInv, Summarizing

\* the answer of the merge, which is one payload more,
LEMMA MergeTaken ==
    ASSUME JobIInv, NEW i \in Contents, NEW u \in Usages, TakeMerge(i, u)
    PROVE  JobIInv'
<1>1. /\ phase = "merging" /\ phase' = "done" /\ UNCHANGED <<window, prompts>>
      /\ Validated(i, u) /\ payloads \in Seq(Payloads)
      /\ Len(payloads) = Len(prompts)
      /\ result' = [count |-> Len(window), items |-> i, tokens |-> TotalUsage(payloads'),
                    how |-> "merged"]
  BY DEF TakeMerge, Finish, JobIInv
<1>2. /\ payloads' \in Seq(Payloads) /\ Len(payloads') = Len(payloads) + 1
      /\ callState' = "idle" /\ Len(payloads) \in Nat
  BY <1>1, ValidatedAppends
<1>3. TotalUsage(payloads') = TokensOf(payloads')
  BY TokensAreTotal
<1>4. SummaryIsWhole'
  BY <1>1, <1>2, <1>3 DEF SummaryIsWhole
<1> QED
  BY <1>1, <1>2, <1>4 DEF JobIInv, Summarizing

\* and a merge that needs none.
LEMMA MergedWithoutCall == ASSUME JobIInv, MergeDeterministically PROVE JobIInv'
<1>1. /\ phase = "extracting" /\ Len(payloads) = Len(prompts)
      /\ phase' = "done" /\ UNCHANGED <<window, prompts, payloads>>
      /\ payloads \in Seq(Payloads)
      /\ result' = [count |-> Len(window), items |-> UnionPayloads(payloads),
                    tokens |-> TotalUsage(payloads), how |-> "deterministic_merge"]
  BY DEF MergeDeterministically, Extracted, AllAnswered, Finish, JobIInv
<1>2. PICK ps \in Seq(Payloads) : ps = payloads /\ ps = payloads'
  BY <1>1
<1>3. PICK merged : merged = UnionPayloads(ps)
  OBVIOUS
<1>4. result'.tokens = TotalUsage(ps) /\ result'.items = merged
  BY <1>1, <1>2, <1>3
<1>5. SaysAll(merged, ps) /\ TotalUsage(ps) = TokensOf(ps)
  BY <1>3, UnionSaysAll, TokensAreTotal
<1>6. SaysAll(result'.items, payloads') /\ result'.tokens = TokensOf(payloads')
  BY <1>2, <1>4, <1>5
<1>7. /\ result'.count = Len(window') /\ result'.how = "deterministic_merge"
      /\ Len(payloads') = Len(prompts')
      /\ Len(payloads') \in Nat
  BY <1>1
<1>8. SummaryIsWhole'
  BY <1>6, <1>7 DEF SummaryIsWhole
<1> QED
  BY <1>1, <1>8 DEF JobIInv, Summarizing

\* What comes before the first answer.
LEMMA NothingTakenYet ==
    ASSUME JobIInv, CostIInv, phase \in {"idle", "enriching", "planning"},
           callState' = callState, payloads' = payloads, Len(prompts') \in Nat,
           phase' \in {"idle", "enriching", "planning", "single", "extracting", "done", "failed"},
           phase' = "single" => Len(prompts') = 1,
           phase' = "done" => window' = <<>>
    PROVE  JobIInv'
<1>1. payloads' = <<>> /\ <<>> \in Seq(Payloads) /\ Len(<<>>) = 0 /\ callState' = "idle"
  BY DEF JobIInv, CostIInv
<1>2. SummaryIsWhole'
  BY DEF SummaryIsWhole
<1> QED
  BY <1>1, <1>2 DEF JobIInv, Summarizing

LEMMA NextJob == PlanIInv /\ PlanIInv' /\ CostIInv /\ JobIInv /\ [Next]_vars => JobIInv'
<1> SUFFICES ASSUME PlanIInv, PlanIInv', CostIInv, JobIInv, [Next]_vars PROVE JobIInv'
  OBVIOUS
<1>1. Len(prompts) \in Nat /\ Len(prompts') \in Nat /\ Len(payloads) \in Nat
  BY LenProperties DEF PlanIInv, JobIInv
<1>2. ASSUME NEW w \in Windows, Query(w) PROVE JobIInv'
  <2>1. phase' # "single"
    BY <1>2 DEF Query, Fail
  <2>2. /\ phase \in {"idle", "enriching", "planning"} /\ callState' = callState /\ payloads' = payloads
        /\ phase' \in {"idle", "enriching", "planning", "single", "extracting", "done", "failed"}
        /\ phase' = "done" => window' = <<>>
    BY <1>2 DEF Query, Fail, callVars
  <2> QED
    BY <1>1, <2>1, <2>2, NothingTakenYet
<1>12. ASSUME NEW n \in Described, NEW calls, Describe(n, calls) PROVE JobIInv'
  BY <1>1, <1>12, NothingTakenYet DEF Describe, callVars
<1>13. CASE Render
  <2>1. phase' = "single" => Len(prompts') = 1
    BY <1>13 DEF Render
  <2>2. /\ phase = "enriching" /\ callState' = callState /\ payloads' = payloads
        /\ phase' \in {"single", "planning"}
    BY <1>13 DEF Render, callVars
  <2> QED
    BY <1>1, <2>1, <2>2, NothingTakenYet
<1>3. CASE PlaceChunk \/ HalveChunk \/ MessageTooLarge \/ Planned
  <2>1. /\ phase \in {"idle", "enriching", "planning"} /\ callState' = callState /\ payloads' = payloads
        /\ phase' \in {"idle", "enriching", "planning", "single", "extracting", "done", "failed"}
        /\ phase' # "single" /\ phase' # "done"
    BY <1>3 DEF PlaceChunk, HalveChunk, MessageTooLarge, Planned, Planning, Fail, callVars
  <2> QED
    BY <1>1, <2>1, NothingTakenYet
<1>4. CASE CallNext
  <2>1. /\ Summarizing /\ Len(payloads) # Len(prompts) /\ UNCHANGED jobVars
    BY <1>4 DEF CallNext, AllAnswered
  <2>2. Len(payloads) < Len(prompts) /\ phase # "done" /\ phase # "merging"
    BY <1>1, <2>1 DEF JobIInv, Summarizing
  <2>3. SummaryIsWhole'
    BY <2>1, <2>2, NotDoneNext DEF jobVars
  <2> QED
    BY <2>1, <2>2, <2>3 DEF JobIInv, jobVars, Summarizing
<1>5. CASE CallStep /\ UNCHANGED jobVars
  <2>1. callState # "idle"
    BY <1>5 DEF CallStep, Completes, Raises, Retries, Answered, Wake
  <2> QED
    BY <1>5, <2>1, JobStays
<1>6. ASSUME NEW i \in Contents, NEW u \in Usages, TakePayload(i, u) \/ TakeMerge(i, u)
      PROVE  JobIInv'
  BY <1>6, PayloadTaken, MergeTaken
<1>7. CASE CallFailed
  <2>1. phase' = "failed" /\ payloads' = payloads
    BY <1>7 DEF CallFailed, Fail
  <2> QED
    BY <2>1, NotDoneNext DEF JobIInv, Summarizing
<1>8. CASE FinishSingle
  BY <1>8, SingleEnds
<1>9. CASE MergeDeterministically
  BY <1>9, MergedWithoutCall
<1>10. CASE CallMerge
  <2>1. /\ phase' = "merging" /\ UNCHANGED <<payloads, prompts>> /\ Len(payloads) = Len(prompts)
    BY <1>10 DEF CallMerge, Extracted, AllAnswered
  <2> QED
    BY <2>1, NotDoneNext DEF JobIInv, Summarizing
<1>11. CASE UNCHANGED vars
  BY <1>11, JobStays DEF vars, callVars
<1> QED
  BY <1>2, <1>3, <1>4, <1>5, <1>6, <1>7, <1>8, <1>9, <1>10, <1>11, <1>12, <1>13
  DEF Next, Plan

\* Whatever the window, the budget, the chunks and the answers: a summary that is
\* reported is the whole one.
THEOREM WholeSummary == Spec => []SummaryIsWhole
<1>1. Init => JobIInv
  BY DEF Init, JobIInv, Summarizing, SummaryIsWhole
<1>2. Init => CostIInv
  BY DEF Init, CallInit, CostIInv
<1>3. JobIInv => SummaryIsWhole
  BY DEF JobIInv
<1> QED
  BY <1>1, <1>2, <1>3, PlanInit, NextPlans, NextCost, NextJob, PTL DEF Spec

\* Nothing has been answered where nothing was asked.
NoPayload == failure = "too large" => payloads = <<>>

LEMMA NextNoPayload == CostIInv /\ JobIInv /\ NoPayload /\ [Next]_vars => NoPayload'
<1> SUFFICES ASSUME CostIInv, JobIInv, NoPayload, [Next]_vars PROVE NoPayload'
  OBVIOUS
<1>1. ASSUME UNCHANGED <<payloads, failure>> PROVE NoPayload'
  BY <1>1 DEF NoPayload
<1>2. ASSUME payloads = <<>>, UNCHANGED payloads PROVE NoPayload'
  BY <1>2 DEF NoPayload
<1>3. ASSUME NEW i, NEW u, TakePayload(i, u) \/ TakeMerge(i, u) PROVE NoPayload'
  <2>1. phase # "failed" /\ UNCHANGED failure
    BY <1>3 DEF TakePayload, TakeMerge, Summarizing
  <2> QED BY <2>1 DEF NoPayload, CostIInv
<1>4. CASE CallFailed
  BY <1>4 DEF CallFailed, Fail, NoPayload
<1>5. ASSUME NEW w, Query(w) PROVE NoPayload'
  BY <1>2, <1>5 DEF Query, JobIInv
<1>6. CASE MessageTooLarge
  BY <1>2, <1>6 DEF MessageTooLarge, Planning, JobIInv
<1> QED
  BY <1>1, <1>3, <1>4, <1>5, <1>6
  DEF Next, Plan, Describe, Render, PlaceChunk, HalveChunk, Planned, CallNext, jobVars,
      FinishSingle, MergeDeterministically, CallMerge, vars

\* Whatever the window, its pictures and the limits: a window refused for its size
\* has cost no text provider call, and has a message too many or too long.
THEOREM RefusedEarly == Spec => []RefusedBeforeTextCalls
<1>1. Init => JobIInv
  BY DEF Init, JobIInv, Summarizing, SummaryIsWhole
<1>2. Init => CostIInv /\ NoPayload
  BY DEF Init, CallInit, CostIInv, NoPayload
<1>3. CostIInv /\ NoPayload => RefusedBeforeTextCalls
  BY DEF CostIInv, TooMany, TooLong, NoPayload, RefusedBeforeTextCalls
<1> QED
  BY <1>1, <1>2, <1>3, PlanInit, NextPlans, NextCost, NextJob, NextNoPayload, PTL DEF Spec
===============================================================================
