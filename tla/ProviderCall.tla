---------------------------- MODULE ProviderCall ----------------------------
(***************************************************************************)
(* One complete() of the DeepSeek or the OpenAI-compatible provider: a     *)
(* bounded loop of POST, answer, pause.  Time is counted in half seconds.  *)
(*                                                                         *)
(*   idle      no call                                                     *)
(*   posting   a POST is out                                               *)
(*   sleeping  in _retry, before the next POST                             *)
(*   answered  complete() has returned                                     *)
(*   failed    complete() has raised                                       *)
(***************************************************************************)
EXTENDS PowersOfTwo, Sequences

CONSTANTS
    MaxRetries,  \* max_retries
    RetryAfters  \* Retry-After headers a server sends, NoHeader for none

ASSUME ProviderAssumption ==
    /\ MaxRetries \in Nat
    /\ RetryAfters \subseteq Int

VARIABLES
    provider,  \* "deepseek" or "openai_compatible"
    callState,
    attempt,   \* of the loop, from 0
    delay,     \* of the sleep it is in
    slept,     \* history: the sleeps of this call, added up
    outcomes   \* history: what each POST of this call came to

callVars == <<provider, callState, attempt, delay, slept, outcomes>>

\* A network failure, an HTTP status by its class, an unusable body, or a
\* completion.  "unavailable" stands for 500 and 503, "server" for other 5xx.
Outcomes ==
    {"timeout", "network", "auth", "payment", "request", "rate_limit",
     "unavailable", "server", "invalid", "valid"}

\* Mutant: every server error is worth a retry.
TransientServer ==
    {"timeout", "network", "rate_limit", "unavailable", "server", "invalid"}

Transient == {"timeout", "network", "rate_limit", "unavailable", "invalid"}

CallInit ==
    /\ provider \in {"deepseek", "openai_compatible"}
    /\ callState = "idle"
    /\ attempt = 0
    /\ delay = 0
    /\ slept = 0
    /\ outcomes = <<>>

StartCall ==
    /\ callState' = "posting"
    /\ attempt' = 0
    /\ delay' = 0
    /\ slept' = 0
    /\ outcomes' = <<>>
    /\ UNCHANGED provider

(***************************************************************************)
(* The pause before the next POST.  DeepSeek ignores Retry-After; the      *)
(* other provider waits for it, up to a minute, and ignores a value that   *)
(* is negative or above five minutes.                                      *)
(***************************************************************************)
NoHeader == -1
Minute == 120
Backoff == PowerOfTwo[attempt]

\* Mutant: the longest wait the parser accepts is waited for.
RetryDelayUncapped(o, header) ==
    IF header < 0 \/ header > 5 * Minute THEN Backoff
    ELSE IF header > Backoff THEN header ELSE Backoff

RetryDelay(o, header) ==
    IF \/ provider = "deepseek"
       \/ o \notin {"rate_limit", "unavailable"}
       \/ header < 0 \/ header > 5 * Minute
    THEN Backoff
    ELSE LET wish == IF header > Minute THEN Minute ELSE header
         IN  IF wish > Backoff THEN wish ELSE Backoff

Answered(o) ==
    /\ callState = "posting"
    /\ outcomes' = Append(outcomes, o)

Completes ==
    /\ Answered("valid")
    /\ callState' = "answered"
    /\ UNCHANGED <<provider, attempt, delay, slept>>

Retries(o, header) ==
    /\ Answered(o)
    /\ o \in Transient /\ attempt < MaxRetries
    /\ delay' = RetryDelay(o, header)
    /\ callState' = "sleeping"
    /\ UNCHANGED <<provider, attempt, slept>>

Raises(o) ==
    /\ Answered(o)
    /\ o # "valid"
    /\ o \in Transient => attempt = MaxRetries
    /\ callState' = "failed"
    /\ UNCHANGED <<provider, attempt, delay, slept>>

Wake ==
    /\ callState = "sleeping"
    /\ callState' = "posting"
    /\ attempt' = attempt + 1
    /\ slept' = slept + delay
    /\ delay' = 0
    /\ UNCHANGED <<provider, outcomes>>

CallStep ==
    \/ Completes
    \/ \E o \in Outcomes : Raises(o) \/ \E h \in RetryAfters : Retries(o, h)
    \/ Wake

(***************************************************************************)
(* A call makes at most MaxRetries + 1 POSTs; it goes on after failures    *)
(* another POST may cure and only those; it gives up on such a failure     *)
(* only when its POSTs are used up, and returns only a completion.         *)
(***************************************************************************)
Permanent == {"auth", "payment", "request", "server"}

RetryDiscipline ==
    LET n == Len(outcomes) IN
    /\ n <= MaxRetries + 1
    /\ \A i \in 1..n :
         outcomes[i] \in Permanent \cup {"valid"} =>
           i = n /\ callState \notin {"posting", "sleeping"}
    /\ callState = "answered" => n > 0 /\ outcomes[n] = "valid"
    /\ callState = "failed" =>
         n > 0 /\ (outcomes[n] \in Permanent \/ n = MaxRetries + 1)

\* Whatever a server asks for, a call sleeps at most a minute per retry on top
\* of its exponential back-off: no header stalls the bot.
StallBounded ==
    slept + delay < (attempt + 1) * Minute + PowerOfTwo[attempt + 1]
===============================================================================
