---------------------------- MODULE SummaryService ----------------------------
(***************************************************************************)
(* SummaryService.summarize for one window of one group, over the provider *)
(* calls of ProviderCall.  A message is its rendered length; a prompt is   *)
(* the interval <<first, last>> of the messages it holds; a payload is the *)
(* items a completion lists (topics, key points, ...) and its token usage. *)
(* What becomes of each picture is in ImageEnrichment; here a picture is   *)
(* the message it is in, which its description makes longer or, in place   *)
(* of a summary QQ gave, shorter.                                          *)
(*                                                                         *)
(*   idle        before the query                                          *)
(*   enriching   the pictures of the window are described                  *)
(*   single      the window fits one prompt                                *)
(*   planning    in _chunk_prompts                                         *)
(*   extracting  the chunks are summarised in turn                         *)
(*   merging     the provider merges the chunk summaries                   *)
(*   done, failed                                                          *)
(***************************************************************************)
EXTENDS ProviderCall, SequencesExt

CONSTANTS
    MaxMessages,   \* the limit of the request
    ChunkMessages, \* chunk_messages
    Budgets,       \* max_input_chars, as configured or overridden for the group
    Windows,       \* what the query may return, at most one message too many:
                   \* its rendered lengths and the messages of its pictures
    Described,     \* rendered lengths of a message with a description in it
    WindowFrame,   \* length of a prompt around the whole window,
    ChunkFrame,    \* a chunk (its timestamps may print shorter),
    MergeFrame,    \* and the chunk summaries
    Contents,      \* item lists a completion may hold
    Usages         \* token counts it may report, NoUsage for none

NoUsage == -1

ASSUME SummaryAssumption ==
    /\ MaxMessages \in Nat \ {0}
    /\ ChunkMessages \in 1..MaxMessages
    /\ \A w \in Windows :
         w.chars \in Seq(Nat) /\ w.pictures \in Seq(1..Len(w.chars))
    /\ Described \subseteq Nat
    /\ \A c \in Contents : c \in Seq(ToSet(c))
    /\ Usages \subseteq Nat \cup {NoUsage}

VARIABLES
    phase,    \* where summarize is
    window,   \* messages
    budget,   \* max_input_chars
    pictures, \* pictures enrich_messages has still to reach, in order
    looked,   \* history: vision provider calls of the job
    pending,  \* chunks append_chunk still has to place, first one first
    prompts,  \* prompts
    payloads, \* the validated completions, in order
    failure,  \* the exception that ended the job
    result    \* the SummaryResult, NoResult before

pictureVars == <<pictures, looked>>
jobVars == <<phase, window, budget, pictureVars, pending, prompts, payloads, failure,
             result>>
vars == <<callVars, jobVars>>

NoResult == [count |-> 0, items |-> <<>>, tokens |-> NoUsage, how |-> "none"]

Init ==
    /\ CallInit
    /\ phase = "idle"
    /\ window = <<>>
    /\ budget \in Budgets
    /\ pictures = <<>>
    /\ looked = 0
    /\ pending = <<>>
    /\ prompts = <<>>
    /\ payloads = <<>>
    /\ failure = "none"
    /\ result = NoResult

PromptChars(w, frame, c) == FoldSeq(+, frame, SubSeq(w, c[1], c[2]))
Chars(frame, c) == PromptChars(window, frame, c)

\* Mutant: the last, shorter chunk is forgotten.
SplitMessagesEven(n) ==
    [k \in 1..(n \div ChunkMessages) |->
       <<(k - 1) * ChunkMessages + 1, k * ChunkMessages>>]

SplitMessages(n) ==
    [k \in 1..((n + ChunkMessages - 1) \div ChunkMessages) |->
       <<(k - 1) * ChunkMessages + 1,
         IF k * ChunkMessages > n THEN n ELSE k * ChunkMessages>>]

Fail(why) ==
    /\ phase' = "failed"
    /\ failure' = why

Finish(items, tokens, how) ==
    /\ phase' = "done"
    /\ result' = [count |-> Len(window), items |-> items, tokens |-> tokens,
                  how |-> how]

\* With an image_enrichment_service or without one.
Query(w) ==
    /\ phase = "idle"
    /\ window' = w.chars
    /\ IF Len(w.chars) > MaxMessages
       THEN Fail("too large") /\ UNCHANGED pictures
       ELSE IF w.chars = <<>>
       THEN phase' = "done" /\ UNCHANGED <<pictures, failure>>
       ELSE /\ phase' = "enriching"
            /\ pictures' \in {w.pictures, <<>>}
            /\ UNCHANGED failure
    /\ UNCHANGED <<callVars, budget, looked, pending, prompts, payloads, result>>

\* One picture of enrich_messages: a failed download, a picture seen before and
\* one over the limit cost no call, and no failure leaves it.
Describe(chars, calls) ==
    /\ phase = "enriching"
    /\ pictures # <<>>
    /\ window' = [window EXCEPT ![Head(pictures)] = chars]
    /\ pictures' = Tail(pictures)
    /\ looked' = looked + calls
    /\ UNCHANGED <<callVars, phase, budget, pending, prompts, payloads, failure,
                   result>>

Render ==
    /\ phase = "enriching"
    /\ pictures = <<>>
    /\ LET whole == <<1, Len(window)>>
       IN  \/ /\ Chars(WindowFrame, whole) <= budget
              /\ phase' = "single"
              /\ prompts' = <<whole>>
              /\ UNCHANGED pending
           \/ /\ Chars(WindowFrame, whole) > budget
              /\ phase' = "planning"
              /\ pending' = SplitMessages(Len(window))
              /\ UNCHANGED prompts
    /\ UNCHANGED <<callVars, window, budget, pictureVars, payloads, failure, result>>

(***************************************************************************)
(* append_chunk: place the first pending chunk, or halve it.  The calls of *)
(* the recursion are the sequence pending.                                 *)
(***************************************************************************)
Planning == phase = "planning" /\ pending # <<>>
Fits(c) == Chars(ChunkFrame, c) <= budget
NextFits == Fits(Head(pending))
SingleMessage(c) == c[1] = c[2]

PlaceChunk ==
    /\ Planning
    /\ NextFits
    /\ prompts' = Append(prompts, Head(pending))
    /\ pending' = Tail(pending)
    /\ UNCHANGED <<callVars, phase, window, budget, pictureVars, payloads, failure,
                   result>>

\* chunk[:middle] and chunk[middle:].
Halves(c) ==
    LET m == c[1] + (c[2] - c[1] + 1) \div 2
    IN  <<<<c[1], m - 1>>, <<m, c[2]>>>>

HalveChunk ==
    /\ Planning
    /\ ~NextFits
    /\ ~SingleMessage(Head(pending))
    /\ pending' = Halves(Head(pending)) \o Tail(pending)
    /\ UNCHANGED <<callVars, phase, window, budget, pictureVars, prompts, payloads,
                   failure, result>>

MessageTooLarge ==
    /\ Planning
    /\ ~NextFits
    /\ SingleMessage(Head(pending))
    /\ Fail("too large")
    /\ UNCHANGED <<callVars, window, budget, pictureVars, pending, prompts, payloads,
                   result>>

Planned ==
    /\ phase = "planning"
    /\ pending = <<>>
    /\ phase' = "extracting"
    /\ UNCHANGED <<callVars, window, budget, pictureVars, pending, prompts, payloads,
                   failure, result>>

(***************************************************************************)
(* The calls: one per prompt, in order; any failure ends the job.          *)
(***************************************************************************)
\* Mutant: a prompt is sent as soon as it is planned.
SummarizingLazily == phase \in {"single", "planning", "extracting"}

Summarizing == phase \in {"single", "extracting"}
AllAnswered == Len(payloads) = Len(prompts)

CallNext ==
    /\ Summarizing
    /\ callState = "idle"
    /\ ~AllAnswered
    /\ StartCall
    /\ UNCHANGED jobVars

\* _validate_summary_payload accepts the completion.
Validated(items, usage) ==
    /\ callState = "answered"
    /\ callState' = "idle"
    /\ payloads' = Append(payloads, [items |-> items, usage |-> usage])
    /\ UNCHANGED <<provider, attempt, delay, slept, outcomes>>

TakePayload(items, usage) ==
    /\ Summarizing
    /\ Validated(items, usage)
    /\ UNCHANGED <<phase, window, budget, pictureVars, pending, prompts, failure, result>>

\* Mutant: the failure of the merge call is not handled.
CallFailedExtracting ==
    /\ Summarizing
    /\ \/ callState = "failed" /\ Fail("provider")
       \/ callState = "answered" /\ Fail("schema")
    /\ UNCHANGED <<callVars, window, budget, pictureVars, pending, prompts, payloads,
                   result>>

CallFailed ==
    /\ Summarizing \/ phase = "merging"
    /\ \/ callState = "failed" /\ Fail("provider")
       \/ callState = "answered" /\ Fail("schema")
    /\ UNCHANGED <<callVars, window, budget, pictureVars, pending, prompts, payloads,
                   result>>

\* Mutant: usages that are reported are added up.
TotalUsageKnown(ps) ==
    FoldSeq(+, 0, [i \in DOMAIN ps |-> IF ps[i].usage = NoUsage THEN 0 ELSE ps[i].usage])

\* total_usage: unknown if any completion does not report it.
TotalUsage(ps) ==
    IF \E i \in DOMAIN ps : ps[i].usage = NoUsage
    THEN NoUsage
    ELSE FoldSeq(+, 0, [i \in DOMAIN ps |-> ps[i].usage])

Deduplicated(s) ==
    FoldLeft(LAMBDA seen, x : IF Contains(seen, x) THEN seen ELSE Append(seen, x),
             <<>>, s)

UnionPayloads(ps) == Deduplicated(FlattenSeq([i \in DOMAIN ps |-> ps[i].items]))

FinishSingle ==
    /\ phase = "single"
    /\ AllAnswered
    /\ Finish(payloads[1].items, payloads[1].usage, "single")
    /\ UNCHANGED <<callVars, window, budget, pictureVars, pending, prompts, payloads,
                   failure>>

MergeChars ==
    FoldSeq(LAMBDA p, n : n + 1 + Len(p.items), MergeFrame, payloads)

Extracted == phase = "extracting" /\ AllAnswered

\* The merge prompt is over the budget: no provider call.
MergeDeterministically ==
    /\ Extracted
    /\ MergeChars > budget
    /\ Finish(UnionPayloads(payloads), TotalUsage(payloads), "deterministic_merge")
    /\ UNCHANGED <<callVars, window, budget, pictureVars, pending, prompts, payloads,
                   failure>>

CallMerge ==
    /\ Extracted
    /\ MergeChars <= budget
    /\ StartCall
    /\ phase' = "merging"
    /\ UNCHANGED <<window, budget, pictureVars, pending, prompts, payloads,
                   failure, result>>

TakeMerge(items, usage) ==
    /\ phase = "merging"
    /\ Validated(items, usage)
    /\ Finish(items, TotalUsage(payloads'), "merged")
    /\ UNCHANGED <<window, budget, pictureVars, pending, prompts, failure>>

Plan == PlaceChunk \/ HalveChunk \/ MessageTooLarge \/ Planned

Next ==
    \/ \E w \in Windows : Query(w)
    \/ \E n \in Described, calls \in {0, 1} : Describe(n, calls)
    \/ Render
    \/ Plan
    \/ CallNext
    \/ CallStep /\ UNCHANGED jobVars
    \/ \E i \in Contents, u \in Usages : TakePayload(i, u) \/ TakeMerge(i, u)
    \/ CallFailed
    \/ FinishSingle
    \/ MergeDeterministically
    \/ CallMerge

Spec == Init /\ [][Next]_vars

\* The event loop runs every ready task and the HTTP client times a request
\* out: whatever the job waits for comes.
FairSpec == Spec /\ WF_vars(Next)

-----------------------------------------------------------------------------
\* The intervals s cover 1..n in order, without a gap or an overlap.
Tiles(s, n) ==
    /\ s # <<>>
    /\ s[1][1] = 1
    /\ s[Len(s)][2] = n
    /\ \A i \in DOMAIN s : s[i][1] <= s[i][2]
    /\ \A i \in 1..(Len(s) - 1) : s[i + 1][1] = s[i][2] + 1

\* What is sent to the provider is the whole window: every message is in
\* exactly one prompt, in its order, however the window had to be cut up, and
\* every chunk is within the budget (_chunk_prompts).
ChunksTile ==
    phase \in {"extracting", "merging"} =>
      /\ Tiles(prompts, Len(window))
      /\ \A i \in DOMAIN prompts : Fits(prompts[i])

(***************************************************************************)
(* A window is refused for its size before any text provider call, as      *)
(* _chunk_prompts promises ("Validate every chunk before making any text   *)
(* provider calls"), and for cause: it has a message too many, seen before *)
(* any picture was looked at, or a message that fills a prompt of its own. *)
(* Vision calls are another matter: enrich_messages comes first, and what  *)
(* it describes may be what makes the message too long.                    *)
(***************************************************************************)
RefusedBeforeTextCalls ==
    failure = "too large" =>
      /\ callState = "idle" /\ outcomes = <<>> /\ payloads = <<>>
      /\ \/ Len(window) > MaxMessages /\ looked = 0
         \/ \E i \in DOMAIN window : ~Fits(<<i, i>>)

\* The tokens the text provider calls took, as far as each reports them.
TokensOf(ps) ==
    IF \E i \in DOMAIN ps : ps[i].usage = NoUsage THEN NoUsage
    ELSE FoldSeq(LAMBDA p, n : p.usage + n, 0, ps)

Items == UNION {ToSet(c) : c \in Contents}

\* Everything the payloads say and nothing else, each item where it is said first.
SaysAll(merged, ps) ==
    LET all == FlattenSeq([i \in DOMAIN ps |-> ps[i].items])
        First(x) == CHOOSE k \in DOMAIN all : all[k] = x /\ \A l \in 1..(k - 1) : all[l] # x
    IN  /\ \A x \in Items : (\E i \in DOMAIN ps : Contains(ps[i].items, x)) <=> Contains(merged, x)
        /\ \A k, l \in DOMAIN merged : k < l => First(merged[k]) < First(merged[l])

(***************************************************************************)
(* A summary is reported only when every prompt was answered.  It counts   *)
(* the whole window; a deterministic merge keeps each item of each chunk   *)
(* once, in the order of first mention; a token count is the sum over all  *)
(* text calls that led to the summary, unknown as soon as one is (vision   *)
(* calls are in no count).                                                 *)
(***************************************************************************)
SummaryIsWhole ==
    phase = "done" /\ window # <<>> =>
      /\ result.count = Len(window)
      /\ Len(payloads) = Len(prompts) + (IF result.how = "merged" THEN 1 ELSE 0)
      /\ result.tokens = TokensOf(payloads)
      /\ result.how = "deterministic_merge" => SaysAll(result.items, payloads)

\* Every requested summary is eventually delivered or refused.
SummaryEnds == <>(phase \in {"done", "failed"})
===============================================================================
