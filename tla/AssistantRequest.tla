--------------------------- MODULE AssistantRequest ---------------------------
(***************************************************************************)
(* What a request reads: the trigger, the pictures its quote shows, the    *)
(* history before it and the pictures of that, one await after another     *)
(* while messages keep being stored.                                       *)
(*                                                                         *)
(*   idle                                                                  *)
(*   quote    the handler enriches the trigger (a mention only)            *)
(*   query    before the history is read                                   *)
(*   history  the history is read, its pictures are being described        *)
(*   done, failed                                                          *)
(***************************************************************************)
EXTENDS MessageHistory, ImageEnrichment

CONSTANTS
    MaxMessages,   \* qa_max_messages, chat_max_messages or the summary's limit
    PicturesOf(_)  \* the pictures of a message, from its nodes, in tree order

\* The trees of rows: those of stored bodies, and the one of an older release.
Trees == Range(Encoded) \cup {{}}

ASSUME RequestAssumption ==
    /\ MaxMessages \in Nat \ {0}
    /\ \A tree \in Trees :
          LET found == PicturesOf(tree)
          IN  /\ found \in Seq(Range(found))
              /\ \A i \in DOMAIN found : found[i].url \in DOMAIN Key

VARIABLE request

vars == <<historyVars, pictureVars, request>>

Kinds == {"chat", "qa", "summary"}
NoRequest == [state |-> "idle", kind |-> "none", trigger |-> 0, context |-> <<>>]

Init ==
    /\ HistoryInit
    /\ PicturesInit
    /\ request = NoRequest

Group == rows[request.trigger].group

PicturesIn(row) ==
    LET found == PicturesOf(rows[row].tree)
    IN  [i \in DOMAIN found |->
           [url |-> found[i].url, display |-> found[i].display, row |-> row]]

\* _valid_context of the handlers.
ValidTrigger(t) == rows[t].message # NoId /\ rows[t].group # NoId /\ rows[t].at # NoTime

\* The worker loads the newest row of the receipt; an assistant request opens a
\* scope, and a mention has its own pictures described first.
StartRequest(t, kind) ==
    /\ request.state \in {"idle", "done", "failed"}
    /\ serial < load.requests
    /\ t \in Newest(Versions)
    /\ ValidTrigger(t)
    /\ request' = [state |-> IF kind = "chat" THEN "quote" ELSE "query",
                   kind |-> kind, trigger |-> t, context |-> <<>>]
    /\ serial' = serial + 1
    /\ results' = <<>>
    /\ fetched' = <<>>
    /\ BeginCall(IF kind = "chat" THEN PicturesIn(t) ELSE <<>>)
    /\ IF kind = "summary" THEN UNCHANGED scope ELSE EnterScope(rows[t].group)
    /\ UNCHANGED historyVars

\* Mutant: redelivered copies of the trigger stay in its own context.
ContextOfRepeating(t) == ListConversationBefore(t, MaxMessages)

\* GroupAssistantContextBuilder.build: no delivery of the trigger itself; the
\* others stay in the order they were read in.
ContextOf(t) ==
    Sorted({i \in Range(ListConversationBefore(t, MaxMessages)) :
              rows[i].message # rows[t].message},
           EarlierReceipt)

\* Mutant: the budget is spent on the oldest messages.
EnrichmentOrderOldest(kind, context) == context

\* The assistant describes the newest messages first, the summary in order.
EnrichmentOrder(kind, context) ==
    IF kind = "summary" THEN context ELSE Reverse(context)

QueryHistory ==
    /\ \/ request.state = "query"
       \/ request.state = "quote" /\ work = <<>>
    /\ LET t == request.trigger
           context ==
             IF request.kind = "summary"
             THEN ListConversation(Group, rows[t].at - Lookback, rows[t].at,
                                   MaxMessages + 1, Versions)
             ELSE ContextOf(t)
           order == EnrichmentOrder(request.kind, context)
       IN  IF request.kind = "summary" /\ Len(context) > MaxMessages
           THEN /\ request' = [request EXCEPT !.state = "failed"]
                /\ UNCHANGED <<work, batch>>
           ELSE /\ request' = [request EXCEPT !.state = "history", !.context = context]
                /\ BeginCall(FlattenSeq([i \in DOMAIN order |-> PicturesIn(order[i])]))
    /\ UNCHANGED <<historyVars, scope, results, fetched, serial>>

DescribePicture ==
    /\ request.state \in {"quote", "history"}
    /\ Enrich(Group)
    /\ UNCHANGED <<historyVars, request>>

\* The answer is there, or the generation raised or was cancelled.
EndRequest ==
    /\ \/ /\ request.state = "history"
          /\ work = <<>>
          /\ request' = [request EXCEPT !.state = "done"]
       \/ /\ request.state \in {"quote", "query", "history"}
          /\ request' = [request EXCEPT !.state = "failed"]
    /\ IF request.kind = "summary" THEN UNCHANGED scope ELSE ExitScope
    /\ work' = <<>>
    /\ UNCHANGED <<historyVars, batch, results, fetched, serial>>

RequestStep ==
    \/ \E t \in DOMAIN rows, kind \in Kinds : StartRequest(t, kind)
    \/ QueryHistory
    \/ DescribePicture
    \/ EndRequest

Next ==
    \/ HistoryStep /\ UNCHANGED <<pictureVars, request>>
    \/ RequestStep

Spec == Init /\ [][Next]_vars

\* A started script runs on; nothing obliges QQ, the operator or the group.
FairSpec == Spec /\ WF_reparse(Script)

(***************************************************************************)
(* Properties                                                              *)
(***************************************************************************)
\* What an assistant reads before a trigger is what was sent before it: nothing
\* sent later, no delivery or parse of the trigger itself (the question would
\* answer itself), every other message of the window once and in order, and one
\* is missing only when MaxMessages others were sent after its last delivery.
ContextPrecedesTrigger ==
    \A t \in Newest(Versions) : ValidTrigger(t) =>
        LET c == ContextOf(t)
            Same(i) == rows[i].message = rows[t].message
            Full == Len(ListConversationBefore(t, MaxMessages)) = MaxMessages
        IN  /\ \A k \in DOMAIN c :
                  /\ ~Same(c[k])
                  /\ rows[c[k]].group = rows[t].group
                  /\ BeforeTrigger(c[k], t)
            /\ \A j, k \in DOMAIN c :
                  j < k => EarlierReceipt(c[j], c[k]) /\ ~SameMessage(c[j], c[k])
            /\ \A i \in Preceding(t) :
                  \/ Same(i)
                  \/ \E k \in DOMAIN c : SameMessage(c[k], i)
                  \/ Full /\ \E l \in Logical(Preceding(t)) :
                               /\ SameMessage(l, i)
                               /\ \A k \in DOMAIN c : EarlierReceipt(l, c[k])

NewerFirst(p, q) ==
    \/ p = request.trigger
    \/ q # request.trigger /\ ~EarlierReceipt(p, q)

\* The picture budget of an assistant request goes to its quote and then to the
\* newest messages: a display picture is refused only for pictures first fetched
\* there or later (what is fetched once more has its place already).
RecentPicturesFirst ==
    request.kind \in {"chat", "qa"} =>
        \A i \in DOMAIN results :
            results[i].text.of = "over_limit" =>
                \A j \in DOMAIN fetched : \E k \in DOMAIN fetched :
                    /\ fetched[k].key = fetched[j].key
                    /\ NewerFirst(fetched[k].row, results[i].picture.row)
===============================================================================
