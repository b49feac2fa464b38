------------------------------- MODULE BotStore -------------------------------
(***************************************************************************)
(* The durable tables of the bot and the repository operations on them.    *)
(*                                                                         *)
(* Every repository method of app/storage opens one session, runs one      *)
(* SQLite transaction and commits, so each is one operator here and takes  *)
(* effect in one step of the action that calls it.  The tables survive a   *)
(* crash; nothing else does.                                               *)
(*                                                                         *)
(* A logical QQ message m stands for the key (platform, group_id,          *)
(* platform_message_id).  A payload is one received JSON body: the same    *)
(* message delivered again with another Gateway sequence number is another *)
(* payload of the same message, a byte-identical retry the same payload.   *)
(***************************************************************************)
EXTENDS Integers, FiniteSets

CONSTANTS
    Payloads,       \* the payloads QQ may deliver, each any number of times
    Messages,       \* the logical messages those payloads carry
    Groups, Users,  \* where the messages were sent, and by whom
    MessageOf,      \* [Payloads -> Messages]
    Event,          \* [Messages -> EventRecord]: what the parser extracts
    DisabledGroups, \* groups whose group_ai_configs row sets enabled = false
    MaxAttempts,    \* create_pending(max_attempts=...)
    Retention,      \* INTERACTION_OUTBOX_RETENTION_DAYS, in ticks; 0 keeps all
    MaxDeliveries,  \* bound: receipts over the whole behaviour
    MaxTime,        \* bound: the last tick
    Faults          \* the operations that may fail in this instance

(***************************************************************************)
(* What the code reads of a message.  text is the result of the exact      *)
(* command matches, at says the event is GROUP_AT_MESSAGE_CREATE (else it  *)
(* is GROUP_MESSAGE_CREATE), selfAt that an AtSegment names the bot, asks  *)
(* that the rendered user input is not empty, addressed that group_id and  *)
(* message id are present, dated that the timestamp is present and aware.  *)
(***************************************************************************)
EventRecord ==
    [group : Groups, user : Users,
     text : {"#ping", "#summary", "#qa", "other"},
     at : BOOLEAN, selfAt : BOOLEAN, asks : BOOLEAN,
     addressed : BOOLEAN, dated : BOOLEAN, sent : Int]

AssistantNames == {"grounded_qa", "mention_chat"}
Names == {"ping", "summary"} \cup AssistantNames
NoName == "none"
Triggers == Messages \X Names

ASSUME MessageAssumption ==
    /\ MessageOf \in [Payloads -> Messages]
    /\ Event \in [Messages -> EventRecord]
    \* An exact command has text segments only, so no AtSegment.
    /\ \A m \in Messages : Event[m].text # "other" => ~Event[m].selfAt
    /\ DisabledGroups \subseteq Groups
ASSUME BoundAssumption ==
    /\ MaxAttempts \in Nat \ {0}
    /\ Retention \in Nat
    /\ MaxDeliveries \in Nat
    /\ MaxTime \in Nat

VARIABLES
    rawEvents,    \* raw_events: the payloads stored, unique by payload hash
    messages,     \* messages: the payloads whose parse is stored
    outbox,       \* interaction_outbox: id -> row
    claims,       \* command_trigger_claims and assistant_trigger_claims
    interactions, \* assistant_interactions, unique per trigger
    summaries,    \* summaries: how many were stored for each message
    now,          \* the clock of the host
    phase,        \* the lifespan of the process
    cfg           \* the features the running process was started with

storeVars == <<rawEvents, messages, outbox, claims, interactions, summaries>>
processVars == <<now, phase, cfg>>

(***************************************************************************)
(* interaction_outbox.  completed_at is meaningful in a terminal row only. *)
(* A new id is max(rowid) + 1, so an id is used again after its row was    *)
(* pruned; it never exceeds the number of receipts.                        *)
(***************************************************************************)
RowIds == 1..MaxDeliveries
Statuses == {"pending", "running", "completed", "failed"}
Terminal == {"completed", "failed"}
Row == [msg : Messages, name : Names, source : Payloads, status : Statuses,
        attempts : 0..MaxAttempts, completed_at : 0..MaxTime]

RowFor(t) == {i \in DOMAIN outbox : <<outbox[i].msg, outbox[i].name>> = t}

IsNextId(id) ==
    /\ \A i \in DOMAIN outbox : i < id
    /\ id = 1 \/ id - 1 \in DOMAIN outbox

\* create_pending: insert, or find the row that holds the UNIQUE key.
CreatePending(t, source) ==
    IF RowFor(t) # {}
      THEN UNCHANGED outbox
      ELSE \E id \in RowIds :
             /\ IsNextId(id)
             /\ outbox' =
                  [i \in DOMAIN outbox \cup {id} |->
                     IF i = id
                       THEN [msg |-> t[1], name |-> t[2], source |-> source,
                             status |-> "pending", attempts |-> 0,
                             completed_at |-> 0]
                       ELSE outbox[i]]

Failed(row) == [row EXCEPT !.status = "failed", !.completed_at = now]
Exhausted(row) == row.attempts >= MaxAttempts

\* The UPDATE that opens claim_next_pending.
SweepExhausted(i) ==
    IF outbox[i].status = "pending" /\ Exhausted(outbox[i])
      THEN Failed(outbox[i])
      ELSE outbox[i]

\* Mutant: the claim takes a row another worker runs.
ClaimableWhileRunning ==
    {i \in DOMAIN outbox : SweepExhausted(i).status \in {"pending", "running"}}

Claimable == {i \in DOMAIN outbox : SweepExhausted(i).status = "pending"}
\* The row claim_next_pending selects: the least pending id.
IsNextPending(id) ==
    id \in Claimable /\ \A i \in Claimable : id <= i

ClaimNextPending(id) ==
    outbox' = [i \in DOMAIN outbox |->
                 IF i = id
                   THEN [outbox[i] EXCEPT !.status = "running",
                                          !.attempts = @ + 1]
                   ELSE SweepExhausted(i)]

\* mark_completed and mark_failed: only a running row moves.
Mark(id, status) ==
    outbox' = [i \in DOMAIN outbox |->
                 IF i = id /\ outbox[i].status = "running"
                   THEN [outbox[i] EXCEPT !.status = status,
                                          !.completed_at = now]
                   ELSE outbox[i]]

RequeueForRetry(id) ==
    outbox' = [i \in DOMAIN outbox |->
                 IF i = id /\ outbox[i].status = "running"
                   THEN IF Exhausted(outbox[i])
                          THEN Failed(outbox[i])
                          ELSE [outbox[i] EXCEPT !.status = "pending"]
                   ELSE outbox[i]]

\* Mutants: the recovery ignores the attempt limit, reopens failed rows, or
\* does not run.
RecoverExhausted ==
    outbox' = [i \in DOMAIN outbox |->
                 IF outbox[i].status = "running"
                   THEN [outbox[i] EXCEPT !.status = "pending"]
                   ELSE outbox[i]]
RecoverFailed ==
    outbox' = [i \in DOMAIN outbox |->
                 IF outbox[i].status \in {"running", "failed"} /\ ~Exhausted(outbox[i])
                   THEN [outbox[i] EXCEPT !.status = "pending"]
                   ELSE outbox[i]]
RecoverNothing == UNCHANGED outbox

RecoverStaleRunning ==
    outbox' = [i \in DOMAIN outbox |->
                 IF outbox[i].status = "running"
                   THEN IF Exhausted(outbox[i])
                          THEN Failed(outbox[i])
                          ELSE [outbox[i] EXCEPT !.status = "pending"]
                   ELSE outbox[i]]

PruneTerminal ==
    LET Old(row) == /\ Retention > 0
                    /\ row.status \in Terminal
                    /\ row.completed_at < now - Retention
    IN outbox' = [i \in {j \in DOMAIN outbox : ~Old(outbox[j])} |-> outbox[i]]

(***************************************************************************)
(* QQOfficialInteractionDispatcher.interaction_name: commands first, then  *)
(* the assistant's explicit triggers, under the features of this process.  *)
(* Ingestion calls it to name the row, the worker's handler calls it again *)
(* on the reloaded message to choose the handler.                          *)
(***************************************************************************)
Mentioned(m) == Event[m].at \/ Event[m].selfAt

CommandName(m) ==
    CASE Event[m].text = "#ping" -> "ping"
      [] Event[m].text = "#summary" /\ "summary" \in cfg -> "summary"
      [] OTHER -> NoName

\* GroupAssistantHandler.detect; reply-to-bot is off: main wires no bot_user_id.
AssistantTrigger(m) ==
    CASE "assistant" \notin cfg -> NoName
      [] "assistant" \in cfg /\ Event[m].text = "#qa" -> "grounded_qa"
      [] "assistant" \in cfg /\ Event[m].text # "#qa" /\ Mentioned(m) ->
           "mention_chat"
      [] OTHER -> NoName

InteractionName(m) ==
    IF CommandName(m) # NoName THEN CommandName(m) ELSE AssistantTrigger(m)

StoreTypeOK ==
    /\ rawEvents \subseteq Payloads
    /\ messages \subseteq Payloads
    /\ DOMAIN outbox \subseteq RowIds
    /\ outbox \in [DOMAIN outbox -> Row]
    /\ claims \subseteq Triggers
    /\ interactions \subseteq Triggers
    /\ summaries \in [Messages -> Nat]
    /\ now \in 0..MaxTime
    /\ phase \in {"down", "starting", "up", "stopping"}
    /\ cfg \subseteq {"summary", "assistant"}

StoreInit ==
    /\ rawEvents = {}
    /\ messages = {}
    /\ outbox = [i \in {} |-> 0]
    /\ claims = {}
    /\ interactions = {}
    /\ summaries = [m \in Messages |-> 0]
    /\ now = 0
    /\ phase = "down"
    /\ cfg = {}
===============================================================================
