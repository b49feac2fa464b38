--------------------------- MODULE InteractionWorker ---------------------------
(***************************************************************************)
(* InteractionOutboxWorker: the pool that drains the outbox, and the       *)
(* handlers it calls (PingCommandHandler, SummaryCommandHandler,           *)
(* GroupAssistantHandler).  A worker is one asyncio task; its program      *)
(* counter names the await it is suspended at, so one action is the code   *)
(* between two awaits and the interleavings are those of the event loop.   *)
(*                                                                         *)
(*   idle      top of _worker_loop, or sleeping in _wait_for_work          *)
(*   claiming  claim_next_pending                                          *)
(*   load      _load_message                                               *)
(*   queued    waiting for the semaphore                                   *)
(*   check     _delivered_interaction, before the handler                  *)
(*   handle    group configuration and the trigger claim of the handler    *)
(*   gate      between the committed claim and the in-memory gates         *)
(*   generate  the LLM call                                                *)
(*   persist   SummaryRepository.persist                                   *)
(*   send      send_group_message, access token                            *)
(*   sent      send_group_message, the POST is out                         *)
(*   turn      insert_successful_interaction                               *)
(*   record    mark_* inside the semaphore                                 *)
(*   settle    mark_completed after the semaphore was released             *)
(***************************************************************************)
EXTENDS BotStore

CONSTANTS
    Workers,           \* the num_workers tasks
    MaxConcurrent,     \* permits of the semaphore
    Window,            \* the passive reply window of five minutes, in ticks
    SummaryCooldown, AssistantCooldown

ASSUME WorkerAssumption ==
    /\ IsFiniteSet(Workers)
    /\ MaxConcurrent \in Nat \ {0}
    /\ Window \in Nat \ {0}
    /\ SummaryCooldown \in Nat
    /\ AssistantCooldown \in Nat

VARIABLES
    pc,               \* [Workers -> Steps]
    job,              \* [Workers -> Job]: the claimed row as it was read
    route,            \* [Workers -> Names or NoName]: the handler chosen
    reply,            \* [Workers -> Replies]: what the handler sends
    verdict,          \* [Workers -> how the row is to be marked]
    permits,          \* the semaphore's value
    activeGroups,     \* SummaryCommandHandler._active_groups
    summaryStarted,   \* SummaryCommandHandler._last_started
    assistantStarted, \* GroupAssistantHandler._last_started
    posts,            \* external: POSTs made for each trigger
    delivered         \* external: the reply QQ accepted for each trigger

platformVars == <<posts, delivered>>
gateVars == <<activeGroups, summaryStarted, assistantStarted>>
workerVars == <<pc, job, route, reply, verdict, permits, gateVars, platformVars>>

Steps == {"idle", "claiming", "load", "queued", "check", "handle", "gate",
          "generate", "persist", "send", "sent", "turn", "record", "settle"}
Replies == {"none", "pong", "digest", "usage", "answer", "apology"}
\* The steps inside "async with self._semaphore".
InSemaphore == {"check", "handle", "gate", "generate", "persist", "send",
                "sent", "turn", "record"}
\* The steps of a handler that owns the claim and has not called QQ yet.
BeforePost == {"gate", "generate", "persist", "send"}

NoJob == [id |-> 0, msg |-> "none", name |-> NoName, source |-> "none"]
Job == [id : RowIds, msg : Messages, name : Names, source : Payloads]
Never == -1

WorkerTypeOK ==
    /\ pc \in [Workers -> Steps]
    /\ job \in [Workers -> Job \cup {NoJob}]
    /\ \A w \in Workers : job[w] = NoJob <=> pc[w] \in {"idle", "claiming"}
    /\ route \in [Workers -> Names \cup {NoName}]
    /\ \A w \in Workers :
          pc[w] \in BeforePost \cup {"sent", "turn"} => route[w] \in Names
    /\ reply \in [Workers -> Replies]
    /\ verdict \in [Workers -> {"none"} \cup Terminal]
    /\ \A w \in Workers : pc[w] \in {"record", "settle"} => verdict[w] \in Terminal
    /\ permits \in Nat
    /\ activeGroups \subseteq Groups
    /\ summaryStarted \in [Groups -> 0..MaxTime \cup {Never}]
    /\ assistantStarted \in [Groups \X Users -> 0..MaxTime \cup {Never}]
    /\ posts \in [Triggers -> Nat]
    /\ delivered \in [Triggers -> Replies]

WorkersIdle ==
    /\ pc = [w \in Workers |-> "idle"]
    /\ job = [w \in Workers |-> NoJob]
    /\ route = [w \in Workers |-> NoName]
    /\ reply = [w \in Workers |-> "none"]
    /\ verdict = [w \in Workers |-> "none"]
    /\ permits = MaxConcurrent
    /\ activeGroups = {}
    /\ summaryStarted = [g \in Groups |-> Never]
    /\ assistantStarted = [k \in Groups \X Users |-> Never]

\* The tasks are gone, and with them all that the handlers held in memory.
WorkersLost ==
    /\ pc' = [w \in Workers |-> "idle"]
    /\ job' = [w \in Workers |-> NoJob]
    /\ route' = [w \in Workers |-> NoName]
    /\ reply' = [w \in Workers |-> "none"]
    /\ verdict' = [w \in Workers |-> "none"]
    /\ permits' = MaxConcurrent
    /\ activeGroups' = {}
    /\ summaryStarted' = [g \in Groups |-> Never]
    /\ assistantStarted' = [k \in Groups \X Users |-> Never]

PlatformInit ==
    /\ posts = [t \in Triggers |-> 0]
    /\ delivered = [t \in Triggers |-> "none"]

-------------------------------------------------------------------------------
Target(w) == <<job[w].msg, route[w]>>
Ev(w) == Event[job[w].msg]
Requester(w) == <<Ev(w).group, Ev(w).user>>

GoTo(w, step) == pc' = [pc EXCEPT ![w] = step]

\* Back to the loop: the task forgets the row.
Forget(w) ==
    /\ GoTo(w, "idle")
    /\ job' = [job EXCEPT ![w] = NoJob]
    /\ route' = [route EXCEPT ![w] = NoName]
    /\ reply' = [reply EXCEPT ![w] = "none"]
    /\ verdict' = [verdict EXCEPT ![w] = "none"]

\* The handler has an outcome that is not a success; it leaves the semaphore
\* only after mark_failed.
GiveUp(w) ==
    /\ GoTo(w, "record")
    /\ verdict' = [verdict EXCEPT ![w] = "failed"]
    /\ UNCHANGED <<job, route, reply, permits>>

\* The handler succeeded: the async with block ends before the row is marked.
Succeed(w) ==
    /\ GoTo(w, "settle")
    /\ verdict' = [verdict EXCEPT ![w] = "completed"]
    /\ permits' = permits + 1
    /\ UNCHANGED <<job, route, reply>>

\* "while not self._stop.is_set()"
Poll(w) ==
    /\ pc[w] = "idle"
    /\ phase \in {"starting", "up"}
    /\ GoTo(w, "claiming")
    /\ UNCHANGED <<job, route, reply, verdict, permits, gateVars, platformVars,
                   storeVars>>

\* The stop event may be set since Poll; the claim happens all the same.
ClaimRow(w) ==
    /\ pc[w] = "claiming"
    /\ \E id \in DOMAIN outbox :
         /\ IsNextPending(id)
         /\ ClaimNextPending(id)
         /\ job' = [job EXCEPT ![w] = [id |-> id, msg |-> outbox[id].msg,
                                       name |-> outbox[id].name,
                                       source |-> outbox[id].source]]
    /\ GoTo(w, "load")
    /\ UNCHANGED <<route, reply, verdict, permits, gateVars, platformVars,
                   rawEvents, messages, claims, interactions, summaries>>

\* claim_next_pending found no row that may still be tried.
NothingPending(w) ==
    /\ pc[w] = "claiming"
    /\ Claimable = {}
    /\ outbox' = [i \in DOMAIN outbox |-> SweepExhausted(i)]
    /\ GoTo(w, "idle")
    /\ UNCHANGED <<job, route, reply, verdict, permits, gateVars, platformVars,
                   rawEvents, messages, claims, interactions, summaries>>

PollFails(w) ==
    /\ "poll" \in Faults
    /\ pc[w] = "claiming"
    /\ GoTo(w, "idle")
    /\ UNCHANGED <<job, route, reply, verdict, permits, gateVars, platformVars,
                   storeVars>>

\* _load_message: the stored parse, else the raw payload parsed again.
Load(w) ==
    /\ pc[w] = "load"
    /\ LET found == job[w].source \in messages \cup rawEvents
       IN /\ GoTo(w, IF found THEN "queued" ELSE "settle")
          /\ verdict' = [verdict EXCEPT ![w] = IF found THEN "none" ELSE "failed"]
    /\ UNCHANGED <<job, route, reply, permits, gateVars, platformVars, storeVars>>

\* The read raised before any handler ran: the row goes back to pending.
LoadFails(w) ==
    /\ "load" \in Faults
    /\ pc[w] = "load"
    /\ RequeueForRetry(job[w].id)
    /\ Forget(w)
    /\ UNCHANGED <<permits, gateVars, platformVars, rawEvents, messages, claims,
                   interactions, summaries>>

\* The requeue raised as well: _worker_loop leaves the row running.
RequeueFails(w) ==
    /\ {"load", "requeue"} \subseteq Faults
    /\ pc[w] = "load"
    /\ Forget(w)
    /\ UNCHANGED <<permits, gateVars, platformVars, storeVars>>

Acquire(w) ==
    /\ pc[w] = "queued"
    /\ permits > 0
    /\ permits' = permits - 1
    /\ GoTo(w, "check")
    /\ UNCHANGED <<job, route, reply, verdict, gateVars, platformVars, storeVars>>

\* Mutant: the lookup uses the handler's name, not chosen yet, for the row's.
AlreadyDeliveredOnRoute(w) == Target(w) \in interactions

\* _delivered_interaction: a recorded turn for the row's own trigger.
AlreadyDelivered(w) ==
    /\ job[w].name \in AssistantNames
    /\ <<job[w].msg, job[w].name>> \in interactions
Expired(w) == ~Ev(w).dated \/ now - Ev(w).sent >= Window

\* Reconciliation after a restart: the answer went out, only the row is late.
Reconcile(w) ==
    /\ pc[w] = "check"
    /\ AlreadyDelivered(w)
    /\ GoTo(w, "record")
    /\ verdict' = [verdict EXCEPT ![w] = "completed"]
    /\ UNCHANGED <<job, route, reply, permits, gateVars, platformVars, storeVars>>

Expire(w) ==
    /\ pc[w] = "check"
    /\ ~AlreadyDelivered(w)
    /\ Expired(w)
    /\ GiveUp(w)
    /\ UNCHANGED <<gateVars, platformVars, storeVars>>

\* dispatcher.handle names the interaction again, under this process's features.
Dispatch(w) ==
    /\ pc[w] = "check"
    /\ ~AlreadyDelivered(w)
    /\ ~Expired(w)
    /\ GoTo(w, "handle")
    /\ route' = [route EXCEPT ![w] = InteractionName(job[w].msg)]
    /\ UNCHANGED <<job, reply, verdict, permits, gateVars, platformVars, storeVars>>

\* find_for_trigger raised: the permit is returned, the row stays running.
\* Commands have no turn to look up.
LookupFails(w) ==
    /\ "lookup" \in Faults
    /\ job[w].name \in AssistantNames
    /\ pc[w] = "check"
    /\ permits' = permits + 1
    /\ Forget(w)
    /\ UNCHANGED <<gateVars, platformVars, storeVars>>

(***************************************************************************)
(* The handlers.  Commands run on GROUP_MESSAGE_CREATE only; a summary     *)
(* also asks the group's configuration.                                    *)
(***************************************************************************)
Runnable(w) ==
    /\ route[w] # NoName
    /\ route[w] \in {"ping", "summary"} => ~Ev(w).at
    /\ route[w] = "summary" => Ev(w).group \notin DisabledGroups

Decline(w) ==
    /\ pc[w] = "handle"
    /\ ~Runnable(w)
    /\ GiveUp(w)
    /\ UNCHANGED <<gateVars, platformVars, storeVars>>

\* The claim, or the read of the group configuration before it, raised.
ClaimFails(w) ==
    /\ "claim" \in Faults
    /\ pc[w] = "handle"
    /\ Runnable(w)
    /\ GiveUp(w)
    /\ UNCHANGED <<gateVars, platformVars, storeVars>>

\* The trigger was claimed before, in this life or an earlier one: DUPLICATE.
Duplicate(w) ==
    /\ pc[w] = "handle"
    /\ Runnable(w)
    /\ Target(w) \in claims
    /\ GiveUp(w)
    /\ UNCHANGED <<gateVars, platformVars, storeVars>>

\* Mutants: the claim is not unique, or is keyed on the name in the row.
ClaimTriggerAgain(w) ==
    /\ pc[w] = "handle"
    /\ Runnable(w)
    /\ claims' = claims \cup {Target(w)}
    /\ GoTo(w, IF route[w] = "ping" THEN "send" ELSE "gate")
    /\ reply' = [reply EXCEPT ![w] = IF route[w] = "ping" THEN "pong" ELSE "none"]
    /\ UNCHANGED <<job, route, verdict, permits, gateVars, platformVars,
                   rawEvents, messages, outbox, interactions, summaries>>
ClaimTriggerByRow(w) ==
    /\ pc[w] = "handle"
    /\ Runnable(w)
    /\ <<job[w].msg, job[w].name>> \notin claims
    /\ claims' = claims \cup {<<job[w].msg, job[w].name>>}
    /\ GoTo(w, IF route[w] = "ping" THEN "send" ELSE "gate")
    /\ reply' = [reply EXCEPT ![w] = IF route[w] = "ping" THEN "pong" ELSE "none"]
    /\ UNCHANGED <<job, route, verdict, permits, gateVars, platformVars,
                   rawEvents, messages, outbox, interactions, summaries>>

ClaimTrigger(w) ==
    /\ pc[w] = "handle"
    /\ Runnable(w)
    /\ Target(w) \notin claims
    /\ claims' = claims \cup {Target(w)}
    /\ GoTo(w, IF route[w] = "ping" THEN "send" ELSE "gate")
    /\ reply' = [reply EXCEPT ![w] = IF route[w] = "ping" THEN "pong" ELSE "none"]
    /\ UNCHANGED <<job, route, verdict, permits, gateVars, platformVars,
                   rawEvents, messages, outbox, interactions, summaries>>

Cooling(started, cooldown) == started # Never /\ now - started < cooldown

\* A group being summarised, or summarised a moment ago, refuses the claim's owner.
SummaryRefused(w) ==
    /\ pc[w] = "gate"
    /\ route[w] = "summary"
    /\ \/ Ev(w).group \in activeGroups
       \/ Cooling(summaryStarted[Ev(w).group], SummaryCooldown)
    /\ GiveUp(w)
    /\ UNCHANGED <<gateVars, platformVars, storeVars>>

SummaryBegins(w) ==
    /\ pc[w] = "gate"
    /\ route[w] = "summary"
    /\ Ev(w).group \notin activeGroups
    /\ ~Cooling(summaryStarted[Ev(w).group], SummaryCooldown)
    /\ activeGroups' = activeGroups \cup {Ev(w).group}
    /\ summaryStarted' = [summaryStarted EXCEPT ![Ev(w).group] = now]
    /\ GoTo(w, "generate")
    /\ UNCHANGED <<job, route, reply, verdict, permits, assistantStarted,
                   platformVars, storeVars>>

\* An empty question gets the usage text and touches no cooldown.
SendUsage(w) ==
    /\ pc[w] = "gate"
    /\ route[w] \in AssistantNames
    /\ ~Ev(w).asks
    /\ reply' = [reply EXCEPT ![w] = "usage"]
    /\ GoTo(w, "send")
    /\ UNCHANGED <<job, route, verdict, permits, gateVars, platformVars, storeVars>>

AssistantRefused(w) ==
    /\ pc[w] = "gate"
    /\ route[w] \in AssistantNames
    /\ Ev(w).asks
    /\ Cooling(assistantStarted[Requester(w)], AssistantCooldown)
    /\ GiveUp(w)
    /\ UNCHANGED <<gateVars, platformVars, storeVars>>

AssistantBegins(w) ==
    /\ pc[w] = "gate"
    /\ route[w] \in AssistantNames
    /\ Ev(w).asks
    /\ ~Cooling(assistantStarted[Requester(w)], AssistantCooldown)
    /\ assistantStarted' = [assistantStarted EXCEPT ![Requester(w)] = now]
    /\ GoTo(w, "generate")
    /\ UNCHANGED <<job, route, reply, verdict, permits, activeGroups,
                   summaryStarted, platformVars, storeVars>>

\* Mutant: no finally.
LeaveGroupForgotten(w) == UNCHANGED gateVars

\* "finally: self._active_groups.discard(key)" of the summary handler.
LeaveGroup(w) ==
    /\ activeGroups' = IF route[w] = "summary"
                         THEN activeGroups \ {Ev(w).group}
                         ELSE activeGroups
    /\ UNCHANGED <<summaryStarted, assistantStarted>>

\* Mutant: the summary is sent before it is stored.
GenerateThenSend(w) ==
    /\ pc[w] = "generate"
    /\ GoTo(w, "send")
    /\ reply' = [reply EXCEPT ![w] =
                    IF route[w] = "summary" THEN "digest" ELSE "answer"]
    /\ UNCHANGED <<job, route, verdict, permits, gateVars, platformVars, storeVars>>

Generate(w) ==
    /\ pc[w] = "generate"
    /\ GoTo(w, IF route[w] = "summary" THEN "persist" ELSE "send")
    /\ reply' = [reply EXCEPT ![w] =
                    IF route[w] = "summary" THEN "digest" ELSE "answer"]
    /\ UNCHANGED <<job, route, verdict, permits, gateVars, platformVars, storeVars>>

\* A failed summary sends nothing; a failed answer sends the apology.
SummaryGenerationFails(w) ==
    /\ "llm" \in Faults
    /\ pc[w] = "generate"
    /\ route[w] = "summary"
    /\ LeaveGroup(w)
    /\ GiveUp(w)
    /\ UNCHANGED <<platformVars, storeVars>>

AnswerGenerationFails(w) ==
    /\ "llm" \in Faults
    /\ pc[w] = "generate"
    /\ route[w] \in AssistantNames
    /\ reply' = [reply EXCEPT ![w] = "apology"]
    /\ GoTo(w, "send")
    /\ UNCHANGED <<job, route, verdict, permits, gateVars, platformVars, storeVars>>

PersistSummary(w) ==
    /\ pc[w] = "persist"
    /\ summaries' = [summaries EXCEPT ![job[w].msg] = @ + 1]
    /\ GoTo(w, "send")
    /\ UNCHANGED <<job, route, reply, verdict, permits, gateVars, platformVars,
                   rawEvents, messages, outbox, claims, interactions>>

PersistFails(w) ==
    /\ "persist" \in Faults
    /\ pc[w] = "persist"
    /\ LeaveGroup(w)
    /\ GiveUp(w)
    /\ UNCHANGED <<platformVars, storeVars>>

(***************************************************************************)
(* send_group_message.  QQ takes the POST or refuses it when it arrives;   *)
(* the answer to the bot may still be lost, late or ambiguous (201, 202,   *)
(* a body without an id), which the sender reports as a failure.           *)
(***************************************************************************)
TokenFails(w) ==
    /\ "token" \in Faults
    /\ pc[w] = "send"
    /\ LeaveGroup(w)
    /\ GiveUp(w)
    /\ UNCHANGED <<platformVars, storeVars>>

Post(w) ==
    /\ pc[w] = "send"
    /\ posts' = [posts EXCEPT ![Target(w)] = @ + 1]
    /\ \/ delivered' = [delivered EXCEPT ![Target(w)] = reply[w]]
       \/ "refused" \in Faults /\ UNCHANGED delivered
    /\ GoTo(w, "sent")
    /\ UNCHANGED <<job, route, reply, verdict, permits, gateVars, storeVars>>

\* Mutant: an ambiguous answer counts as success.
SendUnconfirmedSucceeds(w) ==
    /\ pc[w] = "sent"
    /\ delivered[Target(w)] = "none" \/ "unconfirmed" \in Faults
    /\ LeaveGroup(w)
    /\ Succeed(w)
    /\ UNCHANGED <<platformVars, storeVars>>

SendUnconfirmed(w) ==
    /\ pc[w] = "sent"
    /\ delivered[Target(w)] = "none" \/ "unconfirmed" \in Faults
    /\ LeaveGroup(w)
    /\ GiveUp(w)
    /\ UNCHANGED <<platformVars, storeVars>>

\* The confirmed answer is stored as a turn before the handler succeeds.
AnswerConfirmed(w) ==
    /\ pc[w] = "sent"
    /\ delivered[Target(w)] # "none"
    /\ reply[w] = "answer"
    /\ GoTo(w, "turn")
    /\ UNCHANGED <<job, route, reply, verdict, permits, gateVars, platformVars,
                   storeVars>>

\* Mutant: the apology counts as success.
AnyReplyConfirmed(w) ==
    /\ pc[w] = "sent"
    /\ delivered[Target(w)] # "none"
    /\ reply[w] # "answer"
    /\ LeaveGroup(w)
    /\ Succeed(w)
    /\ UNCHANGED <<platformVars, storeVars>>

\* pong, digest and usage have nothing left to do.
ReplyConfirmed(w) ==
    /\ pc[w] = "sent"
    /\ delivered[Target(w)] # "none"
    /\ reply[w] \in {"pong", "digest", "usage"}
    /\ LeaveGroup(w)
    /\ Succeed(w)
    /\ UNCHANGED <<platformVars, storeVars>>

\* The apology reached the group: still GENERATION_FAILED.
ApologyConfirmed(w) ==
    /\ pc[w] = "sent"
    /\ delivered[Target(w)] # "none"
    /\ reply[w] = "apology"
    /\ GiveUp(w)
    /\ UNCHANGED <<gateVars, platformVars, storeVars>>

RecordTurn(w) ==
    /\ pc[w] = "turn"
    /\ interactions' = interactions \cup {Target(w)}
    /\ Succeed(w)
    /\ UNCHANGED <<gateVars, platformVars, rawEvents, messages, outbox, claims,
                   summaries>>

RecordTurnFails(w) ==
    /\ "turn" \in Faults
    /\ pc[w] = "turn"
    /\ GiveUp(w)
    /\ UNCHANGED <<gateVars, platformVars, storeVars>>

(***************************************************************************)
(* The end of _run_claimed_row.                                            *)
(***************************************************************************)
\* Mutant: a worker that marks inside the semaphore keeps its permit.
ReturnPermitNever(w) == UNCHANGED permits

ReturnPermit(w) == permits' = permits + (IF pc[w] = "record" THEN 1 ELSE 0)

RecordOutcome(w) ==
    /\ pc[w] \in {"record", "settle"}
    /\ Mark(job[w].id, verdict[w])
    /\ ReturnPermit(w)
    /\ Forget(w)
    /\ UNCHANGED <<gateVars, platformVars, rawEvents, messages, claims,
                   interactions, summaries>>

\* mark_* raised: "outcome unconfirmed", the row stays running.
RecordFails(w) ==
    /\ "record" \in Faults
    /\ pc[w] \in {"record", "settle"}
    /\ ReturnPermit(w)
    /\ Forget(w)
    /\ UNCHANGED <<gateVars, platformVars, storeVars>>

-------------------------------------------------------------------------------
WorkerStep(w) ==
    \/ Poll(w) \/ ClaimRow(w) \/ NothingPending(w) \/ PollFails(w)
    \/ Load(w) \/ LoadFails(w) \/ RequeueFails(w) \/ Acquire(w)
    \/ Reconcile(w) \/ Expire(w) \/ Dispatch(w) \/ LookupFails(w)
    \/ Decline(w) \/ ClaimFails(w) \/ Duplicate(w) \/ ClaimTrigger(w)
    \/ SummaryRefused(w) \/ SummaryBegins(w)
    \/ SendUsage(w) \/ AssistantRefused(w) \/ AssistantBegins(w)
    \/ Generate(w) \/ SummaryGenerationFails(w) \/ AnswerGenerationFails(w)
    \/ PersistSummary(w) \/ PersistFails(w)
    \/ TokenFails(w) \/ Post(w) \/ SendUnconfirmed(w)
    \/ AnswerConfirmed(w) \/ ReplyConfirmed(w) \/ ApologyConfirmed(w)
    \/ RecordTurn(w) \/ RecordTurnFails(w)
    \/ RecordOutcome(w) \/ RecordFails(w)
===============================================================================
