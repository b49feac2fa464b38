------------------------------ MODULE BotRuntime ------------------------------
(***************************************************************************)
(* The process: the lifespan of app/main.py composes the ingestion and the *)
(* worker pool over one database, starts, stops and restarts them.         *)
(*                                                                         *)
(*   down      no process                                                  *)
(*   starting  outbox_worker.start() has run, the prune has not returned;  *)
(*             the workers run, no event is received                       *)
(*   up        the lifespan has yielded                                    *)
(*   stopping  the worker's stop event is set, the drain timeout runs      *)
(***************************************************************************)
EXTENDS Ingestion, InteractionWorker

CONSTANTS
    Transport,   \* "websocket" or "webhook"
    Configs,     \* the feature sets an operator may start the process with
    MaxRestarts  \* bound: starts after the first

ASSUME RuntimeAssumption ==
    /\ Transport \in {"websocket", "webhook"}
    \* The Gateway loop awaits process() before the next event.
    /\ Transport = "websocket" => \A r, s \in Receivers : r = s
    /\ Configs \subseteq SUBSET {"summary", "assistant"}
    /\ MaxRestarts \in Nat

VARIABLE restarts

vars == <<storeVars, processVars, ingestVars, workerVars, restarts>>

Init ==
    /\ StoreInit
    /\ IngestInit
    /\ WorkersIdle
    /\ PlatformInit
    /\ restarts = 0

\* Everything in memory is gone; the tables and QQ are not.
Halt ==
    /\ phase' = "down"
    /\ stage' = [r \in Receivers |-> "idle"]
    /\ inbound' = [r \in Receivers |-> NoPayload]
    /\ WorkersLost
    /\ UNCHANGED <<storeVars, now, cfg, deliveries, platformVars>>

\* outbox_worker.start(): recover, then create the tasks.
Start(features) ==
    /\ phase = "down"
    /\ phase' = "starting"
    /\ cfg' = features
    /\ RecoverStaleRunning
    /\ UNCHANGED <<rawEvents, messages, claims, interactions, summaries, now,
                   ingestVars, workerVars, restarts>>

\* The retention prune of main, whose failure is logged and ignored.
PruneAndServe ==
    /\ phase = "starting"
    /\ phase' = "up"
    /\ PruneTerminal \/ ("prune" \in Faults /\ UNCHANGED outbox)
    /\ UNCHANGED <<rawEvents, messages, claims, interactions, summaries, now,
                   cfg, ingestVars, workerVars, restarts>>

\* SIGTERM: the Gateway task is cancelled where it is; the server lets open
\* webhook requests finish before the lifespan ends.
BeginStop ==
    /\ phase = "up"
    /\ restarts < MaxRestarts
    /\ Transport = "webhook" => \A r \in Receivers : stage[r] = "idle"
    /\ phase' = "stopping"
    /\ restarts' = restarts + 1
    /\ stage' = [r \in Receivers |-> "idle"]
    /\ inbound' = [r \in Receivers |-> NoPayload]
    /\ UNCHANGED <<storeVars, now, cfg, deliveries, workerVars>>

\* The drain ended or timed out; what still ran is cancelled.
FinishStop ==
    /\ phase = "stopping"
    /\ Halt
    /\ UNCHANGED restarts

Crash ==
    /\ "crash" \in Faults
    /\ phase \in {"starting", "up"}
    /\ restarts < MaxRestarts
    /\ Halt
    /\ restarts' = restarts + 1

Tick ==
    /\ now < MaxTime
    /\ now' = now + 1
    /\ UNCHANGED <<storeVars, phase, cfg, ingestVars, workerVars, restarts>>

Worker(w) == WorkerStep(w) /\ UNCHANGED <<processVars, ingestVars, restarts>>
Receiver(r) == IngestStep(r) /\ UNCHANGED <<processVars, workerVars, restarts>>
Deliver(r, p) == Receive(r, p) /\ UNCHANGED <<processVars, workerVars, restarts>>

Next ==
    \/ \E w \in Workers : Worker(w)
    \/ \E r \in Receivers : Receiver(r)
    \/ \E r \in Receivers, p \in Payloads : Deliver(r, p)
    \/ \E c \in Configs : Start(c)
    \/ PruneAndServe
    \/ BeginStop
    \/ FinishStop
    \/ Crash
    \/ Tick

Spec == Init /\ [][Next]_vars

(***************************************************************************)
(* The event loop runs every ready task, the drain is bounded by a timeout *)
(* and the operator (systemd, a container policy) starts the process again.*)
(* Nothing makes QQ deliver, the operator stop the bot, or it crash.       *)
(***************************************************************************)
FairSpec ==
    /\ Spec
    /\ \A w \in Workers : WF_vars(Worker(w))
    /\ \A r \in Receivers : WF_vars(Receiver(r))
    /\ WF_vars(\E c \in Configs : Start(c))
    /\ WF_vars(PruneAndServe)
    /\ WF_vars(FinishStop)

-------------------------------------------------------------------------------
(***************************************************************************)
(* Properties.                                                             *)
(***************************************************************************)
TypeOK ==
    /\ StoreTypeOK
    /\ IngestTypeOK
    /\ WorkerTypeOK
    /\ restarts \in 0..MaxRestarts

\* However often a message is delivered, recovered and retried, one trigger
\* leads to at most one POST to QQ: the claim is committed before the send.
AtMostOnePost == \A t \in Triggers : posts[t] <= 1

\* Why: what is sent was claimed, a worker that may still send owns a claim
\* nobody has used, and no two workers own the same claim.
PostDiscipline ==
    /\ \A t \in Triggers : posts[t] > 0 => t \in claims
    /\ \A w \in Workers : pc[w] \in BeforePost =>
          Target(w) \in claims /\ posts[Target(w)] = 0
    /\ \A v, w \in Workers :
          pc[v] \in BeforePost /\ pc[w] \in BeforePost /\ Target(v) = Target(w) => v = w

\* A message is answered once even if its receipts were named differently
\* under two configurations: the claim is keyed on the handler that runs, not
\* on the name in the row.
OneReplyPerMessage ==
    \A m \in Messages : \A n, k \in Names :
        posts[<<m, n>>] > 0 /\ posts[<<m, k>>] > 0 => n = k /\ posts[<<m, n>>] = 1

\* The replies that answer the user; the apology does not.
Answers == {"pong", "digest", "usage", "answer"}

\* The tables never claim more than QQ accepted, although the send, the turn
\* and the mark are separate awaits: a completed row has a reply that is not the
\* apology, and conversation history holds only answers that arrived.
CompletedMeansAnswered ==
    /\ \A i \in DOMAIN outbox : outbox[i].status = "completed" =>
          \E n \in Names : delivered[<<outbox[i].msg, n>>] \in Answers
    /\ \A t \in interactions : delivered[t] = "answer"

\* A worker past the claim holds a running row that is still the row it read
\* (ids are reused after a prune), and no two workers hold the same row.
ClaimedRowIsOwned ==
    /\ \A w \in Workers : job[w] # NoJob =>
          /\ job[w].id \in DOMAIN outbox
          /\ LET row == outbox[job[w].id]
             IN /\ row.status = "running"
                /\ <<row.msg, row.name, row.source>> =
                     <<job[w].msg, job[w].name, job[w].source>>
    /\ \A v, w \in Workers : job[v] # NoJob /\ job[v].id = job[w].id => v = w

\* A row that waits for a worker has an attempt left, whichever of the load
\* failure, the crash or the recovery put it back.
PendingCanRun ==
    \A i \in DOMAIN outbox : outbox[i].status = "pending" => ~Exhausted(outbox[i])

\* The permits out are exactly those of the workers inside the semaphore:
\* no outcome, failure or exception keeps or returns one too many.
PermitsConserved ==
    permits + Cardinality({w \in Workers : pc[w] \in InSemaphore}) = MaxConcurrent

\* A group is marked active exactly while one worker summarises it: two
\* summaries of a group never overlap and no exit path leaves it blocked.
OneSummaryPerGroup ==
    LET busy(g) == {w \in Workers :
                      /\ pc[w] \in {"generate", "persist", "send", "sent"}
                      /\ route[w] = "summary"
                      /\ Ev(w).group = g}
    IN \A g \in Groups :
         Cardinality(busy(g)) = IF g \in activeGroups THEN 1 ELSE 0

\* A summary reaches QQ only after it was stored, and a trigger stores one.
SummaryStoredBeforePost ==
    \A m \in Messages :
        /\ summaries[m] <= 1
        /\ posts[<<m, "summary">>] > 0 => summaries[m] = 1

\* The only messages that two feature sets name differently: ingested with the
\* summary feature they are a summary (which their handler then declines),
\* without it a mention.
Renamable(m) == Event[m].text = "#summary" /\ Event[m].at

\* An answer that went out and was recorded is reported as failed only when the
\* attempts ran out before the row could be reconciled.  A renamable message may
\* have two rows, of which one is a duplicate and fails; the other is completed.
RecordedTurnReconciled ==
    \A i \in DOMAIN outbox :
        /\ outbox[i].status = "failed"
        /\ <<outbox[i].msg, outbox[i].name>> \in interactions
        /\ ~Renamable(outbox[i].msg)
        => Exhausted(outbox[i])

\* A terminal row never moves again; it can only be pruned, and its outcome
\* and attempts stay what they were.
TerminalIsFinal ==
    [][\A i \in DOMAIN outbox :
          outbox[i].status \in Terminal /\ i \in DOMAIN outbox' =>
            outbox'[i] = outbox[i]]_vars

\* A row that was enqueued is eventually completed or failed.
EveryRowSettles ==
    \A i \in RowIds :
        (i \in DOMAIN outbox) ~> (i \notin DOMAIN outbox \/ outbox[i].status \in Terminal)

(***************************************************************************)
(* What the repository's own texts say of a shutdown, refuted by runs.     *)
(***************************************************************************)
\* "a SIGTERM during a long LLM call does not silently lose the reply"
\* (InteractionOutboxRecord): without any fault, no row ends as failed while
\* nothing was ever sent for its message.
ShutdownKeepsReply ==
    \A i \in DOMAIN outbox : outbox[i].status = "failed" =>
        \E n \in Names : posts[<<outbox[i].msg, n>>] > 0

\* "Every recognised interaction is recorded in a durable outbox"
\* (QQOfficialEventProcessor): when the process serves and no receiver is
\* busy, each stored message that names an interaction has its row.
RecognisedIsRecorded ==
    phase = "up" /\ (\A r \in Receivers : stage[r] = "idle") =>
        \A p \in messages :
            LET m == MessageOf[p]
            IN InteractionName(m) # NoName /\ Event[m].addressed =>
                 RowFor(<<m, InteractionName(m)>>) # {}

(***************************************************************************)
(* The contract the bot keeps, whatever happens.                           *)
(***************************************************************************)
ReportOf(t) ==
    IF \E i \in RowFor(t) : outbox[i].status = "completed" THEN "completed"
    ELSE IF \E i \in RowFor(t) : outbox[i].status = "failed" THEN "failed"
    ELSE IF RowFor(t) # {} THEN "open"
    ELSE "none"

Contract == INSTANCE ReplyContract WITH
    claimed <- claims,
    sends <- posts,
    answered <- {t \in Triggers : delivered[t] \in Answers},
    report <- [t \in Triggers |-> ReportOf(t)]

\* The bot implements the contract: ingestion, the workers, the recovery and
\* the prune are steps of it or change nothing it speaks of.
ReplyContractHolds == Contract!CSpec
===============================================================================
