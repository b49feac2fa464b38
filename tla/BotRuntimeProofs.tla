--------------------------- MODULE BotRuntimeProofs ---------------------------
(***************************************************************************)
(* Theorems about BotRuntime, for every set of workers, receivers,         *)
(* messages and payloads and for every value of the bounds: its types;     *)
(* what handlers send and store; what the outbox and the worker pool       *)
(* guarantee (a claimed row is its worker's own, a waiting row can still   *)
(* run, an outcome is final and says no more than QQ accepted, no permit   *)
(* is lost); and that the bot implements ReplyContract.                    *)
(***************************************************************************)
EXTENDS BotRuntime, FiniteSetTheorems, TLAPS

-------------------------------------------------------------------------------
(***************************************************************************)
(* Facts about the operators.                                              *)
(***************************************************************************)
\* Routing names an event by one of the known names or by none.
LEMMA InteractionNameType ==
    ASSUME NEW m \in Messages
    PROVE  InteractionName(m) \in Names \cup {NoName}
  BY DEF InteractionName, CommandName, AssistantTrigger, Names, AssistantNames,
         NoName

\* What a worker remembers of a claimed row is a well-formed job.
LEMMA JobType ==
    ASSUME TypeOK, NEW w \in Workers, pc[w] \notin {"idle", "claiming"}
    PROVE  /\ job[w] \in Job
           /\ job[w].id \in RowIds
           /\ job[w].msg \in Messages
           /\ job[w].name \in Names
           /\ job[w].source \in Payloads
           /\ Ev(w).group \in Groups
           /\ Requester(w) \in Groups \X Users
  <1>1. job[w] \in Job
    BY DEF TypeOK, WorkerTypeOK
  <1>2. Event[job[w].msg] \in EventRecord
    BY <1>1, MessageAssumption DEF Job
  <1> QED
    BY <1>1, <1>2 DEF Job, Ev, Requester, EventRecord

\* A job of a stored event claims and answers a trigger of that event.
LEMMA TargetType ==
    ASSUME TypeOK, NEW w \in Workers, pc[w] \notin {"idle", "claiming"},
           route[w] # NoName
    PROVE  Target(w) \in Triggers
  <1>1. job[w].msg \in Messages
    BY JobType
  <1>2. route[w] \in Names
    BY DEF TypeOK, WorkerTypeOK
  <1> QED
    BY <1>1, <1>2 DEF Target, Triggers

\* The same for the trigger of an event as it is routed now.
LEMMA RoutedTargetType ==
    ASSUME TypeOK, NEW w \in Workers, pc[w] \in BeforePost \cup {"sent", "turn"}
    PROVE  route[w] \in Names /\ Target(w) \in Triggers
  <1>1. route[w] \in Names
    BY DEF TypeOK, WorkerTypeOK
  <1>2. pc[w] \notin {"idle", "claiming"}
    BY DEF BeforePost
  <1>3. job[w].msg \in Messages
    BY <1>2, JobType
  <1> QED
    BY <1>1, <1>3 DEF Target, Triggers

\* A row that is marked failed is a row.
LEMMA FailedType ==
    ASSUME StoreTypeOK, NEW row \in Row
    PROVE  Failed(row) \in Row
  BY DEF StoreTypeOK, Failed, Row, Statuses

\* The sweep of exhausted rows, which claim_next_pending does first, leaves rows.
LEMMA SweepType ==
    ASSUME StoreTypeOK, NEW i \in DOMAIN outbox
    PROVE  SweepExhausted(i) \in Row
  BY FailedType DEF StoreTypeOK, SweepExhausted

\* A row the claim may take has an attempt left, and the sweep left it alone.
LEMMA ClaimableFresh ==
    ASSUME StoreTypeOK, NEW i \in Claimable
    PROVE  outbox[i].status = "pending" /\ ~Exhausted(outbox[i])
  <1>1. i \in DOMAIN outbox /\ SweepExhausted(i).status = "pending"
    BY DEF Claimable
  <1>2. outbox[i] \in Row
    BY <1>1 DEF StoreTypeOK
  <1>3. Failed(outbox[i]).status = "failed"
    BY <1>2 DEF Failed, Row
  <1> QED
    BY <1>1, <1>3 DEF SweepExhausted

\* claim_next_pending keeps the outbox a table of rows, and its ids.
LEMMA ClaimNextType ==
    ASSUME StoreTypeOK, NEW id \in DOMAIN outbox,
           IsNextPending(id), ClaimNextPending(id)
    PROVE  DOMAIN outbox' = DOMAIN outbox /\ outbox' \in [DOMAIN outbox -> Row]
  <1>1. ASSUME NEW i \in DOMAIN outbox PROVE outbox[i] \in Row /\ SweepExhausted(i) \in Row
    BY SweepType DEF StoreTypeOK
  <1>2. outbox[id].status = "pending" /\ ~Exhausted(outbox[id])
    BY ClaimableFresh DEF IsNextPending
  <1>3. outbox[id].attempts + 1 \in 0..MaxAttempts
    BY <1>1, <1>2, BoundAssumption DEF Exhausted, Row
  <1>4. [outbox[id] EXCEPT !.status = "running",
                           !.attempts = outbox[id].attempts + 1] \in Row
    BY <1>1, <1>3 DEF Row, Statuses
  <1> QED
    BY <1>1, <1>4 DEF ClaimNextPending

\* mark_completed and mark_failed keep the outbox a table of rows, and its ids.
LEMMA MarkType ==
    ASSUME StoreTypeOK, NEW id, NEW status \in Terminal, Mark(id, status)
    PROVE  DOMAIN outbox' = DOMAIN outbox /\ outbox' \in [DOMAIN outbox -> Row]
  <1>1. ASSUME NEW i \in DOMAIN outbox
        PROVE  [outbox[i] EXCEPT !.status = status, !.completed_at = now] \in Row
    BY DEF StoreTypeOK, Row, Statuses, Terminal
  <1> QED
    BY <1>1 DEF Mark, StoreTypeOK

\* requeue_for_retry keeps the outbox a table of rows, and its ids.
LEMMA RequeueType ==
    ASSUME StoreTypeOK, NEW id, RequeueForRetry(id)
    PROVE  DOMAIN outbox' = DOMAIN outbox /\ outbox' \in [DOMAIN outbox -> Row]
  <1>1. ASSUME NEW i \in DOMAIN outbox
        PROVE  /\ [outbox[i] EXCEPT !.status = "pending"] \in Row
               /\ Failed(outbox[i]) \in Row
    BY FailedType DEF StoreTypeOK, Row, Statuses
  <1> QED
    BY <1>1 DEF RequeueForRetry, StoreTypeOK

\* recover_stale_running keeps the outbox a table of rows, and its ids.
LEMMA RecoverType ==
    ASSUME StoreTypeOK, RecoverStaleRunning
    PROVE  DOMAIN outbox' = DOMAIN outbox /\ outbox' \in [DOMAIN outbox -> Row]
  <1>1. ASSUME NEW i \in DOMAIN outbox
        PROVE  /\ [outbox[i] EXCEPT !.status = "pending"] \in Row
               /\ Failed(outbox[i]) \in Row
    BY FailedType DEF StoreTypeOK, Row, Statuses
  <1> QED
    BY <1>1 DEF RecoverStaleRunning, StoreTypeOK

\* prune_terminal removes rows and changes none of those it keeps.
LEMMA PruneType ==
    ASSUME StoreTypeOK, PruneTerminal
    PROVE  DOMAIN outbox' \subseteq DOMAIN outbox /\ outbox' \in [DOMAIN outbox' -> Row]
  BY DEF PruneTerminal, StoreTypeOK

\* create_pending adds at most a row, under a new id, and changes none.
LEMMA CreateType ==
    ASSUME StoreTypeOK, NEW t \in Triggers, NEW p \in Payloads,
           CreatePending(t, p)
    PROVE  DOMAIN outbox' \subseteq RowIds /\ outbox' \in [DOMAIN outbox' -> Row]
  <1>1. CASE RowFor(t) # {}
    BY <1>1 DEF CreatePending, StoreTypeOK
  <1>2. CASE RowFor(t) = {}
    <2> DEFINE new == [msg |-> t[1], name |-> t[2], source |-> p,
                       status |-> "pending", attempts |-> 0, completed_at |-> 0]
    <2>1. new \in Row
      BY BoundAssumption DEF Row, Statuses, Triggers
    <2>2. PICK id \in RowIds :
            outbox' = [i \in DOMAIN outbox \cup {id} |->
                         IF i = id THEN new ELSE outbox[i]]
      BY <1>2 DEF CreatePending
    <2> QED
      BY <2>1, <2>2 DEF StoreTypeOK
  <1> QED
    BY <1>1, <1>2

\* A worker's step leaves the other workers where they are: tasks share the
\* tables, the semaphore and the handlers' memory, never each other's locals.
LEMMA OthersUnmoved ==
    ASSUME TypeOK, NEW w \in Workers, WorkerStep(w), NEW v \in Workers \ {w}
    PROVE  /\ pc'[v] = pc[v] /\ job'[v] = job[v] /\ route'[v] = route[v]
           /\ reply'[v] = reply[v] /\ verdict'[v] = verdict[v]
  <1> USE DEF TypeOK, WorkerTypeOK, GoTo, Forget, GiveUp, Succeed
  <1>1. CASE \/ Poll(w) \/ ClaimRow(w) \/ NothingPending(w) \/ PollFails(w)
             \/ Load(w) \/ LoadFails(w) \/ RequeueFails(w) \/ Acquire(w)
             \/ Reconcile(w) \/ Expire(w) \/ Dispatch(w) \/ LookupFails(w)
    BY <1>1 DEF Poll, ClaimRow, NothingPending, PollFails, Load, LoadFails,
       RequeueFails, Acquire, Reconcile, Expire, Dispatch, LookupFails
  <1>2. CASE \/ Decline(w) \/ ClaimFails(w) \/ Duplicate(w) \/ ClaimTrigger(w)
             \/ SummaryRefused(w) \/ SummaryBegins(w)
             \/ SendUsage(w) \/ AssistantRefused(w) \/ AssistantBegins(w)
             \/ Generate(w) \/ SummaryGenerationFails(w) \/ AnswerGenerationFails(w)
             \/ PersistSummary(w) \/ PersistFails(w)
    BY <1>2 DEF Decline, ClaimFails, Duplicate, ClaimTrigger, SummaryRefused,
       SummaryBegins, SendUsage, AssistantRefused, AssistantBegins, Generate,
       SummaryGenerationFails, AnswerGenerationFails, PersistSummary, PersistFails
  <1>3. CASE \/ TokenFails(w) \/ Post(w) \/ SendUnconfirmed(w)
             \/ AnswerConfirmed(w) \/ ReplyConfirmed(w) \/ ApologyConfirmed(w)
             \/ RecordTurn(w) \/ RecordTurnFails(w)
             \/ RecordOutcome(w) \/ RecordFails(w)
    BY <1>3 DEF TokenFails, Post, SendUnconfirmed, AnswerConfirmed,
       ReplyConfirmed, ApologyConfirmed, RecordTurn, RecordTurnFails,
       RecordOutcome, RecordFails
  <1> QED
    BY <1>1, <1>2, <1>3 DEF WorkerStep

-------------------------------------------------------------------------------
(***************************************************************************)
(* Type correctness.  It needs NamedBeforeEnqueue: a row is written with   *)
(* the name computed an await earlier, and only the fact that the features *)
(* cannot change while an event is in flight makes that name one.          *)
(***************************************************************************)
TypeInv == TypeOK /\ NamedBeforeEnqueue

\* The empty database and the idle process are well formed.
LEMMA InitType == Init => TypeInv
  <1> SUFFICES ASSUME Init PROVE TypeInv
    OBVIOUS
  <1>1. StoreTypeOK
    BY BoundAssumption DEF Init, StoreInit, StoreTypeOK, Triggers
  <1>2. IngestTypeOK /\ NamedBeforeEnqueue
    BY BoundAssumption DEF Init, IngestInit, IngestTypeOK, Stages,
                           NamedBeforeEnqueue
  <1>3. WorkerTypeOK
    BY WorkerAssumption DEF Init, WorkersIdle, PlatformInit, WorkerTypeOK,
       Steps, NoJob, Job, BeforePost, Replies, Terminal
  <1>4. restarts \in 0..MaxRestarts
    BY RuntimeAssumption DEF Init
  <1> QED
    BY <1>1, <1>2, <1>3, <1>4 DEF TypeInv, TypeOK

\* The worker's steps up to the handler.
LEMMA FetchType ==
    ASSUME TypeOK, NEW w \in Workers,
           \/ Poll(w) \/ ClaimRow(w) \/ NothingPending(w) \/ PollFails(w)
           \/ Load(w) \/ LoadFails(w) \/ RequeueFails(w) \/ Acquire(w)
           \/ Reconcile(w) \/ Expire(w) \/ Dispatch(w) \/ LookupFails(w),
           UNCHANGED <<processVars, ingestVars, restarts>>
    PROVE  TypeOK'
  <1> USE DEF TypeOK, StoreTypeOK, IngestTypeOK, WorkerTypeOK, processVars,
              ingestVars, storeVars, gateVars, platformVars, GoTo, Steps,
              BeforePost
  <1>1. CASE Poll(w)
    BY <1>1 DEF Poll
  <1>2. CASE ClaimRow(w)
    <2>1. PICK id \in DOMAIN outbox :
            /\ IsNextPending(id)
            /\ ClaimNextPending(id)
            /\ job' = [job EXCEPT ![w] = [id |-> id, msg |-> outbox[id].msg,
                                          name |-> outbox[id].name,
                                          source |-> outbox[id].source]]
      BY <1>2 DEF ClaimRow
    <2>2. DOMAIN outbox' = DOMAIN outbox /\ outbox' \in [DOMAIN outbox -> Row]
      BY <2>1, ClaimNextType
    <2>3. [id |-> id, msg |-> outbox[id].msg, name |-> outbox[id].name,
           source |-> outbox[id].source] \in Job
      BY DEF Job, Row
    <2>4. \A x \in Job : x # NoJob
      BY DEF Job, NoJob, RowIds
    <2> QED
      BY <1>2, <2>1, <2>2, <2>3, <2>4 DEF ClaimRow
  <1>3. CASE NothingPending(w)
    <2>1. outbox' \in [DOMAIN outbox -> Row]
      BY <1>3, SweepType DEF NothingPending
    <2> QED
      BY <1>3, <2>1 DEF NothingPending
  <1>4. CASE PollFails(w)
    BY <1>4 DEF PollFails
  <1>5. CASE Load(w)
    BY <1>5 DEF Load, Terminal
  <1>6. CASE LoadFails(w)
    <2>1. DOMAIN outbox' = DOMAIN outbox /\ outbox' \in [DOMAIN outbox -> Row]
      BY <1>6, RequeueType DEF LoadFails
    <2> QED
      BY <1>6, <2>1 DEF LoadFails, Forget, Replies
  <1>7. CASE RequeueFails(w)
    BY <1>7 DEF RequeueFails, Forget, Replies
  <1>8. CASE Acquire(w)
    BY <1>8 DEF Acquire
  <1>9. CASE Reconcile(w)
    BY <1>9 DEF Reconcile, Terminal
  <1>10. CASE Expire(w)
    BY <1>10 DEF Expire, GiveUp, Terminal
  <1>11. CASE Dispatch(w)
    <2>1. InteractionName(job[w].msg) \in Names \cup {NoName}
      BY <1>11, JobType, InteractionNameType DEF Dispatch
    <2> QED
      BY <1>11, <2>1 DEF Dispatch
  <1>12. CASE LookupFails(w)
    BY <1>12 DEF LookupFails, Forget, Replies
  <1> QED
    BY <1>1, <1>2, <1>3, <1>4, <1>5, <1>6, <1>7, <1>8, <1>9, <1>10, <1>11, <1>12

\* The handlers' steps up to the send.
LEMMA HandlerType ==
    ASSUME TypeOK, NEW w \in Workers,
           \/ Decline(w) \/ ClaimFails(w) \/ Duplicate(w) \/ ClaimTrigger(w)
           \/ SummaryRefused(w) \/ SummaryBegins(w)
           \/ SendUsage(w) \/ AssistantRefused(w) \/ AssistantBegins(w)
           \/ Generate(w) \/ SummaryGenerationFails(w) \/ AnswerGenerationFails(w)
           \/ PersistSummary(w) \/ PersistFails(w),
           UNCHANGED <<processVars, ingestVars, restarts>>
    PROVE  TypeOK'
  <1> USE DEF TypeOK, StoreTypeOK, IngestTypeOK, WorkerTypeOK, processVars,
              ingestVars, storeVars, gateVars, platformVars, GoTo, Steps,
              BeforePost
  <1>1. CASE Decline(w) \/ ClaimFails(w) \/ Duplicate(w)
    BY <1>1 DEF Decline, ClaimFails, Duplicate, GiveUp, Terminal
  <1>2. CASE ClaimTrigger(w)
    <2>1. route[w] \in Names /\ Target(w) \in Triggers
      BY <1>2, TargetType DEF ClaimTrigger, Runnable
    <2> QED
      BY <1>2, <2>1 DEF ClaimTrigger, Replies
  <1>3. CASE SummaryRefused(w) \/ AssistantRefused(w)
    BY <1>3 DEF SummaryRefused, AssistantRefused, GiveUp, Terminal
  <1>4. CASE SummaryBegins(w)
    <2>1. Ev(w).group \in Groups
      BY <1>4, JobType DEF SummaryBegins
    <2> QED
      BY <1>4, <2>1 DEF SummaryBegins
  <1>5. CASE SendUsage(w)
    BY <1>5 DEF SendUsage, Replies
  <1>6. CASE AssistantBegins(w)
    <2>1. Requester(w) \in Groups \X Users
      BY <1>6, JobType DEF AssistantBegins
    <2>2. assistantStarted' \in [Groups \X Users -> 0..MaxTime \cup {Never}]
      BY <1>6, <2>1 DEF AssistantBegins
    <2> QED
      BY <1>6, <2>2 DEF AssistantBegins
  <1>7. CASE Generate(w)
    BY <1>7 DEF Generate, Replies
  <1>8. CASE SummaryGenerationFails(w) \/ PersistFails(w)
    BY <1>8 DEF SummaryGenerationFails, PersistFails, LeaveGroup, GiveUp, Terminal
  <1>9. CASE AnswerGenerationFails(w)
    BY <1>9 DEF AnswerGenerationFails, Replies
  <1>10. CASE PersistSummary(w)
    <2>1. job[w].msg \in Messages
      BY <1>10, JobType DEF PersistSummary
    <2> QED
      BY <1>10, <2>1 DEF PersistSummary
  <1> QED
    BY <1>1, <1>2, <1>3, <1>4, <1>5, <1>6, <1>7, <1>8, <1>9, <1>10

\* The send and what follows it.
LEMMA SendType ==
    ASSUME TypeOK, NEW w \in Workers,
           \/ TokenFails(w) \/ Post(w) \/ SendUnconfirmed(w)
           \/ AnswerConfirmed(w) \/ ReplyConfirmed(w) \/ ApologyConfirmed(w)
           \/ RecordTurn(w) \/ RecordTurnFails(w)
           \/ RecordOutcome(w) \/ RecordFails(w),
           UNCHANGED <<processVars, ingestVars, restarts>>
    PROVE  TypeOK'
  <1> USE DEF TypeOK, StoreTypeOK, IngestTypeOK, WorkerTypeOK, processVars,
              ingestVars, storeVars, gateVars, platformVars, GoTo, Steps,
              BeforePost
  <1>1. CASE TokenFails(w) \/ SendUnconfirmed(w) \/ ApologyConfirmed(w) \/ RecordTurnFails(w)
    BY <1>1 DEF TokenFails, SendUnconfirmed, ApologyConfirmed, RecordTurnFails,
                LeaveGroup, GiveUp, Terminal
  <1>2. CASE Post(w)
    <2>1. Target(w) \in Triggers
      BY <1>2, RoutedTargetType DEF Post
    <2>2. posts' \in [Triggers -> Nat] /\ delivered' \in [Triggers -> Replies]
      BY <1>2, <2>1 DEF Post
    <2> QED
      BY <1>2, <2>2 DEF Post
  <1>3. CASE AnswerConfirmed(w)
    BY <1>3 DEF AnswerConfirmed
  <1>4. CASE ReplyConfirmed(w)
    BY <1>4 DEF ReplyConfirmed, LeaveGroup, Succeed, Terminal
  <1>5. CASE RecordTurn(w)
    <2>1. Target(w) \in Triggers
      BY <1>5, RoutedTargetType DEF RecordTurn
    <2> QED
      BY <1>5, <2>1 DEF RecordTurn, Succeed, Terminal
  <1>6. CASE RecordOutcome(w)
    <2>1. DOMAIN outbox' = DOMAIN outbox /\ outbox' \in [DOMAIN outbox -> Row]
      BY <1>6, MarkType DEF RecordOutcome
    <2> QED
      BY <1>6, <2>1 DEF RecordOutcome, ReturnPermit, Forget, Replies
  <1>7. CASE RecordFails(w)
    BY <1>7 DEF RecordFails, ReturnPermit, Forget, Replies
  <1> QED
    BY <1>1, <1>2, <1>3, <1>4, <1>5, <1>6, <1>7

\* The steps of a receiver.
LEMMA ReceiverType ==
    ASSUME TypeInv, NEW r \in Receivers, Receiver(r)
    PROVE  TypeOK'
  <1> USE DEF TypeInv, TypeOK, StoreTypeOK, IngestTypeOK, WorkerTypeOK,
              Receiver, processVars, workerVars, gateVars, platformVars,
              storeVars, Stages
  <1>1. CASE IngestRaw(r)
    BY <1>1 DEF IngestRaw
  <1>2. CASE RawFails(r) \/ MessageFails(r) \/ EnqueueFails(r)
    BY <1>2 DEF RawFails, MessageFails, EnqueueFails, Release
  <1>3. CASE IngestMessage(r)
    BY <1>3 DEF IngestMessage, Release
  <1>4. CASE Enqueue(r)
    <2> DEFINE m == MessageOf[inbound[r]]
    <2>1. inbound[r] \in Payloads /\ m \in Messages
      BY <1>4, MessageAssumption DEF Enqueue
    <2>2. <<m, InteractionName(m)>> \in Triggers
      BY <1>4, <2>1 DEF Enqueue, NamedBeforeEnqueue, Triggers
    <2>3. CreatePending(<<m, InteractionName(m)>>, inbound[r])
      BY <1>4 DEF Enqueue
    <2>4. DOMAIN outbox' \subseteq RowIds /\ outbox' \in [DOMAIN outbox' -> Row]
      <3> HIDE DEF m
      <3> QED BY <2>1, <2>2, <2>3, CreateType
    <2> QED
      BY <1>4, <2>4 DEF Enqueue, Release
  <1> QED
    BY <1>1, <1>2, <1>3, <1>4 DEF IngestStep

\* The steps of the process: receipt, start, stop, crash and the clock.
LEMMA LifespanType ==
    ASSUME TypeInv,
           \/ \E r \in Receivers, p \in Payloads : Deliver(r, p)
           \/ \E c \in Configs : Start(c)
           \/ PruneAndServe \/ BeginStop \/ FinishStop \/ Crash \/ Tick
    PROVE  TypeOK'
  <1> USE DEF TypeInv, TypeOK, StoreTypeOK, IngestTypeOK, WorkerTypeOK,
              processVars, ingestVars, workerVars, gateVars, platformVars,
              storeVars
  <1>1. ASSUME NEW r \in Receivers, NEW p \in Payloads, Deliver(r, p)
        PROVE  TypeOK'
    BY <1>1, BoundAssumption DEF Deliver, Receive, Stages
  <1>2. ASSUME NEW c \in Configs, Start(c)
        PROVE  TypeOK'
    <2>1. DOMAIN outbox' = DOMAIN outbox /\ outbox' \in [DOMAIN outbox -> Row]
      BY <1>2, RecoverType DEF Start
    <2>2. cfg' \subseteq {"summary", "assistant"}
      BY <1>2, RuntimeAssumption DEF Start
    <2> QED
      BY <1>2, <2>1, <2>2 DEF Start
  <1>3. CASE PruneAndServe
    <2>1. DOMAIN outbox' \subseteq DOMAIN outbox /\ outbox' \in [DOMAIN outbox' -> Row]
      BY <1>3, PruneType DEF PruneAndServe
    <2> QED
      BY <1>3, <2>1 DEF PruneAndServe
  <1>4. CASE BeginStop
    BY <1>4, RuntimeAssumption DEF BeginStop, Stages
  <1>5. ASSUME Halt, restarts' \in 0..MaxRestarts
        PROVE  TypeOK'
    <2>1. StoreTypeOK' /\ IngestTypeOK'
      BY <1>5 DEF Halt, Stages
    <2>2. WorkerTypeOK'
      BY <1>5, WorkerAssumption DEF Halt, WorkersLost, Steps, NoJob, Job,
         BeforePost, Replies, Terminal
    <2> QED
      BY <1>5, <2>1, <2>2
  <1>6. CASE FinishStop
    BY <1>5, <1>6 DEF FinishStop
  <1>7. CASE Crash
    BY <1>5, <1>7, RuntimeAssumption DEF Crash
  <1>8. CASE Tick
    BY <1>8, BoundAssumption DEF Tick, Row
  <1> QED
    BY <1>1, <1>2, <1>3, <1>4, <1>6, <1>7, <1>8

\* The features change in Start only, when no event is in flight.
LEMMA NamedStep ==
    ASSUME TypeInv, [Next]_vars
    PROVE  NamedBeforeEnqueue'
  <1> USE DEF TypeInv, TypeOK, IngestTypeOK, NamedBeforeEnqueue
  <1>1. ASSUME UNCHANGED <<processVars, stage, inbound>>
        PROVE  NamedBeforeEnqueue'
    BY <1>1 DEF InteractionName, CommandName, AssistantTrigger, processVars
  <1>2. ASSUME \A r \in Receivers : stage'[r] = "idle"
        PROVE  NamedBeforeEnqueue'
    BY <1>2
  <1>3. ASSUME NEW w \in Workers, Worker(w) PROVE NamedBeforeEnqueue'
    BY <1>1, <1>3 DEF Worker, ingestVars
  <1>4. ASSUME NEW r \in Receivers, Receiver(r) PROVE NamedBeforeEnqueue'
    <2>1. \A m : InteractionName(m)' = InteractionName(m)
      BY <1>4 DEF Receiver, processVars, InteractionName, CommandName,
                  AssistantTrigger
    <2>2. CASE IngestRaw(r)
      BY <1>4, <2>1, <2>2 DEF Receiver, IngestRaw, processVars
    <2>3. CASE RawFails(r) \/ MessageFails(r) \/ EnqueueFails(r) \/ Enqueue(r)
      BY <1>4, <2>1, <2>3 DEF Receiver, RawFails, MessageFails, EnqueueFails,
                              Enqueue, Release, processVars
    <2>4. CASE IngestMessage(r)
      <3>1. inbound[r] \in Payloads /\ MessageOf[inbound[r]] \in Messages
        BY <2>4, MessageAssumption DEF IngestMessage
      <3>2. InteractionName(MessageOf[inbound[r]]) \in Names \cup {NoName}
        BY <3>1, InteractionNameType
      <3> QED
        BY <1>4, <2>1, <2>4, <3>2 DEF Receiver, IngestMessage, Release, processVars
    <2> QED
      BY <1>4, <2>2, <2>3, <2>4 DEF Receiver, IngestStep
  <1>5. ASSUME NEW r \in Receivers, NEW p \in Payloads, Deliver(r, p)
        PROVE  NamedBeforeEnqueue'
    <2>1. \A m : InteractionName(m)' = InteractionName(m)
      BY <1>5 DEF Deliver, processVars, InteractionName, CommandName,
                  AssistantTrigger
    <2> QED
      BY <1>5, <2>1 DEF Deliver, Receive, processVars
  <1>6. ASSUME NEW c \in Configs, Start(c) PROVE NamedBeforeEnqueue'
    BY <1>2, <1>6 DEF Start, ingestVars
  <1>7. CASE PruneAndServe
    BY <1>2, <1>7 DEF PruneAndServe, ingestVars
  <1>8. CASE BeginStop
    BY <1>2, <1>8 DEF BeginStop
  <1>9. CASE FinishStop \/ Crash
    BY <1>2, <1>9 DEF FinishStop, Crash, Halt
  <1>10. CASE Tick
    BY <1>10 DEF Tick, ingestVars, InteractionName, CommandName, AssistantTrigger
  <1>11. CASE UNCHANGED vars
    BY <1>1, <1>11 DEF vars, ingestVars
  <1> QED
    BY <1>3, <1>4, <1>5, <1>6, <1>7, <1>8, <1>9, <1>10, <1>11 DEF Next

\* TypeInv is inductive.
LEMMA TypeStep == TypeInv /\ [Next]_vars => TypeInv'
  <1> SUFFICES ASSUME TypeInv, [Next]_vars PROVE TypeInv'
    OBVIOUS
  <1>1. NamedBeforeEnqueue'
    BY NamedStep
  <1>2. ASSUME NEW w \in Workers, Worker(w) PROVE TypeOK'
    BY <1>2, FetchType, HandlerType, SendType DEF Worker, WorkerStep, TypeInv
  <1>3. ASSUME NEW r \in Receivers, Receiver(r) PROVE TypeOK'
    BY <1>3, ReceiverType
  <1>4. ASSUME UNCHANGED vars PROVE TypeOK'
    BY <1>4 DEF TypeInv, TypeOK, StoreTypeOK, IngestTypeOK, WorkerTypeOK, vars,
                storeVars, processVars, ingestVars, workerVars, gateVars,
                platformVars
  <1>5. ASSUME \/ \E r \in Receivers, p \in Payloads : Deliver(r, p)
               \/ \E c \in Configs : Start(c)
               \/ PruneAndServe \/ BeginStop \/ FinishStop \/ Crash \/ Tick
        PROVE  TypeOK'
    BY <1>5, LifespanType
  <1>6. TypeOK'
    BY <1>2, <1>3, <1>4, <1>5 DEF Next
  <1> QED
    BY <1>1, <1>6 DEF TypeInv

\* Every table, queue entry and worker of the bot is well formed in every
\* reachable state, for any number of workers, receivers and messages.
THEOREM TypeCorrect == Spec => []TypeOK
  <1>1. Spec => []TypeInv
    BY InitType, TypeStep, PTL DEF Spec
  <1>2. TypeInv => TypeOK
    BY DEF TypeInv
  <1> QED
    BY <1>1, <1>2, PTL

-------------------------------------------------------------------------------
(***************************************************************************)
(* One POST per trigger.  AtMostOnePost is not inductive: that a second    *)
(* POST cannot happen depends on the claim every sender committed earlier, *)
(* possibly in another life of the process.  PostDiscipline says so.       *)
(***************************************************************************)

PostInv == TypeInv /\ AtMostOnePost /\ PostDiscipline

\* Before any receipt nothing is claimed and nothing was sent.
LEMMA InitPost == Init => PostInv
  <1> SUFFICES ASSUME Init PROVE PostInv
    OBVIOUS
  <1>1. TypeInv
    BY InitType
  <1>2. AtMostOnePost /\ PostDiscipline
    BY <1>1 DEF Init, PlatformInit, WorkersIdle, AtMostOnePost, PostDiscipline,
                BeforePost
  <1> QED
    BY <1>1, <1>2 DEF PostInv

\* A step that neither claims nor posts, and after which nobody owns a claim
\* he did not own before, keeps the discipline.
LEMMA PostFrame ==
    ASSUME PostInv, UNCHANGED <<claims, posts>>,
           \A v \in Workers : pc'[v] \in BeforePost =>
              pc[v] \in BeforePost /\ Target(v)' = Target(v)
    PROVE  AtMostOnePost' /\ PostDiscipline'
  BY DEF PostInv, AtMostOnePost, PostDiscipline

\* The steps of a worker before the handler owns a claim.
LEMMA PostFetch ==
    ASSUME PostInv, NEW w \in Workers,
           \/ Poll(w) \/ ClaimRow(w) \/ NothingPending(w) \/ PollFails(w)
           \/ Load(w) \/ LoadFails(w) \/ RequeueFails(w) \/ Acquire(w)
           \/ Reconcile(w) \/ Expire(w) \/ Dispatch(w) \/ LookupFails(w)
           \/ Decline(w) \/ ClaimFails(w) \/ Duplicate(w)
    PROVE  AtMostOnePost' /\ PostDiscipline'
  <1> USE DEF PostInv, TypeInv, TypeOK, WorkerTypeOK, storeVars, gateVars,
              platformVars, GoTo, Target, BeforePost
  <1>1. UNCHANGED <<claims, posts>>
    BY DEF Poll, ClaimRow, NothingPending, PollFails, Load, LoadFails,
           RequeueFails, Acquire, Reconcile, Expire, Dispatch, LookupFails,
           Decline, ClaimFails, Duplicate
  <1>2. pc'[w] \notin BeforePost
    BY DEF Poll, ClaimRow, NothingPending, PollFails, Load, LoadFails,
           RequeueFails, Acquire, Reconcile, Expire, Dispatch, LookupFails,
           Decline, ClaimFails, Duplicate, Forget, GiveUp
  <1>3. \A v \in Workers \ {w} : pc'[v] = pc[v] /\ Target(v)' = Target(v)
    BY DEF Poll, ClaimRow, NothingPending, PollFails, Load, LoadFails,
           RequeueFails, Acquire, Reconcile, Expire, Dispatch, LookupFails,
           Decline, ClaimFails, Duplicate, Forget, GiveUp
  <1> HIDE DEF BeforePost, PostInv, Target
  <1> QED
    BY <1>1, <1>2, <1>3, PostFrame

\* The steps of the owner of a claim that do not post, and those after the POST.
LEMMA PostHandler ==
    ASSUME PostInv, NEW w \in Workers,
           \/ SummaryRefused(w) \/ SummaryBegins(w)
           \/ SendUsage(w) \/ AssistantRefused(w) \/ AssistantBegins(w)
           \/ Generate(w) \/ SummaryGenerationFails(w) \/ AnswerGenerationFails(w)
           \/ PersistSummary(w) \/ PersistFails(w) \/ TokenFails(w)
           \/ SendUnconfirmed(w) \/ AnswerConfirmed(w) \/ ReplyConfirmed(w)
           \/ ApologyConfirmed(w) \/ RecordTurn(w) \/ RecordTurnFails(w)
           \/ RecordOutcome(w) \/ RecordFails(w)
    PROVE  AtMostOnePost' /\ PostDiscipline'
  <1> USE DEF PostInv, TypeInv, TypeOK, WorkerTypeOK, storeVars, gateVars,
              platformVars, GoTo, Target, BeforePost
  <1>1. UNCHANGED <<claims, posts>>
    BY DEF SummaryRefused, SummaryBegins, SendUsage, AssistantRefused,
           AssistantBegins, Generate, SummaryGenerationFails,
           AnswerGenerationFails, PersistSummary, PersistFails, TokenFails,
           SendUnconfirmed, AnswerConfirmed, ReplyConfirmed, ApologyConfirmed,
           RecordTurn, RecordTurnFails, RecordOutcome, RecordFails
  <1>2. pc'[w] \in BeforePost => pc[w] \in BeforePost /\ Target(w)' = Target(w)
    BY DEF SummaryRefused, SummaryBegins, SendUsage, AssistantRefused,
           AssistantBegins, Generate, SummaryGenerationFails,
           AnswerGenerationFails, PersistSummary, PersistFails, TokenFails,
           SendUnconfirmed, AnswerConfirmed, ReplyConfirmed, ApologyConfirmed,
           RecordTurn, RecordTurnFails, RecordOutcome, RecordFails,
           Forget, GiveUp, Succeed
  <1>3. \A v \in Workers \ {w} : pc'[v] = pc[v] /\ Target(v)' = Target(v)
    BY DEF SummaryRefused, SummaryBegins, SendUsage, AssistantRefused,
           AssistantBegins, Generate, SummaryGenerationFails,
           AnswerGenerationFails, PersistSummary, PersistFails, TokenFails,
           SendUnconfirmed, AnswerConfirmed, ReplyConfirmed, ApologyConfirmed,
           RecordTurn, RecordTurnFails, RecordOutcome, RecordFails,
           Forget, GiveUp, Succeed
  <1> HIDE DEF BeforePost, PostInv, Target
  <1> QED
    BY <1>1, <1>2, <1>3, PostFrame

\* The claim: nobody owned the trigger, and nothing was sent for it, because
\* what was sent had been claimed.
LEMMA PostClaim ==
    ASSUME PostInv, NEW w \in Workers, ClaimTrigger(w)
    PROVE  AtMostOnePost' /\ PostDiscipline'
  <1>1. Target(w) \in Triggers /\ Target(w) \notin claims
    BY TargetType DEF PostInv, TypeInv, ClaimTrigger, Runnable
  <1>2. /\ posts' = posts
        /\ claims' = claims \cup {Target(w)}
        /\ \A v \in Workers : Target(v)' = Target(v)
        /\ \A v \in Workers \ {w} : pc'[v] = pc[v]
    BY DEF ClaimTrigger, PostInv, TypeInv, TypeOK, WorkerTypeOK, GoTo, Target,
           platformVars
  <1>3. posts \in [Triggers -> Nat]
    BY DEF PostInv, TypeInv, TypeOK, WorkerTypeOK
  <1>4. posts[Target(w)] = 0
    BY <1>1, <1>3 DEF PostInv, PostDiscipline
  <1> QED
    BY <1>1, <1>2, <1>4 DEF PostInv, AtMostOnePost, PostDiscipline

\* The POST: its sender was the only owner of an unused claim.
LEMMA PostSend ==
    ASSUME PostInv, NEW w \in Workers, Post(w)
    PROVE  AtMostOnePost' /\ PostDiscipline'
  <1>1. Target(w) \in Triggers /\ pc[w] \in BeforePost
    BY RoutedTargetType DEF PostInv, TypeInv, Post, BeforePost
  <1>2. posts[Target(w)] = 0 /\ Target(w) \in claims
    BY <1>1 DEF PostInv, PostDiscipline
  <1>3. posts \in [Triggers -> Nat]
    BY DEF PostInv, TypeInv, TypeOK, WorkerTypeOK
  <1>4. /\ posts' = [posts EXCEPT ![Target(w)] = 1]
        /\ claims' = claims
        /\ \A v \in Workers : Target(v)' = Target(v)
        /\ \A v \in Workers \ {w} : pc'[v] = pc[v]
        /\ pc'[w] \notin BeforePost
    BY <1>1, <1>2 DEF Post, PostInv, TypeInv, TypeOK, WorkerTypeOK, GoTo, Target,
           storeVars, BeforePost
  <1>5. \A v \in Workers : pc'[v] \in BeforePost =>
           pc[v] \in BeforePost /\ Target(v)' # Target(w)
    BY <1>1, <1>4 DEF PostInv, PostDiscipline
  <1> QED
    BY <1>1, <1>2, <1>3, <1>4, <1>5 DEF PostInv, AtMostOnePost, PostDiscipline

\* The discipline is inductive.
LEMMA PostStep == PostInv /\ [Next]_vars => PostInv'
  <1> SUFFICES ASSUME PostInv, [Next]_vars PROVE PostInv'
    OBVIOUS
  <1>1. TypeInv'
    BY TypeStep DEF PostInv
  <1> SUFFICES AtMostOnePost' /\ PostDiscipline'
    BY <1>1 DEF PostInv
  <1>2. ASSUME NEW w \in Workers, Worker(w)
        PROVE  AtMostOnePost' /\ PostDiscipline'
    BY <1>2, PostFetch, PostHandler, PostClaim, PostSend DEF Worker, WorkerStep
  <1>3. CASE UNCHANGED <<workerVars, claims>>
    BY <1>3, PostFrame DEF workerVars, platformVars, Target
  <1>4. CASE Halt
    <2>1. \A v \in Workers : pc'[v] \notin BeforePost
      BY <1>4 DEF Halt, WorkersLost, BeforePost
    <2> QED
      BY <1>4, <2>1, PostFrame DEF Halt, storeVars, platformVars
  <1>5. ASSUME NEW r \in Receivers, Receiver(r) PROVE UNCHANGED <<workerVars, claims>>
    BY <1>5 DEF Receiver, IngestStep, IngestRaw, RawFails, IngestMessage,
                MessageFails, Enqueue, EnqueueFails, storeVars
  <1>6. ASSUME NEW r \in Receivers, NEW p \in Payloads, Deliver(r, p)
        PROVE  UNCHANGED <<workerVars, claims>>
    BY <1>6 DEF Deliver, Receive, storeVars
  <1>7. ASSUME NEW c \in Configs, Start(c) PROVE UNCHANGED <<workerVars, claims>>
    BY <1>7 DEF Start
  <1>8. CASE PruneAndServe \/ BeginStop \/ Tick \/ UNCHANGED vars
    BY <1>3, <1>8 DEF PruneAndServe, BeginStop, Tick, vars, storeVars
  <1>9. CASE FinishStop \/ Crash
    BY <1>4, <1>9 DEF FinishStop, Crash
  <1> QED
    BY <1>2, <1>3, <1>5, <1>6, <1>7, <1>8, <1>9 DEF Next

\* However often QQ delivers a message, and wherever the process crashes, stops
\* or retries, no trigger leads to two POSTs.
THEOREM OnePost == Spec => []AtMostOnePost
  <1>1. Spec => []PostInv
    BY InitPost, PostStep, PTL DEF Spec
  <1>2. PostInv => AtMostOnePost
    BY DEF PostInv
  <1> QED
    BY <1>1, <1>2, PTL

-------------------------------------------------------------------------------
(***************************************************************************)
(* Who writes what.  Every other argument about the handlers starts here.  *)
(***************************************************************************)
\* Each table and each record of QQ has one kind of step that writes it.
LEMMA WorkerWrites ==
    ASSUME NEW w \in Workers, WorkerStep(w)
    PROVE  /\ UNCHANGED claims \/ ClaimTrigger(w)
           /\ UNCHANGED platformVars \/ Post(w)
           /\ UNCHANGED interactions \/ RecordTurn(w)
           /\ UNCHANGED summaries \/ PersistSummary(w)
  <1> USE DEF storeVars, gateVars
  <1>1. CASE \/ Poll(w) \/ ClaimRow(w) \/ NothingPending(w) \/ PollFails(w)
             \/ Load(w) \/ LoadFails(w) \/ RequeueFails(w) \/ Acquire(w)
             \/ Reconcile(w) \/ Expire(w) \/ Dispatch(w) \/ LookupFails(w)
    BY <1>1 DEF Poll, ClaimRow, NothingPending, PollFails, Load, LoadFails,
       RequeueFails, Acquire, Reconcile, Expire, Dispatch, LookupFails
  <1>2. CASE \/ Decline(w) \/ ClaimFails(w) \/ Duplicate(w) \/ ClaimTrigger(w)
             \/ SummaryRefused(w) \/ SummaryBegins(w)
             \/ SendUsage(w) \/ AssistantRefused(w) \/ AssistantBegins(w)
             \/ Generate(w) \/ SummaryGenerationFails(w) \/ AnswerGenerationFails(w)
             \/ PersistSummary(w) \/ PersistFails(w)
    BY <1>2 DEF Decline, ClaimFails, Duplicate, ClaimTrigger, SummaryRefused,
       SummaryBegins, SendUsage, AssistantRefused, AssistantBegins, Generate,
       SummaryGenerationFails, AnswerGenerationFails, PersistSummary, PersistFails
  <1>3. CASE \/ TokenFails(w) \/ Post(w) \/ SendUnconfirmed(w)
             \/ AnswerConfirmed(w) \/ ReplyConfirmed(w) \/ ApologyConfirmed(w)
             \/ RecordTurn(w) \/ RecordTurnFails(w)
             \/ RecordOutcome(w) \/ RecordFails(w)
    BY <1>3 DEF TokenFails, Post, SendUnconfirmed, AnswerConfirmed,
       ReplyConfirmed, ApologyConfirmed, RecordTurn, RecordTurnFails,
       RecordOutcome, RecordFails
  <1> QED
    BY <1>1, <1>2, <1>3 DEF WorkerStep

\* What is not a worker's step either leaves the workers and what they wrote
\* alone, or ends them all and leaves what they wrote.
LEMMA StepKinds ==
    ASSUME [Next]_vars
    PROVE  \/ \E w \in Workers : WorkerStep(w) /\ UNCHANGED <<processVars, ingestVars>>
           \/ UNCHANGED <<workerVars, claims, interactions, summaries>>
           \/ WorkersLost /\ UNCHANGED <<storeVars, platformVars>>
  <1>1. ASSUME NEW r \in Receivers, Receiver(r)
        PROVE  UNCHANGED <<workerVars, claims, interactions, summaries>>
    BY <1>1 DEF Receiver, IngestStep, IngestRaw, RawFails, IngestMessage,
                MessageFails, Enqueue, EnqueueFails, storeVars
  <1>2. ASSUME NEW r \in Receivers, NEW p \in Payloads, Deliver(r, p)
        PROVE  UNCHANGED <<workerVars, claims, interactions, summaries>>
    BY <1>2 DEF Deliver, Receive, storeVars
  <1>3. ASSUME NEW c \in Configs, Start(c)
        PROVE  UNCHANGED <<workerVars, claims, interactions, summaries>>
    BY <1>3 DEF Start
  <1>4. CASE PruneAndServe \/ BeginStop \/ Tick \/ UNCHANGED vars
    BY <1>4 DEF PruneAndServe, BeginStop, Tick, vars, storeVars
  <1>5. CASE FinishStop \/ Crash
    BY <1>5 DEF FinishStop, Crash, Halt
  <1>6. ASSUME NEW w \in Workers, Worker(w)
        PROVE  WorkerStep(w) /\ UNCHANGED <<processVars, ingestVars>>
    BY <1>6 DEF Worker
  <1> QED
    BY <1>1, <1>2, <1>3, <1>4, <1>5, <1>6 DEF Next

-------------------------------------------------------------------------------
(***************************************************************************)
(* Which handler runs for a message, and what it sends.                    *)
(***************************************************************************)
\* The only handler that ever claims a trigger of m.  Under other features a
\* message may be named otherwise, or not at all, but then nothing is claimed.
Answerer(m) ==
    CASE Event[m].text = "#ping" -> "ping"
      [] Event[m].text = "#qa" -> "grounded_qa"
      [] Event[m].text = "#summary" /\ ~Event[m].at -> "summary"
      [] OTHER -> "mention_chat"

\* The names under which m may be enqueued and dispatched.
NamesOf(m) == {Answerer(m)} \cup {n \in {"summary"} : Renamable(m)}

RepliesOf(n) ==
    CASE n = "ping" -> {"pong"}
      [] n = "summary" -> {"digest"}
      [] OTHER -> {"usage", "answer", "apology"}

\* The features decide whether a message is named, never between two handlers
\* that would both run.
LEMMA NameOfMessage ==
    ASSUME NEW m \in Messages
    PROVE  /\ InteractionName(m) \in NamesOf(m) \cup {NoName}
           /\ NoName \notin Names
  <1>1. Event[m] \in EventRecord /\ (Event[m].text # "other" => ~Event[m].selfAt)
    BY MessageAssumption
  <1> QED
    BY <1>1 DEF EventRecord, InteractionName, CommandName, AssistantTrigger,
       Mentioned, NamesOf, Answerer, Renamable, NoName, Names, AssistantNames

\* The handler chosen for the row, and what it may be about to send.
Chosen(w) ==
    /\ pc[w] = "handle" => route[w] \in NamesOf(job[w].msg) \cup {NoName}
    /\ pc[w] \in BeforePost \cup {"sent", "turn"} => route[w] = Answerer(job[w].msg)
    /\ pc[w] \in {"gate", "generate"} => route[w] # "ping"
    /\ pc[w] = "persist" => route[w] = "summary" /\ reply[w] = "digest"
    /\ pc[w] \in {"send", "sent"} => reply[w] \in RepliesOf(route[w])
    /\ pc[w] = "turn" => route[w] \in AssistantNames

\* A handler that runs is the one its message always gets.
LEMMA RunnableAnswers ==
    ASSUME TypeOK, NEW w \in Workers, pc[w] = "handle", Chosen(w), Runnable(w)
    PROVE  route[w] = Answerer(job[w].msg)
  BY DEF Chosen, Runnable, NamesOf, Renamable, Ev

\* Up to the claim, the acting worker keeps Chosen.
LEMMA ChosenFetch ==
    ASSUME TypeOK, NEW w \in Workers, Chosen(w),
           \/ Poll(w) \/ ClaimRow(w) \/ NothingPending(w) \/ PollFails(w)
           \/ Load(w) \/ LoadFails(w) \/ RequeueFails(w) \/ Acquire(w)
           \/ Reconcile(w) \/ Expire(w) \/ Dispatch(w) \/ LookupFails(w)
           \/ Decline(w) \/ ClaimFails(w) \/ Duplicate(w) \/ ClaimTrigger(w)
    PROVE  Chosen(w)'
  <1> USE DEF TypeOK, WorkerTypeOK, GoTo, BeforePost
  <1>1. CASE Dispatch(w)
    <2>1. job[w].msg \in Messages
      BY <1>1, JobType DEF Dispatch
    <2>2. InteractionName(job[w].msg) \in NamesOf(job[w].msg) \cup {NoName}
      BY <2>1, NameOfMessage
    <2>3. pc'[w] = "handle" /\ job' = job /\ route'[w] = InteractionName(job[w].msg)
      BY <1>1 DEF Dispatch
    <2> QED
      BY <2>2, <2>3 DEF Chosen, NamesOf, Answerer, Renamable
  <1>2. CASE ClaimTrigger(w)
    <2>1. route[w] = Answerer(job[w].msg)
      BY <1>2, RunnableAnswers DEF ClaimTrigger
    <2>2. /\ pc'[w] = IF route[w] = "ping" THEN "send" ELSE "gate"
          /\ reply'[w] = IF route[w] = "ping" THEN "pong" ELSE "none"
          /\ UNCHANGED <<job, route>>
      BY <1>2 DEF ClaimTrigger
    <2> QED
      BY <2>1, <2>2 DEF Chosen, Answerer, RepliesOf
  <1>3. CASE ~Dispatch(w) /\ ~ClaimTrigger(w)
    <2>1. pc'[w] \notin {"handle", "sent", "turn"} \cup BeforePost
      BY <1>3 DEF Poll, ClaimRow, NothingPending, PollFails, Load, LoadFails,
         RequeueFails, Acquire, Reconcile, Expire, LookupFails, Decline,
         ClaimFails, Duplicate, Forget, GiveUp
    <2> QED
      BY <2>1 DEF Chosen
  <1> QED
    BY <1>1, <1>2, <1>3

\* The same from the claim on.
LEMMA ChosenHandler ==
    ASSUME TypeOK, NEW w \in Workers, Chosen(w),
           \/ SummaryRefused(w) \/ SummaryBegins(w)
           \/ SendUsage(w) \/ AssistantRefused(w) \/ AssistantBegins(w)
           \/ Generate(w) \/ SummaryGenerationFails(w) \/ AnswerGenerationFails(w)
           \/ PersistSummary(w) \/ PersistFails(w) \/ TokenFails(w) \/ Post(w)
           \/ SendUnconfirmed(w) \/ AnswerConfirmed(w) \/ ReplyConfirmed(w)
           \/ ApologyConfirmed(w) \/ RecordTurn(w) \/ RecordTurnFails(w)
           \/ RecordOutcome(w) \/ RecordFails(w)
    PROVE  Chosen(w)'
  <1> USE DEF TypeOK, WorkerTypeOK, GoTo, BeforePost
  <1>1. CASE \/ SummaryBegins(w) \/ SendUsage(w) \/ AssistantBegins(w)
             \/ AnswerGenerationFails(w)
    <2>1. /\ route[w] = Answerer(job[w].msg) /\ UNCHANGED <<job, route>>
          /\ \/ pc'[w] = "generate" /\ route[w] # "ping"
             \/ /\ pc'[w] = "send" /\ route[w] \in AssistantNames
                /\ reply'[w] \in {"usage", "apology"}
      BY <1>1 DEF SummaryBegins, SendUsage, AssistantBegins,
         AnswerGenerationFails, Chosen, AssistantNames
    <2> QED
      BY <2>1 DEF Chosen, Answerer, RepliesOf, AssistantNames
  <1>2. CASE Generate(w)
    <2>1. /\ route[w] = Answerer(job[w].msg) /\ UNCHANGED <<job, route>>
          /\ route[w] \in {"summary"} \cup AssistantNames
          /\ pc'[w] = IF route[w] = "summary" THEN "persist" ELSE "send"
          /\ reply'[w] = IF route[w] = "summary" THEN "digest" ELSE "answer"
      BY <1>2 DEF Generate, Chosen, Names
    <2> QED
      BY <2>1 DEF Chosen, Answerer, RepliesOf, AssistantNames
  <1>3. CASE PersistSummary(w)
    <2>1. /\ route[w] = Answerer(job[w].msg) /\ UNCHANGED <<job, route, reply>>
          /\ route[w] = "summary" /\ reply[w] = "digest" /\ pc'[w] = "send"
      BY <1>3 DEF PersistSummary, Chosen
    <2> QED
      BY <2>1 DEF Chosen, Answerer, RepliesOf
  <1>4. CASE Post(w) \/ AnswerConfirmed(w)
    <2>1. /\ route[w] = Answerer(job[w].msg) /\ UNCHANGED <<job, route, reply>>
          /\ reply[w] \in RepliesOf(route[w]) /\ route[w] \in Names
          /\ pc'[w] = "sent" \/ (pc'[w] = "turn" /\ reply[w] = "answer")
      BY <1>4 DEF Post, AnswerConfirmed, Chosen
    <2>2. reply[w] = "answer" => route[w] \in AssistantNames
      BY <2>1 DEF RepliesOf, Names
    <2> QED
      BY <2>1, <2>2 DEF Chosen, Answerer, RepliesOf
  <1>5. CASE \/ SummaryRefused(w) \/ AssistantRefused(w)
             \/ SummaryGenerationFails(w) \/ PersistFails(w) \/ TokenFails(w)
             \/ SendUnconfirmed(w) \/ ReplyConfirmed(w) \/ ApologyConfirmed(w)
             \/ RecordTurn(w) \/ RecordTurnFails(w)
             \/ RecordOutcome(w) \/ RecordFails(w)
    <2>1. pc'[w] \notin {"handle", "sent", "turn"} \cup BeforePost
      BY <1>5 DEF SummaryRefused, AssistantRefused, SummaryGenerationFails,
         PersistFails, TokenFails, SendUnconfirmed, ReplyConfirmed,
         ApologyConfirmed, RecordTurn, RecordTurnFails, RecordOutcome,
         RecordFails, Forget, GiveUp, Succeed
    <2> QED
      BY <2>1 DEF Chosen
  <1> QED
    BY <1>1, <1>2, <1>3, <1>4, <1>5

-------------------------------------------------------------------------------
(***************************************************************************)
(* What QQ has accepted.  Every part of this speaks of tables written at   *)
(* different awaits; it is inductive because a trigger is posted once, so  *)
(* that nothing a worker relied on is written over.                        *)
(***************************************************************************)
\* What a worker that is past its POST may rely on.
Arrived(w) ==
    /\ pc[w] \in {"sent", "turn"} => posts[Target(w)] > 0
    /\ pc[w] = "sent" => delivered[Target(w)] \in {"none", reply[w]}
    /\ pc[w] = "turn" => delivered[Target(w)] = "answer"
    /\ pc[w] \in {"record", "settle"} /\ verdict[w] = "completed" =>
         \E n \in Names : delivered[<<job[w].msg, n>>] \in Answers

\* A summary handler stores its summary once, between the claim and the POST.
Stored(w) ==
    route[w] = "summary" =>
      /\ pc[w] \in {"gate", "generate", "persist"} => summaries[job[w].msg] = 0
      /\ pc[w] = "send" => summaries[job[w].msg] = 1

ClaimsNamed == \A t \in claims : t[2] = Answerer(t[1])
SentFirst == \A t \in Triggers : delivered[t] # "none" => posts[t] > 0
TurnsArrived ==
    \A t \in interactions : delivered[t] = "answer" /\ t[2] \in AssistantNames
StoredClaimed == \A m \in Messages : summaries[m] > 0 => <<m, "summary">> \in claims

HandlerInv ==
    /\ PostInv
    /\ \A w \in Workers : Chosen(w) /\ Arrived(w) /\ Stored(w)
    /\ ClaimsNamed
    /\ SentFirst
    /\ TurnsArrived
    /\ StoredClaimed
    /\ SummaryStoredBeforePost

\* Nothing is known of an idle worker, and the tables start empty.
LEMMA InitHandler == Init => HandlerInv
  <1> SUFFICES ASSUME Init PROVE HandlerInv
    OBVIOUS
  <1>1. PostInv
    BY InitPost
  <1>2. \A w \in Workers : Chosen(w) /\ Arrived(w) /\ Stored(w)
    BY DEF Init, WorkersIdle, Chosen, Arrived, Stored, BeforePost
  <1>3. /\ claims = {} /\ interactions = {}
        /\ summaries = [m \in Messages |-> 0]
        /\ posts = [t \in Triggers |-> 0]
        /\ delivered = [t \in Triggers |-> "none"]
    BY DEF Init, StoreInit, PlatformInit
  <1>4. ClaimsNamed /\ SentFirst /\ TurnsArrived /\ StoredClaimed
    BY <1>3 DEF ClaimsNamed, SentFirst, TurnsArrived, StoredClaimed
  <1>5. SummaryStoredBeforePost
    <2> SUFFICES ASSUME NEW m \in Messages
                 PROVE  /\ summaries[m] <= 1
                        /\ posts[<<m, "summary">>] > 0 => summaries[m] = 1
      BY DEF SummaryStoredBeforePost
    <2>1. <<m, "summary">> \in Triggers
      BY DEF Triggers, Names
    <2> QED
      BY <1>3, <2>1
  <1> QED
    BY <1>1, <1>2, <1>4, <1>5 DEF HandlerInv

\* Once a trigger was posted its record at QQ stays what it is, and QQ's record
\* of a trigger that was not posted is empty.
LEMMA DeliveredStays ==
    ASSUME HandlerInv, NEW w \in Workers, WorkerStep(w), NEW t \in Triggers
    PROVE  /\ posts[t] > 0 => posts'[t] > 0 /\ delivered'[t] = delivered[t]
           /\ delivered[t] # "none" => delivered'[t] = delivered[t]
  <1>1. CASE UNCHANGED platformVars
    BY <1>1 DEF platformVars, HandlerInv, SentFirst
  <1>2. CASE Post(w)
    <2>1. Target(w) \in Triggers /\ posts[Target(w)] = 0
      BY <1>2, RoutedTargetType DEF Post, BeforePost, HandlerInv, PostInv, TypeInv,
         PostDiscipline
    <2>2. \A u \in Triggers : u # Target(w) =>
             posts'[u] = posts[u] /\ delivered'[u] = delivered[u]
      BY <1>2 DEF Post, HandlerInv, PostInv, TypeInv, TypeOK, WorkerTypeOK
    <2> QED
      BY <2>1, <2>2 DEF HandlerInv, SentFirst
  <1> QED
    BY <1>1, <1>2, WorkerWrites

\* What the other workers rely on outlives the step.
LEMMA OthersArrived ==
    ASSUME HandlerInv, NEW w \in Workers, WorkerStep(w), NEW v \in Workers \ {w}
    PROVE  Arrived(v)'
  <1>1. /\ pc'[v] = pc[v] /\ job'[v] = job[v] /\ route'[v] = route[v]
        /\ reply'[v] = reply[v] /\ verdict'[v] = verdict[v]
    BY OthersUnmoved DEF HandlerInv, PostInv, TypeInv
  <1>2. Arrived(v)
    BY DEF HandlerInv
  <1>3. CASE pc[v] \in {"sent", "turn"}
    <2>1. Target(v) \in Triggers
      BY <1>3, RoutedTargetType DEF HandlerInv, PostInv, TypeInv
    <2>2. posts'[Target(v)] > 0 /\ delivered'[Target(v)] = delivered[Target(v)]
      BY <1>2, <1>3, <2>1, DeliveredStays DEF Arrived
    <2>3. Target(v)' = Target(v)
      BY <1>1 DEF Target
    <2> QED
      BY <1>1, <1>2, <1>3, <2>2, <2>3 DEF Arrived
  <1>4. CASE pc[v] \in {"record", "settle"} /\ verdict[v] = "completed"
    <2>1. PICK n \in Names : delivered[<<job[v].msg, n>>] \in Answers
      BY <1>2, <1>4 DEF Arrived
    <2>2. job[v].msg \in Messages
      BY <1>4, JobType DEF HandlerInv, PostInv, TypeInv
    <2>3. <<job[v].msg, n>> \in Triggers /\ delivered[<<job[v].msg, n>>] # "none"
      BY <2>1, <2>2 DEF Triggers, Answers
    <2>4. delivered'[<<job[v].msg, n>>] \in Answers
      BY <2>1, <2>3, DeliveredStays
    <2> QED
      BY <1>1, <1>4, <2>4 DEF Arrived, Answers
  <1> QED
    BY <1>1, <1>2, <1>3, <1>4 DEF Arrived

\* The acting worker learns from QQ only what QQ recorded.
LEMMA OwnArrived ==
    ASSUME HandlerInv, NEW w \in Workers, WorkerStep(w)
    PROVE  Arrived(w)'
  <1> USE DEF HandlerInv, PostInv, TypeInv, TypeOK, WorkerTypeOK, GoTo
  <1>1. CASE Reconcile(w)
    <2>1. <<job[w].msg, job[w].name>> \in interactions /\ job[w].name \in Names
      BY <1>1 DEF Reconcile, AlreadyDelivered, AssistantNames, Names
    <2>2. delivered[<<job[w].msg, job[w].name>>] \in Answers
      BY <2>1 DEF TurnsArrived, Answers
    <2> HIDE DEF HandlerInv
    <2> QED
      BY <1>1, <2>1, <2>2 DEF Reconcile, Arrived, platformVars
  <1>2. CASE Post(w)
    <2>1. Target(w) \in Triggers /\ posts[Target(w)] = 0
      BY <1>2, RoutedTargetType DEF Post, BeforePost, PostDiscipline
    <2>2. delivered[Target(w)] = "none"
      BY <2>1 DEF SentFirst
    <2>3. pc'[w] = "sent" /\ UNCHANGED <<job, route, reply>>
      BY <1>2 DEF Post
    <2>4. posts'[Target(w)] = 1 /\ delivered'[Target(w)] \in {"none", reply[w]}
      BY <1>2, <2>1, <2>2 DEF Post
    <2> HIDE DEF HandlerInv
    <2> QED
      BY <2>3, <2>4 DEF Arrived, Target
  <1>3. CASE AnswerConfirmed(w)
    BY <1>3 DEF AnswerConfirmed, Arrived, platformVars, Target
  <1>4. CASE ReplyConfirmed(w)
    <2>1. route[w] \in Names /\ job'[w] = job[w] /\ pc'[w] = "settle"
      BY <1>4, RoutedTargetType DEF ReplyConfirmed, Succeed
    <2>2. delivered' = delivered /\ delivered[Target(w)] \in Answers
      BY <1>4 DEF ReplyConfirmed, Arrived, Answers, platformVars
    <2> HIDE DEF HandlerInv
    <2> QED
      BY <2>1, <2>2 DEF Arrived, Target
  <1>5. CASE RecordTurn(w)
    <2>1. route[w] \in Names /\ job'[w] = job[w] /\ pc'[w] = "settle"
      BY <1>5, RoutedTargetType DEF RecordTurn, Succeed
    <2>2. delivered' = delivered /\ delivered[Target(w)] \in Answers
      BY <1>5 DEF RecordTurn, Arrived, Answers, platformVars
    <2> HIDE DEF HandlerInv
    <2> QED
      BY <2>1, <2>2 DEF Arrived, Target
  <1>6. CASE \/ Poll(w) \/ ClaimRow(w) \/ NothingPending(w) \/ PollFails(w)
             \/ Load(w) \/ LoadFails(w) \/ RequeueFails(w) \/ Acquire(w)
             \/ Expire(w) \/ Dispatch(w) \/ LookupFails(w)
             \/ Decline(w) \/ ClaimFails(w) \/ Duplicate(w) \/ ClaimTrigger(w)
    <2>1. /\ pc'[w] \notin {"sent", "turn"}
          /\ pc'[w] \in {"record", "settle"} => verdict'[w] = "failed"
      BY <1>6 DEF Poll, ClaimRow, NothingPending, PollFails, Load, LoadFails,
         RequeueFails, Acquire, Expire, Dispatch, LookupFails, Decline,
         ClaimFails, Duplicate, ClaimTrigger, Forget, GiveUp
    <2> HIDE DEF HandlerInv
    <2> QED
      BY <2>1 DEF Arrived
  <1>7. CASE \/ SummaryRefused(w) \/ SummaryBegins(w)
             \/ SendUsage(w) \/ AssistantRefused(w) \/ AssistantBegins(w)
             \/ Generate(w) \/ SummaryGenerationFails(w) \/ AnswerGenerationFails(w)
             \/ PersistSummary(w) \/ PersistFails(w) \/ TokenFails(w)
             \/ SendUnconfirmed(w) \/ ApologyConfirmed(w) \/ RecordTurnFails(w)
             \/ RecordOutcome(w) \/ RecordFails(w)
    <2>1. /\ pc'[w] \notin {"sent", "turn"}
          /\ pc'[w] \in {"record", "settle"} => verdict'[w] = "failed"
      BY <1>7 DEF SummaryRefused, SummaryBegins, SendUsage, AssistantRefused,
         AssistantBegins, Generate, SummaryGenerationFails,
         AnswerGenerationFails, PersistSummary, PersistFails, TokenFails,
         SendUnconfirmed, ApologyConfirmed, RecordTurnFails, RecordOutcome,
         RecordFails, Forget, GiveUp
    <2> HIDE DEF HandlerInv
    <2> QED
      BY <2>1 DEF Arrived
  <1> QED
    BY <1>1, <1>2, <1>3, <1>4, <1>5, <1>6, <1>7 DEF WorkerStep

\* A trigger that is stored or about to be is nobody else's.
LEMMA OthersStored ==
    ASSUME HandlerInv, NEW w \in Workers, WorkerStep(w), NEW v \in Workers \ {w}
    PROVE  Stored(v)'
  <1>1. /\ pc'[v] = pc[v] /\ job'[v] = job[v] /\ route'[v] = route[v]
    BY OthersUnmoved DEF HandlerInv, PostInv, TypeInv
  <1>2. Stored(v)
    BY DEF HandlerInv
  <1>3. CASE UNCHANGED summaries
    BY <1>1, <1>2, <1>3 DEF Stored
  <1>4. CASE PersistSummary(w) /\ pc[v] \in BeforePost /\ route[v] = "summary"
    <2>1. route[w] = "summary" /\ pc[w] \in BeforePost
      BY <1>4 DEF PersistSummary, HandlerInv, Chosen, BeforePost
    <2>2. job[v].msg # job[w].msg
      BY <1>4, <2>1 DEF HandlerInv, PostInv, PostDiscipline, Target
    <2>3. job[v].msg \in Messages /\ job[w].msg \in Messages
      BY <1>4, <2>1, JobType DEF HandlerInv, PostInv, TypeInv, BeforePost
    <2>4. summaries'[job[v].msg] = summaries[job[v].msg]
      BY <1>4, <2>2, <2>3 DEF PersistSummary, HandlerInv, PostInv, TypeInv, TypeOK,
         StoreTypeOK
    <2> QED
      BY <1>1, <1>2, <2>4 DEF Stored
  <1>5. CASE ~(pc[v] \in BeforePost /\ route[v] = "summary")
    BY <1>1, <1>5 DEF Stored, BeforePost
  <1> QED
    BY <1>3, <1>4, <1>5, WorkerWrites

\* The owner of a new claim finds no summary of its trigger, and stores one.
LEMMA OwnStored ==
    ASSUME HandlerInv, NEW w \in Workers, WorkerStep(w)
    PROVE  Stored(w)'
  <1> USE DEF HandlerInv, PostInv, TypeInv, TypeOK, WorkerTypeOK, GoTo
  <1>1. CASE ClaimTrigger(w)
    <2>1. Target(w) \notin claims /\ job[w].msg \in Messages
      BY <1>1, JobType DEF ClaimTrigger
    <2>2. route[w] = "summary" => summaries[job[w].msg] = 0
      BY <2>1 DEF StoredClaimed, Target, StoreTypeOK
    <2>3. pc'[w] = (IF route[w] = "ping" THEN "send" ELSE "gate")
          /\ UNCHANGED <<job, route, summaries>>
      BY <1>1 DEF ClaimTrigger
    <2> HIDE DEF HandlerInv
    <2> QED
      BY <2>2, <2>3 DEF Stored
  <1>2. CASE PersistSummary(w)
    <2>1. job[w].msg \in Messages /\ route[w] = "summary"
      BY <1>2, JobType DEF PersistSummary, Chosen
    <2>2. summaries[job[w].msg] = 0
      BY <1>2, <2>1 DEF PersistSummary, Stored
    <2>3. /\ pc'[w] = "send" /\ UNCHANGED <<job, route>>
          /\ summaries'[job[w].msg] = 1
      BY <1>2, <2>1, <2>2 DEF PersistSummary, StoreTypeOK
    <2> HIDE DEF HandlerInv
    <2> QED
      BY <2>3 DEF Stored
  <1>3. CASE \/ SummaryBegins(w) \/ SendUsage(w) \/ AssistantBegins(w)
             \/ Generate(w) \/ AnswerGenerationFails(w)
    <2>1. /\ UNCHANGED <<job, route, summaries>>
          /\ pc[w] \in {"gate", "generate"}
          /\ pc'[w] \in {"generate", "persist", "send"}
          /\ pc'[w] = "send" => route[w] # "summary"
      BY <1>3 DEF SummaryBegins, SendUsage, AssistantBegins, Generate,
         AnswerGenerationFails, storeVars, AssistantNames
    <2>2. Stored(w)
      OBVIOUS
    <2> HIDE DEF HandlerInv
    <2> QED
      BY <2>1, <2>2 DEF Stored
  <1>4. CASE \/ Poll(w) \/ ClaimRow(w) \/ NothingPending(w) \/ PollFails(w)
             \/ Load(w) \/ LoadFails(w) \/ RequeueFails(w) \/ Acquire(w)
             \/ Reconcile(w) \/ Expire(w) \/ Dispatch(w) \/ LookupFails(w)
             \/ Decline(w) \/ ClaimFails(w) \/ Duplicate(w)
    <2>1. pc'[w] \notin BeforePost
      BY <1>4 DEF Poll, ClaimRow, NothingPending, PollFails, Load, LoadFails,
         RequeueFails, Acquire, Reconcile, Expire, Dispatch, LookupFails,
         Decline, ClaimFails, Duplicate, Forget, GiveUp, BeforePost
    <2> HIDE DEF HandlerInv
    <2> QED
      BY <2>1 DEF Stored, BeforePost
  <1>5. CASE \/ SummaryRefused(w) \/ AssistantRefused(w)
             \/ SummaryGenerationFails(w) \/ PersistFails(w) \/ TokenFails(w)
             \/ Post(w) \/ SendUnconfirmed(w) \/ AnswerConfirmed(w)
             \/ ReplyConfirmed(w) \/ ApologyConfirmed(w)
             \/ RecordTurn(w) \/ RecordTurnFails(w)
             \/ RecordOutcome(w) \/ RecordFails(w)
    <2>1. pc'[w] \notin BeforePost
      BY <1>5 DEF SummaryRefused, AssistantRefused, SummaryGenerationFails,
         PersistFails, TokenFails, Post, SendUnconfirmed, AnswerConfirmed,
         ReplyConfirmed, ApologyConfirmed, RecordTurn, RecordTurnFails,
         RecordOutcome, RecordFails, Forget, GiveUp, Succeed, BeforePost
    <2> HIDE DEF HandlerInv
    <2> QED
      BY <2>1 DEF Stored, BeforePost
  <1> QED
    BY <1>1, <1>2, <1>3, <1>4, <1>5 DEF WorkerStep

\* The tables and QQ's records keep agreeing with one another.
LEMMA TablesStep ==
    ASSUME HandlerInv, NEW w \in Workers, WorkerStep(w)
    PROVE  ClaimsNamed' /\ SentFirst' /\ TurnsArrived' /\ StoredClaimed'
  <1>1. TypeOK /\ Chosen(w) /\ Arrived(w)
    BY DEF HandlerInv, PostInv, TypeInv
  <1>2. ClaimsNamed'
    <2>1. CASE UNCHANGED claims
      BY <2>1 DEF HandlerInv, ClaimsNamed
    <2>2. CASE ClaimTrigger(w)
      <3>1. claims' = claims \cup {Target(w)} /\ route[w] = Answerer(job[w].msg)
        BY <1>1, <2>2, RunnableAnswers DEF ClaimTrigger
      <3>2. Target(w)[1] = job[w].msg /\ Target(w)[2] = route[w]
        BY DEF Target
      <3> QED
        BY <3>1, <3>2 DEF HandlerInv, ClaimsNamed
    <2> QED
      BY <2>1, <2>2, WorkerWrites
  <1>3. SentFirst'
    <2>1. CASE UNCHANGED platformVars
      BY <2>1 DEF platformVars, HandlerInv, SentFirst
    <2>2. CASE Post(w)
      <3>1. Target(w) \in Triggers /\ posts \in [Triggers -> Nat]
        BY <1>1, <2>2, RoutedTargetType DEF Post, BeforePost, TypeOK, WorkerTypeOK
      <3>2. posts'[Target(w)] > 0
        BY <2>2, <3>1 DEF Post
      <3>3. \A u \in Triggers : u # Target(w) =>
               posts'[u] = posts[u] /\ delivered'[u] = delivered[u]
        BY <1>1, <2>2 DEF Post, TypeOK, WorkerTypeOK
      <3> QED
        BY <3>2, <3>3 DEF HandlerInv, SentFirst
    <2> QED
      BY <2>1, <2>2, WorkerWrites
  <1>4. TurnsArrived'
    <2>1. \A t \in interactions : t \in Triggers /\ delivered'[t] = "answer"
      BY <1>1, DeliveredStays DEF HandlerInv, TurnsArrived, TypeOK, StoreTypeOK
    <2>2. CASE UNCHANGED interactions
      BY <2>1, <2>2 DEF HandlerInv, TurnsArrived
    <2>3. CASE RecordTurn(w)
      <3>1. interactions' = interactions \cup {Target(w)} /\ UNCHANGED delivered
        BY <2>3 DEF RecordTurn, platformVars
      <3>2. delivered[Target(w)] = "answer" /\ Target(w)[2] \in AssistantNames
        BY <1>1, <2>3 DEF RecordTurn, Arrived, Chosen, Target
      <3> QED
        BY <3>1, <3>2 DEF HandlerInv, TurnsArrived
    <2> QED
      BY <2>2, <2>3, WorkerWrites
  <1>5. StoredClaimed'
    <2>1. claims \subseteq claims'
      BY WorkerWrites DEF ClaimTrigger
    <2>2. CASE UNCHANGED summaries
      BY <2>1, <2>2 DEF HandlerInv, StoredClaimed
    <2>3. CASE PersistSummary(w)
      <3>1. Target(w) \in claims /\ route[w] = "summary"
        BY <1>1, <2>3 DEF PersistSummary, Chosen, HandlerInv, PostInv,
           PostDiscipline, BeforePost
      <3>2. \A m \in Messages : m # job[w].msg => summaries'[m] = summaries[m]
        BY <1>1, <2>3 DEF PersistSummary, TypeOK, StoreTypeOK
      <3> QED
        BY <2>1, <3>1, <3>2 DEF HandlerInv, StoredClaimed, Target
    <2> QED
      BY <2>2, <2>3, WorkerWrites
  <1> QED
    BY <1>2, <1>3, <1>4, <1>5

\* The POST of a summary comes after its insert, and there is no second insert.
LEMMA StoredFirstStep ==
    ASSUME HandlerInv, NEW w \in Workers, WorkerStep(w)
    PROVE  SummaryStoredBeforePost'
  <1>1. TypeOK /\ Chosen(w) /\ Stored(w) /\ SummaryStoredBeforePost
    BY DEF HandlerInv, PostInv, TypeInv
  <1>2. CASE UNCHANGED <<summaries, posts>>
    BY <1>1, <1>2 DEF SummaryStoredBeforePost
  <1>3. CASE PersistSummary(w)
    <2>1. job[w].msg \in Messages /\ route[w] = "summary" /\ posts' = posts
      BY <1>1, <1>3, JobType DEF PersistSummary, Chosen, platformVars
    <2>2. summaries[job[w].msg] = 0
      BY <1>1, <1>3, <2>1 DEF PersistSummary, Stored
    <2>3. summaries'[job[w].msg] = 1
      BY <1>1, <1>3, <2>1, <2>2 DEF PersistSummary, TypeOK, StoreTypeOK
    <2>4. ASSUME NEW m \in Messages
          PROVE  summaries'[m] <= 1 /\ (posts'[<<m, "summary">>] > 0 => summaries'[m] = 1)
      <3>1. CASE m = job[w].msg
        BY <2>3, <3>1
      <3>2. CASE m # job[w].msg
        <4>1. summaries'[m] = summaries[m]
          BY <1>1, <1>3, <3>2 DEF PersistSummary, TypeOK, StoreTypeOK
        <4> QED
          BY <1>1, <2>1, <4>1 DEF SummaryStoredBeforePost
      <3> QED
        BY <3>1, <3>2
    <2> QED
      BY <2>4 DEF SummaryStoredBeforePost
  <1>4. CASE Post(w)
    <2>1. /\ summaries' = summaries
          /\ \A u \in Triggers : u # Target(w) => posts'[u] = posts[u]
      BY <1>1, <1>4 DEF Post, storeVars, TypeOK, WorkerTypeOK
    <2>2. route[w] = "summary" => summaries[job[w].msg] = 1
      BY <1>1, <1>4 DEF Post, Stored
    <2>3. \A m \in Messages : <<m, "summary">> \in Triggers
      BY DEF Triggers, Names
    <2>4. ASSUME NEW m \in Messages, posts'[<<m, "summary">>] > 0
          PROVE  summaries[m] = 1
      <3>1. CASE <<m, "summary">> = Target(w)
        BY <2>2, <3>1 DEF Target
      <3>2. CASE <<m, "summary">> # Target(w)
        BY <1>1, <2>1, <2>3, <2>4, <3>2 DEF SummaryStoredBeforePost
      <3> QED
        BY <3>1, <3>2
    <2> QED
      BY <1>1, <2>1, <2>4 DEF SummaryStoredBeforePost
  <1> QED
    BY <1>2, <1>3, <1>4, WorkerWrites DEF platformVars

\* HandlerInv is inductive.
LEMMA HandlerStep == HandlerInv /\ [Next]_vars => HandlerInv'
  <1> SUFFICES ASSUME HandlerInv, [Next]_vars PROVE HandlerInv'
    OBVIOUS
  <1>1. PostInv'
    BY PostStep DEF HandlerInv
  <1>2. ASSUME NEW w \in Workers, WorkerStep(w)
        PROVE  HandlerInv'
    <2>1. ASSUME NEW v \in Workers PROVE Chosen(v)'
      <3>1. CASE v = w
        BY <1>2, <3>1, ChosenFetch, ChosenHandler DEF HandlerInv, PostInv, TypeInv,
           WorkerStep
      <3>2. CASE v # w
        <4>1. /\ pc'[v] = pc[v] /\ job'[v] = job[v] /\ route'[v] = route[v]
              /\ reply'[v] = reply[v]
          BY <1>2, <3>2, OthersUnmoved DEF HandlerInv, PostInv, TypeInv
        <4> QED
          BY <4>1 DEF HandlerInv, Chosen, Answerer, NamesOf, RepliesOf, Renamable
      <3> QED
        BY <3>1, <3>2
    <2>2. \A v \in Workers : Arrived(v)'
      BY <1>2, OthersArrived, OwnArrived
    <2>3. \A v \in Workers : Stored(v)'
      BY <1>2, OthersStored, OwnStored
    <2>4. ClaimsNamed' /\ SentFirst' /\ TurnsArrived' /\ StoredClaimed'
      BY <1>2, TablesStep
    <2>5. SummaryStoredBeforePost'
      BY <1>2, StoredFirstStep
    <2> QED
      BY <1>1, <2>1, <2>2, <2>3, <2>4, <2>5 DEF HandlerInv
  <1>3. CASE UNCHANGED <<workerVars, claims, interactions, summaries>>
    BY <1>1, <1>3 DEF HandlerInv, workerVars, platformVars, Chosen, Arrived, Stored,
       ClaimsNamed, SentFirst, TurnsArrived, StoredClaimed, Target, Answerer,
       NamesOf, RepliesOf, Renamable, SummaryStoredBeforePost
  <1>4. CASE WorkersLost /\ UNCHANGED <<storeVars, platformVars>>
    <2>1. \A v \in Workers : Chosen(v)' /\ Arrived(v)' /\ Stored(v)'
      BY <1>4 DEF WorkersLost, Chosen, Arrived, Stored, BeforePost
    <2> QED
      BY <1>1, <1>4, <2>1 DEF HandlerInv, storeVars, platformVars, ClaimsNamed,
         SentFirst, TurnsArrived, StoredClaimed, Answerer, SummaryStoredBeforePost
  <1> QED
    BY <1>2, <1>3, <1>4, StepKinds

\* HandlerInv holds in every reachable state.
LEMMA HandlerAlways == Spec => []HandlerInv
  BY InitHandler, HandlerStep, PTL DEF Spec

\* What is sent for a message is sent once and by one handler, under whichever
\* features its receipts, its retries and its restarts ran.
THEOREM OneReply == Spec => []OneReplyPerMessage
  <1>1. HandlerInv => OneReplyPerMessage
    <2> SUFFICES ASSUME HandlerInv, NEW m \in Messages, NEW n \in Names,
                        NEW k \in Names, posts[<<m, n>>] > 0, posts[<<m, k>>] > 0
                 PROVE  n = k /\ posts[<<m, n>>] = 1
      BY DEF OneReplyPerMessage
    <2>1. <<m, n>> \in Triggers /\ <<m, k>> \in Triggers
      BY DEF Triggers
    <2>2. <<m, n>> \in claims /\ <<m, k>> \in claims
      BY <2>1 DEF HandlerInv, PostInv, PostDiscipline
    <2>3. n = Answerer(m) /\ k = Answerer(m)
      BY <2>2 DEF HandlerInv, ClaimsNamed
    <2>4. posts[<<m, n>>] \in Nat /\ posts[<<m, n>>] <= 1
      BY <2>1 DEF HandlerInv, PostInv, TypeInv, TypeOK, WorkerTypeOK, AtMostOnePost
    <2> QED
      BY <2>3, <2>4
  <1> QED
    BY <1>1, HandlerAlways, PTL

\* A summary that reaches the group is in the table, once, whatever fails.
THEOREM SummaryStored == Spec => []SummaryStoredBeforePost
  <1>1. HandlerInv => SummaryStoredBeforePost
    BY DEF HandlerInv
  <1> QED
    BY <1>1, HandlerAlways, PTL

-------------------------------------------------------------------------------
(***************************************************************************)
(* One summary at a time in a group.                                       *)
(***************************************************************************)
Summarising(w) ==
    pc[w] \in {"generate", "persist", "send", "sent"} /\ route[w] = "summary"

\* The groups marked active are those of the workers that summarise, one each.
GroupsHeld ==
    /\ \A w \in Workers : Summarising(w) => Ev(w).group \in activeGroups
    /\ \A v, w \in Workers :
          Summarising(v) /\ Summarising(w) /\ Ev(v).group = Ev(w).group => v = w
    /\ \A g \in activeGroups : \E w \in Workers : Summarising(w) /\ Ev(w).group = g

\* A step enters a summary and marks its group, leaves one by whichever exit
\* and unmarks it, or does neither.
Keeps(w) ==
    /\ activeGroups' = activeGroups
    /\ Summarising(w)' <=> Summarising(w)
    /\ Summarising(w) => Ev(w)' = Ev(w)
Enters(w) ==
    /\ Ev(w).group \notin activeGroups
    /\ activeGroups' = activeGroups \cup {Ev(w).group}
    /\ ~Summarising(w) /\ Summarising(w)'
    /\ Ev(w)' = Ev(w)
Leaves(w) ==
    /\ activeGroups' = activeGroups \ {Ev(w).group}
    /\ Summarising(w) /\ ~Summarising(w)'

\* Nothing touches the groups before the gate.
LEMMA FetchKeeps ==
    ASSUME TypeOK, NEW w \in Workers,
           \/ Poll(w) \/ ClaimRow(w) \/ NothingPending(w) \/ PollFails(w)
           \/ Load(w) \/ LoadFails(w) \/ RequeueFails(w) \/ Acquire(w)
           \/ Reconcile(w) \/ Expire(w) \/ Dispatch(w) \/ LookupFails(w)
           \/ Decline(w) \/ ClaimFails(w) \/ Duplicate(w) \/ ClaimTrigger(w)
    PROVE  Keeps(w)
  <1> USE DEF TypeOK, WorkerTypeOK, GoTo, Summarising
  <1>1. activeGroups' = activeGroups
    BY DEF Poll, ClaimRow, NothingPending, PollFails, Load, LoadFails,
       RequeueFails, Acquire, Reconcile, Expire, Dispatch, LookupFails,
       Decline, ClaimFails, Duplicate, ClaimTrigger, gateVars
  <1>2. ~Summarising(w) /\ pc'[w] \notin {"generate", "persist", "sent"}
    BY DEF Poll, ClaimRow, NothingPending, PollFails, Load, LoadFails,
       RequeueFails, Acquire, Reconcile, Expire, Dispatch, LookupFails,
       Decline, ClaimFails, Duplicate, ClaimTrigger, Forget, GiveUp
  <1>3. pc'[w] = "send" => route'[w] = "ping"
    BY DEF Poll, ClaimRow, NothingPending, PollFails, Load, LoadFails,
       RequeueFails, Acquire, Reconcile, Expire, Dispatch, LookupFails,
       Decline, ClaimFails, Duplicate, ClaimTrigger, Forget, GiveUp
  <1> QED
    BY <1>1, <1>2, <1>3 DEF Keeps

\* From the gate on, the finally clause runs exactly when a summary ends.
LEMMA HandlerGroups ==
    ASSUME TypeOK, NEW w \in Workers, Chosen(w),
           \/ SummaryRefused(w) \/ SummaryBegins(w)
           \/ SendUsage(w) \/ AssistantRefused(w) \/ AssistantBegins(w)
           \/ Generate(w) \/ SummaryGenerationFails(w) \/ AnswerGenerationFails(w)
           \/ PersistSummary(w) \/ PersistFails(w) \/ TokenFails(w) \/ Post(w)
           \/ SendUnconfirmed(w) \/ AnswerConfirmed(w) \/ ReplyConfirmed(w)
           \/ ApologyConfirmed(w) \/ RecordTurn(w) \/ RecordTurnFails(w)
           \/ RecordOutcome(w) \/ RecordFails(w)
    PROVE  Keeps(w) \/ Enters(w) \/ Leaves(w)
  <1> USE DEF TypeOK, WorkerTypeOK, GoTo, Summarising
  <1>1. CASE SummaryBegins(w)
    BY <1>1 DEF SummaryBegins, Enters, Ev
  <1>2. CASE \/ SummaryRefused(w) \/ SendUsage(w) \/ AssistantRefused(w)
             \/ AssistantBegins(w) \/ Generate(w) \/ AnswerGenerationFails(w)
             \/ PersistSummary(w) \/ Post(w)
    BY <1>2 DEF SummaryRefused, SendUsage, AssistantRefused, AssistantBegins,
       Generate, AnswerGenerationFails, PersistSummary, Post, GiveUp, gateVars,
       AssistantNames, Keeps, Ev
  <1>3. CASE \/ SummaryGenerationFails(w) \/ PersistFails(w) \/ TokenFails(w)
             \/ SendUnconfirmed(w) \/ ReplyConfirmed(w)
    <2>1. /\ LeaveGroup(w) /\ pc[w] \in {"generate", "persist", "send", "sent"}
          /\ pc'[w] \in {"record", "settle"}
      BY <1>3 DEF SummaryGenerationFails, PersistFails, TokenFails,
         SendUnconfirmed, ReplyConfirmed, GiveUp, Succeed
    <2> QED
      BY <2>1 DEF LeaveGroup, Leaves, Keeps
  <1>4. CASE AnswerConfirmed(w) \/ ApologyConfirmed(w)
    <2>1. route[w] # "summary"
      BY <1>4 DEF AnswerConfirmed, ApologyConfirmed, Chosen, RepliesOf
    <2>2. activeGroups' = activeGroups /\ route' = route
      BY <1>4 DEF AnswerConfirmed, ApologyConfirmed, GiveUp, gateVars
    <2> QED
      BY <2>1, <2>2 DEF Keeps
  <1>5. CASE RecordTurn(w) \/ RecordTurnFails(w) \/ RecordOutcome(w) \/ RecordFails(w)
    BY <1>5 DEF RecordTurn, RecordTurnFails, RecordOutcome, RecordFails,
       Forget, GiveUp, Succeed, gateVars, Keeps
  <1> QED
    BY <1>1, <1>2, <1>3, <1>4, <1>5

GroupInv == HandlerInv /\ GroupsHeld

\* GroupInv is inductive.
LEMMA GroupStep == GroupInv /\ [Next]_vars => GroupInv'
  <1> SUFFICES ASSUME GroupInv, [Next]_vars PROVE GroupInv'
    OBVIOUS
  <1>1. HandlerInv'
    BY HandlerStep DEF GroupInv
  <1>2. GroupsHeld
    BY DEF GroupInv
  <1>3. ASSUME NEW w \in Workers, WorkerStep(w)
        PROVE  GroupsHeld'
    <2>1. \A v \in Workers \ {w} : (Summarising(v)' <=> Summarising(v)) /\ Ev(v)' = Ev(v)
      <3> SUFFICES ASSUME NEW v \in Workers \ {w}
                   PROVE  (Summarising(v)' <=> Summarising(v)) /\ Ev(v)' = Ev(v)
        OBVIOUS
      <3>1. pc'[v] = pc[v] /\ job'[v] = job[v] /\ route'[v] = route[v]
        BY <1>3, OthersUnmoved DEF GroupInv, HandlerInv, PostInv, TypeInv
      <3> QED
        BY <3>1 DEF Summarising, Ev
    <2>2. Keeps(w) \/ Enters(w) \/ Leaves(w)
      BY <1>3, FetchKeeps, HandlerGroups DEF WorkerStep, GroupInv, HandlerInv,
         PostInv, TypeInv
    <2>3. CASE Keeps(w)
      BY <1>2, <2>1, <2>3 DEF Keeps, GroupsHeld
    <2>4. CASE Enters(w)
      BY <1>2, <2>1, <2>4 DEF Enters, GroupsHeld
    <2>5. CASE Leaves(w)
      BY <1>2, <2>1, <2>5 DEF Leaves, GroupsHeld
    <2> QED
      BY <2>2, <2>3, <2>4, <2>5
  <1>4. CASE UNCHANGED <<workerVars, claims, interactions, summaries>>
    <2>1. /\ activeGroups' = activeGroups
          /\ \A w \in Workers : (Summarising(w)' <=> Summarising(w)) /\ Ev(w)' = Ev(w)
      BY <1>4 DEF Summarising, Ev, workerVars, gateVars
    <2> QED
      BY <1>1, <1>2, <2>1 DEF GroupInv, GroupsHeld
  <1>5. CASE WorkersLost /\ UNCHANGED <<storeVars, platformVars>>
    <2>1. activeGroups' = {} /\ \A w \in Workers : ~Summarising(w)'
      BY <1>5 DEF WorkersLost, Summarising
    <2> QED
      BY <1>1, <2>1 DEF GroupInv, GroupsHeld
  <1> QED
    BY <1>1, <1>3, <1>4, <1>5, StepKinds DEF GroupInv

\* Two summaries of one group never overlap, and no failure, refusal or restart
\* leaves a group marked that nobody summarises.
THEOREM OneSummary == Spec => []OneSummaryPerGroup
  <1>1. Init => GroupInv
    <2>1. Init => GroupsHeld
      BY DEF Init, WorkersIdle, GroupsHeld, Summarising
    <2> QED
      BY <2>1, InitHandler DEF GroupInv
  <1>2. GroupInv => OneSummaryPerGroup
    <2> SUFFICES ASSUME GroupInv, NEW g \in Groups
                 PROVE  Cardinality({w \in Workers :
                                       /\ pc[w] \in {"generate", "persist", "send", "sent"}
                                       /\ route[w] = "summary"
                                       /\ Ev(w).group = g})
                          = IF g \in activeGroups THEN 1 ELSE 0
      BY DEF OneSummaryPerGroup
    <2> DEFINE busy == {w \in Workers : Summarising(w) /\ Ev(w).group = g}
    <2>1. CASE g \in activeGroups
      <3>1. PICK w \in Workers : Summarising(w) /\ Ev(w).group = g
        BY <2>1 DEF GroupInv, GroupsHeld
      <3>2. busy = {w}
        BY <3>1 DEF GroupInv, GroupsHeld
      <3>3. Cardinality({w}) = 1
        BY FS_Singleton
      <3> QED
        BY <2>1, <3>2, <3>3 DEF Summarising
    <2>2. CASE g \notin activeGroups
      <3>1. busy = {}
        BY <2>2 DEF GroupInv, GroupsHeld
      <3>2. Cardinality({}) = 0
        BY FS_EmptySet
      <3> QED
        BY <2>2, <3>1, <3>2 DEF Summarising
    <2> QED
      BY <2>1, <2>2
  <1> QED
    BY <1>1, <1>2, GroupStep, PTL DEF Spec

-------------------------------------------------------------------------------
(***************************************************************************)
(* What may happen to one row.  The repository's UPDATEs are stated over   *)
(* the whole table; the arguments below follow a row.                      *)
(***************************************************************************)
RowKey(row) == <<row.msg, row.name, row.source>>
Taken(i) ==
    /\ outbox[i].status = "pending" /\ ~Exhausted(outbox[i])
    /\ outbox'[i] = [outbox[i] EXCEPT !.status = "running",
                                      !.attempts = outbox[i].attempts + 1]
Returned(i) ==
    /\ outbox[i].status = "running" /\ ~Exhausted(outbox[i])
    /\ outbox'[i] = [outbox[i] EXCEPT !.status = "pending"]
GivenUp(i) ==
    /\ outbox[i].status = "running" /\ Exhausted(outbox[i])
    /\ outbox'[i] = Failed(outbox[i])
Settled(i, status) ==
    /\ outbox[i].status = "running"
    /\ outbox'[i] = [outbox[i] EXCEPT !.status = status, !.completed_at = now]
\* The receiver r adds row i, for a key that had none.
Added(i, r, m, n) ==
    /\ m = MessageOf[inbound[r]] /\ n = InteractionName(m)
    /\ RowFor(<<m, n>>) = {}
    /\ DOMAIN outbox' = DOMAIN outbox \cup {i}
    /\ \A j \in DOMAIN outbox : outbox'[j] = outbox[j]
    /\ outbox'[i] = [msg |-> m, name |-> n, source |-> inbound[r],
                     status |-> "pending", attempts |-> 0, completed_at |-> 0]
\* The step changes row id and no other.
OnlyRow(id) ==
    /\ DOMAIN outbox' = DOMAIN outbox
    /\ \A i \in DOMAIN outbox : i # id => outbox'[i] = outbox[i]

\* A row that moves keeps its message, its name and its source, and is marked
\* as the move says.
LEMMA MoveEffect ==
    ASSUME StoreTypeOK, NEW i \in DOMAIN outbox
    PROVE  /\ Taken(i) => RowKey(outbox'[i]) = RowKey(outbox[i]) /\ outbox'[i].status = "running"
           /\ Returned(i) => /\ RowKey(outbox'[i]) = RowKey(outbox[i]) /\ outbox'[i].status = "pending"
                             /\ ~Exhausted(outbox'[i])
           /\ GivenUp(i) => /\ RowKey(outbox'[i]) = RowKey(outbox[i]) /\ outbox'[i].status = "failed"
                            /\ Exhausted(outbox'[i])
           /\ \A s \in Terminal : Settled(i, s) =>
                 RowKey(outbox'[i]) = RowKey(outbox[i]) /\ outbox'[i].status = s
  <1>1. outbox[i] \in Row
    BY DEF StoreTypeOK
  <1> QED
    BY <1>1 DEF Row, Taken, Returned, GivenUp, Settled, RowKey, Failed, Exhausted

\* The sweep finds nothing: no path leaves a row pending without an attempt.
LEMMA SweepIdle ==
    ASSUME StoreTypeOK, PendingCanRun
    PROVE  /\ \A i \in DOMAIN outbox : SweepExhausted(i) = outbox[i]
           /\ Claimable = {i \in DOMAIN outbox : outbox[i].status = "pending"}
           /\ [i \in DOMAIN outbox |-> SweepExhausted(i)] = outbox
  <1>1. \A i \in DOMAIN outbox : SweepExhausted(i) = outbox[i]
    BY DEF PendingCanRun, SweepExhausted
  <1>2. outbox = [i \in DOMAIN outbox |-> outbox[i]]
    BY DEF StoreTypeOK
  <1> QED
    BY <1>1, <1>2 DEF Claimable

\* The only statements of a worker that write the outbox.
LEMMA WorkerTables ==
    ASSUME NEW w \in Workers, WorkerStep(w)
    PROVE  /\ UNCHANGED <<rawEvents, messages>>
           /\ \/ UNCHANGED outbox
              \/ ClaimRow(w) \/ NothingPending(w) \/ LoadFails(w) \/ RecordOutcome(w)
  <1> USE DEF storeVars
  <1>1. CASE \/ Poll(w) \/ PollFails(w)
             \/ Load(w) \/ RequeueFails(w) \/ Acquire(w)
             \/ Reconcile(w) \/ Expire(w) \/ Dispatch(w) \/ LookupFails(w)
    BY <1>1 DEF Poll, PollFails, Load, RequeueFails, Acquire, Reconcile, Expire,
       Dispatch, LookupFails
  <1>2. CASE \/ Decline(w) \/ ClaimFails(w) \/ Duplicate(w) \/ ClaimTrigger(w)
             \/ SummaryRefused(w) \/ SummaryBegins(w)
             \/ SendUsage(w) \/ AssistantRefused(w) \/ AssistantBegins(w)
             \/ Generate(w) \/ SummaryGenerationFails(w) \/ AnswerGenerationFails(w)
             \/ PersistSummary(w) \/ PersistFails(w)
    BY <1>2 DEF Decline, ClaimFails, Duplicate, ClaimTrigger, SummaryRefused,
       SummaryBegins, SendUsage, AssistantRefused, AssistantBegins, Generate,
       SummaryGenerationFails, AnswerGenerationFails, PersistSummary, PersistFails
  <1>3. CASE \/ TokenFails(w) \/ Post(w) \/ SendUnconfirmed(w)
             \/ AnswerConfirmed(w) \/ ReplyConfirmed(w) \/ ApologyConfirmed(w)
             \/ RecordTurn(w) \/ RecordTurnFails(w) \/ RecordFails(w)
    BY <1>3 DEF TokenFails, Post, SendUnconfirmed, AnswerConfirmed,
       ReplyConfirmed, ApologyConfirmed, RecordTurn, RecordTurnFails, RecordFails
  <1>4. CASE ClaimRow(w) \/ NothingPending(w) \/ LoadFails(w) \/ RecordOutcome(w)
    BY <1>4 DEF ClaimRow, NothingPending, LoadFails, RecordOutcome
  <1> QED
    BY <1>1, <1>2, <1>3, <1>4 DEF WorkerStep

\* A worker forgets its row or keeps it, unless it takes one.
LEMMA JobKept ==
    ASSUME TypeOK, NEW w \in Workers, WorkerStep(w)
    PROVE  ClaimRow(w) \/ job'[w] = job[w] \/ job'[w] = NoJob
  <1> USE DEF TypeOK, WorkerTypeOK, GoTo, Forget, GiveUp, Succeed
  <1>1. CASE \/ Poll(w) \/ NothingPending(w) \/ PollFails(w)
             \/ Load(w) \/ LoadFails(w) \/ RequeueFails(w) \/ Acquire(w)
             \/ Reconcile(w) \/ Expire(w) \/ Dispatch(w) \/ LookupFails(w)
    BY <1>1 DEF Poll, NothingPending, PollFails, Load, LoadFails,
       RequeueFails, Acquire, Reconcile, Expire, Dispatch, LookupFails
  <1>2. CASE \/ Decline(w) \/ ClaimFails(w) \/ Duplicate(w) \/ ClaimTrigger(w)
             \/ SummaryRefused(w) \/ SummaryBegins(w)
             \/ SendUsage(w) \/ AssistantRefused(w) \/ AssistantBegins(w)
             \/ Generate(w) \/ SummaryGenerationFails(w) \/ AnswerGenerationFails(w)
             \/ PersistSummary(w) \/ PersistFails(w)
    BY <1>2 DEF Decline, ClaimFails, Duplicate, ClaimTrigger, SummaryRefused,
       SummaryBegins, SendUsage, AssistantRefused, AssistantBegins, Generate,
       SummaryGenerationFails, AnswerGenerationFails, PersistSummary, PersistFails
  <1>3. CASE \/ TokenFails(w) \/ Post(w) \/ SendUnconfirmed(w)
             \/ AnswerConfirmed(w) \/ ReplyConfirmed(w) \/ ApologyConfirmed(w)
             \/ RecordTurn(w) \/ RecordTurnFails(w)
             \/ RecordOutcome(w) \/ RecordFails(w)
    BY <1>3 DEF TokenFails, Post, SendUnconfirmed, AnswerConfirmed,
       ReplyConfirmed, ApologyConfirmed, RecordTurn, RecordTurnFails,
       RecordOutcome, RecordFails
  <1> QED
    BY <1>1, <1>2, <1>3 DEF WorkerStep

-------------------------------------------------------------------------------
(***************************************************************************)
(* A claimed row is its worker's own, and a waiting row can run.           *)
(***************************************************************************)
\* Between two lives of the process no worker holds anything.
DownIsQuiet == phase = "down" => \A w \in Workers : pc[w] = "idle"

OwnInv ==
    /\ TypeInv
    /\ DownIsQuiet
    /\ ClaimedRowIsOwned
    /\ PendingCanRun

\* A row some worker runs is running, and is that worker's.
LEMMA HeldRow ==
    ASSUME OwnInv, NEW w \in Workers, pc[w] \notin {"idle", "claiming"}
    PROVE  /\ job[w] # NoJob /\ job[w].id \in DOMAIN outbox
           /\ outbox[job[w].id].status = "running"
           /\ RowKey(outbox[job[w].id]) = <<job[w].msg, job[w].name, job[w].source>>
           /\ \A v \in Workers : job[v] # NoJob /\ job[v].id = job[w].id => v = w
  BY DEF OwnInv, TypeInv, TypeOK, WorkerTypeOK, ClaimedRowIsOwned, RowKey

\* The claim takes a pending row, and the worker holds what the row says.
LEMMA ClaimTakes ==
    ASSUME OwnInv, NEW w \in Workers, ClaimRow(w)
    PROVE  \E id \in DOMAIN outbox :
              /\ Taken(id) /\ OnlyRow(id)
              /\ job' = [job EXCEPT ![w] = [id |-> id, msg |-> outbox[id].msg,
                                            name |-> outbox[id].name,
                                            source |-> outbox[id].source]]
  <1>1. PICK id \in DOMAIN outbox :
           /\ IsNextPending(id) /\ ClaimNextPending(id)
           /\ job' = [job EXCEPT ![w] = [id |-> id, msg |-> outbox[id].msg,
                                         name |-> outbox[id].name,
                                         source |-> outbox[id].source]]
    BY DEF ClaimRow
  <1>2. StoreTypeOK /\ PendingCanRun
    BY DEF OwnInv, TypeInv, TypeOK
  <1>3. /\ \A i \in DOMAIN outbox : SweepExhausted(i) = outbox[i]
        /\ Claimable = {i \in DOMAIN outbox : outbox[i].status = "pending"}
    BY <1>2, SweepIdle
  <1>4. Taken(id)
    BY <1>1, <1>2, <1>3 DEF Taken, IsNextPending, ClaimNextPending, PendingCanRun
  <1>5. OnlyRow(id)
    BY <1>1, <1>3 DEF OnlyRow, ClaimNextPending
  <1> QED
    BY <1>1, <1>4, <1>5

\* A failed load returns the worker's row or, out of attempts, fails it.
LEMMA LoadFailsMoves ==
    ASSUME OwnInv, NEW w \in Workers, LoadFails(w)
    PROVE  /\ OnlyRow(job[w].id) /\ job'[w] = NoJob
           /\ Returned(job[w].id) \/ GivenUp(job[w].id)
  <1>1. job[w].id \in DOMAIN outbox /\ outbox[job[w].id].status = "running"
    BY HeldRow DEF LoadFails
  <1>2. job'[w] = NoJob /\ RequeueForRetry(job[w].id)
    BY DEF LoadFails, Forget, OwnInv, TypeInv, TypeOK, WorkerTypeOK
  <1> QED
    BY <1>1, <1>2 DEF RequeueForRetry, OnlyRow, Returned, GivenUp

\* The mark settles the worker's row as the handler decided.
LEMMA RecordMoves ==
    ASSUME OwnInv, NEW w \in Workers, RecordOutcome(w)
    PROVE  /\ OnlyRow(job[w].id) /\ job'[w] = NoJob
           /\ verdict[w] \in Terminal
           /\ Settled(job[w].id, verdict[w])
  <1>1. job[w].id \in DOMAIN outbox /\ outbox[job[w].id].status = "running"
    BY HeldRow DEF RecordOutcome
  <1>2. job'[w] = NoJob /\ verdict[w] \in Terminal /\ Mark(job[w].id, verdict[w])
    BY DEF RecordOutcome, Forget, OwnInv, TypeInv, TypeOK, WorkerTypeOK
  <1> QED
    BY <1>1, <1>2 DEF Mark, OnlyRow, Settled

\* So a worker's step changes no row, takes one, or ends its own.
LEMMA WorkerRows ==
    ASSUME OwnInv, NEW w \in Workers, WorkerStep(w)
    PROVE  \/ /\ UNCHANGED outbox
              /\ job'[w] = job[w] \/ job'[w] = NoJob
           \/ ClaimRow(w)
           \/ LoadFails(w)
           \/ RecordOutcome(w)
  <1>1. CASE NothingPending(w)
    <2>1. outbox' = outbox
      BY <1>1, SweepIdle DEF NothingPending, OwnInv, TypeInv, TypeOK
    <2>2. job' = job
      BY <1>1 DEF NothingPending
    <2> QED
      BY <2>1, <2>2
  <1>2. CASE UNCHANGED outbox
    BY <1>2, JobKept DEF OwnInv, TypeInv
  <1> QED
    BY <1>1, <1>2, WorkerTables

\* Everything but a worker leaves the workers' rows alone: the recovery runs
\* while there are none.
LEMMA RecoveryRows ==
    ASSUME OwnInv, NEW c \in Configs, Start(c)
    PROVE  /\ DOMAIN outbox' = DOMAIN outbox
           /\ \A i \in DOMAIN outbox :
                 outbox'[i] = outbox[i] \/ Returned(i) \/ GivenUp(i)
           /\ \A w \in Workers : job'[w] = NoJob
  <1>1. \A w \in Workers : pc[w] = "idle"
    BY DEF Start, OwnInv, DownIsQuiet
  <1>2. \A w \in Workers : job'[w] = NoJob
    BY <1>1 DEF Start, workerVars, OwnInv, TypeInv, TypeOK, WorkerTypeOK
  <1> QED
    BY <1>2 DEF Start, RecoverStaleRunning, Returned, GivenUp

\* The prune drops terminal rows, or fails and drops none.
LEMMA PruneRows ==
    ASSUME OwnInv, PruneAndServe
    PROVE  /\ DOMAIN outbox' \subseteq DOMAIN outbox
           /\ \A i \in DOMAIN outbox' : outbox'[i] = outbox[i]
           /\ \A i \in DOMAIN outbox : outbox[i].status \notin Terminal => i \in DOMAIN outbox'
           /\ UNCHANGED workerVars
  <1>1. CASE PruneTerminal
    BY <1>1 DEF PruneAndServe, PruneTerminal
  <1>2. CASE UNCHANGED outbox
    BY <1>2 DEF PruneAndServe
  <1> QED
    BY <1>1, <1>2 DEF PruneAndServe

\* create_pending adds a row under a free id and key, or finds the key taken.
LEMMA EnqueueRows ==
    ASSUME OwnInv, NEW r \in Receivers, Enqueue(r)
    PROVE  \/ UNCHANGED outbox
           \/ \E id \in RowIds \ DOMAIN outbox, m \in Messages, n \in Names :
                Added(id, r, m, n)
  <1> DEFINE m == MessageOf[inbound[r]]
             n == InteractionName(m)
             t == <<m, n>>
  <1>1. m \in Messages /\ n \in Names
    <2>1. inbound[r] \in Payloads
      BY DEF Enqueue, OwnInv, TypeInv, TypeOK, IngestTypeOK
    <2> QED
      BY <2>1, MessageAssumption DEF Enqueue, OwnInv, TypeInv, NamedBeforeEnqueue
  <1>2. CreatePending(t, inbound[r])
    BY DEF Enqueue
  <1>3. ASSUME RowFor(t) # {} PROVE UNCHANGED outbox
    <2> HIDE DEF t
    <2> QED
      BY <1>2, <1>3 DEF CreatePending
  <1>4. ASSUME RowFor(t) = {}
        PROVE  \E id \in RowIds \ DOMAIN outbox :
                 /\ DOMAIN outbox' = DOMAIN outbox \cup {id}
                 /\ \A i \in DOMAIN outbox : outbox'[i] = outbox[i]
                 /\ outbox'[id] =
                      [msg |-> t[1], name |-> t[2], source |-> inbound[r],
                       status |-> "pending", attempts |-> 0, completed_at |-> 0]
    <2> HIDE DEF t
    <2>1. PICK id \in RowIds :
             /\ IsNextId(id)
             /\ outbox' =
                  [i \in DOMAIN outbox \cup {id} |->
                     IF i = id
                       THEN [msg |-> t[1], name |-> t[2], source |-> inbound[r],
                             status |-> "pending", attempts |-> 0,
                             completed_at |-> 0]
                       ELSE outbox[i]]
      BY <1>2, <1>4 DEF CreatePending
    <2>2. id \notin DOMAIN outbox
      BY <2>1 DEF IsNextId, RowIds, OwnInv, TypeInv, TypeOK, StoreTypeOK
    <2> QED
      BY <2>1, <2>2
  <1>5. t[1] = m /\ t[2] = n
    OBVIOUS
  <1> HIDE DEF m, n
  <1>6. CASE RowFor(t) = {}
    <2>1. PICK id \in RowIds \ DOMAIN outbox :
             /\ DOMAIN outbox' = DOMAIN outbox \cup {id}
             /\ \A i \in DOMAIN outbox : outbox'[i] = outbox[i]
             /\ outbox'[id] =
                  [msg |-> t[1], name |-> t[2], source |-> inbound[r],
                   status |-> "pending", attempts |-> 0, completed_at |-> 0]
      BY <1>4, <1>6
    <2>2. Added(id, r, m, n)
      BY <1>5, <1>6, <2>1 DEF Added, m, n
    <2> QED
      BY <1>1, <2>2
  <1> QED
    BY <1>3, <1>6

\* Who writes the outbox outside the workers: ingestion, recovery and prune.
LEMMA TableSteps ==
    ASSUME [Next]_vars
    PROVE  \/ \E w \in Workers : Worker(w)
           \/ \E r \in Receivers : Enqueue(r) /\ UNCHANGED <<processVars, workerVars>>
           \/ \E c \in Configs : Start(c)
           \/ PruneAndServe
           \/ Halt
           \/ /\ UNCHANGED <<outbox, claims, interactions, summaries, workerVars>>
              /\ phase' = phase \/ phase' = "stopping"
  <1>1. ASSUME NEW r \in Receivers, Receiver(r), ~Enqueue(r)
        PROVE  UNCHANGED <<outbox, claims, interactions, summaries, workerVars, phase>>
    BY <1>1 DEF Receiver, IngestStep, IngestRaw, RawFails, IngestMessage,
                MessageFails, EnqueueFails, storeVars, processVars
  <1>2. ASSUME NEW r \in Receivers, NEW p \in Payloads, Deliver(r, p)
        PROVE  UNCHANGED <<outbox, claims, interactions, summaries, workerVars, phase>>
    BY <1>2 DEF Deliver, Receive, storeVars, processVars
  <1>3. CASE BeginStop \/ Tick \/ UNCHANGED vars
    BY <1>3 DEF BeginStop, Tick, vars, storeVars, processVars
  <1>4. CASE FinishStop \/ Crash
    BY <1>4 DEF FinishStop, Crash
  <1>5. ASSUME NEW r \in Receivers, Receiver(r), Enqueue(r)
        PROVE  UNCHANGED <<processVars, workerVars>>
    BY <1>5 DEF Receiver
  <1> QED
    BY <1>1, <1>2, <1>3, <1>4, <1>5 DEF Next

\* Nothing runs while the process is down, and nothing starts by itself.
LEMMA QuietStep ==
    ASSUME OwnInv, [Next]_vars
    PROVE  DownIsQuiet'
  <1>1. ASSUME NEW w \in Workers, Worker(w) PROVE DownIsQuiet'
    <2>1. phase' = phase
      BY <1>1 DEF Worker, processVars
    <2>2. CASE phase = "down"
      <3>1. \A v \in Workers : pc[v] = "idle"
        BY <2>2 DEF OwnInv, DownIsQuiet
      <3>2. FALSE
        BY <1>1, <2>2, <3>1 DEF Worker, WorkerStep, Poll, ClaimRow,
           NothingPending, PollFails, Load, LoadFails, RequeueFails, Acquire,
           Reconcile, Expire, Dispatch, LookupFails, Decline, ClaimFails,
           Duplicate, ClaimTrigger, SummaryRefused, SummaryBegins, SendUsage,
           AssistantRefused, AssistantBegins, Generate, SummaryGenerationFails,
           AnswerGenerationFails, PersistSummary, PersistFails, TokenFails,
           Post, SendUnconfirmed, AnswerConfirmed, ReplyConfirmed,
           ApologyConfirmed, RecordTurn, RecordTurnFails, RecordOutcome,
           RecordFails
      <3> QED
        BY <3>2
    <2> QED
      BY <2>1, <2>2 DEF DownIsQuiet
  <1>2. CASE Halt
    BY <1>2 DEF Halt, WorkersLost, DownIsQuiet
  <1>3. ASSUME NEW r \in Receivers, Enqueue(r), UNCHANGED <<processVars, workerVars>>
        PROVE  DownIsQuiet'
    BY <1>3 DEF processVars, workerVars, OwnInv, DownIsQuiet
  <1>4. ASSUME NEW c \in Configs, Start(c) PROVE DownIsQuiet'
    BY <1>4 DEF Start, DownIsQuiet
  <1>5. CASE PruneAndServe
    BY <1>5 DEF PruneAndServe, DownIsQuiet
  <1>6. CASE /\ UNCHANGED <<outbox, claims, interactions, summaries, workerVars>>
             /\ phase' = phase \/ phase' = "stopping"
    BY <1>6 DEF workerVars, OwnInv, DownIsQuiet
  <1> QED
    BY <1>1, <1>2, <1>3, <1>4, <1>5, <1>6, TableSteps

\* A worker that ends its row, and no other, keeps the others' rows theirs.
LEMMA EndRow ==
    ASSUME OwnInv, NEW w \in Workers, WorkerStep(w), OnlyRow(job[w].id),
           pc[w] \notin {"idle", "claiming"}, job'[w] = NoJob
    PROVE  ClaimedRowIsOwned'
  <1>1. \A v \in Workers \ {w} : job'[v] = job[v]
    BY OthersUnmoved DEF OwnInv, TypeInv
  <1>2. \A v \in Workers \ {w} :
           job[v] # NoJob => job[v].id # job[w].id /\ job[v].id # NoJob.id
    BY HeldRow DEF OwnInv, ClaimedRowIsOwned, TypeInv, TypeOK, StoreTypeOK, NoJob, RowIds
  <1> QED
    BY <1>1, <1>2 DEF OwnInv, ClaimedRowIsOwned, OnlyRow

\* Ownership survives the claim, the end of a row and the restart.
LEMMA OwnedStep ==
    ASSUME OwnInv, [Next]_vars
    PROVE  ClaimedRowIsOwned'
  <1>1. ASSUME NEW w \in Workers, WorkerStep(w) PROVE ClaimedRowIsOwned'
    <2>1. \A v \in Workers \ {w} : job'[v] = job[v]
      BY <1>1, OthersUnmoved DEF OwnInv, TypeInv
    <2>2. CASE ClaimRow(w)
      <3>1. PICK id \in DOMAIN outbox :
               /\ Taken(id) /\ OnlyRow(id)
               /\ job' = [job EXCEPT ![w] = [id |-> id, msg |-> outbox[id].msg,
                                             name |-> outbox[id].name,
                                             source |-> outbox[id].source]]
        BY <2>2, ClaimTakes
      <3>2. job'[w] = [id |-> id, msg |-> outbox[id].msg,
                       name |-> outbox[id].name, source |-> outbox[id].source]
        BY <3>1 DEF OwnInv, TypeInv, TypeOK, WorkerTypeOK
      <3>3. outbox'[id].status = "running" /\ RowKey(outbox'[id]) = RowKey(outbox[id])
        BY <3>1, MoveEffect DEF OwnInv, TypeInv, TypeOK
      <3>4. \A v \in Workers \ {w} : job[v] # NoJob => job[v].id # id
        BY <3>1 DEF Taken, OwnInv, ClaimedRowIsOwned
      <3>5. id # NoJob.id
        BY DEF NoJob, RowIds, OwnInv, TypeInv, TypeOK, StoreTypeOK
      <3>6. /\ job'[w].id = id
            /\ <<job'[w].msg, job'[w].name, job'[w].source>> = RowKey(outbox[id])
        BY <3>2 DEF RowKey
      <3>7. ASSUME NEW v \in Workers, job'[v] # NoJob
            PROVE  /\ job'[v].id \in DOMAIN outbox'
                   /\ outbox'[job'[v].id].status = "running"
                   /\ RowKey(outbox'[job'[v].id]) = <<job'[v].msg, job'[v].name, job'[v].source>>
        <4>1. CASE v = w
          BY <3>1, <3>3, <3>6, <4>1 DEF OnlyRow, RowKey
        <4>2. CASE v # w
          BY <2>1, <3>1, <3>4, <3>7, <4>2 DEF OnlyRow, RowKey, OwnInv, ClaimedRowIsOwned
        <4> QED
          BY <4>1, <4>2
      <3>8. ASSUME NEW u \in Workers, NEW v \in Workers,
                   job'[u] # NoJob, job'[u].id = job'[v].id
            PROVE  u = v
        <4>1. CASE u = w /\ v # w
          <5>1. job[v].id = id
            BY <2>1, <3>6, <3>8, <4>1
          <5>2. job[v] # NoJob
            BY <3>5, <5>1
          <5> QED
            BY <3>4, <4>1, <5>1, <5>2
        <4>2. CASE u # w /\ v = w
          BY <2>1, <3>4, <3>6, <3>8, <4>2
        <4>3. CASE u # w /\ v # w
          BY <2>1, <3>8, <4>3 DEF OwnInv, ClaimedRowIsOwned
        <4> QED
          BY <4>1, <4>2, <4>3
      <3> QED
        BY <3>7, <3>8 DEF ClaimedRowIsOwned, RowKey
    <2>3. CASE LoadFails(w)
      BY <1>1, <2>3, LoadFailsMoves, EndRow DEF LoadFails
    <2>4. CASE RecordOutcome(w)
      BY <1>1, <2>4, RecordMoves, EndRow DEF RecordOutcome
    <2>5. CASE UNCHANGED outbox /\ (job'[w] = job[w] \/ job'[w] = NoJob)
      <3>1. job'[w] = NoJob \/ \A v \in Workers : job'[v] = job[v]
        BY <2>1, <2>5
      <3>2. CASE \A v \in Workers : job'[v] = job[v]
        BY <2>5, <3>2 DEF OwnInv, ClaimedRowIsOwned
      <3>3. CASE job'[w] = NoJob
        <4>1. \A v \in Workers : job[v] # NoJob => job[v].id # NoJob.id
          BY DEF OwnInv, ClaimedRowIsOwned, TypeInv, TypeOK, StoreTypeOK, NoJob, RowIds
        <4> QED
          BY <2>1, <2>5, <3>3, <4>1 DEF OwnInv, ClaimedRowIsOwned
      <3> QED
        BY <3>1, <3>2, <3>3
    <2> QED
      BY <1>1, <2>2, <2>3, <2>4, <2>5, WorkerRows
  <1>2. ASSUME \A w \in Workers : job'[w] = NoJob PROVE ClaimedRowIsOwned'
    BY <1>2 DEF ClaimedRowIsOwned
  <1>3. CASE Halt
    BY <1>2, <1>3 DEF Halt, WorkersLost
  <1>4. ASSUME NEW c \in Configs, Start(c) PROVE ClaimedRowIsOwned'
    BY <1>2, <1>4, RecoveryRows
  <1>5. ASSUME NEW r \in Receivers, Enqueue(r), UNCHANGED <<processVars, workerVars>>
        PROVE  ClaimedRowIsOwned'
    <2>1. DOMAIN outbox \subseteq DOMAIN outbox' /\ \A i \in DOMAIN outbox : outbox'[i] = outbox[i]
      BY <1>5, EnqueueRows DEF Added
    <2> QED
      BY <1>5, <2>1 DEF workerVars, OwnInv, ClaimedRowIsOwned
  <1>6. CASE PruneAndServe
    <2>1. /\ \A i \in DOMAIN outbox' : outbox'[i] = outbox[i]
          /\ \A i \in DOMAIN outbox : outbox[i].status = "running" => i \in DOMAIN outbox'
          /\ job' = job
      BY <1>6, PruneRows DEF workerVars, Terminal
    <2> QED
      BY <2>1 DEF OwnInv, ClaimedRowIsOwned
  <1>7. CASE UNCHANGED <<outbox, claims, interactions, summaries, workerVars>>
    BY <1>7 DEF workerVars, OwnInv, ClaimedRowIsOwned
  <1> QED
    BY <1>1, <1>3, <1>4, <1>5, <1>6, <1>7, TableSteps DEF Worker

\* What any step may do to a row that stays in the table.
LEMMA RowMoves ==
    ASSUME OwnInv, [Next]_vars, NEW i \in DOMAIN outbox, i \in DOMAIN outbox'
    PROVE  \/ outbox'[i] = outbox[i] \/ Taken(i) \/ Returned(i) \/ GivenUp(i)
           \/ \E w \in Workers : /\ RecordOutcome(w) /\ job[w].id = i
                                 /\ verdict[w] \in Terminal
                                 /\ Settled(i, verdict[w])
  <1>1. ASSUME NEW w \in Workers, WorkerStep(w)
        PROVE  \/ outbox'[i] = outbox[i] \/ Taken(i) \/ Returned(i) \/ GivenUp(i)
               \/ /\ RecordOutcome(w) /\ job[w].id = i
                  /\ verdict[w] \in Terminal /\ Settled(i, verdict[w])
    <2>1. CASE ClaimRow(w)
      BY <2>1, ClaimTakes DEF OnlyRow
    <2>2. CASE LoadFails(w)
      BY <2>2, LoadFailsMoves DEF OnlyRow
    <2>3. CASE RecordOutcome(w)
      BY <2>3, RecordMoves DEF OnlyRow
    <2> QED
      BY <1>1, <2>1, <2>2, <2>3, WorkerRows
  <1>2. ASSUME NEW r \in Receivers, Enqueue(r) PROVE outbox'[i] = outbox[i]
    BY <1>2, EnqueueRows DEF Added
  <1>3. ASSUME NEW c \in Configs, Start(c)
        PROVE  outbox'[i] = outbox[i] \/ Returned(i) \/ GivenUp(i)
    BY <1>3, RecoveryRows
  <1>4. CASE PruneAndServe
    BY <1>4, PruneRows
  <1>5. CASE Halt
    BY <1>5 DEF Halt, storeVars
  <1> QED
    BY <1>1, <1>2, <1>3, <1>4, <1>5, TableSteps DEF Worker

\* What a step may add to the table, and that it then changes nothing else.
LEMMA NewRow ==
    ASSUME OwnInv, [Next]_vars, NEW i \in DOMAIN outbox' \ DOMAIN outbox
    PROVE  \E r \in Receivers, m \in Messages, n \in Names :
              /\ Enqueue(r) /\ Added(i, r, m, n)
              /\ UNCHANGED <<processVars, workerVars>>
  <1>1. ASSUME NEW w \in Workers, Worker(w) PROVE DOMAIN outbox' = DOMAIN outbox
    <2>1. CASE ClaimRow(w)
      BY <2>1, ClaimTakes DEF OnlyRow
    <2>2. CASE LoadFails(w)
      BY <2>2, LoadFailsMoves DEF OnlyRow
    <2>3. CASE RecordOutcome(w)
      BY <2>3, RecordMoves DEF OnlyRow
    <2> QED
      BY <1>1, <2>1, <2>2, <2>3, WorkerRows DEF Worker
  <1>2. ASSUME NEW c \in Configs, Start(c) PROVE DOMAIN outbox' = DOMAIN outbox
    BY <1>2, RecoveryRows
  <1>3. CASE PruneAndServe
    BY <1>3, PruneRows
  <1>4. CASE Halt
    BY <1>4 DEF Halt, storeVars
  <1>5. PICK r \in Receivers : Enqueue(r) /\ UNCHANGED <<processVars, workerVars>>
    BY <1>1, <1>2, <1>3, <1>4, TableSteps
  <1>6. PICK id \in RowIds \ DOMAIN outbox, m \in Messages, n \in Names :
             Added(id, r, m, n)
    BY <1>5, EnqueueRows
  <1>7. id = i
    BY <1>6 DEF Added
  <1> QED
    BY <1>5, <1>6, <1>7

\* A row waits only with an attempt left: the requeue and the recovery ask.
LEMMA PendingStep ==
    ASSUME OwnInv, [Next]_vars
    PROVE  PendingCanRun'
  <1> SUFFICES ASSUME NEW i \in DOMAIN outbox', outbox'[i].status = "pending"
               PROVE  ~Exhausted(outbox'[i])
    BY DEF PendingCanRun, Exhausted
  <1>1. StoreTypeOK /\ PendingCanRun
    BY DEF OwnInv, TypeInv, TypeOK
  <1>2. CASE i \in DOMAIN outbox
    <2>1. CASE outbox'[i] = outbox[i]
      BY <1>1, <1>2, <2>1 DEF PendingCanRun
    <2>2. CASE Returned(i)
      BY <1>1, <1>2, <2>2, MoveEffect
    <2>3. CASE outbox'[i] # outbox[i] /\ ~Returned(i)
      <3>1. outbox'[i].status # "pending"
        <4>1. \/ Taken(i) \/ GivenUp(i)
              \/ \E w \in Workers : verdict[w] \in Terminal /\ Settled(i, verdict[w])
          BY <1>2, <2>3, RowMoves
        <4> QED
          BY <1>1, <1>2, <4>1, MoveEffect DEF Terminal
      <3> QED
        BY <3>1
    <2> QED
      BY <2>1, <2>2, <2>3
  <1>3. CASE i \notin DOMAIN outbox
    <2>1. PICK r \in Receivers, m \in Messages, n \in Names :
             Added(i, r, m, n)
      BY <1>3, NewRow
    <2> QED
      BY <2>1, BoundAssumption DEF Added, Exhausted
  <1> QED
    BY <1>2, <1>3

\* OwnInv is inductive.
LEMMA OwnStep == OwnInv /\ [Next]_vars => OwnInv'
  BY TypeStep, QuietStep, OwnedStep, PendingStep DEF OwnInv

\* OwnInv holds in every reachable state.
LEMMA OwnAlways == Spec => []OwnInv
  <1>1. Init => OwnInv
    <2> SUFFICES ASSUME Init PROVE OwnInv
      OBVIOUS
    <2>1. \A w \in Workers : pc[w] = "idle" /\ job[w] = NoJob
      BY DEF Init, WorkersIdle
    <2>2. DOMAIN outbox = {}
      BY DEF Init, StoreInit
    <2> QED
      BY <2>1, <2>2, InitType DEF OwnInv, DownIsQuiet, ClaimedRowIsOwned, PendingCanRun
  <1> QED
    BY <1>1, OwnStep, PTL DEF Spec

\* However the process stops, a worker past the claim holds the running row it
\* read, and no other worker holds it.
THEOREM ClaimedOwned == Spec => []ClaimedRowIsOwned
  <1>1. OwnInv => ClaimedRowIsOwned
    BY DEF OwnInv
  <1> QED
    BY <1>1, OwnAlways, PTL

\* A pending row has an attempt left, so the sweep of claim_next_pending never
\* has anything to fail.
THEOREM PendingRuns == Spec => []PendingCanRun
  <1>1. OwnInv => PendingCanRun
    BY DEF OwnInv
  <1> QED
    BY <1>1, OwnAlways, PTL

\* A completed or failed row stays as it is until it is pruned: no late mark,
\* requeue or recovery moves it.
THEOREM TerminalFinal == Spec => TerminalIsFinal
  <1>1. ASSUME OwnInv, [Next]_vars, NEW i \in DOMAIN outbox,
               outbox[i].status \in Terminal, i \in DOMAIN outbox'
        PROVE  outbox'[i] = outbox[i]
    BY <1>1, RowMoves DEF Taken, Returned, GivenUp, Settled, Terminal
  <1>2. OwnInv /\ [Next]_vars =>
          [\A i \in DOMAIN outbox :
             outbox[i].status \in Terminal /\ i \in DOMAIN outbox' =>
               outbox'[i] = outbox[i]]_vars
    BY <1>1
  <1> QED
    BY <1>2, OwnAlways, PTL DEF Spec, TerminalIsFinal

-------------------------------------------------------------------------------
(***************************************************************************)
(* The permits of the semaphore.                                           *)
(***************************************************************************)
Inside == {w \in Workers : pc[w] \in InSemaphore}

\* A step takes a permit on its way in, returns it on its way out, or does
\* neither.
LEMMA PermitMoves ==
    ASSUME TypeOK, NEW w \in Workers, WorkerStep(w)
    PROVE  \/ permits' = permits /\ (pc'[w] \in InSemaphore <=> pc[w] \in InSemaphore)
           \/ permits' = permits - 1 /\ pc[w] \notin InSemaphore /\ pc'[w] \in InSemaphore
           \/ permits' = permits + 1 /\ pc[w] \in InSemaphore /\ pc'[w] \notin InSemaphore
  <1> USE DEF TypeOK, WorkerTypeOK, GoTo, Forget, GiveUp, Succeed, InSemaphore
  <1>1. CASE \/ Poll(w) \/ ClaimRow(w) \/ NothingPending(w) \/ PollFails(w)
             \/ Load(w) \/ LoadFails(w) \/ RequeueFails(w) \/ Acquire(w)
             \/ Reconcile(w) \/ Expire(w) \/ Dispatch(w) \/ LookupFails(w)
    BY <1>1 DEF Poll, ClaimRow, NothingPending, PollFails, Load, LoadFails,
       RequeueFails, Acquire, Reconcile, Expire, Dispatch, LookupFails
  <1>2. CASE \/ Decline(w) \/ ClaimFails(w) \/ Duplicate(w) \/ ClaimTrigger(w)
             \/ SummaryRefused(w) \/ SummaryBegins(w)
             \/ SendUsage(w) \/ AssistantRefused(w) \/ AssistantBegins(w)
             \/ Generate(w) \/ SummaryGenerationFails(w) \/ AnswerGenerationFails(w)
             \/ PersistSummary(w) \/ PersistFails(w)
    BY <1>2 DEF Decline, ClaimFails, Duplicate, ClaimTrigger, SummaryRefused,
       SummaryBegins, SendUsage, AssistantRefused, AssistantBegins, Generate,
       SummaryGenerationFails, AnswerGenerationFails, PersistSummary, PersistFails
  <1>3. CASE \/ TokenFails(w) \/ Post(w) \/ SendUnconfirmed(w)
             \/ AnswerConfirmed(w) \/ ReplyConfirmed(w) \/ ApologyConfirmed(w)
             \/ RecordTurn(w) \/ RecordTurnFails(w)
    BY <1>3 DEF TokenFails, Post, SendUnconfirmed, AnswerConfirmed,
       ReplyConfirmed, ApologyConfirmed, RecordTurn, RecordTurnFails
  <1>4. CASE RecordOutcome(w) \/ RecordFails(w)
    BY <1>4 DEF RecordOutcome, RecordFails, ReturnPermit
  <1> QED
    BY <1>1, <1>2, <1>3, <1>4 DEF WorkerStep

\* The count of permits follows the set of workers inside.
LEMMA PermitsStep ==
    ASSUME TypeOK, PermitsConserved, [Next]_vars
    PROVE  PermitsConserved'
  <1>1. /\ IsFiniteSet(Inside) /\ Cardinality(Inside) \in Nat
        /\ permits + Cardinality(Inside) = MaxConcurrent
        /\ permits \in Nat /\ MaxConcurrent \in Nat
    BY FS_Subset, FS_CardinalityType, WorkerAssumption
       DEF Inside, PermitsConserved, TypeOK, WorkerTypeOK
  <1> SUFFICES permits' + Cardinality(Inside') = MaxConcurrent
    BY DEF PermitsConserved, Inside
  <1>2. ASSUME NEW w \in Workers, WorkerStep(w)
        PROVE  permits' + Cardinality(Inside') = MaxConcurrent
    <2>1. \A v \in Workers \ {w} : pc'[v] = pc[v]
      BY <1>2, OthersUnmoved
    <2>2. CASE permits' = permits /\ (pc'[w] \in InSemaphore <=> pc[w] \in InSemaphore)
      <3>1. Inside' = Inside
        BY <2>1, <2>2 DEF Inside
      <3> QED
        BY <1>1, <2>2, <3>1
    <2>3. CASE permits' = permits - 1 /\ pc[w] \notin InSemaphore /\ pc'[w] \in InSemaphore
      <3>1. Inside' = Inside \cup {w} /\ w \notin Inside
        BY <2>1, <2>3 DEF Inside
      <3>2. Cardinality(Inside') = Cardinality(Inside) + 1
        BY <1>1, <3>1, FS_AddElement
      <3> QED
        BY <1>1, <2>3, <3>2
    <2>4. CASE permits' = permits + 1 /\ pc[w] \in InSemaphore /\ pc'[w] \notin InSemaphore
      <3>1. Inside' = Inside \ {w} /\ w \in Inside
        BY <2>1, <2>4 DEF Inside
      <3>2. Cardinality(Inside') = Cardinality(Inside) - 1
        BY <1>1, <3>1, FS_RemoveElement
      <3> QED
        BY <1>1, <2>4, <3>2
    <2> QED
      BY <1>2, <2>2, <2>3, <2>4, PermitMoves
  <1>3. CASE UNCHANGED <<workerVars, claims, interactions, summaries>>
    <2>1. Inside' = Inside /\ permits' = permits
      BY <1>3 DEF Inside, workerVars
    <2> QED
      BY <1>1, <2>1
  <1>4. CASE WorkersLost
    <2>1. Inside' = {} /\ permits' = MaxConcurrent
      BY <1>4 DEF WorkersLost, Inside, InSemaphore
    <2>2. Cardinality({}) = 0
      BY FS_EmptySet
    <2> QED
      BY <1>1, <2>1, <2>2
  <1> QED
    BY <1>2, <1>3, <1>4, StepKinds

\* The permits out are those of the workers inside: no exit, by success,
\* failure, exception or restart, keeps one or returns one twice.
THEOREM Permits == Spec => []PermitsConserved
  <1>1. Init => PermitsConserved
    <2> SUFFICES ASSUME Init PROVE PermitsConserved
      OBVIOUS
    <2>1. Inside = {} /\ permits = MaxConcurrent
      BY DEF Init, WorkersIdle, Inside, InSemaphore
    <2>2. Cardinality(Inside) = 0
      BY <2>1, FS_EmptySet
    <2>3. permits + Cardinality(Inside) = MaxConcurrent
      BY <2>1, <2>2, WorkerAssumption
    <2> QED
      BY <2>3 DEF PermitsConserved, Inside
  <1> QED
    BY <1>1, TypeCorrect, PermitsStep, PTL DEF Spec

-------------------------------------------------------------------------------
(***************************************************************************)
(* Outcomes.  A row's status, the recorded turns and QQ's record are       *)
(* written at different awaits, possibly in different lives; they agree    *)
(* because the row of a trigger is unique and its name is the one its      *)
(* handler claims under.                                                   *)
(***************************************************************************)
UniqueRows ==
    \A i, j \in DOMAIN outbox :
        outbox[i].msg = outbox[j].msg /\ outbox[i].name = outbox[j].name => i = j

RowsNamed == \A i \in DOMAIN outbox : outbox[i].name \in NamesOf(outbox[i].msg)

\* A row can be loaded: its raw payload was committed before it was enqueued.
RowsLoadable ==
    /\ \A i \in DOMAIN outbox : outbox[i].source \in rawEvents
    /\ \A r \in Receivers : stage[r] \in {"message", "enqueue"} => inbound[r] \in rawEvents

CompletedAnswered ==
    \A i \in DOMAIN outbox : outbox[i].status = "completed" =>
        \E n \in Names : delivered[<<outbox[i].msg, n>>] \in Answers

\* A worker past the reconciliation check, and one that is about to report a
\* failure, has no recorded turn.
Unrecorded(w) ==
    /\ ~Renamable(job[w].msg)
    /\ \/ pc[w] \in {"handle", "sent", "turn"} \cup BeforePost
       \/ pc[w] \in {"record", "settle"} /\ verdict[w] = "failed"
    => <<job[w].msg, job[w].name>> \notin interactions

QueueInv ==
    /\ HandlerInv
    /\ OwnInv
    /\ UniqueRows
    /\ RowsNamed
    /\ RowsLoadable
    /\ CompletedAnswered
    /\ \A w \in Workers : Unrecorded(w)
    /\ RecordedTurnReconciled

\* A row that stays keeps its key.
LEMMA KeyKept ==
    ASSUME OwnInv, [Next]_vars, NEW i \in DOMAIN outbox, i \in DOMAIN outbox'
    PROVE  /\ outbox'[i].msg = outbox[i].msg /\ outbox'[i].name = outbox[i].name
           /\ outbox'[i].source = outbox[i].source
  <1>1. RowKey(outbox'[i]) = RowKey(outbox[i])
    BY RowMoves, MoveEffect DEF OwnInv, TypeInv, TypeOK
  <1> QED
    BY <1>1 DEF RowKey

\* A new row has a new key and one of the names of its message.
LEMMA KeysStep ==
    ASSUME QueueInv, [Next]_vars
    PROVE  UniqueRows' /\ RowsNamed'
  <1> USE DEF QueueInv
  <1>1. CASE DOMAIN outbox' \subseteq DOMAIN outbox
    BY <1>1, KeyKept DEF UniqueRows, RowsNamed, NamesOf, Answerer, Renamable
  <1>2. CASE ~(DOMAIN outbox' \subseteq DOMAIN outbox)
    <2>1. PICK k \in DOMAIN outbox' \ DOMAIN outbox : TRUE
      BY <1>2
    <2>2. PICK r \in Receivers, m \in Messages, n \in Names : Added(k, r, m, n)
      BY <2>1, NewRow
    <2>3. n \in NamesOf(m)
      BY <2>2, NameOfMessage DEF Added
    <2>4. \A i \in DOMAIN outbox : ~(outbox[i].msg = m /\ outbox[i].name = n)
      BY <2>2 DEF Added, RowFor
    <2>5. outbox'[k].msg = m /\ outbox'[k].name = n
      BY <2>2 DEF Added
    <2>6. \A i \in DOMAIN outbox' : i # k => i \in DOMAIN outbox /\ outbox'[i] = outbox[i]
      BY <2>2 DEF Added
    <2>7. UniqueRows'
      BY <2>4, <2>5, <2>6 DEF UniqueRows
    <2>8. RowsNamed'
      BY <2>3, <2>5, <2>6 DEF RowsNamed, NamesOf, Answerer, Renamable
    <2> QED
      BY <2>7, <2>8
  <1> QED
    BY <1>1, <1>2

\* Nothing leaves raw_events, and ingestion stores the payload first.
LEMMA LoadableStep ==
    ASSUME QueueInv, [Next]_vars
    PROVE  RowsLoadable'
  <1> USE DEF QueueInv, OwnInv, TypeInv, TypeOK, StoreTypeOK, IngestTypeOK
  <1>1. rawEvents \subseteq rawEvents'
        /\ \A r \in Receivers : stage'[r] \in {"message", "enqueue"} => inbound'[r] \in rawEvents'
    <2>1. ASSUME NEW r \in Receivers, Receiver(r)
          PROVE  /\ rawEvents \subseteq rawEvents'
                 /\ \A s \in Receivers : stage'[s] \in {"message", "enqueue"} => inbound'[s] \in rawEvents'
      BY <2>1 DEF Receiver, IngestStep, IngestRaw, RawFails, IngestMessage,
         MessageFails, Enqueue, EnqueueFails, Release, storeVars, RowsLoadable
    <2>2. ASSUME NEW r \in Receivers, NEW p \in Payloads, Deliver(r, p)
          PROVE  /\ rawEvents \subseteq rawEvents'
                 /\ \A s \in Receivers : stage'[s] \in {"message", "enqueue"} => inbound'[s] \in rawEvents'
      BY <2>2 DEF Deliver, Receive, storeVars, RowsLoadable
    <2>3. ASSUME NEW w \in Workers, Worker(w)
          PROVE  UNCHANGED <<rawEvents, stage, inbound>>
      BY <2>3, WorkerTables DEF Worker, ingestVars
    <2>4. ASSUME NEW c \in Configs, Start(c)
          PROVE  UNCHANGED <<rawEvents, stage, inbound>>
      BY <2>4 DEF Start, ingestVars
    <2>5. CASE BeginStop \/ FinishStop \/ Crash
      BY <2>5 DEF BeginStop, FinishStop, Crash, Halt, storeVars
    <2>6. CASE PruneAndServe \/ Tick \/ UNCHANGED vars
      BY <2>6 DEF PruneAndServe, Tick, vars, storeVars, ingestVars, RowsLoadable
    <2> QED
      BY <2>1, <2>2, <2>3, <2>4, <2>5, <2>6 DEF Next, RowsLoadable
  <1>2. ASSUME NEW i \in DOMAIN outbox' PROVE outbox'[i].source \in rawEvents'
    <2>1. CASE i \in DOMAIN outbox
      BY <1>1, <2>1, KeyKept DEF RowsLoadable
    <2>2. CASE i \notin DOMAIN outbox
      <3>1. PICK r \in Receivers, m \in Messages, n \in Names :
               Enqueue(r) /\ Added(i, r, m, n)
        BY <2>2, NewRow
      <3>2. inbound[r] \in rawEvents
        BY <3>1 DEF Enqueue, RowsLoadable
      <3> QED
        BY <1>1, <3>1, <3>2 DEF Added
    <2> QED
      BY <2>1, <2>2
  <1> QED
    BY <1>1, <1>2 DEF RowsLoadable

\* An accepted reply stays accepted, whatever the step.
LEMMA AcceptedStays ==
    ASSUME HandlerInv, [Next]_vars, NEW t \in Triggers, delivered[t] # "none"
    PROVE  delivered'[t] = delivered[t]
  BY StepKinds, DeliveredStays DEF workerVars, platformVars

\* A completed row was completed by a worker whose reply had arrived.
LEMMA CompletedStep ==
    ASSUME QueueInv, [Next]_vars
    PROVE  CompletedAnswered'
  <1> SUFFICES ASSUME NEW i \in DOMAIN outbox', outbox'[i].status = "completed"
               PROVE  \E n \in Names : delivered'[<<outbox'[i].msg, n>>] \in Answers
    BY DEF CompletedAnswered, Answers
  <1>1. StoreTypeOK
    BY DEF QueueInv, OwnInv, TypeInv, TypeOK
  <1>2. i \in DOMAIN outbox
    <2> SUFFICES ASSUME i \notin DOMAIN outbox PROVE FALSE
      OBVIOUS
    <2>1. PICK r \in Receivers, m \in Messages, n \in Names : Added(i, r, m, n)
      BY NewRow DEF QueueInv
    <2> QED
      BY <2>1 DEF Added
  <1>3. outbox[i].msg \in Messages /\ outbox'[i].msg = outbox[i].msg
    BY <1>1, <1>2, KeyKept DEF QueueInv, StoreTypeOK, Row
  <1>4. \E n \in Names : delivered[<<outbox[i].msg, n>>] \in Answers
    <2>1. CASE outbox'[i] = outbox[i]
      BY <1>2, <2>1 DEF QueueInv, CompletedAnswered
    <2>2. ASSUME NEW w \in Workers, RecordOutcome(w), job[w].id = i,
                 verdict[w] \in Terminal, Settled(i, verdict[w])
          PROVE  \E n \in Names : delivered[<<outbox[i].msg, n>>] \in Answers
      <3>1. verdict[w] = "completed"
        BY <1>1, <1>2, <2>2, MoveEffect
      <3>2. pc[w] \in {"record", "settle"} /\ job[w].msg = outbox[i].msg
        BY <2>2, HeldRow DEF RecordOutcome, QueueInv, RowKey
      <3> QED
        BY <3>1, <3>2 DEF QueueInv, HandlerInv, Arrived
    <2> QED
      BY <1>1, <1>2, <2>1, <2>2, RowMoves, MoveEffect DEF QueueInv
  <1>5. PICK n \in Names : delivered[<<outbox[i].msg, n>>] \in Answers
    BY <1>4
  <1>6. <<outbox[i].msg, n>> \in Triggers /\ delivered[<<outbox[i].msg, n>>] # "none"
    BY <1>3, <1>5 DEF Triggers, Answers
  <1> QED
    BY <1>3, <1>5, <1>6, AcceptedStays DEF QueueInv

\* Under whatever name a worker's row was enqueued, the handler that claims is
\* the same, unless the message is renamable.
LEMMA OwnRoute ==
    ASSUME QueueInv, NEW w \in Workers, pc[w] \in BeforePost \cup {"sent", "turn"},
           ~Renamable(job[w].msg)
    PROVE  route[w] = job[w].name
  <1>1. pc[w] \notin {"idle", "claiming"}
    BY DEF BeforePost
  <1>2. RowKey(outbox[job[w].id]) = <<job[w].msg, job[w].name, job[w].source>>
        /\ job[w].id \in DOMAIN outbox
    BY <1>1, HeldRow DEF QueueInv
  <1>3. job[w].name \in NamesOf(job[w].msg)
    BY <1>2 DEF QueueInv, RowsNamed, RowKey
  <1>4. job[w].name = Answerer(job[w].msg)
    BY <1>3 DEF NamesOf
  <1> QED
    BY <1>4 DEF QueueInv, HandlerInv, Chosen

\* Only the owner of a row records the turn of its trigger.
LEMMA TurnOfOwner ==
    ASSUME QueueInv, NEW w \in Workers, RecordTurn(w),
           NEW i \in DOMAIN outbox, ~Renamable(outbox[i].msg),
           Target(w) = <<outbox[i].msg, outbox[i].name>>
    PROVE  i = job[w].id /\ outbox[i].status = "running"
  <1>1. pc[w] = "turn"
    BY DEF RecordTurn
  <1>2. /\ job[w].id \in DOMAIN outbox
        /\ outbox[job[w].id].status = "running"
        /\ RowKey(outbox[job[w].id]) = <<job[w].msg, job[w].name, job[w].source>>
    BY <1>1, HeldRow DEF QueueInv
  <1>3. job[w].msg = outbox[i].msg /\ route[w] = outbox[i].name
    BY DEF Target
  <1>4. route[w] = job[w].name
    BY <1>1, <1>3, OwnRoute
  <1> QED
    BY <1>2, <1>3, <1>4 DEF QueueInv, UniqueRows, RowKey

\* A worker that goes on to answer, or fails after answering nothing.
Answering(w) ==
    \/ pc[w] \in {"handle", "sent", "turn"} \cup BeforePost
    \/ pc[w] \in {"record", "settle"} /\ verdict[w] = "failed"

\* It was answering before, or it has just found no recorded turn.
LEMMA AnsweringFetch ==
    ASSUME QueueInv, NEW w \in Workers, Answering(w)',
           \/ Poll(w) \/ ClaimRow(w) \/ NothingPending(w) \/ PollFails(w)
           \/ Load(w) \/ LoadFails(w) \/ RequeueFails(w) \/ Acquire(w)
           \/ Reconcile(w) \/ Expire(w) \/ Dispatch(w) \/ LookupFails(w)
           \/ Decline(w) \/ ClaimFails(w) \/ Duplicate(w) \/ ClaimTrigger(w)
    PROVE  /\ job'[w] = job[w] /\ interactions' = interactions
           /\ Answering(w) \/ (pc[w] = "check" /\ ~AlreadyDelivered(w))
  <1>1. TypeOK
    BY DEF QueueInv, OwnInv, TypeInv
  <1> USE DEF TypeOK, WorkerTypeOK, GoTo, Answering, BeforePost
  <1>2. CASE Load(w)
    <2>1. /\ job[w].id \in DOMAIN outbox
          /\ RowKey(outbox[job[w].id]) = <<job[w].msg, job[w].name, job[w].source>>
      BY <1>2, HeldRow DEF QueueInv, Load
    <2>2. job[w].source \in rawEvents
      BY <2>1 DEF QueueInv, RowsLoadable, RowKey
    <2>3. pc'[w] = "queued"
      BY <1>1, <1>2, <2>2 DEF Load
    <2> QED
      BY <2>3
  <1>3. CASE Dispatch(w) \/ Expire(w)
    BY <1>1, <1>3 DEF Dispatch, Expire, GiveUp, storeVars
  <1>4. CASE Decline(w) \/ ClaimFails(w) \/ Duplicate(w) \/ ClaimTrigger(w)
    <2>1. pc[w] = "handle" /\ job' = job /\ interactions' = interactions
      BY <1>4 DEF Decline, ClaimFails, Duplicate, ClaimTrigger, GiveUp, storeVars
    <2> QED
      BY <2>1
  <1>5. CASE \/ Poll(w) \/ ClaimRow(w) \/ NothingPending(w) \/ PollFails(w)
             \/ LoadFails(w) \/ RequeueFails(w) \/ Acquire(w)
             \/ Reconcile(w) \/ LookupFails(w)
    <2>1. ~Answering(w)'
      BY <1>1, <1>5 DEF Poll, ClaimRow, NothingPending, PollFails, LoadFails,
         RequeueFails, Acquire, Reconcile, LookupFails, Forget
    <2> QED
      BY <2>1
  <1> QED
    BY <1>2, <1>3, <1>4, <1>5

\* The same from the claim on.
LEMMA AnsweringHandler ==
    ASSUME TypeOK, NEW w \in Workers, Answering(w)',
           \/ SummaryRefused(w) \/ SummaryBegins(w)
           \/ SendUsage(w) \/ AssistantRefused(w) \/ AssistantBegins(w)
           \/ Generate(w) \/ SummaryGenerationFails(w) \/ AnswerGenerationFails(w)
           \/ PersistSummary(w) \/ PersistFails(w) \/ TokenFails(w) \/ Post(w)
           \/ SendUnconfirmed(w) \/ AnswerConfirmed(w) \/ ReplyConfirmed(w)
           \/ ApologyConfirmed(w) \/ RecordTurn(w) \/ RecordTurnFails(w)
           \/ RecordOutcome(w) \/ RecordFails(w)
    PROVE  job'[w] = job[w] /\ interactions' = interactions /\ Answering(w)
  <1> USE DEF TypeOK, WorkerTypeOK, GoTo, Answering, BeforePost
  <1>1. CASE \/ SummaryRefused(w) \/ SummaryBegins(w)
             \/ SendUsage(w) \/ AssistantRefused(w) \/ AssistantBegins(w)
             \/ Generate(w) \/ SummaryGenerationFails(w) \/ AnswerGenerationFails(w)
             \/ PersistSummary(w) \/ PersistFails(w) \/ TokenFails(w) \/ Post(w)
    BY <1>1 DEF SummaryRefused, SummaryBegins, SendUsage, AssistantRefused,
       AssistantBegins, Generate, SummaryGenerationFails,
       AnswerGenerationFails, PersistSummary, PersistFails, TokenFails, Post,
       GiveUp, storeVars
  <1>2. CASE \/ SendUnconfirmed(w) \/ AnswerConfirmed(w)
             \/ ApologyConfirmed(w) \/ RecordTurnFails(w)
    BY <1>2 DEF SendUnconfirmed, AnswerConfirmed, ApologyConfirmed,
       RecordTurnFails, GiveUp, storeVars
  <1>3. CASE ReplyConfirmed(w) \/ RecordTurn(w) \/ RecordOutcome(w) \/ RecordFails(w)
    <2>1. ~Answering(w)'
      BY <1>3 DEF ReplyConfirmed, RecordTurn, RecordOutcome, RecordFails,
         Succeed, Forget
    <2> QED
      BY <2>1
  <1> QED
    BY <1>1, <1>2, <1>3

\* The check before the handler is still true when the handler ends.
LEMMA UnrecordedStep ==
    ASSUME QueueInv, NEW w \in Workers, WorkerStep(w), NEW v \in Workers
    PROVE  Unrecorded(v)'
  <1> SUFFICES ASSUME ~Renamable(job'[v].msg), Answering(v)'
               PROVE  <<job'[v].msg, job'[v].name>> \notin interactions'
    BY DEF Unrecorded, Answering, Renamable
  <1>1. TypeOK
    BY DEF QueueInv, OwnInv, TypeInv
  <1>2. CASE v = w
    <2>1. /\ job'[w] = job[w] /\ interactions' = interactions
          /\ Answering(w) \/ (pc[w] = "check" /\ ~AlreadyDelivered(w))
      <3>1. Answering(w)'
        BY <1>2
      <3> QED
        BY <1>1, <3>1, AnsweringFetch, AnsweringHandler DEF WorkerStep
    <2>2. CASE Answering(w)
      BY <1>2, <2>1, <2>2 DEF QueueInv, Unrecorded, Answering
    <2>3. CASE ~AlreadyDelivered(w)
      <3>1. \A t \in interactions : t[2] \in AssistantNames
        BY DEF QueueInv, HandlerInv, TurnsArrived
      <3>2. <<job[w].msg, job[w].name>>[2] = job[w].name
        OBVIOUS
      <3>3. <<job[w].msg, job[w].name>> \notin interactions
        BY <2>3, <3>1, <3>2 DEF AlreadyDelivered
      <3> QED
        BY <1>2, <2>1, <3>3
    <2> QED
      BY <2>1, <2>2, <2>3
  <1>3. CASE v # w
    <2>1. pc'[v] = pc[v] /\ job'[v] = job[v] /\ verdict'[v] = verdict[v]
      BY <1>1, <1>3, OthersUnmoved
    <2>2. Answering(v) /\ ~Renamable(job[v].msg)
      BY <2>1 DEF Answering
    <2>3. <<job[v].msg, job[v].name>> \notin interactions
      BY <2>2 DEF QueueInv, Unrecorded, Answering
    <2>4. CASE RecordTurn(w)
      <3>1. pc[v] \notin {"idle", "claiming"}
        BY <2>2 DEF Answering, BeforePost
      <3>2. /\ job[v] # NoJob /\ job[v].id \in DOMAIN outbox
            /\ outbox[job[v].id].msg = job[v].msg /\ outbox[job[v].id].name = job[v].name
            /\ \A u \in Workers : job[u] # NoJob /\ job[u].id = job[v].id => u = v
        BY <3>1, HeldRow DEF QueueInv, RowKey
      <3>3. job[w] # NoJob
        BY <2>4, HeldRow DEF RecordTurn, QueueInv
      <3>4. Target(w) # <<job[v].msg, job[v].name>>
        BY <1>3, <2>2, <2>4, <3>2, <3>3, TurnOfOwner
      <3>5. interactions' = interactions \cup {Target(w)}
        BY <2>4 DEF RecordTurn
      <3> QED
        BY <2>1, <2>3, <3>4, <3>5
    <2>5. CASE UNCHANGED interactions
      BY <2>1, <2>3, <2>5
    <2> QED
      BY <2>4, <2>5, WorkerWrites
  <1> QED
    BY <1>2, <1>3

\* A row with a recorded turn fails only out of attempts.
LEMMA ReconciledStep ==
    ASSUME QueueInv, [Next]_vars
    PROVE  RecordedTurnReconciled'
  <1> SUFFICES ASSUME NEW i \in DOMAIN outbox', outbox'[i].status = "failed",
                      <<outbox'[i].msg, outbox'[i].name>> \in interactions',
                      ~Renamable(outbox'[i].msg)
               PROVE  Exhausted(outbox'[i])
    BY DEF RecordedTurnReconciled, Renamable, Exhausted
  <1>1. StoreTypeOK
    BY DEF QueueInv, OwnInv, TypeInv, TypeOK
  <1>2. i \in DOMAIN outbox
    <2> SUFFICES ASSUME i \notin DOMAIN outbox PROVE FALSE
      OBVIOUS
    <2>1. PICK r \in Receivers, m \in Messages, n \in Names : Added(i, r, m, n)
      BY NewRow DEF QueueInv
    <2> QED
      BY <2>1 DEF Added
  <1>3. outbox'[i].msg = outbox[i].msg /\ outbox'[i].name = outbox[i].name
    BY <1>2, KeyKept DEF QueueInv
  <1>4. CASE GivenUp(i)
    BY <1>1, <1>2, <1>4, MoveEffect
  <1>5. ASSUME outbox'[i] = outbox[i] PROVE Exhausted(outbox'[i])
    <2>1. CASE <<outbox[i].msg, outbox[i].name>> \in interactions
      BY <1>2, <1>5, <2>1 DEF QueueInv, RecordedTurnReconciled
    <2>2. CASE <<outbox[i].msg, outbox[i].name>> \notin interactions
      <3>1. interactions' # interactions
        BY <1>3, <2>2
      <3>2. PICK w \in Workers : RecordTurn(w)
        BY <3>1, StepKinds, WorkerWrites DEF storeVars
      <3>3. Target(w) = <<outbox[i].msg, outbox[i].name>>
        BY <1>3, <2>2, <3>2 DEF RecordTurn
      <3>4. outbox[i].status = "running"
        BY <1>2, <1>3, <3>2, <3>3, TurnOfOwner
      <3> QED
        BY <1>5, <3>4
    <2> QED
      BY <2>1, <2>2
  <1>6. ASSUME NEW w \in Workers, RecordOutcome(w), job[w].id = i,
               verdict[w] \in Terminal, Settled(i, verdict[w])
        PROVE  FALSE
    <2>1. verdict[w] = "failed"
      BY <1>1, <1>2, <1>6, MoveEffect
    <2>2. /\ pc[w] \in {"record", "settle"}
          /\ job[w].msg = outbox[i].msg /\ job[w].name = outbox[i].name
      BY <1>6, HeldRow DEF RecordOutcome, QueueInv, RowKey
    <2>3. <<outbox[i].msg, outbox[i].name>> \notin interactions
      BY <1>3, <2>1, <2>2 DEF QueueInv, Unrecorded
    <2>4. interactions' = interactions
      BY <1>6 DEF RecordOutcome
    <2> QED
      BY <1>3, <2>3, <2>4
  <1>7. CASE Taken(i) \/ Returned(i)
    BY <1>1, <1>2, <1>7, MoveEffect
  <1> QED
    BY <1>2, <1>4, <1>5, <1>6, <1>7, RowMoves DEF QueueInv

\* QueueInv is inductive.
LEMMA QueueStep == QueueInv /\ [Next]_vars => QueueInv'
  <1> SUFFICES ASSUME QueueInv, [Next]_vars PROVE QueueInv'
    OBVIOUS
  <1>1. HandlerInv' /\ OwnInv'
    BY HandlerStep, OwnStep DEF QueueInv
  <1>2. \A v \in Workers : Unrecorded(v)'
    <2>1. CASE UNCHANGED <<workerVars, claims, interactions, summaries>>
      BY <2>1 DEF QueueInv, Unrecorded, Renamable, workerVars
    <2>2. CASE WorkersLost
      BY <2>2 DEF WorkersLost, Unrecorded, BeforePost
    <2> QED
      BY <2>1, <2>2, UnrecordedStep, StepKinds
  <1> QED
    BY <1>1, <1>2, KeysStep, LoadableStep, CompletedStep, ReconciledStep DEF QueueInv

\* QueueInv holds in every reachable state.
LEMMA QueueAlways == Spec => []QueueInv
  <1>1. Init => QueueInv
    <2> SUFFICES ASSUME Init PROVE QueueInv
      OBVIOUS
    <2>1. HandlerInv
      BY InitHandler
    <2>2. /\ DOMAIN outbox = {}
          /\ \A w \in Workers : pc[w] = "idle" /\ job[w] = NoJob
          /\ \A r \in Receivers : stage[r] = "idle"
      BY DEF Init, StoreInit, WorkersIdle, IngestInit
    <2>3. OwnInv
      BY <2>1, <2>2 DEF HandlerInv, PostInv, OwnInv, DownIsQuiet, ClaimedRowIsOwned,
         PendingCanRun
    <2>4. UniqueRows /\ RowsNamed /\ RowsLoadable /\ CompletedAnswered
          /\ RecordedTurnReconciled
      BY <2>2 DEF UniqueRows, RowsNamed, RowsLoadable, CompletedAnswered,
         RecordedTurnReconciled
    <2>5. \A w \in Workers : Unrecorded(w)
      BY <2>2 DEF Unrecorded, BeforePost
    <2> QED
      BY <2>1, <2>3, <2>4, <2>5 DEF QueueInv
  <1> QED
    BY <1>1, QueueStep, PTL DEF Spec

\* No table says more than QQ accepted: a completed row was answered, and only
\* answers that arrived are conversation history.
THEOREM Completed == Spec => []CompletedMeansAnswered
  <1>1. QueueInv => CompletedMeansAnswered
    BY DEF QueueInv, CompletedAnswered, HandlerInv, TurnsArrived, CompletedMeansAnswered
  <1> QED
    BY <1>1, QueueAlways, PTL

\* An answer that went out and was recorded is not reported as failed while an
\* attempt is left to reconcile it, unless configurations name its message
\* differently.
THEOREM TurnReconciled == Spec => []RecordedTurnReconciled
  <1>1. QueueInv => RecordedTurnReconciled
    BY DEF QueueInv
  <1> QED
    BY <1>1, QueueAlways, PTL

-------------------------------------------------------------------------------
(***************************************************************************)
(* The bot implements ReplyContract.  Under the mapping of BotRuntime the  *)
(* report of a trigger is the status of the one row of its key; what the   *)
(* contract does not distinguish is a stuttering step.                     *)
(***************************************************************************)
Word(status) == IF status \in Terminal THEN status ELSE "open"

\* The report reads the one row of the key.
LEMMA ReportOfRow ==
    ASSUME StoreTypeOK, UniqueRows, NEW t \in Triggers
    PROVE  /\ RowFor(t) = {} => ReportOf(t) = "none"
           /\ \A i \in RowFor(t) : /\ i \in DOMAIN outbox
                                   /\ t = <<outbox[i].msg, outbox[i].name>>
                                   /\ ReportOf(t) = Word(outbox[i].status)
  <1>1. ASSUME RowFor(t) = {} PROVE ReportOf(t) = "none"
    BY <1>1 DEF ReportOf
  <1>2. ASSUME NEW i \in RowFor(t)
        PROVE  /\ i \in DOMAIN outbox
               /\ t = <<outbox[i].msg, outbox[i].name>>
               /\ ReportOf(t) = Word(outbox[i].status)
    <2>1. i \in DOMAIN outbox /\ t = <<outbox[i].msg, outbox[i].name>>
      BY <1>2 DEF RowFor
    <2>2. \A j \in RowFor(t) : j = i
      BY <2>1 DEF RowFor, UniqueRows
    <2> QED
      BY <1>2, <2>1, <2>2 DEF ReportOf, Word, Terminal
  <1> QED
    BY <1>1, <1>2

\* The same after a step.
LEMMA ReportOfRowNext ==
    ASSUME StoreTypeOK', UniqueRows', NEW t \in Triggers
    PROVE  /\ RowFor(t)' = {} => ReportOf(t)' = "none"
           /\ \A i \in RowFor(t)' : ReportOf(t)' = Word(outbox'[i].status)
  <1>1. ASSUME RowFor(t)' = {} PROVE ReportOf(t)' = "none"
    BY <1>1 DEF ReportOf
  <1>2. ASSUME NEW i \in RowFor(t)'
        PROVE  ReportOf(t)' = Word(outbox'[i].status)
    <2>1. \A j \in RowFor(t)' : j = i
      BY <1>2 DEF RowFor, UniqueRows
    <2> QED
      BY <1>2, <2>1 DEF ReportOf, Word, Terminal
  <1> QED
    BY <1>1, <1>2

\* A step that adds no row changes the report of a key as it changes its row.
LEMMA ReportMoves ==
    ASSUME QueueInv, [Next]_vars, DOMAIN outbox' \subseteq DOMAIN outbox,
           NEW t \in Triggers
    PROVE  \/ ReportOf(t) = "none" /\ ReportOf(t)' = "none" /\ RowFor(t) = {}
           \/ \E i \in DOMAIN outbox :
                 /\ t = <<outbox[i].msg, outbox[i].name>>
                 /\ ReportOf(t) = Word(outbox[i].status)
                 /\ ReportOf(t)' = IF i \in DOMAIN outbox'
                                     THEN Word(outbox'[i].status) ELSE "none"
  <1>1. /\ StoreTypeOK /\ UniqueRows
        /\ StoreTypeOK' /\ UniqueRows'
    BY QueueStep DEF QueueInv, OwnInv, TypeInv, TypeOK
  <1>2. \A i \in DOMAIN outbox' :
           outbox'[i].msg = outbox[i].msg /\ outbox'[i].name = outbox[i].name
    BY KeyKept DEF QueueInv
  <1>3. RowFor(t)' = {i \in RowFor(t) : i \in DOMAIN outbox'}
    BY <1>2 DEF RowFor
  <1>4. CASE RowFor(t) = {}
    BY <1>1, <1>3, <1>4, ReportOfRow, ReportOfRowNext
  <1>5. ASSUME NEW i \in RowFor(t)
        PROVE  /\ i \in DOMAIN outbox
               /\ t = <<outbox[i].msg, outbox[i].name>>
               /\ ReportOf(t) = Word(outbox[i].status)
               /\ ReportOf(t)' = IF i \in DOMAIN outbox'
                                   THEN Word(outbox'[i].status) ELSE "none"
    <2>1. /\ i \in DOMAIN outbox
          /\ t = <<outbox[i].msg, outbox[i].name>>
          /\ ReportOf(t) = Word(outbox[i].status)
      BY <1>1, <1>5, ReportOfRow
    <2>2. CASE i \in DOMAIN outbox'
      BY <1>1, <1>3, <1>5, <2>1, <2>2, ReportOfRowNext
    <2>3. CASE i \notin DOMAIN outbox'
      <3>1. \A j \in RowFor(t) : j = i
        BY <1>1, <2>1 DEF RowFor, UniqueRows
      <3>2. RowFor(t)' = {}
        BY <1>3, <2>3, <3>1
      <3> QED
        BY <1>1, <2>1, <2>3, <3>2, ReportOfRowNext
    <2> QED
      BY <2>1, <2>2, <2>3
  <1> QED
    BY <1>4, <1>5

\* Reports that change as the contract says, with nothing else that it speaks
\* of changed, are steps of the contract.
LEMMA ReportSteps ==
    ASSUME UNCHANGED <<claims, posts, delivered>>
    PROVE  /\ (\A t \in Triggers : ReportOf(t)' = ReportOf(t)) =>
                UNCHANGED Contract!cvars
           /\ \A T \in SUBSET Triggers :
                /\ \A t \in T : ReportOf(t) = "open"
                /\ \A t \in Triggers :
                      ReportOf(t)' = IF t \in T THEN "failed" ELSE ReportOf(t)
                => Contract!Fail(T)
           /\ \A T \in SUBSET Triggers :
                /\ \A t \in T : ReportOf(t) \in Terminal
                /\ \A t \in Triggers :
                      ReportOf(t)' = IF t \in T THEN "none" ELSE ReportOf(t)
                => Contract!Drop(T)
           /\ \A u \in Triggers :
                /\ ReportOf(u) = "none"
                /\ \A t \in Triggers :
                      ReportOf(t)' = IF t = u THEN "open" ELSE ReportOf(t)
                => Contract!Open(u)
           /\ \A u \in Triggers :
                /\ ReportOf(u) = "open"
                /\ \E n \in Names : delivered[<<u[1], n>>] \in Answers
                /\ \A t \in Triggers :
                      ReportOf(t)' = IF t = u THEN "completed" ELSE ReportOf(t)
                => Contract!Complete(u)
  <1> USE DEF Contract!CTriggers, Contract!cvars, Triggers, Answers, Terminal
  <1>1. UNCHANGED {t \in Triggers : delivered[t] \in Answers}
    OBVIOUS
  <1>2. ASSUME \A t \in Triggers : ReportOf(t)' = ReportOf(t)
        PROVE  UNCHANGED Contract!cvars
    BY <1>1, <1>2
  <1>3. ASSUME NEW T \in SUBSET Triggers,
               \A t \in T : ReportOf(t) = "open",
               \A t \in Triggers :
                  ReportOf(t)' = IF t \in T THEN "failed" ELSE ReportOf(t)
        PROVE  Contract!Fail(T)
    BY <1>1, <1>3 DEF Contract!Fail
  <1>4. ASSUME NEW T \in SUBSET Triggers,
               \A t \in T : ReportOf(t) \in Terminal,
               \A t \in Triggers :
                  ReportOf(t)' = IF t \in T THEN "none" ELSE ReportOf(t)
        PROVE  Contract!Drop(T)
    BY <1>1, <1>4 DEF Contract!Drop
  <1>5. ASSUME NEW u \in Triggers, ReportOf(u) = "none",
               \A t \in Triggers :
                  ReportOf(t)' = IF t = u THEN "open" ELSE ReportOf(t)
        PROVE  Contract!Open(u)
    BY <1>1, <1>5 DEF Contract!Open
  <1>6. ASSUME NEW u \in Triggers, ReportOf(u) = "open",
               \E n \in Names : delivered[<<u[1], n>>] \in Answers,
               \A t \in Triggers :
                  ReportOf(t)' = IF t = u THEN "completed" ELSE ReportOf(t)
        PROVE  Contract!Complete(u)
    BY <1>1, <1>6 DEF Contract!Complete
  <1> QED
    BY <1>2, <1>3, <1>4, <1>5, <1>6

\* One row moved, as its worker or the recovery moves it: its key's report
\* follows, the others stay.
LEMMA RowReports ==
    ASSUME QueueInv, [Next]_vars, NEW id \in DOMAIN outbox, OnlyRow(id)
    PROVE  /\ <<outbox[id].msg, outbox[id].name>> \in Triggers
           /\ ReportOf(<<outbox[id].msg, outbox[id].name>>) = Word(outbox[id].status)
           /\ \A t \in Triggers :
                 ReportOf(t)' = IF t = <<outbox[id].msg, outbox[id].name>>
                                  THEN Word(outbox'[id].status) ELSE ReportOf(t)
  <1> DEFINE u == <<outbox[id].msg, outbox[id].name>>
  <1>1. StoreTypeOK /\ UniqueRows /\ DOMAIN outbox' = DOMAIN outbox
    BY DEF QueueInv, OwnInv, TypeInv, TypeOK, OnlyRow
  <1>2. u \in Triggers /\ id \in RowFor(u)
    BY <1>1 DEF StoreTypeOK, Row, Triggers, RowFor
  <1>3. ReportOf(u) = Word(outbox[id].status)
    BY <1>1, <1>2, ReportOfRow
  <1>4. ASSUME NEW t \in Triggers
        PROVE  ReportOf(t)' = IF t = u THEN Word(outbox'[id].status) ELSE ReportOf(t)
    <2>1. CASE ReportOf(t) = "none" /\ ReportOf(t)' = "none" /\ RowFor(t) = {}
      BY <1>2, <2>1
    <2>2. ASSUME NEW i \in DOMAIN outbox,
                 t = <<outbox[i].msg, outbox[i].name>>,
                 ReportOf(t) = Word(outbox[i].status),
                 ReportOf(t)' = Word(outbox'[i].status)
          PROVE  ReportOf(t)' = IF t = u THEN Word(outbox'[id].status) ELSE ReportOf(t)
      <3>1. CASE i = id
        BY <2>2, <3>1
      <3>2. CASE i # id
        <4>1. t # u
          BY <1>1, <2>2, <3>2 DEF UniqueRows
        <4> QED
          BY <2>2, <3>2, <4>1 DEF OnlyRow
      <3> QED
        BY <3>1, <3>2
    <2> HIDE DEF u
    <2> QED
      BY <1>1, <2>1, <2>2, ReportMoves
  <1> QED
    BY <1>2, <1>3, <1>4

\* What a worker does with a row, as the contract sees it.
LEMMA WorkerRefines ==
    ASSUME QueueInv, NEW w \in Workers, Worker(w)
    PROVE  [Contract!CNext]_Contract!cvars
  <1>1. [Next]_vars /\ OwnInv /\ HandlerInv /\ TypeOK /\ WorkerStep(w)
    BY DEF Next, Worker, QueueInv, OwnInv, TypeInv
  <1>2. StoreTypeOK
    BY <1>1 DEF TypeOK
  <1>3. ASSUME NEW u \in Triggers, Contract!Claim(u) \/ Contract!Send(u) \/ Contract!Complete(u)
        PROVE  Contract!CNext
    BY <1>3 DEF Contract!CNext, Contract!CTriggers, Triggers
  <1>4. ASSUME NEW T \in SUBSET Triggers, Contract!Fail(T)
        PROVE  Contract!CNext
    BY <1>4 DEF Contract!CNext, Contract!CTriggers, Triggers
  <1>5. CASE ClaimTrigger(w)
    <2>1. Target(w) \in Triggers
      BY <1>1, <1>5, TargetType DEF ClaimTrigger, Runnable
    <2>2. /\ Target(w) \notin claims /\ claims' = claims \cup {Target(w)}
          /\ UNCHANGED <<outbox, posts, delivered>>
      BY <1>5 DEF ClaimTrigger, platformVars
    <2>3. \A t \in Triggers : ReportOf(t)' = ReportOf(t)
      BY <2>2 DEF ReportOf, RowFor
    <2>4. Contract!Claim(Target(w))
      BY <2>2, <2>3 DEF Contract!Claim
    <2> QED
      BY <1>3, <2>1, <2>4
  <1>6. CASE Post(w)
    <2>1. Target(w) \in Triggers /\ pc[w] \in BeforePost
      BY <1>1, <1>6, RoutedTargetType DEF Post, BeforePost
    <2>2. posts[Target(w)] = 0 /\ Target(w) \in claims /\ delivered[Target(w)] = "none"
      BY <1>1, <2>1 DEF HandlerInv, PostInv, PostDiscipline, SentFirst
    <2>3. /\ posts' = [posts EXCEPT ![Target(w)] = 1]
          /\ UNCHANGED <<outbox, claims>>
      BY <1>6, <2>2 DEF Post, storeVars
    <2>4. \A t \in Triggers : ReportOf(t)' = ReportOf(t)
      BY <2>3 DEF ReportOf, RowFor
    <2>5. \/ delivered' = delivered
          \/ \A t \in Triggers :
                delivered'[t] = IF t = Target(w) THEN reply[w] ELSE delivered[t]
      BY <1>1, <1>6 DEF Post, TypeOK, WorkerTypeOK
    <2>6. {t \in Triggers : delivered'[t] \in Answers} \in
             {{t \in Triggers : delivered[t] \in Answers},
              {t \in Triggers : delivered[t] \in Answers} \cup {Target(w)}}
      <3>1. CASE delivered' = delivered
        BY <3>1
      <3>2. CASE \A t \in Triggers :
                    delivered'[t] = IF t = Target(w) THEN reply[w] ELSE delivered[t]
        <4>1. CASE reply[w] \in Answers
          BY <2>1, <3>2, <4>1
        <4>2. CASE reply[w] \notin Answers
          <5>1. delivered[Target(w)] \notin Answers
            BY <2>2 DEF Answers
          <5> QED
            BY <3>2, <4>2, <5>1
        <4> QED
          BY <4>1, <4>2
      <3> QED
        BY <2>5, <3>1, <3>2
    <2>7. PICK u \in Triggers : u = Target(w)
      BY <2>1
    <2>8. Contract!Send(u)
      BY <2>2, <2>3, <2>4, <2>6, <2>7 DEF Contract!Send, Answers
    <2> QED
      BY <1>3, <2>8
  <1>7. CASE ClaimRow(w)
    <2>1. UNCHANGED <<claims, posts, delivered>>
      BY <1>7 DEF ClaimRow, platformVars
    <2>2. PICK id \in DOMAIN outbox : Taken(id) /\ OnlyRow(id)
      BY <1>1, <1>7, ClaimTakes
    <2>3. Word(outbox'[id].status) = Word(outbox[id].status)
      BY <1>2, <2>2, MoveEffect DEF Taken, Word, Terminal
    <2>4. \A t \in Triggers : ReportOf(t)' = ReportOf(t)
      BY <1>1, <2>2, <2>3, RowReports
    <2> QED
      BY <2>1, <2>4, ReportSteps
  <1>8. CASE LoadFails(w) \/ RecordOutcome(w)
    <2> DEFINE id == job[w].id
               u == <<outbox[id].msg, outbox[id].name>>
    <2>1. UNCHANGED <<claims, posts, delivered>>
      BY <1>8 DEF LoadFails, RecordOutcome, platformVars
    <2>2. /\ pc[w] \notin {"idle", "claiming"}
          /\ id \in DOMAIN outbox /\ outbox[id].status = "running"
          /\ job[w].msg = outbox[id].msg
      BY <1>1, <1>8, HeldRow DEF LoadFails, RecordOutcome, RowKey
    <2>3. OnlyRow(id)
      BY <1>1, <1>8, LoadFailsMoves, RecordMoves
    <2>4. /\ u \in Triggers /\ ReportOf(u) = "open"
          /\ \A t \in Triggers :
                ReportOf(t)' = IF t = u THEN Word(outbox'[id].status) ELSE ReportOf(t)
      BY <1>1, <2>2, <2>3, RowReports DEF Word, Terminal
    <2>5. \/ outbox'[id].status = "pending"
          \/ outbox'[id].status = "failed"
          \/ outbox'[id].status = "completed" /\ RecordOutcome(w) /\ verdict[w] = "completed"
      <3>1. CASE LoadFails(w)
        BY <1>1, <1>2, <2>2, <3>1, LoadFailsMoves, MoveEffect
      <3>2. CASE RecordOutcome(w)
        <4>1. verdict[w] \in Terminal /\ Settled(id, verdict[w])
          BY <1>1, <3>2, RecordMoves
        <4>2. outbox'[id].status = verdict[w]
          BY <1>2, <2>2, <4>1, MoveEffect
        <4> QED
          BY <3>2, <4>1, <4>2 DEF Terminal
      <3> QED
        BY <1>8, <3>1, <3>2
    <2>6. CASE outbox'[id].status = "pending"
      <3>1. \A t \in Triggers : ReportOf(t)' = ReportOf(t)
        BY <2>4, <2>6 DEF Word, Terminal
      <3> QED
        BY <2>1, <3>1, ReportSteps
    <2>7. CASE outbox'[id].status = "failed"
      <3>1. /\ {u} \in SUBSET Triggers /\ \A t \in {u} : ReportOf(t) = "open"
            /\ \A t \in Triggers :
                  ReportOf(t)' = IF t \in {u} THEN "failed" ELSE ReportOf(t)
        BY <2>4, <2>7 DEF Word, Terminal
      <3>2. Contract!Fail({u})
        BY <2>1, <3>1, ReportSteps
      <3> QED
        BY <1>4, <3>1, <3>2
    <2>8. CASE outbox'[id].status = "completed" /\ RecordOutcome(w) /\ verdict[w] = "completed"
      <3>1. \E n \in Names : delivered[<<job[w].msg, n>>] \in Answers
        BY <1>1, <2>8 DEF RecordOutcome, HandlerInv, Arrived
      <3>2. u[1] = job[w].msg
        BY <2>2
      <3>3. \A t \in Triggers :
               ReportOf(t)' = IF t = u THEN "completed" ELSE ReportOf(t)
        BY <2>4, <2>8 DEF Word, Terminal
      <3>4. Contract!Complete(u)
        <4> HIDE DEF u
        <4> QED
          BY <2>1, <2>4, <3>1, <3>2, <3>3, ReportSteps
      <3> QED
        BY <1>3, <2>4, <3>4
    <2> QED
      BY <2>5, <2>6, <2>7, <2>8
  <1>9. CASE UNCHANGED <<outbox, claims, posts, delivered>>
    <2>1. \A t \in Triggers : ReportOf(t)' = ReportOf(t)
      BY <1>9 DEF ReportOf, RowFor
    <2> QED
      BY <1>9, <2>1, ReportSteps
  <1> QED
    BY <1>1, <1>5, <1>6, <1>7, <1>8, <1>9, WorkerRows, WorkerWrites DEF platformVars

\* A new row opens its trigger.
LEMMA EnqueueRefines ==
    ASSUME QueueInv, [Next]_vars, NEW r \in Receivers, Enqueue(r), UNCHANGED workerVars
    PROVE  [Contract!CNext]_Contract!cvars
  <1>1. UNCHANGED <<claims, posts, delivered>>
    BY DEF Enqueue, workerVars, platformVars
  <1>2. CASE UNCHANGED outbox
    <2>1. \A t \in Triggers : ReportOf(t)' = ReportOf(t)
      BY <1>2 DEF ReportOf, RowFor
    <2> QED
      BY <1>1, <2>1, ReportSteps
  <1>3. ASSUME NEW id \in RowIds \ DOMAIN outbox, NEW m \in Messages, NEW n \in Names,
               Added(id, r, m, n)
        PROVE  [Contract!CNext]_Contract!cvars
    <2>1. PICK u \in Triggers : u = <<m, n>>
      BY DEF Triggers
    <2>2. /\ StoreTypeOK /\ UniqueRows
          /\ StoreTypeOK' /\ UniqueRows'
      BY QueueStep DEF QueueInv, OwnInv, TypeInv, TypeOK
    <2>3. ReportOf(u) = "none"
      BY <1>3, <2>1, <2>2, ReportOfRow DEF Added
    <2>4. /\ outbox'[id].msg = m /\ outbox'[id].name = n
          /\ outbox'[id].status = "pending"
          /\ DOMAIN outbox' = DOMAIN outbox \cup {id}
          /\ \A i \in DOMAIN outbox : outbox'[i] = outbox[i]
      BY <1>3 DEF Added
    <2>5. id \in RowFor(u)'
      BY <2>1, <2>4 DEF RowFor
    <2>6. ReportOf(u)' = "open"
      BY <2>2, <2>4, <2>5, ReportOfRowNext DEF Word, Terminal
    <2>7. ASSUME NEW t \in Triggers, t # u PROVE ReportOf(t)' = ReportOf(t)
      <3>1. RowFor(t)' = RowFor(t)
        BY <2>1, <2>4, <2>7 DEF RowFor
      <3>2. CASE RowFor(t) = {}
        BY <2>2, <3>1, <3>2, ReportOfRow, ReportOfRowNext
      <3>3. ASSUME NEW i \in RowFor(t) PROVE ReportOf(t)' = ReportOf(t)
        <4>1. i \in DOMAIN outbox /\ ReportOf(t) = Word(outbox[i].status)
          BY <2>2, <3>3, ReportOfRow
        <4>2. ReportOf(t)' = Word(outbox'[i].status)
          BY <2>2, <3>1, <3>3, ReportOfRowNext
        <4> QED
          BY <2>4, <4>1, <4>2
      <3> QED
        BY <3>2, <3>3
    <2>8. Contract!Open(u)
      BY <1>1, <2>3, <2>6, <2>7, ReportSteps
    <2> QED
      BY <2>8 DEF Contract!CNext, Contract!CTriggers, Triggers
  <1> QED
    BY <1>2, <1>3, EnqueueRows DEF QueueInv

\* The recovery reports as failed the keys it gives up, all at once.
LEMMA StartRefines ==
    ASSUME QueueInv, [Next]_vars, NEW c \in Configs, Start(c)
    PROVE  [Contract!CNext]_Contract!cvars
  <1>1. UNCHANGED <<claims, posts, delivered>>
    BY DEF Start, workerVars, platformVars
  <1>2. /\ DOMAIN outbox' = DOMAIN outbox
        /\ \A i \in DOMAIN outbox : outbox'[i] = outbox[i] \/ Returned(i) \/ GivenUp(i)
    BY RecoveryRows DEF QueueInv
  <1>3. PICK T \in SUBSET Triggers :
           T = {t \in Triggers : ReportOf(t) = "open" /\ ReportOf(t)' = "failed"}
    OBVIOUS
  <1>4. ASSUME NEW t \in Triggers, t \notin T PROVE ReportOf(t)' = ReportOf(t)
    <2>1. ASSUME NEW i \in DOMAIN outbox,
                 ReportOf(t) = Word(outbox[i].status),
                 ReportOf(t)' = Word(outbox'[i].status)
          PROVE  ReportOf(t)' = ReportOf(t)
      <3>1. CASE outbox'[i] = outbox[i]
        BY <2>1, <3>1
      <3>2. CASE Returned(i)
        <4>1. outbox[i].status = "running" /\ outbox'[i].status = "pending"
          BY <3>2, MoveEffect DEF Returned, QueueInv, OwnInv, TypeInv, TypeOK
        <4> QED
          BY <2>1, <4>1 DEF Word, Terminal
      <3>3. CASE GivenUp(i)
        <4>1. outbox[i].status = "running" /\ outbox'[i].status = "failed"
          BY <3>3, MoveEffect DEF GivenUp, QueueInv, OwnInv, TypeInv, TypeOK
        <4> QED
          BY <1>3, <1>4, <2>1, <4>1 DEF Word, Terminal
      <3> QED
        BY <1>2, <3>1, <3>2, <3>3
    <2> QED
      BY <1>2, <2>1, ReportMoves
  <1>5. Contract!Fail(T)
    BY <1>1, <1>3, <1>4, ReportSteps
  <1> QED
    BY <1>5 DEF Contract!CNext, Contract!CTriggers, Triggers

\* The prune drops final reports.
LEMMA PruneRefines ==
    ASSUME QueueInv, [Next]_vars, PruneAndServe
    PROVE  [Contract!CNext]_Contract!cvars
  <1>1. UNCHANGED <<claims, posts, delivered>>
    BY DEF PruneAndServe, workerVars, platformVars
  <1>2. /\ DOMAIN outbox' \subseteq DOMAIN outbox
        /\ \A i \in DOMAIN outbox' : outbox'[i] = outbox[i]
        /\ \A i \in DOMAIN outbox : outbox[i].status \notin Terminal => i \in DOMAIN outbox'
    BY PruneRows DEF QueueInv
  <1>3. PICK T \in SUBSET Triggers :
           T = {t \in Triggers : ReportOf(t) \in Terminal /\ ReportOf(t)' = "none"}
    OBVIOUS
  <1>4. ASSUME NEW t \in Triggers, t \notin T PROVE ReportOf(t)' = ReportOf(t)
    <2>1. ASSUME NEW i \in DOMAIN outbox,
                 ReportOf(t) = Word(outbox[i].status),
                 ReportOf(t)' = IF i \in DOMAIN outbox'
                                  THEN Word(outbox'[i].status) ELSE "none"
          PROVE  ReportOf(t)' = ReportOf(t)
      <3>1. CASE i \in DOMAIN outbox'
        BY <1>2, <2>1, <3>1
      <3>2. CASE i \notin DOMAIN outbox'
        BY <1>2, <1>3, <1>4, <2>1, <3>2 DEF Word
      <3> QED
        BY <3>1, <3>2
    <2> QED
      BY <1>2, <2>1, ReportMoves
  <1>5. Contract!Drop(T)
    BY <1>1, <1>3, <1>4, ReportSteps
  <1> QED
    BY <1>5 DEF Contract!CNext, Contract!CTriggers, Triggers

\* Every step of the bot is a step of the contract or none.
LEMMA StepRefines ==
    ASSUME QueueInv, [Next]_vars
    PROVE  [Contract!CNext]_Contract!cvars
  <1>1. ASSUME UNCHANGED <<outbox, claims, posts, delivered>>
        PROVE  [Contract!CNext]_Contract!cvars
    <2>1. \A t \in Triggers : ReportOf(t)' = ReportOf(t)
      BY <1>1 DEF ReportOf, RowFor
    <2> QED
      BY <1>1, <2>1, ReportSteps
  <1>2. CASE Halt
    BY <1>1, <1>2 DEF Halt, storeVars, platformVars
  <1>3. CASE UNCHANGED <<outbox, claims, interactions, summaries, workerVars>>
    BY <1>1, <1>3 DEF workerVars, platformVars
  <1> QED
    BY <1>2, <1>3, WorkerRefines, EnqueueRefines, StartRefines, PruneRefines,
       TableSteps

\* The whole bot, ingestion, workers, recovery, retention, crashes and restarts
\* included, implements the contract.
THEOREM Implements == Spec => ReplyContractHolds
  <1>1. Init => Contract!CInit
    <2> SUFFICES ASSUME Init PROVE Contract!CInit
      OBVIOUS
    <2>1. \A t \in Triggers : ReportOf(t) = "none"
      BY DEF Init, StoreInit, ReportOf, RowFor
    <2>2. /\ claims = {} /\ posts = [t \in Triggers |-> 0]
          /\ {t \in Triggers : delivered[t] \in Answers} = {}
      BY DEF Init, StoreInit, PlatformInit, Answers
    <2> QED
      BY <2>1, <2>2 DEF Contract!CInit, Contract!CTriggers, Triggers
  <1>2. QueueInv /\ [Next]_vars => [Contract!CNext]_Contract!cvars
    BY StepRefines
  <1> QED
    BY <1>1, <1>2, QueueAlways, PTL DEF Spec, ReplyContractHolds, Contract!CSpec
===============================================================================
