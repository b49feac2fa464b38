# Verification of QQgroupchatbot

TLA+ specifications of the QQ group chat bot under `src/app`, the TLC
configurations that check them on small instances, and proofs of the most
important theorems for every instance.

Contents: [the system](#1-the-system) ·
[the modules](#2-the-modules-and-the-code) · [the runs](#3-the-runs) ·
[findings](#4-where-the-code-and-its-texts-disagree) · [proofs](#5-proofs) ·
[not modelled](#6-what-is-not-modelled) · [plan](#7-plan)

## 1. The system

One Python process serves one QQ bot account. Events of the groups arrive over
a Gateway WebSocket or over webhook requests; every event is stored raw, parsed
into an internal message, stored again, and, if it is a command or addresses
the assistant, given a row in a durable outbox. Worker tasks take rows from the
outbox, run a handler (which usually calls an LLM) and send one reply through
the QQ HTTP API. A handler reads the history before its trigger, has the
pictures in it described, renders it and asks the provider; a summary that does
not fit one prompt is made in chunks. The database is one SQLite file, which a
repair script may also write; everything else is in memory of one asyncio loop.

```
 QQ Gateway --> Gateway client --+                        +--> LLM provider
                                 +--> event processor     +--> vision provider
 QQ webhook --> webhook adapter -+      |  (3 commits)    |
                                        v                 |
 repair script ---------------->  SQLite: raw_events, messages, message_nodes,
                                  interaction_outbox, *_trigger_claims,
                                  assistant_interactions, summaries
                                        ^                 |
                                        |                 |
                                  outbox workers --> handlers --> QQ message API
                                                                    |
                    access token cache  <---------------------------+
```

### Components, their state and what makes them correct

| Component | State | Operations | What must hold |
|---|---|---|---|
| Durable store and repositories (`storage/`) | the tables | create, claim, mark, requeue, recover, prune; claim a trigger; insert a turn or a summary | one row and one claim per trigger; a row has one owner; attempts are bounded; a terminal row never moves |
| Inbound processing (`qq_official_event_processor.py`, `*_ingestion.py`) | the event of each receiver | store raw, store parse, enqueue | a row rests on a receipt; repeated receipts make no second row |
| Routing (`interaction_dispatch.py`, `command_dispatch.py`, `group_assistant_trigger.py`) | none; reads the configuration | name an interaction, twice: at ingestion and in the worker | one message is answered once even if the two names differ |
| Outbox workers (`interaction_outbox_worker.py`) | tasks, semaphore, the outbox rows | poll, reload, limit, dispatch, record, stop | at most one reply; permits conserved; every row settles |
| Handlers (`ping_command.py`, `summary_command.py`, `group_assistant_handler.py`) | cooldowns, groups being summarised | claim, gate, generate, store, send, record | the claim precedes the send; a summary is stored before it is posted; one summary per group at a time |
| Lifespan (`main.py`) | phase, configuration | start, recover, prune, serve, stop, restart | nothing is lost or repeated over stops and crashes |
| Gateway client and loop (`gateway.py`, `main.py`) | socket, heartbeat task, session, sequence, delay | connect, identify, resume, receive, close, back off | one heartbeat; resumes its own session at the right number; comes back, and not in a rush |
| Access token cache (`auth.py`) | token, expiry, lock | fetch, invalidate | one request at a time; only live tokens; a refused one never again |
| Message API (`message_api.py`) | none | token, POST, read the answer | a reply that is not confirmed is not a success |
| LLM and vision providers (`openai_compatible.py`, `deepseek.py`) | the attempt | POST, read, pause, retry | retries what may be cured and nothing else, in bounded number and time |
| Summary service (`summary.py`) | window, prompts, partial summaries | query, describe pictures, chunk, complete, validate, merge | every message in exactly one prompt; refusal before the first text call; no summary of a part |
| Message history (`message_repository.py`, `conversation_query.py`, `forward_reparse.py`) | versions of each message | persist, two queries, reparse | one row per receipt and version, and `persist()` answers with it; each message once, in its newest form; the repair is complete and ends |
| Context (`group_assistant_context.py`, `group_assistant.py`) | the request | read the trigger, the history, its pictures | what precedes the question, without the question |
| Image enrichment (`image_enrichment.py`) | scope, batch, budget | fetch, describe, reuse | bounded downloads; one description per picture; nothing passes between requests |
| Parser, codec, renderer | none | parse, store as nodes, decode, render | bounded trees; nothing lost that is not marked; the stored tree is the parsed one |
| Webhook adapter, layered context, configuration, logging, health | see section 6 | | |

### Interactions

* Gateway loop and webhook requests *call* the event processor and await it;
  they share the database with the workers and nothing else.
* Workers *call* handlers, handlers *call* the message API and the LLM. The
  three handler objects are shared by all workers, so their cooldown tables and
  the set of groups being summarised are shared memory between awaits.
* The token cache is shared by the message API and the Gateway client.
* The heartbeat is a task beside the Gateway loop and talks to it only through
  the socket and through the exception it leaves behind when it fails.
* The repair script is another process: it shares the tables of receipts and
  messages with the bot, and nothing else.
* The image enrichment is one object shared by all workers; what a request
  learns of a picture is kept in a context variable of its task.
* The lifespan starts all of them, and cancels them in order at shutdown.

### What is hard

* **Interleaving.** A handler is about ten awaits long; any other task runs in
  between. Two webhook requests may carry the same message at once.
* **Crashes and stops.** Between any two commits the process may be killed, or
  be told to stop and cancel what does not finish in time. The outbox row, the
  claim, the POST, the turn and the mark are five separate effects.
* **Unreliable delivery.** QQ repeats events, byte-identical or renumbered. A
  POST may have been accepted although its answer says nothing of the kind.
* **Configuration drift.** The row remembers a name that the process that runs
  it, started with other features, does not give the message.
* **Reconnection.** A session is resumed, invalidated or replaced, and its
  numbers mean something only within it.
* **Versions.** One message may have several receipts (redelivery) and each
  receipt several rows (parser versions), in any order of commit. Two deliveries
  of one receipt, and the script, may persist it at once.
* **Limits.** Depth and nodes of forwards, characters of a prompt, pictures of a
  request, retries of a call: what happens at the limit decides what is lost.
* **Time.** Attempts, cooldowns, the passive reply window, retention, token
  lifetime, back-off.

`PROJECT.json` lists each hazard at its line with the properties that watch it.

## 2. The modules and the code

| Module | Models |
|---|---|
| `BotStore` | the tables, one operator for each repository transaction, and the routing |
| `Ingestion` | `QQOfficialEventProcessor.process` and its callers |
| `InteractionWorker` | the worker loop and the three handlers, one action for the code between two awaits |
| `BotRuntime` | the process: composes the three, adds start, prune, stop, crash, restart, the clock; the properties |
| `ReplyContract` | what the bot promises, abstractly; `BotRuntime` implements it |
| `Gateway` | the Gateway client, its heartbeat task and the reconnect loop |
| `TokenCache` | the access token cache and its callers |
| `ProviderCall` | `complete()` of either provider: its bounded loop of POST and pause |
| `SummaryService` | `SummaryService.summarize`, over `ProviderCall`, with what the image enrichment does to the window |
| `MessageHistory` | `MessageRepository` as bot and repair script use it, the two queries, `reparse_forwards` |
| `ImageEnrichment` | `ImageEnrichmentService` in one worker task |
| `AssistantRequest` | one request after another over a changing history: composes the two; the properties of both |
| `MessageParser`, `MessageCodec`, `MessageRenderer` | the pure parts: body to segments, segments to node rows and back, segments to the marks of a prompt |
| `MessagePictures` | the pictures that image enrichment finds in a tree |
| `StoredTrees` | parser, codec and renderer with `AssistantRequest`: the bodies behind the stored rows, reference definitions on the body, and what the stored trees keep to |
| `PromptPipeline` | adds which pictures a tree holds and which bodies hold a forward |
| `PowersOfTwo` | the powers of two that `Gateway` and `ProviderCall` state their back-offs with |
| `MCBot`, `MCSummary`, `MCPrompt` | the instances for TLC |
| `BotRuntimeProofs` | proofs about `BotRuntime`: its types, what handlers send and store; the queue, the permits and the refinement of `ReplyContract` |
| `GatewayProofs`, `TokenProofs`, `SummaryProofs` | proofs about `Gateway`, `TokenCache`, `SummaryService` with `ProviderCall` |
| `SequenceLemmas` | facts that proofs share: sorting by rank, folds and flattening, the least element of a set, powers of two |
| `RequestProofs` | proofs about `AssistantRequest`: what it reads, and its pictures |
| `TreeProofs` | proofs about `StoredTrees`, the parser and the codec, on top of `RequestProofs` |
| `PromptProofs` | proofs about what a prompt shows of a stored message, on top of `TreeProofs` |

**Atomicity.** The program is one asyncio loop, so the code between two awaits
is atomic and the awaits are where control moves. In `InteractionWorker` the
program counter `pc` names the await a task is suspended at, in `Ingestion` it
is `stage`, in `Gateway` `loop`, in `TokenCache` `state`. Every repository
method opens one session and commits one transaction, so a database call takes
effect in one step: the end of the action before the await it is modelled by.

**BotStore.** `rawEvents`, `messages`, `outbox`, `claims`, `interactions` and
`summaries` are the tables. `claims` unites `command_trigger_claims` and
`assistant_trigger_claims`, whose names are disjoint. A message stands for its
key (platform, group, message id); a payload is a received body, so two payloads
of one message are a renumbered redelivery. Ids are SQLite rowids: a new one is
the largest plus one, hence used again after the newest row is pruned.
`Event[m]` is what the parser extracts, reduced to what the code branches on.

**Ingestion.** A receiver is the Gateway loop or a webhook request. `IngestRaw`,
`IngestMessage` and `Enqueue` are the three commits; each may fail, and a failed
one drops the event, which is what both callers do.

**InteractionWorker.** `ClaimRow` and `NothingPending` are `claim_next_pending`
with its sweep of exhausted rows; `Load*` and `RequeueFails` the reload with its
requeue; `Acquire` the semaphore; `Reconcile`, `Expire` and `Dispatch` the
decisions before the handler; `Decline` ... `RecordTurnFails` the handlers;
`RecordOutcome` and `RecordFails` the marks. A successful handler leaves the
semaphore before its row is marked, an unsuccessful one after: `Succeed` and
`GiveUp` keep that difference. `posts` and `delivered` are QQ: how many POSTs
arrived for each trigger, and which reply it accepted.

**BotRuntime.** `phase` is the lifespan. `Start` is recovery and the creation of
the tasks, `PruneAndServe` the prune, `BeginStop` the stop event with the
cancellation of the Gateway task, `FinishStop` the end of the drain with the
cancellation of the workers wherever they are, `Crash` the same with no warning.
A restart may choose another feature set from `Configs`.

**Gateway.** QQ numbers a session's dispatches 1, 2, ...; `qq` is the session it
holds and how far it has sent, `handed`, `repeated`, `skipped` and `control`
record what became of each number. `Close` is `close()`, used by three callers:
the except branch of `connect()`, the finally branch of the loop, and the
shutdown. `AskGateway` is the request to `/gateway/bot`: `told` is what it says
of the session starts left, and `connect()` goes on whatever that is; `info` is
what the client keeps of it in `Connect`, after the WebSocket handshake only.
`failures` counts the back-offs since a connection last served, up to the first
of the longest delay. That QQ replays the missed events before RESUMED is an
assumption about QQ; so is that a `remaining` of 0 is answered by waiting for
`reset_after`.

**TokenCache.** Callers are tasks; a caller is in `using` from the moment
`fetch_access_token` returns until its QQ call ends, so a 401 may arrive late.
`Latency <= Safety` is assumed: the defaults are a 60 s margin and a 10 s HTTP
timeout (which httpx applies to each phase of a request).

**ProviderCall.** `posting` and `sleeping` are the two awaits of the loop. Time
is in half seconds, the unit of the back-off. The two providers differ in
`RetryDelay` only; what a POST can come to is one of ten classes, since that is
all the loop looks at.

**SummaryService.** A message is its rendered length and a prompt the interval of
messages it holds, so that "in exactly one prompt" can be said. Between the
query and the size checks `summarize` awaits `enrich_messages` (`summary.py:201-202`),
if the service is configured: `Describe` is one picture of the window, which may
cost a vision call (`looked`) and leaves its message with another length, longer or
shorter; `Render` then compares the lengths with the budget. A window that is
refused as too large can thus have cost vision calls, and what it is refused for
may be the descriptions. Vision tokens are in no count of the service. The recursion of
`append_chunk` is unfolded: `pending` holds its calls, `HalveChunk` puts two in
place of one. Bodies of completions are lists of items with a usage.

**MessageHistory.** A receipt's id is its position in `receipts`, a row's id its
position in `rows`; SQLite serialises commits, so both are the order of commit.
A receipt is persisted by each delivery of its event: by the first one and, since
`process()` parses again what it has already received, by every repetition
(`Redeliver`). `Look`, `Store` and `Reread` are the three statements of `persist()`
in one delivery: the select, the insert with the unique constraint in `Insert`,
and, where the constraint refused the row, the second select, which returns the
winner's row. The script uses the same constraint in `AppendVersion`.
`older` stands for the parser of an earlier release; an upgrade replaces the bot
between two events or in the middle of one. A process that still runs the older
release may store its row after the script's: then the larger id, and so the
older representation, is what the queries show, as the code says ("the greatest
normalized messages.id is authoritative").

**AssistantRequest.** `Newest` at the start of a request is `_load_message`.
`QueryHistory` is one `SELECT`; before and after it, pictures are described one
await at a time while receipts keep arriving. A mention describes its own
pictures first; a summary reads its window with one message too many, to notice
an overfull one. Every await may end the request (`EndRequest`), and the scope
is left on each way out.

**ImageEnrichment.** `Known`, `OverLimit`, `UsedUp` and `CanFetch` are the branches
of `_describe_display` in their order. A url belongs to a key and a key to a
content; two urls of one key are a link that QQ has renewed.

**MessageParser, MessageCodec, MessageRenderer.** Operators over bodies and trees.
`_ForwardParseState` is threaded through the parser:
`budget` is `remaining_nodes`. `forward_depth` and `reference_depth` are only ever
compared as a sum with the limit, so `Parser[left]` is the parser with `left`
levels still allowed, made of the parser with one level less (`within`); what it
gives a body beyond the last level does not call `within` at all. `Bodies` are the
bodies that nest at most `MaxNesting` deep: a JSON body is finite, the parser's
limits do not depend on how deep. `ParsedTrees[n]` are the trees of at most `n`
messages in each other, with the kinds, the statuses and the numbering that
`segments.py` allows. Text is cut into tokens at mentions and lines; a
rendering is the sequence of its marks and tokens.
Codec and renderer are made the same way: `Encoder[n]` writes the trees of
`TreesUpTo[n]`, `Decoder[n]` reads them and `Renderer[n]` renders them, each made of
the one below. `_encode_segment`, `_NodeDecoder` and the renderer recurse without a
limit; they meet parsed trees only, whose height the parser bounds, so the model
stops one level above that. Only `MessagePictures` is recursive, and nothing is
proved about it. The decoder
reads siblings of equal position in the order opposite to the insertion, the least
friendly one the database may choose.

## 3. The runs

`tlc -config <run>.cfg <module>`; the faults named in a configuration are those
that may happen in it, each at any moment and any number of times.

| Run | Question | Instance, and why it is enough |
|---|---|---|
| `handlers` | Is what the tables say after any outcome of any handler what QQ saw, and do permits and active groups survive every exit path? | 8 kinds of message (each command, a disabled group, an empty question, a message without time, a command sent as an at-event, chatter), two receipts at a time so that every kind meets every other in the cooldowns; 11 kinds of fault |
| `recovery` | Over crashes, restarts, lost reads and lost marks: one POST per trigger, exclusive rows, bounded attempts, reconciliation of recorded answers, final outcomes? | two restarts and three attempts: a row can be claimed, lost, recovered, lost again and exhausted; two workers |
| `settle` | Does every enqueued row get completed or failed? | a summary and a mention, a crash, failing reads, LLM and refusals; fairness below |
| `contract` | Does the runtime implement `ReplyContract`, and is a message named differently under two configurations answered once? | features switched between restarts, a crash, failing marks, and a retention short enough that rows are pruned and ids reused while an older claim stands |
| `shutdown_reply`, `shutdown_enqueue` | Is what the repository says of a SIGTERM true? | one question, one restart, no fault: the shortest counterexamples |
| `gateway` | Do heartbeats, sockets, sessions and numbers stay in step over any three disturbances, are failed attempts paced, and does the loop serve again after them (unless the bot stops, or a failed heartbeat ends the loop, finding 3)? | 4 numbers and 3 disturbances: a session is opened, resumed and replaced in one behaviour, and the delays are 1, 2 and the maximum 4, with the reset of a limit (3) above two of them and below the third |
| `gateway_heartbeat`, `gateway_replay` | Are "reconnect loop" and "raw-first" true? | two disturbances suffice |
| `token` | One request at a time and none while a fresh token is cached, live tokens, no refused token, over expiry, revocation, failure and cancellation; and is every waiter served? | 3 callers: one inside the lock, one waiting, one using an older token; 2 tokens, so that a late 401 meets a newer one, and time for a token to reach its margin |
| `summary` | Is every message of a window in exactly one prompt, is no text call made for a refused one, does the result rest on all calls, and does the job end, whatever the providers and their headers do? | up to 4 messages, chunks of 3, two budgets: a window that fits, one that splits evenly and unevenly, one that is halved down to single messages, one with a message no budget holds, one message too many; pictures in three of them, each described in one character or eight (`Described`), so that a description makes a fitting message too long or a hopeless one short; 2 retries (the default of `config.py`) with five headers, among them ten minutes and a negative one |
| `prompt` | From the body of an event to the words and pictures of a prompt: is the stored tree the parsed one, are cuts marked, does each request read each message once, in its newest form and before its trigger, does the repair script repair, are downloads bounded and descriptions never another's? | below |

The `prompt` run explores `MCLoads`, small situations of three kinds. 1,172
bodies of one message each, for the pure parts: every leaf (marks with and
without a listed mention, every attachment, content that is no string) bare and
inside a forward or a quote, and every nesting of forwards, quotes and odd
elements three deep or four wide; the limits are 2 levels and 3 nodes and bodies
nest up to 3 (`MaxNesting`), so each limit is met, together and apart, and some
trees fit. 7 histories of one to three events with repeated messages, an event
delivered twice, a missing message id, a moved group, a missing time, an
upgrade, the script with and without `--apply`, whole and limited to a receipt,
and a batch of 2, so that the script pages over rows that the bot adds. 3 loads
full of pictures: three urls of one picture, two pictures of one content, a
budget of 2, quotes and history drawing on it, two requests in a row, a picture
that failed for one message and is tried again for an older one.

**Bounds.** `MaxDeliveries`, `MaxTime`, `MaxRestarts`, `MaxEvents`, `MaxFaults`,
`MaxTokens`, and in a load the number of its events, `repeats`, `reparses` and `requests`,
bound what grows for ever in the code; each is in the guard of the one action
that increments it. `MaxAttempts`, `MaxConcurrent`,
`Window`, `Retention`, the cooldowns and the delays are parameters of the code
with small values. `WorkerSymmetry` is used where nothing but the number of
workers matters and no liveness is checked.

**Deadlock.** The `BotRuntime` runs check it: a process that is down can start,
a worker can poll. `Gateway` ends when the bot has stopped, `TokenCache` when
time and tokens are used up, `SummaryService` with its result and a load of
`MCPrompt` with its last event, so their configurations switch the check off.

**What the properties say.**

* `AtMostOnePost`, with `PostDiscipline` as the reason the proof gives: a trigger's claim is
  committed before the POST and never released, so no crash, retry or
  redelivery can produce a second one. `OneReplyPerMessage` adds that a message
  whose receipts were named differently is answered through one handler only:
  the claim is keyed on the handler that runs, not on the name in the row.
* `ClaimedRowIsOwned`, `PendingCanRun`, `TerminalIsFinal`: the outbox as a queue.
  Marks go by id after long awaits, and still nobody marks another's row;
  `ReplyContractHolds` says the same where rows are pruned and ids reused.
* `CompletedMeansAnswered`, `RecordedTurnReconciled`, `SummaryStoredBeforePost`: the
  tables never claim more than happened. `RecordedTurnReconciled` is about messages
  with one name: where configurations name a message differently it may have two
  rows, and the one whose handler did not run is failed beside the recorded
  answer of the other.
* `PermitsConserved`, `OneSummaryPerGroup`: shared memory over every exit path.
* `EveryRowSettles`: nothing hangs.
* `OneHeartbeat`, `EventsCountedOnce`, `ResumesOwnSession`, `PacedRetries`,
  `ServesAgain`: the connection. `PacedRetries` relates a wait to the history of the
  loop: the *n*-th failure in a row, whichever step of `connect()` it is in, is
  followed by the *n*-th of the doubling delays, and only a connection that came
  to serve starts them anew (the mutant takes an open socket for one). A wait is
  longer only for a limit that the client has kept, which is less than the limit it
  was told (the end of section 4).
* `OneRequest`, `ReturnsLiveTokens`, `RefusedIsNotReused`, `WaitersServed`: the
  token. `OneRequest` says two things: callers ask one at a time, and who waited
  for the lock does not ask for a token that was fetched meanwhile (the second check
  under the lock; its mutant leaves that out).
* `RetryDiscipline`, `StallBounded`: a provider call, over both providers.
* `ChunksTile`, `RefusedBeforeTextCalls`, `SummaryIsWhole`, `SummaryEnds`: a summary
  is of the whole window or there is none. `RefusedBeforeTextCalls` is about text
  calls, as the comment in `_chunk_prompts` is: every chunk is validated before the
  first of them. It does not say that a refusal is free, since pictures have been
  described by then, unless the window had a message too many.
* `HistoryExact`, `ContextPrecedesTrigger`: what a summary and an assistant read.
  The newest row is chosen before the window is applied, so an older version
  cannot resurface because the newest one left the window; and no delivery of
  the question is history of the question. The deliveries of one message may
  carry different times; the last one decides whether `MaxMessages` others are
  newer.
* `PersistAnswersStored`, `ReparseComplete`, `ReparseEnds`: deliveries and script beside
  each other. The caller of `persist()` goes on with the row it gets, so the first
  says which row that is, in every race of looks and inserts: the only one of its
  receipt and version, also for a loser who reads after the receipt got a row of
  another version.
* `StoredTreeFaithful`, `TreeBounded`, `CutsAreVisible`: parser, codec and renderer
  against definitions on the body that know no limit. `CutsAreVisible` says both:
  a prompt that claims to be cut is cut, and one that does not shows every
  word, in order.
* `FetchesBounded`, `DescriptionsAgree`, `DescriptionsAreOwn`, `RecentPicturesFirst`:
  pictures, over requests, scopes, failures and reuse. `RecentPicturesFirst` counts
  a picture where it was first fetched: one that failed there may be fetched
  again, under another link, for an older message, when a newer one has already
  been refused. It has its place in the budget.

For each property of a passing run `PROJECT.json` names a mutant, a changed
definition as a plausible slip in the code would change it, under which TLC
finds the property violated.

**Fairness.** `BotRuntime!FairSpec` is weak fairness of each worker and receiver
(asyncio runs every ready task, and each await of theirs ends, since the LLM and
HTTP clients have timeouts), of the start (the supervisor restarts the process),
of the prune and of the end of the drain (bounded by a timeout). Nothing obliges
QQ to deliver, an operator to stop the bot or the process to crash. `EveryRowSettles`
is checked without the faults `lookup`, `requeue` and `record`, after which the
code leaves a row running on purpose until the next start. `Gateway!FairSpec` is
weak fairness of the loop; disturbances are never obliged. `TokenCache!FairSpec`
is weak fairness of what a caller does by itself and strong fairness of entering
the lock: `asyncio.Lock` wakes its waiters in order, which the set of waiters
does not model. `SummaryService!FairSpec` is weak fairness of the job: the event
loop runs it and the HTTP client times requests out. `AssistantRequest!FairSpec`
is weak fairness of the started script alone: neither QQ nor a group is obliged
to anything, and the script may be interrupted.

## 4. Where the code and its texts disagree

1. **A SIGTERM during the LLM call loses the reply** (`shutdown_reply`).
   `storage/models.py:384-387` says it does not. The handler commits its claim
   before it generates; after the drain timeout the recovered row meets its own
   claim, is a duplicate, and is failed. That is the price of `AtMostOnePost`:
   from the tables alone, "claimed and not sent" and "sent, not recorded" look
   the same.
2. **A SIGTERM between two commits of `process()` loses a recognised
   interaction** (`shutdown_enqueue`), against
   `qq_official_event_processor.py:65-66`: nothing looks for stored messages
   without a row.
3. **A heartbeat that fails first ends the reconnect loop**
   (`gateway_heartbeat`). `close()` suppresses `CancelledError` only; the error
   of a heartbeat that has already failed comes out of the `finally` of
   `handle_dispatch_loop` (`main.py:224`), the task ends, and the bot receives
   nothing until it is restarted.
4. **Events replayed before RESUMED are dropped** (`gateway_replay`), against
   "raw-first": `_wait_for_ready` takes their numbers and hands them to nobody.
   `EventsCountedOnce` shows the complement: except for those, every number up
   to the one a Resume names was handed over exactly once.

Smaller ones, noticed while modelling and without a run of their own:
`docs/IMPLEMENTATION_PLAN.md:46` has the loop back off with regard to
`session_start_limit`, but `connect()` keeps the answer of `/gateway/bot` only once the
WebSocket is open (`gateway.py:211-217`) and the delay is computed from what was
kept (`main.py:605-618`), so an attempt that is told `remaining = 0` and fails in the
handshake is followed by the next after the configured delay, and the attempt that
learns of the limit goes on to identify itself (`told` and `info` in `Gateway`); a comment in
`_parse_retry_after` (`openai_compatible.py:377`) says "clamp" of a value above
five minutes, which is ignored (`RetryDelay`); images are numbered "in a single
message" (`message_renderer.py:97`), but the numbers start again inside every
quote and forward; messages of one send time are ordered by row in one query and
by receipt in the other (`Earlier`, `EarlierReceipt`), so a reparsed message may
stand elsewhere in a summary than in an answer.

## 5. Proofs

Checked by TLAPS (`tlapm <module>.tla`), from the named assumptions of the
modules alone, which TLC evaluates for each instance: for any number of workers,
receivers, messages, attempts, events, callers, retries, chunks, versions and
pictures. Most assumptions say that a number is a number. Those that say more:
`ContentAssumption` (no description is spelled like one of the notes that stand in
for one), `PictureAssumption` and `RequestAssumption` (the picture limit is positive,
as the constructor of `ImageEnrichmentService` checks; every link has a key and every
key a content), `LoadAssumption` (events have bodies that can be encoded), `BodyAssumption` (these
bodies are objects, since `parse` returns `None` for anything else, and nest at most
`MaxNesting` deep, whatever that is), and `EncodingAssumption`
(`Encoded`, a constant of `MessageHistory`, is what the codec makes of the parsed body).

| Theorem | States | Inductive invariant |
|---|---|---|
| `BotRuntimeProofs!TypeCorrect` | `[]TypeOK` | `TypeInv`: `TypeOK` and `NamedBeforeEnqueue` |
| `BotRuntimeProofs!OnePost` | `[]AtMostOnePost` | `PostInv`: `TypeInv`, `AtMostOnePost` and `PostDiscipline` |
| `BotRuntimeProofs!OneReply`, `SummaryStored` | `[]OneReplyPerMessage`, `[]SummaryStoredBeforePost` | `HandlerInv` |
| `BotRuntimeProofs!OneSummary` | `[]OneSummaryPerGroup` | `GroupInv` |
| `BotRuntimeProofs!ClaimedOwned`, `PendingRuns`, `TerminalFinal` | `[]ClaimedRowIsOwned`, `[]PendingCanRun`, the action property `TerminalIsFinal` | `OwnInv` |
| `BotRuntimeProofs!Permits` | `[]PermitsConserved` | itself, with `TypeInv` |
| `BotRuntimeProofs!Completed`, `TurnReconciled` | `[]CompletedMeansAnswered`, `[]RecordedTurnReconciled` | `QueueInv` |
| `BotRuntimeProofs!Implements` | `ReplyContractHolds`: `BotRuntime` implements `ReplyContract` | `QueueInv` |
| `GatewayProofs!GatewayTypeCorrect`, `SingleHeartbeat` | `[]GatewayTypeOK`, `[]OneHeartbeat` | themselves, together |
| `GatewayProofs!CountedOnce`, `OwnSession` | `[]EventsCountedOnce`, `[]ResumesOwnSession` | `SessionInv` |
| `GatewayProofs!Paced` | `[]PacedRetries` | `PaceInv`: the delay is the one due after `failures` failures |
| `TokenProofs!TokenTypeCorrect`, `SingleFlight` | `[]TokenTypeOK`, `[]OneRequest` | `TokenInv` |
| `TokenProofs!LiveTokens`, `RefusedForGood` | the action properties `ReturnsLiveTokens`, `RefusedIsNotReused` | `TokenInv` |
| `SummaryProofs!BoundedRetries`, `NoStall` | `[]RetryDiscipline`, `[]StallBounded` | `CallIInv`: `attempt` counts the POSTs of the call, and an unfinished call has met only transient failures; `StallInv` |
| `SummaryProofs!PromptsTile`, `RefusedEarly` | `[]ChunksTile`, `[]RefusedBeforeTextCalls` | `PlanIInv` (the prompts placed, then the pending chunks, are one chain over the window, each placed prompt within the budget) and `CostIInv` (no text call before every chunk is placed, no vision call before the window is accepted) |
| `SummaryProofs!WholeSummary` | `[]SummaryIsWhole` | `JobIInv`, with `PlanIInv` and `CostIInv` |
| `RequestProofs!ReparseRepairs` | `[]ReparseComplete` | `HistoryInv` |
| `RequestProofs!PersistAnswers` | `[]PersistAnswersStored` | `SourcesInv`, with `Deliveries` |
| `RequestProofs!HistoryIsExact`, `ContextPrecedes` | `[]HistoryExact`, `[]ContextPrecedesTrigger` | `SourcesInv` |
| `RequestProofs!NoForeignDescription`, `BudgetHolds` | `[]DescriptionsAreOwn`, `[]FetchesBounded` | `PicturesInv` |
| `RequestProofs!OneDescription` | `[]DescriptionsAgree` | `AgreeInv` |
| `RequestProofs!NewestPictures` | `[]RecentPicturesFirst` | `RecentInv` |
| `TreeProofs!StoredTreesAreBounded` | `[]TreeBounded` | the typing of the rows, from `HistoryInv`; `Below`, over the levels of the parser |
| `TreeProofs!StoredTreesDecode` | `[]StoredTreeFaithful` | `Kept`, with `SourcesInv`; `Codes`, over the heights of the codec |
| `PromptProofs!CutsAreShown` | `[]CutsAreVisible` | `SourcesInv`, and `StoredTreesDecode`; `LevelTells`, over the levels of parser and renderer, and `CountsBodies`, over the nesting of bodies |

**The bot**

* **Type correctness** is not inductive alone: `Enqueue` writes the name
  computed after the message was stored, under the features of the process.
  `NamedBeforeEnqueue` says that no event is in flight unless the process
  serves, so those features cannot have changed.
  The typing of `Gateway`, `TokenCache` and of the modules proved below is shown by
  these proofs for every instance, so no run repeats it.
* **One POST.** A second POST needs a sender whose trigger was sent before.
  `PostDiscipline` excludes it: what was sent was claimed, a worker that may
  still send owns a claim nobody has used, no two workers own the same one. The
  claim is the only step that creates an owner, and it needs an unclaimed
  trigger; crashes only remove owners.
* **One reply.** The text of a message decides which handler can get past the
  decision whether to answer, whatever the row is called (`Answerer`). `HandlerInv`
  says that a worker about to send runs that handler (`Chosen`) and that every
  claim carries its name (`ClaimsNamed`). Two POSTs of one message are then POSTs
  of one trigger.
* **Stored summaries.** `Stored` counts the rows of a message's summary along the
  handler: none up to the insert, one at the send; `StoredClaimed` makes the claim
  of the trigger the reason why no second job is anywhere on that way.
* **One summary.** `GroupsHeld` relates the set of marked groups to the workers:
  whoever is between the mark and its removal holds his group alone, and every
  marked group has such a worker. The cardinality in the property follows.
* **The queue.** The repository's UPDATEs are stated over the table; the proofs
  follow a row, which is taken, returned, given up or settled (`Taken`, `Returned`,
  `GivenUp`, `Settled`). `OwnInv` says that a worker past the claim holds a running
  row, his alone, and that no worker holds anything while the process is down;
  so recovery finds only rows nobody holds, and a mark by id hits the row
  that was read. A requeue happens with an attempt left, so a pending row can run.
* **Reports.** `QueueInv` adds that a key has one row, which carries a name
  its message can have; that a completed row was answered; and that a worker
  who is about to report a failure has no recorded turn, unless the message
  can be named differently. The reconciliation before the handler is what the
  last one needs.
* **The refinement.** Each step of a worker, a receiver or the lifespan changes
  at most one of claims, posts and reports, or changes what the contract cannot
  see. `QueueInv` supplies the guards: a send is claimed and the first
  (`PostDiscipline`), a completion follows an answer, a recovery fails open reports
  only, pruning drops closed ones. Stuttering and crashes map to stuttering.

**Connection and calls**

* **Numbers.** `SessionInv` adds to the two properties that a serving loop has a
  session, that while QQ holds it the last number sent is the one kept, and that
  a session just opened has no history. Each of READY, a replayed event, RESUMED
  and a dispatch then takes `sequence + 1`, and nothing else moves it.
* **The pace.** The property is about the delay slept; `PaceInv` adds the one
  that comes next: while the loop tries or serves it is the delay due after one
  failure more than there were, and while it sleeps the one it sleeps. Waking
  then doubles it up to the maximum, which is the next one due (`DueNext`, from
  the fact that each power of two is twice the one before; the longest stays the
  longest, `LongestDue`), and only READY and RESUMED start anew (`DueFirst`). An
  attempt that fails, before or after the socket opens, moves neither.
* **Tokens.** `TokenInv` adds that who was answered holds the newest token, which
  is neither cached, used nor refused yet, and that the cached one was never
  refused and expires here no later than `Safety - Latency` before it does at
  QQ. That the answered token is the newest needs `OneRequest`.
* **Retries.** The loop leaves a call unfinished only after a transient failure,
  so the outcomes of an unfinished call are transient, and there are as many as
  `attempt` says; the bound on `attempt` bounds the POSTs. For the pauses
  `StallInv` counts those that ended: before attempt *n* they are less than *n*
  minutes and the *n*-th power of two, so one more, of at most a minute or that
  power, leaves them below the next.
* **Chunks.** `Chain(s, a, b)` says that the intervals of `s` cover `a..b` in order.
  Splitting the window gives a chain, halving the first pending chunk keeps it,
  and placing it moves it across; when nothing is pending the prompts are a
  chain over the whole window. A refusal happens at the
  query, before any picture was looked at, or while chunks are pending, and
  `CostIInv` says that until then no text call was made. `RefusedForCause`: the
  chunk that cannot be halved is one message of the window as it was described.
* **The whole summary.** `JobIInv` counts payloads against prompts: a payload is taken
  only for a prompt still without one, and a merge adds exactly one. What the end
  reports is then a matter of the operators. `DeduplicatedKeepsFirsts`: deduplicating
  keeps each item where it is said first, and with `FlattenHolds` nothing that a
  payload says is lost. `TokensAreTotal`: the property and the code add up the same
  fold. The community modules define a fold as a recursive function over the
  subsets of an index set; `FoldExists` shows that there is one, and
  `DeduplicatedSteps` takes it apart, one element at a time.

**What a request reads**

* **History.** `HistoryInv` has four parts: the tables are well formed, no two rows
  have one receipt and version (`StoredOnce`, the unique constraint), the script
  has no page while it asks for one and looks no further than what was received,
  and, while nothing failed, each receipt under the high-water mark needs no
  repair, has it, is in the page, or lies above the cursor. A page takes the least
  such receipts, so the cursor skips none; at the end no receipt is above it.
* **Answers.** `Deliveries` says of each delivery what it rests on: one that was
  refused has a row it lost to, and one that was answered names a row of its receipt
  and version. Rows are only appended (`RowsOfStay`), so neither is ever undone,
  while other deliveries, the script and an upgrade go on; that the winner's row
  is still there at `Reread` is what the refused one needs (`WinnerIs`), and that
  there is one row only comes from `StoredOnce`.
* **The queries.** `SourcesInv` adds that rows come from receipts and have a
  time and a tree of the codec, and `Deliveries`. The rest is about the
  operators. `SortedIsAscending`: sorting a finite set by a strict total order
  gives each member once, in order; the position of a member is its rank, the
  number of members up to it, and distinct members have distinct ranks.
  `LogicalKeepsOne`: of each message exactly the newest row in the scope is
  kept, since `SameMessage` is an equivalence. What the limit cuts off is the
  end (`FirstOfIsPrefix`) or the beginning (`LastOfIsSuffix`) of that order.
* **Pictures.** A description comes from the scope of the request or from its own
  batch. `PicturesInv` says that in every state in which pictures are described
  the batch in use was begun by this request, holds descriptions of its own
  downloads only, and has counted exactly those: a kept scope (the mutant
  `ExitScopeLate`) breaks the first, the budget follows from the last.
* **Agreement.** `AgreeInv` adds that the answers the batch keeps are right (`Answers`)
  and that every description told so far is among them (`Told`), so the next
  occurrence finds it before anything else is tried.
* **The newest first.** `RecentInv` says that the pictures still to be reached are
  ordered from new to old, that all fetched ones come before them, that a quote
  is finished before the history is read, and that once a picture was refused
  for the limit the limit stays reached: what is fetched afterwards was
  fetched before. That the flattened pictures of the ordered rows are ordered
  (`FlattenSpreads`) is shown of the library's recursive `FlattenSeq`.

* **Bounded trees.** A stored row has a received body, so the theorem is about what
  the parser makes of any body. `Below` says of one level that its trees are
  trees of that height and that the messages in a tree and what is left of the
  budget are together no more than the budget was (`PaidFor`): a bound on each
  branch alone would not do, since branches follow one another (the mutant
  `TakeElementCopied`). `LevelAbove` shows that a level keeps this if the one below
  does; `TakeElementStays` and `TakeQuoteStays` are its two loops, one turn each,
  and `FoldStays` carries them to the end of the list. At the last level nothing
  is asked of the one below. That bodies, trees, counts, parser, encoder and
  decoder exist as recursive functions is shown once for all (`LevelsExist`).
* **Faithful trees.** `Kept` says that a row of the current version stores what the
  codec wrote of its body, so the theorem is about what the codec writes and reads
  of any parsed tree (`CodecIsFaithful`, with `ParsedAreCoded`). `Codes` says of one
  height: what is written of a tree is new rows only, with ids of their own, each
  below the given parent by the given relation or below another new row that may
  hold it (`Grows`); and the tree is read again from every set of rows that has,
  of those ids, just these rows (`Agrees`, `Hangs`), whatever else it has. The last
  part is what makes it inductive: a subtree is read from the rows of the
  finished message, not from those written when it was encoded. `LevelCodes`
  carries it one height up, in two loops (`NodesAreFolded`, `SegmentsAreFolded`);
  `SiblingsInOrder` shows that siblings numbered from 0 are read as they were written, in whatever
  order the rows come. Taking the children of a row without their relation (the
  mutant `RelatedMixed`) breaks it, since a forward has content and nodes.
* **Visible cuts.** A stored message decodes to its parsed tree, so this too is about
  any body. `WholeOrCut` says of a rendering that the parser spent at most as many
  messages as the body embeds, that the rendering says it is cut just if it spent
  fewer, and that otherwise its words are those of the body, in order. The words of a
  rendering are those of its parts (`WordsOfBoth`) and it says it is cut where a part
  does (`CutOfBoth`), so `LevelAboveTells` carries this one level up: along the
  elements of a forward (`TakeElementTells`), of a reply (`TakeQuoteTells`), and over
  the words of a message's own content (`OwnContentSays`). The loop of a reply is
  where it could fail: when the budget is spent, the quotes that are left must be
  told of by one more mark (the mutant `TakeQuoteSilently`). The renderer sorts by
  position; `NumberedAreOrdered` shows that this moves nothing the parser numbered.

`LeastElement` stands in for induction where a concrete recursive function is
involved (`FlattenSeq`, `PowerOfTwo`, the levels of parser and codec, folds): a set
of counterexamples that is not empty has a least one. It is derived from the
library's facts on finite sets and needs no operator as a parameter.

**What the attempts at proofs changed.** Three properties had held in every run and
turned out to be false in general; TLC finds each counterexample once it is
given the instance the failing step points at, and each was restated as section
3 describes it. `RecordedTurnReconciled` was false of a message with two rows
under different names. `ContextPrecedesTrigger` was false when two deliveries of one
message carry different times. `RecentPicturesFirst` was false of a picture that
fails once and is fetched again for an older message; the `prompt` run now has a
load in which that happens. In all three the code does what it means to do.
`ContextOf` and the back-off are written without the operators the provers cannot
unfold (`SelectSeq` with a lambda, `^`), and parser and codec as functions over
levels instead of recursive operators, with the mentions that have no mark flattened
rather than selected. The same holds for the renderer and for the reference
definitions of `StoredTrees`.
`CutsAreVisible` needed two things said that no run had missed. The mark of a quote
shown in full carries the author's name and is now of another kind (`quoted`) than
that of a quote without content: in the model an author named like a limit would
have read as a cut. And the words of a body are `Words`, which the stand-in for an
element that is no object is not, and the top of a stored body is an object.

**Only model-checked.** Liveness (`EveryRowSettles`, `ServesAgain`, `WaitersServed`,
`SummaryEnds`, `ReparseEnds`) is out of this prover's reach. Every invariant and every
action property of a passing run, and the refinement, is a theorem. What the
pictures of a tree are (`MessagePictures`) is computed in the runs only; the
theorems about pictures hold for any sequence of them.

## 6. What is not modelled

* **Webhook adapter**: the signature check and the payload validation are
  stateless functions over bytes. An accepted request is `Deliver`.
* **Layered context** (`layered_context.py`): constructed by tests only; the
  running bot does not build it.
* **Configuration, logging, health, SQLite pragmas**: no protocol state.
  `prune_raw_events` and the upsert of `group_ai_configs` are not called by the
  running bot.
* **Message API**: a POST that is refused or not confirmed is a failure; which
  error class it becomes is left out.
* **Composition of the two halves**: in `BotRuntime` a generation succeeds or fails
  in one await; `SummaryService` and `AssistantRequest` are what happens inside
  it. They share no variable with the outbox, only the messages, which nothing
  changes once they are stored.
* **In the pipeline**: names, labels, indentation and the numbering of images; the
  shortening of one long line; the keys that link a reply to its message; the
  assistant's own earlier turns (`list_recent_for_group`), which go into a prompt
  beside the messages; the separate block that repeats the quoted message
  (`_quoted_platform_content`); events that are no messages; how a summary or a
  turn is encoded in its row. The checks of an image's address, size and format
  are reduced to the stage at which a download fails.
* **Earlier parser releases** are external: `older` stands for any of them.
* **Contents**: text matching, formatting and encodings are reduced to their
  results.

## 7. Plan

Done: `BotStore`, `Ingestion`, `InteractionWorker`, `BotRuntime`, `ReplyContract`,
`Gateway`, `TokenCache`; `ProviderCall`, `SummaryService`; `MessageHistory`,
`ImageEnrichment`, `AssistantRequest`; `MessageParser`, `MessageCodec`,
`MessageRenderer`, `MessagePictures`, `StoredTrees`, `PromptPipeline`; the runs and theorems above.

What is left, in order:

1. `OutboundSend`: how each answer of QQ to a POST is classified.
2. The assistant's earlier turns in the timeline of a request, and the trimming
   of the context, if the layered context is ever put to use.
3. A composition of `Gateway` with the token cache, for a token QQ gives up
   early.
