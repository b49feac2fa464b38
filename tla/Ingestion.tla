------------------------------- MODULE Ingestion -------------------------------
(***************************************************************************)
(* QQOfficialEventProcessor.process and its callers: the Gateway dispatch  *)
(* loop (one receiver, one event at a time) and the webhook endpoint (one  *)
(* receiver per concurrent request).  The three commits of process() are   *)
(* separate steps; the process may die, and the Gateway task be cancelled, *)
(* between any two.  A step that fails drops the event: the Gateway has    *)
(* already advanced its sequence number, the webhook answers without       *)
(* retrying by itself.                                                     *)
(***************************************************************************)
EXTENDS BotStore

CONSTANT Receivers

VARIABLES
    stage,     \* [Receivers -> Stages]: what the receiver awaits
    inbound,   \* [Receivers -> Payloads \cup {NoPayload}]
    deliveries \* receipts so far, for the bound

ingestVars == <<stage, inbound, deliveries>>

Stages == {"idle", "raw", "message", "enqueue"}
NoPayload == "none"

IngestTypeOK ==
    /\ stage \in [Receivers -> Stages]
    /\ inbound \in [Receivers -> Payloads \cup {NoPayload}]
    /\ \A r \in Receivers : stage[r] # "idle" => inbound[r] \in Payloads
    /\ deliveries \in 0..MaxDeliveries

\* An interaction is enqueued under a name of this process, and no event is
\* in flight unless the process serves.
NamedBeforeEnqueue ==
    \A r \in Receivers :
        /\ phase # "up" => stage[r] = "idle"
        /\ stage[r] = "enqueue" => InteractionName(MessageOf[inbound[r]]) \in Names

IngestInit ==
    /\ stage = [r \in Receivers |-> "idle"]
    /\ inbound = [r \in Receivers |-> NoPayload]
    /\ deliveries = 0

Release(r) ==
    /\ stage' = [stage EXCEPT ![r] = "idle"]
    /\ inbound' = [inbound EXCEPT ![r] = NoPayload]

\* next_event returns a dispatch, or the webhook accepts a request.
Receive(r, p) ==
    /\ phase = "up"
    /\ stage[r] = "idle"
    /\ deliveries < MaxDeliveries
    /\ deliveries' = deliveries + 1
    /\ stage' = [stage EXCEPT ![r] = "raw"]
    /\ inbound' = [inbound EXCEPT ![r] = p]
    /\ UNCHANGED storeVars

\* raw_ingestion_service.ingest: a repeated payload finds its row again.
IngestRaw(r) ==
    /\ stage[r] = "raw"
    /\ rawEvents' = rawEvents \cup {inbound[r]}
    /\ stage' = [stage EXCEPT ![r] = "message"]
    /\ UNCHANGED <<inbound, deliveries, messages, outbox, claims,
                   interactions, summaries>>

RawFails(r) ==
    /\ "raw" \in Faults
    /\ stage[r] = "raw"
    /\ Release(r)
    /\ UNCHANGED <<deliveries, storeVars>>

\* Mutant: a message that names no interaction is enqueued.
IngestUnnamed(r) ==
    /\ stage[r] = "message"
    /\ messages' = messages \cup {inbound[r]}
    /\ stage' = [stage EXCEPT ![r] = "enqueue"]
    /\ UNCHANGED <<inbound, deliveries, rawEvents, outbox, claims,
                   interactions, summaries>>

\* normalized_ingestion_service.ingest, then the routing that needs no await.
IngestMessage(r) ==
    LET m == MessageOf[inbound[r]]
    IN /\ stage[r] = "message"
       /\ messages' = messages \cup {inbound[r]}
       /\ IF InteractionName(m) # NoName /\ Event[m].addressed
            THEN /\ stage' = [stage EXCEPT ![r] = "enqueue"]
                 /\ UNCHANGED inbound
            ELSE Release(r)
       /\ UNCHANGED <<deliveries, rawEvents, outbox, claims, interactions,
                      summaries>>

\* The parser or the insert raised; only the raw receipt is kept.
MessageFails(r) ==
    /\ "message" \in Faults
    /\ stage[r] = "message"
    /\ Release(r)
    /\ UNCHANGED <<deliveries, storeVars>>

Enqueue(r) ==
    LET m == MessageOf[inbound[r]]
    IN /\ stage[r] = "enqueue"
       /\ CreatePending(<<m, InteractionName(m)>>, inbound[r])
       /\ Release(r)
       /\ UNCHANGED <<deliveries, rawEvents, messages, claims, interactions,
                      summaries>>

\* create_pending raised: the loop reconnects, the webhook answers 500.
EnqueueFails(r) ==
    /\ "enqueue" \in Faults
    /\ stage[r] = "enqueue"
    /\ Release(r)
    /\ UNCHANGED <<deliveries, storeVars>>

IngestStep(r) ==
    \/ IngestRaw(r) \/ RawFails(r)
    \/ IngestMessage(r) \/ MessageFails(r)
    \/ Enqueue(r) \/ EnqueueFails(r)
===============================================================================
