-------------------------------- MODULE Gateway --------------------------------
(***************************************************************************)
(* QQOfficialGatewayClient and the reconnect loop of main                  *)
(* (handle_dispatch_loop): one WebSocket connection to QQ, a heartbeat     *)
(* task beside it, and a session that is resumed in the same process.      *)
(*                                                                         *)
(*   connect    token and /gateway/bot                                     *)
(*   opening    the WebSocket handshake                                    *)
(*   hello      waiting for Hello, then sending Identify or Resume         *)
(*   ready      _wait_for_ready                                            *)
(*   aborting   close() in the except branch of connect()                  *)
(*   serve      next_event                                                 *)
(*   process    event_processor.process                                    *)
(*   closing    close() in the finally branch of the loop                  *)
(*   backoff    sleeping before the next attempt                           *)
(*   ended      the loop's task has ended                                  *)
(*   closed     main has closed the client at shutdown                     *)
(*                                                                         *)
(* QQ numbers the dispatches of a session 1, 2, ...; READY is number 1 and *)
(* RESUMED takes the number after the replay it ends.                      *)
(***************************************************************************)
EXTENDS PowersOfTwo

CONSTANTS
    InitialDelay, MaxDelay, \* QQ_GATEWAY_RECONNECT_*_DELAY_SECONDS
    ResetAfter,             \* session_start_limit.reset_after when none remain
    MaxEvents,              \* bound: the last number QQ gives to an event
    MaxFaults               \* bound: disturbances from outside

ASSUME GatewayAssumption ==
    /\ InitialDelay \in Nat \ {0}
    /\ MaxDelay \in Nat \ {0} \* config.py does not order the two delays
    /\ ResetAfter \in Nat
    /\ MaxEvents \in Nat \ {0}
    /\ MaxFaults \in Nat

VARIABLES
    loop,      \* where handle_dispatch_loop is suspended
    stopping,  \* gateway_stop is set
    socket,    \* _websocket and what became of the connection
    heartbeat, \* _heartbeat_task
    orphans,   \* heartbeat tasks that run and nobody can cancel
    session,   \* _ready.session_id, 0 for None
    sequence,  \* _latest_sequence, 0 for None
    info,      \* gateway_info.session_start_limit
    told,      \* session_start_limit as /gateway/bot told it in this attempt
    retry,     \* retry_delay
    wait,      \* the last delay slept
    failures,  \* history: back-offs since a connection last served
    qq,        \* external: the session QQ holds, its dispatches, what it sent
    opened,    \* external: sessions QQ has opened so far
    handed,    \* history: events of the session given to process()
    repeated,  \* history: those it was given twice
    skipped,   \* history: events of the session consumed by _wait_for_ready
    control,   \* history: the numbers READY and RESUMED took
    faults     \* disturbances so far, for the bound

clientVars == <<heartbeat, orphans, session, sequence, info>>
paceVars == <<told, retry, wait, failures>>
historyVars == <<handed, repeated, skipped, control>>
vars == <<loop, stopping, socket, clientVars, paceVars, qq, opened,
          historyVars, faults>>

Trying == {"connect", "opening", "hello", "ready", "aborting"}
Steps == Trying \cup {"serve", "process", "closing", "backoff", "ended", "closed"}
NoSession == [id |-> 0, last |-> 0, sent |-> 0]

Init ==
    /\ loop = "connect"
    /\ stopping = FALSE
    /\ socket = "none"
    /\ heartbeat = "none"
    /\ orphans = 0
    /\ session = 0
    /\ sequence = 0
    /\ info = "unknown"
    /\ told = "unknown"
    /\ retry = InitialDelay
    /\ wait = 0
    /\ failures = 0
    /\ qq = NoSession
    /\ opened = 0
    /\ handed = {}
    /\ repeated = {}
    /\ skipped = {}
    /\ control = {}
    /\ faults = 0

Disturb == faults < MaxFaults /\ faults' = faults + 1

\* Mutant: the session survives its invalidation.
ClearNothing == UNCHANGED <<session, sequence>>

\* Mutant: the number of the old session is kept.
ClearSessionId == session' = 0 /\ UNCHANGED sequence

ClearSession == session' = 0 /\ sequence' = 0

-------------------------------------------------------------------------------
(***************************************************************************)
(* connect().                                                              *)
(***************************************************************************)
\* The token, /gateway/bot or the WebSocket handshake failed.
ConnectFails ==
    /\ loop \in {"connect", "opening"}
    /\ Disturb
    /\ loop' = "closing"
    /\ UNCHANGED <<stopping, socket, clientVars, paceVars, qq, opened, historyVars>>

\* connect() goes on whatever it is told.
AskGateway ==
    /\ loop = "connect"
    /\ told' \in {"available", "exhausted"}
    /\ loop' = "opening"
    /\ UNCHANGED <<stopping, socket, clientVars, retry, wait, failures, qq, opened,
                   historyVars, faults>>

\* Mutant: an open connection passes for one that serves.
ConnectResets ==
    /\ loop = "opening"
    /\ socket' = "open"
    /\ info' = told
    /\ loop' = "hello"
    /\ retry' = InitialDelay
    /\ UNCHANGED <<stopping, heartbeat, orphans, session, sequence, told, wait,
                   failures, qq, opened, historyVars, faults>>

\* Only now is gateway_info kept: a handshake that fails forgets it.
Connect ==
    /\ loop = "opening"
    /\ socket' = "open"
    /\ info' = told
    /\ loop' = "hello"
    /\ UNCHANGED <<stopping, heartbeat, orphans, session, sequence, paceVars,
                   qq, opened, historyVars, faults>>

\* Hello arrived: Resume a known session, else Identify, then start the
\* heartbeat.  QQ opens a session for an Identify and resumes one it holds.
Authenticate ==
    /\ loop = "hello"
    /\ socket = "open"
    /\ loop' = "ready"
    /\ orphans' = orphans + (IF heartbeat = "alive" THEN 1 ELSE 0)
    /\ heartbeat' = "alive"
    /\ IF session # 0 /\ sequence # 0
         THEN /\ qq' = IF qq.id = session THEN [qq EXCEPT !.sent = sequence] ELSE NoSession
              /\ UNCHANGED <<opened, historyVars>>
         ELSE /\ opened' = opened + 1
              /\ qq' = [id |-> opened + 1, last |-> 1, sent |-> 0]
              /\ handed' = {}
              /\ repeated' = {}
              /\ skipped' = {}
              /\ control' = {}
    /\ UNCHANGED <<stopping, socket, session, sequence, info, paceVars, faults>>

\* Mutant: the number is not kept.
HandleDispatchLate(n) ==
    /\ qq' = [qq EXCEPT !.sent = n]
    /\ UNCHANGED sequence

\* handle_payload of a dispatch: the number is taken before anyone sees it.
HandleDispatch(n) ==
    /\ qq' = [qq EXCEPT !.sent = n]
    /\ sequence' = n

\* READY, as the first dispatch of the new session.
Ready ==
    /\ loop = "ready"
    /\ socket = "open"
    /\ qq.id # 0 /\ qq.sent = 0
    /\ HandleDispatch(1)
    /\ session' = qq.id
    /\ control' = control \cup {1}
    /\ loop' = "serve"
    /\ retry' = InitialDelay
    /\ failures' = 0
    /\ UNCHANGED <<stopping, socket, heartbeat, orphans, info, told, wait, opened,
                   handed, repeated, skipped, faults>>

\* A replayed event: _wait_for_ready consumes it, nobody processes it.
Replay ==
    /\ loop = "ready"
    /\ socket = "open"
    /\ qq.id # 0 /\ 0 < qq.sent /\ qq.sent < qq.last
    /\ HandleDispatch(qq.sent + 1)
    /\ skipped' = skipped \cup {qq.sent + 1}
    /\ UNCHANGED <<loop, stopping, socket, heartbeat, orphans, session, info,
                   paceVars, opened, handed, repeated, control,
                   faults>>

Resumed ==
    /\ loop = "ready"
    /\ socket = "open"
    /\ qq.id # 0 /\ 0 < qq.sent /\ qq.sent = qq.last
    /\ qq' = [qq EXCEPT !.last = @ + 1, !.sent = @ + 1]
    /\ sequence' = qq.last + 1
    /\ control' = control \cup {qq.last + 1}
    /\ loop' = "serve"
    /\ retry' = InitialDelay
    /\ failures' = 0
    /\ UNCHANGED <<stopping, socket, heartbeat, orphans, session, info, told, wait,
                   opened, handed, repeated, skipped, faults>>

\* Opcode 9: QQ does not hold the session any more.
ResumeRejected ==
    /\ loop = "ready"
    /\ socket = "open"
    /\ qq.id = 0
    /\ ClearSession
    /\ loop' = "aborting"
    /\ UNCHANGED <<stopping, socket, heartbeat, orphans, info, paceVars, qq,
                   opened, historyVars, faults>>

\* Timeout, malformed payload, opcode 7, opcode 9 with d = true.
HandshakeFails ==
    /\ loop \in {"hello", "ready"}
    /\ Disturb
    /\ loop' = "aborting"
    /\ UNCHANGED <<stopping, socket, clientVars, paceVars, qq, opened, historyVars>>

-------------------------------------------------------------------------------
(***************************************************************************)
(* next_event and process.                                                 *)
(***************************************************************************)
NextEvent ==
    /\ loop = "serve"
    /\ socket = "open"
    /\ qq.sent < qq.last
    /\ HandleDispatch(qq.sent + 1)
    /\ handed' = handed \cup {qq.sent + 1}
    /\ repeated' = repeated \cup (handed \cap {qq.sent + 1})
    /\ loop' = "process"
    /\ UNCHANGED <<stopping, socket, heartbeat, orphans, session, info, paceVars,
                   opened, skipped, control, faults>>

Processed ==
    /\ loop = "process"
    /\ loop' = "serve"
    /\ UNCHANGED <<stopping, socket, clientVars, paceVars, qq, opened,
                   historyVars, faults>>

\* create_pending raised: the loop reconnects.
ProcessRaises ==
    /\ loop = "process"
    /\ Disturb
    /\ loop' = "closing"
    /\ UNCHANGED <<stopping, socket, clientVars, paceVars, qq, opened, historyVars>>

\* Opcode 7, opcode 9 with d = true, or a malformed payload.
ServeFails ==
    /\ loop = "serve"
    /\ socket = "open"
    /\ Disturb
    /\ loop' = "closing"
    /\ UNCHANGED <<stopping, socket, clientVars, paceVars, qq, opened, historyVars>>

\* Opcode 9 with d # true, while the connection is open.
SessionInvalidated ==
    /\ loop = "serve"
    /\ socket = "open"
    /\ Disturb
    /\ ClearSession
    /\ qq' = NoSession
    /\ loop' = "closing"
    /\ UNCHANGED <<stopping, socket, heartbeat, orphans, info, paceVars,
                   opened, historyVars>>

\* recv raises ConnectionClosed; the codes 4006, 4007 and 4009 end the session.
SeesClose ==
    /\ loop \in {"hello", "ready", "serve"}
    /\ socket \in {"lost", "lostInvalid"}
    /\ IF socket = "lostInvalid" THEN ClearSession ELSE UNCHANGED <<session, sequence>>
    /\ loop' = IF loop = "serve" THEN "closing" ELSE "aborting"
    /\ UNCHANGED <<stopping, socket, heartbeat, orphans, info, paceVars, qq,
                   opened, historyVars, faults>>

-------------------------------------------------------------------------------
(***************************************************************************)
(* close().  The heartbeat task is cancelled and awaited before the socket *)
(* is closed; a task that has failed already raises its error out of the   *)
(* await, which suppresses CancelledError only.                            *)
(***************************************************************************)
\* Mutant: the heartbeat is left to die with its socket.
CloseSocketOnly ==
    /\ socket' = "none"
    /\ UNCHANGED heartbeat

Close ==
    /\ heartbeat' = "none"
    /\ socket' = IF heartbeat = "failed" THEN socket ELSE "none"

\* connect() re-raises either way.
Abort ==
    /\ loop = "aborting"
    /\ Close
    /\ loop' = "closing"
    /\ UNCHANGED <<stopping, orphans, session, sequence, info, paceVars, qq,
                   opened, historyVars, faults>>

\* The n-th delay in a row: the initial one, then doubled up to the maximum.
Due(n) ==
    LET doubled == InitialDelay * PowerOfTwo[n - 1]
    IN  IF n = 1 \/ doubled <= MaxDelay THEN doubled ELSE MaxDelay

\* The back-offs in a row are counted up to the first of the longest delay.
FailedOnceMore ==
    failures' = IF failures # 0 /\ Due(failures) = MaxDelay THEN failures
                ELSE failures + 1

RetryDelay(configured) ==
    IF info = "exhausted" /\ ResetAfter > configured THEN ResetAfter ELSE configured

\* The finally branch: an error out of close() ends the task.
CloseInLoop ==
    /\ loop = "closing"
    /\ Close
    /\ IF stopping \/ heartbeat = "failed"
         THEN loop' = "ended" /\ UNCHANGED <<wait, failures>>
         ELSE /\ loop' = "backoff"
              /\ wait' = RetryDelay(retry)
              /\ FailedOnceMore
    /\ UNCHANGED <<stopping, orphans, session, sequence, info, told, retry, qq,
                   opened, historyVars, faults>>

Wake ==
    /\ loop = "backoff"
    /\ loop' = "connect"
    /\ retry' = IF 2 * retry < MaxDelay THEN 2 * retry ELSE MaxDelay
    /\ told' = "unknown"
    /\ UNCHANGED <<stopping, socket, clientVars, wait, failures, qq, opened,
                   historyVars, faults>>

\* Shutdown: gateway_stop, then the task is cancelled wherever it is.
Stop ==
    /\ ~stopping
    /\ stopping' = TRUE
    /\ loop' = IF loop \in {"backoff", "ended"} THEN "ended" ELSE "closing"
    /\ UNCHANGED <<socket, clientVars, paceVars, qq, opened, historyVars, faults>>

\* main closes the client once more after the task.
CloseAtShutdown ==
    /\ loop = "ended"
    /\ stopping
    /\ Close
    /\ loop' = "closed"
    /\ UNCHANGED <<stopping, orphans, session, sequence, info, paceVars, qq,
                   opened, historyVars, faults>>

-------------------------------------------------------------------------------
(***************************************************************************)
(* The heartbeat task and QQ.                                              *)
(***************************************************************************)
\* A heartbeat that cannot be sent, because the connection is gone or the send
\* timed out, ends the task; nobody looks at it.
HeartbeatFails ==
    /\ heartbeat = "alive"
    /\ IF socket = "open" THEN Disturb ELSE UNCHANGED faults
    /\ heartbeat' = "failed"
    /\ UNCHANGED <<loop, stopping, socket, orphans, session, sequence, info,
                   paceVars, qq, opened, historyVars>>

\* A member of the group says something.
NewDispatch ==
    /\ qq.id # 0 /\ 0 < qq.last /\ qq.last < MaxEvents
    /\ qq' = [qq EXCEPT !.last = @ + 1]
    /\ UNCHANGED <<loop, stopping, socket, clientVars, paceVars, opened,
                   historyVars, faults>>

\* The connection breaks; QQ may have given up the session with it.
PeerCloses ==
    /\ socket = "open"
    /\ Disturb
    /\ \/ socket' = "lost" /\ qq' \in {qq, NoSession}
       \/ socket' = "lostInvalid" /\ qq' = NoSession
    /\ UNCHANGED <<loop, stopping, clientVars, paceVars, opened, historyVars>>

Loop ==
    \/ ConnectFails \/ AskGateway \/ Connect \/ Authenticate
    \/ Ready \/ Replay \/ Resumed \/ ResumeRejected \/ HandshakeFails
    \/ NextEvent \/ Processed \/ ProcessRaises \/ ServeFails
    \/ SessionInvalidated \/ SeesClose
    \/ Abort \/ CloseInLoop \/ Wake \/ CloseAtShutdown

Next == Loop \/ Stop \/ HeartbeatFails \/ NewDispatch \/ PeerCloses

Spec == Init /\ [][Next]_vars

\* The event loop runs the task whenever it can, and QQ answers a connection
\* it keeps; disturbances are bounded by MaxFaults and never obliged to happen.
FairSpec == Spec /\ WF_vars(Loop)

-------------------------------------------------------------------------------
(***************************************************************************)
(* Properties.                                                             *)
(***************************************************************************)
\* The delay starts at the initial one and is doubled up to the maximum.
RetryOK == retry \in Nat \ {0} /\ (retry = InitialDelay \/ retry <= MaxDelay)

LoopTypeOK ==
    /\ loop \in Steps
    /\ socket \in {"none", "open", "lost", "lostInvalid"}
    /\ heartbeat \in {"none", "alive", "failed"}
    /\ orphans \in Nat
    /\ info \in {"unknown", "available", "exhausted"}
    /\ told \in {"unknown", "available", "exhausted"}
    /\ wait \in Nat /\ failures \in Nat
    /\ faults \in 0..MaxFaults

SessionTypeOK ==
    /\ session \in Nat
    /\ sequence \in Nat
    /\ qq \in [id : Nat, last : Nat, sent : Nat]
    /\ opened \in Nat
    /\ handed \subseteq Nat /\ repeated \subseteq Nat
    /\ skipped \subseteq Nat /\ control \subseteq Nat

GatewayTypeOK ==
    /\ stopping \in BOOLEAN
    /\ RetryOK
    /\ LoopTypeOK
    /\ SessionTypeOK

\* "The single gateway heartbeat task ... is always cancelled": no reconnect
\* leaves one behind, and none beats while the loop sleeps or after shutdown.
OneHeartbeat ==
    /\ orphans = 0
    /\ loop \in {"connect", "opening", "hello", "backoff", "ended", "closed"} =>
         heartbeat = "none"

\* The numbers up to the one a Resume names were each taken exactly once: by
\* process(), by the handshake, or by READY or RESUMED; later ones not at all.
\* So no disconnection makes QQ repeat an event that was handed over.
EventsCountedOnce ==
    session # 0 =>
        /\ handed \cup skipped \cup control = 1..sequence
        /\ repeated = {}
        /\ handed \cap skipped = {}
        /\ (handed \cup skipped) \cap control = {}

\* The loop resumes the session whose numbers it holds, or QQ has lost it.
ResumesOwnSession ==
    /\ session # 0 <=> sequence # 0
    /\ qq.id # 0 /\ session # 0 => qq.id = session /\ sequence <= qq.last

(***************************************************************************)
(* Connections that do not come to serve, whichever step of connect() they *)
(* fail at, are tried at doubling distances up to the maximum, and the     *)
(* first after one that served at the initial distance.  A session start   *)
(* limit the client has kept, and nothing else, makes a wait longer.       *)
(***************************************************************************)
PacedRetries ==
    loop = "backoff" =>
      wait = IF info = "exhausted" /\ ResetAfter > Due(failures)
             THEN ResetAfter ELSE Due(failures)

\* Unless the bot stops, a broken connection is followed by another one that
\* serves; a failed heartbeat ends the loop, which LoopEndsOnlyOnStop is about.
ServesAgain ==
    loop \in Trying \cup {"closing", "backoff"} ~> loop = "serve" \/ stopping \/ heartbeat = "failed"

\* "reconnect loop" (README): the task ends at shutdown only.
LoopEndsOnlyOnStop == loop = "ended" => stopping

\* "raw-first" (README): an event the client has taken from QQ is handed to
\* process(), which stores it.
EventsReachStorage == skipped = {}
===============================================================================
