----------------------------- MODULE GatewayProofs -----------------------------
(***************************************************************************)
(* Proofs about the Gateway client and its reconnect loop, for any number  *)
(* of events, disturbances and delays.                                     *)
(***************************************************************************)
EXTENDS Gateway, SequenceLemmas

\* The delay is set to the initial one or doubled up to the maximum.
LEMMA RetryStep == RetryOK /\ [Next]_vars => RetryOK'
  <1> SUFFICES ASSUME RetryOK, [Next]_vars PROVE RetryOK'
    OBVIOUS
  <1>1. CASE Ready \/ Resumed
    <2>1. retry' = InitialDelay
      BY <1>1 DEF Ready, Resumed
    <2> QED
      BY <2>1, GatewayAssumption DEF RetryOK
  <1>2. CASE Wake
    <2>1. retry' = IF 2 * retry < MaxDelay THEN 2 * retry ELSE MaxDelay
      BY <1>2 DEF Wake
    <2> QED
      BY <2>1, GatewayAssumption DEF RetryOK
  <1>3. CASE ~(Ready \/ Resumed) /\ ~Wake
    <2>1. retry' = retry
      BY <1>3 DEF Next, Loop, ConnectFails, AskGateway, Connect, Authenticate, Replay,
                  ResumeRejected, HandshakeFails, NextEvent, Processed, ProcessRaises,
                  ServeFails, SessionInvalidated, SeesClose, Abort, CloseInLoop,
                  CloseAtShutdown, Stop, HeartbeatFails, NewDispatch, PeerCloses, vars,
                  paceVars
    <2> QED
      BY <2>1 DEF RetryOK
  <1> QED
    BY <1>1, <1>2, <1>3

\* The loop, its connection and its heartbeat keep their types.
LEMMA LoopTypeStep == RetryOK /\ LoopTypeOK /\ [Next]_vars => LoopTypeOK'
  <1> SUFFICES ASSUME RetryOK, LoopTypeOK, [Next]_vars PROVE LoopTypeOK'
    OBVIOUS
  <1>1. MaxFaults \in Nat /\ ResetAfter \in Nat
    BY GatewayAssumption
  <1>2. RetryDelay(retry) \in Nat
    BY <1>1 DEF RetryDelay, RetryOK
  <1> USE <1>1 DEF LoopTypeOK, clientVars, paceVars, Steps, Trying, Disturb, Close
  <1>3. CASE ConnectFails \/ AskGateway \/ Connect \/ Authenticate
    BY <1>3 DEF ConnectFails, AskGateway, Connect, Authenticate
  <1>4. CASE Ready \/ Replay \/ Resumed \/ ResumeRejected \/ HandshakeFails
    BY <1>4 DEF Ready, Replay, Resumed, ResumeRejected, HandshakeFails
  <1>5. CASE NextEvent \/ Processed \/ ProcessRaises \/ ServeFails
               \/ SessionInvalidated \/ SeesClose
    BY <1>5 DEF NextEvent, Processed, ProcessRaises, ServeFails, SessionInvalidated,
                SeesClose
  <1>6. CASE Abort \/ Wake \/ Stop \/ CloseAtShutdown
    BY <1>6 DEF Abort, Wake, Stop, CloseAtShutdown
  <1>7. CASE CloseInLoop
    BY <1>2, <1>7 DEF CloseInLoop, FailedOnceMore
  <1>8. CASE HeartbeatFails \/ NewDispatch \/ PeerCloses
    BY <1>8 DEF HeartbeatFails, NewDispatch, PeerCloses
  <1>9. CASE UNCHANGED vars
    BY <1>9 DEF vars
  <1> QED
    BY <1>3, <1>4, <1>5, <1>6, <1>7, <1>8, <1>9 DEF Next, Loop

\* The session, QQ's side of it and the histories keep their types.
LEMMA SessionTypeStep == SessionTypeOK /\ [Next]_vars => SessionTypeOK'
  <1> SUFFICES ASSUME SessionTypeOK, [Next]_vars PROVE SessionTypeOK'
    OBVIOUS
  <1> USE DEF SessionTypeOK, clientVars, paceVars, historyVars, NoSession, ClearSession,
              HandleDispatch
  <1>1. CASE ConnectFails \/ AskGateway \/ Connect \/ HandshakeFails
    BY <1>1 DEF ConnectFails, AskGateway, Connect, HandshakeFails
  <1>2. CASE Authenticate
    BY <1>2 DEF Authenticate
  <1>3. CASE Ready
    BY <1>3 DEF Ready
  <1>4. CASE Replay
    BY <1>4 DEF Replay
  <1>5. CASE Resumed
    <2>1. qq.last + 1 \in Nat /\ qq.sent + 1 \in Nat
      OBVIOUS
    <2>2. qq' = [qq EXCEPT !.last = qq.last + 1, !.sent = qq.sent + 1]
      BY <1>5 DEF Resumed
    <2>3. qq' \in [id : Nat, last : Nat, sent : Nat] /\ sequence' \in Nat
      BY <1>5, <2>1, <2>2 DEF Resumed
    <2>4. control' \subseteq Nat
      BY <1>5 DEF Resumed
    <2> QED
      BY <1>5, <2>3, <2>4 DEF Resumed
  <1>6. CASE NextEvent
    BY <1>6 DEF NextEvent
  <1>7. CASE Processed \/ ProcessRaises \/ ServeFails
    BY <1>7 DEF Processed, ProcessRaises, ServeFails
  <1>8. CASE ResumeRejected \/ SessionInvalidated \/ SeesClose
    <2>1. session' \in {session, 0} /\ sequence' \in {sequence, 0}
      BY <1>8 DEF ResumeRejected, SessionInvalidated, SeesClose
    <2>2. qq' \in {qq, NoSession} /\ UNCHANGED <<opened, historyVars>>
      BY <1>8 DEF ResumeRejected, SessionInvalidated, SeesClose
    <2> QED
      BY <2>1, <2>2
  <1>9. CASE Abort \/ CloseInLoop \/ Wake \/ CloseAtShutdown \/ Stop
    BY <1>9 DEF Abort, CloseInLoop, Wake, CloseAtShutdown, Stop
  <1>10. CASE HeartbeatFails \/ NewDispatch \/ PeerCloses
    BY <1>10 DEF HeartbeatFails, NewDispatch, PeerCloses
  <1>11. CASE UNCHANGED vars
    BY <1>11 DEF vars
  <1> QED
    BY <1>1, <1>2, <1>3, <1>4, <1>5, <1>6, <1>7, <1>8, <1>9, <1>10, <1>11
       DEF Next, Loop

\* gateway_stop stays a flag.
LEMMA StoppingStep == stopping \in BOOLEAN /\ [Next]_vars => stopping' \in BOOLEAN
  <1>1. stopping \in BOOLEAN /\ [Next]_vars => stopping' = stopping \/ stopping' = TRUE
    BY DEF Next, Loop, ConnectFails, AskGateway, Connect, Authenticate, Ready, Replay, Resumed,
           ResumeRejected, HandshakeFails, NextEvent, Processed, ProcessRaises,
           ServeFails, SessionInvalidated, SeesClose, Abort, CloseInLoop, Wake,
           CloseAtShutdown, Stop, HeartbeatFails, NewDispatch, PeerCloses, vars
  <1> QED
    BY <1>1

\* Every action leaves the variables in their types.
LEMMA GatewayTypeStep == GatewayTypeOK /\ [Next]_vars => GatewayTypeOK'
  BY RetryStep, LoopTypeStep, SessionTypeStep, StoppingStep DEF GatewayTypeOK

\* Each close() takes the heartbeat task of its connect() with it.
LEMMA HeartbeatStep == LoopTypeOK /\ OneHeartbeat /\ [Next]_vars => OneHeartbeat'
  <1> SUFFICES ASSUME LoopTypeOK, OneHeartbeat, [Next]_vars PROVE OneHeartbeat'
    OBVIOUS
  <1> USE DEF OneHeartbeat, LoopTypeOK, clientVars, paceVars, Steps, Trying
  <1>1. CASE ConnectFails \/ AskGateway \/ Connect \/ Authenticate
    BY <1>1 DEF ConnectFails, AskGateway, Connect, Authenticate
  <1>2. CASE Ready \/ Replay \/ Resumed \/ ResumeRejected \/ HandshakeFails
    BY <1>2 DEF Ready, Replay, Resumed, ResumeRejected, HandshakeFails
  <1>3. CASE NextEvent \/ Processed \/ ProcessRaises \/ ServeFails
               \/ SessionInvalidated \/ SeesClose
    BY <1>3 DEF NextEvent, Processed, ProcessRaises, ServeFails, SessionInvalidated,
                SeesClose
  <1>4. CASE Abort \/ CloseInLoop \/ Wake \/ CloseAtShutdown
    BY <1>4 DEF Abort, CloseInLoop, Wake, CloseAtShutdown, Close
  <1>5. CASE Stop \/ HeartbeatFails \/ NewDispatch \/ PeerCloses
    BY <1>5 DEF Stop, HeartbeatFails, NewDispatch, PeerCloses
  <1>6. CASE UNCHANGED vars
    BY <1>6 DEF vars
  <1> QED
    BY <1>1, <1>2, <1>3, <1>4, <1>5, <1>6 DEF Next, Loop

\* Before the first connection every variable is in its type, and nothing beats.
LEMMA InitGateway == Init => GatewayTypeOK /\ OneHeartbeat
  <1> SUFFICES ASSUME Init PROVE GatewayTypeOK /\ OneHeartbeat
    OBVIOUS
  <1>1. RetryOK
    BY GatewayAssumption DEF Init, RetryOK
  <1>2. stopping \in BOOLEAN
    BY DEF Init
  <1>3. MaxFaults \in Nat
    BY GatewayAssumption
  <1>4. LoopTypeOK /\ OneHeartbeat
    BY <1>3 DEF Init, LoopTypeOK, OneHeartbeat, Steps, Trying
  <1>5. SessionTypeOK
    BY DEF Init, SessionTypeOK, NoSession
  <1> QED
    BY <1>1, <1>2, <1>4, <1>5 DEF GatewayTypeOK

\* What the loop and QQ know of one session: while QQ holds the session the
\* loop is serving, the last number it sent is the one the client keeps, and a
\* session that was just opened has no history.
SessionInv ==
    /\ ResumesOwnSession
    /\ EventsCountedOnce
    /\ qq.sent <= qq.last
    /\ qq.id = 0 => qq.last = 0
    /\ loop \in {"serve", "process"} =>
         session # 0 /\ (qq.id # 0 => qq.sent = sequence)
    /\ loop = "ready" /\ qq.id # 0 =>
         IF qq.sent = 0
           THEN /\ session = 0 /\ 1 <= qq.last
                /\ handed = {} /\ repeated = {} /\ skipped = {} /\ control = {}
           ELSE session # 0 /\ qq.sent = sequence

\* Taking the next number n, as one of the three kinds, counts it once more.
LEMMA NextNumber ==
    ASSUME EventsCountedOnce, SessionTypeOK, session # 0, session' # 0,
           NEW n \in Nat, n = sequence + 1, sequence' = n, repeated' = repeated,
           \/ handed' = handed \cup {n} /\ skipped' = skipped /\ control' = control
           \/ handed' = handed /\ skipped' = skipped \cup {n} /\ control' = control
           \/ handed' = handed /\ skipped' = skipped /\ control' = control \cup {n}
    PROVE  EventsCountedOnce'
  <1>1. /\ handed \cup skipped \cup control = 1..sequence
        /\ repeated = {} /\ handed \cap skipped = {}
        /\ (handed \cup skipped) \cap control = {}
    BY DEF EventsCountedOnce
  <1>2. n \notin 1..sequence /\ 1..sequence' = (1..sequence) \cup {n}
    BY DEF SessionTypeOK
  <1>3. n \notin handed /\ n \notin skipped /\ n \notin control
    BY <1>1, <1>2
  <1>4. handed' \cup skipped' \cup control' = 1..sequence'
    BY <1>1, <1>2
  <1>5. handed' \cap skipped' = {} /\ (handed' \cup skipped') \cap control' = {}
    BY <1>1, <1>3
  <1> QED
    BY <1>1, <1>4, <1>5 DEF EventsCountedOnce

\* A step of neither the client's session nor QQ's keeps the invariant, if the
\* loop does not begin to serve or to wait for READY.
LEMMA SessionFrame ==
    ASSUME SessionInv, UNCHANGED <<session, sequence, qq, historyVars>>,
           \/ loop' = loop
           \/ loop = "process" /\ loop' = "serve"
           \/ loop' \notin {"ready", "serve", "process"}
    PROVE  SessionInv'
  BY DEF SessionInv, ResumesOwnSession, EventsCountedOnce, historyVars

\* The session is given up, or QQ's side of it, or both; the loop is not
\* brought to serve by it.
LEMMA SessionLost ==
    ASSUME SessionInv, qq' \in {qq, NoSession}, UNCHANGED historyVars,
           \/ UNCHANGED <<session, sequence, loop>>
           \/ /\ ClearSession \/ UNCHANGED <<session, sequence>>
              /\ loop' \notin {"ready", "serve", "process"}
    PROVE  SessionInv'
  <1>1. qq' = qq \/ (qq'.id = 0 /\ qq'.last = 0 /\ qq'.sent = 0)
    BY DEF NoSession
  <1> QED
    BY <1>1 DEF SessionInv, ResumesOwnSession, EventsCountedOnce, historyVars,
                ClearSession

\* Identify opens a session without history; Resume continues the one held.
LEMMA SessionAuthenticate ==
    ASSUME SessionInv, SessionTypeOK, Authenticate
    PROVE  SessionInv'
  <1>1. CASE session # 0 /\ sequence # 0
    <2>1. UNCHANGED <<session, sequence, historyVars>> /\ loop' = "ready"
      BY <1>1 DEF Authenticate
    <2>2. CASE qq.id = session
      <3>1. qq'.id = qq.id /\ qq'.last = qq.last /\ qq'.sent = sequence
        BY <1>1, <2>2 DEF Authenticate, SessionTypeOK
      <3> QED
        BY <1>1, <2>1, <2>2, <3>1
           DEF SessionInv, ResumesOwnSession, EventsCountedOnce, historyVars
    <2>3. CASE qq.id # session
      <3>1. qq'.id = 0 /\ qq'.last = 0 /\ qq'.sent = 0
        BY <1>1, <2>3 DEF Authenticate, NoSession
      <3> QED
        BY <1>1, <2>1, <3>1
           DEF SessionInv, ResumesOwnSession, EventsCountedOnce, historyVars
    <2> QED
      BY <2>2, <2>3
  <1>2. CASE ~(session # 0 /\ sequence # 0)
    <2>1. session = 0 /\ sequence = 0
      BY <1>2 DEF SessionInv, ResumesOwnSession
    <2>2. qq'.id = opened + 1 /\ qq'.last = 1 /\ qq'.sent = 0
      BY <1>2 DEF Authenticate
    <2>3. /\ session' = 0 /\ sequence' = 0 /\ loop' = "ready"
          /\ handed' = {} /\ repeated' = {} /\ skipped' = {} /\ control' = {}
      BY <1>2, <2>1 DEF Authenticate
    <2> QED
      BY <2>2, <2>3 DEF SessionInv, SessionTypeOK, ResumesOwnSession, EventsCountedOnce
  <1> QED
    BY <1>1, <1>2

\* READY begins the history of the new session.
LEMMA SessionReady ==
    ASSUME SessionInv, SessionTypeOK, Ready
    PROVE  SessionInv'
  <1>1. /\ qq'.id = qq.id /\ qq'.last = qq.last /\ qq'.sent = 1
        /\ sequence' = 1 /\ session' = qq.id /\ loop' = "serve"
        /\ qq.id # 0 /\ qq.sent = 0 /\ loop = "ready"
    BY DEF Ready, HandleDispatch, SessionTypeOK
  <1>2. 1 <= qq.last /\ handed = {} /\ repeated = {} /\ skipped = {} /\ control = {}
    BY <1>1 DEF SessionInv
  <1>3. handed' = {} /\ repeated' = {} /\ skipped' = {} /\ control' = {1}
    BY <1>2 DEF Ready
  <1>4. EventsCountedOnce'
    <2>1. 1..sequence' = {1}
      BY <1>1
    <2> QED
      BY <1>3, <2>1 DEF EventsCountedOnce
  <1> QED
    BY <1>1, <1>2, <1>4 DEF SessionInv, ResumesOwnSession

\* A replayed event, RESUMED and a dispatch while serving each take the number
\* after the one the client keeps.
LEMMA SessionAdvance ==
    ASSUME SessionInv, SessionTypeOK, Replay \/ Resumed \/ NextEvent
    PROVE  SessionInv'
  <1>1. qq.id # 0 /\ session # 0 /\ qq.sent = sequence
    BY DEF Replay, Resumed, NextEvent, SessionInv, SessionTypeOK
  <1>2. sequence' = sequence + 1 /\ session' = session
    BY <1>1 DEF Replay, Resumed, NextEvent, HandleDispatch
  <1>3. /\ qq'.id = qq.id /\ qq'.sent = sequence + 1
        /\ qq'.last \in Nat /\ qq'.sent <= qq'.last
    <2>1. CASE Replay
      BY <1>1, <2>1 DEF Replay, HandleDispatch, SessionTypeOK
    <2>2. CASE Resumed
      <3>1. qq' = [qq EXCEPT !.last = qq.last + 1, !.sent = qq.sent + 1]
        BY <2>2 DEF Resumed
      <3> QED
        BY <1>1, <2>2, <3>1 DEF Resumed, SessionTypeOK
    <2>3. CASE NextEvent
      BY <1>1, <2>3 DEF NextEvent, HandleDispatch, SessionTypeOK
    <2> QED
      BY <2>1, <2>2, <2>3
  <1>4. loop' \in {"ready", "serve", "process"}
    BY DEF Replay, Resumed, NextEvent
  <1>5. EventsCountedOnce'
    <2>1. handed \cap {qq.sent + 1} = {}
      <3>1. qq.sent + 1 \notin 1..sequence
        BY <1>1 DEF SessionTypeOK
      <3> QED
        BY <1>1, <3>1 DEF SessionInv, EventsCountedOnce
    <2>2. /\ repeated' = repeated
          /\ \/ handed' = handed \cup {sequence + 1} /\ skipped' = skipped /\ control' = control
             \/ handed' = handed /\ skipped' = skipped \cup {sequence + 1} /\ control' = control
             \/ handed' = handed /\ skipped' = skipped /\ control' = control \cup {sequence + 1}
      BY <1>1, <2>1 DEF Replay, Resumed, NextEvent
    <2>3. sequence + 1 \in Nat
      BY DEF SessionTypeOK
    <2> QED
      BY <1>1, <1>2, <2>2, <2>3, NextNumber DEF SessionInv
  <1>6. ResumesOwnSession'
    BY <1>1, <1>2, <1>3 DEF SessionInv, ResumesOwnSession, SessionTypeOK
  <1> QED
    BY <1>1, <1>2, <1>3, <1>4, <1>5, <1>6 DEF SessionInv, SessionTypeOK

\* Somebody says something: QQ has one dispatch more to send.
LEMMA SessionNewDispatch ==
    ASSUME SessionInv, SessionTypeOK, NewDispatch
    PROVE  SessionInv'
  <1>1. /\ qq'.id = qq.id /\ qq'.sent = qq.sent /\ qq'.last = qq.last + 1
        /\ UNCHANGED <<loop, session, sequence, handed, repeated, skipped, control>>
        /\ qq.id # 0
    BY DEF NewDispatch, SessionTypeOK, clientVars, paceVars, historyVars
  <1> QED
    BY <1>1 DEF SessionInv, SessionTypeOK, ResumesOwnSession, EventsCountedOnce

\* The invariant of the session is inductive.
LEMMA SessionStep == SessionTypeOK /\ SessionInv /\ [Next]_vars => SessionInv'
  <1> SUFFICES ASSUME SessionTypeOK, SessionInv, [Next]_vars PROVE SessionInv'
    OBVIOUS
  <1>1. CASE Authenticate
    BY <1>1, SessionAuthenticate
  <1>2. CASE Ready
    BY <1>2, SessionReady
  <1>3. CASE Replay \/ Resumed \/ NextEvent
    BY <1>3, SessionAdvance
  <1>4. CASE NewDispatch
    BY <1>4, SessionNewDispatch
  <1>5. CASE ResumeRejected \/ SessionInvalidated \/ SeesClose
    BY <1>5, SessionLost DEF ResumeRejected, SessionInvalidated, SeesClose
  <1>6. CASE PeerCloses
    BY <1>6, SessionLost DEF PeerCloses, clientVars, paceVars
  <1>7. CASE \/ ConnectFails \/ AskGateway \/ Connect \/ HandshakeFails \/ Processed
             \/ ProcessRaises \/ ServeFails
    BY <1>7, SessionFrame
       DEF ConnectFails, AskGateway, Connect, HandshakeFails, Processed, ProcessRaises, ServeFails,
           clientVars, paceVars
  <1>8. CASE Abort \/ CloseInLoop \/ Wake \/ CloseAtShutdown \/ Stop \/ HeartbeatFails
    BY <1>8, SessionFrame
       DEF Abort, CloseInLoop, Wake, CloseAtShutdown, Stop, HeartbeatFails, clientVars, paceVars
  <1>9. CASE UNCHANGED vars
    BY <1>9, SessionFrame DEF vars, clientVars, paceVars
  <1> QED
    BY <1>1, <1>2, <1>3, <1>4, <1>5, <1>6, <1>7, <1>8, <1>9 DEF Next, Loop

\* Before the first connection there is no session on either side.
LEMMA InitSession == Init => SessionInv
  BY DEF Init, SessionInv, ResumesOwnSession, EventsCountedOnce, NoSession

\* The client's variables keep their types.
THEOREM GatewayTypeCorrect == Spec => []GatewayTypeOK
  BY InitGateway, GatewayTypeStep, PTL DEF Spec

\* However often the loop reconnects, one heartbeat task at most is running,
\* and none while the loop sleeps or after it has ended.
THEOREM SingleHeartbeat == Spec => []OneHeartbeat
  <1>1. GatewayTypeOK => LoopTypeOK
    BY DEF GatewayTypeOK
  <1> QED
    BY InitGateway, GatewayTypeStep, HeartbeatStep, <1>1, PTL DEF Spec

\* The numbers up to the one a Resume names were each taken exactly once, over
\* any sequence of disconnections, resumes and invalidated sessions.
THEOREM CountedOnce == Spec => []EventsCountedOnce
  <1>1. GatewayTypeOK => SessionTypeOK
    BY DEF GatewayTypeOK
  <1>2. SessionInv => EventsCountedOnce
    BY DEF SessionInv
  <1> QED
    BY InitGateway, InitSession, GatewayTypeStep, SessionStep, <1>1, <1>2, PTL DEF Spec

\* The session a Resume names is the one its sequence number belongs to.
THEOREM OwnSession == Spec => []ResumesOwnSession
  <1>1. GatewayTypeOK => SessionTypeOK
    BY DEF GatewayTypeOK
  <1>2. SessionInv => ResumesOwnSession
    BY DEF SessionInv
  <1> QED
    BY InitGateway, InitSession, GatewayTypeStep, SessionStep, <1>1, <1>2, PTL DEF Spec

\* The doubled delay of one failure more, cut at the maximum.
LEMMA DueNext ==
    ASSUME NEW n \in Nat \ {0}
    PROVE  Due(n + 1) = IF 2 * Due(n) < MaxDelay THEN 2 * Due(n) ELSE MaxDelay
  <1>1. PICK p \in Nat : p = PowerOfTwo[n - 1] /\ p # 0
    BY PowerOfTwoNat
  <1>2. PowerOfTwo[n] = 2 * p
    BY <1>1, PowerOfTwoIs
  <1>3. InitialDelay \in Nat \ {0} /\ MaxDelay \in Nat \ {0}
    BY GatewayAssumption
  <1>4. PICK d \in Nat : d = InitialDelay * p
    BY <1>1, <1>3
  <1>5. InitialDelay * (2 * p) = 2 * d
    BY <1>1, <1>3, <1>4
  <1>6. Due(n + 1) = IF 2 * d <= MaxDelay THEN 2 * d ELSE MaxDelay
    <2>1. (n + 1) - 1 = n /\ n + 1 # 1
      OBVIOUS
    <2> QED
      BY <1>2, <1>5, <2>1 DEF Due
  <1>7. Due(n) = IF n = 1 \/ d <= MaxDelay THEN d ELSE MaxDelay
    BY <1>1, <1>4 DEF Due
  <1> QED
    BY <1>3, <1>4, <1>6, <1>7

\* The first one.
LEMMA DueFirst == Due(1) = InitialDelay
  <1>1. PowerOfTwo[1 - 1] = 1
    BY PowerOfTwoIs
  <1> QED
    BY <1>1, GatewayAssumption DEF Due

\* After the longest delay it stays the longest, so it need not be counted on.
LEMMA LongestDue ==
    ASSUME NEW n \in Nat \ {0}, Due(n) = MaxDelay
    PROVE  Due(n + 1) = Due(n)
  <1>1. MaxDelay \in Nat \ {0}
    BY GatewayAssumption
  <1> QED
    BY <1>1, DueNext

\* PacedRetries does not say what the next delay will be: while the loop tries,
\* it is the one due after the failure that may come.
PaceInv ==
    /\ PacedRetries
    /\ failures \in Nat
    /\ loop = "backoff" => failures # 0 /\ retry = Due(failures)
    /\ loop \notin {"backoff", "ended", "closed"} => retry = Due(failures + 1)
    /\ loop = "closed" => stopping

\* Only the end of a failed attempt, waking from its delay and a connection that
\* comes to serve have a part in the pace.
LEMMA PaceStep == LoopTypeOK /\ PaceInv /\ [Next]_vars => PaceInv'
  <1> SUFFICES ASSUME LoopTypeOK, PaceInv, [Next]_vars PROVE PaceInv'
    OBVIOUS
  <1>1. CASE CloseInLoop
    <2>1. loop = "closing" /\ retry = Due(failures + 1) /\ failures \in Nat
      BY <1>1 DEF CloseInLoop, PaceInv
    <2>2. CASE loop' = "ended"
      BY <1>1, <2>1, <2>2 DEF CloseInLoop, PaceInv, PacedRetries
    <2>3. CASE loop' = "backoff"
      <3>1. /\ wait' = RetryDelay(retry) /\ FailedOnceMore
            /\ UNCHANGED <<info, retry>>
        BY <1>1, <2>3 DEF CloseInLoop
      <3>2. failures' \in Nat \ {0} /\ Due(failures + 1) = Due(failures')
        BY <2>1, <3>1, LongestDue DEF FailedOnceMore
      <3>3. PICK d : d = retry /\ d = Due(failures') /\ d = retry'
        BY <2>1, <3>1, <3>2
      <3>4. wait' = IF info' = "exhausted" /\ ResetAfter > d THEN ResetAfter ELSE d
        BY <3>1, <3>3 DEF RetryDelay
      <3>5. PacedRetries'
        BY <3>4, <3>3 DEF PacedRetries, Due
      <3> QED
        BY <2>3, <3>2, <3>3, <3>5 DEF PaceInv, Due
    <2> QED
      BY <1>1, <2>2, <2>3 DEF CloseInLoop
  <1>2. CASE Wake
    <2>1. /\ loop' = "connect" /\ failures' = failures /\ failures \in Nat \ {0}
          /\ retry = Due(failures)
          /\ retry' = IF 2 * retry < MaxDelay THEN 2 * retry ELSE MaxDelay
      BY <1>2 DEF Wake, PaceInv
    <2>2. retry' = Due(failures + 1)
      BY <2>1, DueNext
    <2> QED
      BY <2>1, <2>2 DEF PaceInv, PacedRetries, Due
  <1>3. CASE Ready \/ Resumed
    <2>1. loop' = "serve" /\ failures' = 0 /\ retry' = InitialDelay
      BY <1>3 DEF Ready, Resumed
    <2>2. retry' = Due(0 + 1)
      BY <2>1, DueFirst
    <2> QED
      BY <2>1, <2>2 DEF PaceInv, PacedRetries, Due
  <1>4. CASE Stop
    <2>1. loop' \in {"ended", "closing"} /\ UNCHANGED <<retry, failures>>
      BY <1>4 DEF Stop, paceVars
    <2>2. loop' = "closing" => loop \notin {"backoff", "ended"}
      BY <1>4 DEF Stop
    <2>3. loop # "closed"
      BY <1>4 DEF Stop, PaceInv
    <2> QED
      BY <2>1, <2>2, <2>3 DEF PaceInv, PacedRetries, Due
  <1>5. CASE ~CloseInLoop /\ ~Wake /\ ~Ready /\ ~Resumed /\ ~Stop
    <2>1. /\ UNCHANGED <<retry, failures>>
          /\ loop' = "backoff" => loop = "backoff" /\ UNCHANGED <<info, wait>>
          /\ loop' \notin {"backoff", "ended", "closed"} =>
               loop \notin {"backoff", "ended", "closed"}
          /\ stopping' = stopping /\ (loop' = "closed" => loop = "closed" \/ stopping)
      BY <1>5
         DEF Next, Loop, ConnectFails, AskGateway, Connect, Authenticate, Replay,
             ResumeRejected, HandshakeFails, NextEvent, Processed, ProcessRaises,
             ServeFails, SessionInvalidated, SeesClose, Abort, CloseAtShutdown,
             HeartbeatFails, NewDispatch, PeerCloses, vars, clientVars, paceVars
    <2> QED
      BY <2>1 DEF PaceInv, PacedRetries, Due
  <1> QED
    BY <1>1, <1>2, <1>3, <1>4, <1>5

\* Whatever the two delays and the limit are: after any number of failed attempts
\* the loop waits the initial delay doubled that often, up to the maximum, or as
\* long as a limit it has kept asks for.
THEOREM Paced == Spec => []PacedRetries
  <1>1. GatewayTypeOK => LoopTypeOK
    BY DEF GatewayTypeOK
  <1>2. Init => PaceInv
    BY DueFirst DEF Init, PaceInv, PacedRetries
  <1>3. PaceInv => PacedRetries
    BY DEF PaceInv
  <1> QED
    BY InitGateway, GatewayTypeStep, PaceStep, <1>1, <1>2, <1>3, PTL DEF Spec
===============================================================================
