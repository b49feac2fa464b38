-------------------------------- MODULE MCBot --------------------------------
(***************************************************************************)
(* Small instances of BotRuntime for TLC.  A message is written m_<kind>;  *)
(* a payload is the receipt of a message, "<message>'" a second delivery   *)
(* of it with another sequence number.                                     *)
(***************************************************************************)
EXTENDS BotRuntime, TLC

MCGroups == {"g", "h"}
MCUsers == {"u"}

\* A message of group "g" by user "u", complete and sent at time 0.
Msg(text, at) ==
    [group |-> "g", user |-> "u", text |-> text, at |-> at, selfAt |-> FALSE,
     asks |-> TRUE, addressed |-> TRUE, dated |-> TRUE, sent |-> 0]

MCEvent(ms) ==
    [m \in ms |->
       CASE m \in {"sum1", "sum2"} -> Msg("#summary", FALSE)
         [] m = "sumOff"  -> [Msg("#summary", FALSE) EXCEPT !.group = "h"]
         [] m = "ping"    -> Msg("#ping", FALSE)
         [] m = "ask"     -> Msg("#qa", FALSE)
         [] m = "chat"    -> [Msg("other", FALSE) EXCEPT !.selfAt = TRUE]
         [] m = "hello"   -> [Msg("other", TRUE) EXCEPT !.asks = FALSE]
         [] m = "undated" -> [Msg("other", TRUE) EXCEPT !.dated = FALSE]
         [] m = "chatter" -> Msg("other", FALSE)
         [] m = "atSum"   -> Msg("#summary", TRUE)]

\* "x'" is the second receipt of "x".
MCMessageOf(ps) ==
    [p \in ps |-> CASE p = "chat'" -> "chat"
                    [] p = "atSum'" -> "atSum"
                    [] p = "sum1'" -> "sum1"
                    [] OTHER -> p]
MCMessages(ps) == {MCMessageOf(ps)[p] : p \in ps}

\* handlers: every outcome of the three handlers, two receipts at a time; two
\* summaries of one group and a repeated receipt contend.
HandlerPayloads == {"ping", "sum1", "sum1'", "sum2", "sumOff", "ask", "hello",
                     "undated", "atSum", "chatter"}
HandlerMessages == MCMessages(HandlerPayloads)
HandlerMessageOf == MCMessageOf(HandlerPayloads)
HandlerEvent == MCEvent(HandlerMessages)

\* recovery: questions over crashes and storage faults.
RecoveryPayloads == {"chat", "chat'", "ask"}
RecoveryMessages == MCMessages(RecoveryPayloads)
RecoveryMessageOf == MCMessageOf(RecoveryPayloads)
RecoveryEvent == MCEvent(RecoveryMessages)

\* settle: a summary and a mention that compete for the workers.
SettlePayloads == {"sum1", "chat"}
SettleMessages == MCMessages(SettlePayloads)
SettleMessageOf == MCMessageOf(SettlePayloads)
SettleEvent == MCEvent(SettleMessages)

\* contract: one message, delivered twice, whose name depends on the features.
ContractPayloads == {"atSum", "atSum'"}
ContractMessages == MCMessages(ContractPayloads)
ContractMessageOf == MCMessageOf(ContractPayloads)
ContractEvent == MCEvent(ContractMessages)

\* shutdown: one question.
ShutdownPayloads == {"chat"}
ShutdownMessages == MCMessages(ShutdownPayloads)
ShutdownMessageOf == MCMessageOf(ShutdownPayloads)
ShutdownEvent == MCEvent(ShutdownMessages)

WorkerSymmetry == Permutations(Workers)
AllFeatures == {{"summary", "assistant"}}
AnyFeatures == SUBSET {"summary", "assistant"}
===============================================================================
