----------------------------- MODULE ReplyContract -----------------------------
(***************************************************************************)
(* What the bot promises for every trigger, with no workers, restarts,     *)
(* attempts or clock: a trigger is claimed at most once, the claim allows  *)
(* one send, an interaction reported as completed was answered, and a      *)
(* report is final until retention drops it.                               *)
(***************************************************************************)
EXTENDS Naturals

CONSTANTS Messages, Names

VARIABLES
    claimed,  \* triggers whose claim is committed
    sends,    \* [Messages \X Names -> Nat]: calls to QQ
    answered, \* triggers for which QQ accepted a proper reply
    report    \* [Messages \X Names -> none, open, completed, failed]

cvars == <<claimed, sends, answered, report>>
CTriggers == Messages \X Names

CInit ==
    /\ claimed = {}
    /\ sends = [t \in CTriggers |-> 0]
    /\ answered = {}
    /\ report = [t \in CTriggers |-> "none"]

\* The one chance to reply is taken, before anything is sent.
Claim(t) ==
    /\ t \notin claimed
    /\ claimed' = claimed \cup {t}
    /\ UNCHANGED <<sends, answered, report>>

\* The call to QQ; whether it was accepted is up to QQ.
Send(t) ==
    /\ t \in claimed
    /\ sends[t] = 0
    /\ sends' = [sends EXCEPT ![t] = 1]
    /\ answered' \in {answered, answered \cup {t}}
    /\ UNCHANGED <<claimed, report>>

Open(t) ==
    /\ report[t] = "none"
    /\ report' = [report EXCEPT ![t] = "open"]
    /\ UNCHANGED <<claimed, sends, answered>>

Complete(t) ==
    /\ report[t] = "open"
    /\ \E n \in Names : <<t[1], n>> \in answered
    /\ report' = [report EXCEPT ![t] = "completed"]
    /\ UNCHANGED <<claimed, sends, answered>>

\* A recovery may fail several exhausted rows at once.
Fail(T) ==
    /\ \A t \in T : report[t] = "open"
    /\ report' = [t \in CTriggers |-> IF t \in T THEN "failed" ELSE report[t]]
    /\ UNCHANGED <<claimed, sends, answered>>

Drop(T) ==
    /\ \A t \in T : report[t] \in {"completed", "failed"}
    /\ report' = [t \in CTriggers |-> IF t \in T THEN "none" ELSE report[t]]
    /\ UNCHANGED <<claimed, sends, answered>>

CNext ==
    \/ \E t \in CTriggers : Claim(t) \/ Send(t) \/ Open(t) \/ Complete(t)
    \/ \E T \in SUBSET CTriggers : Fail(T) \/ Drop(T)

CSpec == CInit /\ [][CNext]_cvars
===============================================================================
