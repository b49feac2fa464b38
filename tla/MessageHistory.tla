---------------------------- MODULE MessageHistory ----------------------------
(***************************************************************************)
(* The normalized messages of the groups: how the running bot and the      *)
(* repair script add versions of them to one table, and what the two       *)
(* conversation queries make of the table while they do.                   *)
(*                                                                         *)
(* A receipt is a raw_events row and its id the position in receipts; a    *)
(* row is a messages row, its id the position in rows, and tree its        *)
(* message_nodes.  "older" is the parser version of an earlier release.    *)
(*                                                                         *)
(* Every delivery of an event persists its receipt on its own:             *)
(*                                                                         *)
(*   received   the receipt is committed, persist() has not looked yet     *)
(*   inserting  no row of this receipt and version was found               *)
(*   refused    the unique constraint refused the row                      *)
(*   stored     persist() answered with a row;   dropped   it did not      *)
(***************************************************************************)
EXTENDS Integers, FiniteSets, SequencesExt

CONSTANTS
    Loads,              \* what may happen in one behaviour, see LoadAssumption
    BatchSize,          \* batch_size of reparse_forwards
    ContainsForward,    \* of each body: _contains_forward of the parsed message
    Encoded,            \* of each body: the nodes of the parsed message
    Windows,            \* windows <<start, end, limit>> somebody asks for
    Lookback            \* minutes of history before a trigger

NoTime == -1
NoId == "none"
Versions == {"older", "current"}

ASSUME HistoryAssumption ==
    /\ BatchSize \in Nat \ {0}
    /\ Lookback \in Nat \ {0}
    /\ \A w \in Windows :
          w[1] \in Int /\ w[2] \in Int /\ w[3] \in Nat \ {0} /\ w[1] < w[2]

\* Bounds of a behaviour: the events QQ sends and how many it repeats, the runs
\* of the script, the receipts it may be limited to (0 for all), the requests of
\* the group, and the release the bot is started with.
ASSUME LoadAssumption ==
    \A l \in Loads :
        /\ l.repeats \in Nat /\ l.reparses \in Nat /\ l.requests \in Nat
        /\ l.filters \subseteq Nat
        /\ l.bot \in Versions
        /\ \A e \in DOMAIN l.events :
              /\ l.events[e].body \in DOMAIN Encoded
              /\ \A v \in Versions : l.events[e][v].at \in Int

VARIABLES
    load,     \* the member of Loads this behaviour is about
    receipts, \* raw_events: which event each receipt holds
    rows,     \* messages
    ingest,   \* the deliveries, and where the ingestion of each is
    bot,      \* the release the bot runs
    reparse   \* the script

historyVars == <<load, receipts, rows, ingest, bot, reparse>>

Event(raw) == load.events[receipts[raw]]

ReparseOff ==
    [state |-> "off", runs |-> 0, apply |-> FALSE, only |-> 0, high |-> 0,
     cursor |-> 0, page |-> {}, failed |-> 0]

HistoryInit ==
    /\ load \in Loads
    /\ receipts = <<>>
    /\ rows = <<>>
    /\ ingest = <<>>
    /\ bot = load.bot
    /\ reparse = ReparseOff

Sorted(found, Before(_, _)) ==
    [k \in 1..Cardinality(found) |->
       CHOOSE i \in found : Cardinality({j \in found : Before(j, i)}) = k - 1]
FirstOf(s, n) == SubSeq(s, 1, IF Len(s) < n THEN Len(s) ELSE n)
LastOf(s, n) == SubSeq(s, IF Len(s) < n THEN 1 ELSE Len(s) - n + 1, Len(s))

(***************************************************************************)
(* MessageRepository.persist: a look and an insert, with the unique        *)
(* constraint on receipt and version as the last word.                     *)
(***************************************************************************)
RowsOf(raw, version) ==
    {i \in DOMAIN rows : rows[i].raw = raw /\ rows[i].version = version}

Found(raw, version) == RowsOf(raw, version) # {}

Row(raw, version) ==
    [raw |-> raw, version |-> version, message |-> Event(raw).message,
     group |-> Event(raw)[version].group, at |-> Event(raw)[version].at,
     tree |-> IF version = "current" THEN Encoded[Event(raw).body] ELSE {}]

Insert(raw, version) ==
    rows' = IF Found(raw, version) THEN rows ELSE Append(rows, Row(raw, version))

\* Mutant: the loser of the race reads the receipt in any version.
WinnerOfAnyVersion(raw, version) == Max({i \in DOMAIN rows : rows[i].raw = raw})

\* The row the refused one lost to.
Winner(raw, version) == Max(RowsOf(raw, version))

(***************************************************************************)
(* The bot.                                                                *)
(***************************************************************************)
Delivery(raw) == [raw |-> raw, version |-> bot, step |-> "received", row |-> 0]

Goto(d, step) == ingest' = [ingest EXCEPT ![d].step = step]
Answer(d, i) == ingest' = [ingest EXCEPT ![d].step = "stored", ![d].row = i]

Receive ==
    \E e \in DOMAIN load.events :
        /\ \A raw \in DOMAIN receipts : receipts[raw] # e
        /\ receipts' = Append(receipts, e)
        /\ ingest' = Append(ingest, Delivery(Len(receipts) + 1))
        /\ UNCHANGED <<load, rows, bot, reparse>>

\* QQ sends an event again: its receipt is there, and is persisted once more.
Redeliver ==
    \E raw \in DOMAIN receipts :
        /\ Len(ingest) < Len(receipts) + load.repeats
        /\ ingest' = Append(ingest, Delivery(raw))
        /\ UNCHANGED <<load, receipts, rows, bot, reparse>>

Look(d) ==
    /\ ingest[d].step = "received"
    /\ LET found == RowsOf(ingest[d].raw, ingest[d].version)
       IN  IF found = {} THEN Goto(d, "inserting") ELSE \E i \in found : Answer(d, i)
    /\ UNCHANGED <<load, receipts, rows, bot, reparse>>

Store(d) ==
    /\ ingest[d].step = "inserting"
    /\ Insert(ingest[d].raw, ingest[d].version)
    /\ IF Found(ingest[d].raw, ingest[d].version)
       THEN Goto(d, "refused")
       ELSE Answer(d, Len(rows) + 1)
    /\ UNCHANGED <<load, receipts, bot, reparse>>

Reread(d) ==
    /\ ingest[d].step = "refused"
    /\ Answer(d, Winner(ingest[d].raw, ingest[d].version))
    /\ UNCHANGED <<load, receipts, rows, bot, reparse>>

\* The parser or the database raised: only the receipt remains.
Drop(d) ==
    /\ ingest[d].step \in {"received", "inserting", "refused"}
    /\ Goto(d, "dropped")
    /\ UNCHANGED <<load, receipts, rows, bot, reparse>>

\* The bot is replaced by the current release; what it was storing is dropped.
Upgrade ==
    /\ bot = "older"
    /\ bot' = "current"
    /\ ingest' = [d \in DOMAIN ingest |->
                    IF ingest[d].step = "stored" THEN ingest[d]
                    ELSE [ingest[d] EXCEPT !.step = "dropped"]]
    /\ UNCHANGED <<load, receipts, rows, reparse>>

(***************************************************************************)
(* reparse_forwards, run from a shell beside the bot.                      *)
(***************************************************************************)
Stop(r) == [r EXCEPT !.state = "done"]
Skip(r) == [r EXCEPT !.page = @ \ {Min(@)},
                     !.state = IF r.page = {Min(r.page)} THEN "query" ELSE "scan"]
Failing(r) == [Skip(r) EXCEPT !.failed = @ + 1]

StartReparse(apply, only) ==
    /\ reparse.state \in {"off", "done", "aborted"}
    /\ reparse.runs < load.reparses
    /\ reparse' = [ReparseOff EXCEPT
                     !.state = "query", !.runs = reparse.runs + 1,
                     !.apply = apply, !.only = only, !.high = Len(receipts)]
    /\ UNCHANGED <<load, receipts, rows, ingest, bot>>

\* The receipts above the cursor with no row of the current version.  Mutant:
\* with no row at all.
UnparsedAtAll ==
    {raw \in reparse.cursor + 1 .. reparse.high :
        /\ \A i \in DOMAIN rows : rows[i].raw # raw
        /\ reparse.only \in {0, raw}}

Unparsed ==
    {raw \in reparse.cursor + 1 .. reparse.high :
        /\ ~Found(raw, "current")
        /\ reparse.only \in {0, raw}}

\* Mutant: only receipts that get a row move the cursor.
CursorStuck(page) == IF reparse.apply THEN Max(page) ELSE reparse.cursor

Cursor(page) == Max(page)

Page == {raw \in Unparsed : Cardinality({r \in Unparsed : r < raw}) < BatchSize}

NextPage ==
    /\ reparse.state = "query"
    /\ reparse' = IF Unparsed = {} THEN Stop(reparse)
                  ELSE [reparse EXCEPT !.state = "scan", !.page = Page,
                                       !.cursor = Cursor(Page)]
    /\ UNCHANGED <<load, receipts, rows, ingest, bot>>

\* Parse one receipt; a message with a forward is persisted unless previewing.
Scan ==
    /\ reparse.state = "scan"
    /\ LET raw == Min(reparse.page)
       IN  reparse' =
             IF /\ ContainsForward[Event(raw).body]
                /\ reparse.apply
                /\ ~Found(raw, "current")
             THEN [reparse EXCEPT !.state = "insert"]
             ELSE Skip(reparse)
    /\ UNCHANGED <<load, receipts, rows, ingest, bot>>

AppendVersion ==
    /\ reparse.state = "insert"
    /\ Insert(Min(reparse.page), "current")
    /\ reparse' = Skip(reparse)
    /\ UNCHANGED <<load, receipts, ingest, bot>>

ScanFails ==
    /\ reparse.state \in {"scan", "insert"}
    /\ reparse' = Failing(reparse)
    /\ UNCHANGED <<load, receipts, rows, ingest, bot>>

\* The script is interrupted; what it appended stays.
Abort ==
    /\ reparse.state \in {"query", "scan", "insert"}
    /\ reparse' = [reparse EXCEPT !.state = "aborted", !.page = {}]
    /\ UNCHANGED <<load, receipts, rows, ingest, bot>>

Script == NextPage \/ Scan \/ AppendVersion \/ ScanFails

HistoryStep ==
    \/ Receive
    \/ Redeliver
    \/ \E d \in DOMAIN ingest : Look(d) \/ Store(d) \/ Reread(d) \/ Drop(d)
    \/ Upgrade
    \/ \E apply \in BOOLEAN, only \in load.filters : StartReparse(apply, only)
    \/ Script
    \/ Abort

(***************************************************************************)
(* The two queries.  Both take the newest row of each receipt, and of the  *)
(* rows in the window the one of the latest delivery of each message.      *)
(***************************************************************************)
Newest(versions) ==
    {i \in DOMAIN rows :
        /\ rows[i].version \in versions
        /\ \A j \in DOMAIN rows :
              rows[j].raw = rows[i].raw /\ rows[j].version \in versions => j <= i}

SameMessage(i, j) ==
    /\ rows[i].group = rows[j].group
    /\ rows[i].message = rows[j].message
    /\ rows[i].message = NoId => rows[i].raw = rows[j].raw

Logical(found) ==
    {i \in found : \A j \in found :
        SameMessage(i, j) =>
            \/ rows[j].raw < rows[i].raw
            \/ rows[j].raw = rows[i].raw /\ j <= i}

Earlier(i, j) ==
    \/ rows[i].at < rows[j].at
    \/ rows[i].at = rows[j].at /\ i < j

EarlierReceipt(i, j) ==
    \/ rows[i].at < rows[j].at
    \/ rows[i].at = rows[j].at /\ rows[i].raw < rows[j].raw

InWindow(i, group, start, end) ==
    /\ rows[i].group = group
    /\ rows[i].at # NoTime
    /\ start <= rows[i].at /\ rows[i].at < end

\* Mutant: the window filters before the newest row is chosen.
ListConversationFiltered(group, start, end, limit, versions) ==
    LET inside == {i \in DOMAIN rows : InWindow(i, group, start, end)}
        newest == {i \in inside : \A j \in inside : rows[j].raw = rows[i].raw => j <= i}
    IN  FirstOf(Sorted(Logical(newest), Earlier), limit)

ListConversation(group, start, end, limit, versions) ==
    FirstOf(Sorted(Logical({i \in Newest(versions) : InWindow(i, group, start, end)}),
                   Earlier),
            limit)

BeforeTrigger(i, t) ==
    \/ rows[i].at < rows[t].at
    \/ rows[i].at = rows[t].at /\ rows[i].raw < rows[t].raw

Preceding(t) ==
    {i \in Newest(Versions) :
        /\ rows[i].group = rows[t].group
        /\ rows[i].at # NoTime
        /\ rows[t].at - Lookback <= rows[i].at
        /\ BeforeTrigger(i, t)}

ListConversationBefore(t, limit) ==
    LastOf(Sorted(Logical(Preceding(t)), EarlierReceipt), limit)

(***************************************************************************)
(* Properties                                                              *)
(***************************************************************************)
\* What list_conversation answers is the conversation: each entry is the
\* representation of its receipt that was stored last, in the requested scope
\* (an older one never resurfaces because the newest left the window), no
\* message is told twice however often it was delivered and parsed, send times
\* ascend, and a message is missing only behind a full answer.
HistoryExact ==
    \A w \in Windows, g \in {rows[i].group : i \in DOMAIN rows},
       versions \in {Versions, {"current"}} :
        LET h == ListConversation(g, w[1], w[2], w[3], versions)
            Scoped(raw) == {i \in DOMAIN rows :
                              rows[i].raw = raw /\ rows[i].version \in versions}
            Shown(i) == \E k \in DOMAIN h : SameMessage(h[k], i)
        IN  /\ Len(h) <= w[3]
            /\ \A k \in DOMAIN h :
                  /\ InWindow(h[k], g, w[1], w[2])
                  /\ \A i \in Scoped(rows[h[k]].raw) : i <= h[k]
            /\ \A j, k \in DOMAIN h :
                  j < k => Earlier(h[j], h[k]) /\ ~SameMessage(h[j], h[k])
            /\ \A raw \in DOMAIN receipts :
                  \A i \in Scoped(raw) :
                     (\A j \in Scoped(raw) : j <= i) /\ InWindow(i, g, w[1], w[2])
                     => Shown(i) \/ Len(h) = w[3]

\* What persist() answers with is the one row of its receipt and its version,
\* for good: whether its look found it, its insert made it, or another delivery
\* or the script inserted first and the loser had to read the winner's row while
\* the receipt got a row of another version.
PersistAnswersStored ==
    \A d \in DOMAIN ingest :
        ingest[d].step = "stored"
        => RowsOf(ingest[d].raw, ingest[d].version) = {ingest[d].row}

\* A finished run of the script that reports no failure has left every receipt
\* with a forward that was there when it began with a current representation.
ReparseComplete ==
    /\ reparse.state = "done"
    /\ reparse.apply
    /\ reparse.only = 0
    /\ reparse.failed = 0
    => \A raw \in 1..reparse.high :
          ContainsForward[Event(raw).body] => Found(raw, "current")

\* The script ends, with and without --apply, while the bot keeps storing.
ReparseEnds ==
    (reparse.state = "query") ~> (reparse.state \in {"done", "aborted"})
===============================================================================
