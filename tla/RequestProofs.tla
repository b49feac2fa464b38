---------------------------- MODULE RequestProofs -----------------------------
(***************************************************************************)
(* The history and what a request reads of it.                             *)
(*                                                                         *)
(* The bot and the repair script together keep one row of a receipt and a  *)
(* version, and a run of the script that ends without a failure has        *)
(* repaired what was there when it began.  Both follow from one inductive  *)
(* invariant, HistoryInv.  With what the rows are made of (SourcesInv) and *)
(* what sorting and ranking a set gives, every answer of list_conversation *)
(* is the conversation.                                                    *)
(*                                                                         *)
(* What a request knows of its pictures is its own and agrees, what it     *)
(* downloads stays within the budget, and an assistant spends that on its  *)
(* quote and the newest messages, while history grows under it.  Three     *)
(* inductive invariants, each on top of the one before: PicturesInv        *)
(* relates the batch a request works with to what it has downloaded,       *)
(* through the scope that decides which batch that is; AgreeInv says that  *)
(* the batch's answers are right and hold all that was told; RecentInv     *)
(* keeps what is still to be reached in order, behind what was fetched.    *)
(***************************************************************************)
EXTENDS AssistantRequest, SequenceLemmas

Tables ==
    /\ load \in Loads
    /\ receipts \in Seq(Range(receipts))
    /\ rows \in Seq(Range(rows))

ReparseStates == {"off", "query", "scan", "insert", "done", "aborted"}

ScriptOK ==
    /\ reparse \in [state : ReparseStates, runs : Nat, apply : BOOLEAN, only : Nat,
                    high : Nat, cursor : Nat, page : SUBSET Nat, failed : Nat]
    /\ reparse.high <= Len(receipts)
    /\ reparse.state \in {"query", "done"} => reparse.page = {}

\* While every receipt is asked for and none failed: a receipt below the high
\* water mark needs no repair, has it, is in the page, or is still to come.
Handled(raw) ==
    \/ ~ContainsForward[Event(raw).body]
    \/ Found(raw, "current")
    \/ raw \in reparse.page
    \/ raw > reparse.cursor /\ reparse.state # "done"

Covered ==
    /\ reparse.state \in {"query", "scan", "insert", "done"}
    /\ reparse.apply
    /\ reparse.only = 0
    /\ reparse.failed = 0
    => \A raw \in 1..reparse.high : Handled(raw)

\* The bot and the script store at most one row of a receipt and a version.
StoredOnce ==
    \A i, j \in DOMAIN rows :
        rows[i].raw = rows[j].raw /\ rows[i].version = rows[j].version => i = j

HistoryInv == Tables /\ StoredOnce /\ ScriptOK /\ Covered

(***************************************************************************)
(* The tables.                                                             *)
(***************************************************************************)
\* persist: the row is there afterwards, the others stay, none is doubled.
LEMMA InsertStores ==
    ASSUME Tables, StoredOnce, NEW raw, NEW version, Insert(raw, version)
    PROVE  /\ rows' \in Seq(Range(rows'))
           /\ StoredOnce'
           /\ Found(raw, version)'
           /\ \A r, v : Found(r, v) => Found(r, v)'
<1>1. CASE Found(raw, version)
  <2>1. rows' = rows
    BY <1>1 DEF Insert
  <2> QED
    BY <1>1, <2>1 DEF Tables, StoredOnce, Found, RowsOf
<1>2. CASE ~Found(raw, version)
  <2> DEFINE n == Len(rows) + 1
             new == Row(raw, version)
  <2>1. rows' = Append(rows, new)
    BY <1>2 DEF Insert
  <2>2. new.raw = raw /\ new.version = version
    BY DEF Row
  <2>3. /\ rows' \in Seq(Range(rows'))
        /\ DOMAIN rows = 1..Len(rows)
        /\ Len(rows) \in Nat
        /\ DOMAIN rows' = 1..n
        /\ \A i \in DOMAIN rows : rows'[i] = rows[i]
        /\ rows'[n] = new
    BY <2>1, AppendKeeps DEF Tables
  <2>4. DOMAIN rows' = DOMAIN rows \cup {n} /\ n \notin DOMAIN rows
    BY <2>3
  <2>5. StoredOnce'
    <3> SUFFICES ASSUME NEW i \in DOMAIN rows', NEW j \in DOMAIN rows',
                        rows'[i].raw = rows'[j].raw,
                        rows'[i].version = rows'[j].version
                 PROVE  i = j
      BY DEF StoredOnce
    <3>1. CASE i \in DOMAIN rows /\ j \in DOMAIN rows
      BY <2>3, <3>1 DEF StoredOnce
    <3>2. CASE i \in DOMAIN rows /\ j = n
      BY <1>2, <2>2, <2>3, <3>2 DEF Found, RowsOf
    <3>3. CASE i = n /\ j \in DOMAIN rows
      BY <1>2, <2>2, <2>3, <3>3 DEF Found, RowsOf
    <3> QED
      BY <2>4, <3>1, <3>2, <3>3
  <2>6. Found(raw, version)'
    BY <2>2, <2>3, <2>4 DEF Found, RowsOf
  <2>7. ASSUME NEW r, NEW v, Found(r, v) PROVE Found(r, v)'
    BY <2>3, <2>4, <2>7 DEF Found, RowsOf
  <2> QED
    BY <2>3, <2>5, <2>6, <2>7
<1> QED
  BY <1>1, <1>2

\* A step of the bot takes nothing from what the script has covered.
LEMMA BotKeepsCovered ==
    ASSUME HistoryInv, load' = load, reparse' = reparse,
           \A raw \in 1..reparse.high : receipts'[raw] = receipts[raw],
           \A r, v : Found(r, v) => Found(r, v)'
    PROVE  Covered'
<1>1. \A raw \in 1..reparse.high : Handled(raw) => Handled(raw)'
  BY DEF Handled, Event
<1> QED
  BY <1>1 DEF HistoryInv, Covered

\* Nothing of the history moves.
LEMMA HistoryStutters ==
    HistoryInv /\ UNCHANGED <<load, receipts, rows, reparse>> => HistoryInv'
BY DEF HistoryInv, Tables, StoredOnce, ScriptOK, Covered, Handled, Found, RowsOf, Event

LEMMA ReceiveKeeps == HistoryInv /\ Receive => HistoryInv'
<1> SUFFICES ASSUME HistoryInv, Receive PROVE HistoryInv'
  OBVIOUS
<1>1. PICK e : receipts' = Append(receipts, e)
  BY DEF Receive
<1>2. UNCHANGED <<load, rows, reparse>>
  BY DEF Receive
<1>3. /\ receipts' \in Seq(Range(receipts'))
      /\ Len(receipts') = Len(receipts) + 1
      /\ Len(receipts) \in Nat
      /\ \A i \in 1..Len(receipts) : receipts'[i] = receipts[i]
  BY <1>1, AppendKeeps DEF HistoryInv, Tables
<1>4. reparse.high \in Nat /\ reparse.high <= Len(receipts)
  BY DEF HistoryInv, ScriptOK
<1>5. Tables' /\ StoredOnce' /\ ScriptOK'
  BY <1>2, <1>3, <1>4 DEF HistoryInv, Tables, StoredOnce, ScriptOK
<1>6. \A raw \in 1..reparse.high : receipts'[raw] = receipts[raw]
  BY <1>3, <1>4
<1>7. Covered'
  BY <1>2, <1>6, BotKeepsCovered DEF Found, RowsOf
<1> QED
  BY <1>5, <1>7 DEF HistoryInv

LEMMA StoreKeeps ==
    ASSUME HistoryInv, NEW d, Store(d)
    PROVE  HistoryInv'
<1>1. /\ UNCHANGED <<load, receipts, reparse>>
      /\ Insert(ingest[d].raw, ingest[d].version)
  BY DEF Store
<1>2. /\ rows' \in Seq(Range(rows'))
      /\ StoredOnce'
      /\ \A r, v : Found(r, v) => Found(r, v)'
  BY <1>1, InsertStores DEF HistoryInv
<1>3. Tables' /\ ScriptOK'
  BY <1>1, <1>2 DEF HistoryInv, Tables, ScriptOK
<1>4. Covered'
  BY <1>1, <1>2, BotKeepsCovered
<1> QED
  BY <1>2, <1>3, <1>4 DEF HistoryInv

(***************************************************************************)
(* The script.                                                             *)
(***************************************************************************)
\* A page holds everything unparsed up to the cursor it moves to.
LEMMA PageIsFirst ==
    ASSUME ScriptOK, Unparsed # {}
    PROVE  /\ Page \subseteq Unparsed
           /\ Max(Page) \in Page
           /\ \A raw \in Unparsed : raw <= Max(Page) => raw \in Page
<1> DEFINE Less(x) == {r \in Unparsed : r < x}
<1>1. Unparsed \subseteq 0..reparse.high /\ reparse.high \in Nat /\ Unparsed \subseteq Nat
  BY DEF ScriptOK, Unparsed
<1>2. IsFiniteSet(Unparsed)
  <2>1. IsFiniteSet(0..reparse.high)
    BY <1>1, FS_Interval
  <2> QED
    BY <1>1, <2>1, FS_Subset
<1>3. BatchSize \in Nat \ {0}
  BY HistoryAssumption
<1>4. Page \subseteq Unparsed /\ Page \subseteq 0..reparse.high
  BY <1>1 DEF Page
<1>5. Page # {}
  <2>1. PICK x \in Unparsed : \A y \in Unparsed : x <= y
    BY <1>1, LeastElement
  <2>2. ASSUME NEW y \in Less(x) PROVE FALSE
    <3>1. y \in Nat /\ x \in Nat /\ x <= y /\ y < x
      BY <1>1, <2>1
    <3> QED
      BY <3>1
  <2>3. Cardinality(Less(x)) = 0
    BY <2>2, FS_EmptySet
  <2> QED
    BY <1>3, <2>3 DEF Page
<1>6. Max(Page) \in Page
  BY <1>1, <1>4, <1>5, GreatestElement
<1>7. ASSUME NEW raw \in Unparsed, raw <= Max(Page)
      PROVE  raw \in Page
  <2>1. raw \in Nat /\ Max(Page) \in Nat
    BY <1>1, <1>4, <1>6
  <2>2. Less(raw) \subseteq Less(Max(Page)) /\ Less(Max(Page)) \subseteq Unparsed
    <3>1. ASSUME NEW x \in Unparsed, x < raw PROVE x < Max(Page)
      <4>1. x \in Nat
        BY <1>1
      <4> QED
        BY <1>7, <2>1, <3>1, <4>1
    <3> QED
      BY <3>1
  <2>3. /\ IsFiniteSet(Less(Max(Page)))
        /\ Cardinality(Less(raw)) <= Cardinality(Less(Max(Page)))
    BY <1>2, <2>2, FS_Subset
  <2>4. Cardinality(Less(raw)) \in Nat /\ Cardinality(Less(Max(Page))) \in Nat
    BY <2>2, <2>3, FS_Subset, FS_CardinalityType
  <2>5. Cardinality(Less(Max(Page))) < BatchSize
    BY <1>6 DEF Page
  <2> QED
    BY <1>3, <2>3, <2>4, <2>5 DEF Page
<1> QED
  BY <1>4, <1>6, <1>7

LEMMA StartReparseKeeps ==
    ASSUME HistoryInv, NEW apply \in BOOLEAN, NEW only \in load.filters,
           StartReparse(apply, only)
    PROVE  HistoryInv'
<1>1. UNCHANGED <<load, receipts, rows>>
  BY DEF StartReparse
<1>2. reparse' = [ReparseOff EXCEPT
                    !.state = "query", !.runs = reparse.runs + 1,
                    !.apply = apply, !.only = only, !.high = Len(receipts)]
  BY DEF StartReparse
<1>3. only \in Nat /\ reparse.runs \in Nat /\ Len(receipts) \in Nat
  BY LoadAssumption DEF HistoryInv, Tables, ScriptOK
<1>3a. reparse' = [state |-> "query", runs |-> reparse.runs + 1, apply |-> apply,
                  only |-> only, high |-> Len(receipts), cursor |-> 0,
                  page |-> {}, failed |-> 0]
  BY <1>2 DEF ReparseOff
<1>4. /\ reparse' \in [state : ReparseStates, runs : Nat, apply : BOOLEAN, only : Nat,
                       high : Nat, cursor : Nat, page : SUBSET Nat, failed : Nat]
      /\ reparse'.high = Len(receipts)
      /\ reparse'.page = {}
      /\ reparse'.cursor = 0
      /\ reparse'.state = "query"
  BY <1>3a, <1>3 DEF ReparseStates
<1>5. ScriptOK'
  BY <1>1, <1>3, <1>4 DEF ScriptOK
<1>6. Covered'
  BY <1>3, <1>4 DEF Covered, Handled
<1> QED
  BY <1>1, <1>5, <1>6 DEF HistoryInv, Tables, StoredOnce

LEMMA NextPageKeeps == HistoryInv /\ NextPage => HistoryInv'
<1> SUFFICES ASSUME HistoryInv, NextPage PROVE HistoryInv'
  OBVIOUS
<1>1. UNCHANGED <<load, receipts, rows>> /\ reparse.state = "query"
  BY DEF NextPage
<1>2. Tables' /\ StoredOnce'
  BY <1>1 DEF HistoryInv, Tables, StoredOnce
<1>3. /\ reparse \in [state : ReparseStates, runs : Nat, apply : BOOLEAN, only : Nat,
                      high : Nat, cursor : Nat, page : SUBSET Nat, failed : Nat]
      /\ reparse.page = {}
      /\ reparse.high <= Len(receipts)
  BY <1>1 DEF HistoryInv, ScriptOK
<1>4. ASSUME NEW raw, reparse.only = 0, Handled(raw), raw \in 1..reparse.high
      PROVE  \/ ~ContainsForward[Event(raw).body]
             \/ Found(raw, "current")
             \/ raw \in Unparsed
  BY <1>3, <1>4 DEF Handled, Unparsed
<1>5. CASE Unparsed = {}
  <2>1. reparse' = [reparse EXCEPT !.state = "done"]
    BY <1>5 DEF NextPage, Stop
  <2>2. ScriptOK'
    BY <1>1, <1>3, <2>1 DEF ScriptOK, ReparseStates
  <2>3. Covered'
    BY <1>1, <1>3, <1>4, <1>5, <2>1 DEF HistoryInv, Covered, Handled, Found, RowsOf, Event
  <2> QED
    BY <1>2, <2>2, <2>3 DEF HistoryInv
<1>6. CASE Unparsed # {}
  <2>1. reparse' = [reparse EXCEPT !.state = "scan", !.page = Page, !.cursor = Max(Page)]
    BY <1>6 DEF NextPage, Cursor
  <2>2. /\ Page \subseteq Unparsed
        /\ Max(Page) \in Page
        /\ \A raw \in Unparsed : raw <= Max(Page) => raw \in Page
    BY <1>6, PageIsFirst DEF HistoryInv
  <2>2a. reparse.cursor \in Nat /\ reparse.high \in Nat
    BY <1>3
  <2>2b. Unparsed \subseteq Nat
    BY <2>2a DEF Unparsed
  <2>3. Page \subseteq Nat /\ Max(Page) \in Nat /\ Unparsed \subseteq Nat
    BY <2>2b, <2>2
  <2>4. /\ reparse'.high = reparse.high /\ reparse'.page = Page
        /\ reparse'.cursor = Max(Page) /\ reparse'.state = "scan"
        /\ reparse'.apply = reparse.apply /\ reparse'.only = reparse.only
        /\ reparse'.failed = reparse.failed
    BY <1>3, <2>1
  <2>5. ScriptOK'
    BY <1>1, <1>3, <2>1, <2>3, <2>4 DEF ScriptOK, ReparseStates
  <2>6. ASSUME NEW raw \in 1..reparse.high, reparse.only = 0, Handled(raw)
        PROVE  Handled(raw)'
    <3>1. raw \in Unparsed => raw \in Page \/ raw > Max(Page)
      BY <2>2, <2>3
    <3> QED
      BY <1>1, <1>4, <2>4, <2>6, <3>1 DEF Handled, Found, RowsOf, Event
  <2>7. Covered'
    BY <1>1, <2>4, <2>6 DEF HistoryInv, Covered
  <2> QED
    BY <1>2, <2>5, <2>7 DEF HistoryInv
<1> QED
  BY <1>5, <1>6

\* Skipping takes the first receipt off the page and nothing else.
LEMMA SkipMoves ==
    ASSUME ScriptOK
    PROVE  /\ Skip(reparse) \in [state : ReparseStates, runs : Nat, apply : BOOLEAN,
                                only : Nat, high : Nat, cursor : Nat,
                                page : SUBSET Nat, failed : Nat]
           /\ Skip(reparse).page = reparse.page \ {Min(reparse.page)}
           /\ Skip(reparse).state \in {"query", "scan"}
           /\ Skip(reparse).state = "query" => Skip(reparse).page = {}
           /\ \A field \in {"apply", "only", "high", "cursor", "failed"} :
                 Skip(reparse)[field] = reparse[field]
<1>1. reparse \in [state : ReparseStates, runs : Nat, apply : BOOLEAN, only : Nat,
                  high : Nat, cursor : Nat, page : SUBSET Nat, failed : Nat]
  BY DEF ScriptOK
<1> DEFINE rest == reparse.page \ {Min(reparse.page)}
           state == IF reparse.page = {Min(reparse.page)} THEN "query" ELSE "scan"
<1>2. Skip(reparse) = [reparse EXCEPT !.page = rest, !.state = state]
  BY DEF Skip
<1>3. /\ rest \in SUBSET Nat
      /\ state \in {"query", "scan"}
      /\ state = "query" => rest = {}
  BY <1>1
<1> HIDE DEF rest, state
<1>4. /\ Skip(reparse).page = rest
      /\ Skip(reparse).state = state
      /\ \A field \in {"apply", "only", "high", "cursor", "failed"} :
            Skip(reparse)[field] = reparse[field]
      /\ Skip(reparse) \in [state : ReparseStates, runs : Nat, apply : BOOLEAN,
                            only : Nat, high : Nat, cursor : Nat,
                            page : SUBSET Nat, failed : Nat]
  BY <1>1, <1>2, <1>3 DEF ReparseStates
<1> QED
  BY <1>3, <1>4 DEF rest

\* A receipt that was repaired, or needs no repair, may be skipped.
LEMMA SkipKeeps ==
    ASSUME HistoryInv, load' = load, receipts' = receipts,
           reparse.state \in {"scan", "insert"},
           reparse' = Skip(reparse),
           \A r, v : Found(r, v) => Found(r, v)',
           NEW first, first = Min(reparse.page),
           \/ ~reparse.apply
           \/ ~ContainsForward[Event(first).body]
           \/ Found(first, "current")'
    PROVE  ScriptOK' /\ Covered'
<1>1. /\ reparse' \in [state : ReparseStates, runs : Nat, apply : BOOLEAN,
                       only : Nat, high : Nat, cursor : Nat,
                       page : SUBSET Nat, failed : Nat]
      /\ reparse'.page = reparse.page \ {Min(reparse.page)}
      /\ reparse'.state \in {"query", "scan"}
      /\ reparse'.state = "query" => reparse'.page = {}
      /\ reparse'.apply = reparse.apply /\ reparse'.only = reparse.only
      /\ reparse'.high = reparse.high /\ reparse'.cursor = reparse.cursor
      /\ reparse'.failed = reparse.failed
  BY SkipMoves DEF HistoryInv
<1>2. ScriptOK'
  BY <1>1 DEF HistoryInv, ScriptOK
<1>3. ASSUME NEW raw, reparse.apply, Handled(raw) PROVE Handled(raw)'
  <2>1. CASE raw = first
    BY <1>3, <2>1 DEF Handled, Event
  <2>2. CASE raw # first
    BY <1>1, <1>3, <2>2 DEF Handled, Event
  <2> QED
    BY <2>1, <2>2
<1> QED
  BY <1>1, <1>2, <1>3 DEF HistoryInv, Covered

LEMMA ScanKeeps == HistoryInv /\ Scan => HistoryInv'
<1> SUFFICES ASSUME HistoryInv, Scan PROVE HistoryInv'
  OBVIOUS
<1>0. PICK first : first = Min(reparse.page)
  OBVIOUS
<1>1. UNCHANGED <<load, receipts, rows>> /\ reparse.state = "scan"
  BY DEF Scan
<1>2. Tables' /\ StoredOnce'
  BY <1>1 DEF HistoryInv, Tables, StoredOnce
<1>3. CASE /\ ContainsForward[Event(first).body]
           /\ reparse.apply
           /\ ~Found(first, "current")
  <2>1. reparse' = [reparse EXCEPT !.state = "insert"]
    BY <1>0, <1>3 DEF Scan
  <2>2. ScriptOK'
    BY <1>1, <2>1 DEF HistoryInv, ScriptOK, ReparseStates
  <2>3. Covered'
    BY <1>1, <2>1 DEF HistoryInv, ScriptOK, Covered, Handled, Found, RowsOf, Event
  <2> QED
    BY <1>2, <2>2, <2>3 DEF HistoryInv
<1>4. CASE \/ ~ContainsForward[Event(first).body]
           \/ ~reparse.apply
           \/ Found(first, "current")
  <2>1. reparse' = Skip(reparse)
    BY <1>0, <1>4 DEF Scan
  <2>2. /\ \A r, v : Found(r, v) => Found(r, v)'
        /\ Found(first, "current") => Found(first, "current")'
    BY <1>1 DEF Found, RowsOf
  <2>3. ScriptOK' /\ Covered'
    BY <1>0, <1>1, <1>4, <2>1, <2>2, SkipKeeps
  <2> QED
    BY <1>2, <2>3 DEF HistoryInv
<1> QED
  BY <1>3, <1>4

LEMMA AppendVersionKeeps == HistoryInv /\ AppendVersion => HistoryInv'
<1> SUFFICES ASSUME HistoryInv, AppendVersion PROVE HistoryInv'
  OBVIOUS
<1>0. PICK first : first = Min(reparse.page)
  OBVIOUS
<1>1. /\ reparse.state = "insert"
      /\ Insert(first, "current")
      /\ reparse' = Skip(reparse)
      /\ UNCHANGED <<load, receipts>>
  BY <1>0 DEF AppendVersion
<1>2. /\ rows' \in Seq(Range(rows'))
      /\ StoredOnce'
      /\ Found(first, "current")'
      /\ \A r, v : Found(r, v) => Found(r, v)'
  BY <1>1, InsertStores DEF HistoryInv
<1>3. Tables'
  BY <1>1, <1>2 DEF HistoryInv, Tables
<1>4. ScriptOK' /\ Covered'
  BY <1>0, <1>1, <1>2, SkipKeeps
<1> QED
  BY <1>2, <1>3, <1>4 DEF HistoryInv

LEMMA ScanFailsKeeps == HistoryInv /\ ScanFails => HistoryInv'
<1> SUFFICES ASSUME HistoryInv, ScanFails PROVE HistoryInv'
  OBVIOUS
<1>1. UNCHANGED <<load, receipts, rows>>
  BY DEF ScanFails
<1>2. reparse' = [Skip(reparse) EXCEPT !.failed = @ + 1]
  BY DEF ScanFails, Failing
<1>3. /\ reparse' \in [state : ReparseStates, runs : Nat, apply : BOOLEAN,
                       only : Nat, high : Nat, cursor : Nat,
                       page : SUBSET Nat, failed : Nat]
      /\ reparse'.high = reparse.high
      /\ reparse'.state \in {"query", "scan"}
      /\ reparse'.state = "query" => reparse'.page = {}
      /\ reparse'.failed # 0
  BY <1>2, SkipMoves DEF HistoryInv
<1>4. ScriptOK' /\ Covered'
  BY <1>1, <1>3 DEF HistoryInv, ScriptOK, Covered
<1> QED
  BY <1>1, <1>4 DEF HistoryInv, Tables, StoredOnce

LEMMA AbortKeeps == HistoryInv /\ Abort => HistoryInv'
<1> SUFFICES ASSUME HistoryInv, Abort PROVE HistoryInv'
  OBVIOUS
<1>1. UNCHANGED <<load, receipts, rows>>
  BY DEF Abort
<1>2. reparse' = [reparse EXCEPT !.state = "aborted", !.page = {}]
  BY DEF Abort
<1>3. ScriptOK' /\ Covered'
  BY <1>1, <1>2 DEF HistoryInv, ScriptOK, Covered, ReparseStates
<1> QED
  BY <1>1, <1>3 DEF HistoryInv, Tables, StoredOnce

\* Rows are only ever appended.
LEMMA RowsStay ==
    ASSUME HistoryInv, HistoryStep
    PROVE  \A i \in DOMAIN rows : i \in DOMAIN rows' /\ rows'[i] = rows[i]
<1>1. ASSUME NEW raw, NEW version, Insert(raw, version)
      PROVE  \A i \in DOMAIN rows : i \in DOMAIN rows' /\ rows'[i] = rows[i]
  <2>1. rows' = rows \/ rows' = Append(rows, Row(raw, version))
    BY <1>1 DEF Insert
  <2> QED
    BY <2>1, AppendKeeps DEF HistoryInv, Tables
<1>2. \/ rows' = rows
      \/ \E raw, version : Insert(raw, version)
  BY DEF HistoryStep, Receive, Redeliver, Look, Store, Reread, Drop, Upgrade,
         StartReparse, Script, NextPage, Scan, AppendVersion, ScanFails, Abort
<1> QED
  BY <1>1, <1>2

(***************************************************************************)
(* The theorems.                                                           *)
(***************************************************************************)
LEMMA HistoryInvInit == Init => HistoryInv
<1> SUFFICES ASSUME Init PROVE HistoryInv
  OBVIOUS
<1>1. load \in Loads /\ receipts = <<>> /\ rows = <<>> /\ reparse = ReparseOff
  BY DEF Init, HistoryInit
<1>2. Tables /\ StoredOnce
  BY <1>1 DEF Tables, StoredOnce, Range
<1>3. ScriptOK /\ Covered
  BY <1>1 DEF ScriptOK, Covered, ReparseOff, ReparseStates
<1> QED
  BY <1>2, <1>3 DEF HistoryInv

LEMMA HistoryInvNext == HistoryInv /\ [Next]_vars => HistoryInv'
<1> SUFFICES ASSUME HistoryInv, [Next]_vars PROVE HistoryInv'
  OBVIOUS
<1>1. CASE HistoryStep
  <2>1. CASE Receive
    BY <2>1, ReceiveKeeps
  <2>2. CASE \/ Redeliver
             \/ \E d \in DOMAIN ingest : Look(d) \/ Reread(d) \/ Drop(d)
    BY <2>2, HistoryStutters DEF Redeliver, Look, Reread, Drop
  <2>3. ASSUME NEW d \in DOMAIN ingest, Store(d) PROVE HistoryInv'
    BY <2>3, StoreKeeps
  <2>4. CASE Upgrade
    BY <2>4, HistoryStutters DEF Upgrade
  <2>5. ASSUME NEW apply \in BOOLEAN, NEW only \in load.filters, StartReparse(apply, only)
        PROVE  HistoryInv'
    BY <2>5, StartReparseKeeps
  <2>6. CASE Script
    BY <2>6, NextPageKeeps, ScanKeeps, AppendVersionKeeps, ScanFailsKeeps DEF Script
  <2>7. CASE Abort
    BY <2>7, AbortKeeps
  <2> QED
    BY <1>1, <2>1, <2>2, <2>3, <2>4, <2>5, <2>6, <2>7 DEF HistoryStep
<1>2. CASE RequestStep
  <2>1. UNCHANGED historyVars
    BY <1>2 DEF RequestStep, StartRequest, QueryHistory, DescribePicture, EndRequest
  <2> QED
    BY <2>1, HistoryStutters DEF historyVars
<1>3. CASE UNCHANGED vars
  BY <1>3, HistoryStutters DEF vars, historyVars
<1> QED
  BY <1>1, <1>2, <1>3 DEF Next

\* The inductive invariant holds throughout.
THEOREM HistoryInvariant == Spec => []HistoryInv
BY HistoryInvInit, HistoryInvNext, PTL DEF Spec

\* For any batch size and any traffic meanwhile, a run of reparse_forwards that
\* ends without failures has left no receipt below its high water mark with a
\* forward and without a current row.
THEOREM ReparseRepairs == Spec => []ReparseComplete
<1>1. HistoryInv => ReparseComplete
  <2> SUFFICES ASSUME HistoryInv, reparse.state = "done", reparse.apply,
                      reparse.only = 0, reparse.failed = 0,
                      NEW raw \in 1..reparse.high,
                      ContainsForward[Event(raw).body]
               PROVE  Found(raw, "current")
    BY DEF ReparseComplete
  <2>1. Handled(raw) /\ reparse.page = {}
    BY DEF HistoryInv, Covered, ScriptOK
  <2> QED
    BY <2>1 DEF Handled
<1> QED
  BY <1>1, HistoryInvariant, PTL

(***************************************************************************)
(* What the rows are made of: every row is one of a receipt, has a send    *)
(* time and a tree of a body, and the script's page has receipts on it.    *)
(***************************************************************************)
Sources ==
    /\ bot \in Versions
    /\ \A raw \in DOMAIN receipts : receipts[raw] \in DOMAIN load.events
    /\ reparse.page \subseteq 1..reparse.high
    /\ reparse.state \in {"scan", "insert"} => reparse.page # {}
    /\ \A i \in DOMAIN rows :
          /\ rows[i].raw \in DOMAIN receipts
          /\ rows[i].at \in Int
          /\ rows[i].tree \in Trees

Steps == {"received", "inserting", "refused", "stored", "dropped"}
DeliveryRecords == [raw : Nat, version : Versions, step : Steps, row : Nat]

\* A delivery is about a receipt; what was refused has a row it lost to, and
\* what is stored has the row persist() answered with.
Deliveries ==
    /\ ingest \in Seq(DeliveryRecords)
    /\ \A d \in DOMAIN ingest :
          /\ ingest[d].raw \in DOMAIN receipts
          /\ ingest[d].step = "refused"
             => RowsOf(ingest[d].raw, ingest[d].version) # {}
          /\ ingest[d].step = "stored"
             => RowsOf(ingest[d].raw, ingest[d].version) = {ingest[d].row}

SourcesInv == HistoryInv /\ Sources /\ Deliveries

\* The receipts are numbered from 1, and what is below the mark is a receipt.
LEMMA ReceiptsNumbered ==
    ASSUME HistoryInv
    PROVE  /\ DOMAIN receipts = 1..Len(receipts) /\ Len(receipts) \in Nat
           /\ DOMAIN rows = 1..Len(rows) /\ Len(rows) \in Nat
           /\ reparse.high \in Nat /\ 1..reparse.high \subseteq DOMAIN receipts
<1>1. /\ DOMAIN receipts = 1..Len(receipts) /\ Len(receipts) \in Nat
      /\ DOMAIN rows = 1..Len(rows) /\ Len(rows) \in Nat
  BY FunctionOf DEF HistoryInv, Tables
<1>2. reparse.high \in Nat /\ reparse.high <= Len(receipts)
  BY DEF HistoryInv, ScriptOK
<1> QED
  BY <1>1, <1>2

\* persist adds a row of the receipt it was called for.
LEMMA InsertPlaces ==
    ASSUME SourcesInv, NEW raw \in DOMAIN receipts, NEW version \in Versions,
           Insert(raw, version)
    PROVE  \A i \in DOMAIN rows' :
              /\ rows'[i].raw \in DOMAIN receipts
              /\ rows'[i].at \in Int
              /\ rows'[i].tree \in Trees
<1>1. CASE rows' = rows
  BY <1>1 DEF SourcesInv, Sources
<1>2. CASE rows' = Append(rows, Row(raw, version))
  <2>1. Row(raw, version).raw = raw /\ Row(raw, version).at = Event(raw)[version].at
    BY DEF Row
  <2>2. Event(raw)[version].at \in Int /\ Event(raw).body \in DOMAIN Encoded
    <3>1. load \in Loads /\ receipts[raw] \in DOMAIN load.events
      BY DEF SourcesInv, HistoryInv, Tables, Sources
    <3> QED
      BY <3>1, LoadAssumption DEF Event
  <2>2a. Row(raw, version).tree \in Trees
    BY <2>2 DEF Row, Trees, Range
  <2>3. /\ DOMAIN rows' = 1..Len(rows) + 1
        /\ DOMAIN rows = 1..Len(rows)
        /\ Len(rows) \in Nat
        /\ \A i \in DOMAIN rows : rows'[i] = rows[i]
        /\ rows'[Len(rows) + 1] = Row(raw, version)
    BY <1>2, AppendKeeps DEF SourcesInv, HistoryInv, Tables
  <2>4. ASSUME NEW i \in DOMAIN rows'
        PROVE  /\ rows'[i].raw \in DOMAIN receipts
               /\ rows'[i].at \in Int
               /\ rows'[i].tree \in Trees
    <3>1. i \in DOMAIN rows \/ i = Len(rows) + 1
      BY <2>3
    <3> QED
      BY <2>1, <2>2, <2>2a, <2>3, <3>1 DEF SourcesInv, Sources
  <2> QED
    BY <2>4
<1> QED
  BY <1>1, <1>2 DEF Insert

\* The first receipt of a page is on it.
LEMMA FirstOnPage ==
    ASSUME SourcesInv, reparse.state \in {"scan", "insert"}
    PROVE  /\ Min(reparse.page) \in reparse.page
           /\ Min(reparse.page) \in DOMAIN receipts
<1>1. reparse.page # {} /\ reparse.page \subseteq 1..reparse.high
  BY DEF SourcesInv, Sources
<1>2. reparse.page \subseteq Nat /\ 1..reparse.high \subseteq DOMAIN receipts
  BY <1>1, ReceiptsNumbered DEF SourcesInv
<1>3. \E x \in reparse.page : \A y \in reparse.page : x <= y
  BY <1>1, <1>2, LeastElement
<1>4. Min(reparse.page) \in reparse.page
  BY <1>3 DEF Min
<1> QED
  BY <1>1, <1>2, <1>4

\* Skipping leaves a page to scan, or goes back to the query.
LEMMA SkipPages ==
    ASSUME SourcesInv, reparse.state \in {"scan", "insert"}
    PROVE  /\ Skip(reparse).page \subseteq 1..Skip(reparse).high
           /\ Skip(reparse).state = "scan" => Skip(reparse).page # {}
           /\ Skip(reparse).state # "insert"
<1>1. /\ Skip(reparse).page = reparse.page \ {Min(reparse.page)}
      /\ Skip(reparse).high = reparse.high
      /\ Skip(reparse).state \in {"query", "scan"}
  BY SkipMoves DEF SourcesInv, HistoryInv
<1>2. Skip(reparse).state = "scan" => reparse.page # {Min(reparse.page)}
  BY DEF SourcesInv, HistoryInv, ScriptOK, Skip
<1>3. Min(reparse.page) \in reparse.page
  BY FirstOnPage
<1> QED
  BY <1>1, <1>2, <1>3 DEF SourcesInv, Sources

LEMMA SourcesInvInit == Init => SourcesInv
<1> SUFFICES ASSUME Init PROVE SourcesInv
  OBVIOUS
<1>1. /\ load \in Loads /\ receipts = <<>> /\ rows = <<>> /\ bot = load.bot
      /\ reparse = ReparseOff /\ ingest = <<>>
  BY DEF Init, HistoryInit
<1>2. bot \in Versions
  BY <1>1, LoadAssumption
<1> QED
  BY <1>1, <1>2, HistoryInvInit DEF SourcesInv, Sources, Deliveries, ReparseOff

LEMMA DeliveryOf ==
    ASSUME Deliveries, NEW d \in DOMAIN ingest
    PROVE  /\ ingest[d] \in DeliveryRecords
           /\ ingest[d].raw \in DOMAIN receipts
           /\ ingest[d].version \in Versions
           /\ ingest[d].step = "refused"
              => RowsOf(ingest[d].raw, ingest[d].version) # {}
           /\ ingest[d].step = "stored"
              => RowsOf(ingest[d].raw, ingest[d].version) = {ingest[d].row}
<1>1. ingest \in [1..Len(ingest) -> DeliveryRecords]
  BY FunctionOf DEF Deliveries
<1>2. ingest[d] \in DeliveryRecords
  BY <1>1
<1>3. ingest[d].version \in Versions
  BY <1>2 DEF DeliveryRecords
<1> QED
  BY <1>2, <1>3 DEF Deliveries

\* Steps that leave the script alone.
LEMMA BotKeepsSources ==
    ASSUME SourcesInv, HistoryStep, ~Script, reparse' = reparse PROVE Sources'
<1>1. load' = load
  BY DEF HistoryStep, Receive, Redeliver, Look, Store, Reread, Drop, Upgrade,
         StartReparse, Script, Abort
<1>2. CASE Receive
  <2>1. PICK e \in DOMAIN load.events : receipts' = Append(receipts, e)
    BY <1>2 DEF Receive
  <2>2. UNCHANGED <<rows, bot>>
    BY <1>2 DEF Receive
  <2>3. /\ DOMAIN receipts = 1..Len(receipts)
        /\ Len(receipts) \in Nat
        /\ DOMAIN receipts' = 1..Len(receipts) + 1
        /\ \A i \in DOMAIN receipts : receipts'[i] = receipts[i]
        /\ receipts'[Len(receipts) + 1] = e
    BY <2>1, AppendKeeps DEF SourcesInv, HistoryInv, Tables
  <2>4. DOMAIN receipts' = DOMAIN receipts \cup {Len(receipts) + 1}
    BY <2>3
  <2>5. \A raw \in DOMAIN receipts' : receipts'[raw] \in DOMAIN load.events
    BY <2>3, <2>4 DEF SourcesInv, Sources
  <2> QED
    BY <1>1, <2>2, <2>4, <2>5 DEF SourcesInv, Sources
<1>3. CASE \/ Redeliver
           \/ \E d \in DOMAIN ingest : Look(d) \/ Reread(d) \/ Drop(d)
  BY <1>1, <1>3 DEF SourcesInv, Sources, Redeliver, Look, Reread, Drop
<1>4. ASSUME NEW d \in DOMAIN ingest, Store(d) PROVE Sources'
  <2>1. /\ UNCHANGED <<receipts, bot>>
        /\ Insert(ingest[d].raw, ingest[d].version)
        /\ ingest[d].raw \in DOMAIN receipts /\ ingest[d].version \in Versions
    BY <1>4, DeliveryOf DEF Store, SourcesInv
  <2>2. \A i \in DOMAIN rows' :
          /\ rows'[i].raw \in DOMAIN receipts
          /\ rows'[i].at \in Int
          /\ rows'[i].tree \in Trees
    BY <2>1, InsertPlaces DEF SourcesInv, Sources
  <2> QED
    BY <1>1, <2>1, <2>2 DEF SourcesInv, Sources
<1>5. CASE Upgrade
  BY <1>1, <1>5 DEF SourcesInv, Sources, Upgrade, Versions
<1>6. CASE UNCHANGED <<receipts, rows, bot>>
  BY <1>1, <1>6 DEF SourcesInv, Sources
<1> QED
  BY <1>2, <1>3, <1>4, <1>5, <1>6 DEF HistoryStep, StartReparse, Abort

\* Steps of the script.
LEMMA ScriptKeepsSources ==
    ASSUME SourcesInv,
           \/ Script
           \/ Abort
           \/ \E apply \in BOOLEAN, only \in load.filters : StartReparse(apply, only)
    PROVE  Sources'
<1>1. UNCHANGED <<load, receipts, bot>>
  BY DEF Script, NextPage, Scan, AppendVersion, ScanFails, Abort, StartReparse
<1> DEFINE PageOK == /\ reparse'.page \subseteq 1..reparse'.high
                     /\ reparse'.state \in {"scan", "insert"} => reparse'.page # {}
<1>2. ASSUME rows' = rows, PageOK PROVE Sources'
  BY <1>1, <1>2 DEF SourcesInv, Sources
<1>3. /\ reparse \in [state : ReparseStates, runs : Nat, apply : BOOLEAN, only : Nat,
                      high : Nat, cursor : Nat, page : SUBSET Nat, failed : Nat]
      /\ reparse.page \subseteq 1..reparse.high
      /\ reparse.state \in {"scan", "insert"} => reparse.page # {}
  BY DEF SourcesInv, HistoryInv, ScriptOK, Sources
<1>4. CASE NextPage
  <2>1. CASE Unparsed = {}
    <3>1. reparse' = [reparse EXCEPT !.state = "done"]
      BY <1>4, <2>1 DEF NextPage, Stop
    <3> QED
      BY <1>2, <1>3, <1>4, <3>1 DEF NextPage
  <2>2. CASE Unparsed # {}
    <3>1. reparse' = [reparse EXCEPT !.state = "scan", !.page = Page, !.cursor = Cursor(Page)]
      BY <1>4, <2>2 DEF NextPage
    <3>2. Page \subseteq Unparsed /\ Page # {}
      BY <2>2, PageIsFirst DEF SourcesInv, HistoryInv
    <3>3. Unparsed \subseteq 1..reparse.high
      <4>1. reparse.cursor \in Nat /\ reparse.high \in Nat
        BY <1>3
      <4> QED
        BY <4>1 DEF Unparsed
    <3>4. reparse'.page = Page /\ reparse'.high = reparse.high
      BY <1>3, <3>1
    <3> QED
      BY <1>2, <1>4, <3>2, <3>3, <3>4 DEF NextPage
  <2> QED
    BY <2>1, <2>2
<1>5. ASSUME reparse' = Skip(reparse), reparse.state \in {"scan", "insert"}
      PROVE  PageOK
  BY <1>5, SkipPages
<1>6. CASE Scan
  <2>1. rows' = rows /\ reparse.state = "scan"
    BY <1>6 DEF Scan
  <2>2. CASE reparse' = [reparse EXCEPT !.state = "insert"]
    BY <1>2, <1>3, <2>1, <2>2
  <2>3. CASE reparse' = Skip(reparse)
    BY <1>2, <1>5, <2>1, <2>3
  <2> QED
    BY <1>6, <2>2, <2>3 DEF Scan
<1>7. CASE AppendVersion
  <2>1. /\ reparse.state = "insert"
        /\ Insert(Min(reparse.page), "current")
        /\ reparse' = Skip(reparse)
    BY <1>7 DEF AppendVersion
  <2>2. Min(reparse.page) \in DOMAIN receipts /\ "current" \in Versions
    BY <2>1, FirstOnPage DEF Versions
  <2>3. \A i \in DOMAIN rows' :
          /\ rows'[i].raw \in DOMAIN receipts
          /\ rows'[i].at \in Int
          /\ rows'[i].tree \in Trees
    BY <2>1, <2>2, InsertPlaces
  <2> QED
    BY <1>1, <1>5, <2>1, <2>3 DEF SourcesInv, Sources
<1>8. CASE ScanFails
  <2>1. /\ rows' = rows /\ reparse.state \in {"scan", "insert"}
        /\ reparse' = [Skip(reparse) EXCEPT !.failed = @ + 1]
    BY <1>8 DEF ScanFails, Failing
  <2>2. Skip(reparse) \in [state : ReparseStates, runs : Nat, apply : BOOLEAN,
                           only : Nat, high : Nat, cursor : Nat,
                           page : SUBSET Nat, failed : Nat]
    BY SkipMoves DEF SourcesInv, HistoryInv
  <2>3. /\ reparse'.page = Skip(reparse).page
        /\ reparse'.high = Skip(reparse).high
        /\ reparse'.state = Skip(reparse).state
    BY <2>1, <2>2
  <2> QED
    BY <1>2, <2>1, <2>3, SkipPages
<1>9. CASE Abort
  BY <1>2, <1>3, <1>9 DEF Abort
<1>10. ASSUME NEW apply, NEW only, StartReparse(apply, only) PROVE Sources'
  BY <1>2, <1>10 DEF StartReparse, ReparseOff
<1> QED
  BY <1>4, <1>6, <1>7, <1>8, <1>9, <1>10 DEF Script

\* The rows of a receipt and a version are never more than one, and stay.
LEMMA RowsOfStay ==
    ASSUME SourcesInv, HistoryInv', HistoryStep, NEW raw, NEW version
    PROVE  /\ RowsOf(raw, version) \subseteq RowsOf(raw, version)'
           /\ \A i \in RowsOf(raw, version)' : RowsOf(raw, version)' = {i}
           /\ \A i : RowsOf(raw, version) = {i} => RowsOf(raw, version)' = {i}
<1>1. RowsOf(raw, version) \subseteq RowsOf(raw, version)'
  BY RowsStay DEF SourcesInv, RowsOf
<1>2. \A i \in RowsOf(raw, version)' : RowsOf(raw, version)' = {i}
  BY DEF HistoryInv, StoredOnce, RowsOf
<1> QED
  BY <1>1, <1>2

\* What a step leaves alone stays true of its receipt.
LEMMA DeliveryStays ==
    ASSUME SourcesInv, HistoryInv', HistoryStep, NEW e \in DOMAIN ingest,
           DOMAIN receipts \subseteq DOMAIN receipts',
           e \in DOMAIN ingest', ingest'[e] = ingest[e]
    PROVE  /\ ingest'[e].raw \in DOMAIN receipts'
           /\ ingest'[e].step = "refused"
              => RowsOf(ingest[e].raw, ingest[e].version)' # {}
           /\ ingest'[e].step = "stored"
              => RowsOf(ingest[e].raw, ingest[e].version)' = {ingest'[e].row}
<1> DEFINE r == ingest[e].raw
           v == ingest[e].version
<1>1. /\ ingest[e].raw \in DOMAIN receipts
      /\ ingest[e].step = "refused" => RowsOf(r, v) # {}
      /\ ingest[e].step = "stored" => RowsOf(r, v) = {ingest[e].row}
  BY DeliveryOf DEF SourcesInv
<1>2. \A raw, version : /\ RowsOf(raw, version) \subseteq RowsOf(raw, version)'
                        /\ \A i : RowsOf(raw, version) = {i}
                                  => RowsOf(raw, version)' = {i}
  BY RowsOfStay
<1>3. r' = r /\ v' = v
  OBVIOUS
<1>4. \A raw, version : raw = r /\ version = v => RowsOf(raw, version)' = RowsOf(r, v)'
  BY <1>3 DEF RowsOf
<1>5. /\ RowsOf(r, v) \subseteq RowsOf(r, v)'
      /\ \A i : RowsOf(r, v) = {i} => RowsOf(r, v)' = {i}
  <2> HIDE DEF r, v
  <2> QED
    BY <1>2, <1>4
<1> QED
  BY <1>1, <1>5

\* A step that changes one delivery and no receipt.
LEMMA DeliveryMoves ==
    ASSUME SourcesInv, HistoryInv', HistoryStep, receipts' = receipts,
           NEW d \in DOMAIN ingest, NEW step \in Steps, NEW row \in Nat,
           \/ ingest' = [ingest EXCEPT ![d].step = step, ![d].row = row]
           \/ ingest' = [ingest EXCEPT ![d].step = step] /\ step # "stored",
           step = "refused" => RowsOf(ingest[d].raw, ingest[d].version)' # {},
           step = "stored" => RowsOf(ingest[d].raw, ingest[d].version)' = {row}
    PROVE  Deliveries'
<1>1. /\ ingest \in [1..Len(ingest) -> DeliveryRecords]
      /\ Len(ingest) \in Nat
  BY FunctionOf DEF SourcesInv, Deliveries
<1>2. ingest[d] \in DeliveryRecords
  BY <1>1
<1>2a. PICK next \in DeliveryRecords :
          /\ ingest' = [ingest EXCEPT ![d] = next]
          /\ next.raw = ingest[d].raw /\ next.version = ingest[d].version
          /\ next.step = step
          /\ step = "stored" => next.row = row
  <2>1. CASE ingest' = [ingest EXCEPT ![d].step = step, ![d].row = row]
    <3> DEFINE next == [ingest[d] EXCEPT !.step = step, !.row = row]
    <3>1. /\ next \in DeliveryRecords
          /\ next.raw = ingest[d].raw /\ next.version = ingest[d].version
          /\ next.step = step /\ next.row = row
      BY <1>2 DEF DeliveryRecords
    <3>2. ingest' = [ingest EXCEPT ![d] = next]
      BY <1>1, <2>1
    <3> QED
      BY <3>1, <3>2
  <2>2. CASE ingest' = [ingest EXCEPT ![d].step = step] /\ step # "stored"
    <3> DEFINE next == [ingest[d] EXCEPT !.step = step]
    <3>1. /\ next \in DeliveryRecords
          /\ next.raw = ingest[d].raw /\ next.version = ingest[d].version
          /\ next.step = step
      BY <1>2 DEF DeliveryRecords
    <3>2. ingest' = [ingest EXCEPT ![d] = next]
      BY <1>1, <2>2
    <3> QED
      BY <2>2, <3>1, <3>2
  <2> QED
    BY <2>1, <2>2
<1>3. /\ ingest' \in [1..Len(ingest) -> DeliveryRecords]
      /\ \A e \in DOMAIN ingest : e # d => ingest'[e] = ingest[e]
      /\ ingest'[d] = next
  BY <1>1, <1>2a
<1>4. ingest' \in Seq(DeliveryRecords) /\ DOMAIN ingest' = DOMAIN ingest
  BY <1>1, <1>3, SequenceOf
<1>5. ASSUME NEW e \in DOMAIN ingest
      PROVE  /\ ingest'[e].raw \in DOMAIN receipts'
             /\ ingest'[e].step = "refused"
                => RowsOf(ingest[e].raw, ingest[e].version)' # {}
             /\ ingest'[e].step = "stored"
                => RowsOf(ingest[e].raw, ingest[e].version)' = {ingest'[e].row}
  <2>1. CASE e = d
    BY <1>2a, <1>3, <2>1, DeliveryOf DEF SourcesInv
  <2>2. CASE e # d
    <3>1. ingest'[e] = ingest[e] /\ e \in DOMAIN ingest'
      BY <1>3, <1>4, <2>2
    <3> QED
      BY <3>1, DeliveryStays
  <2> QED
    BY <2>1, <2>2
<1> QED
  BY <1>4, <1>5 DEF Deliveries

\* A step that adds a delivery of a receipt.
LEMMA DeliveryArrives ==
    ASSUME SourcesInv, HistoryInv', HistoryStep, NEW raw \in Nat, raw \in DOMAIN receipts',
           DOMAIN receipts \subseteq DOMAIN receipts', ingest' = Append(ingest, Delivery(raw))
    PROVE  Deliveries'
<1> DEFINE new == Delivery(raw)
           n == Len(ingest) + 1
<1>1. /\ new \in DeliveryRecords
      /\ new.raw = raw /\ new.step = "received"
  BY DEF SourcesInv, Sources, Delivery, DeliveryRecords, Steps
<1>2. ingest \in Seq(DeliveryRecords)
  BY DEF SourcesInv, Deliveries
<1> HIDE DEF new
<1>3. /\ ingest' \in Seq(DeliveryRecords)
      /\ DOMAIN ingest = 1..Len(ingest) /\ Len(ingest) \in Nat
      /\ DOMAIN ingest' = 1..n
      /\ \A e \in 1..Len(ingest) : ingest'[e] = ingest[e]
      /\ ingest'[n] = new
  <2>1. ingest' = Append(ingest, new)
    BY DEF new
  <2> QED
    BY <1>1, <1>2, <2>1
<1>4. ASSUME NEW e \in DOMAIN ingest'
      PROVE  /\ ingest'[e].raw \in DOMAIN receipts'
             /\ ingest'[e].step = "refused"
                => RowsOf(ingest[e].raw, ingest[e].version)' # {}
             /\ ingest'[e].step = "stored"
                => RowsOf(ingest[e].raw, ingest[e].version)' = {ingest'[e].row}
  <2>1. CASE e = n
    BY <1>1, <1>3, <2>1
  <2>2. CASE e \in DOMAIN ingest
    <3>1. ingest'[e] = ingest[e]
      BY <1>3, <2>2
    <3> QED
      BY <2>2, <3>1, DeliveryStays
  <2>3. e = n \/ e \in DOMAIN ingest
    BY <1>3
  <2> QED
    BY <2>1, <2>2, <2>3
<1> QED
  BY <1>3, <1>4 DEF Deliveries

\* persist leaves a row of the receipt and version; if there was none, it is the
\* new one.
LEMMA InsertAnswers ==
    ASSUME SourcesInv, HistoryInv', HistoryStep,
           NEW raw, NEW version, Insert(raw, version)
    PROVE  /\ RowsOf(raw, version)' # {}
           /\ ~Found(raw, version) => /\ RowsOf(raw, version)' = {Len(rows) + 1}
                                      /\ Len(rows) + 1 \in Nat
<1>1. CASE Found(raw, version)
  BY <1>1, RowsOfStay DEF Found
<1>2. CASE ~Found(raw, version)
  <2>1. rows' = Append(rows, Row(raw, version))
    BY <1>2 DEF Insert
  <2>2. /\ DOMAIN rows' = 1..Len(rows) + 1
        /\ Len(rows) \in Nat
        /\ rows'[Len(rows) + 1] = Row(raw, version)
    BY <2>1, AppendKeeps DEF SourcesInv, HistoryInv, Tables
  <2>3. Len(rows) + 1 \in RowsOf(raw, version)'
    BY <2>2 DEF RowsOf, Row
  <2> QED
    BY <2>2, <2>3, RowsOfStay
<1> QED
  BY <1>1, <1>2

\* The only row of a receipt and version is the winner.
LEMMA WinnerIs ==
    ASSUME SourcesInv, NEW raw, NEW version, RowsOf(raw, version) # {}
    PROVE  /\ RowsOf(raw, version) = {Winner(raw, version)}
           /\ Winner(raw, version) \in Nat
<1>1. PICK i : RowsOf(raw, version) = {i} /\ i \in Nat
  <2>1. DOMAIN rows \subseteq Nat
    BY ReceiptsNumbered DEF SourcesInv
  <2> QED
    BY <2>1 DEF SourcesInv, HistoryInv, StoredOnce, RowsOf
<1>2. Winner(raw, version) = i
  BY <1>1 DEF Winner, Max
<1> QED
  BY <1>1, <1>2

LEMMA HistoryStepDelivers == SourcesInv /\ HistoryInv' /\ HistoryStep => Deliveries'
<1> SUFFICES ASSUME SourcesInv, HistoryInv', HistoryStep PROVE Deliveries'
  OBVIOUS
<1>1. CASE Receive
  <2>1. PICK e : receipts' = Append(receipts, e)
    BY <1>1 DEF Receive
  <2>2. /\ DOMAIN receipts = 1..Len(receipts) /\ Len(receipts) \in Nat
        /\ DOMAIN receipts' = 1..Len(receipts) + 1
    BY <2>1, AppendKeeps DEF SourcesInv, HistoryInv, Tables
  <2>3. ingest' = Append(ingest, Delivery(Len(receipts) + 1))
    BY <1>1 DEF Receive
  <2> QED
    BY <2>2, <2>3, DeliveryArrives
<1>2. CASE Redeliver
  <2>1. receipts' = receipts /\ DOMAIN receipts \subseteq Nat
    BY <1>2, ReceiptsNumbered DEF Redeliver, SourcesInv
  <2>2. PICK raw \in DOMAIN receipts : ingest' = Append(ingest, Delivery(raw))
    BY <1>2 DEF Redeliver
  <2> QED
    BY <2>1, <2>2, DeliveryArrives
<1>3. ASSUME NEW d \in DOMAIN ingest, Look(d) \/ Store(d) \/ Reread(d) \/ Drop(d)
      PROVE  Deliveries'
  <2>1. receipts' = receipts
    BY <1>3 DEF Look, Store, Reread, Drop
  <2>2. PICK raw, version : raw = ingest[d].raw /\ version = ingest[d].version
    OBVIOUS
  <2>3. ASSUME NEW step \in {"inserting", "dropped"}, Goto(d, step) PROVE Deliveries'
    BY <2>1, <2>3, DeliveryMoves DEF Goto, Steps
  <2>4. ASSUME NEW i \in Nat, Answer(d, i), RowsOf(raw, version)' = {i}
        PROVE  Deliveries'
    <3>1. ingest' = [ingest EXCEPT ![d].step = "stored", ![d].row = i]
      BY <2>4 DEF Answer
    <3>2. ingest'[d].raw = raw /\ ingest'[d].version = version
      BY <2>2, <3>1, DeliveryOf DEF SourcesInv, DeliveryRecords
    <3>3. RowsOf(ingest[d].raw, ingest[d].version)' = {i}
      BY <2>4, <3>2 DEF RowsOf
    <3> QED
      BY <2>1, <3>1, <3>3, DeliveryMoves DEF Steps
  <2>5. CASE Look(d)
    <3>1. CASE RowsOf(raw, version) = {}
      BY <2>2, <2>3, <2>5, <3>1 DEF Look
    <3>2. CASE RowsOf(raw, version) # {}
      <4>1. PICK i \in RowsOf(raw, version) : Answer(d, i)
        BY <2>2, <2>5, <3>2 DEF Look
      <4>2. RowsOf(raw, version) = {i} /\ i \in Nat
        BY <3>2, WinnerIs
      <4>3. RowsOf(raw, version)' = {i}
        BY <4>2, RowsOfStay
      <4> QED
        BY <2>4, <4>1, <4>2, <4>3
    <3> QED
      BY <3>1, <3>2
  <2>6. CASE Store(d)
    <3>1. Insert(raw, version)
      BY <2>2, <2>6 DEF Store
    <3>2. CASE Found(raw, version)
      <4>1. ingest' = [ingest EXCEPT ![d].step = "refused"]
        BY <2>2, <2>6, <3>2 DEF Store, Goto
      <4>2. ingest'[d].raw = raw /\ ingest'[d].version = version
        BY <2>2, <4>1, DeliveryOf DEF SourcesInv, DeliveryRecords
      <4>3. RowsOf(raw, version)' # {}
        BY <3>1, InsertAnswers
      <4>4. RowsOf(ingest[d].raw, ingest[d].version)' # {}
        BY <4>2, <4>3 DEF RowsOf
      <4> QED
        BY <2>1, <4>1, <4>4, DeliveryMoves DEF Steps
    <3>3. CASE ~Found(raw, version)
      <4>1. Answer(d, Len(rows) + 1)
        BY <2>2, <2>6, <3>3 DEF Store
      <4>2. RowsOf(raw, version)' = {Len(rows) + 1} /\ Len(rows) + 1 \in Nat
        BY <3>1, <3>3, InsertAnswers
      <4> QED
        BY <2>4, <4>1, <4>2
    <3> QED
      BY <3>2, <3>3
  <2>7. CASE Reread(d)
    <3>1. ingest[d].step = "refused" /\ Answer(d, Winner(raw, version))
      BY <2>2, <2>7 DEF Reread
    <3>2. RowsOf(raw, version) # {}
      BY <2>2, <3>1, DeliveryOf DEF SourcesInv
    <3>3. /\ RowsOf(raw, version) = {Winner(raw, version)}
          /\ Winner(raw, version) \in Nat
      BY <3>2, WinnerIs
    <3>4. PICK i \in Nat : i = Winner(raw, version)
      BY <3>3
    <3>5. RowsOf(raw, version)' = {i}
      BY <3>3, <3>4, RowsOfStay
    <3> QED
      BY <2>4, <3>1, <3>4, <3>5
  <2>8. CASE Drop(d)
    BY <2>3, <2>8 DEF Drop
  <2> QED
    BY <1>3, <2>5, <2>6, <2>7, <2>8
<1>4. CASE Upgrade
  <2>1. /\ receipts' = receipts
        /\ ingest' = [d \in DOMAIN ingest |->
                        IF ingest[d].step = "stored" THEN ingest[d]
                        ELSE [ingest[d] EXCEPT !.step = "dropped"]]
    BY <1>4 DEF Upgrade
  <2>2. ingest \in [1..Len(ingest) -> DeliveryRecords] /\ Len(ingest) \in Nat
    BY FunctionOf DEF SourcesInv, Deliveries
  <2>3. ASSUME NEW d \in DOMAIN ingest
        PROVE  /\ ingest'[d] \in DeliveryRecords
               /\ \/ ingest'[d] = ingest[d]
                  \/ ingest'[d].raw = ingest[d].raw /\ ingest'[d].step = "dropped"
    BY <2>1, <2>2 DEF DeliveryRecords, Steps
  <2>4. ingest' \in [1..Len(ingest) -> DeliveryRecords]
    BY <2>1, <2>2, <2>3
  <2>5. ingest' \in Seq(DeliveryRecords) /\ DOMAIN ingest' = DOMAIN ingest
    BY <2>2, <2>4, SequenceOf
  <2>6. ASSUME NEW d \in DOMAIN ingest
        PROVE  /\ ingest'[d].raw \in DOMAIN receipts'
               /\ ingest'[d].step = "refused"
                  => RowsOf(ingest[d].raw, ingest[d].version)' # {}
               /\ ingest'[d].step = "stored"
                  => RowsOf(ingest[d].raw, ingest[d].version)' = {ingest'[d].row}
    <3>1. CASE ingest'[d] = ingest[d]
      BY <2>1, <2>5, <3>1, DeliveryStays
    <3>2. CASE ingest'[d].raw = ingest[d].raw /\ ingest'[d].step = "dropped"
      BY <2>1, <3>2, DeliveryOf DEF SourcesInv
    <3> QED
      BY <2>3, <3>1, <3>2
  <2> QED
    BY <2>5, <2>6 DEF Deliveries
<1>5. CASE UNCHANGED <<receipts, ingest>>
  <2>1. \A d \in DOMAIN ingest : d \in DOMAIN ingest' /\ ingest'[d] = ingest[d]
    BY <1>5
  <2>2. ASSUME NEW d \in DOMAIN ingest
        PROVE  /\ ingest'[d].raw \in DOMAIN receipts'
               /\ ingest'[d].step = "refused"
                  => RowsOf(ingest[d].raw, ingest[d].version)' # {}
               /\ ingest'[d].step = "stored"
                  => RowsOf(ingest[d].raw, ingest[d].version)' = {ingest'[d].row}
    BY <1>5, <2>1, DeliveryStays
  <2>3. ingest' \in Seq(DeliveryRecords) /\ DOMAIN ingest' = DOMAIN ingest
    BY <1>5 DEF SourcesInv, Deliveries
  <2> QED
    BY <2>2, <2>3 DEF Deliveries
<1> QED
  BY <1>1, <1>2, <1>3, <1>4, <1>5
     DEF HistoryStep, StartReparse, Script, NextPage, Scan, AppendVersion, ScanFails, Abort

LEMMA SourcesInvNext == SourcesInv /\ [Next]_vars => SourcesInv'
<1> SUFFICES ASSUME SourcesInv, [Next]_vars PROVE SourcesInv'
  OBVIOUS
<1>1. HistoryInv'
  BY HistoryInvNext DEF SourcesInv
<1>2. CASE HistoryStep
  <2>0. Deliveries'
    BY <1>1, <1>2, HistoryStepDelivers
  <2>1. CASE \/ Script
             \/ Abort
             \/ \E apply \in BOOLEAN, only \in load.filters : StartReparse(apply, only)
    BY <1>1, <2>0, <2>1, ScriptKeepsSources DEF SourcesInv
  <2>2. CASE ~Script /\ reparse' = reparse
    BY <1>1, <1>2, <2>0, <2>2, BotKeepsSources DEF SourcesInv
  <2>3. \/ Script
        \/ Abort
        \/ \E apply \in BOOLEAN, only \in load.filters : StartReparse(apply, only)
        \/ reparse' = reparse
    BY <1>2 DEF HistoryStep, Receive, Redeliver, Look, Store, Reread, Drop, Upgrade
  <2> QED
    BY <2>1, <2>2, <2>3
<1>3. CASE RequestStep \/ UNCHANGED vars
  <2>1. UNCHANGED historyVars
    BY <1>3 DEF RequestStep, StartRequest, QueryHistory, DescribePicture, EndRequest, vars
  <2> QED
    BY <1>1, <2>1 DEF SourcesInv, Sources, Deliveries, RowsOf, historyVars
<1> QED
  BY <1>2, <1>3 DEF Next

LEMMA SourcesInvariant == Spec => []SourcesInv
BY SourcesInvInit, SourcesInvNext, PTL DEF Spec

\* For any traffic, any number of repeated deliveries and runs of the script and
\* any interleaving of their looks and inserts, what persist() answers with is
\* and stays the one row of its receipt and version.
THEOREM PersistAnswers == Spec => []PersistAnswersStored
<1>1. SourcesInv => PersistAnswersStored
  BY DEF SourcesInv, Deliveries, PersistAnswersStored
<1> QED
  BY <1>1, SourcesInvariant, PTL

(***************************************************************************)
(* What list_conversation answers.                                         *)
(***************************************************************************)
\* The rows a query asks for are a finite set that send time and id order.
LEMMA EarlierOrders ==
    ASSUME SourcesInv, NEW X \in SUBSET DOMAIN rows
    PROVE  /\ IsFiniteSet(X)
           /\ \E R : /\ StrictlyOrders(R, X)
                     /\ \A i, j \in X : <<i, j>> \in R <=> Earlier(i, j)
<1> DEFINE R == {p \in X \X X : Earlier(p[1], p[2])}
<1>1. DOMAIN rows = 1..Len(rows) /\ Len(rows) \in Nat
  BY ReceiptsNumbered DEF SourcesInv
<1>2. IsFiniteSet(X)
  <2>1. IsFiniteSet(1..Len(rows))
    BY <1>1, FS_Interval
  <2> QED
    BY <1>1, <2>1, FS_Subset
<1>3. \A i \in X : i \in Nat /\ rows[i].at \in Int
  BY <1>1 DEF SourcesInv, Sources
<1>4. \A i, j \in X : <<i, j>> \in R <=> Earlier(i, j)
  OBVIOUS
<1> HIDE DEF R
<1>5. StrictlyOrders(R, X)
  <2>1. \A i \in X : ~Earlier(i, i)
    BY <1>3 DEF Earlier
  <2>2. \A i, j, k \in X : Earlier(i, j) /\ Earlier(j, k) => Earlier(i, k)
    BY <1>3 DEF Earlier
  <2>3. \A i, j \in X : i # j => Earlier(i, j) \/ Earlier(j, i)
    BY <1>3 DEF Earlier
  <2> QED
    BY <1>4, <2>1, <2>2, <2>3 DEF StrictlyOrders
<1> QED
  BY <1>2, <1>4, <1>5

InOrder(X) == Sorted(X, Earlier)

\* Sorted tells the whole set, earlier rows first.
LEMMA SortedIsAscending ==
    ASSUME SourcesInv, NEW X \in SUBSET DOMAIN rows, NEW s, s = InOrder(X)
    PROVE  /\ s \in Seq(X)
           /\ \A j, k \in DOMAIN s : j < k => Earlier(s[j], s[k])
           /\ \A i \in X : \E k \in DOMAIN s : s[k] = i
<1>1. IsFiniteSet(X)
  BY EarlierOrders
<1>2. PICK R : /\ StrictlyOrders(R, X)
               /\ \A i, j \in X : <<i, j>> \in R <=> Earlier(i, j)
  BY EarlierOrders
<1>3. s = [k \in 1..Cardinality(X) |->
             CHOOSE i \in X : Cardinality({j \in X : Earlier(j, i)}) = k - 1]
  BY DEF Sorted, InOrder
<1>4. \A i \in X : {j \in X : Earlier(j, i)} = {j \in X : <<j, i>> \in R}
  BY <1>2
<1>5. s = Ranked(R, X)
  BY <1>3, <1>4 DEF Ranked
<1>6. StrictlyOrders(R, X)
  BY <1>2
<1>7. /\ s \in Seq(X)
      /\ \A j, k \in DOMAIN s : j < k => <<s[j], s[k]>> \in R
      /\ \A i \in X : \E k \in DOMAIN s : s[k] = i
  BY <1>1, <1>5, <1>6, RankedAscends
<1>8. \A k \in DOMAIN s : s[k] \in X
  BY <1>7
<1> QED
  BY <1>2, <1>7, <1>8

\* LIMIT: the first n, or everything.
LEMMA FirstOfIsPrefix ==
    ASSUME NEW X, NEW s \in Seq(X), NEW n \in Nat
    PROVE  /\ Len(FirstOf(s, n)) <= n
           /\ DOMAIN FirstOf(s, n) \subseteq DOMAIN s
           /\ \A k \in DOMAIN FirstOf(s, n) : k \in Nat /\ FirstOf(s, n)[k] = s[k]
           /\ Len(FirstOf(s, n)) = n \/ FirstOf(s, n) = s
<1>1. CASE Len(s) < n
  BY <1>1 DEF FirstOf
<1>2. CASE ~(Len(s) < n)
  BY <1>2 DEF FirstOf
<1> QED
  BY <1>1, <1>2

\* The deliveries of one message are an equivalence class of the rows.
LEMMA SameMessageIsEquivalence ==
    /\ \A i : SameMessage(i, i)
    /\ \A i, j : SameMessage(i, j) => SameMessage(j, i)
    /\ \A i, j, k : SameMessage(i, j) /\ SameMessage(j, k) => SameMessage(i, k)
BY DEF SameMessage

\* Of the rows of one message Logical keeps one.
LEMMA LogicalKeepsOne ==
    ASSUME SourcesInv, NEW found \in SUBSET DOMAIN rows
    PROVE  /\ \A i, j \in Logical(found) : SameMessage(i, j) => i = j
           /\ \A i \in found : \E j \in Logical(found) : SameMessage(j, i)
<1>0. /\ DOMAIN rows = 1..Len(rows) /\ Len(rows) \in Nat
      /\ DOMAIN receipts = 1..Len(receipts) /\ Len(receipts) \in Nat
  BY ReceiptsNumbered DEF SourcesInv
<1>1. \A i \in found : i \in 0..Len(rows) /\ rows[i].raw \in 0..Len(receipts)
  <2>1. \A i \in found : i \in 1..Len(rows) /\ rows[i].raw \in 1..Len(receipts)
    BY <1>0 DEF SourcesInv, Sources
  <2> QED
    BY <1>0, <2>1
<1>2. ASSUME NEW i \in Logical(found), NEW j \in Logical(found), SameMessage(i, j)
      PROVE  i = j
  <2>1. /\ i \in found /\ j \in found /\ SameMessage(j, i)
        /\ rows[j].raw < rows[i].raw \/ (rows[j].raw = rows[i].raw /\ j <= i)
        /\ rows[i].raw < rows[j].raw \/ (rows[i].raw = rows[j].raw /\ i <= j)
    BY <1>2, SameMessageIsEquivalence DEF Logical
  <2> QED
    BY <1>0, <1>1, <2>1
<1>3. ASSUME NEW i \in found PROVE \E j \in Logical(found) : SameMessage(j, i)
  <2> DEFINE class == {j \in found : SameMessage(i, j)}
             raws == {rows[j].raw : j \in class}
             last == {j \in class : rows[j].raw = Max(raws)}
  <2>1. i \in class
    BY SameMessageIsEquivalence
  <2>2. raws \subseteq 0..Len(receipts) /\ raws # {}
    BY <1>1, <2>1
  <2>3. Max(raws) \in raws /\ \A r \in raws : r <= Max(raws)
    BY <1>0, <2>2, GreatestElement
  <2>4. last \subseteq 0..Len(rows) /\ last # {}
    BY <1>1, <2>3
  <2>5. Max(last) \in last /\ \A j \in last : j <= Max(last)
    BY <1>0, <2>4, GreatestElement
  <2>6. PICK m : m = Max(last)
    OBVIOUS
  <2>7. m \in class /\ rows[m].raw = Max(raws) /\ \A j \in last : j <= m
    BY <2>5, <2>6
  <2>8. ASSUME NEW j \in found, SameMessage(m, j)
        PROVE  rows[j].raw < rows[m].raw \/ (rows[j].raw = rows[m].raw /\ j <= m)
    <3>1. j \in class
      BY <2>7, <2>8, SameMessageIsEquivalence
    <3>2. rows[j].raw <= rows[m].raw
      BY <2>3, <2>7, <3>1
    <3>3. rows[j].raw = rows[m].raw => j <= m
      BY <2>7, <3>1
    <3>4. rows[j].raw \in Int /\ rows[m].raw \in Int
      BY <1>0, <1>1, <2>7
    <3> QED
      BY <3>2, <3>3, <3>4
  <2>9. m \in Logical(found)
    BY <2>7, <2>8 DEF Logical
  <2>10. SameMessage(m, i)
    BY <2>7, SameMessageIsEquivalence
  <2> QED
    BY <2>9, <2>10
<1> QED
  BY <1>2, <1>3

\* The rows list_conversation chooses from.
Asked(g, w, versions) == {i \in Newest(versions) : InWindow(i, g, w[1], w[2])}

\* Its answer is the first of them, a message each, in the order they were sent.
LEMMA AnswerIsPrefix ==
    ASSUME SourcesInv, NEW w \in Windows, NEW g, NEW versions, NEW h,
           h = ListConversation(g, w[1], w[2], w[3], versions)
    PROVE  /\ Len(h) <= w[3]
           /\ \A k \in DOMAIN h : k \in Nat /\ h[k] \in Logical(Asked(g, w, versions))
           /\ \A j, k \in DOMAIN h : j < k => Earlier(h[j], h[k])
           /\ \/ Len(h) = w[3]
              \/ \A i \in Logical(Asked(g, w, versions)) : \E k \in DOMAIN h : h[k] = i
<1>0. PICK X : X = Logical(Asked(g, w, versions))
  OBVIOUS
<1>1. PICK n \in Nat : n = w[3]
  BY HistoryAssumption
<1>2. X \in SUBSET DOMAIN rows
  BY <1>0 DEF Logical, Asked, Newest
<1>3. PICK s : s = InOrder(X)
  OBVIOUS
<1>4. h = FirstOf(s, n)
  BY <1>0, <1>1, <1>3 DEF ListConversation, Asked, InOrder
<1>5. /\ s \in Seq(X)
      /\ \A j, k \in DOMAIN s : j < k => Earlier(s[j], s[k])
      /\ \A i \in X : \E k \in DOMAIN s : s[k] = i
  BY <1>2, <1>3, SortedIsAscending
<1>5a. s \in Seq(X)
  BY <1>5
<1>6. /\ Len(h) <= n
      /\ DOMAIN h \subseteq DOMAIN s
      /\ \A k \in DOMAIN h : k \in Nat /\ h[k] = s[k]
      /\ Len(h) = n \/ h = s
  BY <1>4, <1>5a, FirstOfIsPrefix
<1>7. \A k \in DOMAIN s : s[k] \in X
  BY <1>5
<1>8. \A k \in DOMAIN h : k \in Nat /\ h[k] \in X
  BY <1>6, <1>7
<1>9. \A j, k \in DOMAIN h : j < k => Earlier(h[j], h[k])
  BY <1>5, <1>6
<1>10. Len(h) = n \/ \A i \in X : \E k \in DOMAIN h : h[k] = i
  BY <1>5, <1>6
<1> QED
  BY <1>0, <1>1, <1>6, <1>8, <1>9, <1>10

\* For any traffic and repair, any window, limit, group and scope: the answer
\* of list_conversation is the newest representation of each receipt, one entry
\* for a message, in send order, and nothing is missing but behind its limit.
THEOREM HistoryIsExact == Spec => []HistoryExact
<1>1. SourcesInv => HistoryExact
  <2> SUFFICES ASSUME SourcesInv, NEW w \in Windows,
                      NEW g \in {rows[i].group : i \in DOMAIN rows},
                      NEW versions \in {Versions, {"current"}}
               PROVE  LET h == ListConversation(g, w[1], w[2], w[3], versions)
                          ParsesOf(raw) == {i \in DOMAIN rows :
                                            rows[i].raw = raw /\ rows[i].version \in versions}
                          Shown(i) == \E k \in DOMAIN h : SameMessage(h[k], i)
                      IN  /\ Len(h) <= w[3]
                          /\ \A k \in DOMAIN h :
                                /\ InWindow(h[k], g, w[1], w[2])
                                /\ \A i \in ParsesOf(rows[h[k]].raw) : i <= h[k]
                          /\ \A j, k \in DOMAIN h :
                                j < k => Earlier(h[j], h[k]) /\ ~SameMessage(h[j], h[k])
                          /\ \A raw \in DOMAIN receipts :
                                \A i \in ParsesOf(raw) :
                                   (\A j \in ParsesOf(raw) : j <= i) /\ InWindow(i, g, w[1], w[2])
                                   => Shown(i) \/ Len(h) = w[3]
    BY DEF HistoryExact
  <2> DEFINE ParsesOf(raw) == {i \in DOMAIN rows :
                               rows[i].raw = raw /\ rows[i].version \in versions}
  <2>0. PICK found : found = Asked(g, w, versions)
    OBVIOUS
  <2>1. PICK h : h = ListConversation(g, w[1], w[2], w[3], versions)
    OBVIOUS
  <2>2. /\ Len(h) <= w[3]
        /\ \A k \in DOMAIN h : k \in Nat /\ h[k] \in Logical(found)
        /\ \A j, k \in DOMAIN h : j < k => Earlier(h[j], h[k])
        /\ \/ Len(h) = w[3]
           \/ \A i \in Logical(found) : \E k \in DOMAIN h : h[k] = i
    BY <2>0, <2>1, AnswerIsPrefix
  <2>3. /\ Logical(found) \subseteq found
        /\ found \subseteq DOMAIN rows
        /\ \A i \in found :
              /\ InWindow(i, g, w[1], w[2])
              /\ \A j \in ParsesOf(rows[i].raw) : j <= i
    BY <2>0 DEF Logical, Asked, Newest
  <2>4. ASSUME NEW k \in DOMAIN h
        PROVE  /\ InWindow(h[k], g, w[1], w[2])
               /\ \A i \in ParsesOf(rows[h[k]].raw) : i <= h[k]
    BY <2>2, <2>3
  <2>5. ASSUME NEW j \in DOMAIN h, NEW k \in DOMAIN h, j < k
        PROVE  Earlier(h[j], h[k]) /\ ~SameMessage(h[j], h[k])
    <3>1. Earlier(h[j], h[k]) /\ h[j] \in Logical(found) /\ h[k] \in Logical(found)
      BY <2>2, <2>5
    <3>2. h[j] \in Nat /\ rows[h[j]].at \in Int
      BY <2>3, <3>1, ReceiptsNumbered DEF SourcesInv, Sources
    <3>3. h[j] # h[k]
      BY <3>1, <3>2 DEF Earlier
    <3> QED
      BY <2>3, <3>1, <3>3, LogicalKeepsOne
  <2>6. ASSUME NEW raw \in DOMAIN receipts, NEW i \in ParsesOf(raw),
               \A j \in ParsesOf(raw) : j <= i,
               InWindow(i, g, w[1], w[2]),
               Len(h) # w[3]
        PROVE  \E k \in DOMAIN h : SameMessage(h[k], i)
    <3>1. i \in found
      BY <2>0, <2>6 DEF Asked, Newest
    <3>2. PICK m \in Logical(found) : SameMessage(m, i)
      BY <2>3, <3>1, LogicalKeepsOne
    <3> QED
      BY <2>2, <2>6, <3>2
  <2> QED
    BY <2>1, <2>2, <2>4, <2>5, <2>6
<1> QED
  BY <1>1, SourcesInvariant, PTL

(***************************************************************************)
(* What an assistant reads before a trigger.                               *)
(***************************************************************************)
\* One row of a receipt is the newest, so send time and receipt order them.
LEMMA EarlierReceiptOrders ==
    ASSUME SourcesInv, NEW X \in SUBSET Newest(Versions)
    PROVE  /\ IsFiniteSet(X)
           /\ \A i, j \in X : rows[i].raw = rows[j].raw => i = j
           /\ \E R : /\ StrictlyOrders(R, X)
                     /\ \A i, j \in X : <<i, j>> \in R <=> EarlierReceipt(i, j)
<1> DEFINE R == {p \in X \X X : EarlierReceipt(p[1], p[2])}
<1>1. DOMAIN rows = 1..Len(rows) /\ Len(rows) \in Nat
  BY ReceiptsNumbered DEF SourcesInv
<1>2. IsFiniteSet(X)
  <2>1. IsFiniteSet(1..Len(rows)) /\ X \in SUBSET (1..Len(rows))
    BY <1>1, FS_Interval DEF Newest
  <2> QED
    BY <2>1, FS_Subset
<1>3. \A i \in X : i \in Nat /\ rows[i].at \in Int /\ rows[i].raw \in Nat
  <2>1. DOMAIN receipts = 1..Len(receipts) /\ Len(receipts) \in Nat
    BY ReceiptsNumbered DEF SourcesInv
  <2> QED
    BY <1>1, <2>1 DEF SourcesInv, Sources, Newest
<1>4. \A i, j \in X : rows[i].raw = rows[j].raw => i = j
  <2> SUFFICES ASSUME NEW i \in X, NEW j \in X, rows[i].raw = rows[j].raw PROVE i = j
    OBVIOUS
  <2>1. i <= j /\ j <= i
    BY DEF Newest
  <2> QED
    BY <1>3, <2>1
<1>5. \A i, j \in X : <<i, j>> \in R <=> EarlierReceipt(i, j)
  OBVIOUS
<1> HIDE DEF R
<1>6. StrictlyOrders(R, X)
  <2>1. \A i \in X : ~EarlierReceipt(i, i)
    BY <1>3 DEF EarlierReceipt
  <2>2. \A i, j, k \in X :
          EarlierReceipt(i, j) /\ EarlierReceipt(j, k) => EarlierReceipt(i, k)
    BY <1>3 DEF EarlierReceipt
  <2>3. \A i, j \in X : i # j => EarlierReceipt(i, j) \/ EarlierReceipt(j, i)
    BY <1>3, <1>4 DEF EarlierReceipt
  <2> QED
    BY <1>5, <2>1, <2>2, <2>3 DEF StrictlyOrders
<1> QED
  BY <1>2, <1>4, <1>5, <1>6

InReceiptOrder(X) == Sorted(X, EarlierReceipt)

\* Sorted by receipt: the whole set, earlier receipts first.
LEMMA ReceiptOrderAscends ==
    ASSUME SourcesInv, NEW X \in SUBSET Newest(Versions), NEW s, s = InReceiptOrder(X)
    PROVE  /\ s \in Seq(X)
           /\ \A j, k \in DOMAIN s : j < k => EarlierReceipt(s[j], s[k])
           /\ \A i \in X : \E k \in DOMAIN s : s[k] = i
<1>1. IsFiniteSet(X)
  BY EarlierReceiptOrders
<1>2. PICK R : /\ StrictlyOrders(R, X)
               /\ \A i, j \in X : <<i, j>> \in R <=> EarlierReceipt(i, j)
  BY EarlierReceiptOrders
<1>3. s = [k \in 1..Cardinality(X) |->
             CHOOSE i \in X : Cardinality({j \in X : EarlierReceipt(j, i)}) = k - 1]
  BY DEF Sorted, InReceiptOrder
<1>4. \A i \in X : {j \in X : EarlierReceipt(j, i)} = {j \in X : <<j, i>> \in R}
  BY <1>2
<1>5. s = Ranked(R, X)
  BY <1>3, <1>4 DEF Ranked
<1>6. StrictlyOrders(R, X)
  BY <1>2
<1>7. /\ s \in Seq(X)
      /\ \A j, k \in DOMAIN s : j < k => <<s[j], s[k]>> \in R
      /\ \A i \in X : \E k \in DOMAIN s : s[k] = i
  BY <1>1, <1>5, <1>6, RankedAscends
<1>8. \A k \in DOMAIN s : s[k] \in X
  BY <1>7
<1> QED
  BY <1>2, <1>7, <1>8

\* The newest n of an ascending sequence: what is missing comes before the rest.
LEMMA LastOfIsSuffix ==
    ASSUME NEW X, NEW s \in Seq(X), NEW n \in Nat \ {0}
    PROVE  /\ Range(LastOf(s, n)) \subseteq Range(s)
           /\ \A k \in DOMAIN s :
                 \/ s[k] \in Range(LastOf(s, n))
                 \/ /\ Len(LastOf(s, n)) = n
                    /\ \A i \in Range(LastOf(s, n)) : \E l \in DOMAIN s : k < l /\ s[l] = i
<1>1. Len(s) \in Nat /\ DOMAIN s = 1..Len(s)
  OBVIOUS
<1>2. PICK m : m = IF Len(s) < n THEN 1 ELSE Len(s) - n + 1
  OBVIOUS
<1>3. PICK c : c = LastOf(s, n)
  OBVIOUS
<1>4. m \in 1..Len(s) + 1 /\ (m = 1 \/ Len(s) - m + 1 = n)
  BY <1>1, <1>2
<1>5. c = SubSeq(s, m, Len(s))
  BY <1>2, <1>3 DEF LastOf
<1>6. /\ Len(c) = Len(s) - m + 1
      /\ DOMAIN c = 1..(Len(s) - m + 1)
      /\ \A k \in DOMAIN c : c[k] = s[m + k - 1]
  BY <1>1, <1>4, <1>5
<1>7. \A k \in DOMAIN c : m + k - 1 \in DOMAIN s /\ m + k - 1 >= m
  BY <1>1, <1>4, <1>6
<1>8. \A i \in Range(c) : \E l \in DOMAIN s : m <= l /\ s[l] = i
  BY <1>6, <1>7 DEF Range
<1>9. ASSUME NEW k \in DOMAIN s, m <= k PROVE s[k] \in Range(c)
  <2>1. k - m + 1 \in DOMAIN c /\ m + (k - m + 1) - 1 = k
    BY <1>1, <1>4, <1>6, <1>9
  <2> QED
    BY <1>6, <2>1 DEF Range
<1>10. ASSUME NEW k \in DOMAIN s, ~(m <= k)
       PROVE  /\ Len(c) = n
              /\ \A i \in Range(c) : \E l \in DOMAIN s : k < l /\ s[l] = i
  <2>1. m # 1 /\ k < m
    BY <1>1, <1>4, <1>10
  <2>2. Len(c) = n
    BY <1>4, <1>6, <2>1
  <2>3. ASSUME NEW i \in Range(c) PROVE \E l \in DOMAIN s : k < l /\ s[l] = i
    <3>1. PICK l \in DOMAIN s : m <= l /\ s[l] = i
      BY <1>8
    <3>2. k < l
      BY <1>1, <1>4, <2>1, <3>1
    <3> QED
      BY <3>1, <3>2
  <2> QED
    BY <2>2, <2>3
<1>11. Range(c) \subseteq Range(s)
  BY <1>8 DEF Range
<1> QED
  BY <1>3, <1>9, <1>10, <1>11

\* What list_conversation_before answers: messages of the window, one row each,
\* and one is missing only when the answer is full and all of it is later.
LEMMA BeforeIsNewest ==
    ASSUME SourcesInv, NEW t, NEW h, h = ListConversationBefore(t, MaxMessages)
    PROVE  /\ Range(h) \subseteq Logical(Preceding(t))
           /\ \A i \in Logical(Preceding(t)) :
                 \/ i \in Range(h)
                 \/ Len(h) = MaxMessages /\ \A j \in Range(h) : EarlierReceipt(i, j)
<1>1. PICK X : X = Logical(Preceding(t))
  OBVIOUS
<1>2. X \in SUBSET Newest(Versions)
  BY <1>1 DEF Logical, Preceding
<1>3. PICK s : s = InReceiptOrder(X)
  OBVIOUS
<1>4. /\ s \in Seq(X)
      /\ \A j, k \in DOMAIN s : j < k => EarlierReceipt(s[j], s[k])
      /\ \A i \in X : \E k \in DOMAIN s : s[k] = i
  BY <1>2, <1>3, ReceiptOrderAscends
<1>5. h = LastOf(s, MaxMessages)
  BY <1>1, <1>3 DEF ListConversationBefore, InReceiptOrder
<1>6. MaxMessages \in Nat \ {0} /\ s \in Seq(X)
  BY <1>4, RequestAssumption
<1>7. /\ Range(h) \subseteq Range(s)
      /\ \A k \in DOMAIN s :
            \/ s[k] \in Range(h)
            \/ /\ Len(h) = MaxMessages
               /\ \A i \in Range(h) : \E l \in DOMAIN s : k < l /\ s[l] = i
  BY <1>5, <1>6, LastOfIsSuffix
<1>8. Range(s) \subseteq X
  BY <1>4 DEF Range
<1>9. ASSUME NEW i \in X, i \notin Range(h)
      PROVE  Len(h) = MaxMessages /\ \A j \in Range(h) : EarlierReceipt(i, j)
  <2>1. PICK k \in DOMAIN s : s[k] = i
    BY <1>4
  <2> QED
    BY <1>4, <1>7, <1>9, <2>1
<1> QED
  BY <1>1, <1>7, <1>8, <1>9

\* The context of a trigger, whose row need not be the newest any more.
LEMMA ContextIs ==
    ASSUME SourcesInv, NEW t, NEW h, h = ListConversationBefore(t, MaxMessages),
           NEW c, c = ContextOf(t)
    PROVE  /\ c \in Seq(Newest(Versions))
           /\ \A k \in DOMAIN c : c[k] \in Range(h) /\ rows[c[k]].message # rows[t].message
           /\ \A i \in Range(h) :
                 rows[i].message # rows[t].message => \E k \in DOMAIN c : c[k] = i
           /\ \A j, k \in DOMAIN c : j < k => EarlierReceipt(c[j], c[k])
           /\ \A j, k \in DOMAIN c : j <= k => ~EarlierReceipt(c[k], c[j])
           /\ \A j, k \in DOMAIN c : j < k => c[j] # c[k]
<1>1. PICK X : X = {i \in Range(h) : rows[i].message # rows[t].message}
  OBVIOUS
<1>2. c = InReceiptOrder(X)
  BY <1>1 DEF ContextOf, InReceiptOrder
<1>3. X \in SUBSET Newest(Versions)
  BY <1>1, BeforeIsNewest DEF Logical, Preceding
<1>4. /\ c \in Seq(X)
      /\ \A j, k \in DOMAIN c : j < k => EarlierReceipt(c[j], c[k])
      /\ \A i \in X : \E k \in DOMAIN c : c[k] = i
  BY <1>2, <1>3, ReceiptOrderAscends
<1>5. \A k \in DOMAIN c : c[k] \in X /\ k \in Nat
  BY <1>4
<1>6. PICK R : /\ StrictlyOrders(R, X)
               /\ \A i, l \in X : <<i, l>> \in R <=> EarlierReceipt(i, l)
  BY <1>3, EarlierReceiptOrders
<1>7. \A i, l \in X : ~EarlierReceipt(i, i) /\ (EarlierReceipt(i, l) => ~EarlierReceipt(l, i))
  BY <1>6 DEF StrictlyOrders
<1>8. ASSUME NEW j \in DOMAIN c, NEW k \in DOMAIN c, j <= k
      PROVE  ~EarlierReceipt(c[k], c[j])
  <2>1. j = k \/ j < k
    BY <1>5, <1>8
  <2> QED
    BY <1>4, <1>5, <1>7, <2>1
<1>9. \A j, k \in DOMAIN c : j < k => c[j] # c[k]
  BY <1>4, <1>5, <1>7
<1>10. c \in Seq(Newest(Versions))
  <2>1. PICK N : N = Newest(Versions)
    OBVIOUS
  <2>2. c \in Seq(N)
    BY <1>3, <1>4, <2>1
  <2> QED
    BY <2>1, <2>2
<1> QED
  BY <1>1, <1>4, <1>5, <1>8, <1>9, <1>10

\* For any traffic, repair and limit: the context of a trigger is the newest of
\* the messages sent before it, in order, each once and none of them its own.
THEOREM ContextPrecedes == Spec => []ContextPrecedesTrigger
<1>1. SourcesInv => ContextPrecedesTrigger
  <2> SUFFICES ASSUME SourcesInv, NEW t \in Newest(Versions)
               PROVE  LET c == ContextOf(t)
                          Same(i) == rows[i].message = rows[t].message
                          Full == Len(ListConversationBefore(t, MaxMessages)) = MaxMessages
                      IN  /\ \A k \in DOMAIN c :
                                /\ ~Same(c[k])
                                /\ rows[c[k]].group = rows[t].group
                                /\ BeforeTrigger(c[k], t)
                          /\ \A j, k \in DOMAIN c :
                                j < k => EarlierReceipt(c[j], c[k]) /\ ~SameMessage(c[j], c[k])
                          /\ \A i \in Preceding(t) :
                                \/ Same(i)
                                \/ \E k \in DOMAIN c : SameMessage(c[k], i)
                                \/ Full /\ \E l \in Logical(Preceding(t)) :
                                             /\ SameMessage(l, i)
                                             /\ \A k \in DOMAIN c : EarlierReceipt(l, c[k])
    BY DEF ContextPrecedesTrigger
  <2>1. PICK h : h = ListConversationBefore(t, MaxMessages)
    OBVIOUS
  <2>2. PICK c : c = ContextOf(t)
    OBVIOUS
  <2>3. PICK P : P = Preceding(t)
    OBVIOUS
  <2>4. /\ P \in SUBSET DOMAIN rows
        /\ Logical(P) \subseteq P
        /\ \A i \in P : rows[i].group = rows[t].group /\ BeforeTrigger(i, t)
    BY <2>3 DEF Preceding, Logical, Newest
  <2>5. /\ Range(h) \subseteq Logical(P)
        /\ \A i \in Logical(P) :
              \/ i \in Range(h)
              \/ Len(h) = MaxMessages /\ \A j \in Range(h) : EarlierReceipt(i, j)
    BY <2>1, <2>3, BeforeIsNewest
  <2>6. /\ \A k \in DOMAIN c : c[k] \in Range(h) /\ rows[c[k]].message # rows[t].message
        /\ \A i \in Range(h) :
              rows[i].message # rows[t].message => \E k \in DOMAIN c : c[k] = i
        /\ \A j, k \in DOMAIN c : j < k => EarlierReceipt(c[j], c[k]) /\ c[j] # c[k]
    BY <2>1, <2>2, ContextIs
  <2>7. ASSUME NEW k \in DOMAIN c
        PROVE  /\ rows[c[k]].message # rows[t].message
               /\ rows[c[k]].group = rows[t].group
               /\ BeforeTrigger(c[k], t)
    BY <2>4, <2>5, <2>6
  <2>8. /\ \A i, j \in Logical(P) : SameMessage(i, j) => i = j
        /\ \A i \in P : \E j \in Logical(P) : SameMessage(j, i)
    BY <2>4, LogicalKeepsOne
  <2>9. ASSUME NEW j \in DOMAIN c, NEW k \in DOMAIN c, j < k
        PROVE  EarlierReceipt(c[j], c[k]) /\ ~SameMessage(c[j], c[k])
    BY <2>5, <2>6, <2>8, <2>9
  <2>10. ASSUME NEW i \in P, rows[i].message # rows[t].message
         PROVE  \/ \E k \in DOMAIN c : SameMessage(c[k], i)
                \/ /\ Len(h) = MaxMessages
                   /\ \E l \in Logical(P) :
                        /\ SameMessage(l, i)
                        /\ \A k \in DOMAIN c : EarlierReceipt(l, c[k])
    <3>1. PICK l \in Logical(P) : SameMessage(l, i)
      BY <2>8
    <3>2. rows[l].message # rows[t].message
      BY <2>10, <3>1 DEF SameMessage
    <3>3. CASE l \in Range(h)
      BY <2>6, <3>1, <3>2, <3>3
    <3>4. CASE l \notin Range(h)
      <4>1. Len(h) = MaxMessages /\ \A j \in Range(h) : EarlierReceipt(l, j)
        BY <2>5, <3>4
      <4> QED
        BY <2>6, <3>1, <4>1
    <3> QED
      BY <3>3, <3>4
  <2> QED
    BY <2>1, <2>2, <2>3, <2>7, <2>9, <2>10
<1> QED
  BY <1>1, SourcesInvariant, PTL

(***************************************************************************)
(* The pictures of a request.                                              *)
(***************************************************************************)
\* The batch holds nothing but answers of this request.
Own(b) ==
    /\ b = [byUrl |-> b.byUrl, successes |-> b.successes, byContent |-> b.byContent,
            attempts |-> b.attempts]
    /\ \A u \in DOMAIN b.byUrl : b.byUrl[u].by = serial
    /\ \A k \in DOMAIN b.successes : b.successes[k].by = serial
    /\ \A c \in DOMAIN b.byContent : b.byContent[c].by = serial

\* The attempts of the batch are the downloads of this request.
Times(key) == {i \in DOMAIN fetched : fetched[i].key = key}
Counted(attempts) ==
    /\ IsFiniteSet(DOMAIN attempts)
    /\ Cardinality(DOMAIN attempts) <= MaxImages
    /\ {fetched[i].key : i \in DOMAIN fetched} = DOMAIN attempts
    /\ \A k \in DOMAIN attempts :
          /\ attempts[k] \in 1..2
          /\ IsFiniteSet(Times(k))
          /\ Cardinality(Times(k)) = attempts[k]

Active == request.state \in {"quote", "query", "history"}
Assistant == request.kind \in {"chat", "qa"}

ScopeOK ==
    /\ scope = [group |-> scope.group, batch |-> scope.batch]
    /\ request = [state |-> request.state, kind |-> request.kind,
                  trigger |-> request.trigger, context |-> request.context]
    /\ request.state = "quote" => Assistant
    /\ Active => request.trigger \in DOMAIN rows /\ Group # NoId
    /\ Active /\ Assistant => scope.group = Group
    /\ ~(Active /\ Assistant) => scope = NoScope

Logs == results \in Seq(Range(results)) /\ fetched \in Seq(Range(fetched))

\* In every state of a request in which it describes pictures, the batch it
\* uses; before that, that nothing was downloaded and the scope is fresh.
BatchOK ==
    /\ request.state \in {"quote", "history"} =>
         Own(BatchFor(Group)) /\ Counted(BatchFor(Group).attempts)
    /\ request.state = "query" =>
         fetched = <<>> /\ (Assistant => scope.batch = NewBatch)

PicturesInv == Logs /\ ScopeOK /\ DescriptionsAreOwn /\ FetchesBounded /\ BatchOK

(***************************************************************************)
(* Batches.                                                                *)
(***************************************************************************)
\* A batch begins with nothing in it.
LEMMA NewBatchIsEmpty ==
    /\ NewBatch = [byUrl |-> NewBatch.byUrl, successes |-> NewBatch.successes,
                   byContent |-> NewBatch.byContent, attempts |-> NewBatch.attempts]
    /\ DOMAIN NewBatch.byUrl = {} /\ DOMAIN NewBatch.successes = {}
    /\ DOMAIN NewBatch.byContent = {} /\ DOMAIN NewBatch.attempts = {}
BY DEF NewBatch, EmptyMap

LEMMA EmptyIsBounded ==
    \A f, attempts : f = <<>> /\ DOMAIN attempts = {} =>
        /\ f \in Seq(Range(f))
        /\ IsFiniteSet(DOMAIN attempts)
        /\ Cardinality(DOMAIN attempts) <= MaxImages
        /\ {f[i].key : i \in DOMAIN f} = {}
<1>1. MaxImages \in Nat
  BY PictureAssumption
<1> QED
  BY <1>1, FS_EmptySet DEF Range

\* What is kept is what the request finds next.
LEMMA KeepStores ==
    ASSUME ScopeOK, NEW group, NEW b, Keep(group, b)
    PROVE  /\ BatchFor(group)' = b
           /\ scope' = [group |-> scope'.group, batch |-> scope'.batch]
           /\ scope'.group = scope.group
           /\ ~Scoped(group) => scope' = scope
<1>1. CASE Scoped(group)
  <2>1. scope' = [scope EXCEPT !.batch = b]
    BY <1>1 DEF Keep
  <2>2. scope' = [group |-> scope.group, batch |-> b]
    BY <2>1 DEF ScopeOK
  <2> QED
    BY <1>1, <2>2 DEF BatchFor, Scoped
<1>2. CASE ~Scoped(group)
  BY <1>2 DEF Keep, BatchFor, Scoped, ScopeOK
<1> QED
  BY <1>1, <1>2

\* One more download is one more attempt, within the budget.
LEMMA FetchCounts ==
    ASSUME Logs, NEW b, Counted(b.attempts), NEW url, CanFetch(b, url), NEW row,
           fetched' = Append(fetched, [key |-> Key[url], row |-> row]),
           NEW attempts, attempts = Put(b.attempts, Key[url], Attempts(b, url) + 1)
    PROVE  Counted(attempts)' /\ fetched' \in Seq(Range(fetched'))
<1> DEFINE key == Key[url]
           n == Len(fetched) + 1
           a == b.attempts
<1>1. /\ fetched' \in Seq(Range(fetched'))
      /\ DOMAIN fetched = 1..Len(fetched)
      /\ DOMAIN fetched' = 1..n
      /\ n \notin DOMAIN fetched
      /\ DOMAIN fetched' = DOMAIN fetched \cup {n}
      /\ \A i \in DOMAIN fetched : fetched'[i] = fetched[i]
      /\ fetched'[n].key = key
  <2>1. Len(fetched) \in Nat
    BY AppendKeeps DEF Logs
  <2> QED
    BY <2>1, AppendKeeps DEF Logs
<1>2. /\ DOMAIN attempts = DOMAIN a \cup {key}
      /\ attempts[key] = Attempts(b, url) + 1
      /\ \A k \in DOMAIN a : k # key => attempts[k] = a[k]
  BY DEF Put
<1>3. MaxImages \in Nat /\ Cardinality(DOMAIN a) \in Nat
  BY PictureAssumption, FS_CardinalityType DEF Counted
<1>4. IsFiniteSet(DOMAIN attempts) /\ Cardinality(DOMAIN attempts) <= MaxImages
  <2>1. CASE key \in DOMAIN a
    BY <1>2, <2>1 DEF Counted
  <2>2. CASE key \notin DOMAIN a
    <3>1. Cardinality(DOMAIN a) < MaxImages
      BY <1>3, <2>2 DEF CanFetch, OverLimit
    <3>2. /\ IsFiniteSet(DOMAIN a \cup {key})
          /\ Cardinality(DOMAIN a \cup {key}) = Cardinality(DOMAIN a) + 1
      BY <2>2, FS_AddElement DEF Counted
    <3> QED
      BY <1>2, <1>3, <3>1, <3>2
  <2> QED
    BY <2>1, <2>2
<1>5. {fetched'[i].key : i \in DOMAIN fetched'} = DOMAIN attempts
  <2>1. {fetched[i].key : i \in DOMAIN fetched} = DOMAIN a
    BY DEF Counted
  <2>2. {fetched'[i].key : i \in DOMAIN fetched'}
          = {fetched[i].key : i \in DOMAIN fetched} \cup {key}
    BY <1>1
  <2> QED
    BY <1>2, <2>1, <2>2
<1>6. ASSUME NEW k, k # key PROVE Times(k)' = Times(k)
  BY <1>1, <1>6 DEF Times
<1>7. Times(key)' = Times(key) \cup {n} /\ n \notin Times(key)
  BY <1>1 DEF Times
<1>8. /\ IsFiniteSet(Times(key))
      /\ Cardinality(Times(key)) = Attempts(b, url)
      /\ Attempts(b, url) \in 0..1
  <2>1. CASE key \in DOMAIN a
    BY <2>1 DEF Counted, CanFetch, UsedUp, Attempts
  <2>2. CASE key \notin DOMAIN a
    <3>1. Times(key) = {}
      BY <2>2 DEF Counted, Times
    <3> QED
      BY <2>2, <3>1, FS_EmptySet DEF Attempts
  <2> QED
    BY <2>1, <2>2
<1>9. /\ IsFiniteSet(Times(key)')
      /\ Cardinality(Times(key)') = attempts[key]
      /\ attempts[key] \in 1..2
  BY <1>2, <1>7, <1>8, FS_AddElement
<1>10. ASSUME NEW k \in DOMAIN attempts
       PROVE  /\ attempts[k] \in 1..2
              /\ IsFiniteSet(Times(k)')
              /\ Cardinality(Times(k)') = attempts[k]
  BY <1>2, <1>6, <1>9 DEF Counted
<1> QED
  BY <1>1, <1>4, <1>5, <1>10 DEF Counted

(***************************************************************************)
(* Steps of one description.                                               *)
(***************************************************************************)
\* A text of this request joins the others.
LEMMA DescribeIsOwn ==
    ASSUME Logs, DescriptionsAreOwn, serial' = serial,
           NEW text, text.by = serial, Describe(text)
    PROVE  results' \in Seq(Range(results')) /\ DescriptionsAreOwn'
<1>1. PICK new : results' = Append(results, new) /\ new.text = text
  BY DEF Describe
<1>2. /\ results' \in Seq(Range(results'))
      /\ DOMAIN results' = 1..Len(results) + 1
      /\ DOMAIN results = 1..Len(results)
      /\ Len(results) \in Nat
      /\ \A i \in DOMAIN results : results'[i] = results[i]
      /\ results'[Len(results) + 1] = new
  BY <1>1, AppendKeeps DEF Logs
<1>3. \A i \in DOMAIN results' : i \in DOMAIN results \/ i = Len(results) + 1
  BY <1>2
<1> QED
  BY <1>1, <1>2, <1>3 DEF DescriptionsAreOwn

\* What a batch answers is of this request.
LEMMA KnownIsOwn ==
    ASSUME NEW b, Own(b), NEW url, Known(b, url) # <<>>
    PROVE  Known(b, url)[1].by = serial
<1>1. CASE Key[url] \in DOMAIN b.successes
  BY <1>1 DEF Known, Own
<1>2. CASE Key[url] \notin DOMAIN b.successes
  BY <1>2 DEF Known, Own
<1> QED
  BY <1>1, <1>2

LEMMA ReplaceThree ==
    ASSUME NEW u, NEW v, NEW w, NEW x, NEW y, NEW z, NEW a, NEW s,
           s = [[byUrl |-> u, successes |-> v, byContent |-> w, attempts |-> a]
                  EXCEPT !.byUrl = x, !.successes = y, !.byContent = z]
    PROVE  /\ s = [byUrl |-> x, successes |-> y, byContent |-> z, attempts |-> a]
           /\ s.byUrl = x /\ s.successes = y /\ s.byContent = z /\ s.attempts = a
<1>1. s = [byUrl |-> s.byUrl, successes |-> s.successes,
           byContent |-> s.byContent, attempts |-> s.attempts]
  OBVIOUS
<1>2. s.byUrl = x /\ s.successes = y /\ s.byContent = z /\ s.attempts = a
  OBVIOUS
<1> QED
  BY <1>1, <1>2

\* Neither a failed nor a successful download brings in an answer of another.
LEMMA AttemptedIs ==
    ASSUME NEW b, Own(b), NEW url
    PROVE  Attempted(b, url) =
             [byUrl |-> b.byUrl, successes |-> b.successes, byContent |-> b.byContent,
              attempts |-> Put(b.attempts, Key[url], Attempts(b, url) + 1)]
BY DEF Own, Attempted

LEMMA FailureIsOwn ==
    ASSUME NEW b, Own(b), NEW url, NEW text, text.by = serial, NEW new,
           new = [Attempted(b, url) EXCEPT !.byUrl = Put(@, url, text)]
    PROVE  Own(new) /\ new.attempts = Put(b.attempts, Key[url], Attempts(b, url) + 1)
<1> DEFINE attempts == Put(b.attempts, Key[url], Attempts(b, url) + 1)
           urls == Put(b.byUrl, url, text)
<1>1. \A u \in DOMAIN urls : urls[u].by = serial
  BY DEF Own, Put
<1>2. Attempted(b, url) = [byUrl |-> b.byUrl, successes |-> b.successes,
                           byContent |-> b.byContent, attempts |-> attempts]
  BY AttemptedIs
<1> HIDE DEF attempts
<1>3. new = [byUrl |-> urls, successes |-> b.successes, byContent |-> b.byContent,
             attempts |-> attempts]
  BY <1>2
<1> HIDE DEF urls
<1>4. /\ new.byUrl = urls /\ new.successes = b.successes
      /\ new.byContent = b.byContent /\ new.attempts = attempts
  BY <1>3
<1>5. new = [byUrl |-> new.byUrl, successes |-> new.successes,
             byContent |-> new.byContent, attempts |-> new.attempts]
  BY <1>3, <1>4, Zenon
<1>6. Own(new)
  BY <1>1, <1>4, <1>5 DEF Own
<1> QED
  BY <1>4, <1>6 DEF attempts

LEMMA SuccessIsOwn ==
    ASSUME NEW b, Own(b), NEW url, NEW text, text.by = serial, NEW new,
           new = [Attempted(b, url) EXCEPT
                    !.byUrl = Put(@, url, text),
                    !.successes = Put(@, Key[url], text),
                    !.byContent = Put(@, Digest(Key[url]), text)]
    PROVE  Own(new) /\ new.attempts = Put(b.attempts, Key[url], Attempts(b, url) + 1)
<1> DEFINE attempts == Put(b.attempts, Key[url], Attempts(b, url) + 1)
           urls == Put(b.byUrl, url, text)
           found == Put(b.successes, Key[url], text)
           contents == Put(b.byContent, Digest(Key[url]), text)
<1>1. /\ \A u \in DOMAIN urls : urls[u].by = serial
      /\ \A k \in DOMAIN found : found[k].by = serial
      /\ \A c \in DOMAIN contents : contents[c].by = serial
  BY DEF Own, Put
<1>2. Attempted(b, url) = [byUrl |-> b.byUrl, successes |-> b.successes,
                           byContent |-> b.byContent, attempts |-> attempts]
  BY AttemptedIs
<1> HIDE DEF attempts
<1>3. new = [[byUrl |-> b.byUrl, successes |-> b.successes,
              byContent |-> b.byContent, attempts |-> attempts]
               EXCEPT !.byUrl = urls, !.successes = found, !.byContent = contents]
  BY <1>2
<1> HIDE DEF urls, found, contents
<1>4. new = [byUrl |-> urls, successes |-> found, byContent |-> contents,
             attempts |-> attempts]
  BY <1>3, ReplaceThree
<1>5. /\ new.byUrl = urls /\ new.successes = found
      /\ new.byContent = contents /\ new.attempts = attempts
  BY <1>3, ReplaceThree
<1>6. new = [byUrl |-> new.byUrl, successes |-> new.successes,
             byContent |-> new.byContent, attempts |-> new.attempts]
  BY <1>4, <1>5, Zenon
<1>7. Own(new)
  BY <1>1, <1>5, <1>6 DEF Own
<1> QED
  BY <1>5, <1>7 DEF attempts

(***************************************************************************)
(* Steps of a request.                                                     *)
(***************************************************************************)
\* A description that costs nothing.
LEMMA FreeDescriptionKeeps ==
    ASSUME PicturesInv, UNCHANGED <<rows, request, scope, batch, fetched, serial>>,
           NEW text, text.by = serial, Describe(text)
    PROVE  PicturesInv'
<1>1. results' \in Seq(Range(results')) /\ DescriptionsAreOwn'
  BY DescribeIsOwn DEF PicturesInv
<1>2. Logs' /\ FetchesBounded'
  <2>1. fetched' = fetched
    OBVIOUS
  <2>2. FetchesBounded'
    BY <2>1, Zenon DEF PicturesInv, FetchesBounded
  <2> QED
    BY <1>1, <2>2 DEF PicturesInv, Logs
<1>3. ScopeOK'
  BY DEF PicturesInv, ScopeOK, Active, Assistant, Group
<1>4. BatchFor(Group)' = BatchFor(Group)
  BY DEF Group, BatchFor, Scoped
<1>5. \A b : Own(b) => Own(b)'
  BY DEF Own
<1>6. \A attempts : Counted(attempts) => Counted(attempts)'
  BY DEF Counted, Times
<1>7. BatchOK'
  BY <1>4, <1>5, <1>6 DEF PicturesInv, BatchOK, Assistant
<1> QED
  BY <1>1, <1>2, <1>3, <1>7 DEF PicturesInv

\* A download, whatever came of it.
LEMMA FetchKeeps ==
    ASSUME PicturesInv, request.state \in {"quote", "history"},
           UNCHANGED <<rows, request, serial>>,
           NEW group, group = Group, NEW url, CanFetch(BatchFor(group), url), NEW row,
           fetched' = Append(fetched, [key |-> Key[url], row |-> row]),
           NEW text, text.by = serial, Describe(text),
           NEW b, Own(b), Keep(group, b),
           b.attempts = Put(BatchFor(group).attempts, Key[url],
                            Attempts(BatchFor(group), url) + 1)
    PROVE  PicturesInv'
<1>1. results' \in Seq(Range(results')) /\ DescriptionsAreOwn'
  BY DescribeIsOwn DEF PicturesInv
<1>2. PICK old : old = BatchFor(group)
  OBVIOUS
<1>3. Counted(old.attempts)
  BY <1>2 DEF PicturesInv, BatchOK
<1>4. Counted(b.attempts)' /\ fetched' \in Seq(Range(fetched'))
  BY <1>2, <1>3, FetchCounts DEF PicturesInv
<1>5. /\ BatchFor(group)' = b
      /\ scope' = [group |-> scope'.group, batch |-> scope'.batch]
      /\ scope'.group = scope.group
      /\ ~Scoped(group) => scope' = scope
  BY KeepStores DEF PicturesInv
<1>6. group = Group'
  BY DEF Group
<1>7. ScopeOK'
  <2>1. Active /\ Group # NoId /\ request.trigger \in DOMAIN rows
    BY DEF PicturesInv, ScopeOK, Active
  <2>2. Assistant => scope'.group = Group'
    BY <1>5, <1>6, <2>1 DEF PicturesInv, ScopeOK
  <2>3. ~Assistant => scope' = NoScope
    <3>1. ~Assistant => scope = NoScope
      BY DEF PicturesInv, ScopeOK
    <3>2. ~Assistant => ~Scoped(group)
      BY <2>1, <3>1 DEF Scoped, NoScope, NoId
    <3> QED
      BY <1>5, <3>1, <3>2
  <2>4. /\ request = [state |-> request.state, kind |-> request.kind,
                      trigger |-> request.trigger, context |-> request.context]
        /\ request.state = "quote" => Assistant
    BY DEF PicturesInv, ScopeOK
  <2> QED
    BY <1>5, <2>1, <2>2, <2>3, <2>4 DEF ScopeOK, Active, Assistant, Group
<1>8. Own(b)'
  BY DEF Own
<1>9. BatchOK'
  BY <1>4, <1>5, <1>6, <1>8 DEF BatchOK
<1>10. FetchesBounded'
  <2>1. /\ {fetched'[i].key : i \in DOMAIN fetched'} = DOMAIN b.attempts
        /\ Cardinality(DOMAIN b.attempts) <= MaxImages
    BY <1>4 DEF Counted
  <2>2. ASSUME NEW k \in DOMAIN b.attempts
        PROVE  Cardinality({i \in DOMAIN fetched' : fetched'[i].key = k}) <= 2
    <3>1. Cardinality(Times(k)') = b.attempts[k] /\ b.attempts[k] \in 1..2
      BY <1>4, <2>2 DEF Counted
    <3>2. Times(k)' = {i \in DOMAIN fetched' : fetched'[i].key = k}
      BY DEF Times
    <3>3. Cardinality(Times(k)') <= 2
      BY <3>1
    <3> QED
      BY <3>2, <3>3
  <2> QED
    BY <2>1, <2>2 DEF FetchesBounded
<1> QED
  BY <1>1, <1>4, <1>7, <1>9, <1>10 DEF PicturesInv, Logs

LEMMA DescribePictureKeeps == PicturesInv /\ DescribePicture => PicturesInv'
<1> SUFFICES ASSUME PicturesInv, DescribePicture PROVE PicturesInv'
  OBVIOUS
<1>1. PICK group : group = Group
  OBVIOUS
<1>2. /\ request.state \in {"quote", "history"}
      /\ UNCHANGED <<rows, request>>
      /\ Enrich(group)
  BY <1>1 DEF DescribePicture, historyVars
<1>3. PICK b, url, row : b = BatchFor(group) /\ url = work[1].url /\ row = work[1].row
  OBVIOUS
<1>4. Own(b)
  BY <1>1, <1>2, <1>3 DEF PicturesInv, BatchOK
<1>5. CASE Reuse(group)
  <2>1. PICK text : text = Known(b, url)[1] /\ Known(b, url) # <<>> /\ Describe(text)
    BY <1>3, <1>5 DEF Reuse
  <2>2. text.by = serial
    BY <1>4, <2>1, KnownIsOwn
  <2> QED
    BY <1>2, <1>5, <2>1, <2>2, FreeDescriptionKeeps DEF Reuse
<1>6. CASE Refuse(group)
  <2>1. PICK text : text.by = serial /\ Describe(text)
    BY <1>6 DEF Refuse, Note
  <2> QED
    BY <1>2, <1>6, <2>1, FreeDescriptionKeeps DEF Refuse
<1>7. CASE DescribeSegment
  <2>1. PICK text : text.by = serial /\ Describe(text)
    BY <1>7 DEF DescribeSegment, Note
  <2> QED
    BY <1>2, <1>7, <2>1, FreeDescriptionKeeps DEF DescribeSegment
<1>8. CASE FetchFails(group)
  <2>1. PICK text :
          /\ text.by = serial
          /\ Describe(text)
          /\ Keep(group, [Attempted(b, url) EXCEPT !.byUrl = Put(@, url, text)])
    BY <1>3, <1>8 DEF FetchFails, Note
  <2>2. PICK new : new = [Attempted(b, url) EXCEPT !.byUrl = Put(@, url, text)]
    OBVIOUS
  <2>3. Own(new) /\ new.attempts = Put(b.attempts, Key[url], Attempts(b, url) + 1)
    BY <1>4, <2>1, <2>2, FailureIsOwn
  <2>4. /\ CanFetch(BatchFor(group), url)
        /\ fetched' = Append(fetched, [key |-> Key[url], row |-> row])
        /\ serial' = serial
    BY <1>3, <1>8 DEF FetchFails
  <2> QED
    BY <1>1, <1>2, <1>3, <2>1, <2>2, <2>3, <2>4, FetchKeeps
<1>9. CASE FetchSucceeds(group)
  <2>1. PICK text : text = IF Digest(Key[url]) \in DOMAIN b.byContent
                           THEN b.byContent[Digest(Key[url])]
                           ELSE Note(Content[Key[url]])
    OBVIOUS
  <2>2. text.by = serial
    BY <1>4, <2>1 DEF Own, Note
  <2>3. PICK new : new = [Attempted(b, url) EXCEPT
                            !.byUrl = Put(@, url, text),
                            !.successes = Put(@, Key[url], text),
                            !.byContent = Put(@, Digest(Key[url]), text)]
    OBVIOUS
  <2>4. Own(new) /\ new.attempts = Put(b.attempts, Key[url], Attempts(b, url) + 1)
    BY <1>4, <2>2, <2>3, SuccessIsOwn
  <2>5. /\ CanFetch(BatchFor(group), url)
        /\ Describe(text)
        /\ Keep(group, new)
        /\ fetched' = Append(fetched, [key |-> Key[url], row |-> row])
        /\ serial' = serial
    BY <1>3, <1>9, <2>1, <2>3 DEF FetchSucceeds
  <2> QED
    BY <1>1, <1>2, <1>3, <2>2, <2>4, <2>5, FetchKeeps
<1> QED
  BY <1>2, <1>5, <1>6, <1>7, <1>8, <1>9 DEF Enrich

\* A request begins with nothing; an assistant's in a scope of its group.
LEMMA StartRequestKeeps ==
    ASSUME PicturesInv, NEW t \in DOMAIN rows, NEW kind \in Kinds, StartRequest(t, kind)
    PROVE  PicturesInv'
<1>1. /\ request' = [state |-> IF kind = "chat" THEN "quote" ELSE "query",
                     kind |-> kind, trigger |-> t, context |-> <<>>]
      /\ results' = <<>> /\ fetched' = <<>>
      /\ batch' = NewBatch
      /\ rows' = rows
      /\ ~Active
      /\ rows[t].group # NoId
  BY DEF StartRequest, BeginCall, historyVars, Active, ValidTrigger
<1>2. IF kind = "summary" THEN scope' = NoScope
      ELSE scope' = [group |-> rows[t].group, batch |-> NewBatch]
  BY <1>1 DEF StartRequest, EnterScope, PicturesInv, ScopeOK
<1>3. /\ request'.kind = kind /\ request'.trigger = t
      /\ request'.state = IF kind = "chat" THEN "quote" ELSE "query"
      /\ Group' = rows[t].group
  BY <1>1 DEF Group
<1>4. Assistant' <=> kind # "summary"
  BY <1>3 DEF Assistant, Kinds
<1>5. ScopeOK'
  <2>1. scope' = [group |-> scope'.group, batch |-> scope'.batch]
    BY <1>2 DEF NoScope
  <2>2. request' = [state |-> request'.state, kind |-> request'.kind,
                    trigger |-> request'.trigger, context |-> request'.context]
    BY <1>1
  <2>3. Active'
    BY <1>3 DEF Active
  <2> QED
    BY <1>1, <1>2, <1>3, <1>4, <2>1, <2>2, <2>3 DEF ScopeOK
<1>6. Own(NewBatch)' /\ Counted(NewBatch.attempts)'
  BY <1>1, NewBatchIsEmpty, EmptyIsBounded DEF Own, Counted
<1>7. BatchOK'
  <2>1. CASE kind = "chat"
    BY <1>2, <1>3, <1>6, <2>1 DEF BatchOK, BatchFor, Scoped
  <2>2. CASE kind # "chat"
    BY <1>1, <1>2, <1>3, <1>4, <2>2 DEF BatchOK
  <2> QED
    BY <2>1, <2>2
<1>8. Logs' /\ DescriptionsAreOwn' /\ FetchesBounded'
  <2>1. Cardinality({}) <= MaxImages
    BY FS_EmptySet, PictureAssumption
  <2>2. Logs' /\ DescriptionsAreOwn'
    BY <1>1, EmptyIsBounded, NewBatchIsEmpty DEF Logs, DescriptionsAreOwn
  <2>3. {fetched'[i].key : i \in DOMAIN fetched'} = {}
    BY <1>1
  <2> QED
    BY <2>1, <2>2, <2>3 DEF FetchesBounded
<1> QED
  BY <1>5, <1>7, <1>8 DEF PicturesInv

\* A step that leaves the pictures alone.
LEMMA LogsStay ==
    ASSUME PicturesInv, UNCHANGED <<results, fetched, serial>>
    PROVE  Logs' /\ DescriptionsAreOwn' /\ FetchesBounded'
<1>1. Logs' /\ DescriptionsAreOwn'
  BY DEF PicturesInv, Logs, DescriptionsAreOwn
<1>2. fetched' = fetched
  OBVIOUS
<1>3. FetchesBounded'
  BY <1>2, Zenon DEF PicturesInv, FetchesBounded
<1> QED
  BY <1>1, <1>3

\* The scope carries what the quote cost over to the history.
LEMMA QueryHistoryKeeps == PicturesInv /\ QueryHistory => PicturesInv'
<1> SUFFICES ASSUME PicturesInv, QueryHistory PROVE PicturesInv'
  OBVIOUS
<1>1. /\ Logs' /\ DescriptionsAreOwn' /\ FetchesBounded'
      /\ UNCHANGED <<rows, scope, fetched, serial>>
      /\ request.state \in {"quote", "query"}
  BY LogsStay DEF QueryHistory, historyVars
<1>2. request = [state |-> request.state, kind |-> request.kind,
                 trigger |-> request.trigger, context |-> request.context]
  BY DEF PicturesInv, ScopeOK
<1>3. \/ /\ request.kind = "summary"
         /\ request' = [request EXCEPT !.state = "failed"]
      \/ /\ \E context : request' = [request EXCEPT !.state = "history", !.context = context]
         /\ batch' = NewBatch
  BY DEF QueryHistory, BeginCall
<1>4. CASE request.kind = "summary" /\ request' = [request EXCEPT !.state = "failed"]
  <2>1. /\ request' = [state |-> request'.state, kind |-> request'.kind,
                       trigger |-> request'.trigger, context |-> request'.context]
        /\ request'.state = "failed"
    BY <1>2, <1>4
  <2>2. scope' = NoScope
    BY <1>1, <1>4 DEF PicturesInv, ScopeOK, Assistant
  <2>3. ScopeOK' /\ BatchOK'
    BY <1>1, <2>1, <2>2 DEF PicturesInv, ScopeOK, BatchOK, Active
  <2> QED
    BY <1>1, <2>3 DEF PicturesInv
<1>5. CASE /\ \E context : request' = [request EXCEPT !.state = "history", !.context = context]
           /\ batch' = NewBatch
  <2>1. /\ request' = [state |-> request'.state, kind |-> request'.kind,
                       trigger |-> request'.trigger, context |-> request'.context]
        /\ request'.state = "history"
        /\ request'.kind = request.kind /\ request'.trigger = request.trigger
    BY <1>2, <1>5
  <2>2. Active /\ Active' /\ Group' = Group /\ (Assistant' <=> Assistant)
    BY <1>1, <2>1 DEF Active, Group, Assistant
  <2>3. ScopeOK'
    BY <1>1, <2>1, <2>2 DEF PicturesInv, ScopeOK
  <2>4. \A b : Own(b) => Own(b)'
    BY <1>1 DEF Own
  <2>5. \A attempts : Counted(attempts) => Counted(attempts)'
    BY <1>1 DEF Counted, Times
  <2>6. fetched = <<>> => Own(NewBatch)' /\ Counted(NewBatch.attempts)'
    BY <1>1, NewBatchIsEmpty, EmptyIsBounded DEF Own, Counted
  <2>7. CASE request.state = "quote"
    <3>1. scope.group = Group /\ BatchFor(Group)' = BatchFor(Group)
      BY <1>1, <2>2, <2>7 DEF PicturesInv, ScopeOK, BatchFor, Scoped
    <3> QED
      BY <1>1, <2>1, <2>3, <2>4, <2>5, <2>7, <3>1 DEF PicturesInv, BatchOK
  <2>8. CASE request.state = "query"
    <3>1. fetched = <<>> /\ (Assistant => scope.batch = NewBatch)
      BY <2>8 DEF PicturesInv, BatchOK
    <3>2. BatchFor(Group)' = NewBatch
      <4>1. CASE Assistant
        BY <1>1, <2>2, <3>1, <4>1 DEF PicturesInv, ScopeOK, BatchFor, Scoped
      <4>2. CASE ~Assistant
        <5>1. scope' = NoScope /\ Group # NoId
          BY <1>1, <2>2, <4>2 DEF PicturesInv, ScopeOK
        <5> QED
          BY <1>5, <2>2, <5>1 DEF BatchFor, Scoped, NoScope, NoId
      <4> QED
        BY <4>1, <4>2
    <3> QED
      BY <1>1, <2>1, <2>3, <2>6, <3>1, <3>2 DEF PicturesInv, BatchOK
  <2> QED
    BY <1>1, <2>7, <2>8
<1> QED
  BY <1>3, <1>4, <1>5

LEMMA EndRequestKeeps == PicturesInv /\ EndRequest => PicturesInv'
<1> SUFFICES ASSUME PicturesInv, EndRequest PROVE PicturesInv'
  OBVIOUS
<1>1. Logs' /\ DescriptionsAreOwn' /\ FetchesBounded'
  BY LogsStay DEF EndRequest
<1>2. /\ request' = [state |-> request'.state, kind |-> request'.kind,
                     trigger |-> request'.trigger, context |-> request'.context]
      /\ request'.state \in {"done", "failed"}
  <2>1. request = [state |-> request.state, kind |-> request.kind,
                   trigger |-> request.trigger, context |-> request.context]
    BY DEF PicturesInv, ScopeOK
  <2> QED
    BY <2>1 DEF EndRequest
<1>3. scope' = NoScope
  BY DEF EndRequest, ExitScope, PicturesInv, ScopeOK, Assistant
<1>4. ScopeOK' /\ BatchOK'
  BY <1>2, <1>3 DEF ScopeOK, BatchOK, Active, NoScope
<1> QED
  BY <1>1, <1>4 DEF PicturesInv

\* The history may grow: the trigger stays what it was.
LEMMA HistoryStepKeeps ==
    ASSUME PicturesInv, UNCHANGED <<pictureVars, request>>,
           \A i \in DOMAIN rows : i \in DOMAIN rows' /\ rows'[i] = rows[i]
    PROVE  PicturesInv'
<1>1. /\ Logs' /\ DescriptionsAreOwn' /\ FetchesBounded'
      /\ UNCHANGED <<scope, batch, fetched, serial, request>>
  BY LogsStay DEF pictureVars
<1>2. Active => Group' = Group
  BY <1>1 DEF PicturesInv, ScopeOK, Group
<1>3. ScopeOK'
  BY <1>1, <1>2 DEF PicturesInv, ScopeOK, Active, Assistant
<1>4. \A b : Own(b) => Own(b)'
  BY <1>1 DEF Own
<1>5. \A attempts : Counted(attempts) => Counted(attempts)'
  BY <1>1 DEF Counted, Times
<1>6. Active => BatchFor(Group)' = BatchFor(Group)
  BY <1>1, <1>2 DEF BatchFor, Scoped
<1>7. BatchOK'
  BY <1>1, <1>4, <1>5, <1>6 DEF PicturesInv, BatchOK, Active, Assistant
<1> QED
  BY <1>1, <1>3, <1>7 DEF PicturesInv

(***************************************************************************)
(* The theorems.                                                           *)
(***************************************************************************)
LEMMA PicturesInvInit == Init => PicturesInv
<1> SUFFICES ASSUME Init PROVE PicturesInv
  OBVIOUS
<1>1. /\ scope = NoScope /\ results = <<>> /\ fetched = <<>> /\ request = NoRequest
  BY DEF Init, PicturesInit
<1>2. Logs /\ DescriptionsAreOwn /\ FetchesBounded
  <2>1. Cardinality({}) <= MaxImages
    BY FS_EmptySet, PictureAssumption
  <2>2. Logs /\ DescriptionsAreOwn
    BY <1>1, EmptyIsBounded, NewBatchIsEmpty DEF Logs, DescriptionsAreOwn
  <2>3. {fetched[i].key : i \in DOMAIN fetched} = {}
    BY <1>1
  <2> QED
    BY <2>1, <2>2, <2>3 DEF FetchesBounded
<1>3. ScopeOK /\ BatchOK
  BY <1>1 DEF ScopeOK, BatchOK, Active, NoRequest, NoScope
<1> QED
  BY <1>2, <1>3 DEF PicturesInv

LEMMA PicturesInvNext == HistoryInv /\ PicturesInv /\ [Next]_vars => PicturesInv'
<1> SUFFICES ASSUME HistoryInv, PicturesInv, [Next]_vars PROVE PicturesInv'
  OBVIOUS
<1>1. CASE HistoryStep /\ UNCHANGED <<pictureVars, request>>
  BY <1>1, RowsStay, HistoryStepKeeps
<1>2. CASE RequestStep
  <2>1. ASSUME NEW t \in DOMAIN rows, NEW kind \in Kinds, StartRequest(t, kind)
        PROVE  PicturesInv'
    BY <2>1, StartRequestKeeps
  <2> QED
    BY <1>2, <2>1, QueryHistoryKeeps, DescribePictureKeeps, EndRequestKeeps DEF RequestStep
<1>3. CASE UNCHANGED vars
  BY <1>3, HistoryStepKeeps DEF vars, historyVars
<1> QED
  BY <1>1, <1>2, <1>3 DEF Next

THEOREM PicturesInvariant == Spec => []PicturesInv
BY HistoryInvariant, PicturesInvInit, PicturesInvNext, PTL DEF Spec

\* For any budget, history and failures: a prompt tells of no picture what an
\* earlier request, of this or of another group, found out or failed to.
THEOREM NoForeignDescription == Spec => []DescriptionsAreOwn
<1>1. PicturesInv => DescriptionsAreOwn
  BY DEF PicturesInv
<1> QED
  BY <1>1, PicturesInvariant, PTL

\* For any budget: quote and history together download at most MaxImages
\* different display pictures, none more than twice.
THEOREM BudgetHolds == Spec => []FetchesBounded
<1>1. PicturesInv => FetchesBounded
  BY DEF PicturesInv
<1> QED
  BY <1>1, PicturesInvariant, PTL

(***************************************************************************)
(* The descriptions agree.  Of the batch it takes to know that the answers *)
(* it keeps are right, and that what was told is among them.               *)
(***************************************************************************)
Answers(b) ==
    /\ \A k \in DOMAIN b.successes : b.successes[k].of = Content[k]
    /\ \A c \in DOMAIN b.byContent : b.byContent[c].of = c
    /\ \A u \in DOMAIN b.byUrl :
          Key[u] \in DOMAIN b.successes \/ b.byUrl[u].of \in Reasons

Told(b) ==
    \A i \in DOMAIN results :
        results[i].picture.display /\ Telling(results[i].text) =>
            /\ Key[results[i].picture.url] \in DOMAIN b.successes
            /\ b.successes[Key[results[i].picture.url]] = results[i].text

AgreeInv ==
    /\ request.state \in {"quote", "history"} =>
         Answers(BatchFor(Group)) /\ Told(BatchFor(Group))
    /\ request.state = "query" => results = <<>>
    /\ DescriptionsAgree

\* A description is none of the notes.
LEMMA NotesTellNothing == \A text : text.of \in Notes => ~Telling(text)
BY ContentAssumption DEF Telling

\* A text that is right about its picture and the one already told of it, if
\* any was, joins the others; b is what the request knows afterwards.
LEMMA DescriptionJoins ==
    ASSUME Logs, DescriptionsAgree, NEW text, NEW p, p = work[1], Describe(text),
           Telling(text) => text.of = Content[Key[p.url]],
           NEW old, Told(old), NEW b, Answers(b),
           \A k \in DOMAIN old.successes :
              k \in DOMAIN b.successes /\ b.successes[k] = old.successes[k],
           p.display /\ Key[p.url] \in DOMAIN old.successes =>
              text = old.successes[Key[p.url]],
           p.display /\ Telling(text) =>
              Key[p.url] \in DOMAIN b.successes /\ b.successes[Key[p.url]] = text
    PROVE  DescriptionsAgree' /\ Told(b)'
<1> DEFINE n == Len(results) + 1
<1>1. PICK new : results' = Append(results, new) /\ new.text = text /\ new.picture = p
  BY DEF Describe
<1>2. /\ DOMAIN results' = 1..n
      /\ DOMAIN results = 1..Len(results)
      /\ Len(results) \in Nat
      /\ \A i \in DOMAIN results : results'[i] = results[i]
      /\ results'[n] = new
  BY <1>1, AppendKeeps DEF Logs
<1>3. DOMAIN results' = DOMAIN results \cup {n} /\ \A i \in DOMAIN results : ~(i > n)
  BY <1>2
<1>4. n \in Nat /\ ~(n > n)
  BY <1>2
<1> HIDE DEF n
<1>5. \A i \in DOMAIN results' :
        IF i = n THEN results'[i].text = text /\ results'[i].picture = p
        ELSE i \in DOMAIN results /\ results'[i] = results[i]
  BY <1>1, <1>2, <1>3
<1>6. Told(b)'
  <2> SUFFICES ASSUME NEW i \in DOMAIN results',
                      results'[i].picture.display, Telling(results'[i].text)
               PROVE  /\ Key[results'[i].picture.url] \in DOMAIN b.successes
                      /\ b.successes[Key[results'[i].picture.url]] = results'[i].text
    BY DEF Told, Telling
  <2>1. CASE i = n
    BY <1>5, <2>1
  <2>2. CASE i # n
    BY <1>5, <2>2 DEF Told
  <2> QED
    BY <2>1, <2>2
<1>7. DescriptionsAgree'
  <2> SUFFICES ASSUME NEW i \in DOMAIN results'
               PROVE  /\ Telling(results'[i].text) =>
                           results'[i].text.of = Content[Key[results'[i].picture.url]]
                      /\ results'[i].picture.display /\ Telling(results'[i].text) =>
                           \A j \in DOMAIN results' :
                              /\ j > i
                              /\ results'[j].picture.display
                              /\ Key[results'[j].picture.url] = Key[results'[i].picture.url]
                              => results'[j].text = results'[i].text
    BY DEF DescriptionsAgree, Telling
  <2>1. Telling(results'[i].text) =>
          results'[i].text.of = Content[Key[results'[i].picture.url]]
    BY <1>5 DEF DescriptionsAgree
  <2>2. ASSUME results'[i].picture.display, Telling(results'[i].text),
               NEW j \in DOMAIN results', j > i, results'[j].picture.display,
               Key[results'[j].picture.url] = Key[results'[i].picture.url]
        PROVE  results'[j].text = results'[i].text
    <3>1. i # n
      BY <1>3, <1>4, <1>5, <2>2
    <3>2. i \in DOMAIN results /\ results'[i] = results[i]
      BY <1>5, <3>1
    <3>3. CASE j = n
      <4>1. /\ Key[results[i].picture.url] \in DOMAIN old.successes
            /\ old.successes[Key[results[i].picture.url]] = results[i].text
        BY <2>2, <3>2 DEF Told
      <4> QED
        BY <1>5, <2>2, <3>2, <3>3, <4>1
    <3>4. CASE j # n
      BY <1>5, <2>2, <3>2, <3>4 DEF DescriptionsAgree
    <3> QED
      BY <3>3, <3>4
  <2> QED
    BY <2>1, <2>2
<1> QED
  BY <1>6, <1>7

\* While a request describes pictures it keeps its group, and works on with
\* what it keeps.
LEMMA DescribingStays ==
    ASSUME PicturesInv, DescribePicture
    PROVE  /\ request.state \in {"quote", "history"} /\ request' = request
           /\ Group' = Group
           /\ UNCHANGED scope /\ UNCHANGED batch => BatchFor(Group)' = BatchFor(Group)
           /\ \A b : Keep(Group, b) => BatchFor(Group)' = b
<1>1. request.state \in {"quote", "history"} /\ UNCHANGED <<request, rows>>
  BY DEF DescribePicture, historyVars
<1>2. Group' = Group
  BY <1>1 DEF Group
<1>3. ASSUME NEW b, Keep(Group, b) PROVE BatchFor(Group)' = b
  <2>1. PICK group : group = Group
    OBVIOUS
  <2>2. BatchFor(group)' = b
    BY <1>3, <2>1, KeepStores DEF PicturesInv
  <2> QED
    BY <1>2, <2>1, <2>2
<1>4. UNCHANGED scope /\ UNCHANGED batch => BatchFor(Group)' = BatchFor(Group)
  BY <1>2 DEF BatchFor, Scoped
<1> QED
  BY <1>1, <1>2, <1>3, <1>4

\* What a batch answers is right, or tells nothing.
LEMMA KnownAnswers ==
    ASSUME NEW b, Answers(b), NEW url, Known(b, url) # <<>>, NEW text, text = Known(b, url)[1]
    PROVE  /\ Key[url] \in DOMAIN b.successes => text = b.successes[Key[url]]
           /\ Telling(text) => Key[url] \in DOMAIN b.successes /\ text.of = Content[Key[url]]
<1>1. CASE Key[url] \in DOMAIN b.successes
  BY <1>1 DEF Known, Answers
<1>2. CASE Key[url] \notin DOMAIN b.successes
  <2>1. url \in DOMAIN b.byUrl /\ text = b.byUrl[url]
    BY <1>2 DEF Known
  <2>2. text.of \in Notes
    BY <1>2, <2>1 DEF Answers, Notes
  <2> QED
    BY <1>2, <2>2, NotesTellNothing
<1> QED
  BY <1>1, <1>2

\* The batch after a failure and after a success.
Failed(b, url, text) == [Attempted(b, url) EXCEPT !.byUrl = Put(@, url, text)]
Succeeded(b, url, text) ==
    [Attempted(b, url) EXCEPT
       !.byUrl = Put(@, url, text),
       !.successes = Put(@, Key[url], text),
       !.byContent = Put(@, Digest(Key[url]), text)]

\* A failure is kept for its URL only.
LEMMA FailureAnswers ==
    ASSUME NEW b, Own(b), Answers(b), NEW url, NEW text, text.of \in Reasons, NEW new,
           new = Failed(b, url, text)
    PROVE  Answers(new) /\ new.successes = b.successes
<1> DEFINE attempts == Put(b.attempts, Key[url], Attempts(b, url) + 1)
           urls == Put(b.byUrl, url, text)
<1>1. \A u \in DOMAIN urls : Key[u] \in DOMAIN b.successes \/ urls[u].of \in Reasons
  BY DEF Answers, Put
<1>2. Attempted(b, url) = [byUrl |-> b.byUrl, successes |-> b.successes,
                           byContent |-> b.byContent, attempts |-> attempts]
  BY AttemptedIs
<1> HIDE DEF attempts
<1>3. new = [byUrl |-> urls, successes |-> b.successes, byContent |-> b.byContent,
             attempts |-> attempts]
  BY <1>2 DEF Failed
<1> HIDE DEF urls
<1>4. new.byUrl = urls /\ new.successes = b.successes /\ new.byContent = b.byContent
  BY <1>3
<1> QED
  BY <1>1, <1>4 DEF Answers

\* A description is kept for its URL, its picture and its content.
LEMMA SuccessAnswers ==
    ASSUME NEW b, Own(b), Answers(b), NEW url, NEW text, text.of = Content[Key[url]],
           Key[url] \notin DOMAIN b.successes, NEW new,
           new = Succeeded(b, url, text)
    PROVE  /\ Answers(new)
           /\ Key[url] \in DOMAIN new.successes /\ new.successes[Key[url]] = text
           /\ \A k \in DOMAIN b.successes :
                 k \in DOMAIN new.successes /\ new.successes[k] = b.successes[k]
<1> DEFINE attempts == Put(b.attempts, Key[url], Attempts(b, url) + 1)
           urls == Put(b.byUrl, url, text)
           found == Put(b.successes, Key[url], text)
           contents == Put(b.byContent, Digest(Key[url]), text)
<1>1. /\ \A k \in DOMAIN found : found[k].of = Content[k]
      /\ \A c \in DOMAIN contents : contents[c].of = c
      /\ \A u \in DOMAIN urls : Key[u] \in DOMAIN found \/ urls[u].of \in Reasons
      /\ Key[url] \in DOMAIN found /\ found[Key[url]] = text
      /\ \A k \in DOMAIN b.successes : k \in DOMAIN found /\ found[k] = b.successes[k]
  BY DEF Answers, Put, Digest
<1>2. Attempted(b, url) = [byUrl |-> b.byUrl, successes |-> b.successes,
                           byContent |-> b.byContent, attempts |-> attempts]
  BY AttemptedIs
<1> HIDE DEF attempts
<1>3. new = [[byUrl |-> b.byUrl, successes |-> b.successes, byContent |-> b.byContent,
              attempts |-> attempts]
               EXCEPT !.byUrl = urls, !.successes = found, !.byContent = contents]
  BY <1>2 DEF Succeeded
<1> HIDE DEF urls, found, contents
<1>4. new.byUrl = urls /\ new.successes = found /\ new.byContent = contents
  BY <1>3, ReplaceThree
<1> QED
  BY <1>1, <1>4 DEF Answers

\* Each of the five ways a picture gets its text.
LEMMA DescribePictureAgrees ==
    PicturesInv /\ AgreeInv /\ DescribePicture => AgreeInv'
<1> SUFFICES ASSUME PicturesInv, AgreeInv, DescribePicture PROVE AgreeInv'
  OBVIOUS
<1>1. PICK group, b, p, url :
        group = Group /\ b = BatchFor(Group) /\ p = work[1] /\ url = p.url
  OBVIOUS
<1>2. /\ request.state \in {"quote", "history"} /\ request' = request
      /\ Group' = Group
      /\ Enrich(group)
  BY <1>1, DescribingStays DEF DescribePicture
<1>3. /\ Logs /\ Own(b) /\ Answers(b) /\ Told(b) /\ DescriptionsAgree
  BY <1>1, <1>2 DEF PicturesInv, BatchOK, AgreeInv
<1>4. ASSUME NEW new, new = BatchFor(Group)', Answers(new), Told(new)', DescriptionsAgree'
      PROVE  AgreeInv'
  <2>1. Answers(BatchFor(Group))' /\ Told(BatchFor(Group))'
    BY <1>4 DEF Answers, Told
  <2> QED
    BY <1>2, <1>4, <2>1 DEF AgreeInv
<1>5. ASSUME NEW text, Describe(text), UNCHANGED <<scope, batch>>,
             Telling(text) => text.of = Content[Key[url]],
             p.display /\ Key[url] \in DOMAIN b.successes => text = b.successes[Key[url]],
             p.display /\ Telling(text) => Key[url] \in DOMAIN b.successes
      PROVE  AgreeInv'
  <2>1. DescriptionsAgree' /\ Told(b)'
    BY <1>1, <1>3, <1>5, DescriptionJoins
  <2>2. b = BatchFor(Group)'
    BY <1>1, <1>5, DescribingStays
  <2> QED
    BY <1>3, <1>4, <2>1, <2>2
<1>6. CASE Reuse(group)
  <2>1. PICK text : text = Known(b, url)[1] /\ Known(b, url) # <<>> /\ Describe(text)
    BY <1>1, <1>6 DEF Reuse
  <2> QED
    BY <1>3, <1>5, <1>6, <2>1, KnownAnswers DEF Reuse
<1>7. CASE Refuse(group)
  <2>1. PICK text : text.of \in Notes /\ Describe(text)
    BY <1>7 DEF Refuse, Note, Notes
  <2>2. Key[url] \notin DOMAIN b.successes
    BY <1>1, <1>7 DEF Refuse, Known
  <2> QED
    BY <1>5, <1>7, <2>1, <2>2, NotesTellNothing DEF Refuse
<1>8. CASE DescribeSegment
  <2>1. PICK text : /\ text.of = Content[Key[url]] \/ text.of \in Notes
                    /\ Describe(text)
    BY <1>1, <1>8 DEF DescribeSegment, Note, Notes
  <2>2. ~p.display
    BY <1>1, <1>8 DEF DescribeSegment
  <2> QED
    BY <1>5, <1>8, <2>1, <2>2, NotesTellNothing DEF DescribeSegment
<1>9. CASE FetchFails(group)
  <2>1. PICK text :
          /\ text.of \in Reasons
          /\ Describe(text)
          /\ Keep(group, Failed(b, url, text))
          /\ CanFetch(b, url)
    BY <1>1, <1>9 DEF FetchFails, Note, Failed
  <2>2. PICK new : new = Failed(b, url, text)
    OBVIOUS
  <2>3. Answers(new) /\ new.successes = b.successes
    BY <1>3, <2>1, <2>2, FailureAnswers
  <2>4. Key[url] \notin DOMAIN b.successes
    BY <2>1 DEF CanFetch, Known
  <2>5. ~Telling(text)
    BY <2>1, NotesTellNothing DEF Notes
  <2>6. DescriptionsAgree' /\ Told(new)'
    BY <1>1, <1>3, <2>1, <2>3, <2>4, <2>5, DescriptionJoins
  <2>7. new = BatchFor(Group)'
    BY <1>1, <2>1, <2>2, DescribingStays
  <2> QED
    BY <1>4, <2>3, <2>6, <2>7
<1>10. CASE FetchSucceeds(group)
  <2>1. PICK text : text = IF Digest(Key[url]) \in DOMAIN b.byContent
                           THEN b.byContent[Digest(Key[url])]
                           ELSE Note(Content[Key[url]])
    OBVIOUS
  <2>2. text.of = Content[Key[url]]
    BY <1>3, <2>1 DEF Answers, Digest, Note
  <2>3. PICK new : new = Succeeded(b, url, text)
    OBVIOUS
  <2>4. Describe(text) /\ Keep(group, new) /\ CanFetch(b, url)
    BY <1>1, <1>10, <2>1, <2>3 DEF FetchSucceeds, Succeeded
  <2>5. Key[url] \notin DOMAIN b.successes
    BY <2>4 DEF CanFetch, Known
  <2>6. /\ Answers(new)
        /\ Key[url] \in DOMAIN new.successes /\ new.successes[Key[url]] = text
        /\ \A k \in DOMAIN b.successes :
              k \in DOMAIN new.successes /\ new.successes[k] = b.successes[k]
    BY <1>3, <2>2, <2>3, <2>5, SuccessAnswers
  <2>7. DescriptionsAgree' /\ Told(new)'
    BY <1>1, <1>3, <2>2, <2>4, <2>5, <2>6, DescriptionJoins
  <2>8. new = BatchFor(Group)'
    BY <1>1, <2>4, DescribingStays
  <2> QED
    BY <1>4, <2>6, <2>7, <2>8
<1> QED
  BY <1>2, <1>6, <1>7, <1>8, <1>9, <1>10 DEF Enrich

\* The steps that describe nothing.
LEMMA OthersAgree ==
    ASSUME HistoryInv, PicturesInv, AgreeInv,
           \/ HistoryStep /\ UNCHANGED <<pictureVars, request>>
           \/ QueryHistory
           \/ EndRequest
           \/ UNCHANGED vars
    PROVE  AgreeInv'
<1>1. results' = results
  BY DEF QueryHistory, EndRequest, vars, pictureVars
<1>2. DescriptionsAgree'
  BY <1>1 DEF AgreeInv, DescriptionsAgree, Telling
<1>3. \A b : (Answers(b) => Answers(b)') /\ (Told(b) => Told(b)')
  BY <1>1 DEF Answers, Told, Telling
<1>4. CASE (HistoryStep /\ UNCHANGED <<pictureVars, request>>) \/ UNCHANGED vars
  <2>1. /\ UNCHANGED <<scope, batch, request>>
        /\ \A i \in DOMAIN rows : i \in DOMAIN rows' /\ rows'[i] = rows[i]
    BY <1>4, RowsStay DEF vars, historyVars, pictureVars
  <2>2. Active => Group' = Group
    BY <2>1 DEF PicturesInv, ScopeOK, Group
  <2>3. Active => BatchFor(Group)' = BatchFor(Group)
    BY <2>1, <2>2 DEF BatchFor, Scoped
  <2> QED
    BY <1>1, <1>2, <1>3, <2>1, <2>3 DEF AgreeInv, Active
<1>5. CASE EndRequest
  <2>1. request'.state \in {"done", "failed"}
    <3>1. request = [state |-> request.state, kind |-> request.kind,
                     trigger |-> request.trigger, context |-> request.context]
      BY DEF PicturesInv, ScopeOK
    <3> QED
      BY <1>5, <3>1 DEF EndRequest
  <2> QED
    BY <1>2, <2>1 DEF AgreeInv
<1>6. CASE QueryHistory
  <2>1. request = [state |-> request.state, kind |-> request.kind,
                   trigger |-> request.trigger, context |-> request.context]
    BY DEF PicturesInv, ScopeOK
  <2>2. /\ request.state \in {"quote", "query"}
        /\ UNCHANGED <<rows, scope>>
        /\ \/ request'.state = "failed"
           \/ request'.state = "history" /\ batch' = NewBatch
        /\ request'.kind = request.kind /\ request'.trigger = request.trigger
    BY <1>6, <2>1 DEF QueryHistory, historyVars, BeginCall
  <2>3. CASE request'.state = "failed"
    BY <1>2, <2>3 DEF AgreeInv
  <2>4. CASE request.state = "quote"
    <3>1. scope.group = Group /\ Group' = Group
      BY <2>2, <2>4 DEF PicturesInv, ScopeOK, Active, Group
    <3>2. BatchFor(Group)' = BatchFor(Group)
      BY <2>2, <3>1 DEF BatchFor, Scoped
    <3> QED
      BY <1>2, <1>3, <2>2, <2>4, <3>2 DEF AgreeInv
  <2>5. CASE request.state = "query" /\ request'.state = "history"
    <3>1. results = <<>> /\ scope.batch = NewBatch
      BY <2>5 DEF AgreeInv, PicturesInv, BatchOK, ScopeOK, NoScope
    <3>2. BatchFor(Group)' = NewBatch
      BY <2>2, <2>5, <3>1 DEF BatchFor, Scoped
    <3>3. Answers(NewBatch) /\ Told(NewBatch)'
      BY <1>1, <3>1, NewBatchIsEmpty DEF Answers, Told
    <3> QED
      BY <1>2, <1>3, <2>2, <2>5, <3>2, <3>3 DEF AgreeInv
  <2> QED
    BY <2>2, <2>3, <2>4, <2>5
<1> QED
  BY <1>4, <1>5, <1>6

LEMMA AgreeInvNext == HistoryInv /\ PicturesInv /\ AgreeInv /\ [Next]_vars => AgreeInv'
<1> SUFFICES ASSUME HistoryInv, PicturesInv, AgreeInv, [Next]_vars PROVE AgreeInv'
  OBVIOUS
<1>1. ASSUME NEW t \in DOMAIN rows, NEW kind \in Kinds, StartRequest(t, kind)
      PROVE  AgreeInv'
  <2>1. /\ request'.state = IF kind = "chat" THEN "quote" ELSE "query"
        /\ results' = <<>> /\ batch' = NewBatch
        /\ kind # "summary" => scope' = [group |-> rows[t].group, batch |-> NewBatch]
    BY <1>1 DEF StartRequest, BeginCall, EnterScope
  <2>2. kind = "chat" => BatchFor(Group)' = NewBatch
    BY <2>1 DEF BatchFor
  <2>3. Answers(NewBatch) /\ Told(NewBatch)' /\ DescriptionsAgree'
    BY <2>1, NewBatchIsEmpty DEF Answers, Told, DescriptionsAgree
  <2>4. kind = "chat" => Answers(BatchFor(Group))' /\ Told(BatchFor(Group))'
    BY <2>2, <2>3 DEF Answers, Told
  <2> QED
    BY <2>1, <2>3, <2>4 DEF AgreeInv
<1> QED
  BY <1>1, OthersAgree, DescribePictureAgrees DEF Next, RequestStep

LEMMA AgreeInvariant == Spec => []AgreeInv
<1>1. Init => AgreeInv
  BY DEF Init, PicturesInit, NoRequest, AgreeInv, DescriptionsAgree
<1> QED
  BY <1>1, AgreeInvNext, HistoryInvariant, PicturesInvariant, PTL DEF Spec

\* For any pictures, links, contents, budget and failures: what a prompt says
\* of a picture is what that picture shows, and once a request has described it
\* every later occurrence says the same, under whatever link.
THEOREM OneDescription == Spec => []DescriptionsAgree
<1>1. AgreeInv => DescriptionsAgree
  BY DEF AgreeInv
<1> QED
  BY <1>1, AgreeInvariant, PTL

(***************************************************************************)
(* The newest pictures first.  The pictures an assistant still has to      *)
(* reach are in order, those it has fetched come before them, and once one *)
(* was refused for the limit the limit stays reached.                      *)
(***************************************************************************)
QueueOK ==
    /\ work \in Seq(Range(work))
    /\ \A p \in DOMAIN work : work[p].row \in DOMAIN rows /\ work[p].url \in DOMAIN Key
    /\ \A p, q \in DOMAIN work : p <= q => NewerFirst(work[p].row, work[q].row)

FetchedAhead ==
    \A j \in DOMAIN fetched :
        /\ fetched[j].row \in DOMAIN rows
        /\ \A p \in DOMAIN work : NewerFirst(fetched[j].row, work[p].row)

\* Before the history is read there is nothing but the trigger.
QuoteOnly ==
    request.state = "quote" =>
        /\ \A p \in DOMAIN work : work[p].row = request.trigger
        /\ \A j \in DOMAIN fetched : fetched[j].row = request.trigger

Exhausted ==
    request.state \in {"quote", "history"}
    /\ (\E i \in DOMAIN results : results[i].text.of = "over_limit")
    => Cardinality(DOMAIN BatchFor(Group).attempts) >= MaxImages

RecentInv ==
    /\ Assistant =>
         /\ QueueOK
         /\ FetchedAhead
         /\ QuoteOnly
         /\ Exhausted
         /\ \A i \in DOMAIN results : results[i].picture.row \in DOMAIN rows
    /\ RecentPicturesFirst

\* The pictures of a row are a sequence, each of that row and with a key.
LEMMA PicturesOfRow ==
    ASSUME SourcesInv, NEW row \in DOMAIN rows, NEW s, s = PicturesIn(row)
    PROVE  /\ s \in Seq(Range(s))
           /\ \A i \in DOMAIN s : s[i].row = row /\ s[i].url \in DOMAIN Key
<1>1. PICK found : found = PicturesOf(rows[row].tree)
  OBVIOUS
<1>2. found \in Seq(Range(found)) /\ \A i \in DOMAIN found : found[i].url \in DOMAIN Key
  <2>1. rows[row].tree \in Trees
    BY DEF SourcesInv, Sources
  <2> QED
    BY <1>1, <2>1, RequestAssumption
<1>3. PICK n \in Nat : DOMAIN found = 1..n
  BY <1>2, FunctionOf
<1>4. s = [i \in 1..n |-> [url |-> found[i].url, display |-> found[i].display, row |-> row]]
  BY <1>1, <1>3 DEF PicturesIn
<1>5. \A i \in DOMAIN s : s[i].row = row /\ s[i].url \in DOMAIN Key
  BY <1>2, <1>3, <1>4
<1>6. DOMAIN s = 1..n /\ s = [i \in 1..n |-> s[i]]
  BY <1>4
<1>7. s \in [1..n -> Range(s)]
  BY <1>6 DEF Range
<1>8. s \in Seq(Range(s))
  BY <1>7, SequenceOf
<1> QED
  BY <1>5, <1>8

\* The pictures of a history, told from the newest row on.
LEMMA HistoryPictures ==
    ASSUME SourcesInv, NEW t, t = request.trigger, NEW order, order = Reverse(ContextOf(t)),
           NEW flat, flat = FlattenSeq([i \in DOMAIN order |-> PicturesIn(order[i])])
    PROVE  /\ flat \in Seq(Range(flat))
           /\ \A p \in DOMAIN flat : flat[p].row \in DOMAIN rows /\ flat[p].url \in DOMAIN Key
           /\ \A p, q \in DOMAIN flat : p <= q => NewerFirst(flat[p].row, flat[q].row)
<1>1. PICK c : c = ContextOf(t)
  OBVIOUS
<1>2. PICK N : N = Newest(Versions)
  OBVIOUS
<1>3. /\ c \in Seq(N)
      /\ \A k \in DOMAIN c : rows[c[k]].message # rows[t].message
      /\ \A j, k \in DOMAIN c : j <= k => ~EarlierReceipt(c[k], c[j])
  BY <1>1, <1>2, ContextIs
<1>4. PICK n \in Nat : n = Len(c)
  BY <1>3
<1>5. DOMAIN c = 1..n /\ \A k \in 1..n : c[k] \in N
  BY <1>3, <1>4
<1>6. /\ DOMAIN order = 1..n
      /\ \A i \in 1..n : order[i] = c[n - i + 1]
  BY <1>1, <1>4 DEF Reverse
<1>7. ASSUME NEW i \in 1..n PROVE n - i + 1 \in 1..n
  OBVIOUS
<1>8. N \subseteq DOMAIN rows
  BY <1>2 DEF Newest
<1>9. ASSUME NEW i \in 1..n
      PROVE  order[i] \in DOMAIN rows /\ order[i] # t
  <2>1. PICK k \in 1..n : k = n - i + 1
    BY <1>7
  <2>2. order[i] = c[k]
    BY <1>6, <2>1
  <2> QED
    BY <1>3, <1>5, <1>8, <2>2
<1>10. ASSUME NEW i \in 1..n, NEW j \in 1..n, i <= j
       PROVE  NewerFirst(order[i], order[j])
  <2>1. PICK k \in 1..n : k = n - i + 1
    BY <1>7
  <2>2. PICK l \in 1..n : l = n - j + 1
    BY <1>7
  <2>3. l <= k
    BY <1>10, <2>1, <2>2
  <2>4. order[i] = c[k] /\ order[j] = c[l]
    BY <1>6, <2>1, <2>2
  <2> QED
    BY <1>3, <1>5, <1>9, <2>3, <2>4 DEF NewerFirst
<1>11. PICK seqs : seqs = [i \in 1..n |-> PicturesIn(order[i])]
  OBVIOUS
<1>12. DOMAIN seqs = 1..n /\ \A i \in 1..n : seqs[i] = PicturesIn(order[i])
  BY <1>11
<1>13. \A i \in 1..n :
          /\ seqs[i] \in Seq(Range(seqs[i]))
          /\ \A k \in DOMAIN seqs[i] : seqs[i][k].row = order[i] /\ seqs[i][k].url \in DOMAIN Key
  BY <1>9, <1>12, PicturesOfRow
<1>14. PICK X : X = UNION {Range(seqs[i]) : i \in 1..n}
  OBVIOUS
<1>15. ASSUME NEW i \in 1..n PROVE seqs[i] \in Seq(X)
  <2>1. PICK s : s = seqs[i]
    OBVIOUS
  <2>2. s \in Seq(Range(s)) /\ Range(s) \subseteq X
    BY <1>13, <1>14, <2>1
  <2> QED
    BY <2>1, <2>2
<1>16. seqs \in Seq(Seq(X)) /\ Len(seqs) = n
  <2>1. seqs = [i \in 1..n |-> seqs[i]]
    BY <1>11, <1>12
  <2>2. seqs \in [1..n -> Seq(X)]
    BY <1>15, <2>1
  <2> QED
    BY <2>2, SequenceOf
<1>17. flat = FlattenSeq(seqs)
  BY <1>6, <1>11
<1>18. flat \in Seq(X) /\ ComesFrom(flat, seqs, n)
  BY <1>16, <1>17, FlattenSpreads
<1>19. PICK from \in [1..Len(flat) -> 1..n] :
         /\ \A p \in 1..Len(flat) : \E k \in DOMAIN seqs[from[p]] : flat[p] = seqs[from[p]][k]
         /\ \A p, q \in 1..Len(flat) : p <= q => from[p] <= from[q]
  BY <1>18 DEF ComesFrom
<1>20. DOMAIN flat = 1..Len(flat) /\ flat \in Seq(Range(flat))
  <2>1. PICK m \in Nat : m = Len(flat)
    BY <1>18
  <2>2. flat \in [1..m -> X]
    BY <1>18, <2>1, FunctionOf
  <2>3. flat \in [1..m -> Range(flat)]
    BY <2>2 DEF Range
  <2> QED
    BY <2>1, <2>2, <2>3, SequenceOf
<1>21. ASSUME NEW p \in DOMAIN flat
       PROVE  from[p] \in 1..n /\ flat[p].row = order[from[p]] /\ flat[p].url \in DOMAIN Key
  <2>1. PICK i \in 1..n : i = from[p]
    BY <1>19, <1>20
  <2>2. PICK k \in DOMAIN seqs[i] : flat[p] = seqs[i][k]
    BY <1>19, <1>20, <2>1
  <2> QED
    BY <1>13, <2>1, <2>2
<1>22. ASSUME NEW p \in DOMAIN flat, NEW q \in DOMAIN flat, p <= q
       PROVE  NewerFirst(flat[p].row, flat[q].row)
  <2>1. PICK i \in 1..n : i = from[p] /\ flat[p].row = order[i]
    BY <1>21
  <2>2. PICK j \in 1..n : j = from[q] /\ flat[q].row = order[j]
    BY <1>21
  <2>3. i <= j
    BY <1>19, <1>20, <1>22, <2>1, <2>2
  <2> QED
    BY <1>10, <2>1, <2>2, <2>3
<1> QED
  BY <1>9, <1>20, <1>21, <1>22

\* Rows that are there keep their place in the order.
LEMMA OrderStays ==
    ASSUME \A i \in DOMAIN rows : i \in DOMAIN rows' /\ rows'[i] = rows[i],
           request'.trigger = request.trigger,
           NEW p \in DOMAIN rows, NEW q \in DOMAIN rows
    PROVE  NewerFirst(p, q)' <=> NewerFirst(p, q)
BY DEF NewerFirst, EarlierReceipt

\* Nothing is left to reach and nothing was told: a request begins or ends.
LEMMA EmptyQueue == work = <<>> => work \in Seq(Range(work)) /\ DOMAIN work = {}
BY DEF Range

LEMMA StartRequestIsRecent ==
    ASSUME SourcesInv, NEW t \in DOMAIN rows, NEW kind \in Kinds, StartRequest(t, kind)
    PROVE  RecentInv'
<1>1. /\ request'.state = (IF kind = "chat" THEN "quote" ELSE "query")
      /\ request'.trigger = t /\ rows' = rows
      /\ results' = <<>> /\ fetched' = <<>>
      /\ work' = IF kind = "chat" THEN PicturesIn(t) ELSE <<>>
  BY DEF StartRequest, BeginCall, historyVars
<1>2. PICK s : s = work'
  OBVIOUS
<1>3. /\ s \in Seq(Range(s))
      /\ \A p \in DOMAIN s : s[p].row = t /\ s[p].url \in DOMAIN Key
  <2>1. CASE kind = "chat"
    BY <1>1, <1>2, <2>1, PicturesOfRow
  <2>2. CASE kind # "chat"
    BY <1>1, <1>2, <2>2 DEF Range
  <2> QED
    BY <2>1, <2>2
<1>4. QueueOK'
  BY <1>1, <1>2, <1>3 DEF QueueOK, NewerFirst
<1>5. FetchedAhead' /\ QuoteOnly' /\ Exhausted' /\ RecentPicturesFirst'
  BY <1>1, <1>2, <1>3 DEF FetchedAhead, QuoteOnly, Exhausted, RecentPicturesFirst
<1> QED
  BY <1>1, <1>4, <1>5 DEF RecentInv

\* The history grows, or nothing moves.
LEMMA HistoryStepIsRecent ==
    ASSUME PicturesInv, RecentInv, UNCHANGED <<pictureVars, request>>,
           \A i \in DOMAIN rows : i \in DOMAIN rows' /\ rows'[i] = rows[i]
    PROVE  RecentInv'
<1>1. UNCHANGED <<scope, batch, work, results, fetched, request>>
  BY DEF pictureVars
<1>2. \A p, q \in DOMAIN rows : NewerFirst(p, q) <=> NewerFirst(p, q)'
  BY <1>1, OrderStays
<1>3. Active => BatchFor(Group)' = BatchFor(Group)
  BY <1>1 DEF PicturesInv, ScopeOK, Group, BatchFor, Scoped
<1>4. ASSUME Assistant PROVE QueueOK' /\ FetchedAhead' /\ QuoteOnly' /\ Exhausted'
  <2>1. QueueOK'
    BY <1>1, <1>2, <1>4 DEF RecentInv, QueueOK
  <2>2. FetchedAhead'
    BY <1>1, <1>2, <1>4 DEF RecentInv, QueueOK, FetchedAhead
  <2>3. QuoteOnly' /\ Exhausted'
    BY <1>1, <1>3, <1>4 DEF RecentInv, QuoteOnly, Exhausted, Active
  <2> QED
    BY <2>1, <2>2, <2>3
<1>5. ASSUME Assistant PROVE RecentPicturesFirst'
  BY <1>1, <1>2, <1>5 DEF RecentInv, FetchedAhead, RecentPicturesFirst, Assistant
<1> QED
  BY <1>1, <1>4, <1>5 DEF RecentInv, Assistant, RecentPicturesFirst

LEMMA EndRequestIsRecent ==
    ASSUME PicturesInv, RecentInv, EndRequest PROVE RecentInv'
<1>1. UNCHANGED <<rows, results, fetched>> /\ work' = <<>>
  BY DEF EndRequest, historyVars
<1>2. request = [state |-> request.state, kind |-> request.kind,
                 trigger |-> request.trigger, context |-> request.context]
  BY DEF PicturesInv, ScopeOK
<1>3. /\ request'.state \in {"done", "failed"}
      /\ request'.kind = request.kind /\ request'.trigger = request.trigger
  BY <1>2 DEF EndRequest
<1>4. QueueOK'
  BY <1>1, EmptyQueue DEF QueueOK, Range
<1>5. Assistant => FetchedAhead' /\ QuoteOnly' /\ Exhausted'
  BY <1>1, <1>3 DEF RecentInv, FetchedAhead, QuoteOnly, Exhausted
<1>6. \A p, q : NewerFirst(p, q) <=> NewerFirst(p, q)'
  BY <1>1, <1>3 DEF NewerFirst, EarlierReceipt
<1>7. RecentPicturesFirst'
  BY <1>1, <1>3, <1>6 DEF RecentInv, RecentPicturesFirst
<1> QED
  BY <1>1, <1>3, <1>4, <1>5, <1>7 DEF RecentInv, Assistant

\* The history comes after the quote, and its pictures newest first.
LEMMA QueryHistoryIsRecent ==
    ASSUME SourcesInv, PicturesInv, AgreeInv, RecentInv, QueryHistory PROVE RecentInv'
<1>1. /\ UNCHANGED <<rows, results, fetched, scope>>
      /\ request.state \in {"quote", "query"}
  BY DEF QueryHistory, historyVars
<1>2. request = [state |-> request.state, kind |-> request.kind,
                 trigger |-> request.trigger, context |-> request.context]
  BY DEF PicturesInv, ScopeOK
<1>3. request'.kind = request.kind /\ request'.trigger = request.trigger
  BY <1>2 DEF QueryHistory
<1>4. \A p, q : NewerFirst(p, q) <=> NewerFirst(p, q)'
  BY <1>1, <1>3 DEF NewerFirst, EarlierReceipt
<1>5. RecentPicturesFirst'
  BY <1>1, <1>3, <1>4 DEF RecentInv, RecentPicturesFirst
<1>6. ASSUME Assistant
      PROVE  /\ QueueOK' /\ FetchedAhead' /\ QuoteOnly' /\ Exhausted'
             /\ \A i \in DOMAIN results : results[i].picture.row \in DOMAIN rows
  <2>1. request.kind # "summary"
    BY <1>6 DEF Assistant
  <2>2. PICK t : t = request.trigger
    OBVIOUS
  <2>3. PICK order : order = Reverse(ContextOf(t))
    OBVIOUS
  <2>4. PICK flat : flat = FlattenSeq([i \in DOMAIN order |-> PicturesIn(order[i])])
    OBVIOUS
  <2>5. request'.state = "history" /\ work' = flat
    BY <1>2, <2>1, <2>2, <2>3, <2>4 DEF QueryHistory, BeginCall, EnrichmentOrder
  <2>6. /\ flat \in Seq(Range(flat))
        /\ \A p \in DOMAIN flat : flat[p].row \in DOMAIN rows /\ flat[p].url \in DOMAIN Key
        /\ \A p, q \in DOMAIN flat : p <= q => NewerFirst(flat[p].row, flat[q].row)
    BY <2>2, <2>3, <2>4, HistoryPictures
  <2>7. QueueOK'
    BY <1>1, <1>4, <2>5, <2>6 DEF QueueOK
  <2>8. \A j \in DOMAIN fetched : fetched[j].row = request.trigger
    BY <1>1, <1>6 DEF RecentInv, QuoteOnly, PicturesInv, BatchOK
  <2>9. FetchedAhead'
    BY <1>1, <1>3, <1>6, <2>8 DEF RecentInv, FetchedAhead, NewerFirst
  <2>10. QuoteOnly'
    BY <2>5 DEF QuoteOnly
  <2>11. Exhausted'
    <3>1. CASE request.state = "query"
      BY <1>1, <3>1 DEF AgreeInv, Exhausted
    <3>2. CASE request.state = "quote"
      <4>1. scope.group = Group /\ Group' = Group
        BY <1>1, <1>3, <1>6, <3>2 DEF PicturesInv, ScopeOK, Active, Group
      <4>2. BatchFor(Group)' = BatchFor(Group)
        BY <1>1, <4>1 DEF BatchFor, Scoped
      <4> QED
        BY <1>1, <1>6, <3>2, <4>2 DEF RecentInv, Exhausted
    <3> QED
      BY <1>1, <3>1, <3>2
  <2> QED
    BY <1>6, <2>7, <2>9, <2>10, <2>11 DEF RecentInv
<1> QED
  BY <1>1, <1>3, <1>5, <1>6 DEF RecentInv, Assistant

\* One description more: its picture leaves the queue.
LEMMA DescribeMovesOn ==
    ASSUME Logs, work \in Seq(Range(work)), work # <<>>, NEW text, Describe(text)
    PROVE  /\ work' \in Seq(Range(work'))
           /\ 1 \in DOMAIN work
           /\ \A p \in DOMAIN work' : p + 1 \in DOMAIN work /\ work'[p] = work[p + 1]
           /\ \A p \in DOMAIN work : p \in Nat /\ 1 <= p
           /\ DOMAIN results' = DOMAIN results \cup {Len(results) + 1}
           /\ \A i \in DOMAIN results : results'[i] = results[i]
           /\ results'[Len(results) + 1].picture = work[1]
           /\ results'[Len(results) + 1].text = text
<1>1. PICK R : R = Range(work)
  OBVIOUS
<1>2. work \in Seq(R) /\ work' = Tail(work)
  BY <1>1 DEF Describe
<1>3. PICK n \in Nat : n = Len(work)
  BY <1>2
<1>4. /\ DOMAIN work = 1..n /\ n # 0
  BY <1>2, <1>3
<1>5. /\ work' \in Seq(R) /\ Len(work') = n - 1
      /\ \A p \in 1..(n - 1) : work'[p] = work[p + 1]
  BY <1>2, <1>3, <1>4
<1>6. DOMAIN work' = 1..(n - 1)
  BY <1>3, <1>4, <1>5
<1>7. work' \in Seq(Range(work'))
  <2>1. PICK m \in Nat : m = n - 1
    BY <1>4
  <2>2. PICK s : s = work'
    OBVIOUS
  <2>3. s \in [1..m -> R]
    BY <1>5, <2>1, <2>2, FunctionOf
  <2>4. s \in [1..m -> Range(s)]
    BY <2>3 DEF Range
  <2>5. s \in Seq(Range(s))
    BY <2>4, SequenceOf
  <2> QED
    BY <2>2, <2>5
<1>8. \A p \in DOMAIN work' : p + 1 \in DOMAIN work
  BY <1>4, <1>6
<1>9. PICK new : new = [picture |-> work[1], text |-> text]
  OBVIOUS
<1>10. results' = Append(results, new)
  BY <1>9 DEF Describe
<1>11. /\ DOMAIN results' = DOMAIN results \cup {Len(results) + 1}
       /\ \A i \in DOMAIN results : results'[i] = results[i]
       /\ results'[Len(results) + 1] = new
  <2>1. /\ DOMAIN results = 1..Len(results)
        /\ Len(results) \in Nat
        /\ DOMAIN results' = 1..Len(results) + 1
        /\ \A i \in DOMAIN results : results'[i] = results[i]
        /\ results'[Len(results) + 1] = new
    BY <1>10, AppendKeeps DEF Logs
  <2> QED
    BY <2>1
<1> QED
  BY <1>4, <1>5, <1>6, <1>7, <1>8, <1>9, <1>11

\* What is right about a picture is no refusal.
LEMMA RightIsNoRefusal == \A url \in DOMAIN Key : Content[Key[url]] # "over_limit"
BY PictureAssumption, ContentAssumption DEF Range, Notes

\* What moving on leaves, whatever the text: the queue is in order, its first
\* picture came before the others, and so did all that was fetched.
LEMMA QueueMovesOn ==
    ASSUME PicturesInv, RecentInv, Assistant, DescribePicture, work # <<>>,
           NEW text, Describe(text)
    PROVE  /\ \A q, r \in DOMAIN rows : NewerFirst(q, r)' <=> NewerFirst(q, r)
           /\ QueueOK'
           /\ 1 \in DOMAIN work
           /\ \A q \in DOMAIN work' :
                 /\ work'[q].row \in DOMAIN rows
                 /\ NewerFirst(work[1].row, work'[q].row)
                 /\ \A j \in DOMAIN fetched : NewerFirst(fetched[j].row, work'[q].row)
           /\ \A i \in DOMAIN results' : results'[i].picture.row \in DOMAIN rows
           /\ request.state = "quote" =>
                 /\ work[1].row = request.trigger
                 /\ \A q \in DOMAIN work' : work'[q].row = request.trigger
<1>1. request' = request /\ rows' = rows
  BY DescribingStays DEF DescribePicture, historyVars
<1>2. \A q, r \in DOMAIN rows : NewerFirst(q, r)' <=> NewerFirst(q, r)
  BY <1>1, OrderStays
<1>3. /\ QueueOK /\ FetchedAhead /\ QuoteOnly
      /\ \A i \in DOMAIN results : results[i].picture.row \in DOMAIN rows
  BY DEF RecentInv
<1>4. /\ work' \in Seq(Range(work'))
      /\ 1 \in DOMAIN work
      /\ \A q \in DOMAIN work' : q + 1 \in DOMAIN work /\ work'[q] = work[q + 1]
      /\ \A q \in DOMAIN work : q \in Nat /\ 1 <= q
      /\ DOMAIN results' = DOMAIN results \cup {Len(results) + 1}
      /\ \A i \in DOMAIN results : results'[i] = results[i]
      /\ results'[Len(results) + 1].picture = work[1]
  BY <1>3, DescribeMovesOn DEF PicturesInv, QueueOK
<1>5. ASSUME NEW q \in DOMAIN work', NEW r \in DOMAIN work', q <= r
      PROVE  NewerFirst(work'[q].row, work'[r].row)
  <2>1. PICK m \in DOMAIN work : m = q + 1 /\ work'[q] = work[m]
    BY <1>4
  <2>2. PICK n \in DOMAIN work : n = r + 1 /\ work'[r] = work[n]
    BY <1>4
  <2>3. m <= n
    <3>1. q \in Nat /\ r \in Nat
      <4>1. PICK k \in Nat : DOMAIN work' = 1..k
        BY <1>4, FunctionOf
      <4> QED
        BY <4>1
    <3> QED
      BY <1>5, <2>1, <2>2, <3>1
  <2> QED
    BY <1>3, <2>1, <2>2, <2>3 DEF QueueOK
<1>6. ASSUME NEW q \in DOMAIN work'
      PROVE  /\ work'[q].row \in DOMAIN rows /\ work'[q].url \in DOMAIN Key
             /\ NewerFirst(work[1].row, work'[q].row)
             /\ \A j \in DOMAIN fetched : NewerFirst(fetched[j].row, work'[q].row)
             /\ request.state = "quote" => work'[q].row = request.trigger
  <2>1. PICK n \in DOMAIN work : work'[q] = work[n]
    BY <1>4
  <2>2. 1 <= n
    BY <1>4
  <2> QED
    BY <1>3, <1>4, <2>1, <2>2 DEF QueueOK, FetchedAhead, QuoteOnly
<1>7. QueueOK'
  BY <1>1, <1>2, <1>4, <1>5, <1>6 DEF QueueOK
<1>8. \A i \in DOMAIN results' : results'[i].picture.row \in DOMAIN rows
  BY <1>3, <1>4 DEF QueueOK
<1> QED
  BY <1>2, <1>3, <1>4, <1>6, <1>7, <1>8 DEF QuoteOnly

\* A picture that costs nothing: it was known, it is no part of a display, or
\* it is refused; for the limit only when that is reached.
LEMMA FreeDescriptionIsRecent ==
    ASSUME PicturesInv, RecentInv, Assistant, DescribePicture, work # <<>>,
           UNCHANGED <<scope, batch, fetched>>,
           NEW text, Describe(text),
           text.of = "over_limit" => Cardinality(DOMAIN BatchFor(Group).attempts) >= MaxImages
    PROVE  RecentInv'
<1>1. /\ request.state \in {"quote", "history"} /\ request' = request
      /\ rows' = rows /\ fetched' = fetched
      /\ BatchFor(Group)' = BatchFor(Group)
  BY DescribingStays DEF DescribePicture, historyVars
<1>2. /\ \A q, r \in DOMAIN rows : NewerFirst(q, r)' <=> NewerFirst(q, r)
      /\ QueueOK'
      /\ 1 \in DOMAIN work
      /\ \A q \in DOMAIN work' :
            /\ work'[q].row \in DOMAIN rows
            /\ \A j \in DOMAIN fetched : NewerFirst(fetched[j].row, work'[q].row)
      /\ \A i \in DOMAIN results' : results'[i].picture.row \in DOMAIN rows
      /\ request.state = "quote" =>
            \A q \in DOMAIN work' : work'[q].row = request.trigger
  BY QueueMovesOn
<1>3. /\ QueueOK /\ FetchedAhead /\ QuoteOnly /\ Exhausted /\ RecentPicturesFirst
  BY DEF RecentInv
<1>4. FetchedAhead' /\ QuoteOnly'
  BY <1>1, <1>2, <1>3 DEF FetchedAhead, QuoteOnly
<1>5. /\ DOMAIN results' = DOMAIN results \cup {Len(results) + 1}
      /\ \A i \in DOMAIN results : results'[i] = results[i]
      /\ results'[Len(results) + 1].picture = work[1]
      /\ results'[Len(results) + 1].text = text
  BY <1>3, DescribeMovesOn DEF PicturesInv, QueueOK
<1>6. Exhausted'
  <2>1. (\E i \in DOMAIN results' : results'[i].text.of = "over_limit")
        => Cardinality(DOMAIN BatchFor(Group).attempts) >= MaxImages
    BY <1>1, <1>3, <1>5 DEF Exhausted
  <2> QED
    BY <1>1, <2>1 DEF Exhausted
<1>7. ASSUME NEW i \in DOMAIN results', results'[i].text.of = "over_limit",
             NEW j \in DOMAIN fetched
      PROVE  \E k \in DOMAIN fetched :
                /\ fetched[k].key = fetched[j].key
                /\ NewerFirst(fetched[k].row, results'[i].picture.row)
  <2>1. CASE i \in DOMAIN results
    BY <1>3, <1>5, <1>7, <2>1 DEF RecentPicturesFirst, Assistant
  <2>2. CASE i = Len(results) + 1
    <3>1. results'[i].picture = work[1]
      BY <1>5, <2>2
    <3>2. NewerFirst(fetched[j].row, work[1].row)
      BY <1>2, <1>3 DEF FetchedAhead
    <3> QED
      BY <3>1, <3>2
  <2> QED
    BY <1>5, <2>1, <2>2
<1>8. RecentPicturesFirst'
  BY <1>1, <1>2, <1>3, <1>7 DEF RecentPicturesFirst, FetchedAhead
<1> QED
  BY <1>1, <1>2, <1>4, <1>6, <1>8 DEF RecentInv

\* A download: once the limit is reached only what was fetched before is fetched
\* again, and that has its place already.
LEMMA FetchIsRecent ==
    ASSUME PicturesInv, RecentInv, Assistant, DescribePicture, work # <<>>,
           PicturesInv',
           NEW b, b = BatchFor(Group), NEW url, url = work[1].url, CanFetch(b, url),
           fetched' = Append(fetched, [key |-> Key[url], row |-> work[1].row]),
           NEW text, Describe(text), text.of # "over_limit",
           NEW new, Keep(Group, new), DOMAIN b.attempts \subseteq DOMAIN new.attempts
    PROVE  RecentInv'
<1>1. /\ request.state \in {"quote", "history"} /\ request' = request
      /\ rows' = rows
      /\ BatchFor(Group)' = new
  BY DescribingStays DEF DescribePicture, historyVars
<1>2. /\ \A q, r \in DOMAIN rows : NewerFirst(q, r)' <=> NewerFirst(q, r)
      /\ QueueOK'
      /\ 1 \in DOMAIN work
      /\ \A q \in DOMAIN work' :
            /\ work'[q].row \in DOMAIN rows
            /\ NewerFirst(work[1].row, work'[q].row)
            /\ \A j \in DOMAIN fetched : NewerFirst(fetched[j].row, work'[q].row)
      /\ \A i \in DOMAIN results' : results'[i].picture.row \in DOMAIN rows
      /\ request.state = "quote" =>
            /\ work[1].row = request.trigger
            /\ \A q \in DOMAIN work' : work'[q].row = request.trigger
  BY QueueMovesOn
<1>3. /\ QueueOK /\ FetchedAhead /\ QuoteOnly /\ Exhausted /\ RecentPicturesFirst
      /\ Logs /\ Counted(b.attempts)
  BY <1>1 DEF RecentInv, PicturesInv, BatchOK
<1>4. PICK entry : entry = [key |-> Key[url], row |-> work[1].row]
  OBVIOUS
<1>5. PICK n : n = Len(fetched) + 1
  OBVIOUS
<1>6. /\ DOMAIN fetched' = DOMAIN fetched \cup {n}
      /\ \A j \in DOMAIN fetched : fetched'[j] = fetched[j]
      /\ fetched'[n] = entry
  <2>1. /\ DOMAIN fetched = 1..Len(fetched)
        /\ Len(fetched) \in Nat
        /\ DOMAIN fetched' = 1..n
        /\ \A j \in DOMAIN fetched : fetched'[j] = fetched[j]
        /\ fetched'[n] = entry
    BY <1>3, <1>4, <1>5, AppendKeeps DEF Logs
  <2> QED
    BY <1>5, <2>1
<1>7. entry.key = Key[url] /\ entry.row = work[1].row /\ entry.row \in DOMAIN rows
  BY <1>2, <1>3, <1>4 DEF QueueOK
<1>8. FetchedAhead'
  BY <1>1, <1>2, <1>3, <1>6, <1>7 DEF FetchedAhead
<1>9. QuoteOnly'
  BY <1>1, <1>2, <1>3, <1>6, <1>7 DEF QuoteOnly
<1>10. /\ DOMAIN results' = DOMAIN results \cup {Len(results) + 1}
       /\ \A i \in DOMAIN results : results'[i] = results[i]
       /\ results'[Len(results) + 1].text = text
  BY <1>3, DescribeMovesOn DEF QueueOK
<1>11. \A i \in DOMAIN results' :
         results'[i].text.of = "over_limit" => i \in DOMAIN results /\ results'[i] = results[i]
  BY <1>10
<1>12. Exhausted'
  <2> SUFFICES ASSUME \E i \in DOMAIN results' : results'[i].text.of = "over_limit"
               PROVE  Cardinality(DOMAIN new.attempts) >= MaxImages
    BY <1>1 DEF Exhausted
  <2>1. Cardinality(DOMAIN b.attempts) >= MaxImages
    BY <1>1, <1>3, <1>11 DEF Exhausted
  <2>2. Counted(new.attempts)'
    BY <1>1 DEF PicturesInv, BatchOK
  <2>3. IsFiniteSet(DOMAIN new.attempts) /\ IsFiniteSet(DOMAIN b.attempts)
    BY <1>3, <2>2 DEF Counted
  <2>4. Cardinality(DOMAIN b.attempts) <= Cardinality(DOMAIN new.attempts)
    BY <2>3, FS_Subset
  <2>5. /\ Cardinality(DOMAIN b.attempts) \in Nat
        /\ Cardinality(DOMAIN new.attempts) \in Nat
        /\ MaxImages \in Nat
    BY <2>3, FS_CardinalityType, PictureAssumption
  <2> QED
    BY <2>1, <2>4, <2>5
<1>13. ASSUME NEW i \in DOMAIN results, results[i].text.of = "over_limit",
              NEW j \in DOMAIN fetched'
       PROVE  \E k \in DOMAIN fetched :
                 /\ fetched[k].key = fetched'[j].key
                 /\ NewerFirst(fetched[k].row, results[i].picture.row)
  <2>1. PICK m \in DOMAIN fetched : fetched[m].key = fetched'[j].key
    <3>1. CASE j \in DOMAIN fetched
      BY <1>6, <3>1
    <3>2. CASE j = n
      <4>1. Cardinality(DOMAIN b.attempts) >= MaxImages
        BY <1>1, <1>3, <1>13 DEF Exhausted
      <4>2. Key[url] \in DOMAIN b.attempts
        BY <4>1 DEF CanFetch, OverLimit
      <4>3. Key[url] \in {fetched[m].key : m \in DOMAIN fetched}
        BY <1>3, <4>2 DEF Counted
      <4> QED
        BY <1>6, <1>7, <3>2, <4>3
    <3> QED
      BY <1>6, <3>1, <3>2
  <2> QED
    BY <1>3, <1>13, <2>1 DEF RecentPicturesFirst, Assistant
<1>14. ASSUME NEW i \in DOMAIN results', results'[i].text.of = "over_limit",
              NEW j \in DOMAIN fetched'
       PROVE  \E k \in DOMAIN fetched' :
                 /\ fetched'[k].key = fetched'[j].key
                 /\ NewerFirst(fetched[k].row, results[i].picture.row)'
  <2>1. i \in DOMAIN results /\ results'[i] = results[i]
    BY <1>11, <1>14
  <2>2. PICK k \in DOMAIN fetched :
           /\ fetched[k].key = fetched'[j].key
           /\ NewerFirst(fetched[k].row, results[i].picture.row)
    BY <1>13, <1>14, <2>1
  <2>3. fetched'[k] = fetched[k] /\ k \in DOMAIN fetched'
    BY <1>6
  <2>4. fetched[k].row \in DOMAIN rows /\ results[i].picture.row \in DOMAIN rows
    BY <1>2, <1>3, <2>1 DEF FetchedAhead
  <2>5. NewerFirst(fetched[k].row, results[i].picture.row)'
    BY <1>2, <2>1, <2>2, <2>3, <2>4 DEF NewerFirst, EarlierReceipt
  <2> QED
    BY <2>2, <2>3, <2>5
<1>15. RecentPicturesFirst'
  BY <1>14 DEF RecentPicturesFirst
<1> QED
  BY <1>1, <1>2, <1>8, <1>9, <1>12, <1>15 DEF RecentInv

\* Each of the five ways a picture gets its text.
LEMMA DescribePictureIsRecent ==
    ASSUME PicturesInv, AgreeInv, RecentInv, DescribePicture, PicturesInv', Assistant
    PROVE  RecentInv'
<1>1. PICK group, b, p, url :
        group = Group /\ b = BatchFor(Group) /\ p = work[1] /\ url = p.url
  OBVIOUS
<1>2. request.state \in {"quote", "history"} /\ Enrich(group)
  BY <1>1 DEF DescribePicture
<1>3. Own(b) /\ Answers(b) /\ QueueOK
  BY <1>1, <1>2 DEF PicturesInv, BatchOK, AgreeInv, RecentInv
<1>4. work # <<>>
  BY <1>2 DEF Enrich, Reuse, Refuse, FetchFails, FetchSucceeds, DescribeSegment
<1>5. url \in DOMAIN Key
  BY <1>1, <1>3, <1>4, QueueMovesOn, <1>2
     DEF QueueOK, Enrich, Reuse, Refuse, FetchFails, FetchSucceeds, DescribeSegment
<1>6. PICK right : right = Content[Key[url]] /\ right # "over_limit"
  BY <1>5, RightIsNoRefusal
<1>7. CASE Reuse(group)
  <2>1. PICK text : text = Known(b, url)[1] /\ Known(b, url) # <<>> /\ Describe(text)
    BY <1>1, <1>7 DEF Reuse
  <2>2. text.of # "over_limit"
    <3>1. CASE Key[url] \in DOMAIN b.successes
      BY <1>3, <1>6, <2>1, <3>1 DEF Known, Answers
    <3>2. CASE Key[url] \notin DOMAIN b.successes
      BY <1>3, <2>1, <3>2 DEF Known, Answers, Reasons
    <3> QED
      BY <3>1, <3>2
  <2> QED
    BY <1>4, <1>7, <2>1, <2>2, FreeDescriptionIsRecent DEF Reuse
<1>8. CASE Refuse(group)
  <2>1. PICK text : /\ Describe(text)
                    /\ text.of = "over_limit" => OverLimit(b, url)
    BY <1>1, <1>8 DEF Refuse, Note
  <2>2. text.of = "over_limit" => Cardinality(DOMAIN BatchFor(Group).attempts) >= MaxImages
    BY <1>1, <2>1 DEF OverLimit
  <2> QED
    BY <1>4, <1>8, <2>1, <2>2, FreeDescriptionIsRecent DEF Refuse
<1>9. CASE DescribeSegment
  <2>1. PICK text : text.of \in {right, "unavailable"} /\ Describe(text)
    BY <1>1, <1>6, <1>9 DEF DescribeSegment, Note
  <2> QED
    BY <1>4, <1>6, <1>9, <2>1, FreeDescriptionIsRecent DEF DescribeSegment
<1>10. \A new : new.attempts = Put(b.attempts, Key[url], Attempts(b, url) + 1) =>
                   DOMAIN b.attempts \subseteq DOMAIN new.attempts
  BY DEF Put
<1>11. PICK attempts : attempts = Put(b.attempts, Key[url], Attempts(b, url) + 1)
  OBVIOUS
<1>12. Attempted(b, url) = [byUrl |-> b.byUrl, successes |-> b.successes,
                            byContent |-> b.byContent, attempts |-> attempts]
  BY <1>3, <1>11, AttemptedIs
<1>13. CASE FetchFails(group)
  <2>1. PICK text :
          /\ text.of \in Reasons
          /\ Describe(text)
          /\ Keep(Group, Failed(b, url, text))
          /\ CanFetch(b, url)
    BY <1>1, <1>13 DEF FetchFails, Note, Failed
  <2>2. PICK urls : urls = Put(b.byUrl, url, text)
    OBVIOUS
  <2>3. PICK new : new = Failed(b, url, text)
    OBVIOUS
  <2>4. new = [byUrl |-> urls, successes |-> b.successes, byContent |-> b.byContent,
               attempts |-> attempts]
    BY <1>12, <2>2, <2>3 DEF Failed
  <2>5. DOMAIN b.attempts \subseteq DOMAIN new.attempts
    BY <1>10, <1>11, <2>4
  <2>6. fetched' = Append(fetched, [key |-> Key[url], row |-> work[1].row])
    BY <1>1, <1>13 DEF FetchFails
  <2>7. text.of # "over_limit"
    BY <2>1 DEF Reasons
  <2> QED
    BY <1>1, <1>4, <2>1, <2>3, <2>5, <2>6, <2>7, FetchIsRecent
<1>14. CASE FetchSucceeds(group)
  <2>1. PICK text : text = IF Digest(Key[url]) \in DOMAIN b.byContent
                           THEN b.byContent[Digest(Key[url])]
                           ELSE Note(Content[Key[url]])
    OBVIOUS
  <2>2. text.of # "over_limit"
    BY <1>3, <1>6, <2>1 DEF Answers, Digest, Note
  <2>3. PICK new : new = Succeeded(b, url, text)
    OBVIOUS
  <2>4. Describe(text) /\ Keep(Group, new) /\ CanFetch(b, url)
    BY <1>1, <1>14, <2>1, <2>3 DEF FetchSucceeds, Succeeded
  <2>5. PICK urls, found, contents :
          /\ urls = Put(b.byUrl, url, text)
          /\ found = Put(b.successes, Key[url], text)
          /\ contents = Put(b.byContent, Digest(Key[url]), text)
    OBVIOUS
  <2>6. new = [[byUrl |-> b.byUrl, successes |-> b.successes, byContent |-> b.byContent,
                attempts |-> attempts]
                 EXCEPT !.byUrl = urls, !.successes = found, !.byContent = contents]
    BY <1>12, <2>3, <2>5 DEF Succeeded
  <2>7. new.attempts = attempts
    BY <2>6, ReplaceThree
  <2>8. DOMAIN b.attempts \subseteq DOMAIN new.attempts
    BY <1>10, <1>11, <2>7
  <2>9. fetched' = Append(fetched, [key |-> Key[url], row |-> work[1].row])
    BY <1>1, <1>14 DEF FetchSucceeds
  <2> QED
    BY <1>1, <1>4, <2>2, <2>4, <2>8, <2>9, FetchIsRecent
<1> QED
  BY <1>2, <1>7, <1>8, <1>9, <1>13, <1>14 DEF Enrich

LEMMA RecentInvNext ==
    SourcesInv /\ PicturesInv /\ PicturesInv' /\ AgreeInv /\ RecentInv /\ [Next]_vars
    => RecentInv'
<1> SUFFICES ASSUME SourcesInv, PicturesInv, PicturesInv', AgreeInv, RecentInv, [Next]_vars
             PROVE  RecentInv'
  OBVIOUS
<1>1. ASSUME NEW t \in DOMAIN rows, NEW kind \in Kinds, StartRequest(t, kind)
      PROVE  RecentInv'
  BY <1>1, StartRequestIsRecent
<1>2. CASE (HistoryStep /\ UNCHANGED <<pictureVars, request>>) \/ UNCHANGED vars
  <2>1. UNCHANGED <<pictureVars, request>>
    BY <1>2 DEF vars
  <2>2. \A i \in DOMAIN rows : i \in DOMAIN rows' /\ rows'[i] = rows[i]
    BY <1>2, RowsStay DEF vars, historyVars, SourcesInv
  <2> QED
    BY <2>1, <2>2, HistoryStepIsRecent
<1>3. CASE QueryHistory
  BY <1>3, QueryHistoryIsRecent
<1>4. CASE EndRequest
  BY <1>4, EndRequestIsRecent
<1>5. CASE DescribePicture
  <2>1. CASE Assistant
    BY <1>5, <2>1, DescribePictureIsRecent
  <2>2. CASE ~Assistant
    BY <1>5, <2>2 DEF DescribePicture, RecentInv, RecentPicturesFirst, Assistant
  <2> QED
    BY <2>1, <2>2
<1> QED
  BY <1>1, <1>2, <1>3, <1>4, <1>5 DEF Next, RequestStep

\* For any pictures, links, budget and failures, and any growth of the history
\* meanwhile: an assistant's picture is refused for the limit only in favour of
\* pictures that were first fetched for its quote or for a message as new.
THEOREM NewestPictures == Spec => []RecentPicturesFirst
<1>1. Init => RecentInv
  BY DEF Init, PicturesInit, NoRequest, RecentInv, RecentPicturesFirst, Assistant
<1>2. RecentInv => RecentPicturesFirst
  BY DEF RecentInv
<1> QED
  BY <1>1, <1>2, RecentInvNext, SourcesInvariant, PicturesInvariant, AgreeInvariant,
     PTL DEF Spec
===============================================================================
