------------------------------ MODULE TreeProofs ------------------------------
(***************************************************************************)
(* However a body nests forwards and quotes, what the parser makes of it   *)
(* is at most MaxForwardDepth messages deep and has at most                *)
(* MaxForwardNodes messages in it (TreeBounded).  The proof goes up the    *)
(* levels of the parser: at each of them the messages of a tree and what   *)
(* is left of the budget together are no more than the budget was.         *)
(*                                                                         *)
(* And what the codec writes of such a tree it reads back, from its rows   *)
(* in any order (StoredTreeFaithful).  That proof goes up the same levels: *)
(* what is written of a tree has ids of its own, hangs below one parent by *)
(* one relation, and is read from any set of rows that has, of these ids,  *)
(* just the rows that were written.                                        *)
(***************************************************************************)
EXTENDS StoredTrees, RequestProofs

(***************************************************************************)
(* Totals.                                                                 *)
(***************************************************************************)
\* Total, step by step.
LEMMA TotalSteps ==
    ASSUME NEW s \in Seq(Nat)
    PROVE  \E f \in [0..Len(s) -> Nat] :
              /\ f[0] = 0
              /\ \A k \in 1..Len(s) : f[k] = f[k - 1] + s[k]
              /\ Total(s) = f[Len(s)]
<1> DEFINE n == Len(s)
           folds(g) == g = [t \in SUBSET (1..n) |->
                              IF t = {} THEN 0 ELSE g[t \ {Max(t)}] + s[Max(t)]]
           iter == CHOOSE g : folds(g)
           step == [p \in (1..n) \X Nat |-> p[2] + s[p[1]]]
           f == [k \in 0..n |-> iter[1..k]]
<1>1. n \in Nat /\ DOMAIN s = 1..n /\ \A i \in 1..n : s[i] \in Nat
  OBVIOUS
<1>2. Total(s) = iter[1..n]
  <2>1. Total(s) =
          (CHOOSE g : g = [t \in SUBSET DOMAIN s |->
                             IF t = {} THEN 0 ELSE g[t \ {Max(t)}] + s[Max(t)]])[DOMAIN s]
    BY Zenon DEF Total, FoldLeft, MapThenFoldSet
  <2> QED
    BY <1>1, <2>1
<1> HIDE DEF n
<1>3. step \in [(1..n) \X Nat -> Nat]
  BY <1>1
<1>4. PICK g \in [SUBSET (1..n) -> Nat] : FoldsFrom(g, n, 0, step)
  <2>1. 0 \in Nat /\ n \in 0..n
    BY <1>1
  <2> HIDE DEF step
  <2> QED
    BY <1>1, <1>3, <2>1, FoldExists
<1>5. ASSUME NEW t \in SUBSET (1..n), t # {}
      PROVE  /\ step[<<Max(t), g[t \ {Max(t)}]>>] = g[t \ {Max(t)}] + s[Max(t)]
             /\ Max(t) \in 1..n
  <2>1. t \subseteq 0..n
    BY <1>1
  <2>2. Max(t) \in t
    BY <1>1, <1>5, <2>1, GreatestElement
  <2>3. Max(t) \in 1..n /\ g[t \ {Max(t)}] \in Nat
    BY <2>2
  <2> QED
    BY <2>3
<1> HIDE DEF step
<1>6. folds(g)
  <2>1. g = [t \in SUBSET (1..n) |-> IF t = {} THEN 0 ELSE step[<<Max(t), g[t \ {Max(t)}]>>]]
    BY <1>4 DEF FoldsFrom
  <2> QED
    BY <1>5, <2>1
<1>7. folds(iter)
  <2> HIDE DEF folds
  <2> QED
    BY <1>6
<1> HIDE DEF iter
<1>8. \A k \in 0..n : iter[1..k] \in Nat
  <2>1. iter[{}] \in Nat
    <3>1. {} \in SUBSET (1..n)
      OBVIOUS
    <3> QED
      BY <1>7, <3>1
  <2>2. ASSUME NEW k \in 1..n, iter[1..(k - 1)] \in Nat PROVE iter[1..k] \in Nat
    <3>1. k \in Nat /\ k # 0 /\ 1..k \in SUBSET (1..n)
      BY <1>1
    <3>2. iter[1..k] = iter[(1..k) \ {Max(1..k)}] + s[Max(1..k)]
      BY <1>7, <3>1, IntervalTaken, Zenon
    <3>3. iter[1..k] = iter[1..(k - 1)] + s[k]
      BY <3>1, <3>2, IntervalTaken
    <3> QED
      BY <1>1, <2>2, <3>3
  <2> QED
    BY <1>1, <2>1, <2>2, FoldStays
<1>9. f[0] = 0 /\ f[n] = iter[1..n] /\ f \in [0..n -> Nat]
  <2>1. 1..0 = {} /\ 0 \in 0..n /\ n \in 0..n /\ {} \in SUBSET (1..n)
    BY <1>1
  <2>2. iter[{}] = 0
    BY <1>7, <2>1
  <2> QED
    BY <1>8, <2>1, <2>2
<1>10. ASSUME NEW k \in 1..n PROVE f[k] = f[k - 1] + s[k]
  <2>1. k \in Nat /\ k # 0 /\ k \in 0..n /\ k - 1 \in 0..n /\ 1..k \in SUBSET (1..n)
    BY <1>1
  <2>2. iter[1..k] = iter[(1..k) \ {Max(1..k)}] + s[Max(1..k)]
    BY <1>7, <2>1, IntervalTaken, Zenon
  <2>3. Max(1..k) = k /\ (1..k) \ {Max(1..k)} = 1..(k - 1)
    BY <2>1, IntervalTaken
  <2> QED
    BY <2>1, <2>2, <2>3
<1> HIDE DEF f
<1> QED
  BY <1>2, <1>9, <1>10 DEF n

\* The steps determine it.
LEMMA TotalIs ==
    ASSUME NEW s \in Seq(Nat), NEW f, f[0] = 0,
           \A k \in 1..Len(s) : f[k] = f[k - 1] + s[k]
    PROVE  Total(s) = f[Len(s)]
<1>1. PICK h \in [0..Len(s) -> Nat] :
        /\ h[0] = 0
        /\ \A k \in 1..Len(s) : h[k] = h[k - 1] + s[k]
        /\ Total(s) = h[Len(s)]
  BY TotalSteps
<1> DEFINE Bad == {k \in 0..Len(s) : f[k] # h[k]}
<1>2. SUFFICES ASSUME Bad # {} PROVE FALSE
  BY <1>1
<1>3. PICK k \in Bad : \A l \in Bad : k <= l
  <2>1. Bad \subseteq Nat
    OBVIOUS
  <2> HIDE DEF Bad
  <2> QED
    BY <1>2, <2>1, LeastElement
<1>4. k \in 0..Len(s) /\ f[k] # h[k] /\ k # 0
  BY <1>1
<1>5. k \in 1..Len(s) /\ k - 1 \in 0..Len(s) /\ ~(k <= k - 1)
  BY <1>4
<1>6. f[k - 1] = h[k - 1]
  BY <1>3, <1>5
<1> QED
  BY <1>1, <1>4, <1>5, <1>6

\* Nothing comes to nothing.
LEMMA TotalOfNone == Total(<<>>) = 0
<1>1. <<>> \in Seq(Nat) /\ Len(<<>>) = 0
  OBVIOUS
<1>2. PICK f \in [0..Len(<<>>) -> Nat] : f[0] = 0 /\ Total(<<>>) = f[Len(<<>>)]
  BY <1>1, TotalSteps
<1> QED
  BY <1>1, <1>2

\* Totals add up, and are natural.
LEMMA TotalOfBoth ==
    ASSUME NEW s \in Seq(Nat), NEW t \in Seq(Nat)
    PROVE  Total(s \o t) = Total(s) + Total(t) /\ Total(s) \in Nat
<1>1. PICK f \in [0..Len(s) -> Nat] :
        /\ f[0] = 0
        /\ \A k \in 1..Len(s) : f[k] = f[k - 1] + s[k]
        /\ Total(s) = f[Len(s)]
  BY TotalSteps
<1>2. PICK g \in [0..Len(t) -> Nat] :
        /\ g[0] = 0
        /\ \A k \in 1..Len(t) : g[k] = g[k - 1] + t[k]
        /\ Total(t) = g[Len(t)]
  BY TotalSteps
<1> DEFINE n == Len(s)
           all == s \o t
           h == [k \in 0..Len(all) |-> IF k <= n THEN f[k] ELSE f[n] + g[k - n]]
<1>3. /\ all \in Seq(Nat) /\ Len(all) = n + Len(t) /\ n \in Nat /\ Len(t) \in Nat
      /\ \A k \in 1..Len(all) : all[k] = IF k <= n THEN s[k] ELSE t[k - n]
  OBVIOUS
<1>3a. /\ f[n] \in Nat /\ Total(s) = f[n]
       /\ \A k \in 0..Len(t) : g[k] \in Nat
       /\ \A k \in 1..Len(t) : t[k] \in Nat
  <2>1. n \in 0..Len(s) /\ n = Len(s)
    BY <1>3
  <2>2. f[n] \in Nat /\ Total(s) = f[n]
    BY <1>1, <2>1
  <2>3. \A k \in 1..Len(t) : t[k] \in Nat
    OBVIOUS
  <2> QED
    BY <2>2, <2>3
<1> HIDE DEF n, all
<1>4. h[0] = 0 /\ h[Len(all)] = f[n] + g[Len(t)]
  <2>1. 0 \in 0..Len(all) /\ Len(all) \in 0..Len(all) /\ Len(all) - n = Len(t)
    BY <1>3
  <2>2. CASE Len(t) = 0
    <3>1. Len(all) = n /\ g[Len(t)] = 0
      BY <1>2, <1>3, <2>2
    <3>2. Len(all) <= n /\ 0 <= n
      BY <1>3, <3>1
    <3>3. h[0] = f[0] /\ h[Len(all)] = f[Len(all)]
      BY <2>1, <3>2
    <3> QED
      BY <1>1, <1>3a, <3>1, <3>3
  <2>3. CASE Len(t) # 0
    BY <1>1, <1>3, <2>1, <2>3
  <2> QED
    BY <2>2, <2>3
<1>5. ASSUME NEW k \in 1..Len(all) PROVE h[k] = h[k - 1] + all[k]
  <2>1. k \in 0..Len(all) /\ k - 1 \in 0..Len(all)
    BY <1>3
  <2>2. CASE k <= n
    <3>1. k \in 1..n /\ k - 1 <= n
      BY <1>3, <2>2
    <3>2. h[k] = f[k] /\ h[k - 1] = f[k - 1] /\ all[k] = s[k]
      BY <1>3, <2>1, <2>2, <3>1
    <3> QED
      BY <1>1, <3>1, <3>2 DEF n
  <2>3. CASE ~(k <= n)
    <3>1. k - n \in 1..Len(t) /\ (k - n) - 1 = (k - 1) - n
      BY <1>3, <2>3
    <3>2. h[k] = f[n] + g[k - n] /\ all[k] = t[k - n]
      BY <1>3, <2>1, <2>3
    <3>3. g[k - n] = g[(k - 1) - n] + t[k - n]
      BY <1>2, <3>1
    <3>4. h[k - 1] = f[n] + g[(k - 1) - n]
      <4>1. CASE k - 1 = n
        <5>1. (k - 1) - n = 0 /\ h[k - 1] = f[n]
          BY <1>3, <2>1, <4>1
        <5> QED
          BY <1>2, <1>3a, <5>1
      <4>2. CASE k - 1 # n
        BY <1>3, <2>1, <2>3, <4>2
      <4> QED
        BY <4>1, <4>2
    <3>5. f[n] \in Nat /\ g[(k - 1) - n] \in Nat /\ t[k - n] \in Nat
      <4>1. (k - 1) - n \in 0..Len(t)
        <5>1. k - n \in 1..Len(t) /\ Len(t) \in Nat
          BY <3>1
        <5>2. (k - n) - 1 \in 0..Len(t)
          BY <5>1
        <5> QED
          BY <3>1, <5>2
      <4> QED
        BY <1>3a, <3>1, <4>1
    <3> QED
      BY <3>2, <3>3, <3>4, <3>5
  <2> QED
    BY <2>2, <2>3
<1> HIDE DEF h
<1>6. Total(all) = h[Len(all)]
  BY <1>3, <1>4, <1>5, TotalIs
<1> QED
  BY <1>1, <1>2, <1>3a, <1>4, <1>6 DEF all

\* One number is its own total.
LEMMA TotalOfOne ==
    ASSUME NEW k \in Nat
    PROVE  Total(<<k>>) = k
<1> DEFINE s == <<k>>
<1>1. s \in Seq(Nat) /\ Len(s) = 1 /\ s[1] = k
  OBVIOUS
<1>2. PICK f \in [0..Len(s) -> Nat] :
        /\ f[0] = 0
        /\ \A i \in 1..Len(s) : f[i] = f[i - 1] + s[i]
        /\ Total(s) = f[Len(s)]
  BY <1>1, TotalSteps
<1>3. 1 \in 1..Len(s) /\ 1 - 1 = 0
  BY <1>1
<1>4. Total(s) = f[1] /\ f[1] = f[1 - 1] + s[1]
  BY <1>1, <1>2, <1>3
<1> QED
  BY <1>1, <1>2, <1>3, <1>4

\* Nothing but zeros comes to nothing.
LEMMA TotalOfZeros ==
    ASSUME NEW s \in Seq(Nat), \A k \in 1..Len(s) : s[k] = 0
    PROVE  Total(s) = 0
<1> DEFINE f == [k \in 0..Len(s) |-> 0]
<1>1. Len(s) \in Nat
  OBVIOUS
<1>2. f[0] = 0 /\ f[Len(s)] = 0 /\ \A k \in 1..Len(s) : f[k] = 0 /\ f[k - 1] = 0
  BY <1>1
<1> HIDE DEF f
<1>3. \A k \in 1..Len(s) : f[k] = f[k - 1] + s[k]
  BY <1>2
<1> QED
  BY <1>2, <1>3, TotalIs

(***************************************************************************)
(* The recursive functions of the parser and of the codec.  Each level is  *)
(* made of the one below it; that there are such functions is shown once   *)
(* for all of them, for the least number of levels where it would fail.    *)
(***************************************************************************)
Level(what, n, below) ==
    IF what = "bodies" THEN BodiesOver(below)
    ELSE IF what = "trees" THEN TreesOver(below)
    ELSE IF what = "members" THEN MembersOver(n, IF n = 0 THEN <<>> ELSE below)
    ELSE IF what = "coded" THEN IF n = 0 THEN NumberedFrom0(Leaves) ELSE TreesOver(below)
    ELSE IF what = "encoder" THEN EncoderOver(TreesUpTo[n], IF n = 0 THEN <<>> ELSE below)
    ELSE IF what = "decoder" THEN DecoderOver(IF n = 0 THEN <<>> ELSE below)
    ELSE IF what = "renderer" THEN RendererOver(TreesUpTo[n], IF n = 0 THEN <<>> ELSE below)
    ELSE IF what = "embedded" THEN EmbeddedOver(BodiesUpTo[n], IF n = 0 THEN <<>> ELSE below)
    ELSE IF what = "words" THEN AllWordsOver(BodiesUpTo[n], IF n = 0 THEN <<>> ELSE below)
    ELSE ParserOver(n, IF n = 0 THEN <<>> ELSE below)

Levels(f, what, m) ==
    f = [n \in 0..m |-> Level(what, n, IF n = 0 THEN {} ELSE f[n - 1])]

\* A function that satisfies the recursion is, at n, made of itself at n - 1.
LEMMA LevelIs ==
    ASSUME NEW what, NEW m, NEW f, Levels(f, what, m), NEW n \in 0..m
    PROVE  f[n] = Level(what, n, IF n = 0 THEN {} ELSE f[n - 1])
BY Zenon DEF Levels

\* There is one: else take the least height without one and extend the one below.
LEMMA LevelsExist ==
    ASSUME NEW what, NEW m \in Nat PROVE \E f : Levels(f, what, m)
<1> DEFINE Bad == {k \in Nat : ~\E f : Levels(f, what, k)}
<1>1. SUFFICES ASSUME Bad # {} PROVE FALSE
  OBVIOUS
<1>2. PICK k \in Bad : \A l \in Bad : k <= l
  <2>1. Bad \subseteq Nat
    OBVIOUS
  <2> HIDE DEF Bad
  <2> QED
    BY <1>1, <2>1, LeastElement
<1>3. k \in Nat /\ ~\E f : Levels(f, what, k)
  OBVIOUS
<1>4. PICK g : k # 0 => Levels(g, what, k - 1)
  <2>1. k # 0 => k - 1 \in Nat /\ ~(k <= k - 1)
    BY <1>3
  <2> QED
    BY <1>2, <2>1
<1> DEFINE f == [n \in 0..k |->
                   IF n = k THEN Level(what, k, IF k = 0 THEN {} ELSE g[k - 1]) ELSE g[n]]
           step(n) == Level(what, n, IF n = 0 THEN {} ELSE f[n - 1])
<1>5. ASSUME NEW n \in 0..k PROVE f[n] = step(n)
  <2>1. CASE n = k
    <3>1. k # 0 => k - 1 \in 0..k /\ k - 1 # k
      BY <1>3
    <3>2. k # 0 => f[k - 1] = g[k - 1]
      BY <3>1
    <3>3. (IF k = 0 THEN {} ELSE g[k - 1]) = (IF k = 0 THEN {} ELSE f[k - 1])
      BY <3>2
    <3> QED
      BY <2>1, <3>3
  <2>2. CASE n # k
    <3>1. k - 1 \in Nat /\ n \in 0..(k - 1) /\ (n # 0 => n - 1 \in 0..k /\ n - 1 # k)
      BY <1>3, <2>2
    <3>2. g[n] = Level(what, n, IF n = 0 THEN {} ELSE g[n - 1])
      BY <1>4, <2>2, <3>1, LevelIs
    <3>3. f[n] = g[n] /\ (n # 0 => f[n - 1] = g[n - 1])
      BY <2>2, <3>1
    <3>4. (IF n = 0 THEN {} ELSE g[n - 1]) = (IF n = 0 THEN {} ELSE f[n - 1])
      BY <3>3
    <3> HIDE DEF f
    <3> QED
      BY <3>2, <3>3, <3>4
  <2> QED
    BY <2>1, <2>2
<1>6. f = [n \in 0..k |-> f[n]]
  OBVIOUS
<1> HIDE DEF f
<1>7. f = [n \in 0..k |-> step(n)]
  BY <1>5, <1>6
<1> QED
  BY <1>3, <1>7 DEF Levels

\* So each of the functions satisfies its recursion: bodies,
LEMMA BodiesAre ==
    ASSUME NEW n \in 0..MaxNesting
    PROVE  BodiesUpTo[n] = BodiesOver(IF n = 0 THEN {} ELSE BodiesUpTo[n - 1])
<1> DEFINE Is(f) == f = [k \in 0..MaxNesting |-> BodiesOver(IF k = 0 THEN {} ELSE f[k - 1])]
<1>1. PICK f : Levels(f, "bodies", MaxNesting)
  BY LevelsExist, ParserAssumption
<1>2. Is(f)
  BY <1>1, Zenon DEF Levels, Level
<1>3. Is(BodiesUpTo)
  <2>1. BodiesUpTo = CHOOSE g : Is(g)
    BY DEF BodiesUpTo
  <2> HIDE DEF Is
  <2> QED
    BY <1>2, <2>1
<1> QED
  BY <1>3, Zenon

\* trees,
LEMMA TreesAre ==
    ASSUME NEW n \in 0..MaxForwardDepth
    PROVE  ParsedTrees[n] = TreesOver(IF n = 0 THEN {} ELSE ParsedTrees[n - 1])
<1> DEFINE Is(f) == f = [k \in 0..MaxForwardDepth |->
                           TreesOver(IF k = 0 THEN {} ELSE f[k - 1])]
<1>1. PICK f : Levels(f, "trees", MaxForwardDepth)
  BY LevelsExist, ParserAssumption
<1>2. Is(f)
  BY <1>1, Zenon DEF Levels, Level
<1>3. Is(ParsedTrees)
  <2>1. ParsedTrees = CHOOSE g : Is(g)
    BY DEF ParsedTrees
  <2> HIDE DEF Is
  <2> QED
    BY <1>2, <2>1
<1> QED
  BY <1>3, Zenon

\* the counts of their messages
LEMMA MembersAre ==
    ASSUME NEW n \in 0..MaxForwardDepth
    PROVE  Members[n] = MembersOver(n, IF n = 0 THEN <<>> ELSE Members[n - 1])
<1> DEFINE Is(f) == f = [k \in 0..MaxForwardDepth |->
                           MembersOver(k, IF k = 0 THEN <<>> ELSE f[k - 1])]
<1>1. PICK f : Levels(f, "members", MaxForwardDepth)
  BY LevelsExist, ParserAssumption
<1>2. Is(f)
  <2> DEFINE step(k) == MembersOver(k, IF k = 0 THEN <<>> ELSE f[k - 1])
  <2>1. ASSUME NEW k \in 0..MaxForwardDepth PROVE f[k] = step(k)
    <3>1. f[k] = Level("members", k, IF k = 0 THEN {} ELSE f[k - 1])
      BY <1>1, LevelIs
    <3>2. CASE k = 0
      BY <3>1, <3>2 DEF Level
    <3>3. CASE k # 0
      BY <3>1, <3>3 DEF Level
    <3> QED
      BY <3>2, <3>3
  <2>2. f = [k \in 0..MaxForwardDepth |-> f[k]]
    BY <1>1 DEF Levels
  <2> HIDE DEF step
  <2>3. f = [k \in 0..MaxForwardDepth |-> step(k)]
    BY <2>1, <2>2
  <2> QED
    BY <2>3 DEF step
<1>3. Is(Members)
  <2>1. Members = CHOOSE g : Is(g)
    BY DEF Members
  <2> HIDE DEF Is
  <2> QED
    BY <1>2, <2>1
<1> QED
  BY <1>3, Zenon

\* and the parser.
LEMMA ParserIs ==
    ASSUME NEW n \in 0..MaxForwardDepth
    PROVE  Parser[n] = ParserOver(n, IF n = 0 THEN <<>> ELSE Parser[n - 1])
<1> DEFINE Is(f) == f = [k \in 0..MaxForwardDepth |->
                           ParserOver(k, IF k = 0 THEN <<>> ELSE f[k - 1])]
<1>1. PICK f : Levels(f, "parser", MaxForwardDepth)
  BY LevelsExist, ParserAssumption
<1>2. Is(f)
  <2> DEFINE step(k) == ParserOver(k, IF k = 0 THEN <<>> ELSE f[k - 1])
  <2>1. ASSUME NEW k \in 0..MaxForwardDepth PROVE f[k] = step(k)
    <3>1. f[k] = Level("parser", k, IF k = 0 THEN {} ELSE f[k - 1])
      BY <1>1, LevelIs
    <3>2. CASE k = 0
      BY <3>1, <3>2 DEF Level
    <3>3. CASE k # 0
      BY <3>1, <3>3 DEF Level
    <3> QED
      BY <3>2, <3>3
  <2>2. f = [k \in 0..MaxForwardDepth |-> f[k]]
    BY <1>1 DEF Levels
  <2> HIDE DEF step
  <2>3. f = [k \in 0..MaxForwardDepth |-> step(k)]
    BY <2>1, <2>2
  <2> QED
    BY <2>3 DEF step
<1>3. Is(Parser)
  <2>1. Parser = CHOOSE g : Is(g)
    BY DEF Parser
  <2> HIDE DEF Is
  <2> QED
    BY <1>2, <2>1
<1> QED
  BY <1>3, Zenon

\* What a body holds is a body.
LEMMA LowerBodies ==
    ASSUME NEW n \in 1..MaxNesting
    PROVE  BodiesUpTo[n - 1] \subseteq BodiesUpTo[n]
<1> DEFINE Bad == {k \in 1..MaxNesting : ~(BodiesUpTo[k - 1] \subseteq BodiesUpTo[k])}
<1>1. SUFFICES ASSUME Bad # {} PROVE FALSE
  OBVIOUS
<1>2. PICK k \in Bad : \A l \in Bad : k <= l
  <2>1. Bad \subseteq Nat
    OBVIOUS
  <2> HIDE DEF Bad
  <2> QED
    BY <1>1, <2>1, LeastElement
<1>3. k \in 1..MaxNesting /\ ~(BodiesUpTo[k - 1] \subseteq BodiesUpTo[k])
  OBVIOUS
<1> DEFINE S == IF k - 1 = 0 THEN {} ELSE BodiesUpTo[(k - 1) - 1]
<1>4. S \subseteq BodiesUpTo[k - 1]
  <2>1. CASE k - 1 # 0
    <3>1. k - 1 \in 1..MaxNesting /\ ~(k <= k - 1)
      BY <1>3, <2>1, ParserAssumption
    <3> QED
      BY <1>2, <2>1, <3>1
  <2> QED
    BY <2>1
<1>5. BodiesUpTo[k - 1] = BodiesOver(S) /\ BodiesUpTo[k] = BodiesOver(BodiesUpTo[k - 1])
  <2>1. k - 1 \in 0..MaxNesting /\ k \in 0..MaxNesting /\ k # 0
    BY <1>3, ParserAssumption
  <2> HIDE DEF S
  <2>2. BodiesUpTo[k] = BodiesOver(BodiesUpTo[k - 1])
    BY <2>1, BodiesAre
  <2> QED
    BY <2>1, <2>2, BodiesAre DEF S
<1> HIDE DEF S
<1>6. \A T : S \subseteq T => BodiesOver(S) \subseteq BodiesOver(T)
  <2> SUFFICES ASSUME NEW T, S \subseteq T, NEW b \in BodiesOver(S)
               PROVE  b \in BodiesOver(T)
    OBVIOUS
  <2>1. Seq(S) \subseteq Seq(T)
    OBVIOUS
  <2> QED
    BY <2>1 DEF BodiesOver
<1> QED
  BY <1>3, <1>4, <1>5, <1>6

\* A body is a record whose elements are bodies again.
LEMMA BodiesWithin ==
    ASSUME NEW body \in Bodies
    PROVE  /\ body \in BodiesOver(Bodies)
           /\ body.elements \in Seq(Bodies)
<1>1. PICK S : body \in BodiesOver(S) /\ S \subseteq Bodies
  <2>1. CASE MaxNesting = 0
    <3>1. body \in BodiesOver({})
      BY <2>1, BodiesAre DEF Bodies
    <3> QED
      BY <3>1
  <2>2. CASE MaxNesting # 0
    <3>1. MaxNesting \in 1..MaxNesting /\ MaxNesting \in 0..MaxNesting
      BY <2>2, ParserAssumption
    <3>2. body \in BodiesOver(BodiesUpTo[MaxNesting - 1])
      BY <2>2, <3>1, BodiesAre DEF Bodies
    <3> QED
      BY <3>1, <3>2, LowerBodies DEF Bodies
  <2> QED
    BY <2>1, <2>2
<1>2. Seq(S) \subseteq Seq(Bodies)
  BY <1>1
<1> QED
  BY <1>1, <1>2 DEF BodiesOver

(***************************************************************************)
(* A message's own content: leaves, numbered from where they start.        *)
(***************************************************************************)
LeafKinds == {"text", "at", "image", "file", "unknown"}

\* A word is a token.
LEMMA WordsAreTokens ==
    ASSUME NEW s \in Seq(Words)
    PROVE  s \in Seq(Tokens)
<1>1. Words \subseteq Tokens
  BY DEF Words, Tokens
<1> QED
  BY <1>1

\* What a message holds itself is a leaf,
LEMMA SegmentIsLeaf ==
    ASSUME NEW kind \in LeafKinds, NEW value \in Seq(Tokens)
    PROVE  Segment(kind, value) \in Leaves
BY DEF Segment, Leaves, LeafKinds

\* a run of text is none or one,
LEMMA TextIsLeaves ==
    ASSUME NEW run \in Seq(Tokens)
    PROVE  TextOf(run) \in Seq(Leaves)
<1>1. Segment("text", run) \in Leaves
  BY SegmentIsLeaf DEF LeafKinds
<1> QED
  BY <1>1 DEF TextOf

Cuts == [done : Seq(Leaves), run : Seq(Tokens)]

\* a token keeps what was cut so far typed,
LEMMA TakeTokenStays ==
    ASSUME NEW acc \in Cuts, NEW token \in Tokens, NEW body
    PROVE  TakeToken(acc, token, body) \in Cuts
<1>1. acc.done \in Seq(Leaves) /\ acc.run \in Seq(Tokens)
  BY DEF Cuts
<1>2. CASE token.kind = "at" /\ token.v \in Range(body.mentions)
  <2>1. <<token>> \in Seq(Tokens)
    OBVIOUS
  <2>2. Segment("at", <<token>>) \in Leaves
    BY <2>1, SegmentIsLeaf DEF LeafKinds
  <2>3. <<Segment("at", <<token>>)>> \in Seq(Leaves)
    BY <2>2
  <2>4. TextOf(acc.run) \in Seq(Leaves)
    BY <1>1, TextIsLeaves
  <2>5. acc.done \o TextOf(acc.run) \o <<Segment("at", <<token>>)>> \in Seq(Leaves)
    BY <1>1, <2>3, <2>4
  <2> QED
    BY <1>2, <2>5 DEF TakeToken, Cuts
<1>3. CASE ~(token.kind = "at" /\ token.v \in Range(body.mentions))
  <2>1. Append(acc.run, token) \in Seq(Tokens)
    BY <1>1
  <2>2. TakeToken(acc, token, body) = [acc EXCEPT !.run = Append(acc.run, token)]
    BY <1>3 DEF TakeToken
  <2> QED
    BY <1>1, <2>1, <2>2 DEF Cuts
<1> QED
  BY <1>2, <1>3

Cut(body) ==
    FoldLeft(LAMBDA acc, token : TakeToken(acc, token, body),
             [done |-> <<>>, run |-> <<>>], body.tokens)

\* and the content is cut one token after another.
LEMMA CutIsFolded ==
    ASSUME NEW body, body.tokens \in Seq(Tokens)
    PROVE  \E A : /\ A[0] = [done |-> <<>>, run |-> <<>>]
                  /\ A[Len(body.tokens)] = Cut(body)
                  /\ \A k \in 0..Len(body.tokens) : A[k] \in Cuts
                  /\ \A k \in 1..Len(body.tokens) :
                        A[k] = TakeToken(A[k - 1], body.tokens[k], body)
<1> DEFINE s == body.tokens
           n == Len(s)
           base == [done |-> <<>>, run |-> <<>>]
           folds(g) == g = [t \in SUBSET (1..n) |->
                              IF t = {} THEN base
                              ELSE TakeToken(g[t \ {Max(t)}], s[Max(t)], body)]
           iter == CHOOSE g : folds(g)
           step == [p \in (1..n) \X Cuts |-> TakeToken(p[2], s[p[1]], body)]
           A == [k \in 0..n |-> iter[1..k]]
<1>1. n \in Nat /\ DOMAIN s = 1..n /\ \A i \in 1..n : s[i] \in Tokens
  OBVIOUS
<1>2. Cut(body) = iter[1..n]
  <2>1. Cut(body) =
          (CHOOSE g : g = [t \in SUBSET DOMAIN s |->
                             IF t = {} THEN base
                             ELSE TakeToken(g[t \ {Max(t)}], s[Max(t)], body)])[DOMAIN s]
    BY Zenon DEF Cut, FoldLeft, MapThenFoldSet
  <2> QED
    BY <1>1, <2>1
<1> HIDE DEF n, s
<1>3. step \in [(1..n) \X Cuts -> Cuts]
  BY <1>1, TakeTokenStays
<1>4. base \in Cuts
  BY DEF Cuts
<1> HIDE DEF base
<1>5. PICK g \in [SUBSET (1..n) -> Cuts] : FoldsFrom(g, n, base, step)
  <2>1. n \in 0..n
    BY <1>1
  <2> HIDE DEF step
  <2> QED
    BY <1>1, <1>3, <1>4, <2>1, FoldExists
<1>6. ASSUME NEW t \in SUBSET (1..n), t # {}
      PROVE  step[<<Max(t), g[t \ {Max(t)}]>>] = TakeToken(g[t \ {Max(t)}], s[Max(t)], body)
  <2>1. t \subseteq 0..n
    BY <1>1
  <2>2. Max(t) \in t
    BY <1>1, <1>6, <2>1, GreatestElement
  <2>3. Max(t) \in 1..n /\ g[t \ {Max(t)}] \in Cuts
    BY <2>2
  <2> QED
    BY <2>3
<1> HIDE DEF step
<1>7. folds(iter)
  <2>1. g = [t \in SUBSET (1..n) |->
               IF t = {} THEN base ELSE step[<<Max(t), g[t \ {Max(t)}]>>]]
    BY <1>5 DEF FoldsFrom
  <2>2. folds(g)
    BY <1>6, <2>1
  <2> HIDE DEF folds
  <2> QED
    BY <2>2
<1> HIDE DEF iter
<1>8. iter[{}] = base
  BY <1>7
<1>9. ASSUME NEW k \in 1..n PROVE iter[1..k] = TakeToken(iter[1..(k - 1)], s[k], body)
  <2>1. k \in Nat /\ k # 0 /\ 1..k \in SUBSET (1..n)
    BY <1>1
  <2>2. iter[1..k] = TakeToken(iter[(1..k) \ {Max(1..k)}], s[Max(1..k)], body)
    BY <1>7, <2>1, IntervalTaken, Zenon
  <2>3. Max(1..k) = k /\ (1..k) \ {Max(1..k)} = 1..(k - 1)
    BY <2>1, IntervalTaken
  <2> QED
    BY <2>2, <2>3
<1>10. \A k \in 0..n : iter[1..k] \in Cuts
  <2>1. \A k \in 1..n : iter[1..(k - 1)] \in Cuts => iter[1..k] \in Cuts
    BY <1>1, <1>9, TakeTokenStays
  <2>2. iter[{}] \in Cuts
    BY <1>4, <1>8
  <2> QED
    BY <1>1, <2>1, <2>2, FoldStays
<1>11. /\ A[0] = base /\ A[n] = iter[1..n]
       /\ \A k \in 0..n : A[k] \in Cuts
       /\ \A k \in 1..n : A[k] = TakeToken(A[k - 1], s[k], body)
  <2>1. 0 \in 0..n /\ n \in 0..n /\ 1..0 = {} /\ \A k \in 1..n : k \in 0..n /\ k - 1 \in 0..n
    BY <1>1
  <2>2. A[0] = base /\ A[n] = iter[1..n]
    BY <1>8, <2>1
  <2>3. \A k \in 1..n : A[k] = iter[1..k] /\ A[k - 1] = iter[1..(k - 1)]
    BY <2>1
  <2> QED
    BY <1>9, <1>10, <2>1, <2>2, <2>3
<1> HIDE DEF A, folds
<1> QED
  BY <1>2, <1>11 DEF base, n, s

\* So all of it stays typed.
LEMMA CutIsTyped ==
    ASSUME NEW body, body.tokens \in Seq(Tokens)
    PROVE  Cut(body) \in Cuts
<1>1. Len(body.tokens) \in Nat /\ Len(body.tokens) \in 0..Len(body.tokens)
  OBVIOUS
<1> QED
  BY <1>1, CutIsFolded

\* Listed mentions without a mark become leaves,
LEMMA UnmatchedIsLeaves ==
    ASSUME NEW body \in BodiesOver(Bodies)
    PROVE  Unmatched(body) \in Seq(Leaves)
<1>1. body.mentions \in Seq(STRING)
  BY DEF BodiesOver
<1> DEFINE one(user) == IF Token("at", user) \in Range(body.tokens) THEN <<>>
                        ELSE <<Segment("unknown", <<Token("mention", user)>>)>>
           parts == [i \in DOMAIN body.mentions |-> one(body.mentions[i])]
<1>2. ASSUME NEW user \in STRING PROVE one(user) \in Seq(Leaves)
  <2>1. Token("mention", user) \in Tokens
    BY DEF Token, Tokens, WordKinds
  <2>2. <<Token("mention", user)>> \in Seq(Tokens)
    BY <2>1
  <2>3. Segment("unknown", <<Token("mention", user)>>) \in Leaves
    BY <2>2, SegmentIsLeaf DEF LeafKinds
  <2> QED
    BY <2>3
<1>3. parts = [i \in 1..Len(body.mentions) |-> parts[i]]
      /\ \A i \in 1..Len(body.mentions) : parts[i] = one(body.mentions[i])
      /\ Len(body.mentions) \in Nat
  BY <1>1
<1>4. parts \in Seq(Seq(Leaves))
  <2>1. \A i \in 1..Len(body.mentions) : parts[i] \in Seq(Leaves)
    <3> HIDE DEF one, parts
    <3>1. \A i \in 1..Len(body.mentions) : body.mentions[i] \in STRING
      BY <1>1
    <3> QED
      BY <1>2, <1>3, <3>1
  <2> HIDE DEF parts
  <2>2. parts \in [1..Len(body.mentions) -> Seq(Leaves)]
    BY <1>3, <2>1
  <2> QED
    BY <1>3, <2>2, SequenceOf
<1>5. FlattenSeq(parts) \in Seq(Leaves)
  <2> HIDE DEF parts
  <2> QED
    BY <1>4, FlattenSpreads
<1> QED
  BY <1>5 DEF Unmatched

\* content as a whole does,
LEMMA ContentIsLeaves ==
    ASSUME NEW body \in BodiesOver(Bodies)
    PROVE  ContentSegments(body) \in Seq(Leaves)
<1>1. body.tokens \in Seq(Tokens)
  BY WordsAreTokens DEF BodiesOver
<1>2. <<Segment("unknown", Unstructured)>> \in Seq(Leaves)
  <2>1. Token("unstructured", "") \in Tokens
    BY DEF Token, Tokens, WordKinds
  <2>2. Unstructured \in Seq(Tokens)
    <3>1. \A t \in Tokens : <<t>> \in Seq(Tokens)
      OBVIOUS
    <3> QED
      BY <2>1, <3>1 DEF Unstructured
  <2>3. Segment("unknown", Unstructured) \in Leaves
    BY <2>2, SegmentIsLeaf DEF LeafKinds
  <2> QED
    BY <2>3
<1>3. Cut(body).done \o TextOf(Cut(body).run) \o Unmatched(body) \in Seq(Leaves)
  <2>1. Cut(body).done \in Seq(Leaves) /\ Cut(body).run \in Seq(Tokens)
    BY <1>1, CutIsTyped DEF Cuts
  <2>2. TextOf(Cut(body).run) \in Seq(Leaves)
    BY <2>1, TextIsLeaves
  <2> QED
    BY <2>1, <2>2, UnmatchedIsLeaves
<1>4. \/ ContentSegments(body) = <<>>
      \/ ContentSegments(body) = <<Segment("unknown", Unstructured)>>
      \/ ContentSegments(body) = Cut(body).done \o TextOf(Cut(body).run) \o Unmatched(body)
  BY Zenon DEF ContentSegments, Cut
<1> QED
  <2>1. <<>> \in Seq(Leaves)
    OBVIOUS
  <2> QED
    BY <1>2, <1>3, <1>4, <2>1

\* and attachments do.
LEMMA AttachmentsAreLeaves ==
    ASSUME NEW body \in BodiesOver(Bodies)
    PROVE  AttachmentSegments(body) \in Seq(Leaves)
<1> DEFINE n == Len(body.attachments)
           one(a) == Segment(IF a.kind \in {"image", "file"} THEN a.kind ELSE "unknown", <<a>>)
<1>1. body.attachments \in Seq(Tokens)
  BY WordsAreTokens DEF BodiesOver
<1>2. ASSUME NEW a \in Tokens PROVE one(a) \in Leaves
  <2>1. <<a>> \in Seq(Tokens)
    OBVIOUS
  <2>2. PICK kind \in LeafKinds :
          kind = IF a.kind \in {"image", "file"} THEN a.kind ELSE "unknown"
    BY DEF LeafKinds
  <2> QED
    BY <2>1, <2>2, SegmentIsLeaf
<1>3. AttachmentSegments(body) = [i \in DOMAIN body.attachments |-> one(body.attachments[i])]
  BY DEF AttachmentSegments
<1> HIDE DEF one
<1>4. AttachmentSegments(body) \in [1..n -> Leaves] /\ n \in Nat
  BY <1>1, <1>2, <1>3
<1> QED
  BY <1>4, SequenceOf

NumberedLeaves(start) ==
    {s \in Seq(Leaves) : \A i \in DOMAIN s : s[i].position = start + i - 1}

\* Together they are numbered from where they start.
LEMMA OwnContent ==
    ASSUME NEW body \in BodiesOver(Bodies), NEW start \in Nat
    PROVE  MessageLikeSegments(body, start) \in NumberedLeaves(start)
<1> DEFINE own == ContentSegments(body) \o AttachmentSegments(body)
           n == Len(own)
           new(i) == [own[i] EXCEPT !.position = start + i - 1]
<1>1. own \in Seq(Leaves)
  BY ContentIsLeaves, AttachmentsAreLeaves
<1>2. MessageLikeSegments(body, start) = [i \in DOMAIN own |-> new(i)]
  BY DEF MessageLikeSegments, Numbered
<1> HIDE DEF own
<1>3. n \in Nat /\ DOMAIN own = 1..n /\ \A i \in 1..n : own[i] \in Leaves
  BY <1>1
<1>4. ASSUME NEW i \in 1..n
      PROVE  new(i) \in Leaves /\ new(i).position = start + i - 1
  <2>1. own[i] \in Leaves /\ start + i - 1 \in Nat
    BY <1>3
  <2> QED
    BY <2>1 DEF Leaves
<1> HIDE DEF new
<1>5. /\ MessageLikeSegments(body, start) \in [1..n -> Leaves]
      /\ \A i \in 1..n : MessageLikeSegments(body, start)[i].position = start + i - 1
  BY <1>2, <1>3, <1>4
<1>6. MessageLikeSegments(body, start) \in Seq(Leaves)
  BY <1>3, <1>5, SequenceOf
<1> QED
  BY <1>3, <1>5, <1>6 DEF NumberedLeaves

(***************************************************************************)
(* Counting.  members counts the messages in each of trees; a segment may  *)
(* have any of trees within it.                                            *)
(***************************************************************************)
SegmentsOver(trees) == Leaves \cup Forwards(trees) \cup Replies(trees)
Counts(members, trees) == \A t \in trees : members[t] \in Nat

Nodes(trees) == [sender : STRING, depth : Nat, content : trees]
Quotes(trees) == [author : STRING, segments : trees]
Cost(members, nodes) == Total([i \in DOMAIN nodes |-> 1 + members[nodes[i].content]])

\* Each node of a forward, and each quote, holds one of trees.
LEMMA ContentsAreTrees ==
    ASSUME NEW trees
    PROVE  /\ \A s \in Seq(Nodes(trees)) :
                 /\ Len(s) \in Nat /\ DOMAIN s = 1..Len(s)
                 /\ \A i \in 1..Len(s) : s[i].content \in trees
           /\ \A s \in Seq(Quotes(trees)) :
                 /\ Len(s) \in Nat /\ DOMAIN s = 1..Len(s)
                 /\ \A i \in 1..Len(s) : s[i].segments \in trees
<1>1. ASSUME NEW s \in Seq(Nodes(trees))
      PROVE  /\ Len(s) \in Nat /\ DOMAIN s = 1..Len(s)
             /\ \A i \in 1..Len(s) : s[i].content \in trees
  <2>1. Len(s) \in Nat /\ DOMAIN s = 1..Len(s) /\ \A i \in 1..Len(s) : s[i] \in Nodes(trees)
    OBVIOUS
  <2>2. \A node \in Nodes(trees) : node.content \in trees
    BY DEF Nodes
  <2> QED
    BY <2>1, <2>2
<1>2. ASSUME NEW s \in Seq(Quotes(trees))
      PROVE  /\ Len(s) \in Nat /\ DOMAIN s = 1..Len(s)
             /\ \A i \in 1..Len(s) : s[i].segments \in trees
  <2>1. Len(s) \in Nat /\ DOMAIN s = 1..Len(s) /\ \A i \in 1..Len(s) : s[i] \in Quotes(trees)
    OBVIOUS
  <2>2. \A quote \in Quotes(trees) : quote.segments \in trees
    BY DEF Quotes
  <2> QED
    BY <2>1, <2>2
<1> QED
  BY <1>1, <1>2

\* A node more costs itself and what is in it.
LEMMA CostIs ==
    ASSUME NEW trees, NEW members, Counts(members, trees), NEW nodes \in Seq(Nodes(trees))
    PROVE  /\ Cost(members, nodes) \in Nat
           /\ \A node \in Nodes(trees) :
                 Cost(members, Append(nodes, node))
                   = Cost(members, nodes) + (1 + members[node.content])
<1> DEFINE costs(s) == [i \in DOMAIN s |-> 1 + members[s[i].content]]
<1>1. ASSUME NEW s \in Seq(Nodes(trees))
      PROVE  costs(s) \in Seq(Nat) /\ Len(costs(s)) = Len(s)
             /\ \A i \in 1..Len(s) : costs(s)[i] = 1 + members[s[i].content]
  <2>1. Len(s) \in Nat /\ DOMAIN s = 1..Len(s)
        /\ \A i \in 1..Len(s) : s[i].content \in trees
    BY ContentsAreTrees
  <2>2. costs(s) \in [1..Len(s) -> Nat]
    BY <2>1 DEF Counts
  <2> QED
    BY <2>1, <2>2, SequenceOf
<1>2. Cost(members, nodes) \in Nat
  <2>1. costs(nodes) \in Seq(Nat) /\ <<>> \in Seq(Nat)
    BY <1>1
  <2> QED
    BY <2>1, TotalOfBoth DEF Cost
<1>3. ASSUME NEW node \in Nodes(trees)
      PROVE  Cost(members, Append(nodes, node))
               = Cost(members, nodes) + (1 + members[node.content])
  <2> DEFINE k == 1 + members[node.content]
             more == Append(nodes, node)
  <2>1. k \in Nat
    BY DEF Counts, Nodes
  <2>2. more \in Seq(Nodes(trees)) /\ Len(more) = Len(nodes) + 1 /\ Len(nodes) \in Nat
        /\ more[Len(nodes) + 1] = node /\ \A i \in 1..Len(nodes) : more[i] = nodes[i]
    OBVIOUS
  <2>3. PICK a : a = costs(nodes)
    OBVIOUS
  <2>4. PICK b : b = costs(more)
    OBVIOUS
  <2>5. /\ a \in Seq(Nat) /\ Len(a) = Len(nodes)
        /\ \A i \in 1..Len(nodes) : a[i] = 1 + members[nodes[i].content]
    BY <1>1, <2>3
  <2>6. /\ b \in Seq(Nat) /\ Len(b) = Len(nodes) + 1
        /\ \A i \in 1..Len(nodes) + 1 : b[i] = 1 + members[more[i].content]
    BY <1>1, <2>2, <2>4
  <2> HIDE DEF more, costs
  <2>7. /\ \A i \in 1..Len(nodes) : b[i] = a[i]
        /\ b[Len(nodes) + 1] = k
    <3>1. \A i \in 1..Len(nodes) : i \in 1..Len(nodes) + 1
      BY <2>2
    <3>2. Len(nodes) + 1 \in 1..Len(nodes) + 1
      BY <2>2
    <3> QED
      BY <2>2, <2>5, <2>6, <3>1, <3>2
  <2> HIDE DEF k
  <2>8. b = a \o <<k>>
    BY <2>1, <2>2, <2>5, <2>6, <2>7, OneAppended
  <2>9. Total(b) = Total(a) + Total(<<k>>)
    <3>1. <<k>> \in Seq(Nat)
      BY <2>1
    <3> QED
      BY <2>5, <2>8, <3>1, TotalOfBoth
  <2>10. Total(b) = Total(a) + k
    BY <2>1, <2>9, TotalOfOne
  <2> QED
    BY <2>3, <2>4, <2>10 DEF Cost, costs, k, more
<1> QED
  BY <1>2, <1>3

\* No node costs nothing.
LEMMA CostOfNone ==
    ASSUME NEW members
    PROVE  Cost(members, <<>>) = 0
<1> DEFINE costs == [i \in DOMAIN <<>> |-> 1 + members[<<>>[i].content]]
<1>1. costs = <<>>
  BY EmptyFunction
<1> QED
  BY <1>1, TotalOfNone DEF Cost

\* What is within a segment.
LEMMA WithinForward ==
    ASSUME NEW trees, NEW members, NEW s \in Forwards(trees)
    PROVE  Inside(members, s) = Cost(members, s.nodes)
<1>1. s.nodes \in Seq(Nodes(trees)) /\ s.resolved = <<>>
  BY DEF Forwards, Nodes
<1> DEFINE contents == [i \in DOMAIN s.nodes |-> s.nodes[i].content]
           none == [i \in DOMAIN <<>> |-> <<>>[i].segments]
<1>2. none = <<>>
  BY EmptyFunction
<1>3. contents \in Seq(trees) /\ DOMAIN contents = DOMAIN s.nodes
  <2>1. Len(s.nodes) \in Nat /\ contents \in [1..Len(s.nodes) -> trees]
    BY <1>1, ContentsAreTrees
  <2> QED
    BY <2>1, SequenceOf
<1>4. Within(s) = contents \o none
  BY <1>1 DEF Within
<1>5. Within(s) = contents
  <2> HIDE DEF contents, none
  <2> QED
    BY <1>2, <1>3, <1>4
<1>6. [k \in DOMAIN Within(s) |-> 1 + members[Within(s)[k]]]
        = [i \in DOMAIN s.nodes |-> 1 + members[s.nodes[i].content]]
  BY <1>5
<1> QED
  BY <1>6 DEF Inside, Cost

\* A reply holds its quote and what is in that, if it has one.
LEMMA WithinReply ==
    ASSUME NEW trees, NEW members, Counts(members, trees), NEW s \in Replies(trees)
    PROVE  /\ s.resolved = <<>> => Inside(members, s) = 0
           /\ s.resolved # <<>> =>
                 /\ s.resolved[1].segments \in trees
                 /\ Inside(members, s) = 1 + members[s.resolved[1].segments]
<1>1. s.nodes = <<>> /\ s.resolved \in Seq(Quotes(trees)) /\ Len(s.resolved) <= 1
  BY DEF Replies, Quotes
<1> DEFINE contents == [i \in DOMAIN s.resolved |-> s.resolved[i].segments]
           none == [i \in DOMAIN <<>> |-> <<>>[i].content]
<1>2. none = <<>>
  BY EmptyFunction
<1>3. contents \in Seq(trees) /\ Len(contents) = Len(s.resolved)
      /\ \A i \in 1..Len(s.resolved) : contents[i] = s.resolved[i].segments
  <2>1. Len(s.resolved) \in Nat /\ contents \in [1..Len(s.resolved) -> trees]
        /\ DOMAIN s.resolved = 1..Len(s.resolved)
    BY <1>1, ContentsAreTrees
  <2> QED
    BY <2>1, SequenceOf
<1>4. Within(s) = none \o contents
  BY <1>1 DEF Within
<1> HIDE DEF contents, none
<1>5. Within(s) = contents
  BY <1>2, <1>3, <1>4
<1>6. CASE s.resolved = <<>>
  <2>1. contents = <<>>
    BY <1>3, <1>6
  <2> DEFINE costs == [k \in DOMAIN <<>> |-> 1 + members[<<>>[k]]]
  <2>2. costs = <<>>
    BY EmptyFunction
  <2> QED
    BY <1>5, <1>6, <2>1, <2>2, TotalOfNone DEF Inside
<1>7. CASE s.resolved # <<>>
  <2>1. Len(s.resolved) = 1 /\ 1 \in 1..Len(s.resolved)
    <3>1. Len(s.resolved) \in Nat \ {0}
      BY <1>1, <1>7, EmptySeq
    <3>2. Len(s.resolved) <= 1
      BY <1>1
    <3>3. \A n \in Nat \ {0} : n <= 1 => n = 1 /\ 1 \in 1..n
      OBVIOUS
    <3> QED
      BY <3>1, <3>2, <3>3
  <2>2. PICK t \in trees : t = s.resolved[1].segments /\ contents = <<t>>
    <3>1. contents[1] = s.resolved[1].segments /\ Len(contents) = 1
      BY <1>3, <2>1
    <3>2. contents[1] \in trees
      <4>1. 1 \in 1..Len(contents)
        BY <3>1
      <4> QED
        BY <1>3, <4>1, ElementOfSeq
    <3>3. contents = <<contents[1]>>
      BY <1>3, <3>1
    <3> QED
      BY <3>1, <3>2, <3>3
  <2> DEFINE k == 1 + members[t]
             costs == [i \in DOMAIN <<t>> |-> 1 + members[<<t>>[i]]]
  <2>3. k \in Nat
    BY DEF Counts
  <2>4. costs = <<k>>
    <3>1. costs = [i \in 1..1 |-> k]
      OBVIOUS
    <3> QED
      BY <3>1
  <2>5. Inside(members, s) = Total(costs)
    BY <1>5, <2>2 DEF Inside
  <2> HIDE DEF costs, k
  <2>6. Inside(members, s) = k
    BY <2>3, <2>4, <2>5, TotalOfOne
  <2> QED
    BY <1>7, <2>2, <2>6 DEF k
<1> QED
  BY <1>6, <1>7

\* A leaf holds no message.
LEMMA WithinLeaf ==
    ASSUME NEW members, NEW s \in Leaves
    PROVE  Inside(members, s) = 0
<1>1. s.nodes = <<>> /\ s.resolved = <<>>
  BY DEF Leaves
<1> DEFINE none == [i \in DOMAIN <<>> |-> <<>>[i].content]
           nor == [i \in DOMAIN <<>> |-> <<>>[i].segments]
           costs == [k \in DOMAIN <<>> |-> 1 + members[<<>>[k]]]
<1>2. none = <<>> /\ nor = <<>> /\ costs = <<>>
  BY EmptyFunction
<1>3. Within(s) = none \o nor
  BY <1>1 DEF Within
<1> HIDE DEF none, nor
<1>4. Within(s) = <<>>
  BY <1>2, <1>3
<1>5. Inside(members, s) = Total(costs)
  BY <1>4 DEF Inside
<1> QED
  BY <1>2, <1>5, TotalOfNone

\* What is inside a segment can be counted.
LEMMA InsideIsCounted ==
    ASSUME NEW trees, NEW members, Counts(members, trees), NEW s \in SegmentsOver(trees)
    PROVE  Inside(members, s) \in Nat
<1>1. CASE s \in Leaves
  BY <1>1, WithinLeaf
<1>2. CASE s \in Forwards(trees)
  <2>1. s.nodes \in Seq(Nodes(trees))
    BY <1>2 DEF Forwards, Nodes
  <2> QED
    BY <1>2, <2>1, CostIs, WithinForward
<1>3. CASE s \in Replies(trees)
  BY <1>3, WithinReply DEF Counts
<1> QED
  BY <1>1, <1>2, <1>3 DEF SegmentsOver

\* What is in a tree: nothing in leaves, the sum of what is in its parts.
LEMMA CountsAreNat ==
    ASSUME NEW trees, NEW members, Counts(members, trees), NEW tree \in Seq(SegmentsOver(trees))
    PROVE  /\ Count(members, tree) \in Nat
           /\ [i \in DOMAIN tree |-> Inside(members, tree[i])] \in Seq(Nat)
           /\ Len([i \in DOMAIN tree |-> Inside(members, tree[i])]) = Len(tree)
<1> DEFINE counts == [i \in DOMAIN tree |-> Inside(members, tree[i])]
<1>1. Len(tree) \in Nat /\ DOMAIN tree = 1..Len(tree)
      /\ \A i \in 1..Len(tree) : tree[i] \in SegmentsOver(trees)
  OBVIOUS
<1>2. counts \in [1..Len(tree) -> Nat]
  BY <1>1, InsideIsCounted
<1> HIDE DEF counts
<1>3. counts \in Seq(Nat) /\ Len(counts) = Len(tree) /\ <<>> \in Seq(Nat)
  BY <1>1, <1>2, SequenceOf
<1>4. Total(counts) \in Nat
  BY <1>3, TotalOfBoth
<1> QED
  BY <1>3, <1>4 DEF Count, counts

\* A tree of one segment counts what that holds.
LEMMA CountOfOne ==
    ASSUME NEW trees, NEW members, Counts(members, trees), NEW s \in SegmentsOver(trees)
    PROVE  Count(members, <<s>>) = Inside(members, s)
<1> DEFINE k == Inside(members, s)
           counts == [i \in DOMAIN <<s>> |-> Inside(members, <<s>>[i])]
<1>1. counts = [i \in 1..1 |-> k]
  OBVIOUS
<1>2. k \in Nat
  BY InsideIsCounted
<1> HIDE DEF k
<1>3. counts = <<k>>
  BY <1>1
<1> QED
  BY <1>2, <1>3, TotalOfOne DEF Count, k

\* A tree of two parts counts what both hold.
LEMMA CountOfBoth ==
    ASSUME NEW trees, NEW members, Counts(members, trees),
           NEW s \in Seq(SegmentsOver(trees)), NEW t \in Seq(SegmentsOver(trees))
    PROVE  Count(members, s \o t) = Count(members, s) + Count(members, t)
<1> DEFINE counts(tree) == [i \in DOMAIN tree |-> Inside(members, tree[i])]
<1>1. ASSUME NEW tree \in Seq(SegmentsOver(trees))
      PROVE  counts(tree) \in Seq(Nat) /\ Len(counts(tree)) = Len(tree)
             /\ \A i \in 1..Len(tree) : counts(tree)[i] = Inside(members, tree[i])
  <2>1. DOMAIN tree = 1..Len(tree)
    OBVIOUS
  <2>2. counts(tree) \in Seq(Nat) /\ Len(counts(tree)) = Len(tree)
    BY CountsAreNat
  <2>3. \A i \in 1..Len(tree) : counts(tree)[i] = Inside(members, tree[i])
    BY <2>1
  <2> HIDE DEF counts
  <2> QED
    BY <2>2, <2>3
<1>2. PICK all : all = s \o t
  OBVIOUS
<1>3. /\ all \in Seq(SegmentsOver(trees)) /\ Len(all) = Len(s) + Len(t)
      /\ Len(s) \in Nat /\ Len(t) \in Nat
      /\ \A i \in 1..Len(s) : i \in 1..Len(all) /\ all[i] = s[i]
      /\ \A i \in 1..Len(t) : Len(s) + i \in 1..Len(all) /\ all[Len(s) + i] = t[i]
  BY <1>2
<1>4. PICK a, b, c : a = counts(s) /\ b = counts(t) /\ c = counts(all)
  OBVIOUS
<1>5. /\ a \in Seq(Nat) /\ Len(a) = Len(s)
      /\ \A i \in 1..Len(s) : a[i] = Inside(members, s[i])
  BY <1>1, <1>4
<1>6. /\ b \in Seq(Nat) /\ Len(b) = Len(t)
      /\ \A i \in 1..Len(t) : b[i] = Inside(members, t[i])
  BY <1>1, <1>4
<1>7. /\ c \in Seq(Nat) /\ Len(c) = Len(all)
      /\ \A i \in 1..Len(all) : c[i] = Inside(members, all[i])
  BY <1>1, <1>3, <1>4
<1>8. c = a \o b
  <2>1. Len(c) = Len(a) + Len(b)
    BY <1>3, <1>5, <1>6, <1>7
  <2>2. \A i \in 1..Len(a) : c[i] = a[i]
    BY <1>3, <1>5, <1>7
  <2>3. \A i \in 1..Len(b) : c[Len(a) + i] = b[i]
    BY <1>3, <1>5, <1>6, <1>7
  <2> QED
    BY <1>5, <1>6, <1>7, <2>1, <2>2, <2>3, BothAppended
<1>9. Total(c) = Total(a) + Total(b)
  BY <1>5, <1>6, <1>8, TotalOfBoth
<1> QED
  BY <1>2, <1>4, <1>9 DEF Count

\* Leaves alone count nothing.
LEMMA CountOfLeaves ==
    ASSUME NEW members, NEW s \in Seq(Leaves)
    PROVE  Count(members, s) = 0
<1> DEFINE counts == [i \in DOMAIN s |-> Inside(members, s[i])]
<1>1. Len(s) \in Nat /\ DOMAIN s = 1..Len(s) /\ \A i \in 1..Len(s) : s[i] \in Leaves
  OBVIOUS
<1>2. counts \in [1..Len(s) -> Nat] /\ \A i \in 1..Len(s) : counts[i] = 0
  BY <1>1, WithinLeaf
<1> HIDE DEF counts
<1>3. counts \in Seq(Nat) /\ Len(counts) = Len(s)
  BY <1>1, <1>2, SequenceOf
<1>4. Total(counts) = 0
  BY <1>2, <1>3, TotalOfZeros
<1> QED
  BY <1>4 DEF Count, counts

(***************************************************************************)
(* One level of the parser.  What the level below makes of a body is one   *)
(* of trees, and the messages in it are paid for from the budget.          *)
(***************************************************************************)
PaidFor(result, trees, members, budget) ==
    /\ result.out \in trees
    /\ result.budget \in 0..budget
    /\ members[result.out] + result.budget <= budget

Below(within, trees, members) ==
    /\ Counts(members, trees)
    /\ \A s \in NumberedFrom0(Leaves) : s \in trees /\ members[s] = 0
    /\ \A body \in Bodies, depth \in Nat, k \in 0..MaxForwardNodes :
          PaidFor(within[<<body, depth, k>>], trees, members, k)

\* A message's own content is numbered from 0.
LEMMA OwnIsNumbered ==
    ASSUME NEW body \in Bodies
    PROVE  MessageLikeSegments(body, 0) \in NumberedFrom0(Leaves)
<1>1. MessageLikeSegments(body, 0) \in NumberedLeaves(0)
  BY OwnContent, BodiesWithin
<1> QED
  BY <1>1 DEF NumberedLeaves, NumberedFrom0

\* An element of a forward is paid for by the level below, or holds nothing.
LEMMA ElementIsPaidFor ==
    ASSUME NEW within, NEW trees, NEW members, Below(within, trees, members),
           NEW element \in Bodies, NEW depth \in Nat, NEW budget \in 0..MaxForwardNodes
    PROVE  PaidFor(ElementSegments(within, element, depth, budget), trees, members, budget)
<1>1. CASE IsMapping(element)
  <2>1. ElementSegments(within, element, depth, budget) = within[<<element, depth + 1, budget>>]
    BY <1>1 DEF ElementSegments
  <2>2. depth + 1 \in Nat
    OBVIOUS
  <2>3. PaidFor(within[<<element, depth + 1, budget>>], trees, members, budget)
    BY <2>2 DEF Below
  <2> QED
    BY <2>1, <2>3
<1>2. CASE ~IsMapping(element)
  <2> DEFINE leaf == Segment("unknown", <<Token("forward_node", "")>>)
  <2>1. Token("forward_node", "") \in Tokens
    BY DEF Token, Tokens, WordKinds
  <2>2. <<Token("forward_node", "")>> \in Seq(Tokens)
    <3>1. \A t \in Tokens : <<t>> \in Seq(Tokens)
      OBVIOUS
    <3> QED
      BY <2>1, <3>1
  <2>3. leaf \in Leaves /\ leaf.position = 0
    BY <2>2, SegmentIsLeaf DEF LeafKinds, Segment
  <2>4. <<leaf>> \in NumberedFrom0(Leaves)
    <3> HIDE DEF leaf
    <3>1. /\ <<leaf>> \in Seq(Leaves)
          /\ \A i \in DOMAIN <<leaf>> : i = 1 /\ <<leaf>>[i] = leaf
      BY <2>3
    <3>2. \A i \in DOMAIN <<leaf>> : <<leaf>>[i].position = i - 1
      BY <2>3, <3>1
    <3> QED
      BY <3>1, <3>2 DEF NumberedFrom0
  <2>5. /\ ElementSegments(within, element, depth, budget).out = <<leaf>>
        /\ ElementSegments(within, element, depth, budget).budget = budget
    BY <1>2 DEF ElementSegments
  <2>6. <<leaf>> \in trees /\ members[<<leaf>>] = 0
    BY <2>4 DEF Below
  <2> HIDE DEF leaf
  <2> QED
    BY <2>5, <2>6, ParserAssumption DEF PaidFor
<1> QED
  BY <1>1, <1>2

(***************************************************************************)
(* A forward.                                                              *)
(***************************************************************************)
ForwardStatuses ==
    {"embedded", "unresolved", "invalid_content", "depth_limit", "node_limit"}

Forwarded(trees, members, budget) ==
    {acc \in [nodes : Seq(Nodes(trees)), budget : 0..budget, status : ForwardStatuses] :
        Cost(members, acc.nodes) + acc.budget <= budget}

\* Taking one more element pays for its node and for what is in that.
LEMMA TakeElementStays ==
    ASSUME NEW within, NEW trees, NEW members, Below(within, trees, members),
           NEW budget \in 0..MaxForwardNodes, NEW acc \in Forwarded(trees, members, budget),
           NEW element \in Bodies, NEW depth \in Nat
    PROVE  TakeElement(within, acc, element, depth) \in Forwarded(trees, members, budget)
<1>1. /\ acc \in [nodes : Seq(Nodes(trees)), budget : 0..budget, status : ForwardStatuses]
      /\ Cost(members, acc.nodes) + acc.budget <= budget
  BY DEF Forwarded
<1>2. /\ acc.nodes \in Seq(Nodes(trees)) /\ acc.budget \in 0..budget
      /\ acc.status \in ForwardStatuses
  BY <1>1
<1>3. CASE acc.budget = 0 \/ acc.status = "node_limit"
  <2>1. TakeElement(within, acc, element, depth) = [acc EXCEPT !.status = "node_limit"]
    BY <1>3 DEF TakeElement
  <2>2. PICK new : new = [acc EXCEPT !.status = "node_limit"]
    OBVIOUS
  <2>3. /\ new \in [nodes : Seq(Nodes(trees)), budget : 0..budget, status : ForwardStatuses]
        /\ new.nodes = acc.nodes /\ new.budget = acc.budget
    BY <1>1, <2>2 DEF ForwardStatuses
  <2> QED
    BY <1>1, <2>1, <2>2, <2>3 DEF Forwarded
<1>4. CASE ~(acc.budget = 0 \/ acc.status = "node_limit")
  <2> DEFINE inner == ElementSegments(within, element, depth, acc.budget - 1)
             node == ForwardNode(element, inner.out, depth)
             status == IF IsMapping(element) THEN acc.status ELSE "invalid_content"
  <2>1. acc.budget - 1 \in 0..MaxForwardNodes /\ budget \in Nat
    BY <1>2, <1>4, ParserAssumption
  <2>2. PaidFor(inner, trees, members, acc.budget - 1)
    BY <2>1, ElementIsPaidFor
  <2>3. PICK new : new = TakeElement(within, acc, element, depth)
    OBVIOUS
  <2>4. new = [nodes |-> Append(acc.nodes, node), budget |-> inner.budget, status |-> status]
    BY <1>4, <2>3 DEF TakeElement
  <2> HIDE DEF inner
  <2>5. /\ inner.out \in trees /\ inner.budget \in 0..(acc.budget - 1)
        /\ members[inner.out] + inner.budget <= acc.budget - 1
    BY <2>2 DEF PaidFor
  <2>6. node \in Nodes(trees) /\ node.content = inner.out
    <3>1. element.author \in STRING
      BY BodiesWithin DEF BodiesOver
    <3> QED
      BY <2>5, <3>1 DEF ForwardNode, Nodes
  <2>7. status \in ForwardStatuses
    BY <1>2 DEF ForwardStatuses
  <2> HIDE DEF node, status
  <2>8. /\ new.nodes = Append(acc.nodes, node) /\ new.nodes \in Seq(Nodes(trees))
        /\ new.budget = inner.budget /\ new.budget \in 0..budget
    <3>1. Append(acc.nodes, node) \in Seq(Nodes(trees))
      BY <1>2, <2>6
    <3>2. inner.budget \in 0..budget
      BY <1>2, <2>1, <2>5
    <3> QED
      BY <2>4, <3>1, <3>2
  <2>9. new \in [nodes : Seq(Nodes(trees)), budget : 0..budget, status : ForwardStatuses]
    BY <2>4, <2>7, <2>8
  <2>10. Cost(members, new.nodes) + new.budget <= budget
    <3>1. Counts(members, trees)
      BY DEF Below
    <3>2. /\ Cost(members, new.nodes) = Cost(members, acc.nodes) + (1 + members[node.content])
          /\ Cost(members, acc.nodes) \in Nat
      BY <1>2, <2>6, <2>8, <3>1, CostIs
    <3>3. members[node.content] \in Nat /\ members[node.content] = members[inner.out]
      BY <2>5, <2>6, <3>1 DEF Counts
    <3> QED
      BY <1>1, <1>2, <2>1, <2>5, <2>8, <3>2, <3>3
  <2> QED
    BY <2>3, <2>9, <2>10 DEF Forwarded
<1> QED
  BY <1>3, <1>4

TakenElements(within, elements, depth, budget) ==
    FoldLeft(LAMBDA acc, element : TakeElement(within, acc, element, depth),
             NoNodes("embedded", budget), elements)

\* A forward without nodes spends nothing.
LEMMA NoNodesIsForwarded ==
    ASSUME NEW trees, NEW members, NEW status \in ForwardStatuses, NEW budget \in Nat
    PROVE  NoNodes(status, budget) \in Forwarded(trees, members, budget)
<1>1. PICK acc : acc = NoNodes(status, budget)
  OBVIOUS
<1>2. acc = [nodes |-> <<>>, budget |-> budget, status |-> status]
  BY <1>1 DEF NoNodes
<1>3. /\ acc \in [nodes : Seq(Nodes(trees)), budget : 0..budget, status : ForwardStatuses]
      /\ acc.nodes = <<>> /\ acc.budget = budget
  BY <1>2
<1>4. Cost(members, acc.nodes) = 0
  BY <1>3, CostOfNone
<1>5. Cost(members, acc.nodes) + acc.budget <= budget
  BY <1>3, <1>4
<1> QED
  BY <1>1, <1>3, <1>5 DEF Forwarded

\* A steps through taking s, one after another.
ElementsFold(A, within, trees, members, s, depth, budget) ==
    /\ A[0] = NoNodes("embedded", budget)
    /\ A[Len(s)] = TakenElements(within, s, depth, budget)
    /\ \A k \in 0..Len(s) : A[k] \in Forwarded(trees, members, budget)
    /\ \A k \in 1..Len(s) : A[k] = TakeElement(within, A[k - 1], s[k], depth)

\* The elements are taken one after another,
LEMMA ElementsAreFolded ==
    ASSUME NEW within, NEW trees, NEW members, Below(within, trees, members),
           NEW s \in Seq(Bodies), NEW depth \in Nat, NEW budget \in 0..MaxForwardNodes
    PROVE  \E A : ElementsFold(A, within, trees, members, s, depth, budget)
<1> DEFINE V == Forwarded(trees, members, budget)
           n == Len(s)
           base == NoNodes("embedded", budget)
           folds(g) == g = [t \in SUBSET (1..n) |->
                              IF t = {} THEN base
                              ELSE TakeElement(within, g[t \ {Max(t)}], s[Max(t)], depth)]
           iter == CHOOSE g : folds(g)
           step == [p \in (1..n) \X V |-> TakeElement(within, p[2], s[p[1]], depth)]
           A == [k \in 0..n |-> iter[1..k]]
<1>1. n \in Nat /\ DOMAIN s = 1..n /\ \A i \in 1..n : s[i] \in Bodies
  OBVIOUS
<1>2. TakenElements(within, s, depth, budget) = iter[1..n]
  <2>1. TakenElements(within, s, depth, budget) =
          (CHOOSE g : g = [t \in SUBSET DOMAIN s |->
                             IF t = {} THEN base
                             ELSE TakeElement(within, g[t \ {Max(t)}], s[Max(t)], depth)])
             [DOMAIN s]
    BY Zenon DEF TakenElements, FoldLeft, MapThenFoldSet
  <2> QED
    BY <1>1, <2>1
<1>3. base \in V
  BY NoNodesIsForwarded, ParserAssumption DEF ForwardStatuses
<1> HIDE DEF n, base
<1>4. \A acc \in V, i \in 1..n : TakeElement(within, acc, s[i], depth) \in V
  BY <1>1, TakeElementStays
<1> HIDE DEF V
<1>5. step \in [(1..n) \X V -> V]
  BY <1>4
<1>6. PICK g \in [SUBSET (1..n) -> V] : FoldsFrom(g, n, base, step)
  <2>1. n \in 0..n
    BY <1>1
  <2> HIDE DEF step
  <2> QED
    BY <1>1, <1>3, <1>5, <2>1, FoldExists
<1>7. ASSUME NEW t \in SUBSET (1..n), t # {}
      PROVE  step[<<Max(t), g[t \ {Max(t)}]>>]
               = TakeElement(within, g[t \ {Max(t)}], s[Max(t)], depth)
  <2>1. t \subseteq 0..n
    BY <1>1
  <2>2. Max(t) \in t
    BY <1>1, <1>7, <2>1, GreatestElement
  <2>3. Max(t) \in 1..n /\ g[t \ {Max(t)}] \in V
    BY <2>2
  <2> QED
    BY <2>3
<1> HIDE DEF step
<1>8. folds(iter)
  <2>1. g = [t \in SUBSET (1..n) |->
               IF t = {} THEN base ELSE step[<<Max(t), g[t \ {Max(t)}]>>]]
    BY <1>6 DEF FoldsFrom
  <2>2. folds(g)
    BY <1>7, <2>1
  <2> HIDE DEF folds
  <2> QED
    BY <2>2
<1> HIDE DEF iter
<1>9. iter[{}] = base
  BY <1>8
<1>10. ASSUME NEW k \in 1..n PROVE iter[1..k] = TakeElement(within, iter[1..(k - 1)], s[k], depth)
  <2>1. k \in Nat /\ k # 0 /\ 1..k \in SUBSET (1..n)
    BY <1>1
  <2>2. iter[1..k] = TakeElement(within, iter[(1..k) \ {Max(1..k)}], s[Max(1..k)], depth)
    BY <1>8, <2>1, IntervalTaken, Zenon
  <2>3. Max(1..k) = k /\ (1..k) \ {Max(1..k)} = 1..(k - 1)
    BY <2>1, IntervalTaken
  <2> QED
    BY <2>2, <2>3
<1>11. \A k \in 0..n : iter[1..k] \in V
  <2>1. \A k \in 1..n : iter[1..(k - 1)] \in V => iter[1..k] \in V
    BY <1>4, <1>10
  <2>2. iter[{}] \in V
    BY <1>3, <1>9
  <2> QED
    BY <1>1, <2>1, <2>2, FoldStays
<1>12. /\ A[0] = base /\ A[n] = iter[1..n]
       /\ \A k \in 0..n : A[k] \in V
       /\ \A k \in 1..n : A[k] = TakeElement(within, A[k - 1], s[k], depth)
  <2>1. 0 \in 0..n /\ n \in 0..n /\ 1..0 = {} /\ \A k \in 1..n : k \in 0..n /\ k - 1 \in 0..n
    BY <1>1
  <2>2. A[0] = base /\ A[n] = iter[1..n]
    BY <1>9, <2>1
  <2>3. \A k \in 1..n : A[k] = iter[1..k] /\ A[k - 1] = iter[1..(k - 1)]
    BY <2>1
  <2> QED
    BY <1>10, <1>11, <2>1, <2>2, <2>3
<1> HIDE DEF A, folds
<1> QED
  BY <1>2, <1>12 DEF V, base, n, ElementsFold

\* so all together are paid for, in whatever order they come.
LEMMA TakenElementsArePaidFor ==
    ASSUME NEW within, NEW trees, NEW members, Below(within, trees, members),
           NEW s \in Seq(Bodies), NEW depth \in Nat, NEW budget \in 0..MaxForwardNodes
    PROVE  TakenElements(within, s, depth, budget) \in Forwarded(trees, members, budget)
<1>1. Len(s) \in Nat /\ Len(s) \in 0..Len(s)
  OBVIOUS
<1>2. PICK A : ElementsFold(A, within, trees, members, s, depth, budget)
  BY ElementsAreFolded
<1> QED
  BY <1>1, <1>2 DEF ElementsFold

\* A forward is paid for, with or without a level below it.
LEMMA ForwardIsPaidFor ==
    ASSUME NEW left \in Nat, NEW within, NEW trees, NEW members,
           left # 0 => Below(within, trees, members),
           NEW body \in Bodies, NEW depth \in Nat, NEW budget \in 0..MaxForwardNodes
    PROVE  ForwardNodes(within, left, body, depth, budget)
              \in Forwarded(trees, members, budget)
<1>1. budget \in Nat /\ body.elements \in Seq(Bodies)
  BY ParserAssumption, BodiesWithin
<1>2. \A status \in ForwardStatuses :
         NoNodes(status, budget) \in Forwarded(trees, members, budget)
  BY <1>1, NoNodesIsForwarded
<1>3. left # 0 => TakenElements(within, body.elements, depth, budget)
                    \in Forwarded(trees, members, budget)
  BY <1>1, TakenElementsArePaidFor
<1>4. \/ \E status \in ForwardStatuses :
            ForwardNodes(within, left, body, depth, budget) = NoNodes(status, budget)
      \/ /\ left # 0
         /\ ForwardNodes(within, left, body, depth, budget)
              = TakenElements(within, body.elements, depth, budget)
  BY DEF ForwardNodes, TakenElements, ForwardStatuses
<1> QED
  BY <1>2, <1>3, <1>4

(***************************************************************************)
(* A reply.                                                                *)
(***************************************************************************)
QuoteStatuses == {"unresolved", "depth_limit", "node_limit"}

Quoted(trees, members, budget) ==
    {acc \in [replies : Seq(Replies(trees)), budget : 0..budget, stopped : BOOLEAN] :
        /\ \A i \in DOMAIN acc.replies : acc.replies[i].position = i - 1
        /\ Count(members, acc.replies) + acc.budget <= budget}

\* A reply with a quote is one, at its position,
LEMMA ReplyWith ==
    ASSUME NEW trees, NEW status \in QuoteStatuses, NEW position \in Nat,
           NEW resolved \in Seq(Quotes(trees)), Len(resolved) <= 1
    PROVE  /\ [Reply(status, position) EXCEPT !.resolved = resolved] \in Replies(trees)
           /\ [Reply(status, position) EXCEPT !.resolved = resolved].position = position
           /\ [Reply(status, position) EXCEPT !.resolved = resolved].resolved = resolved
<1>1. PICK s : s = [Reply(status, position) EXCEPT !.resolved = resolved]
  OBVIOUS
<1>2. s = [kind |-> "reply", position |-> position, value |-> <<>>, status |-> status,
           content |-> <<>>, nodes |-> <<>>, resolved |-> resolved]
  BY <1>1 DEF Reply, Segment
<1>3. resolved \in {q \in Seq([author : STRING, segments : trees]) : Len(q) <= 1}
  BY DEF Quotes
<1>4. s \in Replies(trees)
  BY <1>2, <1>3 DEF Replies, QuoteStatuses
<1> QED
  BY <1>1, <1>2, <1>4

\* and so is one without.
LEMMA ReplyWithout ==
    ASSUME NEW trees, NEW status \in QuoteStatuses, NEW position \in Nat
    PROVE  /\ Reply(status, position) \in Replies(trees)
           /\ Reply(status, position).position = position
           /\ Reply(status, position).resolved = <<>>
<1>1. PICK s : s = Reply(status, position)
  OBVIOUS
<1>2. s = [kind |-> "reply", position |-> position, value |-> <<>>, status |-> status,
           content |-> <<>>, nodes |-> <<>>, resolved |-> <<>>]
  BY <1>1 DEF Reply, Segment
<1>3. <<>> \in {q \in Seq([author : STRING, segments : trees]) : Len(q) <= 1}
  OBVIOUS
<1>4. s \in Replies(trees)
  BY <1>2, <1>3 DEF Replies, QuoteStatuses
<1> QED
  BY <1>1, <1>2, <1>4

\* One reply more.
LEMMA AddReply ==
    ASSUME NEW trees, NEW members, Counts(members, trees), NEW budget \in Nat,
           NEW acc \in Quoted(trees, members, budget),
           NEW s \in Replies(trees), s.position = Len(acc.replies),
           NEW rest \in Nat, rest <= acc.budget, Inside(members, s) + rest <= acc.budget,
           NEW stopped \in BOOLEAN
    PROVE  [replies |-> Append(acc.replies, s), budget |-> rest, stopped |-> stopped]
              \in Quoted(trees, members, budget)
<1>1. /\ acc.replies \in Seq(Replies(trees)) /\ acc.budget \in 0..budget
      /\ \A i \in DOMAIN acc.replies : acc.replies[i].position = i - 1
      /\ Count(members, acc.replies) + acc.budget <= budget
  BY DEF Quoted
<1>2. PICK old : old = acc.replies
  OBVIOUS
<1>3. PICK new : new = Append(old, s)
  OBVIOUS
<1>4. /\ old \in Seq(Replies(trees)) /\ new \in Seq(Replies(trees))
      /\ Len(new) = Len(old) + 1 /\ Len(old) \in Nat
      /\ DOMAIN new = 1..Len(old) + 1 /\ DOMAIN old = 1..Len(old)
      /\ new[Len(old) + 1] = s /\ \A i \in 1..Len(old) : new[i] = old[i]
  BY <1>1, <1>2, <1>3
<1>5. new = old \o <<s>>
  BY <1>4, OneAppended
<1>6. /\ old \in Seq(SegmentsOver(trees)) /\ <<s>> \in Seq(SegmentsOver(trees))
      /\ s \in SegmentsOver(trees)
  <2>1. Replies(trees) \subseteq SegmentsOver(trees)
    BY DEF SegmentsOver
  <2>2. old \in Seq(SegmentsOver(trees))
    BY <1>4, <2>1, SeqMonotonic
  <2> QED
    BY <2>1, <2>2
<1>7. Count(members, new) = Count(members, old) + Inside(members, s)
  BY <1>5, <1>6, CountOfBoth, CountOfOne
<1>8. Count(members, old) \in Nat /\ Inside(members, s) \in Nat
  BY <1>6, CountsAreNat, InsideIsCounted
<1>9. Count(members, new) + rest <= budget /\ rest \in 0..budget
  BY <1>1, <1>2, <1>7, <1>8
<1>10. \A i \in DOMAIN new : new[i].position = i - 1
  <2>1. s.position = (Len(old) + 1) - 1
    BY <1>2, <1>4
  <2>2. \A i \in DOMAIN new : i \in 1..Len(old) \/ i = Len(old) + 1
    BY <1>4
  <2> QED
    BY <1>1, <1>2, <1>4, <2>1, <2>2
<1>11. PICK all : all = [replies |-> new, budget |-> rest, stopped |-> stopped]
  OBVIOUS
<1>12. /\ all \in [replies : Seq(Replies(trees)), budget : 0..budget, stopped : BOOLEAN]
       /\ all.replies = new /\ all.budget = rest
  BY <1>4, <1>9, <1>11
<1>13. all \in Quoted(trees, members, budget)
  BY <1>9, <1>10, <1>12 DEF Quoted
<1> QED
  BY <1>2, <1>3, <1>11, <1>13

\* No reply spends nothing.
LEMMA NothingQuoted ==
    ASSUME NEW trees, NEW members, NEW budget \in Nat
    PROVE  [replies |-> <<>>, budget |-> budget, stopped |-> FALSE]
              \in Quoted(trees, members, budget)
<1>1. PICK acc : acc = [replies |-> <<>>, budget |-> budget, stopped |-> FALSE]
  OBVIOUS
<1>2. /\ acc \in [replies : Seq(Replies(trees)), budget : 0..budget, stopped : BOOLEAN]
      /\ acc.replies = <<>> /\ acc.budget = budget
  BY <1>1
<1>3. Count(members, <<>>) = 0
  <2>1. <<>> \in Seq(Leaves)
    OBVIOUS
  <2> QED
    BY <2>1, CountOfLeaves
<1>4. \A i \in DOMAIN acc.replies : acc.replies[i].position = i - 1
  BY <1>2
<1> QED
  BY <1>1, <1>2, <1>3, <1>4 DEF Quoted

\* What is quoted is paid for by the level below.
LEMMA ResolvedIsPaidFor ==
    ASSUME NEW within, NEW trees, NEW members, Below(within, trees, members),
           NEW element \in Bodies, NEW depth \in Nat, NEW budget \in 0..MaxForwardNodes,
           NEW r, r = ResolvedReply(within, element, depth, budget)
    PROVE  /\ r.out \in Seq(Quotes(trees)) /\ Len(r.out) <= 1
           /\ r.budget \in 0..budget
           /\ r.out # <<>> => members[r.out[1].segments] + r.budget <= budget
<1>0. budget \in Nat
  BY ParserAssumption
<1>1. CASE ~IsMapping(element)
  <2>1. r.out = <<>> /\ r.budget = budget
    BY <1>1 DEF ResolvedReply
  <2> QED
    BY <1>0, <2>1
<1>2. CASE IsMapping(element)
  <2> DEFINE own == element.type = "reply" /\ element.listed /\ element.elements = <<>>
             inner == IF own THEN [out |-> MessageLikeSegments(element, 0), budget |-> budget]
                      ELSE within[<<element, depth, budget>>]
             quote == [author |-> element.author, segments |-> inner.out]
  <2>1. /\ r.out = IF inner.out = <<>> THEN <<>> ELSE <<quote>>
        /\ r.budget = inner.budget
    BY <1>2 DEF ResolvedReply
  <2>2. PaidFor(inner, trees, members, budget)
    <3>1. CASE own
      <4>1. inner.out = MessageLikeSegments(element, 0) /\ inner.budget = budget
        BY <3>1
      <4>2. inner.out \in trees /\ members[inner.out] = 0
        BY <4>1, OwnIsNumbered DEF Below
      <4> HIDE DEF inner
      <4> QED
        BY <1>0, <4>1, <4>2 DEF PaidFor
    <3>2. CASE ~own
      <4>1. inner = within[<<element, depth, budget>>]
        BY <3>2
      <4> QED
        BY <4>1 DEF Below
    <3> QED
      BY <3>1, <3>2
  <2> HIDE DEF inner
  <2>3. /\ inner.out \in trees /\ inner.budget \in 0..budget
        /\ members[inner.out] + inner.budget <= budget
    BY <2>2 DEF PaidFor
  <2>4. quote \in Quotes(trees) /\ quote.segments = inner.out
    <3>1. element.author \in STRING
      BY BodiesWithin DEF BodiesOver
    <3> QED
      BY <2>3, <3>1 DEF Quotes
  <2> HIDE DEF quote
  <2>5. CASE inner.out = <<>>
    <3>1. r.out = <<>>
      BY <2>1, <2>5
    <3>2. r.out \in Seq(Quotes(trees)) /\ Len(r.out) <= 1
      BY <3>1
    <3> QED
      BY <2>1, <2>3, <3>1, <3>2
  <2>6. CASE inner.out # <<>>
    <3>1. r.out = <<quote>>
      BY <2>1, <2>6
    <3>2. r.out \in Seq(Quotes(trees)) /\ Len(r.out) = 1 /\ r.out[1] = quote
      BY <2>4, <3>1
    <3> QED
      BY <2>1, <2>3, <2>4, <3>2
  <2> QED
    BY <2>5, <2>6
<1> QED
  BY <1>1, <1>2

\* Taking one more quote pays for it and for what is in it.
LEMMA TakeQuoteStays ==
    ASSUME NEW within, NEW trees, NEW members, Below(within, trees, members),
           NEW budget \in 0..MaxForwardNodes, NEW acc \in Quoted(trees, members, budget),
           NEW element \in Bodies, NEW depth \in Nat
    PROVE  TakeQuote(within, acc, element, depth) \in Quoted(trees, members, budget)
<1>1. /\ acc \in [replies : Seq(Replies(trees)), budget : 0..budget, stopped : BOOLEAN]
      /\ Counts(members, trees) /\ budget \in Nat
  BY ParserAssumption DEF Quoted, Below
<1>2. /\ acc.budget \in 0..budget /\ acc.budget \in Nat /\ acc.stopped \in BOOLEAN
      /\ acc.replies \in Seq(Replies(trees)) /\ Len(acc.replies) \in Nat
  BY <1>1
<1>3. CASE acc.stopped
  BY <1>3 DEF TakeQuote
<1>4. CASE ~acc.stopped /\ acc.budget = 0
  <2> DEFINE s == Reply("node_limit", Len(acc.replies))
  <2>1. s \in Replies(trees) /\ s.position = Len(acc.replies) /\ s.resolved = <<>>
    BY <1>2, ReplyWithout DEF QuoteStatuses
  <2>2. TakeQuote(within, acc, element, depth)
          = [acc EXCEPT !.replies = Append(acc.replies, s), !.stopped = TRUE]
    BY <1>4 DEF TakeQuote
  <2> HIDE DEF s
  <2>3. TakeQuote(within, acc, element, depth)
          = [replies |-> Append(acc.replies, s), budget |-> 0, stopped |-> TRUE]
    BY <1>1, <1>4, <2>2
  <2>4. Inside(members, s) = 0
    BY <1>1, <2>1, WithinReply
  <2>5. 0 <= acc.budget /\ Inside(members, s) + 0 <= acc.budget /\ 0 \in Nat
    BY <1>4, <2>4
  <2>6. [replies |-> Append(acc.replies, s), budget |-> 0, stopped |-> TRUE]
           \in Quoted(trees, members, budget)
    BY <1>1, <2>1, <2>5, AddReply
  <2> QED
    BY <2>3, <2>6
<1>5. CASE ~acc.stopped /\ acc.budget # 0
  <2> DEFINE inner == ResolvedReply(within, element, depth, acc.budget - 1)
             s == [Reply("unresolved", Len(acc.replies)) EXCEPT !.resolved = inner.out]
  <2>1. acc.budget - 1 \in 0..MaxForwardNodes /\ acc.budget - 1 \in Nat
    BY <1>2, <1>5, ParserAssumption
  <2>2. TakeQuote(within, acc, element, depth)
          = [acc EXCEPT !.replies = Append(acc.replies, s), !.budget = inner.budget]
    BY <1>5 DEF TakeQuote
  <2>3. PICK r : r = inner
    OBVIOUS
  <2>4. /\ r.out \in Seq(Quotes(trees)) /\ Len(r.out) <= 1
        /\ r.budget \in 0..(acc.budget - 1)
        /\ r.out # <<>> => members[r.out[1].segments] + r.budget <= acc.budget - 1
    BY <2>1, <2>3, ResolvedIsPaidFor
  <2>5. s \in Replies(trees) /\ s.position = Len(acc.replies) /\ s.resolved = r.out
    BY <1>2, <2>3, <2>4, ReplyWith DEF QuoteStatuses
  <2> HIDE DEF s, inner
  <2>6. TakeQuote(within, acc, element, depth)
          = [replies |-> Append(acc.replies, s), budget |-> r.budget, stopped |-> acc.stopped]
    BY <1>1, <2>2, <2>3
  <2>7. r.budget \in Nat /\ r.budget <= acc.budget /\ r.budget <= acc.budget - 1
    BY <1>2, <2>1, <2>4
  <2>8. Inside(members, s) + r.budget <= acc.budget
    <3>1. CASE r.out = <<>>
      <4>1. Inside(members, s) = 0
        BY <1>1, <2>5, <3>1, WithinReply
      <4> QED
        BY <2>7, <4>1
    <3>2. CASE r.out # <<>>
      <4>1. /\ Inside(members, s) = 1 + members[r.out[1].segments]
            /\ r.out[1].segments \in trees
        BY <1>1, <2>5, <3>2, WithinReply
      <4>2. members[r.out[1].segments] \in Nat
        BY <1>1, <4>1 DEF Counts
      <4> QED
        BY <1>2, <2>4, <2>7, <3>2, <4>1, <4>2
    <3> QED
      BY <3>1, <3>2
  <2>9. [replies |-> Append(acc.replies, s), budget |-> r.budget, stopped |-> acc.stopped]
           \in Quoted(trees, members, budget)
    BY <1>1, <1>2, <2>5, <2>7, <2>8, AddReply
  <2> QED
    BY <2>6, <2>9
<1> QED
  BY <1>2, <1>3, <1>4, <1>5

TakenQuotes(within, elements, depth, budget) ==
    FoldLeft(LAMBDA acc, element : TakeQuote(within, acc, element, depth),
             [replies |-> <<>>, budget |-> budget, stopped |-> FALSE], elements)

\* A steps through taking s, one after another.
QuotesFold(A, within, trees, members, s, depth, budget) ==
    /\ A[0] = [replies |-> <<>>, budget |-> budget, stopped |-> FALSE]
    /\ A[Len(s)] = TakenQuotes(within, s, depth, budget)
    /\ \A k \in 0..Len(s) : A[k] \in Quoted(trees, members, budget)
    /\ \A k \in 1..Len(s) : A[k] = TakeQuote(within, A[k - 1], s[k], depth)

\* The quotes are taken one after another,
LEMMA QuotesAreFolded ==
    ASSUME NEW within, NEW trees, NEW members, Below(within, trees, members),
           NEW s \in Seq(Bodies), NEW depth \in Nat, NEW budget \in 0..MaxForwardNodes
    PROVE  \E A : QuotesFold(A, within, trees, members, s, depth, budget)
<1> DEFINE V == Quoted(trees, members, budget)
           n == Len(s)
           base == [replies |-> <<>>, budget |-> budget, stopped |-> FALSE]
           folds(g) == g = [t \in SUBSET (1..n) |->
                              IF t = {} THEN base
                              ELSE TakeQuote(within, g[t \ {Max(t)}], s[Max(t)], depth)]
           iter == CHOOSE g : folds(g)
           step == [p \in (1..n) \X V |-> TakeQuote(within, p[2], s[p[1]], depth)]
           A == [k \in 0..n |-> iter[1..k]]
<1>1. n \in Nat /\ DOMAIN s = 1..n /\ \A i \in 1..n : s[i] \in Bodies
  OBVIOUS
<1>2. TakenQuotes(within, s, depth, budget) = iter[1..n]
  <2>1. TakenQuotes(within, s, depth, budget) =
          (CHOOSE g : g = [t \in SUBSET DOMAIN s |->
                             IF t = {} THEN base
                             ELSE TakeQuote(within, g[t \ {Max(t)}], s[Max(t)], depth)])
             [DOMAIN s]
    BY Zenon DEF TakenQuotes, FoldLeft, MapThenFoldSet
  <2> QED
    BY <1>1, <2>1
<1>3. base \in V
  <2>1. budget \in Nat
    BY ParserAssumption
  <2> QED
    BY <2>1, NothingQuoted
<1> HIDE DEF n, base
<1>4. \A acc \in V, i \in 1..n : TakeQuote(within, acc, s[i], depth) \in V
  BY <1>1, TakeQuoteStays
<1> HIDE DEF V
<1>5. step \in [(1..n) \X V -> V]
  BY <1>4
<1>6. PICK g \in [SUBSET (1..n) -> V] : FoldsFrom(g, n, base, step)
  <2>1. n \in 0..n
    BY <1>1
  <2> HIDE DEF step
  <2> QED
    BY <1>1, <1>3, <1>5, <2>1, FoldExists
<1>7. ASSUME NEW t \in SUBSET (1..n), t # {}
      PROVE  step[<<Max(t), g[t \ {Max(t)}]>>]
               = TakeQuote(within, g[t \ {Max(t)}], s[Max(t)], depth)
  <2>1. t \subseteq 0..n
    BY <1>1
  <2>2. Max(t) \in t
    BY <1>1, <1>7, <2>1, GreatestElement
  <2>3. Max(t) \in 1..n /\ g[t \ {Max(t)}] \in V
    BY <2>2
  <2> QED
    BY <2>3
<1> HIDE DEF step
<1>8. folds(iter)
  <2>1. g = [t \in SUBSET (1..n) |->
               IF t = {} THEN base ELSE step[<<Max(t), g[t \ {Max(t)}]>>]]
    BY <1>6 DEF FoldsFrom
  <2>2. folds(g)
    BY <1>7, <2>1
  <2> HIDE DEF folds
  <2> QED
    BY <2>2
<1> HIDE DEF iter
<1>9. iter[{}] = base
  BY <1>8
<1>10. ASSUME NEW k \in 1..n PROVE iter[1..k] = TakeQuote(within, iter[1..(k - 1)], s[k], depth)
  <2>1. k \in Nat /\ k # 0 /\ 1..k \in SUBSET (1..n)
    BY <1>1
  <2>2. iter[1..k] = TakeQuote(within, iter[(1..k) \ {Max(1..k)}], s[Max(1..k)], depth)
    BY <1>8, <2>1, IntervalTaken, Zenon
  <2>3. Max(1..k) = k /\ (1..k) \ {Max(1..k)} = 1..(k - 1)
    BY <2>1, IntervalTaken
  <2> QED
    BY <2>2, <2>3
<1>11. \A k \in 0..n : iter[1..k] \in V
  <2>1. \A k \in 1..n : iter[1..(k - 1)] \in V => iter[1..k] \in V
    BY <1>4, <1>10
  <2>2. iter[{}] \in V
    BY <1>3, <1>9
  <2> QED
    BY <1>1, <2>1, <2>2, FoldStays
<1>12. /\ A[0] = base /\ A[n] = iter[1..n]
       /\ \A k \in 0..n : A[k] \in V
       /\ \A k \in 1..n : A[k] = TakeQuote(within, A[k - 1], s[k], depth)
  <2>1. 0 \in 0..n /\ n \in 0..n /\ 1..0 = {} /\ \A k \in 1..n : k \in 0..n /\ k - 1 \in 0..n
    BY <1>1
  <2>2. A[0] = base /\ A[n] = iter[1..n]
    BY <1>9, <2>1
  <2>3. \A k \in 1..n : A[k] = iter[1..k] /\ A[k - 1] = iter[1..(k - 1)]
    BY <2>1
  <2> QED
    BY <1>10, <1>11, <2>1, <2>2, <2>3
<1> HIDE DEF A, folds
<1> QED
  BY <1>2, <1>12 DEF V, base, n, QuotesFold

\* so all together are paid for.
LEMMA TakenQuotesArePaidFor ==
    ASSUME NEW within, NEW trees, NEW members, Below(within, trees, members),
           NEW s \in Seq(Bodies), NEW depth \in Nat, NEW budget \in 0..MaxForwardNodes
    PROVE  TakenQuotes(within, s, depth, budget) \in Quoted(trees, members, budget)
<1>1. Len(s) \in Nat /\ Len(s) \in 0..Len(s)
  OBVIOUS
<1>2. PICK A : QuotesFold(A, within, trees, members, s, depth, budget)
  BY QuotesAreFolded
<1> QED
  BY <1>1, <1>2 DEF QuotesFold

\* The replies of a body are paid for, with or without a level below it.
LEMMA ReplyIsPaidFor ==
    ASSUME NEW left \in Nat, NEW within, NEW trees, NEW members,
           Counts(members, trees), left # 0 => Below(within, trees, members),
           NEW body \in Bodies, NEW depth \in Nat, NEW budget \in 0..MaxForwardNodes
    PROVE  ReplySegments(within, left, body, depth, budget) \in Quoted(trees, members, budget)
<1>1. budget \in Nat /\ body.elements \in Seq(Bodies)
  BY ParserAssumption, BodiesWithin
<1>2. ASSUME NEW status \in QuoteStatuses
      PROVE  OneReply(status, budget) \in Quoted(trees, members, budget)
  <2>1. PICK none : none = [replies |-> <<>>, budget |-> budget, stopped |-> FALSE]
    OBVIOUS
  <2>2. none \in Quoted(trees, members, budget)
    BY <1>1, <2>1, NothingQuoted
  <2>3. none.replies = <<>> /\ none.budget = budget
    BY <2>1
  <2>4. /\ Reply(status, 0) \in Replies(trees)
        /\ Reply(status, 0).position = Len(none.replies)
        /\ Inside(members, Reply(status, 0)) = 0
    BY <2>3, ReplyWithout, WithinReply
  <2>5. budget <= none.budget /\ Inside(members, Reply(status, 0)) + budget <= none.budget
    BY <1>1, <2>3, <2>4
  <2>6. [replies |-> Append(none.replies, Reply(status, 0)), budget |-> budget,
         stopped |-> FALSE] \in Quoted(trees, members, budget)
    BY <1>1, <2>2, <2>4, <2>5, AddReply
  <2>7. Append(none.replies, Reply(status, 0)) = <<Reply(status, 0)>>
    BY <2>3
  <2> QED
    BY <2>6, <2>7 DEF OneReply
<1>3. left # 0 => TakenQuotes(within, body.elements, depth, budget)
                    \in Quoted(trees, members, budget)
  BY <1>1, TakenQuotesArePaidFor
<1>4. \/ \E status \in QuoteStatuses :
            ReplySegments(within, left, body, depth, budget) = OneReply(status, budget)
      \/ /\ left # 0
         /\ ReplySegments(within, left, body, depth, budget)
              = TakenQuotes(within, body.elements, depth, budget)
  BY DEF ReplySegments, TakenQuotes, QuoteStatuses
<1> QED
  BY <1>2, <1>3, <1>4

(***************************************************************************)
(* What the parser makes of a body, level by level.                        *)
(***************************************************************************)
\* One segment at position 0 is numbered.
LEMMA OneSegment ==
    ASSUME NEW X, NEW s \in X, s.position = 0
    PROVE  <<s>> \in NumberedFrom0(X)
<1>1. <<s>> \in Seq(X) /\ \A i \in DOMAIN <<s>> : i = 1 /\ <<s>>[i] = s
  OBVIOUS
<1>2. \A i \in DOMAIN <<s>> : <<s>>[i].position = i - 1
  BY <1>1
<1> QED
  BY <1>1, <1>2 DEF NumberedFrom0

\* Numbered leaves are a tree, whatever is below.
LEMMA LeavesAreTrees ==
    ASSUME NEW trees
    PROVE  NumberedFrom0(Leaves) \subseteq TreesOver(trees)
<1> SUFFICES ASSUME NEW s \in NumberedFrom0(Leaves) PROVE s \in TreesOver(trees)
  OBVIOUS
<1>1. s \in Seq(Leaves) /\ \A i \in DOMAIN s : s[i].position = i - 1
  BY DEF NumberedFrom0
<1>2. s \in Seq(Leaves \cup Forwards(trees) \cup Replies(trees))
  BY <1>1, SeqMonotonic
<1> QED
  BY <1>1, <1>2 DEF TreesOver, NumberedFrom0

\* Whatever kind of body it is, its tree is paid for.
LEMMA ParseIsPaidFor ==
    ASSUME NEW left \in Nat, NEW within, NEW trees, NEW members,
           Counts(members, trees), left # 0 => Below(within, trees, members),
           NEW body \in Bodies, NEW depth \in Nat, NEW budget \in 0..MaxForwardNodes,
           NEW r, r = ParseSegments(within, left, body, depth, budget)
    PROVE  /\ r.out \in TreesOver(trees)
           /\ r.budget \in 0..budget
           /\ Count(members, r.out) + r.budget <= budget
<1>0. budget \in Nat
  BY ParserAssumption
<1>1. CASE body.type = "forward"
  <2>1. PICK taken : taken = ForwardNodes(within, left, body, depth, budget)
    OBVIOUS
  <2>2. taken \in Forwarded(trees, members, budget)
    BY <2>1, ForwardIsPaidFor
  <2>3. /\ taken.nodes \in Seq(Nodes(trees)) /\ taken.budget \in 0..budget
        /\ taken.status \in ForwardStatuses
        /\ Cost(members, taken.nodes) + taken.budget <= budget
    BY <2>2 DEF Forwarded
  <2>4. PICK s : s = ForwardSegment(body, taken)
    OBVIOUS
  <2>5. s = [kind |-> "forward", position |-> 0, value |-> <<>>, status |-> taken.status,
             content |-> MessageLikeSegments(body, 0), nodes |-> taken.nodes,
             resolved |-> <<>>]
    BY <2>4 DEF ForwardSegment, Segment
  <2>6. s \in Forwards(trees) /\ s.position = 0 /\ s.nodes = taken.nodes
    <3>1. MessageLikeSegments(body, 0) \in NumberedFrom0(Leaves)
      BY OwnIsNumbered
    <3> QED
      BY <2>3, <2>5, <3>1 DEF Forwards, ForwardStatuses, Nodes
  <2>7. r.out = <<s>> /\ r.budget = taken.budget
    BY <1>1, <2>1, <2>4 DEF ParseSegments
  <2>8. s \in SegmentsOver(trees)
    BY <2>6 DEF SegmentsOver
  <2>9. <<s>> \in TreesOver(trees)
    BY <2>6, <2>8, OneSegment DEF TreesOver, SegmentsOver
  <2>10. Count(members, <<s>>) = Cost(members, taken.nodes)
    BY <2>6, <2>8, CountOfOne, WithinForward
  <2> QED
    BY <2>3, <2>7, <2>9, <2>10
<1>2. CASE body.type = "reply"
  <2>1. PICK quotes : quotes = ReplySegments(within, left, body, depth, budget)
    OBVIOUS
  <2>2. PICK replies : replies = quotes.replies
    OBVIOUS
  <2>3. /\ replies \in Seq(Replies(trees)) /\ quotes.budget \in 0..budget
        /\ \A i \in DOMAIN replies : replies[i].position = i - 1
        /\ Count(members, replies) + quotes.budget <= budget
    <3>1. quotes \in Quoted(trees, members, budget)
      BY <2>1, ReplyIsPaidFor
    <3> QED
      BY <2>2, <3>1 DEF Quoted
  <2>4. PICK own : own = MessageLikeSegments(body, Len(replies))
    OBVIOUS
  <2>5. own \in Seq(Leaves) /\ \A i \in DOMAIN own : own[i].position = Len(replies) + i - 1
    <3>1. Len(replies) \in Nat
      BY <2>3
    <3>2. own \in NumberedLeaves(Len(replies))
      BY <2>4, <3>1, OwnContent, BodiesWithin
    <3> QED
      BY <3>2 DEF NumberedLeaves
  <2>6. replies \in Seq(SegmentsOver(trees)) /\ own \in Seq(SegmentsOver(trees))
    <3>1. Replies(trees) \subseteq SegmentsOver(trees) /\ Leaves \subseteq SegmentsOver(trees)
      BY DEF SegmentsOver
    <3> QED
      BY <2>3, <2>5, <3>1, SeqMonotonic
  <2>7. PICK all : all = replies \o own
    OBVIOUS
  <2>8. r.out = all /\ r.budget = quotes.budget
    BY <1>2, <2>1, <2>2, <2>4, <2>7 DEF ParseSegments
  <2>9. all \in TreesOver(trees)
    <3>1. /\ all \in Seq(SegmentsOver(trees)) /\ DOMAIN all = 1..(Len(replies) + Len(own))
          /\ Len(replies) \in Nat /\ Len(own) \in Nat
          /\ DOMAIN replies = 1..Len(replies) /\ DOMAIN own = 1..Len(own)
          /\ \A i \in 1..Len(replies) : all[i] = replies[i]
          /\ \A i \in 1..Len(own) : all[Len(replies) + i] = own[i]
      BY <2>6, <2>7
    <3>2. ASSUME NEW i \in DOMAIN all PROVE all[i].position = i - 1
      <4>1. CASE i <= Len(replies)
        <5>1. i \in 1..Len(replies)
          BY <3>1, <4>1
        <5> QED
          BY <2>3, <3>1, <5>1
      <4>2. CASE ~(i <= Len(replies))
        <5>1. PICK j \in 1..Len(own) : i = Len(replies) + j
          <6>1. i - Len(replies) \in 1..Len(own) /\ i = Len(replies) + (i - Len(replies))
            BY <3>1, <4>2
          <6> QED
            BY <6>1
        <5>2. j \in DOMAIN own /\ own[j].position = Len(replies) + j - 1 /\ all[i] = own[j]
          BY <2>5, <3>1, <5>1
        <5> QED
          BY <3>1, <5>1, <5>2
      <4> QED
        BY <4>1, <4>2
    <3> QED
      BY <3>1, <3>2 DEF TreesOver, NumberedFrom0, SegmentsOver
  <2>10. Count(members, all) = Count(members, replies) + Count(members, own)
    BY <2>6, <2>7, CountOfBoth
  <2>11. Count(members, own) = 0 /\ Count(members, replies) \in Nat
    BY <2>5, <2>6, CountOfLeaves, CountsAreNat
  <2> QED
    BY <2>3, <2>8, <2>9, <2>10, <2>11
<1>3. CASE body.type # "forward" /\ body.type # "reply"
  <2>1. r.out = MessageLikeSegments(body, 0) /\ r.budget = budget
    BY <1>3 DEF ParseSegments
  <2>2. r.out \in NumberedFrom0(Leaves)
    BY <2>1, OwnIsNumbered
  <2>3. r.out \in TreesOver(trees) /\ Count(members, r.out) = 0
    BY <2>2, LeavesAreTrees, CountOfLeaves DEF NumberedFrom0
  <2> QED
    BY <1>0, <2>1, <2>3
<1> QED
  BY <1>1, <1>2, <1>3

\* A level above one that pays for what it makes does so as well.
LEMMA LevelAbove ==
    ASSUME NEW n \in 0..MaxForwardDepth,
           n # 0 => Below(Parser[n - 1], ParsedTrees[n - 1], Members[n - 1])
    PROVE  Below(Parser[n], ParsedTrees[n], Members[n])
<1>1. PICK within, trees, members :
        /\ within = IF n = 0 THEN <<>> ELSE Parser[n - 1]
        /\ trees = IF n = 0 THEN {} ELSE ParsedTrees[n - 1]
        /\ members = IF n = 0 THEN <<>> ELSE Members[n - 1]
  OBVIOUS
<1>2. /\ Parser[n] = ParserOver(n, within)
      /\ ParsedTrees[n] = TreesOver(trees)
      /\ Members[n] = MembersOver(n, members)
  BY <1>1, ParserIs, TreesAre, MembersAre
<1>3. /\ n \in Nat /\ Counts(members, trees)
      /\ n # 0 => Below(within, trees, members)
  BY <1>1, ParserAssumption DEF Below, Counts
<1>4. ASSUME NEW tree \in ParsedTrees[n]
      PROVE  Members[n][tree] = Count(members, tree) /\ Members[n][tree] \in Nat
  <2>1. Members[n][tree] = Count(members, tree)
    BY <1>2 DEF MembersOver
  <2>2. tree \in Seq(SegmentsOver(trees))
    BY <1>2 DEF TreesOver, NumberedFrom0, SegmentsOver
  <2> QED
    BY <1>3, <2>1, <2>2, CountsAreNat
<1>5. ASSUME NEW s \in NumberedFrom0(Leaves)
      PROVE  s \in ParsedTrees[n] /\ Members[n][s] = 0
  <2>1. s \in ParsedTrees[n] /\ s \in Seq(Leaves)
    BY <1>2, LeavesAreTrees DEF NumberedFrom0
  <2> QED
    BY <1>4, <2>1, CountOfLeaves
<1>6. ASSUME NEW body \in Bodies, NEW depth \in Nat, NEW k \in 0..MaxForwardNodes
      PROVE  PaidFor(Parser[n][<<body, depth, k>>], ParsedTrees[n], Members[n], k)
  <2>1. PICK r : r = ParseSegments(within, n, body, depth, k)
    OBVIOUS
  <2>2. Parser[n][<<body, depth, k>>] = r
    <3>1. <<body, depth, k>> \in Bodies \X Nat \X (0..MaxForwardNodes)
      OBVIOUS
    <3>2. /\ <<body, depth, k>>[1] = body /\ <<body, depth, k>>[2] = depth
          /\ <<body, depth, k>>[3] = k
      OBVIOUS
    <3> QED
      BY <1>2, <2>1, <3>1, <3>2, Zenon DEF ParserOver
  <2>3. /\ r.out \in TreesOver(trees)
        /\ r.budget \in 0..k
        /\ Count(members, r.out) + r.budget <= k
    BY <1>3, <2>1, ParseIsPaidFor
  <2> QED
    BY <1>2, <1>4, <2>2, <2>3 DEF PaidFor
<1> QED
  BY <1>4, <1>5, <1>6 DEF Below, Counts

\* So every level pays for what it makes.
LEMMA EveryLevelPays ==
    ASSUME NEW n \in 0..MaxForwardDepth
    PROVE  Below(Parser[n], ParsedTrees[n], Members[n])
<1> DEFINE Pays(k) == Below(Parser[k], ParsedTrees[k], Members[k])
           Bad == {k \in 0..MaxForwardDepth : ~Pays(k)}
<1>1. SUFFICES ASSUME Bad # {} PROVE FALSE
  OBVIOUS
<1>2. PICK k \in Bad : \A l \in Bad : k <= l
  <2>1. Bad \subseteq Nat
    BY ParserAssumption
  <2> HIDE DEF Bad
  <2> QED
    BY <1>1, <2>1, LeastElement
<1>3. k \in 0..MaxForwardDepth /\ ~Pays(k)
  OBVIOUS
<1>4. k # 0 => k - 1 \in 0..MaxForwardDepth /\ ~(k <= k - 1)
  BY <1>3, ParserAssumption
<1>5. k # 0 => Pays(k - 1)
  BY <1>2, <1>4
<1> QED
  BY <1>3, <1>5, LevelAbove

\* What a limit leaves of a body is a tree of at most MaxForwardDepth levels
\* with at most MaxForwardNodes messages in it.
LEMMA BodyIsBounded ==
    ASSUME NEW body \in Bodies
    PROVE  /\ Segments(body) \in ParsedTrees[MaxForwardDepth]
           /\ Members[MaxForwardDepth][Segments(body)] <= MaxForwardNodes
<1>1. MaxForwardDepth \in 0..MaxForwardDepth /\ MaxForwardNodes \in 0..MaxForwardNodes
      /\ MaxForwardNodes \in Nat /\ 0 \in Nat
  BY ParserAssumption
<1>2. Below(Parser[MaxForwardDepth], ParsedTrees[MaxForwardDepth], Members[MaxForwardDepth])
  BY <1>1, EveryLevelPays
<1>3. PaidFor(Parsed(body), ParsedTrees[MaxForwardDepth], Members[MaxForwardDepth],
              MaxForwardNodes)
  BY <1>1, <1>2 DEF Below, Parsed
<1>4. /\ Segments(body) \in ParsedTrees[MaxForwardDepth]
      /\ Parsed(body).budget \in Nat
      /\ Members[MaxForwardDepth][Segments(body)] + Parsed(body).budget <= MaxForwardNodes
  BY <1>3 DEF PaidFor, Segments
<1>5. Members[MaxForwardDepth][Segments(body)] \in Nat
  BY <1>2, <1>4 DEF Below, Counts
<1> QED
  BY <1>1, <1>4, <1>5

\* Every message the bot or the script stores keeps to both limits.
THEOREM StoredTreesAreBounded == Spec => []TreeBounded
<1>1. SourcesInv => TreeBounded
  <2> SUFFICES ASSUME SourcesInv, NEW i \in StoredRows
               PROVE  /\ Segments(BodyOf(i)) \in ParsedTrees[MaxForwardDepth]
                      /\ Members[MaxForwardDepth][Segments(BodyOf(i))] <= MaxForwardNodes
    BY DEF TreeBounded
  <2>1. load \in Loads /\ receipts[rows[i].raw] \in DOMAIN load.events
    BY DEF SourcesInv, HistoryInv, Tables, Sources, StoredRows
  <2>2. BodyOf(i) \in SentBodies
    BY <2>1 DEF BodyOf, Event, SentBodies
  <2> QED
    BY <2>2, BodyAssumption, BodyIsBounded
<1> QED
  BY <1>1, SourcesInvariant, PTL

(***************************************************************************)
(* Rows.  A sheet is fresh if its rows and their parents have ids below    *)
(* the next one.  What is written on it hangs below a parent on it, by     *)
(* certain relations, and below itself.                                    *)
(***************************************************************************)
Fresh(acc) ==
    /\ acc \in Sheets
    /\ acc.next # 0
    /\ \A r \in acc.nodes : r.id < acc.next /\ r.parent < acc.next

Fits(r) ==
    /\ r.relation = "nodes" <=> r.kind = "forward_node"
    /\ r.relation = "resolved_message" <=> r.kind = "resolved_message"

Held(nodes, r) == \E p \in nodes : p.id = r.parent /\ r.relation \in Relations(p.kind)

\* Of the parents from lo on, none has two resolved messages.
Alone(nodes, lo) ==
    \A m, n \in nodes :
        /\ lo <= m.parent
        /\ m.parent = n.parent
        /\ m.relation = "resolved_message"
        /\ n.relation = "resolved_message"
        => m = n

Grows(old, new, parent, relations) ==
    /\ Fresh(new)
    /\ old.next <= new.next
    /\ \A r \in NodeRows : r.id < old.next => (r \in new.nodes <=> r \in old.nodes)
    /\ \A r \in new.nodes : old.next <= r.id =>
          /\ Fits(r)
          /\ \/ r.parent = parent /\ r.relation \in relations
             \/ old.next <= r.parent /\ Held(new.nodes, r)
    /\ Alone(new.nodes, old.next)

\* What is written is one row below the parent, and what is below that.
Puts(old, new, parent, relation, row) ==
    /\ Grows(old, new, parent, {relation})
    /\ row \in new.nodes
    /\ row.id = old.next
    /\ row.parent = parent
    /\ row.relation = relation
    /\ \A r \in new.nodes : old.next <= r.id /\ r.parent = parent => r = row

\* N has of the ids from lo to hi, and of what hangs below them, just nodes.
Touches(r, lo, hi) ==
    \/ lo <= r.id /\ r.id < hi
    \/ lo <= r.parent /\ r.parent < hi

Agrees(N, nodes, lo, hi) ==
    /\ N \in SUBSET NodeRows
    /\ \A r \in NodeRows : Touches(r, lo, hi) => (r \in N <=> r \in nodes)

\* The numbers of a fresh sheet.
LEMMA FreshNumbers ==
    ASSUME NEW acc, Fresh(acc)
    PROVE  /\ acc.next \in Nat
           /\ \A r \in acc.nodes :
                 /\ r \in NodeRows
                 /\ r.id \in Nat /\ r.parent \in Nat
                 /\ r.id < acc.next /\ r.parent < acc.next
BY DEF Fresh, Sheets, NodeRows

\* What grows has what was there.
LEMMA GrowsKeeps ==
    ASSUME NEW a, NEW b, NEW parent, NEW R, Fresh(a), Grows(a, b, parent, R)
    PROVE  /\ a.nodes \subseteq b.nodes
           /\ \A r \in b.nodes : r.id < a.next => r \in a.nodes
<1>1. Fresh(b) /\ \A r \in NodeRows : r.id < a.next => (r \in b.nodes <=> r \in a.nodes)
  BY DEF Grows
<1> QED
  BY <1>1, FreshNumbers

\* Writing twice is writing.
LEMMA GrowsOn ==
    ASSUME NEW a, NEW b, NEW c, NEW parent \in Nat, NEW R, NEW S,
           Fresh(a), parent < a.next, Grows(a, b, parent, R), Grows(b, c, parent, S)
    PROVE  Grows(a, c, parent, R \cup S)
<1>1. /\ Fresh(b) /\ Fresh(c) /\ a.next <= b.next /\ b.next <= c.next
      /\ a.next \in Nat /\ b.next \in Nat /\ c.next \in Nat
  BY FreshNumbers DEF Grows
<1>2. a.next <= c.next
  BY <1>1
<1>3. b.nodes \subseteq c.nodes /\ \A r \in c.nodes : r.id < b.next => r \in b.nodes
  BY <1>1, GrowsKeeps
<1>4. \A r \in NodeRows : r.id < a.next => (r \in c.nodes <=> r \in a.nodes)
  <2> SUFFICES ASSUME NEW r \in NodeRows, r.id < a.next
               PROVE  r \in c.nodes <=> r \in a.nodes
    OBVIOUS
  <2>1. r.id \in Nat /\ r.id < b.next
    BY <1>1 DEF NodeRows
  <2> QED
    BY <2>1 DEF Grows
<1>5. ASSUME NEW r \in c.nodes, a.next <= r.id
      PROVE  /\ Fits(r)
             /\ \/ r.parent = parent /\ r.relation \in R \cup S
                \/ a.next <= r.parent /\ Held(c.nodes, r)
  <2>1. r.id \in Nat /\ r.parent \in Nat
    BY <1>1, FreshNumbers
  <2>2. CASE r.id < b.next
    <3>1. r \in b.nodes
      BY <1>3, <2>2
    <3>2. /\ Fits(r)
          /\ \/ r.parent = parent /\ r.relation \in R
             \/ a.next <= r.parent /\ Held(b.nodes, r)
      BY <1>5, <3>1 DEF Grows
    <3>3. Held(b.nodes, r) => Held(c.nodes, r)
      BY <1>3 DEF Held
    <3> QED
      BY <3>2, <3>3
  <2>3. CASE b.next <= r.id
    <3>1. /\ Fits(r)
          /\ \/ r.parent = parent /\ r.relation \in S
             \/ b.next <= r.parent /\ Held(c.nodes, r)
      BY <2>3 DEF Grows
    <3>2. b.next <= r.parent => a.next <= r.parent
      BY <1>1, <2>1
    <3> QED
      BY <3>1, <3>2
  <2> QED
    BY <1>1, <2>1, <2>2, <2>3
<1>6. Alone(c.nodes, a.next)
  <2> SUFFICES ASSUME NEW m \in c.nodes, NEW n \in c.nodes,
                      a.next <= m.parent, m.parent = n.parent,
                      m.relation = "resolved_message", n.relation = "resolved_message"
               PROVE  m = n
    BY DEF Alone
  <2>1. /\ m.id \in Nat /\ n.id \in Nat /\ m.parent \in Nat
        /\ m.parent # parent /\ n.parent # parent
    BY <1>1, FreshNumbers
  <2>2. CASE b.next <= m.parent
    BY <2>2 DEF Grows, Alone
  <2>3. CASE ~(b.next <= m.parent)
    <3>1. ~(b.next <= m.id) /\ ~(b.next <= n.id)
      BY <2>1, <2>3 DEF Grows
    <3>2. m \in b.nodes /\ n \in b.nodes
      BY <1>1, <1>3, <2>1, <3>1
    <3> QED
      BY <3>2 DEF Grows, Alone
  <2> QED
    BY <2>2, <2>3
<1> QED
  BY <1>1, <1>2, <1>4, <1>5, <1>6 DEF Grows

\* Who agrees with all that was written agrees with each part.
LEMMA AgreesWithBoth ==
    ASSUME NEW a, NEW b, NEW c, NEW parent \in Nat, NEW R, NEW S,
           Fresh(a), parent < a.next, Grows(a, b, parent, R), Grows(b, c, parent, S),
           NEW N, Agrees(N, c.nodes, a.next, c.next)
    PROVE  Agrees(N, b.nodes, a.next, b.next) /\ Agrees(N, c.nodes, b.next, c.next)
<1>1. /\ Fresh(b) /\ Fresh(c) /\ a.next <= b.next /\ b.next <= c.next
      /\ a.next \in Nat /\ b.next \in Nat /\ c.next \in Nat
  BY FreshNumbers DEF Grows
<1>2. ASSUME NEW r \in NodeRows, Touches(r, b.next, c.next)
      PROVE  r \in N <=> r \in c.nodes
  <2>1. r.id \in Nat /\ r.parent \in Nat
    BY DEF NodeRows
  <2>2. Touches(r, a.next, c.next)
    BY <1>1, <1>2, <2>1 DEF Touches
  <2> QED
    BY <2>2 DEF Agrees
<1>3. ASSUME NEW r \in NodeRows, Touches(r, a.next, b.next)
      PROVE  r \in N <=> r \in b.nodes
  <2>1. r.id \in Nat /\ r.parent \in Nat
    BY DEF NodeRows
  <2>2. Touches(r, a.next, c.next)
    BY <1>1, <1>3, <2>1 DEF Touches
  <2>3. r \in N <=> r \in c.nodes
    BY <2>2 DEF Agrees
  <2>4. CASE r.id < b.next
    BY <2>3, <2>4 DEF Grows
  <2>5. CASE ~(r.id < b.next)
    <3>1. b.next <= r.id /\ a.next <= r.parent /\ ~(b.next <= r.parent) /\ r.parent # parent
      BY <1>1, <1>3, <2>1, <2>5 DEF Touches
    <3>2. r \notin c.nodes
      BY <3>1 DEF Grows
    <3>3. r \notin b.nodes
      BY <1>1, <2>5, FreshNumbers
    <3> QED
      BY <2>3, <3>2, <3>3
  <2> QED
    BY <2>4, <2>5
<1> QED
  BY <1>2, <1>3 DEF Agrees

\* A sheet with one row more.
WithRow(acc, row) == [nodes |-> acc.nodes \cup {row}, next |-> acc.next + 1]

\* It is fresh if the row is the next one and hangs below one that is there.
LEMMA RowIsFresh ==
    ASSUME NEW acc, Fresh(acc), NEW row \in NodeRows, row.id = acc.next,
           row.parent < acc.next
    PROVE  /\ Fresh(WithRow(acc, row))
           /\ WithRow(acc, row).next = acc.next + 1
           /\ row.id < acc.next + 1
<1>1. /\ acc.next \in Nat /\ acc.nodes \in SUBSET NodeRows /\ acc.next + 1 \in Nat
      /\ row.parent \in Nat
  BY DEF Fresh, Sheets, NodeRows
<1>2. WithRow(acc, row) \in Sheets
  BY <1>1 DEF Sheets, WithRow
<1>3. ASSUME NEW r \in WithRow(acc, row).nodes
      PROVE  r.id < acc.next + 1 /\ r.parent < acc.next + 1
  <2>1. CASE r = row
    BY <1>1, <2>1
  <2>2. CASE r \in acc.nodes
    <3>1. r.id \in Nat /\ r.parent \in Nat /\ r.id < acc.next /\ r.parent < acc.next
      BY <2>2, FreshNumbers
    <3> QED
      BY <1>1, <3>1
  <2> QED
    BY <2>1, <2>2 DEF WithRow
<1> QED
  BY <1>1, <1>2, <1>3 DEF Fresh, WithRow

\* The row stands next on the sheet, below the parent.
Stands(acc, parent, relation, row) ==
    /\ Fresh(acc)
    /\ parent \in Nat
    /\ parent < acc.next
    /\ row \in NodeRows
    /\ row.id = acc.next
    /\ row.parent = parent
    /\ row.relation = relation
    /\ Fits(row)

\* It may hold such rows, and no two resolved messages.
MayHold(row, relations, nodes) ==
    /\ relations \subseteq Relations(row.kind)
    /\ \A m, n \in nodes :
          /\ m.parent = row.id
          /\ n.parent = row.id
          /\ m.relation = "resolved_message"
          /\ n.relation = "resolved_message"
          => m = n

\* In N, what hangs below the row is what nodes has from lo on.
Children(N, row, nodes, lo) ==
    \A r \in NodeRows : r.parent = row.id => (r \in N <=> r \in nodes /\ lo <= r.id)

\* Nothing is written, then nothing has grown.
LEMMA GrowsNot ==
    ASSUME NEW acc, Fresh(acc), NEW parent, NEW relations
    PROVE  Grows(acc, acc, parent, relations)
<1>1. acc.next \in Nat /\ \A r \in acc.nodes : r.id \in Nat /\ r.parent \in Nat
                             /\ r.id < acc.next /\ r.parent < acc.next
  BY FreshNumbers
<1>2. /\ acc.next <= acc.next
      /\ \A r \in acc.nodes : ~(acc.next <= r.id) /\ ~(acc.next <= r.parent)
  BY <1>1
<1> QED
  BY <1>2 DEF Grows, Alone

\* One row, and below it what grew: that is put below the parent.
LEMMA PutsUnder ==
    ASSUME NEW acc, NEW parent, NEW relation, NEW row, Stands(acc, parent, relation, row),
           NEW c, NEW relations, MayHold(row, relations, c.nodes),
           Grows(WithRow(acc, row), c, row.id, relations)
    PROVE  Puts(acc, c, parent, relation, row)
<1> DEFINE this == WithRow(acc, row)
<1>0. /\ Fresh(acc) /\ parent \in Nat /\ parent < acc.next /\ row \in NodeRows
      /\ row.id = acc.next /\ row.parent = parent /\ row.relation = relation /\ Fits(row)
      /\ relations \subseteq Relations(row.kind)
      /\ \A m, n \in c.nodes :
            /\ m.parent = row.id
            /\ n.parent = row.id
            /\ m.relation = "resolved_message"
            /\ n.relation = "resolved_message"
            => m = n
  BY DEF Stands, MayHold
<1> USE <1>0
<1>1. /\ Fresh(this) /\ Fresh(c) /\ this.next = acc.next + 1 /\ this.next <= c.next
      /\ acc.next \in Nat /\ c.next \in Nat /\ this.next \in Nat /\ acc.next <= c.next
  <2>1. Fresh(this) /\ this.next = acc.next + 1
    BY RowIsFresh
  <2>2. Fresh(c) /\ this.next <= c.next
    BY DEF Grows
  <2>3. acc.next \in Nat /\ c.next \in Nat /\ this.next \in Nat
    BY <2>1, <2>2, FreshNumbers
  <2> HIDE DEF this
  <2> QED
    BY <2>1, <2>2, <2>3
<1>2. this.nodes = acc.nodes \cup {row}
  BY DEF WithRow
<1>3. this.nodes \subseteq c.nodes /\ \A r \in c.nodes : r.id < this.next => r \in this.nodes
  BY <1>1, GrowsKeeps
<1> HIDE DEF this
<1>4. row \in c.nodes /\ row \notin acc.nodes
  <2>1. ~(acc.next < acc.next)
    BY <1>1
  <2> QED
    BY <1>2, <1>3, <2>1, FreshNumbers
<1>5. ASSUME NEW r \in NodeRows, r.id < acc.next PROVE r \in c.nodes <=> r \in acc.nodes
  <2>1. r.id < this.next /\ r # row
    BY <1>1, <1>5 DEF NodeRows
  <2>2. r \in c.nodes <=> r \in this.nodes
    BY <2>1 DEF Grows, this
  <2> QED
    BY <1>2, <2>1, <2>2
<1>6. ASSUME NEW r \in c.nodes, acc.next <= r.id
      PROVE  \/ r = row
             \/ Fits(r) /\ acc.next <= r.parent /\ Held(c.nodes, r)
  <2>1. r.id \in Nat /\ r.parent \in Nat /\ r \in NodeRows
    BY <1>1, FreshNumbers
  <2>2. CASE r.id < this.next
    <3>1. r \in acc.nodes => r.id < acc.next
      BY FreshNumbers
    <3> QED
      BY <1>1, <1>2, <1>3, <1>6, <2>1, <2>2, <3>1
  <2>3. CASE this.next <= r.id
    <3>1. /\ Fits(r)
          /\ \/ r.parent = row.id /\ r.relation \in relations
             \/ this.next <= r.parent /\ Held(c.nodes, r)
      BY <2>3 DEF Grows, this
    <3>2. CASE r.parent = row.id /\ r.relation \in relations
      <4>1. Held(c.nodes, r)
        BY <1>4, <3>2 DEF Held
      <4> QED
        BY <1>1, <2>1, <3>1, <3>2, <4>1
    <3>3. CASE this.next <= r.parent /\ Held(c.nodes, r)
      BY <1>1, <2>1, <3>1, <3>3
    <3> QED
      BY <3>1, <3>2, <3>3
  <2> QED
    BY <1>1, <2>1, <2>2, <2>3
<1>7. Alone(c.nodes, acc.next)
  <2> SUFFICES ASSUME NEW m \in c.nodes, NEW n \in c.nodes,
                      acc.next <= m.parent, m.parent = n.parent,
                      m.relation = "resolved_message", n.relation = "resolved_message"
               PROVE  m = n
    BY DEF Alone
  <2>1. m.parent \in Nat
    BY <1>1, FreshNumbers
  <2>2. CASE m.parent = row.id
    BY <2>2
  <2>3. CASE m.parent # row.id
    <3>1. this.next <= m.parent
      BY <1>1, <2>1, <2>3
    <3> QED
      BY <3>1 DEF Grows, Alone, this
  <2> QED
    BY <2>2, <2>3
<1>8. Grows(acc, c, parent, {relation})
  BY <1>1, <1>5, <1>6, <1>7 DEF Grows
<1>9. \A r \in c.nodes : acc.next <= r.id /\ r.parent = parent => r = row
  <2>1. ~(acc.next <= parent)
    BY <1>1
  <2> QED
    BY <1>6, <2>1
<1> QED
  BY <1>4, <1>8, <1>9 DEF Puts

\* Who agrees with it has just these children of the row.
LEMMA AgreesUnder ==
    ASSUME NEW acc, NEW parent, NEW relation, NEW row, Stands(acc, parent, relation, row),
           NEW c, NEW relations, Grows(WithRow(acc, row), c, row.id, relations),
           NEW N, Agrees(N, c.nodes, acc.next, c.next)
    PROVE  /\ Agrees(N, c.nodes, acc.next + 1, c.next)
           /\ Children(N, row, c.nodes, acc.next + 1)
<1> DEFINE this == WithRow(acc, row)
<1>0. /\ Fresh(acc) /\ parent \in Nat /\ parent < acc.next /\ row \in NodeRows
      /\ row.id = acc.next /\ row.parent = parent
  BY DEF Stands
<1> USE <1>0
<1>1. /\ Fresh(this) /\ Fresh(c) /\ this.next = acc.next + 1 /\ this.next <= c.next
      /\ acc.next \in Nat /\ c.next \in Nat
  <2>1. Fresh(this) /\ this.next = acc.next + 1
    BY RowIsFresh
  <2>2. Fresh(c) /\ this.next <= c.next
    BY DEF Grows
  <2>3. acc.next \in Nat /\ c.next \in Nat
    BY <2>2, FreshNumbers
  <2> HIDE DEF this
  <2> QED
    BY <2>1, <2>2, <2>3
<1>2. this.nodes = acc.nodes \cup {row}
  BY DEF WithRow
<1>3. \A r \in c.nodes : r.id < this.next => r \in this.nodes
  BY <1>1, GrowsKeeps
<1> HIDE DEF this
<1>4. ASSUME NEW r \in NodeRows, Touches(r, acc.next + 1, c.next)
      PROVE  r \in N <=> r \in c.nodes
  <2>1. r.id \in Nat /\ r.parent \in Nat
    BY DEF NodeRows
  <2>2. Touches(r, acc.next, c.next)
    BY <1>1, <1>4, <2>1 DEF Touches
  <2> QED
    BY <2>2 DEF Agrees
<1>5. Agrees(N, c.nodes, acc.next + 1, c.next)
  BY <1>4 DEF Agrees
<1>6. ASSUME NEW r \in NodeRows, r.parent = row.id
      PROVE  r \in N <=> r \in c.nodes /\ acc.next + 1 <= r.id
  <2>1. acc.next <= r.parent /\ r.parent < c.next
    BY <1>1, <1>6
  <2>2. r \in N <=> r \in c.nodes
    BY <2>1 DEF Agrees, Touches
  <2>3. r.parent # parent /\ r.id \in Nat
    BY <1>1, <1>6 DEF NodeRows
  <2>4. r \in acc.nodes => r.parent < acc.next
    BY FreshNumbers
  <2>5. ~(acc.next < acc.next)
    BY <1>1
  <2>6. r \notin this.nodes
    BY <1>2, <1>6, <2>3, <2>4, <2>5
  <2>7. r \in c.nodes => acc.next + 1 <= r.id
    BY <1>1, <1>3, <2>3, <2>6
  <2> QED
    BY <2>2, <2>7
<1> QED
  BY <1>5, <1>6 DEF Children

(***************************************************************************)
(* Siblings.  The sheets A[0] to A[n] are written one after the other, and *)
(* each puts the row f[k] below the same parent.                           *)
(***************************************************************************)
Listed(A, f, k, parent, relation) ==
    /\ Grows(A[0], A[k], parent, {relation})
    /\ \A i \in 1..k :
          /\ f[i] \in A[k].nodes
          /\ A[0].next <= f[i].id
          /\ f[i].parent = parent
          /\ f[i].relation = relation
    /\ \A r \in A[k].nodes : A[0].next <= r.id /\ r.parent = parent => \E i \in 1..k : r = f[i]
    /\ \A N : Agrees(N, A[k].nodes, A[0].next, A[k].next)
                 => \A i \in 1..k : Agrees(N, A[i].nodes, A[i - 1].next, A[i].next)

Chained(A, f, n, parent, relation) ==
    \A k \in 1..n :
        Fresh(A[k - 1]) /\ parent < A[k - 1].next
           => Puts(A[k - 1], A[k], parent, relation, f[k])

\* One more of them is listed with the others.
LEMMA OneMoreListed ==
    ASSUME NEW A, NEW f, NEW parent \in Nat, NEW relation, NEW k \in Nat, k # 0,
           Fresh(A[0]), parent < A[0].next, Listed(A, f, k - 1, parent, relation),
           Puts(A[k - 1], A[k], parent, relation, f[k])
    PROVE  Listed(A, f, k, parent, relation)
<1>1. /\ Fresh(A[k - 1]) /\ Fresh(A[k]) /\ A[0].next <= A[k - 1].next
      /\ A[0].next \in Nat /\ A[k - 1].next \in Nat /\ A[k].next \in Nat
      /\ A[k - 1].next <= A[k].next
  <2>1. /\ Fresh(A[k - 1]) /\ Fresh(A[k])
        /\ A[0].next <= A[k - 1].next /\ A[k - 1].next <= A[k].next
    BY DEF Listed, Puts, Grows
  <2> QED
    BY <2>1, FreshNumbers
<1>2. parent < A[k - 1].next
  BY <1>1
<1>3. Grows(A[0], A[k - 1], parent, {relation}) /\ Grows(A[k - 1], A[k], parent, {relation})
  BY DEF Listed, Puts
<1>4. Grows(A[0], A[k], parent, {relation})
  <2>1. {relation} \cup {relation} = {relation}
    OBVIOUS
  <2>2. Grows(A[0], A[k], parent, {relation} \cup {relation})
    BY <1>3, GrowsOn
  <2> QED
    BY <2>1, <2>2
<1>5. /\ A[k - 1].nodes \subseteq A[k].nodes
      /\ \A r \in A[k].nodes : r.id < A[k - 1].next => r \in A[k - 1].nodes
  BY <1>1, <1>3, GrowsKeeps
<1>6. \A i \in 1..k : i = k \/ i \in 1..(k - 1)
  OBVIOUS
<1>7. ASSUME NEW i \in 1..k
      PROVE  /\ f[i] \in A[k].nodes
             /\ A[0].next <= f[i].id
             /\ f[i].parent = parent
             /\ f[i].relation = relation
  <2>1. CASE i = k
    <3>1. f[k] \in A[k].nodes /\ f[k].id = A[k - 1].next /\ f[k].parent = parent
          /\ f[k].relation = relation
      BY DEF Puts
    <3> QED
      BY <1>1, <2>1, <3>1
  <2>2. CASE i \in 1..(k - 1)
    BY <1>5, <2>2 DEF Listed
  <2> QED
    BY <1>6, <2>1, <2>2
<1>8. ASSUME NEW r \in A[k].nodes, A[0].next <= r.id, r.parent = parent
      PROVE  \E i \in 1..k : r = f[i]
  <2>1. r.id \in Nat
    BY <1>1, FreshNumbers
  <2>2. CASE r.id < A[k - 1].next
    <3>1. r \in A[k - 1].nodes
      BY <1>5, <2>2
    <3>2. \E i \in 1..(k - 1) : r = f[i]
      BY <1>8, <3>1 DEF Listed
    <3> QED
      BY <3>2
  <2>3. CASE A[k - 1].next <= r.id
    <3>1. r = f[k] /\ k \in 1..k
      BY <1>8, <2>3 DEF Puts
    <3> QED
      BY <3>1
  <2> QED
    BY <1>1, <2>1, <2>2, <2>3
<1>9. ASSUME NEW N, Agrees(N, A[k].nodes, A[0].next, A[k].next), NEW i \in 1..k
      PROVE  Agrees(N, A[i].nodes, A[i - 1].next, A[i].next)
  <2>1. /\ Agrees(N, A[k - 1].nodes, A[0].next, A[k - 1].next)
        /\ Agrees(N, A[k].nodes, A[k - 1].next, A[k].next)
    BY <1>3, <1>9, AgreesWithBoth
  <2>2. CASE i = k
    BY <2>1, <2>2
  <2>3. CASE i \in 1..(k - 1)
    BY <2>1, <2>3 DEF Listed
  <2> QED
    BY <1>6, <2>2, <2>3
<1> QED
  BY <1>4, <1>7, <1>8, <1>9 DEF Listed

\* So that all of them are listed.
LEMMA AllListed ==
    ASSUME NEW A, NEW f, NEW n \in Nat, NEW parent \in Nat, NEW relation,
           Fresh(A[0]), parent < A[0].next, Chained(A, f, n, parent, relation)
    PROVE  \A k \in 0..n : Listed(A, f, k, parent, relation)
<1> DEFINE Bad == {k \in 0..n : ~Listed(A, f, k, parent, relation)}
<1>1. SUFFICES ASSUME Bad # {} PROVE FALSE
  OBVIOUS
<1>2. PICK k \in Bad : \A l \in Bad : k <= l
  <2>1. Bad \subseteq Nat
    OBVIOUS
  <2> HIDE DEF Bad
  <2> QED
    BY <1>1, <2>1, LeastElement
<1>3. k \in 0..n /\ ~Listed(A, f, k, parent, relation)
  OBVIOUS
<1>4. k # 0
  <2>1. Grows(A[0], A[0], parent, {relation})
    BY GrowsNot
  <2>2. 1..0 = {} /\ A[0].next \in Nat
    BY FreshNumbers
  <2>3. \A r \in A[0].nodes : ~(A[0].next <= r.id)
    BY <2>2, FreshNumbers
  <2>4. Listed(A, f, 0, parent, relation)
    BY <2>1, <2>2, <2>3 DEF Listed
  <2> QED
    BY <1>3, <2>4
<1>5. k - 1 \in 0..n /\ ~(k <= k - 1) /\ k \in 1..n /\ k \in Nat
  BY <1>3, <1>4
<1>6. Listed(A, f, k - 1, parent, relation)
  BY <1>2, <1>5
<1>7. Fresh(A[k - 1]) /\ parent < A[k - 1].next
  <2>1. Fresh(A[k - 1]) /\ A[0].next <= A[k - 1].next
    BY <1>6 DEF Listed, Grows
  <2>2. A[0].next \in Nat /\ A[k - 1].next \in Nat
    BY <2>1, FreshNumbers
  <2> QED
    BY <2>1, <2>2
<1>8. Puts(A[k - 1], A[k], parent, relation, f[k])
  BY <1>5, <1>7 DEF Chained
<1> QED
  BY <1>3, <1>4, <1>5, <1>6, <1>8, OneMoreListed

\* Rows at the positions from 0 are read in that order.
LEMMA SiblingsInOrder ==
    ASSUME NEW n \in Nat, NEW f \in [1..n -> NodeRows], \A i \in 1..n : f[i].position = i - 1,
           NEW found, found = {f[i] : i \in 1..n}
    PROVE  Siblings(found) = f
<1>1. \A i, j \in 1..n : f[i] = f[j] => i = j
  <2> SUFFICES ASSUME NEW i \in 1..n, NEW j \in 1..n, f[i] = f[j] PROVE i = j
    OBVIOUS
  <2>1. i - 1 = j - 1
    OBVIOUS
  <2> QED
    BY <2>1
<1> DEFINE Image(S) == {f[i] : i \in S}
<1>2. \A k \in 0..n : IsFiniteSet(Image(1..k)) /\ Cardinality(Image(1..k)) = k
  <2> DEFINE Bad == {k \in 0..n : ~(IsFiniteSet(Image(1..k)) /\ Cardinality(Image(1..k)) = k)}
  <2>1. SUFFICES ASSUME Bad # {} PROVE FALSE
    OBVIOUS
  <2>2. PICK k \in Bad : \A l \in Bad : k <= l
    <3>1. Bad \subseteq Nat
      OBVIOUS
    <3> HIDE DEF Bad
    <3> QED
      BY <2>1, <3>1, LeastElement
  <2>3. k \in 0..n /\ ~(IsFiniteSet(Image(1..k)) /\ Cardinality(Image(1..k)) = k)
    OBVIOUS
  <2>4. k # 0
    <3>1. Image(1..0) = {}
      OBVIOUS
    <3> HIDE DEF Image
    <3> QED
      BY <2>3, <3>1, FS_EmptySet
  <2>5. k - 1 \in 0..n /\ ~(k <= k - 1) /\ k \in 1..n
    BY <2>3, <2>4
  <2>6. IsFiniteSet(Image(1..(k - 1))) /\ Cardinality(Image(1..(k - 1))) = k - 1
    BY <2>2, <2>5
  <2>7. f[k] \notin Image(1..(k - 1))
    <3> SUFFICES ASSUME NEW i \in 1..(k - 1), f[k] = f[i] PROVE FALSE
      OBVIOUS
    <3>1. i \in 1..n /\ i # k
      BY <2>5
    <3> QED
      BY <1>1, <2>5, <3>1
  <2>8. Image(1..k) = Image(1..(k - 1)) \cup {f[k]}
    <3>1. \A i : i \in 1..k <=> i \in 1..(k - 1) \/ i = k
      BY <2>5
    <3> QED
      BY <3>1
  <2> HIDE DEF Image
  <2>9. IsFiniteSet(Image(1..k)) /\ Cardinality(Image(1..k)) = (k - 1) + 1
    <3> DEFINE T == Image(1..(k - 1))
    <3>1. /\ IsFiniteSet(T) /\ Cardinality(T) = k - 1
          /\ f[k] \notin T /\ Image(1..k) = T \cup {f[k]}
      BY <2>6, <2>7, <2>8
    <3> HIDE DEF T
    <3>2. IsFiniteSet(T \cup {f[k]}) /\ Cardinality(T \cup {f[k]}) = Cardinality(T) + 1
      BY <3>1, FS_AddElement
    <3> HIDE DEF Bad
    <3> QED
      BY <3>1, <3>2, Zenon
  <2> QED
    BY <2>3, <2>5, <2>9
<1>3. Cardinality(found) = n
  <2>1. n \in 0..n /\ found = Image(1..n)
    OBVIOUS
  <2> HIDE DEF Image
  <2> QED
    BY <1>2, <2>1
<1> DEFINE before(x) == {m \in found :
                           \/ m.position < x.position
                           \/ m.position = x.position /\ m.id > x.id}
<1>4. ASSUME NEW k \in 1..n PROVE Cardinality(before(f[k])) = k - 1
  <2>1. f[k].position = k - 1 /\ f[k].id \in Nat
    BY DEF NodeRows
  <2>2. before(f[k]) = Image(1..(k - 1))
    <3>1. ASSUME NEW i \in 1..n
          PROVE  f[i] \in before(f[k]) <=> i < k
      <4>1. f[i].position = i - 1 /\ f[i].id \in Nat /\ f[i] \in found
        BY DEF NodeRows
      <4>2. CASE i = k
        <5>1. ~(f[k].id > f[k].id) /\ ~(f[k].position < f[k].position)
          BY <2>1
        <5> QED
          BY <4>2, <5>1
      <4>3. CASE i # k
        <5>1. f[i].position # f[k].position /\ (f[i].position < f[k].position <=> i < k)
          BY <2>1, <4>1, <4>3
        <5> QED
          BY <4>1, <5>1
      <4> QED
        BY <4>2, <4>3
    <3>2. \A m \in before(f[k]) : m \in Image(1..(k - 1))
      <4> SUFFICES ASSUME NEW i \in 1..n, f[i] \in before(f[k]) PROVE f[i] \in Image(1..(k - 1))
        OBVIOUS
      <4>1. i \in 1..(k - 1)
        BY <3>1
      <4> QED
        BY <4>1
    <3>3. \A m \in Image(1..(k - 1)) : m \in before(f[k])
      <4> SUFFICES ASSUME NEW i \in 1..(k - 1) PROVE f[i] \in before(f[k])
        OBVIOUS
      <4>1. i \in 1..n /\ i < k
        OBVIOUS
      <4> QED
        BY <3>1, <4>1
    <3> HIDE DEF before, Image
    <3> QED
      BY <3>2, <3>3
  <2>3. k - 1 \in 0..n
    OBVIOUS
  <2> HIDE DEF before, Image
  <2> QED
    BY <1>2, <2>2, <2>3
<1>5. ASSUME NEW k \in 1..n
      PROVE  (CHOOSE x \in found : k - 1 = Cardinality(before(x))) = f[k]
  <2>1. f[k] \in found
    OBVIOUS
  <2>2. ASSUME NEW x \in found, k - 1 = Cardinality(before(x)) PROVE x = f[k]
    <3>1. PICK i \in 1..n : x = f[i]
      OBVIOUS
    <3>2. Cardinality(before(x)) = i - 1
      <4> HIDE DEF before
      <4> QED
        BY <1>4, <3>1
    <3>3. i = k
      BY <2>2, <3>2
    <3> QED
      BY <3>1, <3>3
  <2> HIDE DEF before
  <2> QED
    BY <1>4, <2>1, <2>2
<1>6. Siblings(found) = [k \in 1..n |-> CHOOSE x \in found : k - 1 = Cardinality(before(x))]
  BY <1>3 DEF Siblings
<1> HIDE DEF before
<1> QED
  BY <1>5, <1>6

(***************************************************************************)
(* What codes a tree.  N has, of what hangs below the parent by this       *)
(* relation, just the nodes from lo on.                                    *)
(***************************************************************************)
Hangs(N, nodes, lo, parent, relation) ==
    \A r \in NodeRows :
        r.parent = parent /\ r.relation = relation => (r \in N <=> r \in nodes /\ lo <= r.id)

SegmentRelations == {"segments", "content"}

\* What within writes of a tree hangs below the parent, and reader reads the
\* tree from whatever agrees with it.
Written(within, reader, acc, tree, parent, relation, depth) ==
    LET new == within[<<acc, tree, parent, relation, depth>>]
    IN  /\ Grows(acc, new, parent, {relation})
        /\ \A N : Agrees(N, new.nodes, acc.next, new.next)
                  /\ Hangs(N, new.nodes, acc.next, parent, relation)
                     => reader[<<N, parent, relation>>] = tree

Codes(within, reader, trees) ==
    \A acc \in Sheets, tree \in trees, parent \in Nat, relation \in SegmentRelations,
       depth \in Nat :
        Fresh(acc) /\ parent < acc.next
           => Written(within, reader, acc, tree, parent, relation, depth)

RowOf(acc, parent, relation, position, payload, depth) ==
    [id |-> acc.next, parent |-> parent, relation |-> relation,
     kind |-> payload.kind, position |-> position, depth |-> depth,
     value |-> payload.value, status |-> payload.status, who |-> payload.who]

SegmentRow(acc, s, parent, relation, depth) ==
    RowOf(acc, parent, relation, s.position, Payload(s.kind, s.value, s.status, NoOne), depth)

\* The same of a segment.
Laid(within, reader, acc, s, parent, relation, depth) ==
    LET new == EncodeSegment(within, acc, s, parent, relation, depth)
        row == SegmentRow(acc, s, parent, relation, depth)
    IN  /\ row \in NodeRows
        /\ Puts(acc, new, parent, relation, row)
        /\ \A N : Agrees(N, new.nodes, acc.next, new.next)
                     => DecodeSegment(reader, N, row) = s

Lays(within, reader, s) ==
    \A acc \in Sheets, parent \in Nat, relation \in SegmentRelations, depth \in Nat :
        Fresh(acc) /\ parent < acc.next
           => Laid(within, reader, acc, s, parent, relation, depth)

\* A node that holds a tree.
LEMMA ChildIsCoded ==
    ASSUME NEW within, NEW reader, NEW trees, Codes(within, reader, trees),
           NEW tree \in trees, NEW acc, NEW parent, NEW relation, NEW row,
           Stands(acc, parent, relation, row), NEW inner \in SegmentRelations,
           inner \in Relations(row.kind), NEW depth \in Nat,
           NEW c, c = within[<<WithRow(acc, row), tree, row.id, inner, depth>>]
    PROVE  /\ Puts(acc, c, parent, relation, row)
           /\ \A N : Agrees(N, c.nodes, acc.next, c.next)
                        => reader[<<N, row.id, inner>>] = tree
<1> DEFINE this == WithRow(acc, row)
<1>0. /\ Fresh(acc) /\ parent \in Nat /\ parent < acc.next /\ row \in NodeRows
      /\ row.id = acc.next /\ row.parent = parent /\ row.relation = relation /\ Fits(row)
  BY DEF Stands
<1> USE <1>0
<1>1. /\ Fresh(this) /\ this.next = acc.next + 1 /\ acc.next \in Nat
      /\ row.id < this.next /\ row.id \in Nat /\ this \in Sheets
  <2>1. Fresh(this) /\ this.next = acc.next + 1 /\ row.id < this.next
    BY RowIsFresh
  <2>2. acc.next \in Nat
    BY FreshNumbers
  <2> HIDE DEF this
  <2> QED
    BY <2>1, <2>2 DEF Fresh
<1>2. this.nodes = acc.nodes \cup {row}
  BY DEF WithRow
<1> HIDE DEF this
<1>3. Written(within, reader, this, tree, row.id, inner, depth)
  BY <1>1 DEF Codes
<1>4. Grows(this, c, row.id, {inner})
  BY <1>3 DEF Written, this
<1>5. ASSUME NEW m \in c.nodes, m.parent = row.id PROVE m.relation = inner
  <2>1. Fresh(c) /\ m.id \in Nat
    BY <1>4, FreshNumbers DEF Grows
  <2>2. \A r \in c.nodes : r.id < this.next => r \in this.nodes
    BY <1>1, <1>4, GrowsKeeps
  <2>3. CASE m.id < this.next
    <3>1. m = row \/ m \in acc.nodes
      BY <1>2, <2>2, <2>3
    <3>2. ~(acc.next < acc.next) /\ parent # acc.next
      BY <1>1
    <3>3. m \in acc.nodes => m.parent < acc.next
      BY FreshNumbers
    <3> QED
      BY <1>5, <3>1, <3>2, <3>3
  <2>4. CASE this.next <= m.id
    <3>1. ~(this.next <= row.id)
      BY <1>1
    <3> QED
      BY <1>4, <1>5, <2>4, <3>1 DEF Grows
  <2> QED
    BY <1>1, <2>1, <2>3, <2>4
<1>6. inner # "resolved_message" /\ {inner} \subseteq Relations(row.kind)
  BY DEF SegmentRelations
<1>7. Puts(acc, c, parent, relation, row)
  <2>1. Grows(WithRow(acc, row), c, row.id, {inner})
    BY <1>4 DEF this
  <2>2. MayHold(row, {inner}, c.nodes)
    BY <1>5, <1>6 DEF MayHold
  <2> HIDE DEF this
  <2> QED
    BY <2>1, <2>2, PutsUnder
<1>8. ASSUME NEW N, Agrees(N, c.nodes, acc.next, c.next)
      PROVE  reader[<<N, row.id, inner>>] = tree
  <2>0. Grows(WithRow(acc, row), c, row.id, {inner})
    BY <1>4 DEF this
  <2>1. /\ Agrees(N, c.nodes, acc.next + 1, c.next)
        /\ Children(N, row, c.nodes, acc.next + 1)
    BY <1>8, <2>0, AgreesUnder
  <2>2. Agrees(N, c.nodes, this.next, c.next) /\ Hangs(N, c.nodes, this.next, row.id, inner)
    BY <1>1, <2>1 DEF Hangs, Children
  <2> QED
    BY <1>3, <2>2 DEF Written, this
<1> QED
  BY <1>7, <1>8

\* Rows at the positions from 0.
Placed(f, n) == f \in [1..n -> NodeRows] /\ \A i \in 1..n : f[i].position = i - 1

\* Rows listed so are what is read.
LEMMA ListedAreRead ==
    ASSUME NEW A, NEW f, NEW n \in Nat, Placed(f, n), NEW parent, NEW relation,
           Fresh(A[n]), Listed(A, f, n, parent, relation),
           NEW N, N \in SUBSET NodeRows, Hangs(N, A[n].nodes, A[0].next, parent, relation)
    PROVE  Related(N, parent, relation) = f
<1> DEFINE found == {r \in N : r.parent = parent /\ r.relation = relation}
<1>1. ASSUME NEW i \in 1..n PROVE f[i] \in found
  <2>1. f[i] \in NodeRows /\ f[i] \in A[n].nodes /\ A[0].next <= f[i].id /\ f[i].parent = parent
        /\ f[i].relation = relation
    BY DEF Listed, Placed
  <2> QED
    BY <2>1 DEF Hangs
<1>2. ASSUME NEW r \in found PROVE \E i \in 1..n : r = f[i]
  <2>1. r \in A[n].nodes /\ A[0].next <= r.id /\ r.parent = parent
    BY DEF Hangs
  <2> QED
    BY <2>1 DEF Listed
<1>3. found = {f[i] : i \in 1..n}
  <2> HIDE DEF found
  <2> QED
    BY <1>1, <1>2
<1> HIDE DEF found
<1>4. Siblings(found) = f
  BY <1>3, SiblingsInOrder DEF Placed
<1> QED
  BY <1>4 DEF Related, found

\* A segment that holds nothing is its row.
LEMMA BareIsLaid ==
    ASSUME NEW acc, NEW parent, NEW relation, NEW row, Stands(acc, parent, relation, row),
           NEW c, c = WithRow(acc, row)
    PROVE  /\ Puts(acc, c, parent, relation, row)
           /\ \A N : Agrees(N, c.nodes, acc.next, c.next)
                        => \A r \in N : r.parent # row.id
<1>1. /\ Fresh(acc) /\ parent \in Nat /\ parent < acc.next /\ row \in NodeRows
      /\ row.id = acc.next /\ row.parent = parent
  BY DEF Stands
<1>3. Fresh(c) /\ c.next = acc.next + 1 /\ acc.next \in Nat
  BY <1>1, RowIsFresh, FreshNumbers
<1>4. Grows(c, c, row.id, {})
  BY <1>3, GrowsNot
<1>5. \A r \in c.nodes : r.parent # row.id
  <2>1. ~(acc.next < acc.next) /\ parent # acc.next
    BY <1>1, <1>3
  <2>2. \A r \in acc.nodes : r.parent < acc.next
    BY <1>1, FreshNumbers
  <2> QED
    BY <1>1, <2>1, <2>2 DEF WithRow
<1>5a. Grows(WithRow(acc, row), c, row.id, {})
  BY <1>4
<1>6. Puts(acc, c, parent, relation, row)
  <2>1. MayHold(row, {}, c.nodes)
    BY <1>5 DEF MayHold
  <2> QED
    BY <1>5a, <2>1, PutsUnder
<1>7. ASSUME NEW N, Agrees(N, c.nodes, acc.next, c.next), NEW r \in N
      PROVE  r.parent # row.id
  <2>1. Children(N, row, c.nodes, acc.next + 1)
    BY <1>5a, <1>7, AgreesUnder
  <2>2. r \in NodeRows
    BY <1>7 DEF Agrees
  <2> QED
    BY <1>5, <2>1, <2>2 DEF Children
<1> QED
  BY <1>6, <1>7

\* The row of a segment, or of a node of a forward, can stand where it is put.
LEMMA RowStands ==
    ASSUME NEW acc, Fresh(acc), NEW parent \in Nat, parent < acc.next,
           NEW relation \in RelationNames, NEW position \in Nat, NEW depth \in Nat,
           NEW payload, NEW row, row = RowOf(acc, parent, relation, position, payload, depth),
           row \in NodeRows, Fits(row)
    PROVE  Stands(acc, parent, relation, row)
BY DEF Stands, RowOf

NodeRow(acc, node, parent, position, depth) ==
    RowOf(acc, parent, "nodes", position,
          Payload("forward_node", <<>>, "none", [user |-> node.sender, depth |-> node.depth]),
          depth)

ForwardElements(trees) == [sender : STRING, depth : Nat, content : trees]

\* A node of a forward is put below the forward, and its content is read back.
LEMMA NodeIsCoded ==
    ASSUME NEW within, NEW reader, NEW trees, Codes(within, reader, trees),
           NEW node \in ForwardElements(trees), NEW acc, Fresh(acc), NEW parent \in Nat,
           parent < acc.next, NEW position \in Nat, NEW depth \in Nat,
           NEW row, row = NodeRow(acc, node, parent, position, depth),
           NEW c, c = EncodeForwardNode(within, acc, node, parent, position, depth)
    PROVE  /\ row \in NodeRows
           /\ Puts(acc, c, parent, "nodes", row)
           /\ \A N : Agrees(N, c.nodes, acc.next, c.next)
                        => reader[<<N, row.id, "content">>] = node.content
<1>1. /\ row.id = acc.next /\ row.parent = parent /\ row.relation = "nodes"
      /\ row.kind = "forward_node"
      /\ row = [id |-> acc.next, parent |-> parent, relation |-> "nodes",
                kind |-> "forward_node", position |-> position, depth |-> depth,
                value |-> <<>>, status |-> "none",
                who |-> [user |-> node.sender, depth |-> node.depth]]
  BY DEF NodeRow, RowOf, Payload
<1>2. row \in NodeRows
  <2>1. node.sender \in STRING /\ node.depth \in Nat /\ acc.next \in Nat
    BY FreshNumbers DEF ForwardElements
  <2>2. [user |-> node.sender, depth |-> node.depth]
          \in [user : STRING \cup {"none"}, depth : Nat]
    BY <2>1
  <2>3. <<>> \in Seq(Tokens)
    OBVIOUS
  <2> QED
    BY <1>1, <2>1, <2>2, <2>3 DEF NodeRows, RelationNames
<1>3. Stands(acc, parent, "nodes", row)
  BY <1>1, <1>2 DEF Stands, Fits
<1>4. "content" \in SegmentRelations /\ "content" \in Relations(row.kind)
  BY <1>1 DEF SegmentRelations, Relations
<1>5. node.content \in trees /\ depth + 1 \in Nat
  BY DEF ForwardElements
<1>6. c = within[<<WithRow(acc, row), node.content, row.id, "content", depth + 1>>]
  BY <1>1 DEF EncodeForwardNode, NewNode, WithRow, Payload
<1>7. /\ Puts(acc, c, parent, "nodes", row)
      /\ \A N : Agrees(N, c.nodes, acc.next, c.next)
                   => reader[<<N, row.id, "content">>] = node.content
  BY <1>3, <1>4, <1>5, <1>6, ChildIsCoded
<1> QED
  BY <1>2, <1>7

\* The sheets on which a row below this parent may be put.
OpenTo(parent) == {a \in Sheets : Fresh(a) /\ parent < a.next}

\* A sheet stays open to the parent when a row is put below it.
LEMMA PutsStays ==
    ASSUME NEW parent \in Nat, NEW acc \in OpenTo(parent), NEW c, NEW relation, NEW row,
           Puts(acc, c, parent, relation, row)
    PROVE  c \in OpenTo(parent)
<1>1. Fresh(acc) /\ parent < acc.next /\ Fresh(c) /\ acc.next <= c.next
  BY DEF OpenTo, Puts, Grows
<1>2. acc.next \in Nat /\ c.next \in Nat
  BY <1>1, FreshNumbers
<1> QED
  BY <1>1, <1>2 DEF OpenTo, Fresh

\* The steps of a fold, for folding the nodes of a forward.
LEMMA NodesAreFolded ==
    ASSUME NEW within, NEW reader, NEW trees, Codes(within, reader, trees),
           NEW nodes \in Seq(ForwardElements(trees)), NEW parent \in Nat,
           NEW acc \in OpenTo(parent), NEW depth \in Nat
    PROVE  \E A : /\ A[0] = acc
                  /\ A[Len(nodes)] = EncodeNodes(within, acc, nodes, parent, depth)
                  /\ \A k \in 0..Len(nodes) : A[k] \in OpenTo(parent)
                  /\ \A k \in 1..Len(nodes) :
                        A[k] = EncodeForwardNode(within, A[k - 1], nodes[k], parent, k - 1,
                                                 depth)
<1> DEFINE V == OpenTo(parent)
           n == Len(nodes)
           s == [i \in DOMAIN nodes |-> i]
           Adding(a, i) == EncodeForwardNode(within, a, nodes[i], parent, i - 1, depth)
           folds(g) == g = [t \in SUBSET (1..n) |->
                              IF t = {} THEN acc ELSE Adding(g[t \ {Max(t)}], s[Max(t)])]
           iter == CHOOSE g : folds(g)
           step == [p \in (1..n) \X V |-> Adding(p[2], s[p[1]])]
           A == [k \in 0..n |-> iter[1..k]]
<1>1. /\ n \in Nat /\ DOMAIN nodes = 1..n /\ DOMAIN s = 1..n
      /\ \A i \in 1..n : nodes[i] \in ForwardElements(trees) /\ s[i] = i
  OBVIOUS
<1>2. EncodeNodes(within, acc, nodes, parent, depth) = iter[1..n]
  <2>1. EncodeNodes(within, acc, nodes, parent, depth) =
          (CHOOSE g : g = [t \in SUBSET DOMAIN s |->
                             IF t = {} THEN acc ELSE Adding(g[t \ {Max(t)}], s[Max(t)])])[DOMAIN s]
    BY Zenon DEF EncodeNodes, FoldLeft, MapThenFoldSet
  <2> HIDE DEF s, Adding
  <2> QED
    BY <1>1, <2>1
<1>3. acc \in V
  OBVIOUS
<1>4. \A a \in V, i \in 1..n : Adding(a, i) \in V
  <2> SUFFICES ASSUME NEW a \in V, NEW i \in 1..n PROVE Adding(a, i) \in V
    OBVIOUS
  <2> DEFINE row == NodeRow(a, nodes[i], parent, i - 1, depth)
  <2>1. Fresh(a) /\ parent < a.next /\ i - 1 \in Nat /\ nodes[i] \in ForwardElements(trees)
    BY <1>1 DEF OpenTo
  <2> HIDE DEF n
  <2>2. Puts(a, Adding(a, i), parent, "nodes", row)
    BY <2>1, NodeIsCoded
  <2> HIDE DEF Adding, row
  <2> QED
    BY <2>2, PutsStays
<1> HIDE DEF n, s, Adding, V
<1>5. step \in [(1..n) \X V -> V]
  BY <1>1, <1>4
<1>6. PICK g \in [SUBSET (1..n) -> V] : FoldsFrom(g, n, acc, step)
  <2>1. n \in 0..n
    BY <1>1
  <2> HIDE DEF step
  <2> QED
    BY <1>1, <1>3, <1>5, <2>1, FoldExists
<1>7. ASSUME NEW t \in SUBSET (1..n), t # {}
      PROVE  step[<<Max(t), g[t \ {Max(t)}]>>] = Adding(g[t \ {Max(t)}], s[Max(t)])
  <2>1. t \subseteq 0..n
    BY <1>1
  <2>2. Max(t) \in t
    BY <1>1, <1>7, <2>1, GreatestElement
  <2>3. Max(t) \in 1..n /\ g[t \ {Max(t)}] \in V
    BY <2>2
  <2> QED
    BY <2>3
<1> HIDE DEF step
<1>8. folds(iter)
  <2>1. g = [t \in SUBSET (1..n) |->
               IF t = {} THEN acc ELSE step[<<Max(t), g[t \ {Max(t)}]>>]]
    BY <1>6 DEF FoldsFrom
  <2>2. folds(g)
    BY <1>7, <2>1
  <2> HIDE DEF folds
  <2> QED
    BY <2>2
<1> HIDE DEF iter
<1>9. iter[{}] = acc
  BY <1>8
<1>10. ASSUME NEW k \in 1..n PROVE iter[1..k] = Adding(iter[1..(k - 1)], k)
  <2>1. k \in Nat /\ k # 0 /\ 1..k \in SUBSET (1..n) /\ s[k] = k
    BY <1>1
  <2>2. iter[1..k] = Adding(iter[(1..k) \ {Max(1..k)}], s[Max(1..k)])
    BY <1>8, <2>1, IntervalTaken, Zenon
  <2>3. Max(1..k) = k /\ (1..k) \ {Max(1..k)} = 1..(k - 1)
    BY <2>1, IntervalTaken
  <2> QED
    BY <2>1, <2>2, <2>3
<1>11. \A k \in 0..n : iter[1..k] \in V
  <2>1. \A k \in 1..n : iter[1..(k - 1)] \in V => iter[1..k] \in V
    BY <1>4, <1>10
  <2>2. iter[{}] \in V
    BY <1>3, <1>9
  <2> QED
    BY <1>1, <2>1, <2>2, FoldStays
<1>12. /\ A[0] = acc /\ A[n] = iter[1..n]
       /\ \A k \in 0..n : A[k] \in V
       /\ \A k \in 1..n : A[k] = Adding(A[k - 1], k)
  <2>1. 0 \in 0..n /\ n \in 0..n /\ 1..0 = {} /\ \A k \in 1..n : k \in 0..n /\ k - 1 \in 0..n
    BY <1>1
  <2>2. A[0] = acc /\ A[n] = iter[1..n]
    BY <1>9, <2>1
  <2>3. \A k \in 1..n : A[k] = iter[1..k] /\ A[k - 1] = iter[1..(k - 1)]
    BY <2>1
  <2> QED
    BY <1>10, <1>11, <2>1, <2>2, <2>3
<1> HIDE DEF A, folds
<1> QED
  BY <1>2, <1>12 DEF V, n, Adding

\* The nodes of a forward hang below it, and are read in their order.
LEMMA NodesAreCoded ==
    ASSUME NEW within, NEW reader, NEW trees, Codes(within, reader, trees),
           NEW nodes \in Seq(ForwardElements(trees)), NEW parent \in Nat,
           NEW acc \in OpenTo(parent), NEW depth \in Nat,
           NEW c, c = EncodeNodes(within, acc, nodes, parent, depth)
    PROVE  /\ Grows(acc, c, parent, {"nodes"})
           /\ \A N : /\ Agrees(N, c.nodes, acc.next, c.next)
                     /\ Hangs(N, c.nodes, acc.next, parent, "nodes")
                     => DecodeForwardNodes(reader, N, parent) = nodes
<1> DEFINE n == Len(nodes)
<1>1. n \in Nat /\ DOMAIN nodes = 1..n /\ \A i \in 1..n : nodes[i] \in ForwardElements(trees)
  OBVIOUS
<1>2. PICK A : /\ A[0] = acc
               /\ A[n] = c
               /\ \A k \in 0..n : A[k] \in OpenTo(parent)
               /\ \A k \in 1..n :
                     A[k] = EncodeForwardNode(within, A[k - 1], nodes[k], parent, k - 1, depth)
  BY NodesAreFolded
<1> HIDE DEF n
<1> DEFINE f == [k \in 1..n |-> NodeRow(A[k - 1], nodes[k], parent, k - 1, depth)]
<1>3. ASSUME NEW k \in 1..n
      PROVE  /\ f[k] = NodeRow(A[k - 1], nodes[k], parent, k - 1, depth)
             /\ f[k] \in NodeRows
             /\ Puts(A[k - 1], A[k], parent, "nodes", f[k])
             /\ \A N : Agrees(N, A[k].nodes, A[k - 1].next, A[k].next)
                         => reader[<<N, f[k].id, "content">>] = nodes[k].content
  <2>1. k - 1 \in 0..n /\ k - 1 \in Nat
    BY <1>1
  <2>2. Fresh(A[k - 1]) /\ parent < A[k - 1].next
    BY <1>2, <2>1 DEF OpenTo
  <2>3. f[k] = NodeRow(A[k - 1], nodes[k], parent, k - 1, depth)
    OBVIOUS
  <2> HIDE DEF f
  <2>4. A[k] = EncodeForwardNode(within, A[k - 1], nodes[k], parent, k - 1, depth)
    BY <1>2
  <2> QED
    BY <1>1, <2>1, <2>2, <2>3, <2>4, NodeIsCoded
<1>4. f \in [1..n -> NodeRows]
  <2>1. f = [k \in 1..n |-> f[k]]
    OBVIOUS
  <2> HIDE DEF f
  <2> QED
    BY <1>3, <2>1
<1> HIDE DEF f
<1>5. /\ Fresh(A[0]) /\ parent < A[0].next /\ Fresh(A[n])
  <2>1. 0 \in 0..n /\ n \in 0..n
    BY <1>1
  <2> QED
    BY <1>2, <2>1 DEF OpenTo
<1>6. Chained(A, f, n, parent, "nodes")
  BY <1>3 DEF Chained
<1>7. Listed(A, f, n, parent, "nodes")
  <2>1. n \in 0..n
    BY <1>1
  <2> QED
    BY <1>1, <1>5, <1>6, <2>1, AllListed
<1>8. ASSUME NEW k \in 1..n
      PROVE  /\ f[k].position = k - 1
             /\ f[k].who = [user |-> nodes[k].sender, depth |-> nodes[k].depth]
  <2>1. f[k] = NodeRow(A[k - 1], nodes[k], parent, k - 1, depth)
    BY <1>3
  <2> QED
    BY <2>1 DEF NodeRow, RowOf, Payload
<1>9. ASSUME NEW N, Agrees(N, c.nodes, acc.next, c.next),
             Hangs(N, c.nodes, acc.next, parent, "nodes")
      PROVE  DecodeForwardNodes(reader, N, parent) = nodes
  <2>1. Related(N, parent, "nodes") = f
    <3>1. N \in SUBSET NodeRows
      BY <1>9 DEF Agrees
    <3>2. Hangs(N, A[n].nodes, A[0].next, parent, "nodes")
      BY <1>2, <1>9
    <3>3. Placed(f, n)
      BY <1>4, <1>8 DEF Placed
    <3> QED
      BY <1>1, <1>5, <1>7, <3>1, <3>2, <3>3, ListedAreRead
  <2>2. ASSUME NEW k \in 1..n
        PROVE  [sender |-> f[k].who.user, depth |-> f[k].who.depth,
                content |-> reader[<<N, f[k].id, "content">>]] = nodes[k]
    <3>1. Agrees(N, A[k].nodes, A[k - 1].next, A[k].next)
      BY <1>2, <1>7, <1>9 DEF Listed
    <3>2. reader[<<N, f[k].id, "content">>] = nodes[k].content
      BY <1>3, <3>1
    <3>3. f[k].who.user = nodes[k].sender /\ f[k].who.depth = nodes[k].depth
      <4>1. f[k].who = [user |-> nodes[k].sender, depth |-> nodes[k].depth]
        BY <1>8
      <4> QED
        BY <4>1
    <3>4. nodes[k] = [sender |-> nodes[k].sender, depth |-> nodes[k].depth,
                       content |-> nodes[k].content]
      BY <1>1 DEF ForwardElements
    <3> QED
      BY <3>2, <3>3, <3>4
  <2>3. DOMAIN f = 1..n
    BY <1>4
  <2>4. DecodeForwardNodes(reader, N, parent) =
          [i \in 1..n |-> [sender |-> f[i].who.user, depth |-> f[i].who.depth,
                           content |-> reader[<<N, f[i].id, "content">>]]]
    BY <2>1, <2>3 DEF DecodeForwardNodes
  <2>5. nodes = [i \in 1..n |-> nodes[i]]
    BY <1>1
  <2> QED
    BY <2>2, <2>4, <2>5
<1> QED
  BY <1>2, <1>7, <1>9 DEF Listed

\* Nothing hangs below a new row but what is written after it.
LEMMA ChildrenAreLater ==
    ASSUME NEW acc, NEW parent, NEW relation, NEW row, Stands(acc, parent, relation, row),
           NEW c, NEW R, Grows(WithRow(acc, row), c, row.id, R),
           NEW m \in c.nodes, m.parent = row.id
    PROVE  acc.next + 1 <= m.id
<1> DEFINE this == WithRow(acc, row)
<1>1. /\ Fresh(acc) /\ parent \in Nat /\ parent < acc.next /\ row \in NodeRows
      /\ row.id = acc.next /\ row.parent = parent
  BY DEF Stands
<1>2. Fresh(this) /\ this.next = acc.next + 1
  BY <1>1, RowIsFresh
<1>3. this.nodes = acc.nodes \cup {row}
  BY DEF WithRow
<1>4. Fresh(c) /\ \A r \in c.nodes : r.id < this.next => r \in this.nodes
  BY <1>2, GrowsKeeps DEF Grows
<1> HIDE DEF this
<1>5. m.id \in Nat /\ acc.next \in Nat
  BY <1>1, <1>4, FreshNumbers
<1>6. CASE m.id < this.next
  <2>1. m = row \/ m \in acc.nodes
    BY <1>3, <1>4, <1>6
  <2>2. ~(acc.next < acc.next) /\ parent # acc.next
    BY <1>1, <1>5
  <2>3. m \in acc.nodes => m.parent < acc.next
    BY <1>1, FreshNumbers
  <2> QED
    BY <1>1, <2>1, <2>2, <2>3
<1> QED
  BY <1>2, <1>5, <1>6

\* The row of a segment stands where it is put, and has what the segment has.
LEMMA SegmentRowStands ==
    ASSUME NEW trees, NEW s \in SegmentsOver(trees), NEW acc, Fresh(acc),
           NEW parent \in Nat, parent < acc.next, NEW relation \in SegmentRelations,
           NEW depth \in Nat, NEW row, row = SegmentRow(acc, s, parent, relation, depth)
    PROVE  /\ Stands(acc, parent, relation, row)
           /\ row \in NodeRows
           /\ row.id = acc.next
           /\ row.kind = s.kind
           /\ row.position = s.position
           /\ row.value = s.value
           /\ row.status = s.status
<1>1. row = [id |-> acc.next, parent |-> parent, relation |-> relation, kind |-> s.kind,
             position |-> s.position, depth |-> depth, value |-> s.value,
             status |-> s.status, who |-> [user |-> "none", depth |-> 0]]
  BY DEF SegmentRow, RowOf, Payload, NoOne
<1>2. /\ s.kind \in {"text", "at", "image", "file", "unknown", "forward", "reply"}
      /\ s.position \in Nat
      /\ s.value \in Seq(Tokens)
      /\ s.status \in {"none", "embedded", "unresolved", "invalid_content", "depth_limit",
                       "node_limit"}
  <2>1. <<>> \in Seq(Tokens)
    OBVIOUS
  <2>2. CASE s \in Leaves
    BY <2>2 DEF Leaves
  <2>3. CASE s \in Forwards(trees)
    BY <2>1, <2>3 DEF Forwards
  <2>4. CASE s \in Replies(trees)
    BY <2>1, <2>4 DEF Replies
  <2> QED
    BY <2>2, <2>3, <2>4 DEF SegmentsOver
<1>3. [user |-> "none", depth |-> 0] \in [user : STRING \cup {"none"}, depth : Nat]
  OBVIOUS
<1>4. acc.next \in Nat /\ relation \in RelationNames
  BY FreshNumbers DEF SegmentRelations, RelationNames
<1>5. row \in NodeRows
  BY <1>1, <1>2, <1>3, <1>4 DEF NodeRows
<1>6. Fits(row)
  BY <1>1, <1>2 DEF Fits, SegmentRelations
<1> QED
  BY <1>1, <1>5, <1>6 DEF Stands

\* _new_node adds a row.
LEMMA NewNodeIs ==
    ASSUME NEW acc, NEW parent, NEW relation, NEW position, NEW payload, NEW depth
    PROVE  NewNode(acc, parent, relation, position, payload, depth)
             = WithRow(acc, RowOf(acc, parent, relation, position, payload, depth))
BY DEF NewNode, WithRow, RowOf

\* A leaf is laid.
LEMMA LeafIsLaid ==
    ASSUME NEW within, NEW reader, NEW s \in Leaves, NEW acc, Fresh(acc),
           NEW parent \in Nat, parent < acc.next, NEW relation \in SegmentRelations,
           NEW depth \in Nat
    PROVE  Laid(within, reader, acc, s, parent, relation, depth)
<1> DEFINE row == SegmentRow(acc, s, parent, relation, depth)
           c == EncodeSegment(within, acc, s, parent, relation, depth)
<1>1. s \in SegmentsOver({})
  BY DEF SegmentsOver
<1>2. /\ Stands(acc, parent, relation, row)
      /\ row \in NodeRows
      /\ row.kind = s.kind
      /\ row.position = s.position
      /\ row.value = s.value
      /\ row.status = s.status
  BY <1>1, SegmentRowStands
<1>3. s.kind \notin {"reply", "forward"}
  BY DEF Leaves
<1>4. c = WithRow(acc, row)
  BY <1>3, NewNodeIs DEF EncodeSegment, SegmentRow
<1>5. s = [kind |-> s.kind, position |-> s.position, value |-> s.value, status |-> s.status,
           content |-> <<>>, nodes |-> <<>>, resolved |-> <<>>]
  BY DEF Leaves
<1> HIDE DEF row, c
<1>6. Puts(acc, c, parent, relation, row)
  BY <1>2, <1>4, BareIsLaid
<1>7. ASSUME NEW N PROVE DecodeSegment(reader, N, row) = s
  BY <1>2, <1>3, <1>5 DEF DecodeSegment
<1> QED
  BY <1>2, <1>6, <1>7 DEF Laid, row, c

\* Where no row is found none is read.
LEMMA NoneFound ==
    ASSUME NEW N, NEW parent, NEW relation,
           \A r \in N : ~(r.parent = parent /\ r.relation = relation)
    PROVE  Related(N, parent, relation) = <<>>
<1> DEFINE found == {r \in N : r.parent = parent /\ r.relation = relation}
           f == [i \in 1..0 |-> 0]
<1>1. f \in [1..0 -> NodeRows] /\ \A i \in 1..0 : f[i].position = i - 1
  OBVIOUS
<1>2. found = {f[i] : i \in 1..0}
  OBVIOUS
<1>3. f = <<>>
  OBVIOUS
<1> HIDE DEF found, f
<1>4. Siblings(found) = f
  BY <1>1, <1>2, SiblingsInOrder
<1> QED
  BY <1>3, <1>4 DEF Related, found

\* Where one row is found, that one is read.
LEMMA OneFound ==
    ASSUME NEW N, NEW parent, NEW relation, NEW row \in NodeRows, row.position = 0,
           row \in N, row.parent = parent, row.relation = relation,
           \A r \in N : r.parent = parent /\ r.relation = relation => r = row
    PROVE  Related(N, parent, relation) = <<row>>
<1> DEFINE found == {r \in N : r.parent = parent /\ r.relation = relation}
           f == [i \in 1..1 |-> row]
<1>1. f \in [1..1 -> NodeRows] /\ \A i \in 1..1 : f[i].position = i - 1
  OBVIOUS
<1>2. found = {f[i] : i \in 1..1}
  <2>1. 1 \in 1..1 /\ f[1] = row
    OBVIOUS
  <2> QED
    BY <2>1
<1>3. f = <<row>>
  OBVIOUS
<1> HIDE DEF found, f
<1>4. Siblings(found) = f
  BY <1>1, <1>2, SiblingsInOrder
<1> QED
  BY <1>3, <1>4 DEF Related, found

\* A reply that quotes nothing is laid.
LEMMA BareReplyIsLaid ==
    ASSUME NEW within, NEW reader, NEW trees, NEW s \in Replies(trees), s.resolved = <<>>,
           NEW acc, Fresh(acc), NEW parent \in Nat, parent < acc.next,
           NEW relation \in SegmentRelations, NEW depth \in Nat
    PROVE  Laid(within, reader, acc, s, parent, relation, depth)
<1> DEFINE row == SegmentRow(acc, s, parent, relation, depth)
           c == EncodeSegment(within, acc, s, parent, relation, depth)
<1>1. s \in SegmentsOver(trees)
  BY DEF SegmentsOver
<1>2. /\ Stands(acc, parent, relation, row)
      /\ row \in NodeRows
      /\ row.kind = s.kind
      /\ row.position = s.position
      /\ row.value = s.value
      /\ row.status = s.status
  BY <1>1, SegmentRowStands
<1>3. s.kind = "reply"
  BY DEF Replies
<1>4. c = WithRow(acc, row)
  BY <1>3, NewNodeIs DEF EncodeSegment, SegmentRow
<1>5. s = [kind |-> s.kind, position |-> s.position, value |-> s.value, status |-> s.status,
           content |-> <<>>, nodes |-> <<>>, resolved |-> <<>>]
  BY DEF Replies
<1> HIDE DEF row, c
<1>6. /\ Puts(acc, c, parent, relation, row)
      /\ \A N : Agrees(N, c.nodes, acc.next, c.next) => \A r \in N : r.parent # row.id
  BY <1>2, <1>4, BareIsLaid
<1>7. ASSUME NEW N, Agrees(N, c.nodes, acc.next, c.next) PROVE DecodeSegment(reader, N, row) = s
  <2>1. Related(N, row.id, "resolved_message") = <<>>
    BY <1>6, <1>7, NoneFound
  <2>2. DecodeResolved(reader, N, row.id) = <<>>
    BY <2>1 DEF DecodeResolved
  <2> QED
    BY <1>2, <1>3, <1>5, <2>2 DEF DecodeSegment
<1> QED
  BY <1>2, <1>6, <1>7 DEF Laid, row, c

QuotedRow(acc, quoted, parent, depth) ==
    RowOf(acc, parent, "resolved_message", 0,
          Payload("resolved_message", <<>>, "none", [user |-> quoted.author, depth |-> 0]),
          depth)

\* What a reply quotes is coded.
LEMMA QuotedIsCoded ==
    ASSUME NEW within, NEW reader, NEW trees, Codes(within, reader, trees),
           NEW quoted \in [author : STRING, segments : trees], NEW acc, Fresh(acc),
           NEW parent \in Nat, parent < acc.next, NEW depth \in Nat,
           NEW row, row = QuotedRow(acc, quoted, parent, depth),
           NEW c, c = EncodeResolved(within, acc, quoted, parent, depth)
    PROVE  /\ row \in NodeRows
           /\ row.position = 0
           /\ row.who.user = quoted.author
           /\ Puts(acc, c, parent, "resolved_message", row)
           /\ \A N : Agrees(N, c.nodes, acc.next, c.next)
                        => reader[<<N, row.id, "segments">>] = quoted.segments
<1>1. /\ row.id = acc.next /\ row.parent = parent /\ row.relation = "resolved_message"
      /\ row.kind = "resolved_message"
      /\ row = [id |-> acc.next, parent |-> parent, relation |-> "resolved_message",
                kind |-> "resolved_message", position |-> 0, depth |-> depth,
                value |-> <<>>, status |-> "none",
                who |-> [user |-> quoted.author, depth |-> 0]]
  BY DEF QuotedRow, RowOf, Payload
<1>2. row \in NodeRows
  <2>1. quoted.author \in STRING /\ acc.next \in Nat
    BY FreshNumbers
  <2>2. [user |-> quoted.author, depth |-> 0] \in [user : STRING \cup {"none"}, depth : Nat]
    BY <2>1
  <2>3. <<>> \in Seq(Tokens)
    OBVIOUS
  <2> QED
    BY <1>1, <2>1, <2>2, <2>3 DEF NodeRows, RelationNames
<1>3. Stands(acc, parent, "resolved_message", row)
  BY <1>1, <1>2 DEF Stands, Fits
<1>4. "segments" \in SegmentRelations /\ "segments" \in Relations(row.kind)
  BY <1>1 DEF SegmentRelations, Relations
<1>5. quoted.segments \in trees /\ depth + 1 \in Nat
  OBVIOUS
<1>6. c = within[<<WithRow(acc, row), quoted.segments, row.id, "segments", depth + 1>>]
  BY <1>1 DEF EncodeResolved, NewNode, WithRow, Payload
<1>7. /\ Puts(acc, c, parent, "resolved_message", row)
      /\ \A N : Agrees(N, c.nodes, acc.next, c.next)
                   => reader[<<N, row.id, "segments">>] = quoted.segments
  BY <1>3, <1>4, <1>5, <1>6, ChildIsCoded
<1>8. row.position = 0 /\ row.who.user = quoted.author
  BY <1>1
<1> QED
  BY <1>2, <1>7, <1>8

\* A reply quotes one message or none.
LEMMA OneQuoted ==
    ASSUME NEW S, NEW q \in Seq(S), Len(q) <= 1, q # <<>>
    PROVE  q = <<q[1]>> /\ q[1] \in S
<1>1. Len(q) \in Nat /\ Len(q) # 0
  OBVIOUS
<1>2. Len(q) = 1
  BY <1>1
<1> QED
  BY <1>2

\* A reply that quotes a message is laid.
LEMMA ReplyIsLaid ==
    ASSUME NEW within, NEW reader, NEW trees, Codes(within, reader, trees),
           NEW s \in Replies(trees), s.resolved # <<>>,
           NEW acc, Fresh(acc), NEW parent \in Nat, parent < acc.next,
           NEW relation \in SegmentRelations, NEW depth \in Nat
    PROVE  Laid(within, reader, acc, s, parent, relation, depth)
<1> DEFINE row == SegmentRow(acc, s, parent, relation, depth)
           c == EncodeSegment(within, acc, s, parent, relation, depth)
           this == WithRow(acc, row)
           quoted == s.resolved[1]
           held == QuotedRow(this, quoted, row.id, depth + 1)
<1>1. s \in SegmentsOver(trees)
  BY DEF SegmentsOver
<1>2. /\ Stands(acc, parent, relation, row)
      /\ row \in NodeRows
      /\ row.id = acc.next
      /\ row.kind = s.kind
      /\ row.position = s.position
      /\ row.value = s.value
      /\ row.status = s.status
  BY <1>1, SegmentRowStands
<1>3. s.kind = "reply" /\ s.resolved = <<quoted>>
      /\ quoted \in [author : STRING, segments : trees]
  <2>1. s.resolved \in Seq([author : STRING, segments : trees]) /\ Len(s.resolved) <= 1
        /\ s.kind = "reply"
    BY DEF Replies
  <2> QED
    BY <2>1, OneQuoted
<1>4. c = EncodeResolved(within, this, quoted, row.id, depth + 1)
  <2> HIDE DEF quoted
  <2>1. this = NewNode(acc, parent, relation, s.position,
                       Payload(s.kind, s.value, s.status, NoOne), depth)
    BY NewNodeIs DEF SegmentRow
  <2> QED
    BY <1>2, <1>3, <2>1 DEF EncodeSegment, quoted
<1>5. s = [kind |-> s.kind, position |-> s.position, value |-> s.value, status |-> s.status,
           content |-> <<>>, nodes |-> <<>>, resolved |-> s.resolved]
  BY DEF Replies
<1> HIDE DEF row, c, quoted
<1>6. Fresh(this) /\ this.next = acc.next + 1 /\ row.id < this.next /\ row.id \in Nat
      /\ acc.next \in Nat
  <2>1. Fresh(acc) /\ row \in NodeRows /\ row.id = acc.next /\ row.parent < acc.next
    BY <1>2 DEF Stands
  <2> QED
    BY <2>1, RowIsFresh, FreshNumbers
<1> HIDE DEF this
<1>7. /\ held \in NodeRows
      /\ held.position = 0
      /\ held.who.user = quoted.author
      /\ Puts(this, c, row.id, "resolved_message", held)
      /\ \A N : Agrees(N, c.nodes, this.next, c.next)
                   => reader[<<N, held.id, "segments">>] = quoted.segments
  <2>1. depth + 1 \in Nat
    OBVIOUS
  <2> QED
    BY <1>3, <1>4, <1>6, <2>1, QuotedIsCoded
<1> HIDE DEF held
<1>8. Grows(WithRow(acc, row), c, row.id, {"resolved_message"})
  BY <1>7 DEF Puts, this
<1>9. \A m \in c.nodes : m.parent = row.id => m = held
  <2> SUFFICES ASSUME NEW m \in c.nodes, m.parent = row.id PROVE m = held
    OBVIOUS
  <2>1. this.next <= m.id
    BY <1>2, <1>6, <1>8, ChildrenAreLater
  <2> QED
    BY <1>7, <2>1 DEF Puts
<1>10. MayHold(row, {"resolved_message"}, c.nodes)
  BY <1>2, <1>3, <1>9 DEF MayHold, Relations
<1>11. Puts(acc, c, parent, relation, row)
  BY <1>2, <1>8, <1>10, PutsUnder
<1>12. ASSUME NEW N, Agrees(N, c.nodes, acc.next, c.next)
       PROVE  DecodeSegment(reader, N, row) = s
  <2>1. Agrees(N, c.nodes, acc.next + 1, c.next) /\ Children(N, row, c.nodes, acc.next + 1)
    BY <1>2, <1>8, <1>12, AgreesUnder
  <2>2. reader[<<N, held.id, "segments">>] = quoted.segments
    BY <1>6, <1>7, <2>1
  <2>3. /\ held \in c.nodes /\ held.id = this.next /\ held.parent = row.id
        /\ held.relation = "resolved_message"
    BY <1>7 DEF Puts
  <2>4. held \in N
    BY <1>6, <1>7, <2>1, <2>3 DEF Children
  <2>5. \A r \in N : r.parent = row.id => r = held
    <3> SUFFICES ASSUME NEW r \in N, r.parent = row.id PROVE r = held
      OBVIOUS
    <3>1. r \in NodeRows
      BY <2>1 DEF Agrees
    <3>2. r \in c.nodes
      BY <2>1, <3>1 DEF Children
    <3> QED
      BY <1>9, <3>2
  <2>6. Related(N, row.id, "resolved_message") = <<held>>
    BY <1>7, <2>3, <2>4, <2>5, OneFound
  <2>7. DecodeResolved(reader, N, row.id) =
          [i \in 1..1 |-> [author |-> quoted.author, segments |-> quoted.segments]]
    <3>1. DecodeResolved(reader, N, row.id) =
            [i \in 1..1 |-> [author |-> <<held>>[i].who.user,
                             segments |-> reader[<<N, <<held>>[i].id, "segments">>]]]
      BY <2>6 DEF DecodeResolved
    <3>2. \A i \in 1..1 : <<held>>[i] = held
      OBVIOUS
    <3> QED
      BY <1>7, <2>2, <3>1, <3>2
  <2>8. s.resolved = [i \in 1..1 |-> [author |-> quoted.author, segments |-> quoted.segments]]
    <3>1. quoted = [author |-> quoted.author, segments |-> quoted.segments]
      BY <1>3
    <3>2. s.resolved = [i \in 1..1 |-> quoted]
      BY <1>3
    <3> QED
      BY <3>1, <3>2
  <2> QED
    BY <1>2, <1>3, <1>5, <2>7, <2>8 DEF DecodeSegment
<1> QED
  BY <1>2, <1>11, <1>12 DEF Laid, row, c

\* A forward is laid: its own content, then its nodes.
LEMMA ForwardIsLaid ==
    ASSUME NEW within, NEW reader, NEW trees, Codes(within, reader, trees),
           NumberedFrom0(Leaves) \subseteq trees, NEW s \in Forwards(trees),
           NEW acc, Fresh(acc), NEW parent \in Nat, parent < acc.next,
           NEW relation \in SegmentRelations, NEW depth \in Nat
    PROVE  Laid(within, reader, acc, s, parent, relation, depth)
<1> DEFINE row == SegmentRow(acc, s, parent, relation, depth)
           c == EncodeSegment(within, acc, s, parent, relation, depth)
           this == WithRow(acc, row)
           b == within[<<this, s.content, row.id, "content", depth + 1>>]
<1>1. s \in SegmentsOver(trees)
  BY DEF SegmentsOver
<1>2. /\ Stands(acc, parent, relation, row)
      /\ row \in NodeRows
      /\ row.id = acc.next
      /\ row.kind = s.kind
      /\ row.position = s.position
      /\ row.value = s.value
      /\ row.status = s.status
  BY <1>1, SegmentRowStands
<1>3. /\ s.kind = "forward"
      /\ s.content \in trees
      /\ s.nodes \in Seq(ForwardElements(trees))
  BY DEF Forwards, ForwardElements
<1>4. c = EncodeNodes(within, b, s.nodes, row.id, depth + 1)
  <2>1. this = NewNode(acc, parent, relation, s.position,
                       Payload(s.kind, s.value, s.status, NoOne), depth)
    BY NewNodeIs DEF SegmentRow
  <2> QED
    BY <1>2, <1>3, <2>1 DEF EncodeSegment
<1>5. s = [kind |-> s.kind, position |-> s.position, value |-> s.value, status |-> s.status,
           content |-> s.content, nodes |-> s.nodes, resolved |-> <<>>]
  BY DEF Forwards
<1> HIDE DEF row, c
<1>6. Fresh(this) /\ this.next = acc.next + 1 /\ row.id < this.next /\ row.id \in Nat
      /\ acc.next \in Nat /\ this \in Sheets
  <2>1. Fresh(acc) /\ row \in NodeRows /\ row.id = acc.next /\ row.parent < acc.next
    BY <1>2 DEF Stands
  <2> QED
    BY <2>1, RowIsFresh, FreshNumbers DEF Fresh
<1> HIDE DEF this
<1>7. Written(within, reader, this, s.content, row.id, "content", depth + 1)
  <2>1. depth + 1 \in Nat /\ "content" \in SegmentRelations
    BY DEF SegmentRelations
  <2> QED
    BY <1>3, <1>6, <2>1 DEF Codes
<1>8. /\ Grows(this, b, row.id, {"content"})
      /\ \A N : Agrees(N, b.nodes, this.next, b.next)
                /\ Hangs(N, b.nodes, this.next, row.id, "content")
                  => reader[<<N, row.id, "content">>] = s.content
  BY <1>7 DEF Written
<1> HIDE DEF b
<1>9. b \in OpenTo(row.id) /\ Fresh(b) /\ this.next <= b.next /\ b.next \in Nat
  <2>1. Fresh(b) /\ this.next <= b.next
    BY <1>8 DEF Grows
  <2>2. b.next \in Nat
    BY <2>1, FreshNumbers
  <2> QED
    BY <1>6, <2>1, <2>2 DEF OpenTo, Fresh
<1>10. /\ Grows(b, c, row.id, {"nodes"})
       /\ \A N : Agrees(N, c.nodes, b.next, c.next)
                 /\ Hangs(N, c.nodes, b.next, row.id, "nodes")
                   => DecodeForwardNodes(reader, N, row.id) = s.nodes
  <2>1. depth + 1 \in Nat
    OBVIOUS
  <2> QED
    BY <1>3, <1>4, <1>6, <1>9, <2>1, NodesAreCoded
<1>11. Grows(this, c, row.id, {"content"} \cup {"nodes"})
  BY <1>6, <1>8, <1>10, GrowsOn
<1>12. Grows(WithRow(acc, row), c, row.id, {"content"} \cup {"nodes"})
  BY <1>11 DEF this
\* Its children in the order they were written.
<1>13. ASSUME NEW m \in c.nodes, m.parent = row.id
       PROVE  /\ m.id \in Nat /\ this.next <= m.id
              /\ m.id < b.next => m \in b.nodes /\ m.relation = "content"
              /\ ~(m.id < b.next) => m.relation = "nodes"
  <2>1. this.next <= m.id
    BY <1>2, <1>6, <1>12, <1>13, ChildrenAreLater
  <2>2. m.id \in Nat
    BY <1>10, FreshNumbers DEF Grows
  <2>3. CASE m.id < b.next
    <3>1. m \in b.nodes
      BY <1>9, <1>10, <2>3, GrowsKeeps
    <3>2. ~(this.next <= row.id)
      BY <1>6
    <3>3. m.relation = "content"
      BY <1>8, <1>13, <2>1, <3>1, <3>2 DEF Grows
    <3> QED
      BY <2>1, <2>2, <2>3, <3>1, <3>3
  <2>4. CASE ~(m.id < b.next)
    <3>1. b.next <= m.id /\ ~(b.next <= row.id)
      BY <1>6, <1>9, <2>2, <2>4
    <3>2. m.relation = "nodes"
      BY <1>10, <1>13, <3>1 DEF Grows
    <3> QED
      BY <2>1, <2>2, <2>4, <3>2
  <2> QED
    BY <2>3, <2>4
<1>14. MayHold(row, {"content"} \cup {"nodes"}, c.nodes)
  <2>1. \A m \in c.nodes : m.parent = row.id => m.relation # "resolved_message"
    BY <1>13
  <2> QED
    BY <1>2, <1>3, <2>1 DEF MayHold, Relations
<1>15. Puts(acc, c, parent, relation, row)
  BY <1>2, <1>12, <1>14, PutsUnder
<1>16. ASSUME NEW N, Agrees(N, c.nodes, acc.next, c.next)
       PROVE  DecodeSegment(reader, N, row) = s
  <2>1. Agrees(N, c.nodes, acc.next + 1, c.next) /\ Children(N, row, c.nodes, acc.next + 1)
    BY <1>2, <1>12, <1>16, AgreesUnder
  <2>2. Agrees(N, b.nodes, this.next, b.next) /\ Agrees(N, c.nodes, b.next, c.next)
    <3>1. Agrees(N, c.nodes, this.next, c.next)
      BY <1>6, <2>1
    <3> QED
      BY <1>6, <1>8, <1>10, <3>1, AgreesWithBoth
  <2>3. b.nodes \subseteq c.nodes
    BY <1>9, <1>10, GrowsKeeps
  <2>4. \A r \in b.nodes : r.id \in Nat /\ r.id < b.next
    BY <1>9, FreshNumbers
  <2>5. Hangs(N, b.nodes, this.next, row.id, "content")
    <3> SUFFICES ASSUME NEW r \in NodeRows, r.parent = row.id, r.relation = "content"
                 PROVE  r \in N <=> r \in b.nodes /\ this.next <= r.id
      BY DEF Hangs
    <3>1. r \in N <=> r \in c.nodes /\ this.next <= r.id
      BY <1>6, <2>1 DEF Children
    <3> QED
      BY <1>13, <2>3, <3>1
  <2>6. Hangs(N, c.nodes, b.next, row.id, "nodes")
    <3> SUFFICES ASSUME NEW r \in NodeRows, r.parent = row.id, r.relation = "nodes"
                 PROVE  r \in N <=> r \in c.nodes /\ b.next <= r.id
      BY DEF Hangs
    <3>1. r \in N <=> r \in c.nodes /\ this.next <= r.id
      BY <1>6, <2>1 DEF Children
    <3>2. r \in c.nodes => r.id \in Nat /\ ~(r.id < b.next) /\ this.next <= r.id
      BY <1>13
    <3> QED
      BY <1>9, <3>1, <3>2
  <2>7. /\ reader[<<N, row.id, "content">>] = s.content
        /\ DecodeForwardNodes(reader, N, row.id) = s.nodes
    BY <1>8, <1>10, <2>2, <2>5, <2>6
  <2> QED
    BY <1>2, <1>3, <1>5, <2>7 DEF DecodeSegment
<1> QED
  BY <1>2, <1>15, <1>16 DEF Laid, row, c

\* So every segment is laid, if what is within it is coded.
LEMMA SegmentsAreLaid ==
    ASSUME NEW within, NEW reader, NEW trees, Codes(within, reader, trees),
           NumberedFrom0(Leaves) \subseteq trees, NEW s \in SegmentsOver(trees)
    PROVE  Lays(within, reader, s)
<1> SUFFICES ASSUME NEW acc \in Sheets, NEW parent \in Nat, NEW relation \in SegmentRelations,
                    NEW depth \in Nat, Fresh(acc), parent < acc.next
             PROVE  Laid(within, reader, acc, s, parent, relation, depth)
  BY DEF Lays
<1>1. CASE s \in Leaves
  BY <1>1, LeafIsLaid
<1>2. CASE s \in Forwards(trees)
  BY <1>2, ForwardIsLaid
<1>3. CASE s \in Replies(trees) /\ s.resolved = <<>>
  BY <1>3, BareReplyIsLaid
<1>4. CASE s \in Replies(trees) /\ s.resolved # <<>>
  BY <1>4, ReplyIsLaid
<1> QED
  BY <1>1, <1>2, <1>3, <1>4 DEF SegmentsOver

\* Leaves are laid by any level.
LEMMA LeavesAreLaid ==
    ASSUME NEW within, NEW reader, NEW s \in Leaves
    PROVE  Lays(within, reader, s)
BY LeafIsLaid DEF Lays

AllLaid(within, reader, S) == \A s \in S : Lays(within, reader, s)

\* The steps of a fold, for folding the segments of a tree.
LEMMA SegmentsAreFolded ==
    ASSUME NEW within, NEW reader, NEW S, AllLaid(within, reader, S),
           NEW tree \in Seq(S), NEW parent \in Nat, NEW acc \in OpenTo(parent),
           NEW relation \in SegmentRelations, NEW depth \in Nat
    PROVE  \E A : /\ A[0] = acc
                  /\ A[Len(tree)] = EncodeAll(within, acc, tree, parent, relation, depth)
                  /\ \A k \in 0..Len(tree) : A[k] \in OpenTo(parent)
                  /\ \A k \in 1..Len(tree) :
                        A[k] = EncodeSegment(within, A[k - 1], tree[k], parent, relation, depth)
<1> DEFINE V == OpenTo(parent)
           n == Len(tree)
           Adding(a, s) == EncodeSegment(within, a, s, parent, relation, depth)
           folds(g) == g = [t \in SUBSET (1..n) |->
                              IF t = {} THEN acc ELSE Adding(g[t \ {Max(t)}], tree[Max(t)])]
           iter == CHOOSE g : folds(g)
           step == [p \in (1..n) \X V |-> Adding(p[2], tree[p[1]])]
           A == [k \in 0..n |-> iter[1..k]]
<1>1. n \in Nat /\ DOMAIN tree = 1..n /\ \A i \in 1..n : tree[i] \in S
  OBVIOUS
<1>2. EncodeAll(within, acc, tree, parent, relation, depth) = iter[1..n]
  <2>1. EncodeAll(within, acc, tree, parent, relation, depth) =
          (CHOOSE g : g = [t \in SUBSET DOMAIN tree |->
                             IF t = {} THEN acc ELSE Adding(g[t \ {Max(t)}], tree[Max(t)])])
             [DOMAIN tree]
    BY Zenon DEF EncodeAll, FoldLeft, MapThenFoldSet
  <2> HIDE DEF Adding
  <2> QED
    BY <1>1, <2>1
<1>3. acc \in V
  OBVIOUS
<1>4. \A a \in V, i \in 1..n : Adding(a, tree[i]) \in V
  <2> SUFFICES ASSUME NEW a \in V, NEW i \in 1..n PROVE Adding(a, tree[i]) \in V
    OBVIOUS
  <2>1. a \in Sheets /\ Fresh(a) /\ parent < a.next /\ Lays(within, reader, tree[i])
    BY <1>1 DEF OpenTo, AllLaid
  <2>2. Laid(within, reader, a, tree[i], parent, relation, depth)
    BY <2>1 DEF Lays
  <2>3. Puts(a, Adding(a, tree[i]), parent, relation,
             SegmentRow(a, tree[i], parent, relation, depth))
    BY <2>2 DEF Laid
  <2> HIDE DEF Adding
  <2> QED
    BY <2>3, PutsStays
<1> HIDE DEF n, Adding, V
<1>5. step \in [(1..n) \X V -> V]
  BY <1>1, <1>4
<1>6. PICK g \in [SUBSET (1..n) -> V] : FoldsFrom(g, n, acc, step)
  <2>1. n \in 0..n
    BY <1>1
  <2> HIDE DEF step
  <2> QED
    BY <1>1, <1>3, <1>5, <2>1, FoldExists
<1>7. ASSUME NEW t \in SUBSET (1..n), t # {}
      PROVE  step[<<Max(t), g[t \ {Max(t)}]>>] = Adding(g[t \ {Max(t)}], tree[Max(t)])
  <2>1. t \subseteq 0..n
    BY <1>1
  <2>2. Max(t) \in t
    BY <1>1, <1>7, <2>1, GreatestElement
  <2>3. Max(t) \in 1..n /\ g[t \ {Max(t)}] \in V
    BY <2>2
  <2> QED
    BY <2>3
<1> HIDE DEF step
<1>8. folds(iter)
  <2>1. g = [t \in SUBSET (1..n) |->
               IF t = {} THEN acc ELSE step[<<Max(t), g[t \ {Max(t)}]>>]]
    BY <1>6 DEF FoldsFrom
  <2>2. folds(g)
    BY <1>7, <2>1
  <2> HIDE DEF folds
  <2> QED
    BY <2>2
<1> HIDE DEF iter
<1>9. iter[{}] = acc
  BY <1>8
<1>10. ASSUME NEW k \in 1..n PROVE iter[1..k] = Adding(iter[1..(k - 1)], tree[k])
  <2>1. k \in Nat /\ k # 0 /\ 1..k \in SUBSET (1..n)
    BY <1>1
  <2>2. iter[1..k] = Adding(iter[(1..k) \ {Max(1..k)}], tree[Max(1..k)])
    BY <1>8, <2>1, IntervalTaken, Zenon
  <2>3. Max(1..k) = k /\ (1..k) \ {Max(1..k)} = 1..(k - 1)
    BY <2>1, IntervalTaken
  <2> QED
    BY <2>2, <2>3
<1>11. \A k \in 0..n : iter[1..k] \in V
  <2>1. \A k \in 1..n : iter[1..(k - 1)] \in V => iter[1..k] \in V
    BY <1>4, <1>10
  <2>2. iter[{}] \in V
    BY <1>3, <1>9
  <2> QED
    BY <1>1, <2>1, <2>2, FoldStays
<1>12. /\ A[0] = acc /\ A[n] = iter[1..n]
       /\ \A k \in 0..n : A[k] \in V
       /\ \A k \in 1..n : A[k] = Adding(A[k - 1], tree[k])
  <2>1. 0 \in 0..n /\ n \in 0..n /\ 1..0 = {} /\ \A k \in 1..n : k \in 0..n /\ k - 1 \in 0..n
    BY <1>1
  <2>2. A[0] = acc /\ A[n] = iter[1..n]
    BY <1>9, <2>1
  <2>3. \A k \in 1..n : A[k] = iter[1..k] /\ A[k - 1] = iter[1..(k - 1)]
    BY <2>1
  <2> QED
    BY <1>10, <1>11, <2>1, <2>2, <2>3
<1> HIDE DEF A, folds
<1> QED
  BY <1>2, <1>12 DEF V, n, Adding

\* A tree hangs below its parent, and is read segment for segment.
LEMMA TreeIsCoded ==
    ASSUME NEW within, NEW reader, NEW S, AllLaid(within, reader, S),
           NEW tree \in NumberedFrom0(S), NEW parent \in Nat, NEW acc \in OpenTo(parent),
           NEW relation \in SegmentRelations, NEW depth \in Nat,
           NEW c, c = EncodeAll(within, acc, tree, parent, relation, depth)
    PROVE  /\ Grows(acc, c, parent, {relation})
           /\ \A N : Agrees(N, c.nodes, acc.next, c.next)
                     /\ Hangs(N, c.nodes, acc.next, parent, relation)
                        => DecodeSegments(reader, N, parent, relation) = tree
<1> DEFINE n == Len(tree)
<1>1. /\ n \in Nat /\ DOMAIN tree = 1..n /\ tree \in Seq(S)
      /\ \A i \in 1..n : tree[i] \in S /\ tree[i].position = i - 1
  BY DEF NumberedFrom0
<1>2. PICK A : /\ A[0] = acc
               /\ A[n] = c
               /\ \A k \in 0..n : A[k] \in OpenTo(parent)
               /\ \A k \in 1..n :
                     A[k] = EncodeSegment(within, A[k - 1], tree[k], parent, relation, depth)
  <2>1. tree \in Seq(S)
    BY <1>1
  <2> HIDE DEF n
  <2> QED
    BY <2>1, SegmentsAreFolded DEF n
<1> HIDE DEF n
<1> DEFINE f == [k \in 1..n |-> SegmentRow(A[k - 1], tree[k], parent, relation, depth)]
<1>3. ASSUME NEW k \in 1..n
      PROVE  /\ f[k] = SegmentRow(A[k - 1], tree[k], parent, relation, depth)
             /\ f[k] \in NodeRows
             /\ Puts(A[k - 1], A[k], parent, relation, f[k])
             /\ \A N : Agrees(N, A[k].nodes, A[k - 1].next, A[k].next)
                         => DecodeSegment(reader, N, f[k]) = tree[k]
  <2>1. k - 1 \in 0..n
    BY <1>1
  <2>2. A[k - 1] \in Sheets /\ Fresh(A[k - 1]) /\ parent < A[k - 1].next
    BY <1>2, <2>1 DEF OpenTo
  <2>3. f[k] = SegmentRow(A[k - 1], tree[k], parent, relation, depth)
    OBVIOUS
  <2> HIDE DEF f
  <2>4. A[k] = EncodeSegment(within, A[k - 1], tree[k], parent, relation, depth)
    BY <1>2
  <2>5. Laid(within, reader, A[k - 1], tree[k], parent, relation, depth)
    BY <1>1, <2>2 DEF Lays, AllLaid
  <2> QED
    BY <2>3, <2>4, <2>5 DEF Laid
<1>4. f \in [1..n -> NodeRows]
  <2>1. f = [k \in 1..n |-> f[k]]
    OBVIOUS
  <2> HIDE DEF f
  <2> QED
    BY <1>3, <2>1
<1> HIDE DEF f
<1>5. Fresh(A[0]) /\ parent < A[0].next /\ Fresh(A[n])
  <2>1. 0 \in 0..n /\ n \in 0..n
    BY <1>1
  <2> QED
    BY <1>2, <2>1 DEF OpenTo
<1>6. Chained(A, f, n, parent, relation)
  BY <1>3 DEF Chained
<1>7. Listed(A, f, n, parent, relation)
  <2>1. n \in 0..n
    BY <1>1
  <2> QED
    BY <1>1, <1>5, <1>6, <2>1, AllListed
<1>8. Placed(f, n)
  <2> SUFFICES ASSUME NEW k \in 1..n PROVE f[k].position = k - 1
    BY <1>4 DEF Placed
  <2>1. f[k] = SegmentRow(A[k - 1], tree[k], parent, relation, depth)
    BY <1>3
  <2>2. f[k].position = tree[k].position
    BY <2>1 DEF SegmentRow, RowOf
  <2> QED
    BY <1>1, <2>2
<1>9. ASSUME NEW N, Agrees(N, c.nodes, acc.next, c.next),
             Hangs(N, c.nodes, acc.next, parent, relation)
      PROVE  DecodeSegments(reader, N, parent, relation) = tree
  <2>1. Related(N, parent, relation) = f
    <3>1. N \in SUBSET NodeRows
      BY <1>9 DEF Agrees
    <3>2. Hangs(N, A[n].nodes, A[0].next, parent, relation)
      BY <1>2, <1>9
    <3> QED
      BY <1>1, <1>5, <1>7, <1>8, <3>1, <3>2, ListedAreRead
  <2>2. ASSUME NEW k \in 1..n PROVE DecodeSegment(reader, N, f[k]) = tree[k]
    <3>1. Agrees(N, A[k].nodes, A[k - 1].next, A[k].next)
      BY <1>2, <1>7, <1>9 DEF Listed
    <3> QED
      BY <1>3, <3>1
  <2>3. DOMAIN f = 1..n
    BY <1>4
  <2>4. DecodeSegments(reader, N, parent, relation) =
          [i \in 1..n |-> DecodeSegment(reader, N, f[i])]
    BY <2>1, <2>3 DEF DecodeSegments
  <2>5. tree = [i \in 1..n |-> tree[i]]
    BY <1>1
  <2> QED
    BY <2>2, <2>4, <2>5
<1> QED
  BY <1>2, <1>7, <1>9 DEF Listed

\* So a level of the codec codes its trees, if it lays their segments.
LEMMA LevelCodes ==
    ASSUME NEW within, NEW reader, NEW S, AllLaid(within, reader, S),
           NEW trees, trees = NumberedFrom0(S)
    PROVE  Codes(EncoderOver(trees, within), DecoderOver(reader), trees)
<1> DEFINE encoder == EncoderOver(trees, within)
           decoder == DecoderOver(reader)
<1> SUFFICES ASSUME NEW acc \in Sheets, NEW tree \in trees, NEW parent \in Nat,
                    NEW relation \in SegmentRelations, NEW depth \in Nat,
                    Fresh(acc), parent < acc.next
             PROVE  Written(encoder, decoder, acc, tree, parent, relation, depth)
  BY DEF Codes
<1> DEFINE c == EncodeAll(within, acc, tree, parent, relation, depth)
<1>1. relation \in RelationNames
  BY DEF SegmentRelations, RelationNames
<1>2. encoder[<<acc, tree, parent, relation, depth>>] = c
  BY <1>1 DEF EncoderOver
<1>3. ASSUME NEW N, N \in SUBSET NodeRows
      PROVE  decoder[<<N, parent, relation>>] = DecodeSegments(reader, N, parent, relation)
  BY <1>1, <1>3 DEF DecoderOver
<1> HIDE DEF encoder, decoder, c
<1>4. /\ Grows(acc, c, parent, {relation})
      /\ \A N : Agrees(N, c.nodes, acc.next, c.next)
                /\ Hangs(N, c.nodes, acc.next, parent, relation)
                   => DecodeSegments(reader, N, parent, relation) = tree
  <2>1. acc \in OpenTo(parent)
    BY DEF OpenTo
  <2> QED
    BY <2>1, TreeIsCoded DEF c
<1>5. ASSUME NEW N, Agrees(N, c.nodes, acc.next, c.next),
             Hangs(N, c.nodes, acc.next, parent, relation)
      PROVE  decoder[<<N, parent, relation>>] = tree
  <2>1. N \in SUBSET NodeRows
    BY <1>5 DEF Agrees
  <2> QED
    BY <1>3, <1>4, <1>5, <2>1
<1> QED
  BY <1>2, <1>4, <1>5 DEF Written

\* The recursion of the trees the codec takes,
LEMMA CodedAre ==
    ASSUME NEW n \in Heights
    PROVE  TreesUpTo[n] = IF n = 0 THEN NumberedFrom0(Leaves) ELSE TreesOver(TreesUpTo[n - 1])
<1> DEFINE m == MaxForwardDepth + 1
           Is(f) == f = [k \in 0..m |->
                           IF k = 0 THEN NumberedFrom0(Leaves) ELSE TreesOver(f[k - 1])]
<1>0. m \in Nat
  BY ParserAssumption
<1>1. PICK f : Levels(f, "coded", m)
  <2> HIDE DEF m
  <2> QED
    BY <1>0, LevelsExist
<1> HIDE DEF m
<1>2. Is(f)
  <2> DEFINE step(k) == IF k = 0 THEN NumberedFrom0(Leaves) ELSE TreesOver(f[k - 1])
  <2>1. ASSUME NEW k \in 0..m PROVE f[k] = step(k)
    <3>1. f[k] = Level("coded", k, IF k = 0 THEN {} ELSE f[k - 1])
      BY <1>1, LevelIs
    <3>2. CASE k = 0
      BY <3>1, <3>2 DEF Level
    <3>3. CASE k # 0
      BY <3>1, <3>3 DEF Level
    <3> QED
      BY <3>2, <3>3
  <2>2. f = [k \in 0..m |-> f[k]]
    BY <1>1 DEF Levels
  <2> HIDE DEF step
  <2>3. f = [k \in 0..m |-> step(k)]
    BY <2>1, <2>2
  <2> QED
    BY <2>3 DEF step
<1>3. Is(TreesUpTo)
  <2>1. TreesUpTo = CHOOSE g : Is(g)
    BY DEF TreesUpTo, Heights, m
  <2> HIDE DEF Is
  <2> QED
    BY <1>2, <2>1
<1>4. n \in 0..m
  BY DEF Heights, m
<1> QED
  BY <1>3, <1>4, Zenon

\* of the encoder,
LEMMA EncoderIs ==
    ASSUME NEW n \in Heights
    PROVE  Encoder[n] = EncoderOver(TreesUpTo[n], IF n = 0 THEN <<>> ELSE Encoder[n - 1])
<1> DEFINE m == MaxForwardDepth + 1
           Is(f) == f = [k \in 0..m |->
                           EncoderOver(TreesUpTo[k], IF k = 0 THEN <<>> ELSE f[k - 1])]
<1>0. m \in Nat
  BY ParserAssumption
<1>1. PICK f : Levels(f, "encoder", m)
  <2> HIDE DEF m
  <2> QED
    BY <1>0, LevelsExist
<1> HIDE DEF m
<1>2. Is(f)
  <2> DEFINE step(k) == EncoderOver(TreesUpTo[k], IF k = 0 THEN <<>> ELSE f[k - 1])
  <2>1. ASSUME NEW k \in 0..m PROVE f[k] = step(k)
    <3>1. f[k] = Level("encoder", k, IF k = 0 THEN {} ELSE f[k - 1])
      BY <1>1, LevelIs
    <3>2. CASE k = 0
      BY <3>1, <3>2 DEF Level
    <3>3. CASE k # 0
      BY <3>1, <3>3 DEF Level
    <3> QED
      BY <3>2, <3>3
  <2>2. f = [k \in 0..m |-> f[k]]
    BY <1>1 DEF Levels
  <2> HIDE DEF step
  <2>3. f = [k \in 0..m |-> step(k)]
    BY <2>1, <2>2
  <2> QED
    BY <2>3 DEF step
<1>3. Is(Encoder)
  <2>1. Encoder = CHOOSE g : Is(g)
    BY DEF Encoder, Heights, m
  <2> HIDE DEF Is
  <2> QED
    BY <1>2, <2>1
<1>4. n \in 0..m
  BY DEF Heights, m
<1> QED
  BY <1>3, <1>4, Zenon

\* and of the decoder.
LEMMA DecoderIs ==
    ASSUME NEW n \in Heights
    PROVE  Decoder[n] = DecoderOver(IF n = 0 THEN <<>> ELSE Decoder[n - 1])
<1> DEFINE m == MaxForwardDepth + 1
           Is(f) == f = [k \in 0..m |-> DecoderOver(IF k = 0 THEN <<>> ELSE f[k - 1])]
<1>0. m \in Nat
  BY ParserAssumption
<1>1. PICK f : Levels(f, "decoder", m)
  <2> HIDE DEF m
  <2> QED
    BY <1>0, LevelsExist
<1> HIDE DEF m
<1>2. Is(f)
  <2> DEFINE step(k) == DecoderOver(IF k = 0 THEN <<>> ELSE f[k - 1])
  <2>1. ASSUME NEW k \in 0..m PROVE f[k] = step(k)
    <3>1. f[k] = Level("decoder", k, IF k = 0 THEN {} ELSE f[k - 1])
      BY <1>1, LevelIs
    <3>2. CASE k = 0
      BY <3>1, <3>2 DEF Level
    <3>3. CASE k # 0
      BY <3>1, <3>3 DEF Level
    <3> QED
      BY <3>2, <3>3
  <2>2. f = [k \in 0..m |-> f[k]]
    BY <1>1 DEF Levels
  <2> HIDE DEF step
  <2>3. f = [k \in 0..m |-> step(k)]
    BY <2>1, <2>2
  <2> QED
    BY <2>3 DEF step
<1>3. Is(Decoder)
  <2>1. Decoder = CHOOSE g : Is(g)
    BY DEF Decoder, Heights, m
  <2> HIDE DEF Is
  <2> QED
    BY <1>2, <2>1
<1>4. n \in 0..m
  BY DEF Heights, m
<1> QED
  BY <1>3, <1>4, Zenon

\* Trees over more trees are more trees.
LEMMA MoreTrees ==
    ASSUME NEW S, NEW T, S \subseteq T
    PROVE  TreesOver(S) \subseteq TreesOver(T) /\ NumberedFrom0(Leaves) \subseteq TreesOver(S)
<1>0. \A A, B : A \subseteq B => Seq(A) \subseteq Seq(B)
  OBVIOUS
<1>1. SegmentsOver(S) \subseteq SegmentsOver(T)
  <2>0. /\ [sender : STRING, depth : Nat, content : S]
             \subseteq [sender : STRING, depth : Nat, content : T]
        /\ [author : STRING, segments : S] \subseteq [author : STRING, segments : T]
    OBVIOUS
  <2>1. Seq([sender : STRING, depth : Nat, content : S])
          \subseteq Seq([sender : STRING, depth : Nat, content : T])
    BY <1>0, <2>0
  <2>2. Forwards(S) \subseteq Forwards(T)
    BY <2>1 DEF Forwards
  <2>3. Seq([author : STRING, segments : S]) \subseteq Seq([author : STRING, segments : T])
    BY <1>0, <2>0
  <2>4. Replies(S) \subseteq Replies(T)
    BY <2>3 DEF Replies
  <2> QED
    BY <2>2, <2>4 DEF SegmentsOver
<1>2. \A A, B : A \subseteq B => NumberedFrom0(A) \subseteq NumberedFrom0(B)
  <2> SUFFICES ASSUME NEW A, NEW B, A \subseteq B
               PROVE  NumberedFrom0(A) \subseteq NumberedFrom0(B)
    OBVIOUS
  <2> QED
    BY <1>0 DEF NumberedFrom0
<1>3. /\ TreesOver(S) = NumberedFrom0(SegmentsOver(S))
      /\ TreesOver(T) = NumberedFrom0(SegmentsOver(T))
  BY DEF TreesOver, SegmentsOver
<1>4. Leaves \subseteq SegmentsOver(S)
  BY DEF SegmentsOver
<1> QED
  BY <1>1, <1>2, <1>3, <1>4

Coded(n) ==
    /\ NumberedFrom0(Leaves) \subseteq TreesUpTo[n]
    /\ Codes(Encoder[n], Decoder[n], TreesUpTo[n])

\* Every height of the codec codes its trees.
LEMMA EveryHeightCodes == \A n \in Heights : Coded(n)
<1> DEFINE Bad == {n \in Heights : ~Coded(n)}
<1>1. SUFFICES ASSUME Bad # {} PROVE FALSE
  OBVIOUS
<1>2. PICK n \in Bad : \A k \in Bad : n <= k
  <2>1. Bad \subseteq Nat
    BY ParserAssumption DEF Heights
  <2> HIDE DEF Bad
  <2> QED
    BY <1>1, <2>1, LeastElement
<1>3. n \in Heights /\ ~Coded(n) /\ n \in Nat
  BY ParserAssumption DEF Heights
<1>4. CASE n = 0
  <2>1. AllLaid(<<>>, <<>>, Leaves)
    BY LeavesAreLaid DEF AllLaid
  <2>2. /\ TreesUpTo[n] = NumberedFrom0(Leaves)
        /\ Encoder[n] = EncoderOver(TreesUpTo[n], <<>>)
        /\ Decoder[n] = DecoderOver(<<>>)
    BY <1>3, <1>4, CodedAre, EncoderIs, DecoderIs
  <2> QED
    BY <1>3, <2>1, <2>2, LevelCodes DEF Coded
<1>5. CASE n # 0
  <2>1. n - 1 \in Heights /\ ~(n <= n - 1)
    BY <1>3, <1>5, ParserAssumption DEF Heights
  <2>2. Coded(n - 1)
    BY <1>2, <2>1
  <2> DEFINE trees == TreesUpTo[n - 1]
             within == Encoder[n - 1]
             reader == Decoder[n - 1]
  <2>3. /\ TreesUpTo[n] = TreesOver(trees)
        /\ Encoder[n] = EncoderOver(TreesUpTo[n], within)
        /\ Decoder[n] = DecoderOver(reader)
    BY <1>3, <1>5, CodedAre, EncoderIs, DecoderIs
  <2>4. NumberedFrom0(Leaves) \subseteq trees /\ Codes(within, reader, trees)
    BY <2>2 DEF Coded
  <2> HIDE DEF trees, within, reader
  <2>5. AllLaid(within, reader, SegmentsOver(trees))
    BY <2>4, SegmentsAreLaid DEF AllLaid
  <2>6. TreesUpTo[n] = NumberedFrom0(SegmentsOver(trees))
    BY <2>3 DEF TreesOver, SegmentsOver
  <2>7. Codes(Encoder[n], Decoder[n], TreesUpTo[n])
    BY <2>3, <2>5, <2>6, LevelCodes
  <2>8. NumberedFrom0(Leaves) \subseteq TreesUpTo[n]
    <3>1. trees \subseteq trees
      OBVIOUS
    <3> QED
      BY <2>3, <3>1, MoreTrees
  <2> QED
    BY <1>3, <2>7, <2>8 DEF Coded
<1> QED
  BY <1>4, <1>5

\* What the parser makes is among them.
LEMMA ParsedAreCoded ==
    \A m \in 0..MaxForwardDepth : ParsedTrees[m] \subseteq TreesUpTo[m + 1]
<1> DEFINE Bad == {n \in 0..MaxForwardDepth : ~(ParsedTrees[n] \subseteq TreesUpTo[n + 1])}
<1>0. MaxForwardDepth \in Nat
  BY ParserAssumption
<1>1. SUFFICES ASSUME Bad # {} PROVE FALSE
  OBVIOUS
<1>2. PICK n \in Bad : \A k \in Bad : n <= k
  <2>1. Bad \subseteq Nat
    OBVIOUS
  <2> HIDE DEF Bad
  <2> QED
    BY <1>1, <2>1, LeastElement
<1>3. n \in 0..MaxForwardDepth /\ n \in Nat /\ ~(ParsedTrees[n] \subseteq TreesUpTo[n + 1])
  OBVIOUS
<1> DEFINE S == IF n = 0 THEN {} ELSE ParsedTrees[n - 1]
<1>4. S \subseteq TreesUpTo[n]
  <2>1. CASE n # 0
    <3>1. n - 1 \in 0..MaxForwardDepth /\ ~(n <= n - 1) /\ (n - 1) + 1 = n
      BY <1>0, <1>3, <2>1
    <3> QED
      BY <1>2, <2>1, <3>1
  <2> QED
    BY <2>1
<1>5. ParsedTrees[n] = TreesOver(S)
  <2> HIDE DEF Bad
  <2> QED
    BY <1>3, TreesAre
<1>6. TreesUpTo[n + 1] = TreesOver(TreesUpTo[n])
  <2>1. n + 1 \in Heights /\ n + 1 # 0 /\ (n + 1) - 1 = n
    BY <1>0, <1>3 DEF Heights
  <2> QED
    BY <2>1, CodedAre
<1> HIDE DEF S
<1> QED
  BY <1>3, <1>4, <1>5, <1>6, MoreTrees

\* What the parser makes decodes from its rows.
LEMMA CodecIsFaithful ==
    ASSUME NEW tree \in ParsedTrees[MaxForwardDepth]
    PROVE  Decodable(Encode(tree)) /\ Decode(Encode(tree)) = tree
<1> DEFINE h == MaxForwardDepth + 1
           acc == [nodes |-> {}, next |-> 1]
           c == Encoder[h][<<acc, tree, 0, "segments", 0>>]
<1>1. tree \in TreesUpTo[h] /\ Codes(Encoder[h], Decoder[h], TreesUpTo[h])
  <2>1. h \in Heights
    BY ParserAssumption DEF Heights
  <2> HIDE DEF h
  <2>2. Codes(Encoder[h], Decoder[h], TreesUpTo[h])
    BY <2>1, EveryHeightCodes DEF Coded
  <2>3. MaxForwardDepth \in 0..MaxForwardDepth
    BY ParserAssumption
  <2> QED
    BY <2>2, <2>3, ParsedAreCoded DEF h
<1>2. Fresh(acc) /\ acc \in Sheets /\ acc.next = 1 /\ acc.nodes = {}
  <2>1. {} \in SUBSET NodeRows /\ 1 \in Nat
    OBVIOUS
  <2> QED
    BY <2>1 DEF Fresh, Sheets
<1>3. Encode(tree) = c.nodes
  BY DEF Encode
<1> HIDE DEF h, acc
<1>4. Written(Encoder[h], Decoder[h], acc, tree, 0, "segments", 0)
  <2>1. "segments" \in SegmentRelations /\ 0 \in Nat /\ 0 < acc.next
    BY <1>2 DEF SegmentRelations
  <2> QED
    BY <1>1, <1>2, <2>1 DEF Codes
<1>5. /\ Grows(acc, c, 0, {"segments"})
      /\ \A N : Agrees(N, c.nodes, acc.next, c.next)
                /\ Hangs(N, c.nodes, acc.next, 0, "segments")
                  => Decoder[h][<<N, 0, "segments">>] = tree
  BY <1>4 DEF Written
<1> HIDE DEF c
<1> DEFINE rws == c.nodes
<1>6. /\ Fresh(c) /\ rws \in SUBSET NodeRows
      /\ \A r \in rws : r.id \in Nat /\ r.parent \in Nat
  <2>1. Fresh(c)
    BY <1>5 DEF Grows
  <2> QED
    BY <2>1, FreshNumbers
<1>7. ASSUME NEW r \in rws
      PROVE  /\ 1 <= r.id /\ Fits(r)
             /\ \/ r.parent = 0 /\ r.relation = "segments"
                \/ 1 <= r.parent /\ Held(rws, r)
  <2>1. r.id \in Nat /\ r \in NodeRows
    BY <1>6
  <2>2. ~(r.id < 1)
    BY <1>2, <1>5, <2>1 DEF Grows
  <2>3. 1 <= r.id
    BY <2>1, <2>2
  <2> QED
    BY <1>2, <1>5, <2>3 DEF Grows
<1>8. Decode(rws) = tree
  <2>1. Agrees(rws, c.nodes, acc.next, c.next)
    BY <1>6 DEF Agrees
  <2>2. Hangs(rws, c.nodes, acc.next, 0, "segments")
    BY <1>2, <1>7 DEF Hangs
  <2>3. Decoder[h][<<rws, 0, "segments">>] = tree
    BY <1>5, <2>1, <2>2
  <2> QED
    BY <2>3 DEF Decode, h
<1>9. ASSUME NEW r \in rws PROVE HoldsWhatItMay(rws, r)
  <2>1. CASE r.parent = 0
    BY <1>7, <2>1 DEF HoldsWhatItMay
  <2>2. CASE r.parent # 0
    BY <1>7, <2>2 DEF HoldsWhatItMay, Held, Fits
  <2> QED
    BY <2>1, <2>2
<1>10. ASSUME NEW m \in rws, NEW n \in rws, m.relation = "resolved_message",
              m.relation = n.relation, m.parent = n.parent
       PROVE  m = n
  <2>1. 1 <= m.parent
    BY <1>7, <1>10
  <2>2. Alone(rws, 1)
    BY <1>2, <1>5 DEF Grows
  <2> QED
    BY <1>10, <2>1, <2>2 DEF Alone
<1>11. Decodable(rws)
  BY <1>9, <1>10 DEF Decodable
<1> QED
  BY <1>3, <1>8, <1>11

(***************************************************************************)
(* What the bot and the script keep.                                       *)
(***************************************************************************)
\* Rows of the current version hold the tree of the body they are a message of.
Kept ==
    \A i \in DOMAIN rows :
        rows[i].version = "current" => rows[i].tree = Encoded[Event(rows[i].raw).body]

\* persist keeps it,
LEMMA InsertKeeps ==
    ASSUME SourcesInv, Kept, NEW raw, NEW version, Insert(raw, version),
           UNCHANGED <<load, receipts>>
    PROVE  Kept'
<1>1. CASE rows' = rows
  BY <1>1 DEF Kept, Event
<1>2. CASE rows' = Append(rows, Row(raw, version))
  <2>1. /\ Row(raw, version).raw = raw
        /\ Row(raw, version).version = version
        /\ version = "current" => Row(raw, version).tree = Encoded[Event(raw).body]
    BY DEF Row
  <2>2. /\ DOMAIN rows' = 1..Len(rows) + 1
        /\ DOMAIN rows = 1..Len(rows)
        /\ Len(rows) \in Nat
        /\ \A i \in DOMAIN rows : rows'[i] = rows[i]
        /\ rows'[Len(rows) + 1] = Row(raw, version)
    BY <1>2, AppendKeeps DEF SourcesInv, HistoryInv, Tables
  <2>3. ASSUME NEW i \in DOMAIN rows', rows'[i].version = "current"
        PROVE  rows'[i].tree = Encoded[Event(rows'[i].raw).body]
    <3>1. i \in DOMAIN rows \/ i = Len(rows) + 1
      BY <2>2
    <3>2. CASE i \in DOMAIN rows
      BY <2>2, <2>3, <3>2 DEF Kept
    <3>3. CASE i = Len(rows) + 1
      BY <2>1, <2>2, <2>3, <3>3
    <3> QED
      BY <3>1, <3>2, <3>3
  <2>4. \A r : Event(r)' = Event(r)
    BY DEF Event
  <2> QED
    BY <2>3, <2>4 DEF Kept, Event
<1> QED
  BY <1>1, <1>2 DEF Insert

\* and so does every other step.
LEMMA StepKeeps == SourcesInv /\ Kept /\ [Next]_vars => Kept'
<1> SUFFICES ASSUME SourcesInv, Kept, [Next]_vars PROVE Kept'
  OBVIOUS
<1>1. CASE UNCHANGED <<load, receipts, rows>>
  BY <1>1 DEF Kept, Event
<1>2. CASE Receive
  <2>1. PICK e \in DOMAIN load.events : receipts' = Append(receipts, e)
    BY <1>2 DEF Receive
  <2>2. rows' = rows /\ load' = load
    BY <1>2 DEF Receive
  <2>3. \A r \in DOMAIN receipts : receipts'[r] = receipts[r]
    BY <2>1, AppendKeeps DEF SourcesInv, HistoryInv, Tables
  <2>4. \A i \in DOMAIN rows : rows[i].raw \in DOMAIN receipts
    BY DEF SourcesInv, Sources
  <2> QED
    BY <2>2, <2>3, <2>4 DEF Kept, Event
<1>3. ASSUME NEW d \in DOMAIN ingest, Store(d) PROVE Kept'
  <2>1. /\ Insert(ingest[d].raw, ingest[d].version)
        /\ UNCHANGED <<load, receipts>>
    BY <1>3 DEF Store
  <2> QED
    BY <2>1, InsertKeeps
<1>4. CASE AppendVersion
  <2>1. Insert(Min(reparse.page), "current") /\ UNCHANGED <<load, receipts>>
    BY <1>4 DEF AppendVersion
  <2> QED
    BY <2>1, InsertKeeps
<1>5. \/ UNCHANGED <<load, receipts, rows>>
      \/ Receive
      \/ \E d \in DOMAIN ingest : Store(d)
      \/ AppendVersion
  <2>1. CASE HistoryStep
    BY <2>1 DEF HistoryStep, Redeliver, Look, Reread, Drop, Upgrade, Script, NextPage, Scan, ScanFails, Abort,
                StartReparse
  <2>2. CASE RequestStep \/ UNCHANGED vars
    <3>1. UNCHANGED historyVars
      BY <2>2 DEF RequestStep, StartRequest, QueryHistory, DescribePicture, EndRequest, vars
    <3> QED
      BY <3>1 DEF historyVars
  <2> QED
    BY <2>1, <2>2 DEF Next
<1> QED
  BY <1>1, <1>2, <1>3, <1>4, <1>5

\* Every stored message decodes to what the parser made.
THEOREM StoredTreesDecode == Spec => []StoredTreeFaithful
<1>1. Init => Kept
  BY DEF Init, HistoryInit, Kept
<1>2. Spec => []Kept
  BY <1>1, StepKeeps, SourcesInvariant, PTL DEF Spec
<1>3. SourcesInv /\ Kept => StoredTreeFaithful
  <2> SUFFICES ASSUME SourcesInv, Kept, NEW i \in StoredRows
               PROVE  /\ Decodable(rows[i].tree)
                      /\ Decode(rows[i].tree) = Segments(BodyOf(i))
    BY DEF StoredTreeFaithful
  <2>1. load \in Loads /\ receipts[rows[i].raw] \in DOMAIN load.events
    BY DEF SourcesInv, HistoryInv, Tables, Sources, StoredRows
  <2>2. BodyOf(i) \in SentBodies
    BY <2>1 DEF BodyOf, Event, SentBodies
  <2>3. rows[i].tree = Encode(Segments(BodyOf(i)))
    <3>1. rows[i].tree = Encoded[BodyOf(i)]
      BY DEF Kept, StoredRows, BodyOf
    <3> QED
      BY <2>2, <3>1, EncodingAssumption DEF EncodedBody
  <2>4. Segments(BodyOf(i)) \in ParsedTrees[MaxForwardDepth]
    BY <2>2, BodyAssumption, BodyIsBounded
  <2> QED
    BY <2>3, <2>4, CodecIsFaithful
<1> QED
  BY <1>2, <1>3, SourcesInvariant, PTL
===============================================================================
