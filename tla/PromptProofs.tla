----------------------------- MODULE PromptProofs -----------------------------
(***************************************************************************)
(* What a prompt shows of a stored message is all of it, or says that it   *)
(* is cut (CutsAreVisible).                                                *)
(*                                                                         *)
(* The words of a rendering are those of its parts, and it says that it is *)
(* cut where a part does.  So the proof goes up the levels of the parser,  *)
(* the renderer and the nesting of bodies together: of a body, the parser  *)
(* spends at most as many messages as it embeds, and what the renderer     *)
(* shows of the tree says that it is cut just if they are fewer, and is    *)
(* else the words of the body, in order (WholeOrCut).                            *)
(* else the words of the body, in order (WholeOrCut).                      *)
EXTENDS TreeProofs

(***************************************************************************)
(* Marks: what a rendering is made of.                                     *)
(***************************************************************************)
MarkKinds == WordKinds \cup {"forward_node", "empty", "quote", "quoted", "forward"}
Marks ==
    [kind : MarkKinds,
     v : STRING \cup {"", "none", "embedded", "unresolved", "invalid_content", "depth_limit",
                      "node_limit", "display_only"}]

\* Words are marks, and so is what stands for an element that is no object.
LEMMA TokensAreMarks == Words \subseteq Tokens /\ Tokens \subseteq Marks
BY DEF Words, Tokens, Marks, MarkKinds

\* Each mark is a word or none.
Picked(m) == IF m.kind \in WordKinds THEN <<m>> ELSE <<>>

\* The words of marks are those of each.
LEMMA PickedAre ==
    ASSUME NEW marks \in Seq(Marks), NEW picks, picks = [i \in DOMAIN marks |-> Picked(marks[i])]
    PROVE  /\ picks \in Seq(Seq(Marks)) /\ Len(picks) = Len(marks) /\ Len(marks) \in Nat
           /\ \A i \in 1..Len(marks) : picks[i] = Picked(marks[i])
           /\ WordsIn(marks) = FlattenSeq(picks)
<1>1. /\ Len(marks) \in Nat /\ DOMAIN marks = 1..Len(marks)
      /\ \A i \in 1..Len(marks) : marks[i] \in Marks
  OBVIOUS
<1>2. \A m \in Marks : Picked(m) \in Seq(Marks)
  BY DEF Picked
<1>3. /\ picks \in [1..Len(marks) -> Seq(Marks)]
      /\ \A i \in 1..Len(marks) : picks[i] = Picked(marks[i])
  BY <1>1, <1>2
<1>4. WordsIn(marks) = FlattenSeq(picks)
  BY DEF WordsIn, Picked
<1> QED
  BY <1>1, <1>3, <1>4, SequenceOf

\* The words of two renderings, one after the other,
LEMMA WordsOfBoth ==
    ASSUME NEW a \in Seq(Marks), NEW b \in Seq(Marks)
    PROVE  /\ WordsIn(a \o b) = WordsIn(a) \o WordsIn(b)
           /\ WordsIn(a) \in Seq(Marks)
<1>1. PICK c : c = a \o b
  OBVIOUS
<1>2. /\ c \in Seq(Marks) /\ Len(c) = Len(a) + Len(b) /\ Len(a) \in Nat /\ Len(b) \in Nat
      /\ \A i \in 1..Len(a) : c[i] = a[i]
      /\ \A i \in 1..Len(b) : c[Len(a) + i] = b[i]
  BY <1>1
<1>3. PICK pa, pb, pc : /\ pa = [i \in DOMAIN a |-> Picked(a[i])]
                        /\ pb = [i \in DOMAIN b |-> Picked(b[i])]
                        /\ pc = [i \in DOMAIN c |-> Picked(c[i])]
  OBVIOUS
<1>4. /\ pa \in Seq(Seq(Marks)) /\ Len(pa) = Len(a) /\ WordsIn(a) = FlattenSeq(pa)
      /\ \A i \in 1..Len(a) : pa[i] = Picked(a[i])
      /\ pb \in Seq(Seq(Marks)) /\ Len(pb) = Len(b) /\ WordsIn(b) = FlattenSeq(pb)
      /\ \A i \in 1..Len(b) : pb[i] = Picked(b[i])
      /\ pc \in Seq(Seq(Marks)) /\ Len(pc) = Len(c) /\ WordsIn(c) = FlattenSeq(pc)
      /\ \A i \in 1..Len(c) : pc[i] = Picked(c[i])
  BY <1>2, <1>3, PickedAre
<1>5. pc = pa \o pb
  <2>1. \A i \in 1..Len(pa) : pc[i] = pa[i]
    <3>1. \A i \in 1..Len(a) : i \in 1..Len(c)
      BY <1>2
    <3> QED
      BY <1>2, <1>4, <3>1
  <2>2. \A i \in 1..Len(pb) : pc[Len(pa) + i] = pb[i]
    <3>1. \A i \in 1..Len(b) : Len(a) + i \in 1..Len(c)
      BY <1>2
    <3> QED
      BY <1>2, <1>4, <3>1
  <2>3. Len(pc) = Len(pa) + Len(pb)
    BY <1>2, <1>4
  <2> QED
    BY <1>4, <2>1, <2>2, <2>3, BothAppended
<1> QED
  BY <1>1, <1>4, <1>5, FlattenOfBoth

\* of none:
LEMMA WordsOfNone == WordsIn(<<>>) = <<>>
<1>1. <<>> \in Seq(Marks) /\ Len(<<>>) = 0
  OBVIOUS
<1>2. PICK picks : picks = [i \in DOMAIN <<>> |-> Picked(<<>>[i])]
  OBVIOUS
<1>3. picks \in Seq(Seq(Marks)) /\ Len(picks) = 0 /\ WordsIn(<<>>) = FlattenSeq(picks)
  BY <1>1, <1>2, PickedAre
<1>4. picks = <<>>
  BY <1>3
<1> QED
  BY <1>3, <1>4, FlattenOfNone

\* one mark has one word or none,
LEMMA WordsOfOne ==
    ASSUME NEW m \in Marks
    PROVE  WordsIn(<<m>>) = IF m.kind \in WordKinds THEN <<m>> ELSE <<>>
<1>1. <<m>> \in Seq(Marks) /\ Len(<<m>>) = 1 /\ <<m>>[1] = m
  OBVIOUS
<1>2. PICK picks : picks = [i \in DOMAIN <<m>> |-> Picked(<<m>>[i])]
  OBVIOUS
<1>3. picks \in Seq(Seq(Marks)) /\ Len(picks) = 1 /\ WordsIn(<<m>>) = FlattenSeq(picks)
      /\ picks[1] = Picked(m)
  <2>1. PICK marks : marks = <<m>>
    OBVIOUS
  <2>2. marks \in Seq(Marks) /\ Len(marks) = 1 /\ marks[1] = m
    BY <1>1, <2>1
  <2>3. picks = [i \in DOMAIN marks |-> Picked(marks[i])]
    BY <1>2, <2>1
  <2>4. /\ picks \in Seq(Seq(Marks)) /\ Len(picks) = Len(marks)
        /\ \A i \in 1..Len(marks) : picks[i] = Picked(marks[i])
        /\ WordsIn(marks) = FlattenSeq(picks)
    BY <2>2, <2>3, PickedAre
  <2> QED
    BY <2>1, <2>2, <2>4
<1>4. picks = <<Picked(m)>> /\ Picked(m) \in Seq(Marks)
  BY <1>3
<1> QED
  BY <1>3, <1>4, FlattenOfOne DEF Picked

\* and words are their own.
LEMMA WordsOfWords ==
    ASSUME NEW s \in Seq(Words)
    PROVE  WordsIn(s) = s
<1>1. s \in Seq(Marks)
  <2>1. Words \subseteq Marks
    BY TokensAreMarks
  <2> QED
    BY <2>1
<1>2. PICK picks, singles : /\ picks = [i \in DOMAIN s |-> Picked(s[i])]
                            /\ singles = [i \in DOMAIN s |-> <<s[i]>>]
  OBVIOUS
<1>3. \A i \in DOMAIN s : Picked(s[i]) = <<s[i]>>
  <2>1. \A i \in DOMAIN s : s[i].kind \in WordKinds
    <3>1. \A i \in DOMAIN s : s[i] \in Words
      OBVIOUS
    <3>2. \A word \in Words : word.kind \in WordKinds
      BY DEF Words
    <3> QED
      BY <3>1, <3>2
  <2> QED
    BY <2>1 DEF Picked
<1>4. picks = singles
  BY <1>2, <1>3
<1>5. WordsIn(s) = FlattenSeq(picks)
  BY <1>1, <1>2, PickedAre
<1> QED
  BY <1>2, <1>4, <1>5, FlattenOfSingles

\* A rendering says that it is cut where one of its parts does.
LEMMA CutOfBoth ==
    ASSUME NEW a \in Seq(Marks), NEW b \in Seq(Marks)
    PROVE  SaysCut(a \o b) <=> SaysCut(a) \/ SaysCut(b)
<1>1. PICK c : c = a \o b
  OBVIOUS
<1>2. /\ DOMAIN c = 1..(Len(a) + Len(b)) /\ Len(a) \in Nat /\ Len(b) \in Nat
      /\ DOMAIN a = 1..Len(a) /\ DOMAIN b = 1..Len(b)
      /\ \A i \in 1..Len(a) : c[i] = a[i]
      /\ \A i \in 1..Len(b) : c[Len(a) + i] = b[i]
  BY <1>1
<1> DEFINE Says(m) == m.kind \in {"forward", "quote"} /\ m.v \in CutMarks
<1>3. /\ SaysCut(a) <=> \E i \in 1..Len(a) : Says(a[i])
      /\ SaysCut(b) <=> \E i \in 1..Len(b) : Says(b[i])
      /\ SaysCut(c) <=> \E i \in 1..(Len(a) + Len(b)) : Says(c[i])
  BY <1>2 DEF SaysCut
<1> HIDE DEF Says
<1>4. ASSUME NEW i \in 1..(Len(a) + Len(b)), Says(c[i])
      PROVE  SaysCut(a) \/ SaysCut(b)
  <2>1. CASE i <= Len(a)
    <3>1. i \in 1..Len(a)
      BY <1>2, <2>1
    <3> QED
      BY <1>2, <1>3, <1>4, <3>1
  <2>2. CASE ~(i <= Len(a))
    <3>1. i - Len(a) \in 1..Len(b) /\ Len(a) + (i - Len(a)) = i
      BY <1>2, <2>2
    <3>2. c[i] = b[i - Len(a)]
      BY <1>2, <3>1
    <3> QED
      BY <1>3, <1>4, <3>1, <3>2
  <2> QED
    BY <2>1, <2>2
<1>5. ASSUME NEW i \in 1..Len(a), Says(a[i]) PROVE SaysCut(c)
  <2>1. i \in 1..(Len(a) + Len(b)) /\ c[i] = a[i]
    BY <1>2
  <2> QED
    BY <1>3, <1>5, <2>1
<1>6. ASSUME NEW i \in 1..Len(b), Says(b[i]) PROVE SaysCut(c)
  <2>1. Len(a) + i \in 1..(Len(a) + Len(b)) /\ c[Len(a) + i] = b[i]
    BY <1>2
  <2> QED
    BY <1>3, <1>6, <2>1
<1> QED
  BY <1>1, <1>3, <1>4, <1>5, <1>6

\* Tokens never say so.
LEMMA CutOfTokens ==
    ASSUME NEW s \in Seq(Tokens)
    PROVE  ~SaysCut(s)
<1>1. \A i \in DOMAIN s : s[i].kind \in WordKinds \cup {"forward_node"}
  <2>1. \A i \in DOMAIN s : s[i] \in Tokens
    OBVIOUS
  <2>2. \A token \in Tokens : token.kind \in WordKinds \cup {"forward_node"}
    BY DEF Tokens
  <2> QED
    BY <2>1, <2>2
<1> QED
  BY <1>1 DEF SaysCut, WordKinds

\* One mark says so itself.
LEMMA CutOfOne ==
    ASSUME NEW m
    PROVE  SaysCut(<<m>>) <=> m.kind \in {"forward", "quote"} /\ m.v \in CutMarks
<1>1. DOMAIN <<m>> = {1} /\ <<m>>[1] = m
  OBVIOUS
<1> QED
  BY <1>1 DEF SaysCut

\* A mark for an empty message is no word, and no cut.
LEMMA EmptyShowsNothing ==
    ASSUME NEW marks \in Seq(Marks)
    PROVE  /\ OrEmpty(marks) \in Seq(Marks)
           /\ WordsIn(OrEmpty(marks)) = WordsIn(marks)
           /\ SaysCut(OrEmpty(marks)) <=> SaysCut(marks)
<1>1. Token("empty", "") \in Marks
  BY DEF Token, Marks, MarkKinds
<1>2. Token("empty", "").kind = "empty"
  BY DEF Token
<1>3. WordsIn(EmptyMessage) = <<>> /\ ~SaysCut(EmptyMessage) /\ EmptyMessage \in Seq(Marks)
  <2>1. Token("empty", "").kind \notin WordKinds
    BY <1>2 DEF WordKinds
  <2>2. WordsIn(EmptyMessage) = <<>>
    BY <1>1, <2>1, WordsOfOne DEF EmptyMessage
  <2>3. ~SaysCut(EmptyMessage)
    BY <1>2, CutOfOne DEF EmptyMessage
  <2>4. \A m \in Marks : <<m>> \in Seq(Marks)
    OBVIOUS
  <2>5. EmptyMessage \in Seq(Marks)
    BY <1>1, <2>4 DEF EmptyMessage
  <2> QED
    BY <2>2, <2>3, <2>5
<1>4. WordsIn(<<>>) = <<>> /\ ~SaysCut(<<>>)
  BY WordsOfNone DEF SaysCut
<1>5. CASE marks = <<>>
  BY <1>3, <1>4, <1>5 DEF OrEmpty
<1>6. CASE marks # <<>>
  BY <1>6 DEF OrEmpty
<1> QED
  BY <1>5, <1>6

(***************************************************************************)
(* What a message says itself.                                             *)
(***************************************************************************)
Values(s) == FlattenSeq([i \in DOMAIN s |-> s[i].value])

\* The values of leaves are sequences of tokens.
LEMMA ValuesAre ==
    ASSUME NEW s \in Seq(Leaves), NEW values, values = [i \in DOMAIN s |-> s[i].value]
    PROVE  /\ values \in Seq(Seq(Tokens)) /\ Len(values) = Len(s) /\ Len(s) \in Nat
           /\ \A i \in 1..Len(s) : values[i] = s[i].value
           /\ Values(s) = FlattenSeq(values)
<1>1. Len(s) \in Nat /\ DOMAIN s = 1..Len(s) /\ \A i \in 1..Len(s) : s[i] \in Leaves
  OBVIOUS
<1>2. \A leaf \in Leaves : leaf.value \in Seq(Tokens)
  BY DEF Leaves
<1>3. values \in [1..Len(s) -> Seq(Tokens)] /\ \A i \in 1..Len(s) : values[i] = s[i].value
  BY <1>1, <1>2
<1> QED
  BY <1>1, <1>3, SequenceOf DEF Values

\* Two messages say what each says,
LEMMA ValuesOfBoth ==
    ASSUME NEW a \in Seq(Leaves), NEW b \in Seq(Leaves)
    PROVE  /\ Values(a \o b) = Values(a) \o Values(b)
           /\ Values(a) \in Seq(Tokens)
<1>1. PICK c : c = a \o b
  OBVIOUS
<1>2. /\ c \in Seq(Leaves) /\ Len(c) = Len(a) + Len(b) /\ Len(a) \in Nat /\ Len(b) \in Nat
      /\ \A i \in 1..Len(a) : c[i] = a[i]
      /\ \A i \in 1..Len(b) : c[Len(a) + i] = b[i]
  BY <1>1
<1>3. PICK va, vb, vc : /\ va = [i \in DOMAIN a |-> a[i].value]
                        /\ vb = [i \in DOMAIN b |-> b[i].value]
                        /\ vc = [i \in DOMAIN c |-> c[i].value]
  OBVIOUS
<1>4. /\ va \in Seq(Seq(Tokens)) /\ Len(va) = Len(a) /\ Values(a) = FlattenSeq(va)
      /\ \A i \in 1..Len(a) : va[i] = a[i].value
      /\ vb \in Seq(Seq(Tokens)) /\ Len(vb) = Len(b) /\ Values(b) = FlattenSeq(vb)
      /\ \A i \in 1..Len(b) : vb[i] = b[i].value
      /\ vc \in Seq(Seq(Tokens)) /\ Len(vc) = Len(c) /\ Values(c) = FlattenSeq(vc)
      /\ \A i \in 1..Len(c) : vc[i] = c[i].value
  BY <1>2, <1>3, ValuesAre
<1>5. vc = va \o vb
  <2>1. \A i \in 1..Len(va) : vc[i] = va[i]
    <3>1. \A i \in 1..Len(a) : i \in 1..Len(c)
      BY <1>2
    <3> QED
      BY <1>2, <1>4, <3>1
  <2>2. \A i \in 1..Len(vb) : vc[Len(va) + i] = vb[i]
    <3>1. SUFFICES ASSUME NEW i \in 1..Len(b) PROVE vc[Len(a) + i] = vb[i]
      BY <1>4
    <3>2. PICK k : k = Len(a) + i
      OBVIOUS
    <3>3. k \in 1..Len(c) /\ c[k] = b[i]
      BY <1>2, <3>2
    <3>4. vc[k] = c[k].value /\ vb[i] = b[i].value
      BY <1>4, <3>3
    <3> QED
      BY <3>2, <3>3, <3>4
  <2>3. Len(vc) = Len(va) + Len(vb)
    BY <1>2, <1>4
  <2> QED
    BY <1>4, <2>1, <2>2, <2>3, BothAppended
<1> QED
  BY <1>1, <1>4, <1>5, FlattenOfBoth

\* nothing says nothing,
LEMMA ValuesOfNone == Values(<<>>) = <<>>
<1>1. <<>> \in Seq(Leaves) /\ Len(<<>>) = 0
  OBVIOUS
<1>2. PICK values : values = [i \in DOMAIN <<>> |-> <<>>[i].value]
  OBVIOUS
<1>3. values \in Seq(Seq(Tokens)) /\ Len(values) = 0 /\ Values(<<>>) = FlattenSeq(values)
  BY <1>1, <1>2, ValuesAre
<1>4. values = <<>>
  BY <1>3
<1> QED
  BY <1>3, <1>4, FlattenOfNone

\* one segment says its value,
LEMMA ValuesOfOne ==
    ASSUME NEW leaf \in Leaves
    PROVE  Values(<<leaf>>) = leaf.value
<1>1. PICK s : s = <<leaf>>
  OBVIOUS
<1>2. s \in Seq(Leaves) /\ Len(s) = 1 /\ s[1] = leaf
  BY <1>1
<1>3. PICK values : values = [i \in DOMAIN s |-> s[i].value]
  OBVIOUS
<1>4. /\ values \in Seq(Seq(Tokens)) /\ Len(values) = Len(s)
      /\ \A i \in 1..Len(s) : values[i] = s[i].value
      /\ Values(s) = FlattenSeq(values)
  BY <1>2, <1>3, ValuesAre
<1>5. values = <<leaf.value>> /\ leaf.value \in Seq(Tokens)
  <2>1. leaf.value \in Seq(Tokens)
    BY DEF Leaves
  <2> QED
    BY <1>2, <1>4, <2>1
<1> QED
  BY <1>1, <1>4, <1>5, FlattenOfOne

\* and many say what each does.
LEMMA ValuesOfAll ==
    ASSUME NEW seqs \in Seq(Seq(Leaves)), NEW values,
           values = [i \in DOMAIN seqs |-> Values(seqs[i])]
    PROVE  Values(FlattenSeq(seqs)) = FlattenSeq(values)
<1>1. PICK g \in [0..Len(seqs) -> Seq(Leaves)] :
        /\ g[0] = <<>>
        /\ \A k \in 1..Len(seqs) : g[k] = g[k - 1] \o seqs[k]
        /\ FlattenSeq(seqs) = g[Len(seqs)]
  BY FlattenSteps
<1> DEFINE h == [k \in 0..Len(seqs) |-> Values(g[k])]
<1>2. /\ Len(seqs) \in Nat /\ DOMAIN seqs = 1..Len(seqs)
      /\ \A i \in 1..Len(seqs) : seqs[i] \in Seq(Leaves)
  OBVIOUS
<1>3. \A s \in Seq(Leaves) : Values(s) \in Seq(Tokens)
  BY ValuesOfBoth
<1>4. /\ values \in [1..Len(seqs) -> Seq(Tokens)]
      /\ \A i \in 1..Len(seqs) : values[i] = Values(seqs[i])
  BY <1>2, <1>3
<1>5. values \in Seq(Seq(Tokens)) /\ Len(values) = Len(seqs)
  BY <1>2, <1>4, SequenceOf
<1>6. h[0] = <<>> /\ h[Len(seqs)] = Values(FlattenSeq(seqs))
  BY <1>1, <1>2, ValuesOfNone
<1>7. ASSUME NEW k \in 1..Len(seqs) PROVE h[k] = h[k - 1] \o values[k]
  <2>1. k \in 0..Len(seqs) /\ k - 1 \in 0..Len(seqs)
    BY <1>2
  <2>2. g[k - 1] \in Seq(Leaves) /\ seqs[k] \in Seq(Leaves) /\ g[k] = g[k - 1] \o seqs[k]
    BY <1>1, <1>2, <2>1
  <2>3. Values(g[k]) = Values(g[k - 1]) \o Values(seqs[k])
    BY <2>2, ValuesOfBoth
  <2> QED
    BY <1>4, <2>1, <2>3
<1> HIDE DEF h
<1> QED
  BY <1>5, <1>6, <1>7, FlattenBySteps

\* A run of text says itself.
LEMMA TextSays ==
    ASSUME NEW run \in Seq(Tokens)
    PROVE  Values(TextOf(run)) = run
<1>1. CASE run = <<>>
  BY <1>1, ValuesOfNone DEF TextOf
<1>2. CASE run # <<>>
  <2>1. Segment("text", run) \in Leaves
    BY SegmentIsLeaf DEF LeafKinds
  <2>2. Values(<<Segment("text", run)>>) = run
    BY <2>1, ValuesOfOne DEF Segment
  <2> QED
    BY <1>2, <2>2 DEF TextOf
<1> QED
  BY <1>1, <1>2

\* What was cut says what there was to cut: with every token one more,
LEMMA TakeTokenSays ==
    ASSUME NEW acc \in Cuts, NEW token \in Tokens, NEW body, NEW new,
           new = TakeToken(acc, token, body)
    PROVE  Values(new.done) \o new.run = (Values(acc.done) \o acc.run) \o <<token>>
<1>1. acc.done \in Seq(Leaves) /\ acc.run \in Seq(Tokens) /\ Values(acc.done) \in Seq(Tokens)
      /\ <<token>> \in Seq(Tokens)
  <2>1. acc.done \in Seq(Leaves) /\ acc.run \in Seq(Tokens) /\ <<token>> \in Seq(Tokens)
    BY DEF Cuts
  <2> QED
    BY <2>1, ValuesOfBoth
<1>2. \A a, b, c \in Seq(Tokens) : a \o (b \o c) = (a \o b) \o c
  OBVIOUS
<1>3. CASE token.kind = "at" /\ token.v \in Range(body.mentions)
  <2>1. Segment("at", <<token>>) \in Leaves /\ Segment("at", <<token>>).value = <<token>>
    <3>1. Segment("at", <<token>>) \in Leaves
      BY <1>1, SegmentIsLeaf DEF LeafKinds
    <3> QED
      BY <3>1 DEF Segment
  <2>2. Values(<<Segment("at", <<token>>)>>) = <<token>>
    BY <2>1, ValuesOfOne
  <2>3. TextOf(acc.run) \in Seq(Leaves) /\ Values(TextOf(acc.run)) = acc.run
    BY <1>1, TextIsLeaves, TextSays
  <2>4. /\ new.done = (acc.done \o TextOf(acc.run)) \o <<Segment("at", <<token>>)>>
        /\ new.run = <<>>
    BY <1>3 DEF TakeToken
  <2>5. PICK both, one : /\ both = acc.done \o TextOf(acc.run)
                         /\ one = <<Segment("at", <<token>>)>>
    OBVIOUS
  <2>6. both \in Seq(Leaves) /\ one \in Seq(Leaves) /\ Values(both) = Values(acc.done) \o acc.run
    <3>1. both \in Seq(Leaves) /\ one \in Seq(Leaves)
      BY <1>1, <2>1, <2>3, <2>5
    <3> QED
      BY <1>1, <2>3, <2>5, <3>1, ValuesOfBoth
  <2>7. Values(new.done) = (Values(acc.done) \o acc.run) \o <<token>>
    BY <2>2, <2>4, <2>5, <2>6, ValuesOfBoth
  <2>8. new.done \in Seq(Leaves) /\ Values(new.done) \in Seq(Tokens)
    <3>1. new.done = both \o one
      BY <2>4, <2>5
    <3>2. new.done \in Seq(Leaves)
      BY <2>6, <3>1
    <3> QED
      BY <3>2, ValuesOfBoth
  <2>9. \A s \in Seq(Tokens) : s \o <<>> = s
    OBVIOUS
  <2> QED
    BY <2>4, <2>7, <2>8, <2>9, Zenon
<1>4. CASE ~(token.kind = "at" /\ token.v \in Range(body.mentions))
  <2>1. new.done = acc.done /\ new.run = Append(acc.run, token)
    BY <1>4 DEF TakeToken, Cuts
  <2>2. Append(acc.run, token) = acc.run \o <<token>>
    BY <1>1
  <2>3. Values(new.done) \o new.run = Values(acc.done) \o (acc.run \o <<token>>)
    BY <2>1, <2>2, Zenon
  <2> QED
    BY <1>1, <1>2, <2>3, Zenon
<1> QED
  BY <1>3, <1>4

\* so all together.
LEMMA CutSays ==
    ASSUME NEW body, body.tokens \in Seq(Tokens)
    PROVE  Values(Cut(body).done) \o Cut(body).run = body.tokens
<1> DEFINE n == Len(body.tokens)
<1>1. PICK A : /\ A[0] = [done |-> <<>>, run |-> <<>>]
              /\ A[n] = Cut(body)
              /\ \A k \in 0..n : A[k] \in Cuts
              /\ \A j \in 1..n : A[j] = TakeToken(A[j - 1], body.tokens[j], body)
  BY CutIsFolded
<1> DEFINE g == [k \in 0..n |-> Values(A[k].done) \o A[k].run]
<1>2. PICK singles : singles = [i \in DOMAIN body.tokens |-> <<body.tokens[i]>>]
  OBVIOUS
<1>3. n \in Nat /\ DOMAIN body.tokens = 1..n /\ \A k \in 1..n : body.tokens[k] \in Tokens
  OBVIOUS
<1>4. /\ singles \in Seq(Seq(Tokens)) /\ Len(singles) = n
      /\ \A k \in 1..n : singles[k] = <<body.tokens[k]>>
  <2>1. singles \in [1..n -> Seq(Tokens)] /\ \A k \in 1..n : singles[k] = <<body.tokens[k]>>
    BY <1>2, <1>3
  <2> HIDE DEF n
  <2> QED
    BY <1>3, <2>1, SequenceOf
<1> HIDE DEF n
<1>5. g[0] = <<>> /\ g[n] = Values(Cut(body).done) \o Cut(body).run
  <2>1. 0 \in 0..n /\ n \in 0..n
    BY <1>3
  <2>2. A[0].done = <<>> /\ A[0].run = <<>>
    BY <1>1
  <2>3. g[0] = Values(<<>>) \o <<>>
    BY <2>1, <2>2
  <2>4. <<>> \o <<>> = <<>>
    OBVIOUS
  <2>5. g[0] = <<>>
    BY <2>3, <2>4, ValuesOfNone
  <2>6. g[n] = Values(A[n].done) \o A[n].run
    BY <2>1
  <2> QED
    BY <1>1, <2>5, <2>6
<1>6. ASSUME NEW k \in 1..n PROVE g[k] = g[k - 1] \o singles[k]
  <2>1. k \in 0..n /\ k - 1 \in 0..n
    BY <1>3
  <2>2. A[k - 1] \in Cuts /\ A[k] = TakeToken(A[k - 1], body.tokens[k], body)
        /\ body.tokens[k] \in Tokens
    BY <1>1, <1>3, <2>1
  <2>3. PICK acc, new, token : acc = A[k - 1] /\ new = A[k] /\ token = body.tokens[k]
    OBVIOUS
  <2>4. Values(new.done) \o new.run = (Values(acc.done) \o acc.run) \o <<token>>
    BY <2>2, <2>3, TakeTokenSays
  <2>5. g[k] = Values(new.done) \o new.run /\ g[k - 1] = Values(acc.done) \o acc.run
    BY <2>1, <2>3
  <2> QED
    BY <1>4, <2>3, <2>4, <2>5
<1> HIDE DEF g
<1>7. FlattenSeq(singles) = g[n]
  BY <1>4, <1>5, <1>6, FlattenBySteps
<1> QED
  BY <1>2, <1>5, <1>7, FlattenOfSingles

\* Mentions without a mark say so.
LEMMA UnmatchedSays ==
    ASSUME NEW body \in BodiesOver(Bodies), NEW said,
           said = [i \in DOMAIN body.mentions |->
                     IF Token("at", body.mentions[i]) \in Range(body.tokens) THEN <<>>
                     ELSE <<Token("mention", body.mentions[i])>>]
    PROVE  /\ Values(Unmatched(body)) = FlattenSeq(said)
           /\ FlattenSeq(said) \in Seq(Words)
<1> DEFINE n == Len(body.mentions)
           known(user) == Token("at", user) \in Range(body.tokens)
           one(user) == IF known(user) THEN <<>>
                        ELSE <<Segment("unknown", <<Token("mention", user)>>)>>
           word(user) == IF known(user) THEN <<>> ELSE <<Token("mention", user)>>
<1>1. n \in Nat /\ DOMAIN body.mentions = 1..n /\ \A i \in 1..n : body.mentions[i] \in STRING
  BY DEF BodiesOver
<1>2. PICK parts : parts = [i \in DOMAIN body.mentions |-> one(body.mentions[i])]
  OBVIOUS
<1>3. said = [i \in DOMAIN body.mentions |-> word(body.mentions[i])]
  OBVIOUS
<1>4. Unmatched(body) = FlattenSeq(parts)
  BY <1>2 DEF Unmatched
<1>5. ASSUME NEW user \in STRING
      PROVE  /\ one(user) \in Seq(Leaves) /\ word(user) \in Seq(Words)
             /\ Values(one(user)) = word(user)
  <2>1. Token("mention", user) \in Words /\ Token("mention", user) \in Tokens
    BY DEF Token, Words, Tokens, WordKinds
  <2>2. <<Token("mention", user)>> \in Seq(Tokens) /\ <<Token("mention", user)>> \in Seq(Words)
    BY <2>1
  <2>3. Segment("unknown", <<Token("mention", user)>>) \in Leaves
    BY <2>2, SegmentIsLeaf DEF LeafKinds
  <2>4. Values(<<Segment("unknown", <<Token("mention", user)>>)>>) = <<Token("mention", user)>>
    BY <2>3, ValuesOfOne DEF Segment
  <2>5. CASE known(user)
    <3>1. one(user) = <<>> /\ word(user) = <<>>
      BY <2>5
    <3>2. <<>> \in Seq(Leaves) /\ <<>> \in Seq(Words)
      OBVIOUS
    <3> HIDE DEF one, word
    <3> QED
      BY <3>1, <3>2, ValuesOfNone
  <2>6. CASE ~known(user)
    <3>1. /\ one(user) = <<Segment("unknown", <<Token("mention", user)>>)>>
          /\ word(user) = <<Token("mention", user)>>
      BY <2>6
    <3> HIDE DEF one, word
    <3>2. one(user) \in Seq(Leaves)
      <4>1. \A leaf \in Leaves : <<leaf>> \in Seq(Leaves)
        OBVIOUS
      <4> QED
        BY <2>3, <3>1, <4>1
    <3> QED
      BY <2>2, <2>4, <3>1, <3>2
  <2> HIDE DEF one, word, known
  <2> QED
    BY <2>5, <2>6
<1> HIDE DEF one, word, known
<1>6. /\ parts \in Seq(Seq(Leaves)) /\ said \in Seq(Seq(Words))
      /\ said = [i \in DOMAIN parts |-> Values(parts[i])]
  <2>1. parts \in [1..n -> Seq(Leaves)] /\ said \in [1..n -> Seq(Words)]
    BY <1>1, <1>2, <1>3, <1>5
  <2>2. \A i \in 1..n : said[i] = Values(parts[i])
    BY <1>1, <1>2, <1>3, <1>5
  <2> HIDE DEF n
  <2>3. DOMAIN parts = 1..n /\ DOMAIN said = 1..n
    BY <2>1
  <2> QED
    BY <1>1, <2>1, <2>2, <2>3, SequenceOf
<1>7. FlattenSeq(said) \in Seq(Words)
  BY <1>6, FlattenOfBoth
<1> QED
  BY <1>4, <1>6, <1>7, ValuesOfAll

\* So do attachments.
LEMMA AttachmentsSay ==
    ASSUME NEW body \in BodiesOver(Bodies)
    PROVE  Values(AttachmentSegments(body)) = body.attachments
<1> DEFINE n == Len(body.attachments)
           one(a) == Segment(IF a.kind \in {"image", "file"} THEN a.kind ELSE "unknown", <<a>>)
<1>1. body.attachments \in Seq(Words) /\ DOMAIN body.attachments = 1..n /\ n \in Nat
  BY DEF BodiesOver
<1>2. PICK s : s = AttachmentSegments(body)
  OBVIOUS
<1>3. s = [i \in DOMAIN body.attachments |-> one(body.attachments[i])]
  BY <1>2 DEF AttachmentSegments
<1>4. \A a : one(a).value = <<a>>
  BY DEF Segment
<1> HIDE DEF one
<1>5. DOMAIN s = DOMAIN body.attachments
      /\ \A i \in DOMAIN s : s[i].value = <<body.attachments[i]>>
  BY <1>3, <1>4
<1>6. [i \in DOMAIN s |-> s[i].value] = [i \in DOMAIN body.attachments |-> <<body.attachments[i]>>]
  BY <1>5
<1> QED
  BY <1>1, <1>2, <1>6, FlattenOfSingles DEF Values

\* Where a message starts does not change what it says.
LEMMA NumberedSays ==
    ASSUME NEW s \in Seq(Leaves), NEW start \in Nat
    PROVE  Values(Numbered(s, start)) = Values(s)
<1>1. PICK new : new = Numbered(s, start)
  OBVIOUS
<1>2. new = [i \in DOMAIN s |-> [s[i] EXCEPT !.position = start + i - 1]]
  BY <1>1 DEF Numbered
<1>3. \A i \in DOMAIN s : s[i] \in Leaves
  OBVIOUS
<1>4. \A leaf \in Leaves : \A p : [leaf EXCEPT !.position = p].value = leaf.value
  BY DEF Leaves
<1>5. DOMAIN new = DOMAIN s /\ \A i \in DOMAIN s : new[i].value = s[i].value
  BY <1>2, <1>3, <1>4
<1>6. [i \in DOMAIN new |-> new[i].value] = [i \in DOMAIN s |-> s[i].value]
  BY <1>5
<1> QED
  BY <1>1, <1>6 DEF Values

\* A message's own content says its words, in order.
LEMMA ContentSays ==
    ASSUME NEW body \in BodiesOver(Bodies), NEW said,
           said = IF body.tokens \in {<<>>, Unstructured} THEN <<>>
                  ELSE FlattenSeq([i \in DOMAIN body.mentions |->
                         IF Token("at", body.mentions[i]) \in Range(body.tokens) THEN <<>>
                         ELSE <<Token("mention", body.mentions[i])>>])
    PROVE  Values(ContentSegments(body)) = body.tokens \o said /\ said \in Seq(Words)
<1>1. body.tokens \in Seq(Words) /\ body.tokens \in Seq(Tokens)
  <2>1. body.tokens \in Seq(Words)
    BY DEF BodiesOver
  <2> QED
    BY <2>1, WordsAreTokens
<1>2. \A s \in Seq(Tokens) : s \o <<>> = s
  OBVIOUS
<1>3. CASE body.tokens = <<>>
  <2>1. ContentSegments(body) = <<>> /\ said = <<>>
    BY <1>3 DEF ContentSegments
  <2>2. <<>> \in Seq(Words) /\ <<>> \o <<>> = <<>>
    OBVIOUS
  <2> QED
    BY <1>3, <2>1, <2>2, ValuesOfNone
<1>4. CASE body.tokens # <<>> /\ body.tokens = Unstructured
  <2>1. ContentSegments(body) = <<Segment("unknown", Unstructured)>> /\ said = <<>>
    BY <1>4 DEF ContentSegments
  <2>2. Segment("unknown", Unstructured) \in Leaves
    BY <1>1, <1>4, SegmentIsLeaf DEF LeafKinds
  <2>3. Values(<<Segment("unknown", Unstructured)>>) = Unstructured
    BY <2>2, ValuesOfOne DEF Segment
  <2>4. <<>> \in Seq(Words)
    OBVIOUS
  <2> QED
    BY <1>1, <1>2, <1>4, <2>1, <2>3, <2>4
<1>5. CASE body.tokens # <<>> /\ body.tokens # Unstructured
  <2>1. ContentSegments(body) = Cut(body).done \o TextOf(Cut(body).run) \o Unmatched(body)
    BY <1>5, Zenon DEF ContentSegments, Cut
  <2>2. said = FlattenSeq([i \in DOMAIN body.mentions |->
                 IF Token("at", body.mentions[i]) \in Range(body.tokens) THEN <<>>
                 ELSE <<Token("mention", body.mentions[i])>>])
    BY <1>5
  <2>3. Values(Unmatched(body)) = said /\ said \in Seq(Words)
    BY <2>2, UnmatchedSays
  <2>4. PICK done, run : done = Cut(body).done /\ run = Cut(body).run
    OBVIOUS
  <2>5. done \in Seq(Leaves) /\ run \in Seq(Tokens) /\ TextOf(run) \in Seq(Leaves)
    <3>1. done \in Seq(Leaves) /\ run \in Seq(Tokens)
      BY <1>1, <2>4, CutIsTyped DEF Cuts
    <3> QED
      BY <3>1, TextIsLeaves
  <2>6. Values(done) \o run = body.tokens
    BY <1>1, <2>4, CutSays
  <2>7. PICK both : both = done \o TextOf(run)
    OBVIOUS
  <2>8. both \in Seq(Leaves)
    BY <2>5, <2>7
  <2>9. Values(both) = Values(done) \o Values(TextOf(run))
    BY <2>5, <2>7, ValuesOfBoth
  <2>10. Values(TextOf(run)) = run
    BY <2>5, TextSays
  <2>11. Values(both \o Unmatched(body)) = Values(both) \o Values(Unmatched(body))
    BY <2>8, UnmatchedIsLeaves, ValuesOfBoth
  <2>12. ContentSegments(body) = both \o Unmatched(body)
    BY <2>1, <2>4, <2>7
  <2> QED
    BY <2>3, <2>6, <2>9, <2>10, <2>11, <2>12, Zenon
<1> QED
  BY <1>3, <1>4, <1>5

\* So does all of it together, from whatever position it starts.
LEMMA OwnContentSays ==
    ASSUME NEW body \in Bodies, NEW start \in Nat
    PROVE  /\ Values(MessageLikeSegments(body, start)) = OwnWords(body)
           /\ OwnWords(body) \in Seq(Words)
<1>0. body \in BodiesOver(Bodies)
  BY BodiesWithin
<1>1. PICK said :
        said = IF body.tokens \in {<<>>, Unstructured} THEN <<>>
               ELSE FlattenSeq([i \in DOMAIN body.mentions |->
                      IF Token("at", body.mentions[i]) \in Range(body.tokens) THEN <<>>
                      ELSE <<Token("mention", body.mentions[i])>>])
  OBVIOUS
<1>2. OwnWords(body) = (body.tokens \o said) \o body.attachments
  BY <1>1 DEF OwnWords
<1>3. Values(ContentSegments(body)) = body.tokens \o said /\ said \in Seq(Words)
  BY <1>0, <1>1, ContentSays
<1>4. body.tokens \in Seq(Words) /\ body.attachments \in Seq(Words)
  BY <1>0 DEF BodiesOver
<1>5. PICK own : own = ContentSegments(body) \o AttachmentSegments(body)
  OBVIOUS
<1>6. own \in Seq(Leaves)
  BY <1>0, <1>5, ContentIsLeaves, AttachmentsAreLeaves
<1>7. Values(own) = (body.tokens \o said) \o body.attachments
  BY <1>0, <1>3, <1>5, ContentIsLeaves, AttachmentsAreLeaves, AttachmentsSay, ValuesOfBoth
<1>8. Values(MessageLikeSegments(body, start)) = Values(own)
  BY <1>5, <1>6, NumberedSays DEF MessageLikeSegments
<1>9. (body.tokens \o said) \o body.attachments \in Seq(Words)
  BY <1>3, <1>4
<1> QED
  BY <1>2, <1>7, <1>8, <1>9

(***************************************************************************)
(* Renderings.                                                             *)
(***************************************************************************)
\* A numbered tree is in order.
LEMMA NumberedAreOrdered ==
    ASSUME NEW S, NEW tree \in NumberedFrom0(S)
    PROVE  Ordered(tree) = tree
<1> DEFINE n == Len(tree)
           before(i) == {j \in DOMAIN tree :
                           \/ tree[j].position < tree[i].position
                           \/ tree[j].position = tree[i].position /\ j < i}
           at(k) == CHOOSE i \in DOMAIN tree : k - 1 = Cardinality(before(i))
<1>1. /\ tree \in Seq(S) /\ n \in Nat /\ DOMAIN tree = 1..n
      /\ \A i \in 1..n : tree[i].position = i - 1
  BY DEF NumberedFrom0
<1>2. ASSUME NEW i \in 1..n PROVE Cardinality(before(i)) = i - 1
  <2>1. before(i) = 1..(i - 1)
    <3>1. \A j \in 1..n : j \in before(i) <=> j < i
      BY <1>1
    <3>2. before(i) \subseteq 1..n
      BY <1>1
    <3> HIDE DEF before
    <3>3. \A j : j \in 1..(i - 1) <=> j \in 1..n /\ j < i
      BY <1>1
    <3> QED
      BY <3>1, <3>2, <3>3
  <2>2. 1 \in Int /\ i - 1 \in Int
    BY <1>1
  <2>3. Cardinality(1..(i - 1)) = IF 1 > i - 1 THEN 0 ELSE (i - 1) - 1 + 1
    BY <2>2, FS_Interval
  <2> HIDE DEF before
  <2> QED
    BY <1>1, <2>1, <2>3
<1> HIDE DEF before
<1>3. ASSUME NEW k \in 1..n PROVE at(k) = k
  <2>1. \E i \in DOMAIN tree : k - 1 = Cardinality(before(i))
    BY <1>1, <1>2
  <2>2. at(k) \in DOMAIN tree /\ k - 1 = Cardinality(before(at(k)))
    BY <2>1
  <2> HIDE DEF at
  <2>3. at(k) \in 1..n /\ k - 1 = at(k) - 1
    BY <1>1, <1>2, <2>2
  <2> QED
    BY <1>1, <2>3
<1>4. Ordered(tree) = [k \in DOMAIN tree |-> tree[at(k)]]
  BY DEF Ordered, before
<1> HIDE DEF at
<1>5. Ordered(tree) = [k \in DOMAIN tree |-> tree[k]]
  BY <1>1, <1>3, <1>4
<1> QED
  BY <1>1, <1>5

\* A tree shows what its segments do, one after another.
Shows(within, s) == FlattenSeq([i \in DOMAIN s |-> RenderSegment(within, s[i])])

Shown(within, X) == \A s \in X : RenderSegment(within, s) \in Seq(Marks)

Renders(within, trees) ==
    /\ \A tree \in trees : within[tree] \in Seq(Marks)
    /\ \A s \in NumberedFrom0(Leaves) : s \in trees /\ within[s] = Values(s)

\* A mark of its own, for what a limit leaves of a forward,
LEMMA HeaderIsMark ==
    ASSUME NEW trees, NEW s \in Forwards(trees), NEW content
    PROVE  /\ ForwardHeader(s, content) \in Marks
           /\ ForwardHeader(s, content).kind = "forward"
           /\ ForwardHeader(s, content).v \in CutMarks <=> s.status \in CutMarks
<1>1. s.status \in ForwardStatuses
  BY DEF Forwards, ForwardStatuses
<1>2. PICK v \in {"embedded", "unresolved", "invalid_content", "depth_limit", "node_limit",
                  "display_only"} :
        /\ ForwardHeader(s, content) = Token("forward", v)
        /\ v \in CutMarks <=> s.status \in CutMarks
  BY <1>1 DEF ForwardHeader, ForwardStatuses, CutMarks
<1>3. /\ Token("forward", v) \in Marks /\ Token("forward", v).kind = "forward"
      /\ Token("forward", v).v = v
  BY DEF Token, Marks, MarkKinds
<1> QED
  BY <1>2, <1>3

\* what a segment shows is made of marks,
LEMMA SegmentRenders ==
    ASSUME NEW within, NEW trees, \A tree \in trees : within[tree] \in Seq(Marks),
           NumberedFrom0(Leaves) \subseteq trees,
           NEW s \in SegmentsOver(trees)
    PROVE  RenderSegment(within, s) \in Seq(Marks)
<1>0. \A m \in Marks : <<m>> \in Seq(Marks)
  OBVIOUS
<1>1. CASE s \in Leaves
  <2>1. RenderSegment(within, s) = s.value /\ s.value \in Seq(Tokens)
    BY <1>1 DEF RenderSegment, Leaves
  <2> QED
    BY <2>1, TokensAreMarks
<1>2. CASE s \in Forwards(trees)
  <2>1. RenderSegment(within, s) = RenderForward(within, s)
    BY <1>2 DEF RenderSegment, Forwards
  <2>2. s.content \in NumberedFrom0(Leaves) /\ s.nodes \in Seq(Nodes(trees))
    BY <1>2 DEF Forwards, Nodes
  <2>3. PICK parts : parts = [i \in DOMAIN s.nodes |-> OrEmpty(within[s.nodes[i].content])]
    OBVIOUS
  <2>4. parts \in Seq(Seq(Marks))
    <3>1. Len(s.nodes) \in Nat /\ DOMAIN s.nodes = 1..Len(s.nodes)
          /\ \A i \in 1..Len(s.nodes) : s.nodes[i].content \in trees
      BY <2>2, ContentsAreTrees
    <3>2. \A i \in 1..Len(s.nodes) : OrEmpty(within[s.nodes[i].content]) \in Seq(Marks)
      BY <3>1, EmptyShowsNothing
    <3>3. parts \in [1..Len(s.nodes) -> Seq(Marks)]
      BY <2>3, <3>1, <3>2
    <3> QED
      BY <3>1, <3>3, SequenceOf
  <2>5. FlattenSeq(parts) \in Seq(Marks)
    BY <2>4, FlattenOfBoth
  <2>6. PICK content : content = within[s.content]
    OBVIOUS
  <2>7. content \in Seq(Marks) /\ <<ForwardHeader(s, content)>> \in Seq(Marks)
    BY <1>0, <1>2, <2>2, <2>6, HeaderIsMark
  <2>8. RenderSegment(within, s) = <<ForwardHeader(s, content)>> \o content \o FlattenSeq(parts)
    BY <2>1, <2>3, <2>6 DEF RenderForward
  <2> QED
    BY <2>5, <2>7, <2>8
<1>3. CASE s \in Replies(trees)
  <2>1. RenderSegment(within, s) = RenderReply(within, s)
    BY <1>3 DEF RenderSegment, Replies
  <2>2. /\ s.status \in {"unresolved", "depth_limit", "node_limit"}
        /\ s.resolved \in Seq(Quotes(trees))
    BY <1>3 DEF Replies, Quotes
  <2>3. CASE s.resolved = <<>>
    <3>1. Token("quote", s.status) \in Marks
      BY <2>2 DEF Token, Marks, MarkKinds
    <3> QED
      BY <1>0, <2>1, <2>3, <3>1 DEF RenderReply
  <2>4. CASE s.resolved # <<>>
    <3>1. PICK quote \in Quotes(trees) : quote = s.resolved[1]
      <4>1. Len(s.resolved) \in Nat \ {0}
        BY <2>2, <2>4, EmptySeq
      <4>2. 1 \in 1..Len(s.resolved)
        BY <4>1
      <4> QED
        BY <2>2, <4>2, ElementOfSeq
    <3>2. quote.segments \in trees /\ quote.author \in STRING
      BY DEF Quotes
    <3>3. Token("quoted", quote.author) \in Marks
      BY <3>2 DEF Token, Marks, MarkKinds
    <3>4. OrEmpty(within[quote.segments]) \in Seq(Marks)
      BY <3>2, EmptyShowsNothing
    <3>5. RenderSegment(within, s)
            = <<Token("quoted", quote.author)>> \o OrEmpty(within[quote.segments])
      BY <2>1, <2>4, <3>1 DEF RenderReply
    <3> QED
      BY <1>0, <3>3, <3>4, <3>5
  <2> QED
    BY <2>3, <2>4
<1> QED
  BY <1>1, <1>2, <1>3 DEF SegmentsOver

\* so is what segments show.
LEMMA ShowsAre ==
    ASSUME NEW within, NEW X, Shown(within, X),
           NEW s \in Seq(X), NEW parts, parts = [i \in DOMAIN s |-> RenderSegment(within, s[i])]
    PROVE  /\ parts \in Seq(Seq(Marks)) /\ Len(parts) = Len(s) /\ Len(s) \in Nat
           /\ \A i \in 1..Len(s) : parts[i] = RenderSegment(within, s[i])
           /\ Shows(within, s) = FlattenSeq(parts)
<1>1. Len(s) \in Nat /\ DOMAIN s = 1..Len(s) /\ \A i \in 1..Len(s) : s[i] \in X
  OBVIOUS
<1>2. /\ parts \in [1..Len(s) -> Seq(Marks)]
      /\ \A i \in 1..Len(s) : parts[i] = RenderSegment(within, s[i])
  BY <1>1 DEF Shown
<1>3. Shows(within, s) = FlattenSeq(parts)
  BY DEF Shows
<1> QED
  BY <1>1, <1>2, <1>3, SequenceOf

\* What is shown of two runs, one after the other, is what each shows.
LEMMA ShowsOfBoth ==
    ASSUME NEW within, NEW X, Shown(within, X),
           NEW a \in Seq(X), NEW b \in Seq(X)
    PROVE  /\ Shows(within, a \o b) = Shows(within, a) \o Shows(within, b)
           /\ Shows(within, a) \in Seq(Marks)
<1>1. PICK c : c = a \o b
  OBVIOUS
<1>2. /\ c \in Seq(X) /\ Len(c) = Len(a) + Len(b) /\ Len(a) \in Nat /\ Len(b) \in Nat
      /\ \A i \in 1..Len(a) : c[i] = a[i]
      /\ \A i \in 1..Len(b) : c[Len(a) + i] = b[i]
  BY <1>1
<1>3. PICK pa, pb, pc : /\ pa = [i \in DOMAIN a |-> RenderSegment(within, a[i])]
                        /\ pb = [i \in DOMAIN b |-> RenderSegment(within, b[i])]
                        /\ pc = [i \in DOMAIN c |-> RenderSegment(within, c[i])]
  OBVIOUS
<1>4. /\ pa \in Seq(Seq(Marks)) /\ Len(pa) = Len(a) /\ Shows(within, a) = FlattenSeq(pa)
      /\ \A i \in 1..Len(a) : pa[i] = RenderSegment(within, a[i])
  BY <1>3, ShowsAre
<1>4b. /\ pb \in Seq(Seq(Marks)) /\ Len(pb) = Len(b) /\ Shows(within, b) = FlattenSeq(pb)
       /\ \A i \in 1..Len(b) : pb[i] = RenderSegment(within, b[i])
  BY <1>3, ShowsAre
<1>4c. /\ pc \in Seq(Seq(Marks)) /\ Len(pc) = Len(c) /\ Shows(within, c) = FlattenSeq(pc)
       /\ \A i \in 1..Len(c) : pc[i] = RenderSegment(within, c[i])
  <2>1. c \in Seq(X) /\ pc = [i \in DOMAIN c |-> RenderSegment(within, c[i])]
    BY <1>2, <1>3
  <2> QED
    BY <2>1, ShowsAre
<1>5. pc = pa \o pb
  <2>1. \A i \in 1..Len(pa) : pc[i] = pa[i]
    <3>1. \A i \in 1..Len(a) : i \in 1..Len(c)
      BY <1>2
    <3> QED
      BY <1>2, <1>4, <1>4b, <1>4c, <3>1
  <2>2. \A i \in 1..Len(pb) : pc[Len(pa) + i] = pb[i]
    <3>1. SUFFICES ASSUME NEW i \in 1..Len(b) PROVE pc[Len(a) + i] = pb[i]
      BY <1>4, <1>4b, <1>4c
    <3>2. PICK k : k = Len(a) + i
      OBVIOUS
    <3>3. k \in 1..Len(c) /\ c[k] = b[i]
      BY <1>2, <3>2
    <3>4. pc[k] = RenderSegment(within, c[k]) /\ pb[i] = RenderSegment(within, b[i])
      BY <1>4, <1>4b, <1>4c, <3>3
    <3> QED
      BY <3>2, <3>3, <3>4
  <2>3. Len(pc) = Len(pa) + Len(pb)
    BY <1>2, <1>4, <1>4b, <1>4c
  <2> QED
    BY <1>4, <1>4b, <1>4c, <2>1, <2>2, <2>3, BothAppended
<1> QED
  BY <1>1, <1>4, <1>4b, <1>4c, <1>5, FlattenOfBoth

\* One segment shows itself.
LEMMA ShowsOfOne ==
    ASSUME NEW within, NEW s, RenderSegment(within, s) \in Seq(Marks)
    PROVE  Shows(within, <<s>>) = RenderSegment(within, s)
<1>1. PICK parts, one : /\ one = <<s>>
                        /\ parts = [i \in DOMAIN one |-> RenderSegment(within, one[i])]
  OBVIOUS
<1>2. PICK X : X = {s}
  OBVIOUS
<1>2a. one \in Seq(X) /\ Len(one) = 1 /\ one[1] = s /\ Shown(within, X)
  BY <1>1, <1>2 DEF Shown
<1>3. /\ parts \in Seq(Seq(Marks)) /\ Len(parts) = 1 /\ parts[1] = RenderSegment(within, s)
      /\ Shows(within, one) = FlattenSeq(parts)
  <2>1. /\ parts \in Seq(Seq(Marks)) /\ Len(parts) = Len(one)
        /\ \A i \in 1..Len(one) : parts[i] = RenderSegment(within, one[i])
        /\ Shows(within, one) = FlattenSeq(parts)
    <3>1. parts = [i \in DOMAIN one |-> RenderSegment(within, one[i])]
      BY <1>1
    <3>2. one \in Seq(X) /\ Shown(within, X)
      BY <1>2a
    <3> QED
      BY <3>1, <3>2, ShowsAre
  <2>2. 1 \in 1..Len(one)
    BY <1>2a
  <2> QED
    BY <1>2a, <2>1, <2>2
<1>4. parts = <<RenderSegment(within, s)>>
  BY <1>3
<1> QED
  BY <1>1, <1>3, <1>4, FlattenOfOne

\* No segments show nothing.
LEMMA ShowsOfNone ==
    ASSUME NEW within
    PROVE  Shows(within, <<>>) = <<>>
<1> DEFINE parts == [i \in DOMAIN <<>> |-> RenderSegment(within, <<>>[i])]
<1>1. parts = <<>>
  BY EmptyFunction
<1> QED
  BY <1>1, FlattenOfNone DEF Shows

\* Leaves show their values.
LEMMA ShowsOfLeaves ==
    ASSUME NEW within, NEW s \in Seq(Leaves)
    PROVE  Shows(within, s) = Values(s)
<1>1. \A i \in DOMAIN s : s[i] \in Leaves
  OBVIOUS
<1>2. \A leaf \in Leaves : RenderSegment(within, leaf) = leaf.value
  BY DEF RenderSegment, Leaves
<1>3. [i \in DOMAIN s |-> RenderSegment(within, s[i])] = [i \in DOMAIN s |-> s[i].value]
  BY <1>1, <1>2
<1> QED
  BY <1>3 DEF Shows, Values

\* The recursion of the renderer,
LEMMA RendererIs ==
    ASSUME NEW n \in Heights
    PROVE  Renderer[n] = RendererOver(TreesUpTo[n], IF n = 0 THEN <<>> ELSE Renderer[n - 1])
<1> DEFINE m == MaxForwardDepth + 1
           Is(f) == f = [k \in 0..m |->
                           RendererOver(TreesUpTo[k], IF k = 0 THEN <<>> ELSE f[k - 1])]
<1>0. m \in Nat
  BY ParserAssumption
<1>1. PICK f : Levels(f, "renderer", m)
  <2> HIDE DEF m
  <2> QED
    BY <1>0, LevelsExist
<1> HIDE DEF m
<1>2. Is(f)
  <2> DEFINE step(k) == RendererOver(TreesUpTo[k], IF k = 0 THEN <<>> ELSE f[k - 1])
  <2>1. ASSUME NEW k \in 0..m PROVE f[k] = step(k)
    <3>1. f[k] = Level("renderer", k, IF k = 0 THEN {} ELSE f[k - 1])
      BY <1>1, LevelIs
    <3>2. CASE k = 0
      BY <3>1, <3>2 DEF Level
    <3>3. CASE k # 0
      BY <3>1, <3>3 DEF Level
    <3> QED
      BY <3>2, <3>3
  <2>2. f = [k \in 0..m |-> f[k]]
    BY <1>1 DEF Levels
  <2> HIDE DEF step
  <2>3. f = [k \in 0..m |-> step(k)]
    BY <2>1, <2>2
  <2> QED
    BY <2>3 DEF step
<1>3. Is(Renderer)
  <2>1. Renderer = CHOOSE g : Is(g)
    BY DEF Renderer, Heights, m
  <2> HIDE DEF Is
  <2> QED
    BY <1>2, <2>1
<1>4. n \in 0..m
  BY DEF Heights, m
<1> QED
  BY <1>3, <1>4, Zenon

\* of what a body embeds,
LEMMA EmbeddedIs ==
    ASSUME NEW n \in 0..MaxNesting
    PROVE  EmbeddedUpTo[n]
             = EmbeddedOver(BodiesUpTo[n], IF n = 0 THEN <<>> ELSE EmbeddedUpTo[n - 1])
<1> DEFINE m == MaxNesting
           Is(f) == f = [k \in 0..m |->
                           EmbeddedOver(BodiesUpTo[k], IF k = 0 THEN <<>> ELSE f[k - 1])]
<1>0. m \in Nat
  BY ParserAssumption
<1>1. PICK f : Levels(f, "embedded", m)
  <2> HIDE DEF m
  <2> QED
    BY <1>0, LevelsExist
<1> HIDE DEF m
<1>2. Is(f)
  <2> DEFINE step(k) == EmbeddedOver(BodiesUpTo[k], IF k = 0 THEN <<>> ELSE f[k - 1])
  <2>1. ASSUME NEW k \in 0..m PROVE f[k] = step(k)
    <3>1. f[k] = Level("embedded", k, IF k = 0 THEN {} ELSE f[k - 1])
      BY <1>1, LevelIs
    <3>2. CASE k = 0
      BY <3>1, <3>2 DEF Level
    <3>3. CASE k # 0
      BY <3>1, <3>3 DEF Level
    <3> QED
      BY <3>2, <3>3
  <2>2. f = [k \in 0..m |-> f[k]]
    BY <1>1 DEF Levels
  <2> HIDE DEF step
  <2>3. f = [k \in 0..m |-> step(k)]
    BY <2>1, <2>2
  <2> QED
    BY <2>3 DEF step
<1>3. Is(EmbeddedUpTo)
  <2>1. EmbeddedUpTo = CHOOSE g : Is(g)
    BY DEF EmbeddedUpTo, m
  <2> HIDE DEF Is
  <2> QED
    BY <1>2, <2>1
<1>4. n \in 0..m
  BY DEF m
<1> QED
  BY <1>3, <1>4, Zenon

\* and of its words.
LEMMA AllWordsIs ==
    ASSUME NEW n \in 0..MaxNesting
    PROVE  AllWordsUpTo[n]
             = AllWordsOver(BodiesUpTo[n], IF n = 0 THEN <<>> ELSE AllWordsUpTo[n - 1])
<1> DEFINE m == MaxNesting
           Is(f) == f = [k \in 0..m |->
                           AllWordsOver(BodiesUpTo[k], IF k = 0 THEN <<>> ELSE f[k - 1])]
<1>0. m \in Nat
  BY ParserAssumption
<1>1. PICK f : Levels(f, "words", m)
  <2> HIDE DEF m
  <2> QED
    BY <1>0, LevelsExist
<1> HIDE DEF m
<1>2. Is(f)
  <2> DEFINE step(k) == AllWordsOver(BodiesUpTo[k], IF k = 0 THEN <<>> ELSE f[k - 1])
  <2>1. ASSUME NEW k \in 0..m PROVE f[k] = step(k)
    <3>1. f[k] = Level("words", k, IF k = 0 THEN {} ELSE f[k - 1])
      BY <1>1, LevelIs
    <3>2. CASE k = 0
      BY <3>1, <3>2 DEF Level
    <3>3. CASE k # 0
      BY <3>1, <3>3 DEF Level
    <3> QED
      BY <3>2, <3>3
  <2>2. f = [k \in 0..m |-> f[k]]
    BY <1>1 DEF Levels
  <2> HIDE DEF step
  <2>3. f = [k \in 0..m |-> step(k)]
    BY <2>1, <2>2
  <2> QED
    BY <2>3 DEF step
<1>3. Is(AllWordsUpTo)
  <2>1. AllWordsUpTo = CHOOSE g : Is(g)
    BY DEF AllWordsUpTo, m
  <2> HIDE DEF Is
  <2> QED
    BY <1>2, <2>1
<1>4. n \in 0..m
  BY DEF m
<1> QED
  BY <1>3, <1>4, Zenon

\* A tree of a height shows what its segments do, with the height below.
LEMMA HeightShows ==
    ASSUME NEW h \in Heights, NEW tree \in TreesUpTo[h]
    PROVE  Renderer[h][tree] = Shows(IF h = 0 THEN <<>> ELSE Renderer[h - 1], tree)
<1>1. PICK within : within = IF h = 0 THEN <<>> ELSE Renderer[h - 1]
  OBVIOUS
<1>2. Renderer[h][tree] = RenderSegments(within, tree)
  BY <1>1, RendererIs DEF RendererOver
<1>3. \E S : tree \in NumberedFrom0(S)
  BY CodedAre DEF TreesOver
<1>4. Ordered(tree) = tree
  BY <1>3, NumberedAreOrdered
<1> QED
  BY <1>1, <1>2, <1>4 DEF RenderSegments, Shows

\* Every height renders its trees, those of leaves as their values.
LEMMA EveryHeightRenders == \A h \in Heights : Renders(Renderer[h], TreesUpTo[h])
<1> DEFINE Bad == {h \in Heights : ~Renders(Renderer[h], TreesUpTo[h])}
<1>1. SUFFICES ASSUME Bad # {} PROVE FALSE
  OBVIOUS
<1>2. PICK h \in Bad : \A k \in Bad : h <= k
  <2>1. Bad \subseteq Nat
    BY ParserAssumption DEF Heights
  <2> HIDE DEF Bad
  <2> QED
    BY <1>1, <2>1, LeastElement
<1>3. h \in Heights /\ ~Renders(Renderer[h], TreesUpTo[h]) /\ h \in Nat
  BY ParserAssumption DEF Heights
<1>4. PICK within : within = IF h = 0 THEN <<>> ELSE Renderer[h - 1]
  OBVIOUS
<1>5. \A tree \in TreesUpTo[h] : Renderer[h][tree] = Shows(within, tree)
  BY <1>3, <1>4, HeightShows
<1>6. ASSUME NEW s \in NumberedFrom0(Leaves)
      PROVE  s \in TreesUpTo[h] /\ Renderer[h][s] = Values(s)
  <2>1. s \in TreesUpTo[h] /\ s \in Seq(Leaves)
    BY <1>3, EveryHeightCodes DEF Coded, NumberedFrom0
  <2> QED
    BY <1>5, <2>1, ShowsOfLeaves
<1>7. ASSUME NEW tree \in TreesUpTo[h] PROVE Renderer[h][tree] \in Seq(Marks)
  <2>1. CASE h = 0
    <3>1. tree \in NumberedFrom0(Leaves)
      BY <1>3, <2>1, CodedAre
    <3>2. Values(tree) \in Seq(Tokens)
      BY <3>1, ValuesOfBoth DEF NumberedFrom0
    <3>3. Values(tree) \in Seq(Marks)
      BY <3>2, TokensAreMarks
    <3> QED
      BY <1>6, <3>1, <3>3
  <2>2. CASE h # 0
    <3>1. h - 1 \in Heights /\ ~(h <= h - 1)
      BY <1>3, <2>2, ParserAssumption DEF Heights
    <3>2. PICK trees : trees = TreesUpTo[h - 1]
      OBVIOUS
    <3>3. Renders(within, trees)
      BY <1>2, <1>4, <2>2, <3>1, <3>2
    <3>4. tree \in Seq(SegmentsOver(trees))
      BY <1>3, <2>2, <3>2, CodedAre DEF TreesOver, NumberedFrom0, SegmentsOver
    <3>5. Shown(within, SegmentsOver(trees))
      <4>1. NumberedFrom0(Leaves) \subseteq trees /\ \A t \in trees : within[t] \in Seq(Marks)
        BY <3>3 DEF Renders
      <4> QED
        BY <4>1, SegmentRenders DEF Shown
    <3>6. Shows(within, tree) \in Seq(Marks)
      BY <3>4, <3>5, ShowsOfBoth
    <3> QED
      BY <1>5, <3>6
  <2> QED
    BY <2>1, <2>2
<1> QED
  BY <1>3, <1>6, <1>7 DEF Renders

(***************************************************************************)
(* What a body embeds and says.                                            *)
(***************************************************************************)
\* Whatever nests less deep is a body.
LEMMA AllBodies == \A m \in 0..MaxNesting : BodiesUpTo[m] \subseteq Bodies
<1> DEFINE Bad == {k \in 0..MaxNesting : ~(BodiesUpTo[MaxNesting - k] \subseteq Bodies)}
<1>0. MaxNesting \in Nat
  BY ParserAssumption
<1>1. Bad = {}
  <2> SUFFICES ASSUME Bad # {} PROVE FALSE
    OBVIOUS
  <2>1. PICK k \in Bad : \A l \in Bad : k <= l
    <3>1. Bad \subseteq Nat
      OBVIOUS
    <3> HIDE DEF Bad
    <3> QED
      BY <3>1, LeastElement
  <2>2. k \in 0..MaxNesting /\ ~(BodiesUpTo[MaxNesting - k] \subseteq Bodies)
    OBVIOUS
  <2>3. CASE k = 0
    <3>1. MaxNesting - k = MaxNesting
      BY <1>0, <2>3
    <3> QED
      BY <2>2, <3>1 DEF Bodies
  <2>4. CASE k # 0
    <3>1. k - 1 \in 0..MaxNesting /\ ~(k <= k - 1)
      BY <1>0, <2>2, <2>4
    <3>2. BodiesUpTo[MaxNesting - (k - 1)] \subseteq Bodies
      BY <2>1, <3>1
    <3>3. MaxNesting - (k - 1) \in 1..MaxNesting /\ (MaxNesting - (k - 1)) - 1 = MaxNesting - k
      BY <1>0, <2>2, <2>4
    <3>4. BodiesUpTo[MaxNesting - k] \subseteq BodiesUpTo[MaxNesting - (k - 1)]
      BY <3>3, LowerBodies
    <3> QED
      BY <2>2, <3>2, <3>4
  <2> QED
    BY <2>3, <2>4
<1>2. ASSUME NEW m \in 0..MaxNesting PROVE BodiesUpTo[m] \subseteq Bodies
  <2>1. MaxNesting - m \in 0..MaxNesting /\ MaxNesting - (MaxNesting - m) = m
    BY <1>0
  <2>2. MaxNesting - m \notin Bad
    BY <1>1
  <2> QED
    BY <2>1, <2>2
<1> QED
  BY <1>2

\* count counts what each of S embeds, words are its words.
CountsBodies(count, words, S) ==
    \A b \in S :
        /\ count[b] \in Nat
        /\ words[b] \in Seq(Words)
        /\ ~IsMapping(b) => count[b] = 0 /\ words[b] = <<>>
        /\ b.type = "reply" /\ b.elements = <<>> => count[b] = 0 /\ words[b] = OwnWords(b)

Costs(count, s) == [i \in DOMAIN s |-> 1 + count[s[i]]]
Says(words, s) == [i \in DOMAIN s |-> words[s[i]]]

\* For elements one after another,
LEMMA CostsAre ==
    ASSUME NEW count, NEW words, NEW S, CountsBodies(count, words, S), NEW s \in Seq(S),
           NEW costs, costs = Costs(count, s), NEW says, says = Says(words, s)
    PROVE  /\ Len(s) \in Nat /\ DOMAIN s = 1..Len(s) /\ \A i \in 1..Len(s) : s[i] \in S
           /\ costs \in Seq(Nat) /\ Len(costs) = Len(s)
           /\ \A i \in 1..Len(s) : costs[i] = 1 + count[s[i]]
           /\ says \in Seq(Seq(Words)) /\ Len(says) = Len(s)
           /\ \A i \in 1..Len(s) : says[i] = words[s[i]]
<1>1. Len(s) \in Nat /\ DOMAIN s = 1..Len(s) /\ \A i \in 1..Len(s) : s[i] \in S
  OBVIOUS
<1>2. \A i \in 1..Len(s) : count[s[i]] \in Nat /\ words[s[i]] \in Seq(Words)
  BY <1>1 DEF CountsBodies
<1>3. /\ costs \in [1..Len(s) -> Nat] /\ says \in [1..Len(s) -> Seq(Words)]
      /\ \A i \in 1..Len(s) : costs[i] = 1 + count[s[i]] /\ says[i] = words[s[i]]
  BY <1>1, <1>2 DEF Costs, Says
<1> QED
  BY <1>1, <1>3, SequenceOf

\* no elements are none,
LEMMA CostsOfNone ==
    ASSUME NEW count, NEW words
    PROVE  /\ Total(Costs(count, <<>>)) = 0
           /\ FlattenSeq(Says(words, <<>>)) = <<>>
<1> DEFINE costs == [i \in DOMAIN <<>> |-> 1 + count[<<>>[i]]]
           says == [i \in DOMAIN <<>> |-> words[<<>>[i]]]
<1>1. costs = <<>> /\ says = <<>>
  BY EmptyFunction
<1> QED
  BY <1>1, TotalOfNone, FlattenOfNone DEF Costs, Says

\* and so for the bodies that hold them.
LEMMA CountedOver ==
    ASSUME NEW S, NEW bodies, bodies \subseteq BodiesOver(S), bodies \subseteq Bodies,
           NEW count, NEW words, CountsBodies(count, words, S)
    PROVE  CountsBodies(EmbeddedOver(bodies, count), AllWordsOver(bodies, words), bodies)
<1> SUFFICES ASSUME NEW b \in bodies
             PROVE  LET n == EmbeddedOver(bodies, count)[b]
                        w == AllWordsOver(bodies, words)[b]
                    IN  /\ n \in Nat
                        /\ w \in Seq(Words)
                        /\ ~IsMapping(b) => n = 0 /\ w = <<>>
                        /\ b.type = "reply" /\ b.elements = <<>> => n = 0 /\ w = OwnWords(b)
  BY DEF CountsBodies
<1>1. PICK n, w : n = EmbeddedOver(bodies, count)[b] /\ w = AllWordsOver(bodies, words)[b]
  OBVIOUS
<1>2. PICK s, inner : /\ s = b.elements
                      /\ inner = IF Holds(b) THEN FlattenSeq(Says(words, s)) ELSE <<>>
  OBVIOUS
<1>3. /\ n = IF ~Holds(b) THEN 0 ELSE Total(Costs(count, s))
      /\ w = IF b.type = "junk" THEN <<>>
             ELSE IF b.type = "forward" THEN OwnWords(b) \o inner
             ELSE inner \o OwnWords(b)
  BY <1>1, <1>2 DEF EmbeddedOver, AllWordsOver, Costs, Says
<1>4. s \in Seq(S)
  BY <1>2 DEF BodiesOver
<1>5. Total(Costs(count, s)) \in Nat /\ FlattenSeq(Says(words, s)) \in Seq(Words)
  <2>1. PICK costs, says : costs = Costs(count, s) /\ says = Says(words, s)
    OBVIOUS
  <2>2. costs \in Seq(Nat) /\ says \in Seq(Seq(Words))
    BY <1>4, <2>1, CostsAre
  <2> QED
    BY <2>1, <2>2, TotalOfBoth, FlattenOfBoth
<1>6. inner \in Seq(Words)
  BY <1>2, <1>5
<1>7. OwnWords(b) \in Seq(Words)
  BY OwnContentSays
<1>8. n \in Nat /\ w \in Seq(Words)
  <2>1. n \in Nat
    BY <1>3, <1>5
  <2>2. /\ <<>> \in Seq(Words) /\ OwnWords(b) \o inner \in Seq(Words)
        /\ inner \o OwnWords(b) \in Seq(Words)
    BY <1>6, <1>7
  <2> QED
    BY <1>3, <2>1, <2>2
<1>9. ~IsMapping(b) => n = 0 /\ w = <<>>
  BY <1>3 DEF IsMapping, Holds
<1>10. b.type = "reply" /\ b.elements = <<>> => n = 0 /\ w = OwnWords(b)
  <2> SUFFICES ASSUME b.type = "reply", b.elements = <<>> PROVE n = 0 /\ w = OwnWords(b)
    OBVIOUS
  <2>1. Total(Costs(count, s)) = 0 /\ FlattenSeq(Says(words, s)) = <<>>
    BY <1>2, CostsOfNone
  <2>2. inner = <<>> /\ n = 0
    BY <1>2, <1>3, <2>1
  <2>3. w = inner \o OwnWords(b)
    BY <1>3
  <2>4. \A t \in Seq(Words) : <<>> \o t = t
    OBVIOUS
  <2> QED
    BY <1>7, <2>2, <2>3, <2>4
<1> QED
  BY <1>1, <1>8, <1>9, <1>10

\* Every nesting is counted.
LEMMA EveryNestingCounts ==
    \A m \in 0..MaxNesting : CountsBodies(EmbeddedUpTo[m], AllWordsUpTo[m], BodiesUpTo[m])
<1> DEFINE Is(m) == CountsBodies(EmbeddedUpTo[m], AllWordsUpTo[m], BodiesUpTo[m])
           Bad == {m \in 0..MaxNesting : ~Is(m)}
<1>1. SUFFICES ASSUME Bad # {} PROVE FALSE
  OBVIOUS
<1>2. PICK m \in Bad : \A k \in Bad : m <= k
  <2>1. Bad \subseteq Nat
    BY ParserAssumption
  <2> HIDE DEF Bad
  <2> QED
    BY <1>1, <2>1, LeastElement
<1>3. m \in 0..MaxNesting /\ ~Is(m)
  OBVIOUS
<1>4. PICK S, count, words : /\ S = IF m = 0 THEN {} ELSE BodiesUpTo[m - 1]
                             /\ count = IF m = 0 THEN <<>> ELSE EmbeddedUpTo[m - 1]
                             /\ words = IF m = 0 THEN <<>> ELSE AllWordsUpTo[m - 1]
  OBVIOUS
<1>5. CountsBodies(count, words, S)
  <2>1. CASE m = 0
    BY <1>4, <2>1 DEF CountsBodies
  <2>2. CASE m # 0
    <3>1. m - 1 \in 0..MaxNesting /\ ~(m <= m - 1)
      BY <1>3, <2>2, ParserAssumption
    <3>2. Is(m - 1)
      BY <1>2, <3>1
    <3> QED
      BY <1>4, <2>2, <3>2
  <2> QED
    BY <2>1, <2>2
<1>6. /\ BodiesUpTo[m] = BodiesOver(S)
      /\ EmbeddedUpTo[m] = EmbeddedOver(BodiesUpTo[m], count)
      /\ AllWordsUpTo[m] = AllWordsOver(BodiesUpTo[m], words)
  BY <1>3, <1>4, BodiesAre, EmbeddedIs, AllWordsIs
<1>7. BodiesUpTo[m] \subseteq Bodies
  BY <1>3, AllBodies
<1> QED
  BY <1>3, <1>5, <1>6, <1>7, CountedOver

(***************************************************************************)
(* What is told of a body of which spent messages of total were embedded:  *)
(* that it is cut, just if it is, and else its words.                      *)
(***************************************************************************)
WholeOrCut(marks, spent, total, words) ==
    /\ marks \in Seq(Marks)
    /\ spent \in 0..total
    /\ SaysCut(marks) <=> spent < total
    /\ spent = total => WordsIn(marks) = words

\* within parses and shown renders the bodies of S, with one level less.
Tells(within, shown, count, words, S) ==
    \A b \in S, depth \in Nat, k \in 0..MaxForwardNodes :
        IsMapping(b) =>
          WholeOrCut(shown[within[<<b, depth, k>>].out],
                     k - within[<<b, depth, k>>].budget, count[b], words[b])

TellsBelow(within, shown, trees, members, count, words, S) ==
    /\ Below(within, trees, members)
    /\ Renders(shown, trees)
    /\ S \subseteq Bodies
    /\ CountsBodies(count, words, S)
    /\ Tells(within, shown, count, words, S)

\* Leaves tell no cut, and their words if tokens are the words and nothing else.
LEMMA LeavesTell ==
    ASSUME NEW shown, NEW trees, Renders(shown, trees), NEW s \in NumberedFrom0(Leaves)
    PROVE  /\ s \in trees /\ shown[s] = Values(s) /\ shown[s] \in Seq(Marks)
           /\ ~SaysCut(shown[s])
           /\ \A words \in Seq(Words) : Values(s) = words => WordsIn(shown[s]) = words
<1>1. s \in trees /\ shown[s] = Values(s) /\ s \in Seq(Leaves)
  BY DEF Renders, NumberedFrom0
<1>2. Values(s) \in Seq(Tokens)
  BY <1>1, ValuesOfBoth
<1>3. Values(s) \in Seq(Marks) /\ ~SaysCut(Values(s))
  BY <1>2, TokensAreMarks, CutOfTokens
<1> QED
  BY <1>1, <1>3, WordsOfWords

\* An element of a forward is told of: by the level below, or it is no message.
LEMMA ElementTells ==
    ASSUME NEW within, NEW shown, NEW trees, NEW members, NEW count, NEW words, NEW S,
           TellsBelow(within, shown, trees, members, count, words, S),
           NEW element \in S, NEW depth \in Nat, NEW k \in 0..MaxForwardNodes,
           NEW r, r = ElementSegments(within, element, depth, k)
    PROVE  WholeOrCut(shown[r.out], k - r.budget, count[element], words[element])
<1>1. CASE IsMapping(element)
  <2>1. r = within[<<element, depth + 1, k>>] /\ depth + 1 \in Nat
    BY <1>1 DEF ElementSegments
  <2> QED
    BY <1>1, <2>1 DEF TellsBelow, Tells
<1>2. CASE ~IsMapping(element)
  <2>1. PICK token : token = Token("forward_node", "")
    OBVIOUS
  <2>2. token \in Tokens /\ token.kind = "forward_node"
    BY <2>1 DEF Token, Tokens, WordKinds
  <2>3. PICK leaf : leaf = Segment("unknown", <<token>>)
    OBVIOUS
  <2>4. leaf \in Leaves /\ leaf.position = 0 /\ leaf.value = <<token>>
    <3>1. <<token>> \in Seq(Tokens)
      BY <2>2
    <3> QED
      BY <2>3, <3>1, SegmentIsLeaf DEF LeafKinds, Segment
  <2>5. r.out = <<leaf>> /\ r.budget = k
    BY <1>2, <2>1, <2>3 DEF ElementSegments
  <2>6. <<leaf>> \in NumberedFrom0(Leaves)
    BY <2>4, OneSegment
  <2>7. Renders(shown, trees)
    BY DEF TellsBelow
  <2>8. /\ shown[r.out] = Values(<<leaf>>) /\ shown[r.out] \in Seq(Marks)
        /\ ~SaysCut(shown[r.out])
    BY <2>5, <2>6, <2>7, LeavesTell
  <2>9. shown[r.out] = <<token>>
    BY <2>4, <2>8, ValuesOfOne
  <2>10. WordsIn(shown[r.out]) = <<>>
    <3>1. token \in Marks /\ token.kind \notin WordKinds
      BY <2>2, TokensAreMarks DEF WordKinds
    <3> QED
      BY <2>9, <3>1, WordsOfOne
  <2>11. count[element] = 0 /\ words[element] = <<>>
    BY <1>2 DEF TellsBelow, CountsBodies
  <2>12. k - r.budget = 0
    BY <2>5, ParserAssumption
  <2> QED
    BY <2>8, <2>10, <2>11, <2>12 DEF WholeOrCut
<1> QED
  BY <1>1, <1>2

(***************************************************************************)
(* A forward.                                                              *)
(***************************************************************************)
NodesShow(shown, nodes) ==
    FlattenSeq([i \in DOMAIN nodes |-> OrEmpty(shown[nodes[i].content])])

\* A node more shows what it holds after the others.
LEMMA NodesShowMore ==
    ASSUME NEW shown, NEW trees, Renders(shown, trees),
           NEW nodes \in Seq(Nodes(trees)), NEW node \in Nodes(trees)
    PROVE  /\ NodesShow(shown, Append(nodes, node))
                = NodesShow(shown, nodes) \o OrEmpty(shown[node.content])
           /\ NodesShow(shown, nodes) \in Seq(Marks)
           /\ OrEmpty(shown[node.content]) \in Seq(Marks)
<1> DEFINE one(n) == OrEmpty(shown[n.content])
<1>1. \A n \in Nodes(trees) : one(n) \in Seq(Marks)
  <2>1. \A n \in Nodes(trees) : n.content \in trees
    BY DEF Nodes
  <2>2. \A t \in trees : shown[t] \in Seq(Marks)
    BY DEF Renders
  <2> QED
    BY <2>1, <2>2, EmptyShowsNothing
<1>2. PICK more : more = Append(nodes, node)
  OBVIOUS
<1>3. PICK a, b : /\ a = [i \in DOMAIN nodes |-> one(nodes[i])]
                  /\ b = [i \in DOMAIN more |-> one(more[i])]
  OBVIOUS
<1>4. /\ NodesShow(shown, nodes) = FlattenSeq(a)
      /\ NodesShow(shown, Append(nodes, node)) = FlattenSeq(b)
  BY <1>2, <1>3 DEF NodesShow
<1> HIDE DEF one
<1>5. /\ more \in Seq(Nodes(trees)) /\ Len(more) = Len(nodes) + 1 /\ Len(nodes) \in Nat
      /\ DOMAIN nodes = 1..Len(nodes) /\ DOMAIN more = 1..Len(nodes) + 1
      /\ more[Len(nodes) + 1] = node /\ \A i \in 1..Len(nodes) : more[i] = nodes[i]
  BY <1>2
<1>6. /\ \A i \in 1..Len(nodes) : nodes[i] \in Nodes(trees)
      /\ \A i \in 1..Len(nodes) + 1 : more[i] \in Nodes(trees)
  BY <1>5
<1>7. a \in [1..Len(nodes) -> Seq(Marks)] /\ \A i \in 1..Len(nodes) : a[i] = one(nodes[i])
  BY <1>1, <1>3, <1>5, <1>6
<1>8. b \in [1..Len(nodes) + 1 -> Seq(Marks)] /\ \A i \in 1..Len(nodes) + 1 : b[i] = one(more[i])
  BY <1>1, <1>3, <1>5, <1>6
<1>9. /\ a \in Seq(Seq(Marks)) /\ Len(a) = Len(nodes)
      /\ b \in Seq(Seq(Marks)) /\ Len(b) = Len(nodes) + 1
  <2>1. Len(nodes) + 1 \in Nat
    BY <1>5
  <2> QED
    BY <1>5, <1>7, <1>8, <2>1, SequenceOf
<1>10. b = a \o <<one(node)>>
  <2>1. PICK last : last = one(node)
    OBVIOUS
  <2>2. Len(nodes) + 1 \in 1..Len(nodes) + 1 /\ \A i \in 1..Len(nodes) : i \in 1..Len(nodes) + 1
    BY <1>5
  <2>3. b[Len(a) + 1] = last /\ \A i \in 1..Len(a) : b[i] = a[i]
    BY <1>5, <1>7, <1>8, <1>9, <2>1, <2>2
  <2>4. last \in Seq(Marks)
    BY <1>1, <2>1
  <2>5. PICK Y : Y = Seq(Marks)
    OBVIOUS
  <2>6. a \in Seq(Y) /\ b \in Seq(Y) /\ last \in Y /\ Len(b) = Len(a) + 1
    BY <1>9, <2>4, <2>5
  <2>7. b = a \o <<last>>
    BY <2>3, <2>6, OneAppended
  <2> QED
    BY <2>1, <2>7
<1>11. one(node) \in Seq(Marks) /\ <<one(node)>> \in Seq(Seq(Marks))
  <2>1. one(node) \in Seq(Marks)
    BY <1>1
  <2> QED
    BY <2>1
<1>12. FlattenSeq(b) = FlattenSeq(a) \o one(node) /\ FlattenSeq(a) \in Seq(Marks)
  <2>1. PICK c : c = <<one(node)>>
    OBVIOUS
  <2>2. c \in Seq(Seq(Marks)) /\ b = a \o c
    BY <1>10, <1>11, <2>1
  <2>3. FlattenSeq(b) = FlattenSeq(a) \o FlattenSeq(c) /\ FlattenSeq(a) \in Seq(Marks)
    BY <1>9, <2>2, FlattenOfBoth
  <2>4. FlattenSeq(c) = one(node)
    BY <1>11, <2>1, FlattenOfOne
  <2> QED
    BY <2>3, <2>4
<1> QED
  BY <1>4, <1>11, <1>12 DEF one

\* What is told of the elements taken so far.
NodesTold(shown, acc, budget, total, words) ==
    /\ NodesShow(shown, acc.nodes) \in Seq(Marks)
    /\ budget - acc.budget \in 0..total
    /\ SaysCut(NodesShow(shown, acc.nodes)) \/ acc.status = "node_limit"
         <=> budget - acc.budget < total
    /\ budget - acc.budget = total => WordsIn(NodesShow(shown, acc.nodes)) = words
    /\ acc.status # "depth_limit"

\* One more element is told of with them.
LEMMA TakeElementTells ==
    ASSUME NEW within, NEW shown, NEW trees, NEW members, NEW count, NEW words, NEW S,
           TellsBelow(within, shown, trees, members, count, words, S),
           NEW budget \in 0..MaxForwardNodes, NEW acc \in Forwarded(trees, members, budget),
           NEW element \in S, NEW depth \in Nat, NEW total \in Nat, NEW said,
           NodesTold(shown, acc, budget, total, said),
           NEW new, new = TakeElement(within, acc, element, depth)
    PROVE  NodesTold(shown, new, budget, total + (1 + count[element]), said \o words[element])
<1>1. /\ acc.nodes \in Seq(Nodes(trees)) /\ acc.budget \in 0..budget
      /\ acc.status \in ForwardStatuses
      /\ acc = [nodes |-> acc.nodes, budget |-> acc.budget, status |-> acc.status]
  BY DEF Forwarded
<1>2. count[element] \in Nat /\ budget \in Nat
  BY ParserAssumption DEF TellsBelow, CountsBodies
<1>3. CASE acc.budget = 0 \/ acc.status = "node_limit"
  <2>1. new.nodes = acc.nodes /\ new.budget = acc.budget /\ new.status = "node_limit"
    <3>1. new = [acc EXCEPT !.status = "node_limit"]
      BY <1>3 DEF TakeElement
    <3> QED
      BY <1>1, <3>1
  <2>2. /\ budget - acc.budget \in 0..total + (1 + count[element])
        /\ budget - acc.budget < total + (1 + count[element])
    BY <1>1, <1>2 DEF NodesTold
  <2>3. NodesShow(shown, acc.nodes) \in Seq(Marks)
    BY DEF NodesTold
  <2> QED
    BY <2>1, <2>2, <2>3 DEF NodesTold
<1>4. CASE ~(acc.budget = 0 \/ acc.status = "node_limit")
  <2>1. PICK inner : inner = ElementSegments(within, element, depth, acc.budget - 1)
    OBVIOUS
  <2>2. PICK node : node = ForwardNode(element, inner.out, depth)
    OBVIOUS
  <2>3. /\ new.nodes = Append(acc.nodes, node) /\ new.budget = inner.budget
        /\ new.status = IF IsMapping(element) THEN acc.status ELSE "invalid_content"
    BY <1>4, <2>1, <2>2 DEF TakeElement
  <2>4. acc.budget - 1 \in 0..MaxForwardNodes
    BY <1>1, <1>2, <1>4, ParserAssumption
  <2>5. WholeOrCut(shown[inner.out], (acc.budget - 1) - inner.budget,
                   count[element], words[element])
    BY <2>1, <2>4, ElementTells
  <2>6. PaidFor(inner, trees, members, acc.budget - 1)
    <3>1. element \in Bodies /\ Below(within, trees, members)
      BY DEF TellsBelow
    <3> QED
      BY <2>1, <2>4, <3>1, ElementIsPaidFor
  <2>7. inner.out \in trees /\ inner.budget \in Int
    BY <2>6 DEF PaidFor
  <2>8. node \in Nodes(trees) /\ node.content = inner.out
    <3>1. element.author \in STRING
      BY BodiesWithin DEF BodiesOver, TellsBelow
    <3> QED
      BY <2>2, <2>7, <3>1 DEF ForwardNode, Nodes
  <2>9. PICK old, part, all : /\ old = NodesShow(shown, acc.nodes)
                              /\ part = shown[inner.out]
                              /\ all = NodesShow(shown, new.nodes)
    OBVIOUS
  <2>10. /\ all = old \o OrEmpty(part) /\ old \in Seq(Marks) /\ OrEmpty(part) \in Seq(Marks)
         /\ part \in Seq(Marks)
    <3>1. Renders(shown, trees)
      BY DEF TellsBelow
    <3>2. part \in Seq(Marks)
      BY <2>5, <2>9 DEF WholeOrCut
    <3> QED
      BY <1>1, <2>3, <2>8, <2>9, <3>1, <3>2, NodesShowMore
  <2>11. all \in Seq(Marks)
    BY <2>10
  <2>12. SaysCut(all) <=> SaysCut(old) \/ SaysCut(part)
    BY <2>10, CutOfBoth, EmptyShowsNothing
  <2>13. WordsIn(all) = WordsIn(old) \o WordsIn(part)
    BY <2>10, WordsOfBoth, EmptyShowsNothing
  <2>14. new.status # "node_limit" /\ new.status # "depth_limit"
    BY <1>4, <2>3 DEF NodesTold
  <2>15. PICK a, b, n : /\ a = budget - acc.budget
                        /\ b = (acc.budget - 1) - inner.budget
                        /\ n = count[element]
    OBVIOUS
  <2>16. /\ a \in 0..total /\ b \in 0..n /\ n \in Nat
         /\ budget - new.budget = a + (1 + b)
    <3>1. a \in 0..total /\ b \in 0..n
      BY <2>5, <2>15 DEF WholeOrCut, NodesTold
    <3>2. budget - inner.budget = a + (1 + b)
      BY <1>1, <1>2, <2>7, <2>15
    <3> QED
      BY <1>2, <2>3, <2>15, <3>1, <3>2
  <2>17. /\ SaysCut(old) <=> a < total
         /\ a = total => WordsIn(old) = said
         /\ SaysCut(part) <=> b < n
         /\ b = n => WordsIn(part) = words[element]
    BY <1>4, <2>5, <2>9, <2>15 DEF WholeOrCut, NodesTold
  <2>18. /\ a + (1 + b) \in 0..total + (1 + n)
         /\ a + (1 + b) < total + (1 + n) <=> a < total \/ b < n
         /\ a + (1 + b) = total + (1 + n) => a = total /\ b = n
    BY <2>16
  <2>19. budget - new.budget = total + (1 + n) => WordsIn(all) = said \o words[element]
    BY <2>13, <2>16, <2>17, <2>18
  <2>20. SaysCut(all) \/ new.status = "node_limit" <=> budget - new.budget < total + (1 + n)
    BY <2>12, <2>14, <2>16, <2>17, <2>18
  <2>21. budget - new.budget \in 0..total + (1 + n)
    BY <2>16, <2>18
  <2> QED
    BY <2>9, <2>11, <2>14, <2>15, <2>19, <2>20, <2>21 DEF NodesTold
<1> QED
  BY <1>3, <1>4

\* No node shows anything.
LEMMA NoNodesShow ==
    ASSUME NEW shown
    PROVE  /\ NodesShow(shown, <<>>) = <<>>
           /\ <<>> \in Seq(Marks) /\ ~SaysCut(<<>>) /\ WordsIn(<<>>) = <<>>
<1> DEFINE parts == [i \in DOMAIN <<>> |-> OrEmpty(shown[<<>>[i].content])]
<1>1. parts = <<>>
  BY EmptyFunction
<1>2. NodesShow(shown, <<>>) = <<>>
  BY <1>1, FlattenOfNone DEF NodesShow
<1>3. <<>> \in Seq(Marks) /\ ~SaysCut(<<>>)
  BY DEF SaysCut
<1> QED
  BY <1>2, <1>3, WordsOfNone

\* So all elements together are told of.
LEMMA ElementsTell ==
    ASSUME NEW within, NEW shown, NEW trees, NEW members, NEW count, NEW words, NEW S,
           TellsBelow(within, shown, trees, members, count, words, S),
           NEW s \in Seq(S), NEW depth \in Nat, NEW budget \in 0..MaxForwardNodes
    PROVE  NodesTold(shown, TakenElements(within, s, depth, budget), budget,
                     Total(Costs(count, s)), FlattenSeq(Says(words, s)))
<1> DEFINE n == Len(s)
<1>1. /\ Below(within, trees, members) /\ s \in Seq(Bodies) /\ CountsBodies(count, words, S)
      /\ budget \in Nat
  BY ParserAssumption DEF TellsBelow
<1>2. PICK A : ElementsFold(A, within, trees, members, s, depth, budget)
  BY <1>1, ElementsAreFolded
<1>2a. /\ A[0] = NoNodes("embedded", budget)
       /\ A[n] = TakenElements(within, s, depth, budget)
       /\ \A k \in 0..n : A[k] \in Forwarded(trees, members, budget)
       /\ \A k \in 1..n : A[k] = TakeElement(within, A[k - 1], s[k], depth)
  BY <1>2 DEF ElementsFold
<1>3. PICK costs, says : costs = Costs(count, s) /\ says = Says(words, s)
  OBVIOUS
<1> HIDE DEF n
<1>4. /\ n \in Nat /\ \A i \in 1..n : s[i] \in S
      /\ costs \in Seq(Nat) /\ Len(costs) = n
      /\ \A i \in 1..n : costs[i] = 1 + count[s[i]]
      /\ says \in Seq(Seq(Words)) /\ Len(says) = n
      /\ \A i \in 1..n : says[i] = words[s[i]]
  <2>1. /\ Len(s) \in Nat /\ \A i \in 1..Len(s) : s[i] \in S
        /\ costs \in Seq(Nat) /\ Len(costs) = Len(s)
        /\ \A i \in 1..Len(s) : costs[i] = 1 + count[s[i]]
        /\ says \in Seq(Seq(Words)) /\ Len(says) = Len(s)
        /\ \A i \in 1..Len(s) : says[i] = words[s[i]]
    <3>1. CountsBodies(count, words, S) /\ costs = Costs(count, s) /\ says = Says(words, s)
      BY <1>1, <1>3
    <3> QED
      BY <3>1, CostsAre
  <2> QED
    BY <2>1 DEF n
<1>5. PICK f \in [0..n -> Nat] : /\ f[0] = 0
                                 /\ \A k \in 1..n : f[k] = f[k - 1] + costs[k]
                                 /\ Total(costs) = f[n]
  BY <1>4, TotalSteps
<1>6. PICK g \in [0..n -> Seq(Words)] : /\ g[0] = <<>>
                                        /\ \A k \in 1..n : g[k] = g[k - 1] \o says[k]
                                        /\ FlattenSeq(says) = g[n]
  BY <1>4, FlattenSteps
<1> DEFINE good == {k \in 0..n : NodesTold(shown, A[k], budget, f[k], g[k])}
<1>7. 0 \in good
  <2>1. A[0].nodes = <<>> /\ A[0].budget = budget /\ A[0].status = "embedded"
    BY <1>2a DEF NoNodes
  <2>2. budget - budget = 0 /\ 0 \in 0..n
    BY <1>1, <1>4
  <2> QED
    BY <1>5, <1>6, <2>1, <2>2, NoNodesShow DEF NodesTold
<1>8. ASSUME NEW k \in 1..n, k - 1 \in good PROVE k \in good
  <2>1. k \in 0..n /\ k - 1 \in 0..n
    BY <1>4
  <2>2. PICK acc, new, element, total, said :
          /\ acc = A[k - 1] /\ new = A[k] /\ element = s[k]
          /\ total = f[k - 1] /\ said = g[k - 1]
    OBVIOUS
  <2>3. /\ acc \in Forwarded(trees, members, budget) /\ element \in S /\ total \in Nat
        /\ NodesTold(shown, acc, budget, total, said)
        /\ new = TakeElement(within, acc, element, depth)
    BY <1>2a, <1>4, <1>8, <2>1, <2>2
  <2>4. NodesTold(shown, new, budget, total + (1 + count[element]), said \o words[element])
    BY <2>3, TakeElementTells
  <2>5. f[k] = total + (1 + count[element]) /\ g[k] = said \o words[element]
    BY <1>4, <1>5, <1>6, <2>2
  <2> QED
    BY <2>1, <2>2, <2>4, <2>5
<1>9. n \in good
  <2>1. n \in 0..n
    BY <1>4
  <2> HIDE DEF good
  <2> QED
    BY <1>4, <1>7, <1>8, <2>1, IntervalHolds
<1>10. NodesTold(shown, A[n], budget, f[n], g[n])
  BY <1>9
<1> QED
  BY <1>2a, <1>3, <1>5, <1>6, <1>10

\* What is told of all a forward holds.
ForwardTold(marks, status, spent, total, words) ==
    /\ marks \in Seq(Marks)
    /\ spent \in 0..total
    /\ SaysCut(marks) \/ status \in CutMarks <=> spent < total
    /\ spent = total => WordsIn(marks) = words

\* What a body holds: how many messages, and their words.
HeldCount(count, body) == IF Holds(body) THEN Total(Costs(count, body.elements)) ELSE 0
HeldWords(words, body) == IF Holds(body) THEN FlattenSeq(Says(words, body.elements)) ELSE <<>>

\* Elements that are not taken at all are some.
LEMMA ElementsCost ==
    ASSUME NEW count, NEW words, NEW S, CountsBodies(count, words, S), NEW s \in Seq(S), s # <<>>
    PROVE  Total(Costs(count, s)) \in Nat /\ 0 < Total(Costs(count, s))
<1> DEFINE n == Len(s)
<1>1. PICK costs, says : costs = Costs(count, s) /\ says = Says(words, s)
  OBVIOUS
<1>2. /\ costs \in Seq(Nat) /\ Len(costs) = n
      /\ \A i \in 1..n : costs[i] = 1 + count[s[i]] /\ s[i] \in S
  BY <1>1, CostsAre
<1>3. n \in Nat \ {0}
  BY EmptySeq
<1> HIDE DEF n
<1>4. PICK f \in [0..n -> Nat] : /\ \A k \in 1..n : f[k] = f[k - 1] + costs[k]
                                 /\ Total(costs) = f[n]
  BY <1>2, TotalSteps
<1>5. n \in 1..n /\ n - 1 \in 0..n
  BY <1>3
<1>6. costs[n] = 1 + count[s[n]] /\ count[s[n]] \in Nat
  BY <1>2, <1>5 DEF CountsBodies
<1>7. f[n] = f[n - 1] + costs[n] /\ f[n - 1] \in Nat
  BY <1>4, <1>5
<1> QED
  BY <1>1, <1>4, <1>6, <1>7

\* A forward takes its elements, none, or says that it is cut.
LEMMA ForwardNodesTell ==
    ASSUME NEW left \in Nat, NEW within, NEW shown, NEW trees, NEW members,
           NEW count, NEW words, NEW S, CountsBodies(count, words, S),
           left # 0 => TellsBelow(within, shown, trees, members, count, words, S),
           NEW body, body.type = "forward", body.listed \in BOOLEAN, body.elements \in Seq(S),
           NEW depth \in Nat, NEW budget \in 0..MaxForwardNodes,
           NEW taken, taken = ForwardNodes(within, left, body, depth, budget)
    PROVE  ForwardTold(NodesShow(shown, taken.nodes), taken.status, budget - taken.budget,
                       HeldCount(count, body), HeldWords(words, body))
<1>0. budget \in Nat /\ budget - budget = 0
  BY ParserAssumption
<1>5. ASSUME taken.nodes = <<>>, taken.budget = budget, NEW total \in Nat,
             taken.status \in CutMarks <=> 0 < total, total = 0 => HeldWords(words, body) = <<>>
      PROVE  ForwardTold(NodesShow(shown, taken.nodes), taken.status, budget - taken.budget,
                         total, HeldWords(words, body))
  <2>1. PICK marks : marks = NodesShow(shown, taken.nodes)
    OBVIOUS
  <2>2. marks = <<>> /\ marks \in Seq(Marks) /\ ~SaysCut(marks) /\ WordsIn(marks) = <<>>
    BY <1>5, <2>1, NoNodesShow
  <2>3. PICK spent : spent = budget - taken.budget
    OBVIOUS
  <2>4. spent = 0 /\ spent \in 0..total
    BY <1>0, <1>5, <2>3
  <2> QED
    BY <1>5, <2>1, <2>2, <2>3, <2>4 DEF ForwardTold
<1>1. CASE ~body.listed
  <2>1. taken.nodes = <<>> /\ taken.budget = budget /\ taken.status = "invalid_content"
    BY <1>1 DEF ForwardNodes, NoNodes
  <2>2. HeldCount(count, body) = 0 /\ HeldWords(words, body) = <<>>
    BY <1>1 DEF HeldCount, HeldWords, Holds
  <2>3. taken.status \in CutMarks <=> 0 < HeldCount(count, body)
    BY <2>1, <2>2 DEF CutMarks
  <2> QED
    BY <1>5, <2>1, <2>2, <2>3
<1>2. CASE body.listed /\ body.elements = <<>>
  <2>1. taken.nodes = <<>> /\ taken.budget = budget /\ taken.status = "unresolved"
    BY <1>2 DEF ForwardNodes, NoNodes
  <2>2. HeldCount(count, body) = 0 /\ HeldWords(words, body) = <<>>
    BY <1>2, CostsOfNone DEF HeldCount, HeldWords
  <2>3. taken.status \in CutMarks <=> 0 < HeldCount(count, body)
    BY <2>1, <2>2 DEF CutMarks
  <2> QED
    BY <1>5, <2>1, <2>2, <2>3
<1>3. CASE body.listed /\ body.elements # <<>> /\ left = 0
  <2>1. taken.nodes = <<>> /\ taken.budget = budget /\ taken.status = "depth_limit"
    BY <1>3 DEF ForwardNodes, NoNodes
  <2>2. HeldCount(count, body) \in Nat /\ 0 < HeldCount(count, body)
    BY <1>3, ElementsCost DEF HeldCount, Holds
  <2>3. taken.status \in CutMarks <=> 0 < HeldCount(count, body)
    BY <2>1, <2>2 DEF CutMarks
  <2> QED
    BY <1>5, <2>1, <2>2, <2>3
<1>4. CASE body.listed /\ body.elements # <<>> /\ left # 0
  <2>1. taken = TakenElements(within, body.elements, depth, budget)
    BY <1>4 DEF ForwardNodes, TakenElements
  <2>2. /\ HeldCount(count, body) = Total(Costs(count, body.elements))
        /\ HeldWords(words, body) = FlattenSeq(Says(words, body.elements))
    BY <1>4 DEF HeldCount, HeldWords, Holds
  <2>3. NodesTold(shown, taken, budget, HeldCount(count, body), HeldWords(words, body))
    BY <1>4, <2>1, <2>2, ElementsTell
  <2>4. taken.status \in CutMarks <=> taken.status = "node_limit"
    BY <2>3 DEF NodesTold, CutMarks
  <2> QED
    BY <2>3, <2>4 DEF NodesTold, ForwardTold
<1> QED
  BY <1>1, <1>2, <1>3, <1>4

\* So what a forward shows tells what it holds after its own words.
LEMMA ForwardTells ==
    ASSUME NEW left \in Nat, NEW within, NEW shown, NEW trees, NEW members,
           NEW count, NEW words, NEW S, CountsBodies(count, words, S), Renders(shown, trees),
           left # 0 => TellsBelow(within, shown, trees, members, count, words, S),
           NEW body \in Bodies, body.type = "forward", body.elements \in Seq(S),
           NEW depth \in Nat, NEW budget \in 0..MaxForwardNodes,
           NEW r, r = ParseSegments(within, left, body, depth, budget)
    PROVE  WholeOrCut(Shows(shown, r.out), budget - r.budget, HeldCount(count, body),
                      OwnWords(body) \o HeldWords(words, body))
<1>1. PICK taken : taken = ForwardNodes(within, left, body, depth, budget)
  OBVIOUS
<1>2. body.listed \in BOOLEAN
  BY BodiesWithin DEF BodiesOver
<1>3. ForwardTold(NodesShow(shown, taken.nodes), taken.status, budget - taken.budget,
                  HeldCount(count, body), HeldWords(words, body))
  BY <1>1, <1>2, ForwardNodesTell
<1>4. taken \in Forwarded(trees, members, budget)
  BY <1>1, ForwardIsPaidFor DEF TellsBelow
<1>5. PICK s : s = ForwardSegment(body, taken)
  OBVIOUS
<1>6. s = [kind |-> "forward", position |-> 0, value |-> <<>>, status |-> taken.status,
           content |-> MessageLikeSegments(body, 0), nodes |-> taken.nodes,
           resolved |-> <<>>]
  BY <1>5 DEF ForwardSegment, Segment
<1>7. s \in Forwards(trees)
  <2>1. MessageLikeSegments(body, 0) \in NumberedFrom0(Leaves)
    BY OwnIsNumbered
  <2>2. taken.nodes \in Seq(Nodes(trees)) /\ taken.status \in ForwardStatuses
    BY <1>4 DEF Forwarded
  <2> QED
    BY <1>6, <2>1, <2>2 DEF Forwards, ForwardStatuses, Nodes
<1>8. r.out = <<s>> /\ r.budget = taken.budget
  BY <1>1, <1>5 DEF ParseSegments
<1>9. PICK content, header, nodes : /\ content = shown[s.content]
                                    /\ header = ForwardHeader(s, content)
                                    /\ nodes = NodesShow(shown, taken.nodes)
  OBVIOUS
<1>10. RenderSegment(shown, s) = (<<header>> \o content) \o nodes
  BY <1>6, <1>9 DEF RenderSegment, RenderForward, NodesShow
<1>11. content = OwnWords(body) /\ content \in Seq(Marks) /\ ~SaysCut(content)
       /\ WordsIn(content) = OwnWords(body) /\ OwnWords(body) \in Seq(Words)
  <2>1. /\ Values(MessageLikeSegments(body, 0)) = OwnWords(body)
        /\ OwnWords(body) \in Seq(Words)
    BY OwnContentSays
  <2>2. MessageLikeSegments(body, 0) \in NumberedFrom0(Leaves)
    BY OwnIsNumbered
  <2>3. content = shown[MessageLikeSegments(body, 0)]
    BY <1>6, <1>9
  <2> QED
    BY <2>1, <2>2, <2>3, LeavesTell
<1>12. /\ header \in Marks /\ header.kind = "forward"
       /\ header.v \in CutMarks <=> taken.status \in CutMarks
  BY <1>6, <1>7, <1>9, HeaderIsMark
<1>13. PICK first, top : first = <<header>> /\ top = first \o content
  OBVIOUS
<1>14. /\ first \in Seq(Marks) /\ WordsIn(first) = <<>>
       /\ SaysCut(first) <=> taken.status \in CutMarks
  <2>1. header.kind \notin WordKinds
    BY <1>12 DEF WordKinds
  <2>2. first \in Seq(Marks)
    BY <1>12, <1>13
  <2> QED
    BY <1>12, <1>13, <2>1, <2>2, WordsOfOne, CutOfOne
<1>15. /\ top \in Seq(Marks)
       /\ SaysCut(top) <=> taken.status \in CutMarks
       /\ WordsIn(top) = OwnWords(body)
  <2>1. top \in Seq(Marks)
    BY <1>11, <1>13, <1>14
  <2>2. SaysCut(top) <=> taken.status \in CutMarks
    BY <1>11, <1>13, <1>14, CutOfBoth
  <2>3. WordsIn(top) = WordsIn(first) \o WordsIn(content)
    BY <1>11, <1>13, <1>14, WordsOfBoth
  <2>4. \A t \in Seq(Words) : <<>> \o t = t
    OBVIOUS
  <2>5. WordsIn(top) = OwnWords(body)
    BY <1>11, <1>14, <2>3, <2>4
  <2> QED
    BY <2>1, <2>2, <2>5
<1>16. PICK all : all = top \o nodes
  OBVIOUS
<1>17. /\ all \in Seq(Marks)
       /\ SaysCut(all) <=> SaysCut(nodes) \/ taken.status \in CutMarks
       /\ WordsIn(all) = OwnWords(body) \o WordsIn(nodes)
  <2>1. nodes \in Seq(Marks)
    BY <1>3, <1>9 DEF ForwardTold
  <2>2. all \in Seq(Marks)
    BY <1>15, <1>16, <2>1
  <2>3. SaysCut(all) <=> SaysCut(top) \/ SaysCut(nodes)
    BY <1>15, <1>16, <2>1, CutOfBoth
  <2>4. WordsIn(all) = WordsIn(top) \o WordsIn(nodes)
    BY <1>15, <1>16, <2>1, WordsOfBoth
  <2> QED
    BY <1>15, <2>2, <2>3, <2>4
<1>18. Shows(shown, r.out) = all
  <2>1. RenderSegment(shown, s) = all
    BY <1>10, <1>13, <1>16
  <2> QED
    BY <1>8, <1>17, <2>1, ShowsOfOne
<1> QED
  BY <1>3, <1>8, <1>9, <1>17, <1>18 DEF WholeOrCut, ForwardTold

(***************************************************************************)
(* A reply.                                                                *)
(***************************************************************************)
\* The mark of a quote that is not resolved is no word, and tells of a limit.
LEMMA QuoteIsMark ==
    ASSUME NEW status \in QuoteStatuses, NEW marks, marks = <<Token("quote", status)>>
    PROVE  /\ marks \in Seq(Marks) /\ WordsIn(marks) = <<>>
           /\ SaysCut(marks) <=> status \in CutMarks
<1>1. PICK m : m = Token("quote", status)
  OBVIOUS
<1>2. m \in Marks /\ m.kind = "quote" /\ m.v = status
  BY <1>1 DEF Token, Marks, MarkKinds, QuoteStatuses
<1>3. m.kind \notin WordKinds
  BY <1>2 DEF WordKinds
<1>4. <<m>> \in Seq(Marks)
  BY <1>2
<1> QED
  BY <1>1, <1>2, <1>3, <1>4, WordsOfOne, CutOfOne

\* A quote is told of: by the level below, by its own content, or as not resolved.
LEMMA QuoteTells ==
    ASSUME NEW within, NEW shown, NEW trees, NEW members, NEW count, NEW words, NEW S,
           TellsBelow(within, shown, trees, members, count, words, S),
           NEW element \in S, NEW depth \in Nat, NEW k \in 0..MaxForwardNodes,
           NEW r, r = ResolvedReply(within, element, depth, k),
           NEW s \in Replies(trees), s.status = "unresolved", s.resolved = r.out
    PROVE  WholeOrCut(RenderSegment(shown, s), k - r.budget, count[element], words[element])
<1>0. k \in Nat /\ element \in Bodies /\ Renders(shown, trees) /\ CountsBodies(count, words, S)
  BY ParserAssumption DEF TellsBelow
<1>1. PICK marks : marks = RenderSegment(shown, s)
  OBVIOUS
<1>2. marks = RenderReply(shown, s)
  BY <1>1 DEF RenderSegment, Replies
<1>3. ASSUME r.out = <<>>
      PROVE  marks \in Seq(Marks) /\ WordsIn(marks) = <<>> /\ ~SaysCut(marks)
  <2>1. marks = <<Token("quote", "unresolved")>>
    BY <1>2, <1>3 DEF RenderReply
  <2> QED
    BY <2>1, QuoteIsMark DEF QuoteStatuses, CutMarks
<1>4. CASE ~IsMapping(element)
  <2>1. r.out = <<>> /\ r.budget = k
    BY <1>4 DEF ResolvedReply
  <2>2. count[element] = 0 /\ words[element] = <<>>
    BY <1>0, <1>4 DEF CountsBodies
  <2>3. k - r.budget = 0
    BY <1>0, <2>1
  <2> QED
    BY <1>1, <1>3, <2>1, <2>2, <2>3 DEF WholeOrCut
<1>5. CASE IsMapping(element)
  <2> DEFINE own == element.type = "reply" /\ element.listed /\ element.elements = <<>>
             inner == IF own THEN [out |-> MessageLikeSegments(element, 0), budget |-> k]
                      ELSE within[<<element, depth, k>>]
             quote == [author |-> element.author, segments |-> inner.out]
  <2>1. /\ r.out = IF inner.out = <<>> THEN <<>> ELSE <<quote>>
        /\ r.budget = inner.budget
    BY <1>5 DEF ResolvedReply
  <2>2. WholeOrCut(shown[inner.out], k - inner.budget, count[element], words[element])
    <3>1. CASE own
      <4>1. inner.out = MessageLikeSegments(element, 0) /\ inner.budget = k
        BY <3>1
      <4>2. count[element] = 0 /\ words[element] = OwnWords(element)
        BY <1>0, <3>1 DEF CountsBodies
      <4>3. /\ Values(MessageLikeSegments(element, 0)) = OwnWords(element)
            /\ OwnWords(element) \in Seq(Words)
        BY <1>0, OwnContentSays
      <4>4. MessageLikeSegments(element, 0) \in NumberedFrom0(Leaves)
        BY <1>0, OwnIsNumbered
      <4>5. PICK part : part = shown[MessageLikeSegments(element, 0)]
        OBVIOUS
      <4>6. part \in Seq(Marks) /\ ~SaysCut(part) /\ WordsIn(part) = OwnWords(element)
        BY <1>0, <4>3, <4>4, <4>5, LeavesTell
      <4>7. k - k = 0
        BY <1>0
      <4> HIDE DEF inner
      <4> QED
        BY <4>1, <4>2, <4>5, <4>6, <4>7 DEF WholeOrCut
    <3>2. CASE ~own
      <4>1. inner = within[<<element, depth, k>>]
        BY <3>2
      <4> HIDE DEF inner, own
      <4> QED
        BY <1>5, <4>1 DEF TellsBelow, Tells
    <3> QED
      BY <3>1, <3>2
  <2> HIDE DEF inner
  <2>3. PICK part : part = shown[inner.out]
    OBVIOUS
  <2>4. WholeOrCut(part, k - r.budget, count[element], words[element])
    BY <2>1, <2>2, <2>3
  <2>5. CASE inner.out = <<>>
    <3>1. <<>> \in NumberedFrom0(Leaves)
      BY DEF NumberedFrom0
    <3>2. part = <<>>
      BY <1>0, <2>3, <2>5, <3>1, ValuesOfNone DEF Renders
    <3>3. ~SaysCut(part) /\ WordsIn(part) = <<>>
      BY <3>2, NoNodesShow
    <3>4. r.out = <<>>
      BY <2>1, <2>5
    <3> QED
      BY <1>1, <1>3, <2>4, <3>3, <3>4 DEF WholeOrCut
  <2>6. CASE inner.out # <<>>
    <3>1. r.out = <<quote>>
      BY <2>1, <2>6
    <3>2. s.resolved # <<>> /\ s.resolved[1] = quote
      BY <3>1
    <3>3. PICK first, rest : first = <<Token("quoted", element.author)>> /\ rest = OrEmpty(part)
      OBVIOUS
    <3>4. marks = first \o rest
      BY <1>2, <2>3, <3>2, <3>3 DEF RenderReply
    <3>5. first \in Seq(Marks) /\ WordsIn(first) = <<>> /\ ~SaysCut(first)
      <4>1. element.author \in STRING
        BY <1>0, BodiesWithin DEF BodiesOver
      <4>2. PICK m : m = Token("quoted", element.author)
        OBVIOUS
      <4>3. m \in Marks /\ m.kind = "quoted"
        BY <4>1, <4>2 DEF Token, Marks, MarkKinds
      <4>4. m.kind \notin WordKinds
        BY <4>3 DEF WordKinds
      <4>5. <<m>> \in Seq(Marks)
        BY <4>3
      <4> QED
        BY <3>3, <4>2, <4>3, <4>4, <4>5, WordsOfOne, CutOfOne
    <3>6. /\ rest \in Seq(Marks) /\ WordsIn(rest) = WordsIn(part)
          /\ SaysCut(rest) <=> SaysCut(part)
      BY <2>4, <3>3, EmptyShowsNothing DEF WholeOrCut
    <3>7. marks \in Seq(Marks)
      BY <3>4, <3>5, <3>6
    <3>8. SaysCut(marks) <=> SaysCut(part)
      BY <3>4, <3>5, <3>6, CutOfBoth
    <3>9. WordsIn(marks) = WordsIn(part)
      <4>1. WordsIn(marks) = WordsIn(first) \o WordsIn(rest) /\ WordsIn(rest) \in Seq(Marks)
        BY <3>4, <3>5, <3>6, WordsOfBoth
      <4>2. \A t \in Seq(Marks) : <<>> \o t = t
        OBVIOUS
      <4> QED
        BY <3>5, <3>6, <4>1, <4>2
    <3> QED
      BY <1>1, <2>4, <3>7, <3>8, <3>9 DEF WholeOrCut
  <2> QED
    BY <2>5, <2>6
<1> QED
  BY <1>4, <1>5

\* What is told of the quotes taken so far.
QuotesTold(shown, acc, budget, total, words) ==
    /\ WholeOrCut(Shows(shown, acc.replies), budget - acc.budget, total, words)
    /\ acc.stopped => SaysCut(Shows(shown, acc.replies))

\* A reply more shows itself after the others.
LEMMA RepliesShowMore ==
    ASSUME NEW shown, NEW trees, Renders(shown, trees),
           NEW replies \in Seq(Replies(trees)), NEW s \in Replies(trees)
    PROVE  /\ Shows(shown, Append(replies, s)) = Shows(shown, replies) \o RenderSegment(shown, s)
           /\ Shows(shown, replies) \in Seq(Marks)
           /\ RenderSegment(shown, s) \in Seq(Marks)
<1>1. Shown(shown, Replies(trees))
  <2>1. NumberedFrom0(Leaves) \subseteq trees /\ \A t \in trees : shown[t] \in Seq(Marks)
    BY DEF Renders
  <2>2. Replies(trees) \subseteq SegmentsOver(trees)
    BY DEF SegmentsOver
  <2> QED
    BY <2>1, <2>2, SegmentRenders DEF Shown
<1>2. PICK X, one : X = Replies(trees) /\ one = <<s>>
  OBVIOUS
<1>3. replies \in Seq(X) /\ one \in Seq(X) /\ Shown(shown, X)
  BY <1>1, <1>2
<1>4. Append(replies, s) = replies \o one
  BY <1>2
<1>5. /\ Shows(shown, replies \o one) = Shows(shown, replies) \o Shows(shown, one)
      /\ Shows(shown, replies) \in Seq(Marks)
  BY <1>3, ShowsOfBoth
<1>6. RenderSegment(shown, s) \in Seq(Marks)
  BY <1>1 DEF Shown
<1>7. Shows(shown, one) = RenderSegment(shown, s)
  BY <1>2, <1>6, ShowsOfOne
<1> QED
  BY <1>4, <1>5, <1>6, <1>7

\* One more quote is told of with them.
LEMMA TakeQuoteTells ==
    ASSUME NEW within, NEW shown, NEW trees, NEW members, NEW count, NEW words, NEW S,
           TellsBelow(within, shown, trees, members, count, words, S),
           NEW budget \in 0..MaxForwardNodes, NEW acc \in Quoted(trees, members, budget),
           NEW element \in S, NEW depth \in Nat, NEW total \in Nat, NEW said,
           QuotesTold(shown, acc, budget, total, said),
           NEW new, new = TakeQuote(within, acc, element, depth)
    PROVE  QuotesTold(shown, new, budget, total + (1 + count[element]), said \o words[element])
<1>1. /\ acc.replies \in Seq(Replies(trees)) /\ acc.budget \in 0..budget
      /\ acc.stopped \in BOOLEAN
      /\ acc = [replies |-> acc.replies, budget |-> acc.budget, stopped |-> acc.stopped]
      /\ Len(acc.replies) \in Nat
  BY DEF Quoted
<1>2. count[element] \in Nat /\ budget \in Nat
  BY ParserAssumption DEF TellsBelow, CountsBodies
<1>3. Renders(shown, trees) /\ Below(within, trees, members) /\ element \in Bodies
  BY DEF TellsBelow
<1>4. PICK old, all, a, n : /\ old = Shows(shown, acc.replies) /\ all = Shows(shown, new.replies)
                            /\ a = budget - acc.budget /\ n = count[element]
  OBVIOUS
<1>5. /\ old \in Seq(Marks) /\ a \in 0..total /\ n \in Nat
      /\ SaysCut(old) <=> a < total
      /\ a = total => WordsIn(old) = said
      /\ acc.stopped => SaysCut(old)
  BY <1>2, <1>4 DEF QuotesTold, WholeOrCut
<1>6. CASE acc.stopped
  <2>1. new = acc
    BY <1>6 DEF TakeQuote
  <2>2. SaysCut(old) /\ a < total + (1 + n) /\ a \in 0..total + (1 + n) /\ a # total + (1 + n)
    BY <1>5, <1>6
  <2> QED
    BY <1>4, <1>5, <2>1, <2>2 DEF QuotesTold, WholeOrCut
<1>7. CASE ~acc.stopped /\ acc.budget = 0
  <2>1. PICK s : s = Reply("node_limit", Len(acc.replies))
    OBVIOUS
  <2>2. s \in Replies(trees) /\ s.resolved = <<>>
    BY <1>1, <2>1, ReplyWithout DEF QuoteStatuses
  <2>3. /\ new.replies = Append(acc.replies, s) /\ new.budget = acc.budget /\ new.stopped = TRUE
    <3>1. new = [acc EXCEPT !.replies = Append(acc.replies, s), !.stopped = TRUE]
      BY <1>7, <2>1 DEF TakeQuote
    <3> QED
      BY <1>1, <3>1
  <2>4. PICK mark : mark = RenderSegment(shown, s)
    OBVIOUS
  <2>5. all = old \o mark /\ mark \in Seq(Marks)
    BY <1>1, <1>3, <1>4, <2>2, <2>3, <2>4, RepliesShowMore
  <2>6. mark = <<Token("quote", "node_limit")>>
    BY <2>1, <2>4 DEF RenderSegment, RenderReply, Reply, Segment
  <2>7. SaysCut(mark)
    BY <2>6, QuoteIsMark DEF QuoteStatuses, CutMarks
  <2>8. all \in Seq(Marks) /\ SaysCut(all)
    BY <1>5, <2>5, <2>7, CutOfBoth
  <2>9. a < total + (1 + n) /\ a \in 0..total + (1 + n) /\ a # total + (1 + n)
    BY <1>5
  <2> QED
    BY <1>4, <2>3, <2>8, <2>9 DEF QuotesTold, WholeOrCut
<1>8. CASE ~acc.stopped /\ acc.budget # 0
  <2>1. PICK inner : inner = ResolvedReply(within, element, depth, acc.budget - 1)
    OBVIOUS
  <2>2. PICK s : s = [Reply("unresolved", Len(acc.replies)) EXCEPT !.resolved = inner.out]
    OBVIOUS
  <2>3. /\ new.replies = Append(acc.replies, s) /\ new.budget = inner.budget
        /\ new.stopped = acc.stopped
    <3>1. new = [acc EXCEPT !.replies = Append(acc.replies, s), !.budget = inner.budget]
      BY <1>8, <2>1, <2>2 DEF TakeQuote
    <3> QED
      BY <1>1, <3>1
  <2>4. acc.budget - 1 \in 0..MaxForwardNodes
    BY <1>1, <1>2, <1>8, ParserAssumption
  <2>5. /\ inner.out \in Seq(Quotes(trees)) /\ Len(inner.out) <= 1
        /\ inner.budget \in 0..(acc.budget - 1)
    BY <1>3, <2>1, <2>4, ResolvedIsPaidFor
  <2>6. s \in Replies(trees) /\ s.resolved = inner.out
    BY <1>1, <2>2, <2>5, ReplyWith DEF QuoteStatuses
  <2>7. s.status = "unresolved"
    BY <2>2 DEF Reply, Segment
  <2>8. PICK part, b : part = RenderSegment(shown, s) /\ b = (acc.budget - 1) - inner.budget
    OBVIOUS
  <2>9. WholeOrCut(part, b, n, words[element])
    BY <1>4, <2>1, <2>4, <2>6, <2>7, <2>8, QuoteTells
  <2>10. all = old \o part
    BY <1>1, <1>3, <1>4, <2>3, <2>6, <2>8, RepliesShowMore
  <2>11. /\ part \in Seq(Marks) /\ b \in 0..n
         /\ SaysCut(part) <=> b < n
         /\ b = n => WordsIn(part) = words[element]
    BY <2>9 DEF WholeOrCut
  <2>12. all \in Seq(Marks)
    BY <1>5, <2>10, <2>11
  <2>13. SaysCut(all) <=> SaysCut(old) \/ SaysCut(part)
    BY <1>5, <2>10, <2>11, CutOfBoth
  <2>14. WordsIn(all) = WordsIn(old) \o WordsIn(part)
    BY <1>5, <2>10, <2>11, WordsOfBoth
  <2>15. budget - new.budget = a + (1 + b)
    <3>1. inner.budget \in Int /\ acc.budget \in Int /\ budget \in Int
      BY <1>1, <1>2, <2>4, <2>5
    <3>2. /\ a = budget - acc.budget /\ b = (acc.budget - 1) - inner.budget
          /\ new.budget = inner.budget
      BY <1>4, <2>3, <2>8
    <3> QED
      BY <3>1, <3>2
  <2>16. /\ a + (1 + b) \in 0..total + (1 + n)
         /\ a + (1 + b) < total + (1 + n) <=> a < total \/ b < n
         /\ a + (1 + b) = total + (1 + n) => a = total /\ b = n
    BY <1>5, <2>11
  <2>17. /\ SaysCut(all) <=> a + (1 + b) < total + (1 + n)
         /\ a + (1 + b) = total + (1 + n) => WordsIn(all) = said \o words[element]
    BY <1>5, <2>11, <2>13, <2>14, <2>16
  <2> QED
    BY <1>4, <1>8, <2>3, <2>12, <2>15, <2>16, <2>17 DEF QuotesTold, WholeOrCut
<1> QED
  BY <1>1, <1>6, <1>7, <1>8

\* So all quotes together are told of.
LEMMA QuotesTell ==
    ASSUME NEW within, NEW shown, NEW trees, NEW members, NEW count, NEW words, NEW S,
           TellsBelow(within, shown, trees, members, count, words, S),
           NEW s \in Seq(S), NEW depth \in Nat, NEW budget \in 0..MaxForwardNodes
    PROVE  QuotesTold(shown, TakenQuotes(within, s, depth, budget), budget,
                      Total(Costs(count, s)), FlattenSeq(Says(words, s)))
<1> DEFINE n == Len(s)
<1>1. /\ Below(within, trees, members) /\ s \in Seq(Bodies) /\ CountsBodies(count, words, S)
      /\ budget \in Nat
  BY ParserAssumption DEF TellsBelow
<1>2. PICK A : QuotesFold(A, within, trees, members, s, depth, budget)
  BY <1>1, QuotesAreFolded
<1>2a. /\ A[0] = [replies |-> <<>>, budget |-> budget, stopped |-> FALSE]
       /\ A[n] = TakenQuotes(within, s, depth, budget)
       /\ \A k \in 0..n : A[k] \in Quoted(trees, members, budget)
       /\ \A k \in 1..n : A[k] = TakeQuote(within, A[k - 1], s[k], depth)
  BY <1>2 DEF QuotesFold
<1>3. PICK costs, says : costs = Costs(count, s) /\ says = Says(words, s)
  OBVIOUS
<1> HIDE DEF n
<1>4. /\ n \in Nat /\ \A i \in 1..n : s[i] \in S
      /\ costs \in Seq(Nat) /\ Len(costs) = n
      /\ \A i \in 1..n : costs[i] = 1 + count[s[i]]
      /\ says \in Seq(Seq(Words)) /\ Len(says) = n
      /\ \A i \in 1..n : says[i] = words[s[i]]
  <2>1. /\ Len(s) \in Nat /\ \A i \in 1..Len(s) : s[i] \in S
        /\ costs \in Seq(Nat) /\ Len(costs) = Len(s)
        /\ \A i \in 1..Len(s) : costs[i] = 1 + count[s[i]]
        /\ says \in Seq(Seq(Words)) /\ Len(says) = Len(s)
        /\ \A i \in 1..Len(s) : says[i] = words[s[i]]
    <3>1. CountsBodies(count, words, S) /\ costs = Costs(count, s) /\ says = Says(words, s)
      BY <1>1, <1>3
    <3> QED
      BY <3>1, CostsAre
  <2> QED
    BY <2>1 DEF n
<1>5. PICK f \in [0..n -> Nat] : /\ f[0] = 0
                                 /\ \A k \in 1..n : f[k] = f[k - 1] + costs[k]
                                 /\ Total(costs) = f[n]
  BY <1>4, TotalSteps
<1>6. PICK g \in [0..n -> Seq(Words)] : /\ g[0] = <<>>
                                        /\ \A k \in 1..n : g[k] = g[k - 1] \o says[k]
                                        /\ FlattenSeq(says) = g[n]
  BY <1>4, FlattenSteps
<1> DEFINE good == {k \in 0..n : QuotesTold(shown, A[k], budget, f[k], g[k])}
<1>7. 0 \in good
  <2>1. A[0].replies = <<>> /\ A[0].budget = budget /\ A[0].stopped = FALSE
    BY <1>2a
  <2>2. budget - budget = 0 /\ 0 \in 0..n /\ 0 \in 0..0 /\ ~(0 < 0)
    BY <1>1, <1>4
  <2>3. PICK marks : marks = Shows(shown, <<>>)
    OBVIOUS
  <2>4. marks \in Seq(Marks) /\ ~SaysCut(marks) /\ WordsIn(marks) = <<>>
    BY <2>3, ShowsOfNone, NoNodesShow
  <2> QED
    BY <1>5, <1>6, <2>1, <2>2, <2>3, <2>4 DEF QuotesTold, WholeOrCut
<1>8. ASSUME NEW k \in 1..n, k - 1 \in good PROVE k \in good
  <2>1. k \in 0..n /\ k - 1 \in 0..n
    BY <1>4
  <2>2. PICK acc, new, element, total, said :
          /\ acc = A[k - 1] /\ new = A[k] /\ element = s[k]
          /\ total = f[k - 1] /\ said = g[k - 1]
    OBVIOUS
  <2>3. /\ acc \in Quoted(trees, members, budget) /\ element \in S /\ total \in Nat
        /\ QuotesTold(shown, acc, budget, total, said)
        /\ new = TakeQuote(within, acc, element, depth)
    BY <1>2a, <1>4, <1>8, <2>1, <2>2
  <2>4. QuotesTold(shown, new, budget, total + (1 + count[element]), said \o words[element])
    BY <2>3, TakeQuoteTells
  <2>5. f[k] = total + (1 + count[element]) /\ g[k] = said \o words[element]
    BY <1>4, <1>5, <1>6, <2>2
  <2> QED
    BY <2>1, <2>2, <2>4, <2>5
<1>9. n \in good
  <2>1. n \in 0..n
    BY <1>4
  <2> HIDE DEF good
  <2> QED
    BY <1>4, <1>7, <1>8, <2>1, IntervalHolds
<1>10. QuotesTold(shown, A[n], budget, f[n], g[n])
  BY <1>9
<1> QED
  BY <1>2a, <1>3, <1>5, <1>6, <1>10

\* A reply takes its quotes, none, or says that it is cut.
LEMMA RepliesTell ==
    ASSUME NEW left \in Nat, NEW within, NEW shown, NEW trees, NEW members,
           NEW count, NEW words, NEW S, CountsBodies(count, words, S),
           left # 0 => TellsBelow(within, shown, trees, members, count, words, S),
           NEW body, body.type = "reply", body.listed \in BOOLEAN, body.elements \in Seq(S),
           NEW depth \in Nat, NEW budget \in 0..MaxForwardNodes,
           NEW quotes, quotes = ReplySegments(within, left, body, depth, budget)
    PROVE  WholeOrCut(Shows(shown, quotes.replies), budget - quotes.budget,
                      HeldCount(count, body), HeldWords(words, body))
<1>0. budget \in Nat /\ budget - budget = 0
  BY ParserAssumption
<1>1. ASSUME NEW status \in QuoteStatuses, quotes = OneReply(status, budget), NEW total \in Nat,
             status \in CutMarks <=> 0 < total, total = 0 => HeldWords(words, body) = <<>>
      PROVE  WholeOrCut(Shows(shown, quotes.replies), budget - quotes.budget,
                        total, HeldWords(words, body))
  <2>1. PICK s, marks : s = Reply(status, 0) /\ marks = <<Token("quote", status)>>
    OBVIOUS
  <2>2. quotes.replies = <<s>> /\ quotes.budget = budget
    BY <1>1, <2>1 DEF OneReply
  <2>3. RenderSegment(shown, s) = marks
    BY <2>1 DEF RenderSegment, RenderReply, Reply, Segment
  <2>4. /\ marks \in Seq(Marks) /\ WordsIn(marks) = <<>>
        /\ SaysCut(marks) <=> status \in CutMarks
    BY <2>1, QuoteIsMark
  <2>5. Shows(shown, quotes.replies) = marks
    BY <2>2, <2>3, <2>4, ShowsOfOne
  <2>6. 0 \in 0..total /\ budget - quotes.budget = 0
    BY <1>0, <2>2
  <2> QED
    BY <1>1, <2>4, <2>5, <2>6 DEF WholeOrCut
<1>2. CASE ~body.listed
  <2>1. quotes = OneReply("unresolved", budget)
    BY <1>2 DEF ReplySegments
  <2>2. HeldCount(count, body) = 0 /\ HeldWords(words, body) = <<>>
    BY <1>2 DEF HeldCount, HeldWords, Holds
  <2>3. "unresolved" \in CutMarks <=> 0 < HeldCount(count, body)
    BY <2>2 DEF CutMarks
  <2>4. "unresolved" \in QuoteStatuses
    BY DEF QuoteStatuses
  <2> QED
    BY <1>1, <2>1, <2>2, <2>3, <2>4
<1>3. CASE body.listed /\ body.elements = <<>>
  <2>1. quotes = OneReply("unresolved", budget)
    BY <1>3 DEF ReplySegments
  <2>2. HeldCount(count, body) = 0 /\ HeldWords(words, body) = <<>>
    BY <1>3, CostsOfNone DEF HeldCount, HeldWords
  <2>3. "unresolved" \in CutMarks <=> 0 < HeldCount(count, body)
    BY <2>2 DEF CutMarks
  <2>4. "unresolved" \in QuoteStatuses
    BY DEF QuoteStatuses
  <2> QED
    BY <1>1, <2>1, <2>2, <2>3, <2>4
<1>4. CASE body.listed /\ body.elements # <<>> /\ left = 0
  <2>1. quotes = OneReply("depth_limit", budget)
    BY <1>4 DEF ReplySegments
  <2>2. HeldCount(count, body) \in Nat /\ 0 < HeldCount(count, body)
    BY <1>4, ElementsCost DEF HeldCount, Holds
  <2>3. "depth_limit" \in CutMarks <=> 0 < HeldCount(count, body)
    BY <2>2 DEF CutMarks
  <2>4. "depth_limit" \in QuoteStatuses /\ HeldCount(count, body) # 0
    BY <2>2 DEF QuoteStatuses
  <2> QED
    BY <1>1, <2>1, <2>2, <2>3, <2>4
<1>5. CASE body.listed /\ body.elements # <<>> /\ left # 0
  <2>1. quotes = TakenQuotes(within, body.elements, depth, budget)
    BY <1>5 DEF ReplySegments, TakenQuotes
  <2>2. /\ HeldCount(count, body) = Total(Costs(count, body.elements))
        /\ HeldWords(words, body) = FlattenSeq(Says(words, body.elements))
    BY <1>5 DEF HeldCount, HeldWords, Holds
  <2>3. QuotesTold(shown, quotes, budget, HeldCount(count, body), HeldWords(words, body))
    BY <1>5, <2>1, <2>2, QuotesTell
  <2> QED
    BY <2>3 DEF QuotesTold
<1> QED
  BY <1>2, <1>3, <1>4, <1>5

\* So what a reply shows tells what it holds before its own words.
LEMMA ReplyTells ==
    ASSUME NEW left \in Nat, NEW within, NEW shown, NEW trees, NEW members,
           NEW count, NEW words, NEW S, CountsBodies(count, words, S), Renders(shown, trees),
           Counts(members, trees),
           left # 0 => TellsBelow(within, shown, trees, members, count, words, S),
           NEW body \in Bodies, body.type = "reply", body.elements \in Seq(S),
           NEW depth \in Nat, NEW budget \in 0..MaxForwardNodes,
           NEW r, r = ParseSegments(within, left, body, depth, budget)
    PROVE  WholeOrCut(Shows(shown, r.out), budget - r.budget, HeldCount(count, body),
                      HeldWords(words, body) \o OwnWords(body))
<1>1. PICK quotes : quotes = ReplySegments(within, left, body, depth, budget)
  OBVIOUS
<1>2. PICK replies, own : /\ replies = quotes.replies
                          /\ own = MessageLikeSegments(body, Len(replies))
  OBVIOUS
<1>3. quotes \in Quoted(trees, members, budget)
  BY <1>1, ReplyIsPaidFor DEF TellsBelow
<1>4. replies \in Seq(Replies(trees)) /\ Len(replies) \in Nat
  BY <1>2, <1>3 DEF Quoted
<1>5. body.listed \in BOOLEAN /\ body \in BodiesOver(Bodies)
  BY BodiesWithin DEF BodiesOver
<1>6. WholeOrCut(Shows(shown, replies), budget - quotes.budget, HeldCount(count, body),
                 HeldWords(words, body))
  BY <1>1, <1>2, <1>5, RepliesTell
<1>7. r.out = replies \o own /\ r.budget = quotes.budget
  BY <1>1, <1>2 DEF ParseSegments
<1>8. own \in Seq(Leaves)
  BY <1>2, <1>4, <1>5, OwnContent DEF NumberedLeaves
<1>9. PICK X : X = SegmentsOver(trees)
  OBVIOUS
<1>10. replies \in Seq(X) /\ own \in Seq(X)
  <2>1. Replies(trees) \subseteq X /\ Leaves \subseteq X
    BY <1>9 DEF SegmentsOver
  <2> QED
    BY <1>4, <1>8, <2>1, SeqMonotonic
<1>11. Shown(shown, X)
  <2>1. NumberedFrom0(Leaves) \subseteq trees /\ \A t \in trees : shown[t] \in Seq(Marks)
    BY DEF Renders
  <2> QED
    BY <1>9, <2>1, SegmentRenders DEF Shown
<1>12. PICK a, b, all : /\ a = Shows(shown, replies) /\ b = Shows(shown, own)
                        /\ all = Shows(shown, r.out)
  OBVIOUS
<1>13. all = a \o b
  <2>1. Shows(shown, replies \o own) = Shows(shown, replies) \o Shows(shown, own)
    BY <1>10, <1>11, ShowsOfBoth
  <2> QED
    BY <1>7, <1>12, <2>1
<1>14. b = OwnWords(body) /\ b \in Seq(Words)
  <2>1. b = Values(own)
    BY <1>8, <1>12, ShowsOfLeaves
  <2>2. Values(own) = OwnWords(body) /\ OwnWords(body) \in Seq(Words)
    BY <1>2, <1>4, OwnContentSays
  <2> QED
    BY <2>1, <2>2
<1>15. b \in Seq(Marks) /\ ~SaysCut(b) /\ WordsIn(b) = OwnWords(body)
  <2>1. b \in Seq(Tokens) /\ b \in Seq(Marks)
    BY <1>14, TokensAreMarks
  <2> QED
    BY <1>14, <2>1, CutOfTokens, WordsOfWords
<1>16. a \in Seq(Marks)
  BY <1>6, <1>12 DEF WholeOrCut
<1>17. all \in Seq(Marks)
  BY <1>13, <1>15, <1>16
<1>18. SaysCut(all) <=> SaysCut(a)
  BY <1>13, <1>15, <1>16, CutOfBoth
<1>19. WordsIn(all) = WordsIn(a) \o OwnWords(body)
  BY <1>13, <1>15, <1>16, WordsOfBoth
<1> QED
  BY <1>6, <1>7, <1>12, <1>17, <1>18, <1>19 DEF WholeOrCut

\* Whatever kind of body it is, what it shows tells what it embeds and says.
LEMMA BodyTells ==
    ASSUME NEW left \in Nat, NEW within, NEW shown, NEW trees, NEW members,
           NEW count, NEW words, NEW S, CountsBodies(count, words, S), Renders(shown, trees),
           Counts(members, trees),
           left # 0 => TellsBelow(within, shown, trees, members, count, words, S),
           NEW bodies, bodies \subseteq BodiesOver(S), bodies \subseteq Bodies,
           NEW body \in bodies, IsMapping(body),
           NEW depth \in Nat, NEW budget \in 0..MaxForwardNodes,
           NEW r, r = ParseSegments(within, left, body, depth, budget)
    PROVE  WholeOrCut(Shows(shown, r.out), budget - r.budget,
                      EmbeddedOver(bodies, count)[body], AllWordsOver(bodies, words)[body])
<1>1. /\ body \in Bodies /\ body.elements \in Seq(S)
      /\ body.type \in {"plain", "reply", "forward"}
  BY DEF BodiesOver, IsMapping
<1>2. EmbeddedOver(bodies, count)[body] = HeldCount(count, body)
  BY DEF EmbeddedOver, HeldCount, Costs
<1>3. AllWordsOver(bodies, words)[body]
        = IF body.type = "forward" THEN OwnWords(body) \o HeldWords(words, body)
          ELSE HeldWords(words, body) \o OwnWords(body)
  <2>1. PICK inner : inner = IF Holds(body)
                    THEN FlattenSeq([i \in DOMAIN body.elements |-> words[body.elements[i]]])
                    ELSE <<>>
    OBVIOUS
  <2>2. AllWordsOver(bodies, words)[body]
          = IF body.type = "junk" THEN <<>>
            ELSE IF body.type = "forward" THEN OwnWords(body) \o inner
            ELSE inner \o OwnWords(body)
    BY <2>1 DEF AllWordsOver
  <2>3. inner = HeldWords(words, body)
    BY <2>1 DEF HeldWords, Says
  <2> QED
    BY <1>1, <2>2, <2>3
<1>4. CASE body.type = "forward"
  BY <1>1, <1>2, <1>3, <1>4, ForwardTells
<1>5. CASE body.type = "reply"
  <2>1. WholeOrCut(Shows(shown, r.out), budget - r.budget, HeldCount(count, body),
                   HeldWords(words, body) \o OwnWords(body))
    BY <1>1, <1>5, ReplyTells
  <2> QED
    BY <1>2, <1>3, <1>5, <2>1
<1>6. CASE body.type = "plain"
  <2>1. r.out = MessageLikeSegments(body, 0) /\ r.budget = budget
    BY <1>6 DEF ParseSegments
  <2>2. MessageLikeSegments(body, 0) \in NumberedFrom0(Leaves)
    BY <1>1, OwnIsNumbered
  <2>3. PICK own, marks : own = MessageLikeSegments(body, 0) /\ marks = Shows(shown, own)
    OBVIOUS
  <2>4. own \in Seq(Leaves) /\ Values(own) = OwnWords(body) /\ OwnWords(body) \in Seq(Words)
    <3>1. 0 \in Nat
      OBVIOUS
    <3> QED
      BY <1>1, <2>2, <2>3, <3>1, OwnContentSays DEF NumberedFrom0
  <2>5. marks = OwnWords(body)
    BY <2>3, <2>4, ShowsOfLeaves
  <2>6. marks \in Seq(Marks) /\ ~SaysCut(marks) /\ WordsIn(marks) = OwnWords(body)
    <3>1. marks \in Seq(Words) /\ marks \in Seq(Tokens) /\ marks \in Seq(Marks)
      BY <2>4, <2>5, TokensAreMarks
    <3> QED
      BY <2>5, <3>1, CutOfTokens, WordsOfWords
  <2>7. HeldCount(count, body) = 0 /\ HeldWords(words, body) = <<>>
    BY <1>6 DEF HeldCount, HeldWords, Holds
  <2>8. AllWordsOver(bodies, words)[body] = OwnWords(body)
    <3>1. \A t \in Seq(Words) : <<>> \o t = t
      OBVIOUS
    <3> QED
      BY <1>3, <1>6, <2>4, <2>7, <3>1
  <2>9. budget - r.budget = 0
    BY <2>1, ParserAssumption
  <2> QED
    BY <1>2, <2>1, <2>3, <2>6, <2>7, <2>8, <2>9 DEF WholeOrCut
<1> QED
  BY <1>1, <1>4, <1>5, <1>6

\* What is told of all bodies at a level of the parser.
LevelTells(n) ==
    \A m \in 0..MaxNesting :
        Tells(Parser[n], Renderer[n + 1], EmbeddedUpTo[m], AllWordsUpTo[m], BodiesUpTo[m])

\* A level above one that tells of the bodies tells of them as well.
LEMMA LevelAboveTells ==
    ASSUME NEW n \in 0..MaxForwardDepth, n # 0 => LevelTells(n - 1)
    PROVE  LevelTells(n)
<1>0. /\ MaxForwardDepth \in Nat /\ n \in Nat /\ n \in Heights /\ n + 1 \in Heights
      /\ n + 1 # 0 /\ (n + 1) - 1 = n
      /\ n # 0 => n - 1 \in 0..MaxForwardDepth /\ (n - 1) + 1 = n
  BY ParserAssumption DEF Heights
<1>1. PICK within, shown, trees, members :
        /\ within = IF n = 0 THEN <<>> ELSE Parser[n - 1]
        /\ shown = Renderer[n]
        /\ trees = IF n = 0 THEN NumberedFrom0(Leaves) ELSE ParsedTrees[n - 1]
        /\ members = IF n = 0 THEN [t \in NumberedFrom0(Leaves) |-> 0] ELSE Members[n - 1]
  OBVIOUS
<1>2. Parser[n] = ParserOver(n, within)
  BY <1>1, ParserIs
<1>3. n # 0 => Below(within, trees, members)
  BY <1>0, <1>1, EveryLevelPays
<1>4. Counts(members, trees)
  <2>1. CASE n = 0
    BY <1>1, <2>1 DEF Counts
  <2>2. CASE n # 0
    BY <1>3, <2>2 DEF Below
  <2> QED
    BY <2>1, <2>2
<1>5. Renders(shown, trees)
  <2>1. Renders(shown, TreesUpTo[n])
    BY <1>0, <1>1, EveryHeightRenders
  <2>2. trees \subseteq TreesUpTo[n]
    <3>1. CASE n = 0
      BY <1>0, <1>1, <3>1, CodedAre
    <3>2. CASE n # 0
      BY <1>0, <1>1, <3>2, ParsedAreCoded
    <3> QED
      BY <3>1, <3>2
  <2>3. NumberedFrom0(Leaves) \subseteq trees
    <3>1. CASE n = 0
      BY <1>1, <3>1
    <3>2. CASE n # 0
      BY <1>3, <3>2 DEF Below
    <3> QED
      BY <3>1, <3>2
  <2> QED
    BY <2>1, <2>2, <2>3 DEF Renders
<1>6. ASSUME NEW m \in 0..MaxNesting
      PROVE  Tells(Parser[n], Renderer[n + 1], EmbeddedUpTo[m], AllWordsUpTo[m], BodiesUpTo[m])
  <2>0. m # 0 => m - 1 \in 0..MaxNesting
    BY ParserAssumption
  <2>1. PICK S, count, words : /\ S = IF m = 0 THEN {} ELSE BodiesUpTo[m - 1]
                               /\ count = IF m = 0 THEN <<>> ELSE EmbeddedUpTo[m - 1]
                               /\ words = IF m = 0 THEN <<>> ELSE AllWordsUpTo[m - 1]
    OBVIOUS
  <2>2. PICK bodies : bodies = BodiesUpTo[m]
    OBVIOUS
  <2>3. /\ bodies = BodiesOver(S)
        /\ EmbeddedUpTo[m] = EmbeddedOver(bodies, count)
        /\ AllWordsUpTo[m] = AllWordsOver(bodies, words)
    BY <2>1, <2>2, BodiesAre, EmbeddedIs, AllWordsIs
  <2>4. CountsBodies(count, words, S)
    <3>1. CASE m = 0
      BY <2>1, <3>1 DEF CountsBodies
    <3>2. CASE m # 0
      BY <2>0, <2>1, <3>2, EveryNestingCounts
    <3> QED
      BY <3>1, <3>2
  <2>5. bodies \subseteq Bodies /\ S \subseteq Bodies
    BY <2>0, <2>1, <2>2, AllBodies
  <2>6. n # 0 => Tells(within, shown, count, words, S)
    <3>1. CASE m = 0
      BY <2>1, <3>1 DEF Tells
    <3>2. CASE m # 0
      BY <1>0, <1>1, <2>0, <2>1, <3>2 DEF LevelTells
    <3> QED
      BY <3>1, <3>2
  <2>7. n # 0 => TellsBelow(within, shown, trees, members, count, words, S)
    BY <1>3, <1>5, <2>4, <2>5, <2>6 DEF TellsBelow
  <2>8. ASSUME NEW b \in bodies, NEW depth \in Nat, NEW k \in 0..MaxForwardNodes, IsMapping(b),
               NEW r, r = Parser[n][<<b, depth, k>>]
        PROVE  WholeOrCut(Renderer[n + 1][r.out], k - r.budget,
                          EmbeddedUpTo[m][b], AllWordsUpTo[m][b])
    <3>0. b \in Bodies
      BY <2>5
    <3>1. r = ParseSegments(within, n, b, depth, k)
      <4>1. <<b, depth, k>> \in Bodies \X Nat \X (0..MaxForwardNodes)
        BY <3>0
      <4>2. <<b, depth, k>>[1] = b /\ <<b, depth, k>>[2] = depth /\ <<b, depth, k>>[3] = k
        OBVIOUS
      <4> QED
        BY <1>2, <2>8, <4>1, <4>2, Zenon DEF ParserOver
    <3>2. r.out \in TreesUpTo[n + 1]
      <4>1. Below(Parser[n], ParsedTrees[n], Members[n])
        BY EveryLevelPays
      <4>2. r.out \in ParsedTrees[n]
        BY <2>8, <3>0, <4>1 DEF Below, PaidFor
      <4> QED
        BY <4>2, ParsedAreCoded
    <3>3. Renderer[n + 1][r.out] = Shows(shown, r.out)
      BY <1>0, <1>1, <3>2, HeightShows
    <3>4. WholeOrCut(Shows(shown, r.out), k - r.budget,
                     EmbeddedOver(bodies, count)[b], AllWordsOver(bodies, words)[b])
      BY <1>0, <1>4, <1>5, <2>3, <2>4, <2>5, <2>7, <2>8, <3>1, BodyTells
    <3> QED
      BY <2>3, <3>3, <3>4
  <2> QED
    BY <2>2, <2>8 DEF Tells
<1> QED
  BY <1>6 DEF LevelTells

\* So every level tells of them.
LEMMA EveryLevelTells == \A n \in 0..MaxForwardDepth : LevelTells(n)
<1> DEFINE good == {n \in 0..MaxForwardDepth : LevelTells(n)}
<1>0. MaxForwardDepth \in Nat
  BY ParserAssumption
<1>1. 0 \in good
  <2>1. 0 \in 0..MaxForwardDepth
    BY <1>0
  <2> QED
    BY <2>1, LevelAboveTells
<1>2. ASSUME NEW n \in 1..MaxForwardDepth, n - 1 \in good PROVE n \in good
  <2>1. n \in 0..MaxForwardDepth
    BY <1>0
  <2>2. LevelTells(n - 1)
    BY <1>2
  <2> QED
    BY <2>1, <2>2, LevelAboveTells
<1>3. \A n \in 0..MaxForwardDepth : n \in good
  <2> HIDE DEF good
  <2> QED
    BY <1>0, <1>1, <1>2, IntervalHolds
<1> QED
  BY <1>3

\* A body the limits leave whole shows all of its words, any other a cut.
LEMMA BodyIsShown ==
    ASSUME NEW body \in Bodies, IsMapping(body),
           NEW shown, shown = RenderMessage(Segments(body))
    PROVE  LET cut == MaxForwardNodes - Parsed(body).budget < Embedded(body)
           IN  /\ SaysCut(shown) <=> cut
               /\ ~cut => WordsIn(shown) = AllWords(body)
<1>1. /\ MaxForwardDepth \in 0..MaxForwardDepth /\ MaxNesting \in 0..MaxNesting
      /\ MaxForwardNodes \in 0..MaxForwardNodes /\ 0 \in Nat
  BY ParserAssumption
<1>2. PICK r : r = Parsed(body)
  OBVIOUS
<1>3. r = Parser[MaxForwardDepth][<<body, 0, MaxForwardNodes>>]
  BY <1>2 DEF Parsed
<1>4. PICK marks : marks = Renderer[MaxForwardDepth + 1][r.out]
  OBVIOUS
<1>5. shown = OrEmpty(marks)
  BY <1>2, <1>4 DEF RenderMessage, Segments
<1>6. PICK spent, total : spent = MaxForwardNodes - r.budget /\ total = Embedded(body)
  OBVIOUS
<1>7. WholeOrCut(marks, spent, total, AllWords(body))
  <2>1. LevelTells(MaxForwardDepth)
    BY <1>1, EveryLevelTells
  <2>2. Tells(Parser[MaxForwardDepth], Renderer[MaxForwardDepth + 1],
              EmbeddedUpTo[MaxNesting], AllWordsUpTo[MaxNesting], BodiesUpTo[MaxNesting])
    BY <1>1, <2>1 DEF LevelTells
  <2>3. body \in BodiesUpTo[MaxNesting]
    BY DEF Bodies
  <2> QED
    BY <1>1, <1>3, <1>4, <1>6, <2>2, <2>3 DEF Tells, Embedded, AllWords
<1>8. total \in Nat
  BY <1>1, <1>6, EveryNestingCounts DEF CountsBodies, Embedded, Bodies
<1>9. /\ marks \in Seq(Marks)
      /\ SaysCut(marks) <=> spent < total
      /\ ~(spent < total) => WordsIn(marks) = AllWords(body)
  BY <1>7, <1>8 DEF WholeOrCut
<1>10. /\ SaysCut(shown) <=> spent < total
       /\ ~(spent < total) => WordsIn(shown) = AllWords(body)
  BY <1>5, <1>9, EmptyShowsNothing
<1> QED
  BY <1>2, <1>6, <1>10

\* Every prompt shows all of a stored message, or says that it is cut.
THEOREM CutsAreShown == Spec => []CutsAreVisible
<1>1. SourcesInv /\ StoredTreeFaithful => CutsAreVisible
  <2> SUFFICES ASSUME SourcesInv, StoredTreeFaithful, NEW i \in StoredRows
               PROVE  LET shown == RenderMessage(Decode(rows[i].tree))
                          cut == MaxForwardNodes - Parsed(BodyOf(i)).budget
                                   < Embedded(BodyOf(i))
                      IN  /\ SaysCut(shown) <=> cut
                          /\ ~cut => WordsIn(shown) = AllWords(BodyOf(i))
    BY DEF CutsAreVisible
  <2>1. load \in Loads /\ receipts[rows[i].raw] \in DOMAIN load.events
    BY DEF SourcesInv, HistoryInv, Tables, Sources, StoredRows
  <2>2. BodyOf(i) \in SentBodies
    BY <2>1 DEF BodyOf, Event, SentBodies
  <2>3. BodyOf(i) \in Bodies /\ IsMapping(BodyOf(i))
    BY <2>2, BodyAssumption
  <2>4. Decode(rows[i].tree) = Segments(BodyOf(i))
    BY DEF StoredTreeFaithful
  <2> QED
    BY <2>3, <2>4, BodyIsShown
<1> QED
  BY <1>1, SourcesInvariant, StoredTreesDecode, PTL
===============================================================================
