------------------------------ MODULE StoredTrees ------------------------------
(***************************************************************************)
(* The messages the bot and the script store: what the parser makes of     *)
(* their bodies, what is read back from their rows, and what a prompt      *)
(* shows of them.                                                          *)
(***************************************************************************)
EXTENDS AssistantRequest, MessageCodec, MessageRenderer

SentBodies == UNION {{l.events[e].body : e \in DOMAIN l.events} : l \in Loads}

\* parse returns None for data that is no object: only an element can be junk.
ASSUME BodyAssumption == SentBodies \subseteq {body \in Bodies : IsMapping(body)}

EncodedBody == [body \in SentBodies |-> Encode(Segments(body))]

ASSUME EncodingAssumption == Encoded = EncodedBody

StoredRows == {i \in DOMAIN rows : rows[i].version = "current"}
BodyOf(i) == Event(rows[i].raw).body

(***************************************************************************)
(* Reference definitions, on the body alone and without a limit.           *)
(***************************************************************************)
Holds(body) == body.type \in {"forward", "reply"} /\ body.listed

\* The messages a body embeds.
EmbeddedOver(bodies, within) ==
    [body \in bodies |->
       IF ~Holds(body) THEN 0
       ELSE Total([i \in DOMAIN body.elements |-> 1 + within[body.elements[i]]])]

EmbeddedUpTo[n \in 0..MaxNesting] ==
    EmbeddedOver(BodiesUpTo[n], IF n = 0 THEN <<>> ELSE EmbeddedUpTo[n - 1])

Embedded(body) == EmbeddedUpTo[MaxNesting][body]

\* The words of a body's own content; a mention without a mark counts as one.
OwnWords(body) ==
    body.tokens \o
    (IF body.tokens \in {<<>>, Unstructured} THEN <<>>
     ELSE FlattenSeq([i \in DOMAIN body.mentions |->
            IF Token("at", body.mentions[i]) \in Range(body.tokens) THEN <<>>
            ELSE <<Token("mention", body.mentions[i])>>]))
    \o body.attachments

\* All words of a body in the order they are read.
AllWordsOver(bodies, within) ==
    [body \in bodies |->
       LET inner == IF Holds(body)
                    THEN FlattenSeq([i \in DOMAIN body.elements |-> within[body.elements[i]]])
                    ELSE <<>>
       IN  IF body.type = "junk" THEN <<>>
           ELSE IF body.type = "forward" THEN OwnWords(body) \o inner
           ELSE inner \o OwnWords(body)]

AllWordsUpTo[n \in 0..MaxNesting] ==
    AllWordsOver(BodiesUpTo[n], IF n = 0 THEN <<>> ELSE AllWordsUpTo[n - 1])

AllWords(body) == AllWordsUpTo[MaxNesting][body]

\* What of a rendering are words, and whether it says that it is cut.
WordsIn(marks) ==
    FlattenSeq([i \in DOMAIN marks |->
                  IF marks[i].kind \in WordKinds THEN <<marks[i]>> ELSE <<>>])
CutMarks == {"depth_limit", "node_limit"}
SaysCut(marks) == \E i \in DOMAIN marks :
    marks[i].kind \in {"forward", "quote"} /\ marks[i].v \in CutMarks

(***************************************************************************)
(* Properties                                                              *)
(***************************************************************************)
\* Forwards and quotes, in whatever way they nest and follow one another,
\* share one budget of messages and one of depth.
TreeBounded ==
    \A i \in StoredRows :
        LET tree == Segments(BodyOf(i))
        IN  /\ tree \in ParsedTrees[MaxForwardDepth]
            /\ Members[MaxForwardDepth][tree] <= MaxForwardNodes

\* A stored message decodes, from rows in any order, to what the parser made.
StoredTreeFaithful ==
    \A i \in StoredRows :
        /\ Decodable(rows[i].tree)
        /\ Decode(rows[i].tree) = Segments(BodyOf(i))

\* What a prompt shows of a stored message is all of it, in order; if a limit
\* cut something off, anywhere in the tree, and only then, the prompt says so.
CutsAreVisible ==
    \A i \in StoredRows :
        LET shown == RenderMessage(Decode(rows[i].tree))
            body == BodyOf(i)
            cut == MaxForwardNodes - Parsed(body).budget < Embedded(body)
        IN  /\ SaysCut(shown) <=> cut
            /\ ~cut => WordsIn(shown) = AllWords(body)
===============================================================================
