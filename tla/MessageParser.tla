---------------------------- MODULE MessageParser -----------------------------
(***************************************************************************)
(* QQOfficialMessageParser: from the body of a group message to segments.  *)
(*                                                                         *)
(* A body is [type, author, tokens, mentions, attachments, listed,         *)
(* elements]: type is the message_type (plain, reply for 103, forward for  *)
(* 102; junk for an element that is no object), tokens its content cut at  *)
(* mention marks and lines, listed says that msg_elements is a list (or    *)
(* absent) and elements what it holds.  A token is [kind, v].              *)
(*                                                                         *)
(* A segment is [kind, position, value, status, content, nodes, resolved]; *)
(* value is a sequence of tokens, nodes the forwarded messages, resolved   *)
(* the quoted message, if there is one.                                    *)
(***************************************************************************)
EXTENDS Integers, SequencesExt

CONSTANTS
    MaxForwardDepth, \* max_forward_depth and
    MaxForwardNodes, \* max_forward_nodes of the parser
    MaxNesting       \* how deep bodies nest that QQ sends

ASSUME ParserAssumption ==
    /\ MaxForwardDepth \in Nat \ {0}
    /\ MaxForwardNodes \in Nat \ {0}
    /\ MaxNesting \in Nat

\* What a body says, and what the parser writes for an element that is no object.
\* "" is listed because the provers do not relate a literal to STRING.
WordKinds == {"text", "line", "header", "at", "mention", "image", "file", "other",
              "unstructured"}
Words == [kind : WordKinds, v : STRING \cup {""}]
Tokens == [kind : WordKinds \cup {"forward_node"}, v : STRING \cup {""}]

\* A body holds bodies that nest one level less.
BodiesOver(bodies) ==
    [type : {"plain", "reply", "forward", "junk"}, author : STRING,
     tokens : Seq(Words), mentions : Seq(STRING), attachments : Seq(Words),
     listed : BOOLEAN, elements : Seq(bodies)]

BodiesUpTo[n \in 0..MaxNesting] ==
    BodiesOver(IF n = 0 THEN {} ELSE BodiesUpTo[n - 1])

Bodies == BodiesUpTo[MaxNesting]

Token(kind, v) == [kind |-> kind, v |-> v]

\* content that is not a string
Unstructured == <<Token("unstructured", "")>>

Segment(kind, value) ==
    [kind |-> kind, position |-> 0, value |-> value, status |-> "none",
     content |-> <<>>, nodes |-> <<>>, resolved |-> <<>>]

IsMapping(element) == element.type # "junk"

Numbered(segments, start) ==
    [i \in DOMAIN segments |-> [segments[i] EXCEPT !.position = start + i - 1]]

TextOf(run) == IF run = <<>> THEN <<>> ELSE <<Segment("text", run)>>

\* A mark of a listed mention becomes a segment, what is between marks text.
TakeToken(acc, token, body) ==
    IF token.kind = "at" /\ token.v \in Range(body.mentions)
    THEN [done |-> acc.done \o TextOf(acc.run) \o <<Segment("at", <<token>>)>>,
          run |-> <<>>]
    ELSE [acc EXCEPT !.run = Append(@, token)]

\* A listed mention without a mark is kept as unknown.
Unmatched(body) ==
    FlattenSeq([i \in DOMAIN body.mentions |->
      LET user == body.mentions[i]
      IN  IF Token("at", user) \in Range(body.tokens) THEN <<>>
          ELSE <<Segment("unknown", <<Token("mention", user)>>)>>])

ContentSegments(body) ==
    IF body.tokens = <<>> THEN <<>>
    ELSE IF body.tokens = Unstructured THEN <<Segment("unknown", Unstructured)>>
    ELSE LET cut == FoldLeft(LAMBDA acc, token : TakeToken(acc, token, body),
                             [done |-> <<>>, run |-> <<>>], body.tokens)
         IN  cut.done \o TextOf(cut.run) \o Unmatched(body)

AttachmentSegments(body) ==
    [i \in DOMAIN body.attachments |->
       LET a == body.attachments[i]
       IN  Segment(IF a.kind \in {"image", "file"} THEN a.kind ELSE "unknown", <<a>>)]

MessageLikeSegments(body, start) ==
    Numbered(ContentSegments(body) \o AttachmentSegments(body), start)

(***************************************************************************)
(* The recursive part.  left is what max_forward_depth leaves of depth and *)
(* reference_depth; each recursion adds one to either of them, and within  *)
(* is the parser with one level less, of a body, the depth and the budget. *)
(* What _ForwardParseState counts down is threaded through as budget: each *)
(* operator gives [out, budget].                                           *)
(***************************************************************************)
ForwardNode(element, out, depth) ==
    [sender |-> element.author, depth |-> depth + 1, content |-> out]

ElementSegments(within, element, depth, budget) ==
    IF IsMapping(element) THEN within[<<element, depth + 1, budget>>]
    ELSE [out |-> <<Segment("unknown", <<Token("forward_node", "")>>)>>, budget |-> budget]

\* Mutant: each forward spends a budget of its own.
TakeElementCopied(within, acc, element, depth) ==
    LET inner == ElementSegments(within, element, depth, acc.budget - 1)
    IN  IF acc.budget = 0 \/ acc.status = "node_limit"
        THEN [acc EXCEPT !.status = "node_limit"]
        ELSE [nodes |-> Append(acc.nodes, ForwardNode(element, inner.out, depth)),
              budget |-> acc.budget - 1,
              status |-> IF IsMapping(element) THEN acc.status ELSE "invalid_content"]

\* One element of a forward; at the limit the loop breaks.
TakeElement(within, acc, element, depth) ==
    IF acc.budget = 0 \/ acc.status = "node_limit"
    THEN [acc EXCEPT !.status = "node_limit"]
    ELSE LET inner == ElementSegments(within, element, depth, acc.budget - 1)
         IN  [nodes |-> Append(acc.nodes, ForwardNode(element, inner.out, depth)),
              budget |-> inner.budget,
              status |-> IF IsMapping(element) THEN acc.status ELSE "invalid_content"]

NoNodes(status, budget) == [nodes |-> <<>>, budget |-> budget, status |-> status]

ForwardNodes(within, left, body, depth, budget) ==
    IF ~body.listed THEN NoNodes("invalid_content", budget)
    ELSE IF body.elements = <<>> THEN NoNodes("unresolved", budget)
    ELSE IF left = 0 THEN NoNodes("depth_limit", budget)
    ELSE FoldLeft(LAMBDA acc, element : TakeElement(within, acc, element, depth),
                  NoNodes("embedded", budget), body.elements)

ForwardSegment(body, taken) ==
    [Segment("forward", <<>>) EXCEPT
       !.status = taken.status,
       !.content = MessageLikeSegments(body, 0),
       !.nodes = taken.nodes]

Reply(status, position) ==
    [Segment("reply", <<>>) EXCEPT !.status = status, !.position = position]

\* The quoted message; a 103 without elements holds its own body, and one with
\* no segment at all is not resolved.
ResolvedReply(within, element, depth, budget) ==
    IF ~IsMapping(element) THEN [out |-> <<>>, budget |-> budget]
    ELSE LET inner ==
               IF element.type = "reply" /\ element.listed /\ element.elements = <<>>
               THEN [out |-> MessageLikeSegments(element, 0), budget |-> budget]
               ELSE within[<<element, depth, budget>>]
         IN  [out |-> IF inner.out = <<>> THEN <<>>
                      ELSE <<[author |-> element.author, segments |-> inner.out]>>,
              budget |-> inner.budget]

\* Mutant: the break at the limit leaves no marker.
TakeQuoteSilently(within, acc, element, depth) ==
    IF acc.budget = 0 THEN acc
    ELSE LET inner == ResolvedReply(within, element, depth, acc.budget - 1)
         IN  [acc EXCEPT
                !.replies = Append(@, [Reply("unresolved", Len(@)) EXCEPT
                                         !.resolved = inner.out]),
                !.budget = inner.budget]

TakeQuote(within, acc, element, depth) ==
    IF acc.stopped THEN acc
    ELSE IF acc.budget = 0
    THEN [acc EXCEPT !.replies = Append(@, Reply("node_limit", Len(@))),
                     !.stopped = TRUE]
    ELSE LET inner == ResolvedReply(within, element, depth, acc.budget - 1)
         IN  [acc EXCEPT
                !.replies = Append(@, [Reply("unresolved", Len(@)) EXCEPT
                                         !.resolved = inner.out]),
                !.budget = inner.budget]

OneReply(status, budget) ==
    [replies |-> <<Reply(status, 0)>>, budget |-> budget, stopped |-> FALSE]

ReplySegments(within, left, body, depth, budget) ==
    IF ~body.listed \/ body.elements = <<>> THEN OneReply("unresolved", budget)
    ELSE IF left = 0 THEN OneReply("depth_limit", budget)
    ELSE FoldLeft(LAMBDA acc, element : TakeQuote(within, acc, element, depth),
                  [replies |-> <<>>, budget |-> budget, stopped |-> FALSE],
                  body.elements)

ParseSegments(within, left, body, depth, budget) ==
    IF body.type = "forward"
    THEN LET taken == ForwardNodes(within, left, body, depth, budget)
         IN  [out |-> <<ForwardSegment(body, taken)>>, budget |-> taken.budget]
    ELSE IF body.type = "reply"
    THEN LET quotes == ReplySegments(within, left, body, depth, budget)
         IN  [out |-> quotes.replies \o MessageLikeSegments(body, Len(quotes.replies)),
              budget |-> quotes.budget]
    ELSE [out |-> MessageLikeSegments(body, 0), budget |-> budget]

ParserOver(left, within) ==
    [x \in Bodies \X Nat \X (0..MaxForwardNodes) |->
       ParseSegments(within, left, x[1], x[2], x[3])]

Parser[left \in 0..MaxForwardDepth] ==
    ParserOver(left, IF left = 0 THEN <<>> ELSE Parser[left - 1])

Parsed(body) == Parser[MaxForwardDepth][<<body, 0, MaxForwardNodes>>]
Segments(body) == Parsed(body).out

(***************************************************************************)
(* What the parser makes: segments numbered from 0, at most n messages     *)
(* deep.  A message within is a node of a forward or what a reply quotes.  *)
(***************************************************************************)
NumberedFrom0(S) == {s \in Seq(S) : \A i \in DOMAIN s : s[i].position = i - 1}

Leaves ==
    [kind : {"text", "at", "image", "file", "unknown"}, position : Nat,
     value : Seq(Tokens), status : {"none"},
     content : {<<>>}, nodes : {<<>>}, resolved : {<<>>}]

Forwards(trees) ==
    [kind : {"forward"}, position : Nat, value : {<<>>},
     status : {"embedded", "unresolved", "invalid_content", "depth_limit", "node_limit"},
     content : NumberedFrom0(Leaves),
     nodes : Seq([sender : STRING, depth : Nat, content : trees]),
     resolved : {<<>>}]

Replies(trees) ==
    [kind : {"reply"}, position : Nat, value : {<<>>},
     status : {"unresolved", "depth_limit", "node_limit"},
     content : {<<>>}, nodes : {<<>>},
     resolved : {q \in Seq([author : STRING, segments : trees]) : Len(q) <= 1}]

TreesOver(trees) == NumberedFrom0(Leaves \cup Forwards(trees) \cup Replies(trees))

ParsedTrees[n \in 0..MaxForwardDepth] ==
    TreesOver(IF n = 0 THEN {} ELSE ParsedTrees[n - 1])

\* They are among the trees by height: leaves alone, and trees over trees.
Heights == 0..(MaxForwardDepth + 1)
TreesUpTo[n \in Heights] ==
    IF n = 0 THEN NumberedFrom0(Leaves) ELSE TreesOver(TreesUpTo[n - 1])

Within(s) ==
    [i \in DOMAIN s.nodes |-> s.nodes[i].content] \o
    [i \in DOMAIN s.resolved |-> s.resolved[i].segments]

Total(numbers) == FoldLeft(LAMBDA n, k : n + k, 0, numbers)

\* How many messages there are in a tree, at any depth.
Inside(members, s) ==
    Total([k \in DOMAIN Within(s) |-> 1 + members[Within(s)[k]]])
Count(members, tree) == Total([i \in DOMAIN tree |-> Inside(members, tree[i])])

MembersOver(n, members) == [tree \in ParsedTrees[n] |-> Count(members, tree)]

Members[n \in 0..MaxForwardDepth] ==
    MembersOver(n, IF n = 0 THEN <<>> ELSE Members[n - 1])

\* _contains_forward of the repair script.
HasForward[n \in 0..MaxForwardDepth] ==
    [tree \in ParsedTrees[n] |->
       \E s \in Range(tree) :
           \/ s.kind = "forward"
           \/ n > 0 /\ s.resolved # <<>> /\ HasForward[n - 1][s.resolved[1].segments]]
===============================================================================
