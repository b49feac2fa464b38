----------------------------- MODULE MessageCodec -----------------------------
(***************************************************************************)
(* message_codec: a message's segments as a set of message_nodes rows, and *)
(* back.  A node is [id, parent, relation, kind, position, depth, value,   *)
(* status, who]; parent 0 is the message itself, who the identity (and for *)
(* a forwarded message its depth in the provenance).                       *)
(***************************************************************************)
EXTENDS FiniteSets, MessageParser

NoOne == [user |-> "none", depth |-> 0]

Payload(kind, value, status, who) ==
    [kind |-> kind, value |-> value, status |-> status, who |-> who]

RelationNames == {"segments", "content", "nodes", "resolved_message"}

NodeRows ==
    [id : Nat, parent : Nat, relation : RelationNames,
     kind : {"text", "at", "image", "file", "unknown", "forward", "reply",
             "forward_node", "resolved_message"},
     position : Nat, depth : Nat, value : Seq(Tokens),
     status : {"none", "embedded", "unresolved", "invalid_content", "depth_limit",
               "node_limit"},
     who : [user : STRING \cup {"none"}, depth : Nat]]

\* The nodes of a message so far and the next id.
Sheets == [nodes : SUBSET NodeRows, next : Nat]

\* _new_node.
NewNode(acc, parent, relation, position, payload, depth) ==
    [nodes |-> acc.nodes \cup
        {[id |-> acc.next, parent |-> parent, relation |-> relation,
          kind |-> payload.kind, position |-> position, depth |-> depth,
          value |-> payload.value, status |-> payload.status, who |-> payload.who]},
     next |-> acc.next + 1]

(***************************************************************************)
(* Encoding.  within is the encoder of trees with one level less, of a     *)
(* sheet, a tree, a parent, a relation and a depth.                        *)
(***************************************************************************)
EncodeResolved(within, acc, resolved, parent, depth) ==
    LET payload == Payload("resolved_message", <<>>, "none",
                           [user |-> resolved.author, depth |-> 0])
    IN  within[<<NewNode(acc, parent, "resolved_message", 0, payload, depth),
                 resolved.segments, acc.next, "segments", depth + 1>>]

EncodeForwardNode(within, acc, node, parent, position, depth) ==
    LET payload == Payload("forward_node", <<>>, "none",
                           [user |-> node.sender, depth |-> node.depth])
    IN  within[<<NewNode(acc, parent, "nodes", position, payload, depth),
                 node.content, acc.next, "content", depth + 1>>]

EncodeNodes(within, acc, nodes, parent, depth) ==
    FoldLeft(LAMBDA a, i : EncodeForwardNode(within, a, nodes[i], parent, i - 1, depth),
             acc, [i \in DOMAIN nodes |-> i])

EncodeSegment(within, acc, s, parent, relation, depth) ==
    LET at == acc.next
        this == NewNode(acc, parent, relation, s.position,
                        Payload(s.kind, s.value, s.status, NoOne), depth)
    IN  IF s.kind = "reply" /\ s.resolved # <<>>
        THEN EncodeResolved(within, this, s.resolved[1], at, depth + 1)
        ELSE IF s.kind = "forward"
        THEN EncodeNodes(within, within[<<this, s.content, at, "content", depth + 1>>],
                         s.nodes, at, depth + 1)
        ELSE this

EncodeAll(within, acc, segments, parent, relation, depth) ==
    FoldLeft(LAMBDA a, s : EncodeSegment(within, a, s, parent, relation, depth),
             acc, segments)

EncoderOver(trees, within) ==
    [x \in Sheets \X trees \X Nat \X RelationNames \X Nat |->
       EncodeAll(within, x[1], x[2], x[3], x[4], x[5])]

Encoder[n \in Heights] ==
    EncoderOver(TreesUpTo[n], IF n = 0 THEN <<>> ELSE Encoder[n - 1])

Encode(segments) ==
    Encoder[MaxForwardDepth + 1][<<[nodes |-> {}, next |-> 1], segments, 0, "segments", 0>>].nodes

(***************************************************************************)
(* Decoding.  Siblings are ordered by position; the database returns rows  *)
(* in no order, so that of equal positions the later one comes first here. *)
(***************************************************************************)
Siblings(found) ==
    [k \in 1..Cardinality(found) |->
       CHOOSE n \in found :
          k - 1 = Cardinality({m \in found :
                     \/ m.position < n.position
                     \/ m.position = n.position /\ m.id > n.id})]

\* Mutant: the children of all relations are taken together.
RelatedMixed(nodes, parent, relation) == Siblings({n \in nodes : n.parent = parent})

Related(nodes, parent, relation) ==
    Siblings({n \in nodes : n.parent = parent /\ n.relation = relation})

DecodeForwardNodes(within, nodes, parent) ==
    LET found == Related(nodes, parent, "nodes")
    IN  [i \in DOMAIN found |->
           [sender |-> found[i].who.user, depth |-> found[i].who.depth,
            content |-> within[<<nodes, found[i].id, "content">>]]]

DecodeResolved(within, nodes, parent) ==
    LET found == Related(nodes, parent, "resolved_message")
    IN  [i \in DOMAIN found |->
           [author |-> found[i].who.user,
            segments |-> within[<<nodes, found[i].id, "segments">>]]]

DecodeSegment(within, nodes, n) ==
    LET forward == n.kind = "forward"
    IN  [kind |-> n.kind, position |-> n.position, value |-> n.value,
         status |-> n.status,
         content |-> IF forward THEN within[<<nodes, n.id, "content">>] ELSE <<>>,
         nodes |-> IF forward THEN DecodeForwardNodes(within, nodes, n.id) ELSE <<>>,
         resolved |-> IF n.kind = "reply" THEN DecodeResolved(within, nodes, n.id) ELSE <<>>]

DecodeSegments(within, nodes, parent, relation) ==
    LET found == Related(nodes, parent, relation)
    IN  [i \in DOMAIN found |-> DecodeSegment(within, nodes, found[i])]

DecoderOver(within) ==
    [x \in (SUBSET NodeRows) \X Nat \X RelationNames |->
       DecodeSegments(within, x[1], x[2], x[3])]

Decoder[n \in Heights] == DecoderOver(IF n = 0 THEN <<>> ELSE Decoder[n - 1])

Decode(nodes) == Decoder[MaxForwardDepth + 1][<<nodes, 0, "segments">>]

\* What each kind of node may hold; the decoder raises on anything else, on a
\* second quoted message, and on a node it does not reach.
Relations(kind) ==
    CASE kind = "reply" -> {"resolved_message"}
      [] kind = "forward" -> {"content", "nodes"}
      [] kind = "forward_node" -> {"content"}
      [] kind = "resolved_message" -> {"segments"}
      [] OTHER -> {}

HoldsWhatItMay(nodes, n) ==
    IF n.parent = 0 THEN n.relation = "segments"
    ELSE \E p \in nodes :
            /\ p.id = n.parent
            /\ n.relation \in Relations(p.kind)
            /\ n.relation = "nodes" <=> n.kind = "forward_node"
            /\ n.relation = "resolved_message" <=> n.kind = "resolved_message"

Decodable(nodes) ==
    /\ \A n \in nodes : HoldsWhatItMay(nodes, n)
    /\ \A m, n \in nodes :
          /\ m.relation = "resolved_message"
          /\ m.relation = n.relation
          /\ m.parent = n.parent
          => m = n
===============================================================================
