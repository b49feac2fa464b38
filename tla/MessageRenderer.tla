--------------------------- MODULE MessageRenderer ----------------------------
(***************************************************************************)
(* MessageRenderer: what a prompt shows of a message.  A rendering is the  *)
(* sequence of its marks, tokens [kind, v]; names, indentation and the     *)
(* words of a mark are left out.                                           *)
(***************************************************************************)
EXTENDS FiniteSets, MessageParser

EmptyMessage == <<Token("empty", "")>>
OrEmpty(marks) == IF marks = <<>> THEN EmptyMessage ELSE marks

\* _ordered_segments: by position, the order of the tuple breaking ties.
Ordered(segments) ==
    [k \in DOMAIN segments |->
       segments[CHOOSE i \in DOMAIN segments :
          k - 1 = Cardinality({j \in DOMAIN segments :
                     \/ segments[j].position < segments[i].position
                     \/ segments[j].position = segments[i].position /\ j < i})]]

\* within renders the trees with one level less.
RenderReply(within, s) ==
    IF s.resolved = <<>>
    THEN <<Token("quote", s.status)>>
    ELSE <<Token("quoted", s.resolved[1].author)>> \o OrEmpty(within[s.resolved[1].segments])

ForwardHeader(s, content) ==
    IF s.status \in {"depth_limit", "node_limit", "invalid_content"}
    THEN Token("forward", s.status)
    ELSE IF s.status # "embedded" /\ s.nodes = <<>>
    THEN Token("forward", IF content # <<>> THEN "display_only" ELSE "unresolved")
    ELSE Token("forward", "embedded")

RenderForward(within, s) ==
    LET content == within[s.content]
    IN  <<ForwardHeader(s, content)>> \o content \o
        FlattenSeq([i \in DOMAIN s.nodes |-> OrEmpty(within[s.nodes[i].content])])

RenderSegment(within, s) ==
    CASE s.kind = "reply" -> RenderReply(within, s)
      [] s.kind = "forward" -> RenderForward(within, s)
      [] OTHER -> s.value

RenderSegments(within, segments) ==
    LET ordered == Ordered(segments)
    IN  FlattenSeq([i \in DOMAIN ordered |-> RenderSegment(within, ordered[i])])

RendererOver(trees, within) == [tree \in trees |-> RenderSegments(within, tree)]

Renderer[n \in Heights] ==
    RendererOver(TreesUpTo[n], IF n = 0 THEN <<>> ELSE Renderer[n - 1])

RenderMessage(segments) == OrEmpty(Renderer[MaxForwardDepth + 1][segments])
===============================================================================
