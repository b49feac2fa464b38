--------------------------- MODULE MessagePictures ----------------------------
(***************************************************************************)
(* ImageEnrichmentService._enrich_segments: every image segment, and the   *)
(* picture lines of the texts that are a forward's display text.           *)
(***************************************************************************)
EXTENDS Integers, SequencesExt

IsForwardDisplay(text) == \E i \in DOMAIN text : text[i].kind = "header"

Lines(text) == SelectSeq(text, LAMBDA token : token.kind = "line")

RECURSIVE PicturesInSegments(_, _, _)

PicturesInSegment(s, display, quoted) ==
    LET Found(tokens, lines) ==
          [i \in DOMAIN tokens |-> [url |-> tokens[i].v, display |-> lines]]
    IN  CASE s.kind = "text" /\ (display \/ (quoted /\ IsForwardDisplay(s.value))) ->
               Found(Lines(s.value), TRUE)
          [] s.kind = "image" -> Found(s.value, FALSE)
          [] s.kind = "reply" /\ s.resolved # <<>> ->
               PicturesInSegments(s.resolved[1].segments, FALSE, TRUE)
          [] s.kind = "forward" ->
               PicturesInSegments(s.content, TRUE, FALSE) \o
               FlattenSeq([i \in DOMAIN s.nodes |->
                             PicturesInSegments(s.nodes[i].content, TRUE, FALSE)])
          [] OTHER -> <<>>

PicturesInSegments(segments, display, quoted) ==
    FlattenSeq([i \in DOMAIN segments |->
                  PicturesInSegment(segments[i], display, quoted)])
===============================================================================
