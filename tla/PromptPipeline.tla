---------------------------- MODULE PromptPipeline ----------------------------
(***************************************************************************)
(* From the body of an event to the words of a prompt: the parser writes   *)
(* the tree, the codec stores it as rows, a request decodes it, has its    *)
(* pictures described and renders it.  The state machine is that of        *)
(* AssistantRequest; its constants are the definitions below and those of  *)
(* StoredTrees.                                                            *)
(***************************************************************************)
EXTENDS StoredTrees, MessagePictures

ForwardInBody == [body \in SentBodies |-> HasForward[MaxForwardDepth][Segments(body)]]
PicturesOfTree(tree) == PicturesInSegments(Decode(tree), FALSE, FALSE)
===============================================================================
