-------------------------- MODULE ChunkRefinement ---------------------------
(***************************************************************************)
(* ChunkContent implements ChunkLog: the committed rows are the log.  This *)
(* is what lets BookProcess take SaveChunk as one step.                    *)
(***************************************************************************)
EXTENDS ChunkContent

CONSTANT Nothing

ASSUME NothingAssumption == Nothing \notin Sets

Log == INSTANCE ChunkLog WITH
    Sets <- Sets,
    Breakdowns <- {b \in BreakdownReplies : AcceptsBreakdown(b)},
    questions <- IF rows = NoRows THEN Nothing ELSE StoredSet,
    breakdown <- IF stored = NoBreakdown THEN Nothing ELSE stored

(* Row by row, interrupted and overlapping, the runs do to a chunk only    *)
(* what whole saves would: the stored questions are one validated set or   *)
(* none (the comment on LoadChunkProgress: "a chunk either has none or all *)
(* three"), never a mixture of two replies.                                *)
ImplementsChunkLog == Log!Spec
=============================================================================
