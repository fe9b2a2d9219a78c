------------------------------ MODULE ChunkLog ------------------------------
(***************************************************************************)
(* What the pipeline promises of one chunk's content: a whole set of       *)
(* questions appears at once, and may be replaced by another whole set; a  *)
(* breakdown appears only beside questions; neither ever disappears.       *)
(***************************************************************************)
CONSTANTS Sets, Breakdowns, Nothing

VARIABLES questions, breakdown

vars == <<questions, breakdown>>

Init == questions = Nothing /\ breakdown = Nothing

SaveQuestions ==
    /\ questions' \in Sets
    /\ UNCHANGED breakdown

SaveBreakdown ==
    /\ questions # Nothing
    /\ breakdown' \in Breakdowns
    /\ UNCHANGED questions

Next == SaveQuestions \/ SaveBreakdown

Spec == Init /\ [][Next]_vars
=============================================================================
