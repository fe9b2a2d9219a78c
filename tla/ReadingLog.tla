----------------------------- MODULE ReadingLog -----------------------------
(***************************************************************************)
(* What the device promises to a reader: a bookmark that moves one chunk   *)
(* at a time, each chunk answered before it is left, and answers that      *)
(* change only where the bookmark is or in a chunk already done.  The app  *)
(* may die at any time, and this does not show.                            *)
(***************************************************************************)
EXTENDS Integers

CONSTANTS N, PerChunk

VARIABLES mark, answers

vars == <<mark, answers>>

Questions == (0..(N - 1)) \X (1..PerChunk)
NoMark == -1
NoResults == [q \in Questions |-> "none"]

At == IF mark = NoMark THEN 0 ELSE mark
Done(chunk) == \A k \in 1..PerChunk : answers[<<chunk, k>>] # "none"

Init == mark = NoMark /\ answers = NoResults

(* The question of the chunk at hand, or of one redone.                    *)
Answer == \E q \in Questions, result \in {"right", "wrong"} :
    /\ q[1] = At \/ Done(q[1])
    /\ answers' = [answers EXCEPT ![q] = result]
    /\ UNCHANGED mark

Move ==
    /\ Done(At)
    /\ At + 1 < N
    /\ mark' = At + 1
    /\ UNCHANGED answers

Finish ==
    /\ \A chunk \in 0..(N - 1) : Done(chunk)
    /\ mark' = NoMark
    /\ UNCHANGED answers

Restart ==
    /\ \A chunk \in 0..(N - 1) : Done(chunk)
    /\ mark = NoMark
    /\ mark' = 0
    /\ UNCHANGED answers

Wipe ==
    /\ mark = 0
    /\ answers' = NoResults
    /\ UNCHANGED mark

Next == Answer \/ Move \/ Finish \/ Restart \/ Wipe

Spec == Init /\ [][Next]_vars
=============================================================================
