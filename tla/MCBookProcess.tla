--------------------------- MODULE MCBookProcess ---------------------------
(***************************************************************************)
(* Instances of BookProcess: a short book of two windows, with every       *)
(* grouping that chunk.ValidatePartition accepts for each window.          *)
(***************************************************************************)
EXTENDS BookProcess, SequencesExt

(* The grouping of sentences lo..hi that ends chunks at `ends` and at hi.  *)
Cut(ends, lo, hi) ==
    LET last == SetToSortSeq(ends \cup {hi}, <)
    IN [k \in 1..Len(last) |->
            [first |-> IF k = 1 THEN lo ELSE last[k - 1] + 1, last |-> last[k]]]

AllGroupings(end) == [w \in 1..W |->
    {Cut(ends, end[w - 1] + 1, end[w]) :
        ends \in SUBSET ((end[w - 1] + 1)..(end[w] - 1))}]

(* A book of two windows: all of its sentences but the last, and the last. *)
MCWindowEnd == (0 :> 0) @@ (1 :> N - 1) @@ (2 :> N)
MCGroupings == AllGroupings(MCWindowEnd)
=============================================================================
