----------------------------- MODULE Partition -----------------------------
(***************************************************************************)
(* Lists of runs of sentences: the windows of a book, the chunks of a      *)
(* window.                                                                 *)
(***************************************************************************)
EXTENDS Integers, Sequences

Span(first, last) == [first |-> first, last |-> last]

(* g lists non-empty runs that cover sentences lo..hi in order.  The third *)
(* conjunct, that no sentence is in two runs, follows from the others by   *)
(* an induction on k and is stated for the proofs.                         *)
IsPartition(g, lo, hi) ==
    /\ Len(g) > 0
    /\ g[1].first = lo
    /\ g[Len(g)].last = hi
    /\ \A k \in 1..Len(g) :
        /\ g[k].first <= g[k].last
        /\ g[k].first >= lo + k - 1
        /\ k < Len(g) => g[k + 1].first = g[k].last + 1
=============================================================================
