----------------------------- MODULE MCGrouping -----------------------------
(***************************************************************************)
(* Instances of Grouping: every book of N sentences of a few lengths, and  *)
(* replies of up to two runs, right and wrong, numbered right and wrong,   *)
(* with lists that repeat, skip, reverse or overrun the sentences.         *)
(***************************************************************************)
EXTENDS Grouping, TLC

CONSTANT Lengths

MCTotals == {t \in [0..N -> 0..(5 * N)] :
    /\ t[0] = 0
    /\ \A i \in 1..N : t[i] - t[i - 1] \in Lengths}

Ranges == {[k \in 1..(b - a + 1) |-> a + k - 1] : a \in 1..N, b \in 0..N}
Disordered == {<<1, 1>>, <<2, 1>>, <<1, 3>>, <<N, N + 1>>}

Numbered(index, sentences) == [index |-> index, sentences |-> sentences]

MCReplies ==
    {<<>>}
        \cup {<<Numbered(index, list)>> : index \in 0..1, list \in Ranges \cup Disordered}
        \cup {<<Numbered(0, list), Numbered(1, more)>> : list \in Ranges, more \in Ranges}
=============================================================================
