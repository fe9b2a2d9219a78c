--------------------------- MODULE MCChunkContent ---------------------------
(***************************************************************************)
(* Instances of ChunkContent: two good question sets, one listed in        *)
(* another order, and sets with one fault each.                            *)
(***************************************************************************)
EXTENDS ChunkRefinement

Words == <<"right", "wrong", "other", "none">>
MCOptions == [i \in 1..4 |-> [word |-> Words[i], padded |-> FALSE]]

Good(type, prompt) ==
    [type |-> type, prompt |-> prompt, options |-> MCOptions, answer |-> 0,
     explanation |-> "because",
     highlight |-> IF type = "comprehension" THEN "" ELSE "span"]

First == [k \in 1..3 |-> Good(Order[k], "first")]
Second == <<[Good("comprehension", "second") EXCEPT !.answer = 3],
            Good("vocab", "second"), Good("grammar", "second")>>

MCQuestionReplies == {
    First,
    Second,
    <<>>,
    Append(First, Good("vocab", "more")),
    [First EXCEPT ![2].type = "vocab"],
    [First EXCEPT ![3].type = "kanji"],
    [First EXCEPT ![1].prompt = ""],
    [First EXCEPT ![1].options = SubSeq(MCOptions, 1, 3)],
    [First EXCEPT ![1].options[2] = [word |-> "right", padded |-> TRUE]],
    [First EXCEPT ![1].options[4].word = ""],
    [First EXCEPT ![1].answer = 4],
    [First EXCEPT ![1].answer = -1],
    [First EXCEPT ![2].explanation = ""],
    [First EXCEPT ![2].highlight = "elsewhere"],
    [First EXCEPT ![2].highlight = ""],
    [First EXCEPT ![3].highlight = "span"]}

MCBreakdownReplies ==
    {[japanese |-> j, latin |-> l, other |-> TRUE] : j \in {0, 3}, l \in {0, 4, 7}}
    \cup {NoBreakdown}
=============================================================================
