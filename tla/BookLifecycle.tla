--------------------------- MODULE BookLifecycle ---------------------------
(***************************************************************************)
(* What the pipeline promises about one book.  Its chunks appear in        *)
(* reading order, each moves forward through fixed stages and never back,  *)
(* and its text is settled when it appears.  The book is visible to        *)
(* readers only while every chunk it has is complete, and nothing about a  *)
(* visible book changes but its being withdrawn.                           *)
(***************************************************************************)
EXTENDS Integers

CONSTANTS N, None

Index == 0..(N - 1)
Text  == [first : 1..N, last : 1..N]

VARIABLES visible, text, stage

vars == <<visible, text, stage>>

Stage == {"absent", "grouped", "questioned", "complete"}

Init ==
    /\ visible = FALSE
    /\ text = [i \in Index |-> None]
    /\ stage = [i \in Index |-> "absent"]

NextFirst(i) == IF i = 0 THEN 1 ELSE text[i - 1].last + 1

Group(i) ==
    /\ ~visible
    /\ stage[i] = "absent"
    /\ i > 0 => stage[i - 1] # "absent"
    /\ \E t \in Text :
        /\ t.first = NextFirst(i)
        /\ t.first <= t.last
        /\ text' = [text EXCEPT ![i] = t]
    /\ stage' = [stage EXCEPT ![i] = "grouped"]
    /\ UNCHANGED visible

Promote(i, from, to) ==
    /\ ~visible
    /\ stage[i] = from
    /\ stage' = [stage EXCEPT ![i] = to]
    /\ UNCHANGED <<visible, text>>

Publish ==
    /\ ~visible
    /\ \A i \in Index : stage[i] \in {"absent", "complete"}
    /\ visible' = TRUE
    /\ UNCHANGED <<text, stage>>

Withdraw ==
    /\ visible
    /\ visible' = FALSE
    /\ UNCHANGED <<text, stage>>

Next ==
    \/ \E i \in Index :
        \/ Group(i)
        \/ Promote(i, "grouped", "questioned")
        \/ Promote(i, "questioned", "complete")
    \/ Publish
    \/ Withdraw

Spec == Init /\ [][Next]_vars
=============================================================================
