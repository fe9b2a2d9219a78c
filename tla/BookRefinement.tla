--------------------------- MODULE BookRefinement ---------------------------
(***************************************************************************)
(* BookProcess, without overlapping runs, implements BookLifecycle: a      *)
(* chunk's stage is read off the rows it has, and a published book is a    *)
(* visible one.                                                            *)
(***************************************************************************)
EXTENDS BookProcess

StageOf(i) ==
    IF text[i] = None THEN "absent"
    ELSE IF questions[i] = None THEN "grouped"
    ELSE IF breakdown[i] = None THEN "questioned"
    ELSE "complete"

Lifecycle == INSTANCE BookLifecycle WITH
    visible <- status = "published",
    stage <- [i \in Index |-> StageOf(i)]

(* Every step of a run, a kill or a database failure keeps the promises of *)
(* BookLifecycle: chunks only move forward, in reading order, with their   *)
(* text fixed, and never while the book is published.                      *)
ImplementsLifecycle == Lifecycle!Spec
=============================================================================
