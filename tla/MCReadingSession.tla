-------------------------- MODULE MCReadingSession --------------------------
(***************************************************************************)
(* Instances of ReadingSession: some questions are hard and can be answered wrong.     *)
(***************************************************************************)
EXTENDS ReadingSession

CONSTANT Hard

MCOutcomes == [q \in QuestionIds |->
    IF q[2] \in Hard THEN {"right", "wrong"} ELSE {"right"}]
=============================================================================
