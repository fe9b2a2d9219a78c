----------------------------- MODULE ChunkPanel -----------------------------
(***************************************************************************)
(* ChunkPanel and its QuestionsView: one chunk read, questioned and broken *)
(* down.  A panel is a value; the screens hold one each.                   *)
(***************************************************************************)
EXTENDS Preferences

Phases == {"reading", "questions", "breakdown"}
Panel == [chunk : Chunks, phase : Phases, question : 1..PerChunk,
          selected : BOOLEAN, startAnswered : BOOLEAN]
NoPanel == [phase |-> "unmounted"]

NewPanel(chunk, startAnswered) ==
    [chunk |-> chunk, phase |-> "reading", question |-> 1,
     selected |-> startAnswered, startAnswered |-> startAnswered]

(* An answered question can be left; an option can always be tapped.       *)
QuestionControls(p) == {"option"} \cup (IF p.selected THEN {"advance"} ELSE {})

(* What the panel lets the reader tap.                                     *)
PanelControls(p) ==
    CASE p.phase = "reading" -> {"continue"}
      [] p.phase = "questions" -> QuestionControls(p)
      [] p.phase = "breakdown" -> {"next chunk"}
      [] OTHER -> {}

Question(p) == <<p.chunk, p.question>>

RevealQuestions(p) == [p EXCEPT !.phase = "questions"]

Select(p) == [p EXCEPT !.selected = TRUE]

(* Mutant of Advance: the breakdown comes one question early.              *)
AdvanceEarly(p) ==
    IF p.question >= PerChunk - 1
    THEN [p EXCEPT !.phase = "breakdown"]
    ELSE [p EXCEPT !.question = @ + 1, !.selected = p.startAnswered]

Advance(p) ==
    IF p.question = PerChunk
    THEN [p EXCEPT !.phase = "breakdown"]
    ELSE [p EXCEPT !.question = @ + 1, !.selected = p.startAnswered]
=============================================================================
