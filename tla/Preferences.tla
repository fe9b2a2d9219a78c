---------------------------- MODULE Preferences -----------------------------
(***************************************************************************)
(* What the app keeps of one book on the device: LocalProgressStore and    *)
(* LocalScoreStore over shared_preferences.  The plugin keeps every key in *)
(* memory, where a write is visible at once, and hands the write to the    *)
(* platform, which performs the writes one by one and in order.  The       *)
(* screens wait for none of them.                                          *)
(***************************************************************************)
EXTENDS Integers, Sequences

CONSTANTS
    N,         \* the number of chunks of the book
    PerChunk,  \* the questions of a chunk
    MaxUnwritten  \* bounds the writes under way at a time

ASSUME BookAssumption == N \in Nat \ {0} /\ PerChunk \in Nat \ {0}

VARIABLES
    memory,    \* what the app reads
    device,    \* what survives the app
    unwritten  \* the writes the platform has yet to perform

storeVars == <<memory, device, unwritten>>

Chunks == 0..(N - 1)
QuestionIds == Chunks \X (1..PerChunk)
QuestionsOf(chunk) == {chunk} \X (1..PerChunk)

None == -1
Results == {"none", "right", "wrong"}
NoAnswers == [q \in QuestionIds |-> "none"]

(* The two keys of the book.                                               *)
Stored == [progress : {None} \cup Chunks, answers : [QuestionIds -> Results]]
Blank == [progress |-> None, answers |-> NoAnswers]

Perform(s, w) == [s EXCEPT ![w.key] = w.value]

Write(key, value) ==
    LET w == [key |-> key, value |-> value]
    IN  /\ memory' = Perform(memory, w)
        /\ unwritten' = Append(unwritten, w)
        /\ UNCHANGED device

SaveChunkIndex(index) == Write("progress", index)

ClearProgress == Write("progress", None)

(* Mutant of RecordAnswer: the answer is kept in memory only.              *)
RecordInMemory(question, result) ==
    /\ memory' = [memory EXCEPT !.answers[question] = result]
    /\ UNCHANGED <<device, unwritten>>

(* Read, change and write back: the reads complete in microtasks, before   *)
(* the next tap.                                                           *)
RecordAnswer(question, result) ==
    Write("answers", [memory.answers EXCEPT ![question] = result])

(* Mutant of StartOver: the score is cleared first.                        *)
StartOverScoreFirst ==
    /\ memory' = [progress |-> 0, answers |-> NoAnswers]
    /\ unwritten' = unwritten \o <<[key |-> "answers", value |-> NoAnswers],
                                   [key |-> "progress", value |-> 0]>>
    /\ UNCHANGED device

(* saveChunkIndex(0), then clearScore.                                     *)
StartOver ==
    /\ memory' = [progress |-> 0, answers |-> NoAnswers]
    /\ unwritten' = unwritten \o <<[key |-> "progress", value |-> 0],
                                   [key |-> "answers", value |-> NoAnswers]>>
    /\ UNCHANGED device

PlatformWrites ==
    /\ unwritten # <<>>
    /\ device' = Perform(device, Head(unwritten))
    /\ unwritten' = Tail(unwritten)
    /\ UNCHANGED memory

(* The process ends; the next one reads what was written.                  *)
ForgetUnwritten ==
    /\ memory' = device
    /\ unwritten' = <<>>
    /\ UNCHANGED device

Room == Len(unwritten) + 2 <= MaxUnwritten

(* chunkPassed: passed, and not null.                                      *)
Passed(chunk, answers) == \A q \in QuestionsOf(chunk) : answers[q] = "right"
Answered(chunk, answers) == \A q \in QuestionsOf(chunk) : answers[q] # "none"
=============================================================================
