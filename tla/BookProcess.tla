---------------------------- MODULE BookProcess ----------------------------
(***************************************************************************)
(* cmd/process run over one book: upsert the book, resume its stored       *)
(* chunks or group it from scratch, then generate and save what each chunk *)
(* lacks.  The command may be killed at any step, any call to Postgres may *)
(* fail (with its write applied or not), generation may fail, and the      *)
(* operator runs the command again; several runs may overlap, because      *)
(* nothing in the code excludes it.                                        *)
(***************************************************************************)
EXTENDS ContentStore, Partition, FiniteSets

CONSTANTS
    Procs,      \* the runs of cmd/process that may be active at once
    W,          \* the number of windows SplitIntoWindows makes
    WindowEnd,  \* WindowEnd[w] is the last sentence of window w
    Groupings,  \* Groupings[w]: the chunk lists Stage B may return for w
    MaxAborts   \* bound: kills and failed database calls

ASSUME WindowAssumption ==
    /\ W \in Nat
    /\ WindowEnd \in [0..W -> 0..N]
    /\ WindowEnd[0] = 0
    /\ WindowEnd[W] = N
ASSUME GroupingAssumption ==
    \A w \in 1..W : \A g \in Groupings[w] :
        g \in Seq(Text) /\ IsPartition(g, WindowEnd[w - 1] + 1, WindowEnd[w])
ASSUME BoundAssumption == MaxAborts \in Nat

VARIABLES
    pc,      \* the step a run is at, "idle" when it is not running
    mem,     \* allChunks: the run's own copy of the chunks' progress
    count,   \* len(allChunks)
    cur,     \* the chunk being saved by groupAllChunks or handled by the loop
    win,     \* windows grouped so far
    failed,  \* failedChunks > 0
    result,  \* how the last run ended: its exit status
    aborts,  \* history: kills and failed database calls
    paid     \* history: question and breakdown generations that succeeded

procVars == <<pc, mem, count, cur, win, failed, result>>
ledger == <<aborts, paid>>
vars == <<storeVars, procVars, ledger>>

Steps == {"idle", "upsert", "load", "prepare", "group", "saveGroup",
          "loop", "saveQuestions", "breakdown", "saveBreakdown"}

NotGenerated(t) == [text |-> t, hasQuestions |-> FALSE, hasBreakdown |-> FALSE]
NoChunks == [i \in Index |-> NotGenerated(None)]

ProcTypeOK ==
    /\ pc \in [Procs -> Steps]
    /\ mem \in [Procs -> [Index -> ChunkProgress]]
    /\ count \in [Procs -> 0..N]
    /\ cur \in [Procs -> 0..N]
    /\ win \in [Procs -> 0..W]
    /\ failed \in [Procs -> BOOLEAN]
    /\ result \in [Procs -> {"none", "ok", "failed"}]

LedgerTypeOK ==
    /\ aborts \in 0..MaxAborts
    /\ paid \in Nat

(* The type invariant: in particular, a run's counters never pass the end  *)
(* of the book and MaxAborts bounds the aborts.                            *)
TypeOK == StoreTypeOK /\ ProcTypeOK /\ LedgerTypeOK

Init ==
    /\ StoreInit
    /\ pc = [p \in Procs |-> "idle"]
    /\ mem = [p \in Procs |-> NoChunks]
    /\ count = [p \in Procs |-> 0]
    /\ cur = [p \in Procs |-> 0]
    /\ win = [p \in Procs |-> 0]
    /\ failed = [p \in Procs |-> FALSE]
    /\ result = [p \in Procs |-> "none"]
    /\ aborts = 0
    /\ paid = 0

GoTo(p, step) == pc' = [pc EXCEPT ![p] = step]
Advance(p) == cur' = [cur EXCEPT ![p] = cur[p] + 1]

(* The process ends; everything it had only in memory is gone.             *)
Exit(p, r) ==
    /\ GoTo(p, "idle")
    /\ result' = [result EXCEPT ![p] = r]
    /\ mem' = [mem EXCEPT ![p] = NoChunks]
    /\ count' = [count EXCEPT ![p] = 0]
    /\ cur' = [cur EXCEPT ![p] = 0]
    /\ win' = [win EXCEPT ![p] = 0]
    /\ failed' = [failed EXCEPT ![p] = FALSE]

Buy ==
    /\ paid' = paid + 1
    /\ UNCHANGED aborts

-----------------------------------------------------------------------------
(* From the command line to the chunk list.                                *)

Start(p) ==
    /\ pc[p] = "idle"
    /\ GoTo(p, "upsert")
    /\ result' = [result EXCEPT ![p] = "none"]
    /\ UNCHANGED <<storeVars, mem, count, cur, win, failed, ledger>>

SaveBook(p) ==
    /\ pc[p] = "upsert"
    /\ \E fetchedCover \in BOOLEAN : UpsertBook(fetchedCover)
    /\ GoTo(p, "load")
    /\ UNCHANGED <<mem, count, cur, win, failed, result, ledger>>

(* The rows come in index order.  Stored indices have no gap (see          *)
(* StoredWithoutGap), so a chunk's place in the list is its index.         *)
ResumeStoredChunks(p) ==
    /\ pc[p] = "load"
    /\ Stored # {}
    /\ mem' = [mem EXCEPT ![p] = LoadChunkProgress]
    /\ count' = [count EXCEPT ![p] = Cardinality(Stored)]
    /\ GoTo(p, "loop")
    /\ UNCHANGED <<storeVars, cur, win, failed, result, ledger>>

(* Mutant of NothingToResume: the book is grouped again on every run.      *)
GroupAgain(p) ==
    /\ pc[p] = "load"
    /\ GoTo(p, "prepare")
    /\ UNCHANGED <<storeVars, mem, count, cur, win, failed, result, ledger>>

NothingToResume(p) ==
    /\ pc[p] = "load"
    /\ Stored = {}
    /\ GoTo(p, "prepare")
    /\ UNCHANGED <<storeVars, mem, count, cur, win, failed, result, ledger>>

PrepareBook(p) ==
    /\ pc[p] = "prepare"
    /\ GoTo(p, "group")
    /\ UNCHANGED <<storeVars, mem, count, cur, win, failed, result, ledger>>

PrepareBookFails(p) ==
    /\ pc[p] = "prepare"
    /\ Exit(p, "failed")
    /\ UNCHANGED <<storeVars, ledger>>

(* Mutant of Appended: chunks are numbered from 1.                         *)
AppendedFromOne(chunks, n, g) ==
    [i \in Index |-> IF i \in (n + 1)..(n + Len(g)) THEN NotGenerated(g[i - n])
                                                   ELSE chunks[i]]

(* BuildChunks and the renumbering make a window's chunks continue the     *)
(* n chunks before them.                                                   *)
Appended(chunks, n, g) ==
    [i \in Index |-> IF i \in n..(n + Len(g) - 1) THEN NotGenerated(g[i - n + 1])
                                                  ELSE chunks[i]]

(* GroupSentencesIntoChunks never fails: it falls back to GreedyGroup.     *)
GroupWindow(p) ==
    /\ pc[p] = "group"
    /\ win[p] < W
    /\ \E g \in Groupings[win[p] + 1] :
        /\ mem' = [mem EXCEPT ![p] = Appended(mem[p], count[p], g)]
        /\ count' = [count EXCEPT ![p] = count[p] + Len(g)]
    /\ win' = [win EXCEPT ![p] = win[p] + 1]
    /\ GoTo(p, "saveGroup")
    /\ UNCHANGED <<storeVars, cur, failed, result, ledger>>

(* Mutant of SaveGroupedChunk: every chunk of a window is saved as its     *)
(* last.                                                                   *)
SaveLastOfWindow(p) ==
    /\ pc[p] = "saveGroup"
    /\ SaveChunk(cur[p], mem[p][count[p] - 1].text, None)
    /\ Advance(p)
    /\ GoTo(p, IF cur[p] + 1 = count[p] THEN "group" ELSE "saveGroup")
    /\ UNCHANGED <<mem, count, win, failed, result, ledger>>

SaveGroupedChunk(p) ==
    /\ pc[p] = "saveGroup"
    /\ SaveChunk(cur[p], mem[p][cur[p]].text, None)
    /\ Advance(p)
    /\ GoTo(p, IF cur[p] + 1 = count[p] THEN "group" ELSE "saveGroup")
    /\ UNCHANGED <<mem, count, win, failed, result, ledger>>

GroupingDone(p) ==
    /\ pc[p] = "group"
    /\ win[p] = W
    /\ cur' = [cur EXCEPT ![p] = 0]
    /\ GoTo(p, "loop")
    /\ UNCHANGED <<storeVars, mem, count, win, failed, result, ledger>>

-----------------------------------------------------------------------------
(* The loop over the chunks.                                               *)

AtChunk(p) == pc[p] = "loop" /\ cur[p] < count[p]
Progress(p) == mem[p][cur[p]]
(* Mutant of AtBreakdown: no `continue` after the questions failed.        *)
AtBreakdownAnyway(p) ==
    \/ pc[p] = "breakdown"
    \/ AtChunk(p) /\ ~Progress(p).hasBreakdown

AtBreakdown(p) ==
    \/ pc[p] = "breakdown"
    \/ AtChunk(p) /\ Progress(p).hasQuestions /\ ~Progress(p).hasBreakdown

SkipComplete(p) ==
    /\ AtChunk(p)
    /\ Progress(p).hasQuestions /\ Progress(p).hasBreakdown
    /\ Advance(p)
    /\ UNCHANGED <<storeVars, pc, mem, count, win, failed, result, ledger>>

GenerateQuestions(p) ==
    /\ AtChunk(p)
    /\ ~Progress(p).hasQuestions
    /\ Buy
    /\ GoTo(p, "saveQuestions")
    /\ UNCHANGED <<storeVars, mem, count, cur, win, failed, result>>

(* Mutant of GiveUpOnChunk: the failure is not counted.                    *)
GiveUpSilently(p) ==
    /\ Advance(p)
    /\ GoTo(p, "loop")
    /\ UNCHANGED <<storeVars, mem, count, win, failed, result, ledger>>

(* All attempts failed: the chunk is left to a later run.                  *)
GiveUpOnChunk(p) ==
    /\ failed' = [failed EXCEPT ![p] = TRUE]
    /\ Advance(p)
    /\ GoTo(p, "loop")
    /\ UNCHANGED <<storeVars, mem, count, win, result, ledger>>

GenerateQuestionsFails(p) ==
    /\ AtChunk(p)
    /\ ~Progress(p).hasQuestions
    /\ GiveUpOnChunk(p)

(* Mutant of SaveQuestions: the questions of the book's first chunk.       *)
SaveFirstQuestions(p) ==
    /\ pc[p] = "saveQuestions"
    /\ SaveChunk(cur[p], Progress(p).text, mem[p][0].text)
    /\ GoTo(p, "breakdown")
    /\ UNCHANGED <<mem, count, cur, win, failed, result, ledger>>

SaveQuestions(p) ==
    /\ pc[p] = "saveQuestions"
    /\ SaveChunk(cur[p], Progress(p).text, Progress(p).text)
    /\ GoTo(p, "breakdown")
    /\ UNCHANGED <<mem, count, cur, win, failed, result, ledger>>

GenerateBreakdown(p) ==
    /\ AtBreakdown(p)
    /\ Buy
    /\ GoTo(p, "saveBreakdown")
    /\ UNCHANGED <<storeVars, mem, count, cur, win, failed, result>>

GenerateBreakdownFails(p) ==
    /\ AtBreakdown(p)
    /\ GiveUpOnChunk(p)

SaveChunkBreakdown(p) ==
    /\ pc[p] = "saveBreakdown"
    /\ SaveBreakdown(cur[p], Progress(p).text)
    /\ Advance(p)
    /\ GoTo(p, "loop")
    /\ UNCHANGED <<mem, count, win, failed, result, ledger>>

Finish(p) ==
    /\ pc[p] = "loop"
    /\ cur[p] = count[p]
    /\ Exit(p, IF failed[p] THEN "failed" ELSE "ok")
    /\ UNCHANGED <<storeVars, ledger>>

-----------------------------------------------------------------------------
(* Failures, and the operator.                                             *)

Abort(p) ==
    /\ aborts < MaxAborts
    /\ aborts' = aborts + 1
    /\ Exit(p, "failed")
    /\ UNCHANGED paid

Kill(p) ==
    /\ pc[p] # "idle"
    /\ Abort(p)
    /\ UNCHANGED storeVars

(* The statement the run is about to send.                                 *)
Write(p) ==
    \/ /\ pc[p] = "upsert"
       /\ \E fetchedCover \in BOOLEAN : UpsertBook(fetchedCover)
    \/ /\ pc[p] = "saveGroup"
       /\ SaveChunk(cur[p], Progress(p).text, None)
    \/ /\ pc[p] = "saveQuestions"
       /\ SaveChunk(cur[p], Progress(p).text, Progress(p).text)
    \/ /\ pc[p] = "saveBreakdown"
       /\ SaveBreakdown(cur[p], Progress(p).text)

(* A failed read or write ends the book with an error.  The server may     *)
(* have committed the write even though its answer was an error.           *)
StoreCallFails(p) ==
    /\ pc[p] \in {"upsert", "load", "saveGroup", "saveQuestions", "saveBreakdown"}
    /\ Abort(p)
    /\ Write(p) \/ UNCHANGED storeVars

(* The operator publishes by hand, after a run that reported success and   *)
(* while none is active.                                                   *)
Publish ==
    /\ \A p \in Procs : pc[p] = "idle"
    /\ \E p \in Procs : result[p] = "ok"
    /\ MarkPublished
    /\ UNCHANGED <<procVars, ledger>>

Run(p) ==
    \/ Start(p) \/ SaveBook(p)
    \/ ResumeStoredChunks(p) \/ NothingToResume(p)
    \/ PrepareBook(p) \/ PrepareBookFails(p)
    \/ GroupWindow(p) \/ SaveGroupedChunk(p) \/ GroupingDone(p)
    \/ SkipComplete(p)
    \/ GenerateQuestions(p) \/ GenerateQuestionsFails(p) \/ SaveQuestions(p)
    \/ GenerateBreakdown(p) \/ GenerateBreakdownFails(p) \/ SaveChunkBreakdown(p)
    \/ Finish(p)
    \/ Kill(p) \/ StoreCallFails(p)

Next == Publish \/ \E p \in Procs : Run(p)

Spec == Init /\ [][Next]_vars

(* The operator runs the command again until it reports success, a run     *)
(* that is not killed goes on, and neither the fetch nor the model fails   *)
(* for ever.                                                               *)
Work(p) ==
    \/ SaveBook(p) \/ ResumeStoredChunks(p) \/ NothingToResume(p)
    \/ PrepareBook(p) \/ GroupWindow(p) \/ SaveGroupedChunk(p)
    \/ GroupingDone(p) \/ SkipComplete(p) \/ GenerateQuestions(p)
    \/ SaveQuestions(p) \/ GenerateBreakdown(p) \/ SaveChunkBreakdown(p)
    \/ Finish(p)

Fairness == \A p \in Procs :
    /\ WF_vars(result[p] # "ok" /\ Start(p))
    /\ WF_vars(Work(p))
    /\ SF_vars(PrepareBook(p))
    /\ SF_vars(GenerateQuestions(p))
    /\ SF_vars(GenerateBreakdown(p))

LiveSpec == Spec /\ Fairness

-----------------------------------------------------------------------------
(* Safety.                                                                 *)

(* Chunk indices are stored without a gap, however runs overlap, fail and  *)
(* are killed.  The app saves a reader's position as a place in the chunk  *)
(* list but labels a chunk index + 1, and `for i := range allChunks`       *)
(* reports progress as c.Index + 1 of the length: both rest on it.         *)
StoredWithoutGap == \A i \in Stored : \A j \in 0..i : j \in Stored

(* No chunk has a breakdown without questions.  processBook tests          *)
(* hasQuestions and hasBreakdown separately and would otherwise buy a      *)
(* breakdown twice.                                                        *)
BreakdownNeedsQuestions ==
    \A i \in Index : breakdown[i] # None => questions[i] # None

(* The two together: what any mixture of runs leaves in the tables can be  *)
(* resumed by position, and costs nothing a second time.                   *)
TablesAreSound == StoredWithoutGap /\ BreakdownNeedsQuestions

(* Without overlapping runs, stored chunks read as one passage: the first  *)
(* begins the book and each begins where the one before it ends, whatever  *)
(* mixture of killed runs wrote them.                                      *)
ReadingOrder == \A i \in Stored :
    IF i = 0 THEN text[i].first = 1
             ELSE i - 1 \in Stored /\ text[i].first = text[i - 1].last + 1

(* Without overlapping runs, questions and breakdowns are about the text   *)
(* they are stored with: a resumed chunk's text is never regrouped under   *)
(* them.                                                                   *)
ContentMatchesText == \A i \in Index :
    /\ questions[i] \in {None, text[i]}
    /\ breakdown[i] \in {None, text[i]}

(* A run that exits 0 left every stored chunk with questions and a         *)
(* breakdown, counting those earlier runs skipped or half finished.        *)
SuccessIsComplete == \A p \in Procs :
    result[p] = "ok" => \A i \in Stored : Complete(i)

(* Nothing half-generated is ever published, through any number of later   *)
(* runs that are killed or fail.                                           *)
PublishedIsComplete == status = "published" => \A i \in Stored : Complete(i)

(* The two together: whatever says that a book is finished is right, and   *)
(* no later run that fails makes it wrong.                                 *)
CompleteWhenTold == SuccessIsComplete /\ PublishedIsComplete

(* Without overlapping runs, a generation is never paid for when its       *)
(* product is already stored, whatever the run's memory says.              *)
SavedIsNeverBoughtAgain == [][\A p \in Procs :
    /\ pc'[p] = "saveQuestions" /\ pc[p] # "saveQuestions"
           => questions[cur[p]] = None
    /\ pc'[p] = "saveBreakdown" /\ pc[p] # "saveBreakdown"
           => breakdown[cur[p]] = None]_vars

Products == {<<"questions", i>> : i \in {j \in Index : questions[j] # None}}
       \cup {<<"breakdown", i>> : i \in {j \in Index : breakdown[j] # None}}
InFlight == {p \in Procs : pc[p] \in {"saveQuestions", "saveBreakdown"}}

(* Without overlapping runs, each kill or database failure wastes at most  *)
(* one paid generation: the one bought and not yet saved.                  *)
AtMostOneLostPerAbort ==
    paid <= Cardinality(Products) + Cardinality(InFlight) + aborts

(* Liveness: kills and database failures being finitely many, re-running   *)
(* the command completes the chunks it stored, and they stay complete.     *)
EventuallyComplete == <>[](Stored # {} /\ \A i \in Stored : Complete(i))

-----------------------------------------------------------------------------
(* What the documentation says and the code does not do.                   *)

(* chunksForBook's comment (cmd/process/main.go:303): chunks are resumed   *)
(* "whenever a prior run already got this book through Stage B", so a run  *)
(* that succeeds has processed the whole book.                             *)
SuccessCoversBook == \A p \in Procs :
    result[p] = "ok" => \A s \in 1..N : \E i \in Stored :
                            s \in text[i].first..text[i].last
=============================================================================
