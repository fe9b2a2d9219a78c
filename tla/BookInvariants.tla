--------------------------- MODULE BookInvariants ---------------------------
(***************************************************************************)
(* The inductive invariants behind the theorems on BookProcess: what a     *)
(* run's step says about its counters, its memory and the tables.          *)
(***************************************************************************)
EXTENDS BookRefinement

BeforeChunks == {"idle", "upsert", "load", "prepare"}
Grouping == {"group", "saveGroup"}
OnChunk == {"saveQuestions", "breakdown", "saveBreakdown"}

-----------------------------------------------------------------------------
(* What holds however many runs overlap.                                   *)

CountersOf(p) ==
    /\ pc[p] \in BeforeChunks => count[p] = 0 /\ cur[p] = 0 /\ win[p] = 0
    /\ pc[p] \in Grouping => count[p] <= WindowEnd[win[p]]
    /\ pc[p] = "group" => cur[p] = count[p]
    /\ pc[p] = "loop" => cur[p] <= count[p]
    /\ pc[p] \in OnChunk \cup {"saveGroup"} => cur[p] < count[p]

(* The stored chunks are those of some first part of the index range.      *)
StoredIsPrefix == \E k \in 0..N : Stored = 0..(k - 1)

(* A run knows the text of each of its chunks, and every chunk it is past  *)
(* saving is stored; what it believes to be generated is stored.           *)
MemoryOf(p) ==
    /\ \A i \in 0..(count[p] - 1) : mem[p][i].text # None
    /\ pc[p] \in Grouping => \A i \in 0..(cur[p] - 1) : i \in Stored
    /\ pc[p] \notin Grouping => \A i \in 0..(count[p] - 1) : i \in Stored
    /\ \A i \in Index : mem[p][i].hasQuestions => questions[i] # None
    /\ pc[p] \in {"breakdown", "saveBreakdown"} => questions[cur[p]] # None

(* Whatever overlaps, fails or is killed: counters in range, no gap among  *)
(* the stored chunks, no run ahead of what it has saved, no breakdown      *)
(* without questions.                                                      *)
RunsInv ==
    /\ TypeOK
    /\ StoredIsPrefix
    /\ BreakdownNeedsQuestions
    /\ \A p \in Procs : CountersOf(p) /\ MemoryOf(p)

-----------------------------------------------------------------------------
(* What holds when runs do not overlap.                                    *)

Alone == \A p, q \in Procs : p = q

(* The chunks D, with texts t, read as one passage from sentence 1.        *)
Passage(t, D) == \A i \in D :
    /\ t[i].first <= t[i].last
    /\ t[i].first = IF i = 0 THEN 1 ELSE t[i - 1].last + 1

MemText(p) == [i \in Index |-> mem[p][i].text]

GroupingOf(p) ==
    /\ pc[p] \in BeforeChunks => mem[p] = NoChunks /\ ~failed[p]
    /\ pc[p] = "prepare" => Stored = {}
    /\ pc[p] \in Grouping =>
        /\ ~failed[p]
        /\ Passage(MemText(p), 0..(count[p] - 1))
        /\ count[p] > 0 => mem[p][count[p] - 1].text.last = WindowEnd[win[p]]
        /\ count[p] = 0 => win[p] = 0
        /\ Stored = 0..(cur[p] - 1)
        /\ \A i \in Stored : text[i] = mem[p][i].text
        /\ \A i \in Index : questions[i] = None /\ breakdown[i] = None
        /\ \A i \in Index : ~mem[p][i].hasQuestions /\ ~mem[p][i].hasBreakdown

(* The chunks the loop has not reached are in the tables as in memory, and *)
(* the one it is at lacks what it is about to buy or save.                 *)
Pending(p) == {i \in 0..(count[p] - 1) : i > cur[p] \/ (i = cur[p] /\ pc[p] = "loop")}

LoopOf(p) ==
    pc[p] \in OnChunk \cup {"loop"} =>
        /\ Stored = 0..(count[p] - 1)
        /\ \A i \in Stored : text[i] = mem[p][i].text
        /\ \A i \in Pending(p) :
            /\ mem[p][i].hasQuestions = (questions[i] # None)
            /\ mem[p][i].hasBreakdown = (breakdown[i] # None)
        /\ pc[p] = "saveQuestions" => questions[cur[p]] = None
        /\ pc[p] \in {"breakdown", "saveBreakdown"} => breakdown[cur[p]] = None
        /\ ~failed[p] => \A i \in 0..(cur[p] - 1) : Complete(i)

(* Without overlap: the tables hold one passage with the content made for  *)
(* it, a run's memory agrees with them, and a book reported or published   *)
(* as finished has no incomplete chunk.                                    *)
AloneInv ==
    /\ Passage(text, Stored)
    /\ ContentMatchesText
    /\ \A p \in Procs : GroupingOf(p) /\ LoopOf(p)
    /\ \A p \in Procs : result[p] = "ok" => pc[p] = "idle"
    /\ \A p \in Procs : status = "published" => pc[p] \in {"idle", "upsert"}
    /\ SuccessIsComplete
    /\ PublishedIsComplete
=============================================================================
