----------------------------- MODULE BookProofs ----------------------------
(***************************************************************************)
(* What TLAPS proves of BookProcess.  For every book, every set of runs    *)
(* and every number of kills, however the runs overlap: BookInv.  When     *)
(* runs do not overlap: AloneInv, and with it that the tables hold one     *)
(* passage with its own content, complete whenever a run reported success  *)
(* or the book is published.  And that without overlapping runs            *)
(* BookProcess implements BookLifecycle.                                   *)
(***************************************************************************)
EXTENDS BookInvariants, FiniteSetTheorems, TLAPS

(* Stage B never makes more chunks of a window than it has sentences.      *)
LEMMA GroupingFits ==
    ASSUME NEW w \in 0..W, w < W, NEW g \in Groupings[w + 1]
    PROVE  /\ g \in Seq(Text)
           /\ Len(g) \in Nat \ {0}
           /\ \A k \in 1..Len(g) : g[k] \in Text
           /\ WindowEnd[w] \in 0..N
           /\ WindowEnd[w + 1] \in 0..N
           /\ WindowEnd[w] + Len(g) <= WindowEnd[w + 1]
<1>1. w + 1 \in 1..W /\ (w + 1) - 1 = w
  BY WindowAssumption
<1>2. g \in Seq(Text) /\ IsPartition(g, WindowEnd[w] + 1, WindowEnd[w + 1])
  BY <1>1, GroupingAssumption
<1>3. WindowEnd[w] \in 0..N /\ WindowEnd[w + 1] \in 0..N
  BY <1>1, WindowAssumption
<1>4. Len(g) \in Nat \ {0} /\ \A k \in 1..Len(g) : g[k] \in Text
  BY <1>2 DEF IsPartition
<1>5. /\ g[Len(g)].first >= WindowEnd[w] + 1 + Len(g) - 1
      /\ g[Len(g)].first <= g[Len(g)].last
      /\ g[Len(g)].last = WindowEnd[w + 1]
  BY <1>2, <1>4 DEF IsPartition
<1>6. g[Len(g)].first \in Int /\ g[Len(g)].last \in Int
  BY <1>4 DEF Text
<1>. QED
  BY <1>2, <1>3, <1>4, <1>5, <1>6, NAssumption

LEMMA StoredSize ==
    ASSUME NEW k \in 0..N, Stored = 0..(k - 1)
    PROVE  Cardinality(Stored) = k
<1>1. Cardinality(0..(k - 1)) = IF 0 > k - 1 THEN 0 ELSE (k - 1) - 0 + 1
  BY FS_Interval, NAssumption
<1>. QED
  BY <1>1, NAssumption

LEMMA RunsInvInit == Init => RunsInv
<1> SUFFICES ASSUME Init PROVE RunsInv
  OBVIOUS
<1> USE NAssumption, WindowAssumption, BoundAssumption, NoneAssumption
<1>1. NoChunks \in [Index -> ChunkProgress]
  BY DEF NoChunks, NotGenerated, ChunkProgress
<1>2. TypeOK
  <2>1. StoreTypeOK
    BY DEF Init, StoreInit, StoreTypeOK
  <2>2. ProcTypeOK
    <3>1. mem \in [Procs -> [Index -> ChunkProgress]]
      BY <1>1 DEF Init
    <3>. QED
      BY <3>1 DEF Init, ProcTypeOK, Steps
  <2>3. LedgerTypeOK
    BY DEF Init, LedgerTypeOK
  <2>. QED
    BY <2>1, <2>2, <2>3 DEF TypeOK
<1>3. Stored = 0..(0 - 1)
  BY DEF Init, StoreInit, Stored
<1>4. StoredIsPrefix
  BY <1>3 DEF StoredIsPrefix
<1>5. BreakdownNeedsQuestions
  BY DEF Init, StoreInit, BreakdownNeedsQuestions
<1>6. ASSUME NEW p \in Procs PROVE CountersOf(p) /\ MemoryOf(p)
  BY DEF Init, StoreInit, CountersOf, MemoryOf, BeforeChunks, Grouping, OnChunk,
         NoChunks, NotGenerated
<1>. QED
  BY <1>2, <1>4, <1>5, <1>6 DEF RunsInv

-----------------------------------------------------------------------------
(* How a step changes the tables, and what it leaves of the other runs.    *)

(* No row is ever deleted.                                                 *)
Grows == \A i \in Index :
    /\ text[i] # None => text'[i] # None
    /\ questions[i] # None => questions'[i] # None
    /\ breakdown[i] # None => breakdown'[i] # None

OnlyRun(p) == \A q \in Procs \ {p} :
    /\ pc'[q] = pc[q]
    /\ mem'[q] = mem[q]
    /\ count'[q] = count[q]
    /\ cur'[q] = cur[q]
    /\ win'[q] = win[q]

TablesOK ==
    /\ StoreTypeOK
    /\ StoredIsPrefix
    /\ BreakdownNeedsQuestions

LEMMA OthersKeep ==
    ASSUME RunsInv, Grows, NEW p \in Procs, OnlyRun(p), NEW q \in Procs \ {p}
    PROVE  CountersOf(q)' /\ MemoryOf(q)'
<1>1. CountersOf(q) /\ MemoryOf(q)
  BY DEF RunsInv
<1>2. CountersOf(q)'
  BY <1>1 DEF CountersOf, OnlyRun
<1>3. 0..(count[q] - 1) \subseteq Index /\ count[q] \in 0..N /\ cur[q] \in 0..N
  BY NAssumption DEF RunsInv, TypeOK, ProcTypeOK, Index
<1>4. pc[q] \in OnChunk => cur[q] < count[q]
  BY <1>1 DEF CountersOf
<1>5. pc[q] \in {"breakdown", "saveBreakdown"} => cur[q] \in Index
  BY <1>3, <1>4, NAssumption DEF OnChunk, Index
<1>6. Stored \subseteq Stored'
  BY DEF Grows, Stored
<1>7. MemoryOf(q)'
  BY <1>1, <1>3, <1>5, <1>6 DEF MemoryOf, OnlyRun, Grows
<1>. QED
  BY <1>2, <1>7

LEMMA UpsertBookTables ==
    ASSUME TablesOK, NEW f \in BOOLEAN, UpsertBook(f)
    PROVE  TablesOK' /\ Grows
BY DEF TablesOK, UpsertBook, contentVars, StoreTypeOK, StoredIsPrefix, Stored,
       BreakdownNeedsQuestions, Grows

LEMMA SaveChunkTables ==
    ASSUME TablesOK, NEW i \in Index, NEW t \in Text, NEW qs \in {None, t},
           \A j \in 0..(i - 1) : j \in Stored, SaveChunk(i, t, qs)
    PROVE  /\ TablesOK' /\ Grows
           /\ Stored' = Stored \cup {i}
           /\ qs # None => questions'[i] # None
<1> USE NAssumption, NoneAssumption
<1>1. /\ text' = [text EXCEPT ![i] = t]
      /\ questions' = IF qs = None THEN questions
                                   ELSE [questions EXCEPT ![i] = qs]
      /\ breakdown' = breakdown /\ status' = status /\ cover' = cover
  BY DEF SaveChunk
<1>2. /\ text \in [Index -> Text \cup {None}]
      /\ questions \in [Index -> Text \cup {None}]
  BY DEF TablesOK, StoreTypeOK
<1>3. t # None
  OBVIOUS
<1>4. StoreTypeOK'
  BY <1>1, <1>2 DEF TablesOK, StoreTypeOK
<1>5. Grows /\ (qs # None => questions'[i] # None)
  BY <1>1, <1>2, <1>3 DEF Grows
<1>6. Stored' = Stored \cup {i}
  BY <1>1, <1>2, <1>3 DEF Stored
<1>7. StoredIsPrefix'
  <2>1. PICK k \in 0..N : Stored = 0..(k - 1)
    BY DEF TablesOK, StoredIsPrefix
  <2>2. i \in 0..k /\ i \in 0..(N - 1)
    <3>1. i \in 0..(N - 1)
      BY DEF Index
    <3>2. i > 0 => i - 1 \in Stored
      BY <3>1
    <3>. QED
      BY <2>1, <3>1, <3>2
  <2>3. CASE i < k
    BY <1>6, <2>1, <2>2, <2>3 DEF StoredIsPrefix
  <2>4. CASE i = k
    <3>1. Stored' = 0..((k + 1) - 1) /\ k + 1 \in 0..N
      BY <1>6, <2>1, <2>2, <2>4
    <3>. QED
      BY <3>1 DEF StoredIsPrefix
  <2>. QED
    BY <2>2, <2>3, <2>4
<1>8. BreakdownNeedsQuestions'
  BY <1>1, <1>5 DEF TablesOK, BreakdownNeedsQuestions, Grows
<1>. QED
  BY <1>4, <1>5, <1>6, <1>7, <1>8 DEF TablesOK

LEMMA SaveBreakdownTables ==
    ASSUME TablesOK, NEW i \in Index, NEW t \in Text, questions[i] # None,
           SaveBreakdown(i, t)
    PROVE  TablesOK' /\ Grows /\ Stored' = Stored
<1> USE NoneAssumption DEF SaveBreakdown
<1>1. StoreTypeOK'
  BY DEF TablesOK, StoreTypeOK
<1>2. Grows
  BY DEF TablesOK, StoreTypeOK, Grows
<1>3. StoredIsPrefix' /\ Stored' = Stored
  BY DEF TablesOK, StoredIsPrefix, Stored
<1>4. BreakdownNeedsQuestions'
  BY DEF TablesOK, StoreTypeOK, BreakdownNeedsQuestions
<1>. QED
  BY <1>1, <1>2, <1>3, <1>4 DEF TablesOK

LEMMA SameTables ==
    ASSUME TablesOK, UNCHANGED storeVars
    PROVE  TablesOK' /\ Grows
BY DEF TablesOK, storeVars, StoreTypeOK, StoredIsPrefix, Stored,
       BreakdownNeedsQuestions, Grows

-----------------------------------------------------------------------------
(* Each step of a run keeps RunsInv.                                       *)

(* What has to be shown of a step of run p.                                *)
KeptBy(p) ==
    /\ TablesOK' /\ Grows
    /\ ProcTypeOK' /\ LedgerTypeOK'
    /\ OnlyRun(p)
    /\ CountersOf(p)' /\ MemoryOf(p)'

LEMMA KeptIsEnough ==
    ASSUME RunsInv, NEW p \in Procs, KeptBy(p)
    PROVE  RunsInv'
<1>1. \A q \in Procs : CountersOf(q)' /\ MemoryOf(q)'
  BY OthersKeep DEF KeptBy
<1>. QED
  BY <1>1 DEF KeptBy, RunsInv, TypeOK, TablesOK

LEMMA RunsInvFacts ==
    ASSUME RunsInv, NEW p \in Procs
    PROVE  /\ TablesOK /\ ProcTypeOK /\ LedgerTypeOK
           /\ CountersOf(p) /\ MemoryOf(p)
           /\ count[p] \in 0..N /\ cur[p] \in 0..N /\ win[p] \in 0..W
           /\ pc[p] \in Steps
           /\ mem[p] \in [Index -> ChunkProgress]
           /\ 0..(count[p] - 1) \subseteq Index
           /\ pc[p] \in OnChunk \cup {"saveGroup"} => cur[p] \in Index
<1>1. count[p] \in 0..N /\ cur[p] \in 0..N /\ CountersOf(p)
  BY DEF RunsInv, TypeOK, ProcTypeOK
<1>2. 0..(count[p] - 1) \subseteq Index
  BY <1>1, NAssumption DEF Index
<1>3. pc[p] \in OnChunk \cup {"saveGroup"} => cur[p] \in Index
  BY <1>1, NAssumption DEF CountersOf, Index
<1>. QED
  BY <1>1, <1>2, <1>3 DEF RunsInv, TypeOK, TablesOK, ProcTypeOK

LEMMA ExitKeeps ==
    ASSUME RunsInv, NEW p \in Procs, NEW r \in {"ok", "failed"}, Exit(p, r),
           TablesOK', Grows, LedgerTypeOK'
    PROVE  KeptBy(p)
<1> USE NAssumption, WindowAssumption
<1>1. ProcTypeOK
  BY RunsInvFacts
<1>2. NoChunks \in [Index -> ChunkProgress]
  BY DEF NoChunks, NotGenerated, ChunkProgress
<1>3. ProcTypeOK'
  <2>1. mem' \in [Procs -> [Index -> ChunkProgress]]
    BY <1>1, <1>2 DEF ProcTypeOK, Exit
  <2>2. pc' \in [Procs -> Steps] /\ result' \in [Procs -> {"none", "ok", "failed"}]
    BY <1>1 DEF ProcTypeOK, Exit, GoTo, Steps
  <2>3. /\ count' \in [Procs -> 0..N]
        /\ cur' \in [Procs -> 0..N]
        /\ win' \in [Procs -> 0..W]
        /\ failed' \in [Procs -> BOOLEAN]
    BY <1>1 DEF ProcTypeOK, Exit
  <2>. QED
    BY <2>1, <2>2, <2>3 DEF ProcTypeOK
<1>4. OnlyRun(p)
  BY <1>1 DEF ProcTypeOK, Exit, GoTo, OnlyRun
<1>5. /\ pc'[p] = "idle" /\ mem'[p] = NoChunks
      /\ count'[p] = 0 /\ cur'[p] = 0 /\ win'[p] = 0
  BY <1>1 DEF ProcTypeOK, Exit, GoTo
<1>6. CountersOf(p)'
  BY <1>5 DEF CountersOf, BeforeChunks, Grouping, OnChunk
<1>7. MemoryOf(p)'
  BY <1>5 DEF MemoryOf, Grouping, NoChunks, NotGenerated
<1>. QED
  BY <1>3, <1>4, <1>6, <1>7 DEF KeptBy

LEMMA StartKeeps ==
    ASSUME RunsInv, NEW p \in Procs, Start(p)
    PROVE  KeptBy(p)
<1> USE RunsInvFacts, NAssumption
<1>1. TablesOK' /\ Grows /\ LedgerTypeOK'
  BY SameTables DEF Start, ledger, LedgerTypeOK
<1>2. ProcTypeOK'
  BY DEF Start, GoTo, ProcTypeOK, Steps
<1>3. OnlyRun(p)
  BY DEF Start, GoTo, ProcTypeOK, OnlyRun
<1>4. CountersOf(p)'
  BY DEF Start, GoTo, ProcTypeOK, CountersOf, BeforeChunks, Grouping, OnChunk
<1>5. MemoryOf(p)'
  BY <1>1 DEF Start, GoTo, ProcTypeOK, MemoryOf, CountersOf, BeforeChunks, Grouping, Grows
<1>. QED
  BY <1>1, <1>2, <1>3, <1>4, <1>5 DEF KeptBy

LEMMA SaveBookKeeps ==
    ASSUME RunsInv, NEW p \in Procs, SaveBook(p)
    PROVE  KeptBy(p)
<1> USE RunsInvFacts, NAssumption
<1>1. TablesOK' /\ Grows /\ LedgerTypeOK'
  BY UpsertBookTables DEF SaveBook, ledger, LedgerTypeOK
<1>2. ProcTypeOK'
  BY DEF SaveBook, GoTo, ProcTypeOK, Steps
<1>3. OnlyRun(p)
  BY DEF SaveBook, GoTo, ProcTypeOK, OnlyRun
<1>4. CountersOf(p)'
  BY DEF SaveBook, GoTo, ProcTypeOK, CountersOf, BeforeChunks, Grouping, OnChunk
<1>5. MemoryOf(p)'
  BY <1>1 DEF SaveBook, GoTo, ProcTypeOK, MemoryOf, CountersOf, BeforeChunks, Grouping, Grows
<1>. QED
  BY <1>1, <1>2, <1>3, <1>4, <1>5 DEF KeptBy

LEMMA ResumeStoredChunksKeeps ==
    ASSUME RunsInv, NEW p \in Procs, ResumeStoredChunks(p)
    PROVE  KeptBy(p)
<1> USE RunsInvFacts, NAssumption
<1>1. TablesOK' /\ Grows /\ LedgerTypeOK'
  BY SameTables DEF ResumeStoredChunks, ledger, LedgerTypeOK
<1>2. PICK k \in 0..N : Stored = 0..(k - 1) /\ Cardinality(Stored) = k
  BY StoredSize DEF TablesOK, StoredIsPrefix
<1>3. LoadChunkProgress \in [Index -> ChunkProgress]
  BY DEF TablesOK, StoreTypeOK, LoadChunkProgress, ChunkProgress
<1>4. /\ pc' = [pc EXCEPT ![p] = "loop"]
      /\ mem' = [mem EXCEPT ![p] = LoadChunkProgress]
      /\ count' = [count EXCEPT ![p] = k]
      /\ cur' = cur /\ win' = win /\ failed' = failed /\ result' = result
  BY <1>2 DEF ResumeStoredChunks, GoTo
<1>5. ProcTypeOK'
  BY <1>3, <1>4 DEF ProcTypeOK, Steps
<1>6. OnlyRun(p)
  BY <1>4 DEF ProcTypeOK, OnlyRun
<1>7. /\ pc'[p] = "loop" /\ mem'[p] = LoadChunkProgress
      /\ count'[p] = k /\ cur'[p] = 0
  BY <1>4 DEF ResumeStoredChunks, ProcTypeOK, CountersOf, BeforeChunks
<1>8. CountersOf(p)'
  BY <1>7 DEF CountersOf, BeforeChunks, Grouping, OnChunk
<1>9. MemoryOf(p)'
  <2>1. \A i \in 0..(k - 1) : text[i] # None /\ i \in Index
    BY <1>2 DEF Stored
  <2>2. \A i \in 0..(count'[p] - 1) : mem'[p][i].text # None /\ i \in Stored'
    BY <1>1, <1>7, <2>1 DEF LoadChunkProgress, Grows, Stored
  <2>3. \A i \in Index : mem'[p][i].hasQuestions => questions'[i] # None
    <3>1. ASSUME NEW i \in Index
          PROVE  mem'[p][i].hasQuestions = (questions[i] # None)
      <4>1. mem'[p][i] = [text         |-> text[i],
                          hasQuestions |-> questions[i] # None,
                          hasBreakdown |-> breakdown[i] # None]
        BY <1>7 DEF LoadChunkProgress
      <4>. QED
        BY <4>1
    <3>. QED
      BY <1>1, <3>1 DEF Grows
  <2>. QED
    BY <1>7, <2>2, <2>3 DEF MemoryOf, Grouping
<1>. QED
  BY <1>1, <1>5, <1>6, <1>8, <1>9 DEF KeptBy

LEMMA NothingToResumeKeeps ==
    ASSUME RunsInv, NEW p \in Procs, NothingToResume(p)
    PROVE  KeptBy(p)
<1> USE RunsInvFacts, NAssumption
<1>1. TablesOK' /\ Grows /\ LedgerTypeOK'
  BY SameTables DEF NothingToResume, ledger, LedgerTypeOK
<1>2. ProcTypeOK'
  BY DEF NothingToResume, GoTo, ProcTypeOK, Steps
<1>3. OnlyRun(p)
  BY DEF NothingToResume, GoTo, ProcTypeOK, OnlyRun
<1>4. CountersOf(p)'
  BY DEF NothingToResume, GoTo, ProcTypeOK, CountersOf, BeforeChunks, Grouping, OnChunk
<1>5. MemoryOf(p)'
  BY <1>1 DEF NothingToResume, GoTo, ProcTypeOK, MemoryOf, CountersOf, BeforeChunks, Grouping, Grows
<1>. QED
  BY <1>1, <1>2, <1>3, <1>4, <1>5 DEF KeptBy

LEMMA PrepareBookKeeps ==
    ASSUME RunsInv, NEW p \in Procs, PrepareBook(p)
    PROVE  KeptBy(p)
<1> USE RunsInvFacts, NAssumption
<1>1. TablesOK' /\ Grows /\ LedgerTypeOK'
  BY SameTables DEF PrepareBook, ledger, LedgerTypeOK
<1>2. ProcTypeOK'
  BY DEF PrepareBook, GoTo, ProcTypeOK, Steps
<1>3. OnlyRun(p)
  BY DEF PrepareBook, GoTo, ProcTypeOK, OnlyRun
<1>4. CountersOf(p)'
  BY WindowAssumption
     DEF PrepareBook, GoTo, ProcTypeOK, CountersOf, BeforeChunks, Grouping, OnChunk
<1>5. MemoryOf(p)'
  BY <1>1 DEF PrepareBook, GoTo, ProcTypeOK, MemoryOf, CountersOf, BeforeChunks, Grouping, Grows
<1>. QED
  BY <1>1, <1>2, <1>3, <1>4, <1>5 DEF KeptBy

LEMMA PrepareBookFailsKeeps ==
    ASSUME RunsInv, NEW p \in Procs, PrepareBookFails(p)
    PROVE  KeptBy(p)
<1>1. TablesOK' /\ Grows /\ LedgerTypeOK'
  BY RunsInvFacts, SameTables DEF PrepareBookFails, ledger, LedgerTypeOK
<1>. QED
  BY <1>1, ExitKeeps DEF PrepareBookFails

LEMMA GroupWindowKeeps ==
    ASSUME RunsInv, NEW p \in Procs, GroupWindow(p)
    PROVE  KeptBy(p)
<1> USE RunsInvFacts, NAssumption
<1>1. TablesOK' /\ Grows /\ LedgerTypeOK'
  BY SameTables DEF GroupWindow, ledger, LedgerTypeOK
<1> DEFINE c == count[p]
<1>2. PICK g \in Groupings[win[p] + 1] :
        /\ mem' = [mem EXCEPT ![p] = Appended(mem[p], c, g)]
        /\ count' = [count EXCEPT ![p] = c + Len(g)]
  BY DEF GroupWindow
<1>3. /\ pc' = [pc EXCEPT ![p] = "saveGroup"]
      /\ win' = [win EXCEPT ![p] = win[p] + 1]
      /\ cur' = cur /\ failed' = failed /\ result' = result
      /\ pc[p] = "group" /\ win[p] < W
  BY DEF GroupWindow, GoTo
<1>4. /\ Len(g) \in Nat \ {0}
      /\ \A k \in 1..Len(g) : g[k] \in Text
      /\ WindowEnd[win[p]] \in 0..N
      /\ WindowEnd[win[p] + 1] \in 0..N
      /\ WindowEnd[win[p]] + Len(g) <= WindowEnd[win[p] + 1]
  BY <1>3, GroupingFits
<1>5. cur[p] = c /\ c <= WindowEnd[win[p]]
  BY <1>3 DEF CountersOf, Grouping
<1>6. c + Len(g) \in 0..N /\ c + Len(g) <= WindowEnd[win[p] + 1]
  BY <1>4, <1>5
<1>7. \A i \in c..(c + Len(g) - 1) : g[i - c + 1] \in Text
  BY <1>4, <1>5
<1>8. Appended(mem[p], c, g) \in [Index -> ChunkProgress]
  <2>1. ASSUME NEW i \in Index PROVE Appended(mem[p], c, g)[i] \in ChunkProgress
    BY <1>7 DEF Appended, NotGenerated, ChunkProgress, ProcTypeOK
  <2>. QED
    BY <2>1 DEF Appended
<1>9. ProcTypeOK'
  <2>1. mem' \in [Procs -> [Index -> ChunkProgress]]
    BY <1>2, <1>8 DEF ProcTypeOK
  <2>2. win[p] + 1 \in 0..W
    BY <1>3, WindowAssumption
  <2>. QED
    BY <1>2, <1>3, <1>6, <2>1, <2>2 DEF ProcTypeOK, Steps
<1>10. OnlyRun(p)
  BY <1>2, <1>3 DEF ProcTypeOK, OnlyRun
<1>11. /\ pc'[p] = "saveGroup" /\ mem'[p] = Appended(mem[p], c, g) /\ cur'[p] = c
       /\ count'[p] = c + Len(g) /\ win'[p] = win[p] + 1
  BY <1>2, <1>3, <1>5 DEF ProcTypeOK
<1>12. CountersOf(p)'
  BY <1>4, <1>6, <1>11 DEF CountersOf, BeforeChunks, Grouping, OnChunk
<1>13. MemoryOf(p)'
  <2>1. 0..(c + Len(g) - 1) \subseteq Index
    BY <1>6 DEF Index
  <2>2. \A i \in 0..(c + Len(g) - 1) : mem'[p][i].text # None
    <3>1. ASSUME NEW i \in 0..(c + Len(g) - 1), i >= c
          PROVE  mem'[p][i].text # None
      <4>1. i \in Index /\ i \in c..(c + Len(g) - 1)
        BY <2>1, <3>1
      <4>2. mem'[p][i] = NotGenerated(g[i - c + 1])
        BY <1>11, <4>1 DEF Appended
      <4>. QED
        BY <1>7, <4>1, <4>2, NoneAssumption DEF NotGenerated
    <3>2. ASSUME NEW i \in 0..(c + Len(g) - 1), i < c
          PROVE  mem'[p][i].text # None
      BY <1>11, <2>1, <3>2 DEF Appended, MemoryOf
    <3>. QED
      BY <3>1, <3>2
  <2>3. \A i \in 0..(c - 1) : i \in Stored'
    BY <1>1, <1>3, <1>5 DEF MemoryOf, Grouping, Grows, Stored
  <2>4. \A i \in Index : mem'[p][i].hasQuestions => questions'[i] # None
    BY <1>1, <1>11 DEF Appended, NotGenerated, MemoryOf, Grows
  <2>. QED
    BY <1>11, <2>2, <2>3, <2>4 DEF MemoryOf, Grouping
<1>. QED
  BY <1>1, <1>9, <1>10, <1>12, <1>13 DEF KeptBy

(* The chunk a run has in hand is one it knows the text of.                *)
LEMMA ChunkInHand ==
    ASSUME RunsInv, NEW p \in Procs, cur[p] < count[p]
    PROVE  /\ cur[p] \in Index /\ cur[p] + 1 \in 0..N
           /\ mem[p][cur[p]] \in ChunkProgress
           /\ mem[p][cur[p]].text \in Text
           /\ pc[p] \notin Grouping => cur[p] \in Stored
           /\ \A j \in 0..(cur[p] - 1) : j \in Stored
<1> USE RunsInvFacts, NAssumption
<1>1. cur[p] \in 0..(count[p] - 1)
  OBVIOUS
<1>2. mem[p][cur[p]] \in ChunkProgress /\ mem[p][cur[p]].text # None
  BY <1>1 DEF MemoryOf
<1>3. \A j \in 0..(cur[p] - 1) : j \in 0..(count[p] - 1)
  BY <1>1
<1>. QED
  BY <1>1, <1>2, <1>3 DEF MemoryOf, ChunkProgress

LEMMA SaveGroupedChunkTables ==
    ASSUME RunsInv, NEW p \in Procs, pc[p] = "saveGroup",
           SaveChunk(cur[p], mem[p][cur[p]].text, None)
    PROVE  TablesOK' /\ Grows /\ cur[p] \in Stored'
<1>1. cur[p] < count[p]
  BY RunsInvFacts DEF CountersOf
<1>. QED
  BY <1>1, ChunkInHand, RunsInvFacts, SaveChunkTables

LEMMA SaveQuestionsTables ==
    ASSUME RunsInv, NEW p \in Procs, pc[p] = "saveQuestions",
           SaveChunk(cur[p], mem[p][cur[p]].text, mem[p][cur[p]].text)
    PROVE  TablesOK' /\ Grows /\ questions'[cur[p]] # None
<1>1. cur[p] < count[p]
  BY RunsInvFacts DEF CountersOf, OnChunk
<1>. QED
  BY <1>1, ChunkInHand, RunsInvFacts, SaveChunkTables, NoneAssumption

LEMMA SaveBreakdownStepTables ==
    ASSUME RunsInv, NEW p \in Procs, pc[p] = "saveBreakdown",
           SaveBreakdown(cur[p], mem[p][cur[p]].text)
    PROVE  TablesOK' /\ Grows
<1>1. cur[p] < count[p] /\ questions[cur[p]] # None
  BY RunsInvFacts DEF CountersOf, OnChunk, MemoryOf
<1>. QED
  BY <1>1, ChunkInHand, RunsInvFacts, SaveBreakdownTables

LEMMA WriteTables ==
    ASSUME RunsInv, NEW p \in Procs, Write(p)
    PROVE  TablesOK' /\ Grows
BY RunsInvFacts, UpsertBookTables, SaveGroupedChunkTables, SaveQuestionsTables,
   SaveBreakdownStepTables DEF Write, Progress

LEMMA BuyKeepsLedger ==
    ASSUME LedgerTypeOK, Buy
    PROVE  LedgerTypeOK'
BY DEF LedgerTypeOK, Buy

LEMMA SaveGroupedChunkKeeps ==
    ASSUME RunsInv, NEW p \in Procs, SaveGroupedChunk(p)
    PROVE  KeptBy(p)
<1> USE RunsInvFacts, NAssumption
<1>1. TablesOK' /\ Grows /\ cur[p] \in Stored'
  BY SaveGroupedChunkTables DEF SaveGroupedChunk
<1>2. LedgerTypeOK'
  BY DEF SaveGroupedChunk, ledger, LedgerTypeOK
<1>3. /\ cur[p] < count[p] /\ cur[p] + 1 \in 0..N
      /\ \A j \in 0..(cur[p] - 1) : j \in Stored
  BY ChunkInHand DEF SaveGroupedChunk, CountersOf
<1>4. /\ pc' = [pc EXCEPT ![p] = IF cur[p] + 1 = count[p] THEN "group" ELSE "saveGroup"]
      /\ cur' = [cur EXCEPT ![p] = cur[p] + 1]
      /\ mem' = mem /\ count' = count /\ win' = win /\ failed' = failed
      /\ result' = result /\ pc[p] = "saveGroup"
  BY DEF SaveGroupedChunk, GoTo, Advance
<1>5. ProcTypeOK'
  BY <1>3, <1>4 DEF ProcTypeOK, Steps
<1>6. OnlyRun(p)
  BY <1>4 DEF ProcTypeOK, OnlyRun
<1>7. /\ pc'[p] \in {"group", "saveGroup"}
      /\ pc'[p] = "group" => cur[p] + 1 = count[p]
      /\ pc'[p] = "saveGroup" => cur[p] + 1 # count[p]
      /\ cur'[p] = cur[p] + 1 /\ count'[p] = count[p]
      /\ win'[p] = win[p] /\ mem'[p] = mem[p]
  BY <1>4 DEF ProcTypeOK
<1>8. CountersOf(p)'
  BY <1>3, <1>4, <1>7 DEF CountersOf, BeforeChunks, Grouping, OnChunk
<1>9. MemoryOf(p)'
  <2>1. \A j \in 0..(cur'[p] - 1) : j \in Stored'
    BY <1>1, <1>3, <1>7 DEF Grows, Stored
  <2>2. \A i \in Index : mem'[p][i].hasQuestions => questions'[i] # None
    BY <1>1, <1>7 DEF MemoryOf, Grows
  <2>. QED
    BY <1>7, <2>1, <2>2 DEF MemoryOf, Grouping
<1>. QED
  BY <1>1, <1>2, <1>5, <1>6, <1>8, <1>9 DEF KeptBy

LEMMA GroupingDoneKeeps ==
    ASSUME RunsInv, NEW p \in Procs, GroupingDone(p)
    PROVE  KeptBy(p)
<1> USE RunsInvFacts, NAssumption
<1>1. TablesOK' /\ Grows /\ LedgerTypeOK'
  BY SameTables DEF GroupingDone, ledger, LedgerTypeOK
<1>2. /\ pc' = [pc EXCEPT ![p] = "loop"]
      /\ cur' = [cur EXCEPT ![p] = 0]
      /\ mem' = mem /\ count' = count /\ win' = win /\ failed' = failed
      /\ result' = result /\ pc[p] = "group" /\ cur[p] = count[p]
  BY DEF GroupingDone, GoTo, CountersOf
<1>3. ProcTypeOK'
  BY <1>2 DEF ProcTypeOK, Steps
<1>4. OnlyRun(p)
  BY <1>2 DEF ProcTypeOK, OnlyRun
<1>5. /\ pc'[p] = "loop" /\ cur'[p] = 0
      /\ count'[p] = count[p] /\ mem'[p] = mem[p]
  BY <1>2 DEF ProcTypeOK
<1>6. CountersOf(p)'
  BY <1>5 DEF CountersOf, BeforeChunks, Grouping, OnChunk
<1>7. MemoryOf(p)'
  BY <1>1, <1>2, <1>5 DEF MemoryOf, Grouping, Grows, Stored
<1>. QED
  BY <1>1, <1>3, <1>4, <1>6, <1>7 DEF KeptBy

(* The steps of the loop differ only in where they go next, and in what    *)
(* they write or buy.                                                      *)
LEMMA LoopStepKeeps ==
    ASSUME RunsInv, NEW p \in Procs,
           pc[p] \in OnChunk \cup {"loop"}, cur[p] < count[p],
           NEW step \in OnChunk \cup {"loop"}, NEW next \in {cur[p], cur[p] + 1},
           next = cur[p] + 1 => step = "loop",
           pc' = [pc EXCEPT ![p] = step], cur' = [cur EXCEPT ![p] = next],
           NEW gaveUp \in BOOLEAN, failed' = [failed EXCEPT ![p] = gaveUp],
           UNCHANGED <<mem, count, win, result>>,
           TablesOK', Grows, LedgerTypeOK',
           step \in {"breakdown", "saveBreakdown"} => questions'[cur[p]] # None
    PROVE  KeptBy(p)
<1> USE RunsInvFacts, NAssumption
<1>1. cur[p] + 1 \in 0..N /\ next \in 0..N
  BY ChunkInHand
<1>2. ProcTypeOK'
  BY <1>1 DEF ProcTypeOK, OnChunk, Steps
<1>3. OnlyRun(p)
  BY DEF ProcTypeOK, OnlyRun
<1>4. /\ pc'[p] = step /\ cur'[p] = next
      /\ count'[p] = count[p] /\ mem'[p] = mem[p]
  BY DEF ProcTypeOK
<1>5. CountersOf(p)'
  BY <1>1, <1>4 DEF CountersOf, BeforeChunks, Grouping, OnChunk
<1>6. MemoryOf(p)'
  <2>1. \A i \in 0..(count[p] - 1) : mem[p][i].text # None /\ i \in Stored'
    BY DEF MemoryOf, Grouping, OnChunk, Grows, Stored
  <2>2. \A i \in Index : mem'[p][i].hasQuestions => questions'[i] # None
    BY <1>4 DEF MemoryOf, Grows
  <2>3. pc'[p] \in {"breakdown", "saveBreakdown"} => questions'[cur'[p]] # None
    BY <1>4
  <2>4. pc'[p] \notin Grouping
    BY <1>4 DEF Grouping, OnChunk
  <2>. QED
    BY <1>4, <2>1, <2>2, <2>3, <2>4 DEF MemoryOf
<1>. QED
  BY <1>2, <1>3, <1>5, <1>6 DEF KeptBy

LEMMA UnchangedAt ==
    ASSUME ProcTypeOK, NEW p \in Procs
    PROVE  /\ pc = [pc EXCEPT ![p] = pc[p]]
           /\ cur = [cur EXCEPT ![p] = cur[p]]
           /\ failed = [failed EXCEPT ![p] = failed[p]]
           /\ failed[p] \in BOOLEAN
BY DEF ProcTypeOK

(* The steps that stay at the same chunk.                                  *)
LEMMA StayKeeps ==
    ASSUME RunsInv, NEW p \in Procs,
           pc[p] \in OnChunk \cup {"loop"}, cur[p] < count[p],
           NEW step \in OnChunk, pc' = [pc EXCEPT ![p] = step],
           UNCHANGED <<mem, count, cur, win, failed, result>>,
           TablesOK', Grows, LedgerTypeOK',
           step \in {"breakdown", "saveBreakdown"} => questions'[cur[p]] # None
    PROVE  KeptBy(p)
<1>1. /\ cur' = [cur EXCEPT ![p] = cur[p]]
      /\ failed' = [failed EXCEPT ![p] = failed[p]]
      /\ failed[p] \in BOOLEAN
  BY RunsInvFacts, UnchangedAt
<1>2. cur[p] # cur[p] + 1
  BY RunsInvFacts, NAssumption
<1>. QED
  BY <1>1, <1>2, LoopStepKeeps

LEMMA SkipCompleteKeeps ==
    ASSUME RunsInv, NEW p \in Procs, SkipComplete(p)
    PROVE  KeptBy(p)
<1>1. TablesOK' /\ Grows /\ LedgerTypeOK'
  BY RunsInvFacts, SameTables DEF SkipComplete, ledger, LedgerTypeOK
<1>. QED
  BY <1>1, RunsInvFacts, UnchangedAt, LoopStepKeeps
     DEF SkipComplete, AtChunk, Advance, OnChunk

LEMMA GenerateQuestionsKeeps ==
    ASSUME RunsInv, NEW p \in Procs, GenerateQuestions(p)
    PROVE  KeptBy(p)
<1>1. TablesOK' /\ Grows
  BY RunsInvFacts, SameTables DEF GenerateQuestions
<1>2. LedgerTypeOK'
  BY RunsInvFacts, BuyKeepsLedger DEF GenerateQuestions
<1>. QED
  BY <1>1, <1>2, StayKeeps
     DEF GenerateQuestions, AtChunk, GoTo, OnChunk

LEMMA GiveUpOnChunkKeeps ==
    ASSUME RunsInv, NEW p \in Procs, pc[p] \in OnChunk \cup {"loop"},
           cur[p] < count[p], GiveUpOnChunk(p)
    PROVE  KeptBy(p)
<1>1. TablesOK' /\ Grows /\ LedgerTypeOK'
  BY RunsInvFacts, SameTables DEF GiveUpOnChunk, ledger, LedgerTypeOK
<1>. QED
  BY <1>1, LoopStepKeeps DEF GiveUpOnChunk, Advance, GoTo

LEMMA AtBreakdownFacts ==
    ASSUME RunsInv, NEW p \in Procs, AtBreakdown(p)
    PROVE  /\ pc[p] \in OnChunk \cup {"loop"}
           /\ cur[p] < count[p]
           /\ cur[p] \in Index
           /\ questions[cur[p]] # None
<1>1. pc[p] \in {"breakdown", "loop"} /\ cur[p] < count[p]
  BY RunsInvFacts DEF AtBreakdown, AtChunk, CountersOf, OnChunk
<1>2. cur[p] \in Index
  BY <1>1, ChunkInHand
<1>3. CASE pc[p] = "breakdown"
  BY <1>1, <1>2, <1>3, RunsInvFacts DEF MemoryOf, OnChunk
<1>4. CASE pc[p] # "breakdown"
  BY <1>1, <1>2, <1>4, RunsInvFacts DEF MemoryOf, OnChunk, AtBreakdown, Progress
<1>. QED
  BY <1>3, <1>4

LEMMA GenerateBreakdownKeeps ==
    ASSUME RunsInv, NEW p \in Procs, GenerateBreakdown(p)
    PROVE  KeptBy(p)
<1>1. TablesOK' /\ Grows
  BY RunsInvFacts, SameTables DEF GenerateBreakdown
<1>2. /\ pc[p] \in OnChunk \cup {"loop"} /\ cur[p] < count[p] /\ cur[p] \in Index
      /\ questions[cur[p]] # None
  BY AtBreakdownFacts DEF GenerateBreakdown
<1>3. LedgerTypeOK' /\ questions'[cur[p]] # None
  BY <1>1, <1>2, RunsInvFacts, BuyKeepsLedger DEF GenerateBreakdown, Grows
<1>. QED
  BY <1>1, <1>2, <1>3, StayKeeps
     DEF GenerateBreakdown, GoTo, OnChunk

LEMMA SaveQuestionsKeeps ==
    ASSUME RunsInv, NEW p \in Procs, SaveQuestions(p)
    PROVE  KeptBy(p)
<1>1. TablesOK' /\ Grows /\ questions'[cur[p]] # None
  BY SaveQuestionsTables DEF SaveQuestions, Progress
<1>2. LedgerTypeOK' /\ cur[p] < count[p] /\ pc[p] \in OnChunk
  BY RunsInvFacts DEF SaveQuestions, ledger, LedgerTypeOK, CountersOf, OnChunk
<1>. QED
  BY <1>1, <1>2, StayKeeps
     DEF SaveQuestions, GoTo, OnChunk

LEMMA SaveChunkBreakdownKeeps ==
    ASSUME RunsInv, NEW p \in Procs, SaveChunkBreakdown(p)
    PROVE  KeptBy(p)
<1>1. TablesOK' /\ Grows
  BY SaveBreakdownStepTables DEF SaveChunkBreakdown, Progress
<1>2. LedgerTypeOK' /\ cur[p] < count[p] /\ pc[p] \in OnChunk
  BY RunsInvFacts DEF SaveChunkBreakdown, ledger, LedgerTypeOK, CountersOf, OnChunk
<1>3. /\ pc' = [pc EXCEPT ![p] = "loop"] /\ cur' = [cur EXCEPT ![p] = cur[p] + 1]
      /\ failed' = [failed EXCEPT ![p] = failed[p]] /\ failed[p] \in BOOLEAN
      /\ UNCHANGED <<mem, count, win, result>>
  BY RunsInvFacts, UnchangedAt DEF SaveChunkBreakdown, Advance, GoTo
<1>4. cur[p] + 1 \in {cur[p], cur[p] + 1} /\ "loop" \in OnChunk \cup {"loop"}
      /\ "loop" \notin {"breakdown", "saveBreakdown"}
  OBVIOUS
<1>. QED
  BY <1>1, <1>2, <1>3, <1>4, LoopStepKeeps DEF OnChunk

LEMMA FinishKeeps ==
    ASSUME RunsInv, NEW p \in Procs, Finish(p)
    PROVE  KeptBy(p)
<1>1. TablesOK' /\ Grows /\ LedgerTypeOK'
  BY RunsInvFacts, SameTables DEF Finish, ledger, LedgerTypeOK
<1>. QED
  BY <1>1, ExitKeeps DEF Finish

LEMMA AbortKeepsLedger ==
    ASSUME LedgerTypeOK, NEW p \in Procs, Abort(p)
    PROVE  LedgerTypeOK' /\ Exit(p, "failed")
BY BoundAssumption DEF Abort, LedgerTypeOK

LEMMA KillKeeps ==
    ASSUME RunsInv, NEW p \in Procs, Kill(p)
    PROVE  KeptBy(p)
<1>1. TablesOK' /\ Grows
  BY RunsInvFacts, SameTables DEF Kill
<1>. QED
  BY <1>1, RunsInvFacts, AbortKeepsLedger, ExitKeeps DEF Kill

LEMMA StoreCallFailsKeeps ==
    ASSUME RunsInv, NEW p \in Procs, StoreCallFails(p)
    PROVE  KeptBy(p)
<1>1. TablesOK' /\ Grows
  BY RunsInvFacts, SameTables, WriteTables DEF StoreCallFails
<1>. QED
  BY <1>1, RunsInvFacts, AbortKeepsLedger, ExitKeeps DEF StoreCallFails

LEMMA RunKeeps ==
    ASSUME RunsInv, NEW p \in Procs, Run(p)
    PROVE  KeptBy(p)
<1>1. CASE GenerateQuestionsFails(p)
  BY <1>1, GiveUpOnChunkKeeps DEF GenerateQuestionsFails, AtChunk
<1>2. CASE GenerateBreakdownFails(p)
  BY <1>2, AtBreakdownFacts, GiveUpOnChunkKeeps DEF GenerateBreakdownFails
<1>. QED
  BY <1>1, <1>2, StartKeeps, SaveBookKeeps, ResumeStoredChunksKeeps,
     NothingToResumeKeeps, PrepareBookKeeps, PrepareBookFailsKeeps,
     GroupWindowKeeps, SaveGroupedChunkKeeps, GroupingDoneKeeps,
     SkipCompleteKeeps, GenerateQuestionsKeeps, SaveQuestionsKeeps,
     GenerateBreakdownKeeps, SaveChunkBreakdownKeeps, FinishKeeps, KillKeeps,
     StoreCallFailsKeeps DEF Run

LEMMA RunsInvUnchanged ==
    ASSUME RunsInv, UNCHANGED <<contentVars, procVars, ledger>>, StoreTypeOK'
    PROVE  RunsInv'
BY DEF RunsInv, contentVars, procVars, ledger, TypeOK, ProcTypeOK, LedgerTypeOK,
       StoredIsPrefix, Stored, BreakdownNeedsQuestions, CountersOf, MemoryOf

LEMMA RunsInvStep == RunsInv /\ [Next]_vars => RunsInv'
<1> SUFFICES ASSUME RunsInv, [Next]_vars PROVE RunsInv'
  OBVIOUS
<1>1. StoreTypeOK
  BY DEF RunsInv, TypeOK
<1>2. CASE Publish
  BY <1>1, <1>2, RunsInvUnchanged
     DEF Publish, MarkPublished, contentVars, StoreTypeOK
<1>3. ASSUME NEW p \in Procs, Run(p) PROVE RunsInv'
  BY <1>3, RunKeeps, KeptIsEnough
<1>4. CASE UNCHANGED vars
  BY <1>1, <1>4, RunsInvUnchanged
     DEF vars, storeVars, contentVars, StoreTypeOK
<1>. QED
  BY <1>2, <1>3, <1>4 DEF Next

-----------------------------------------------------------------------------
(* The theorems.                                                           *)

(* RunsInv holds in every reachable state.                                 *)
THEOREM RunsInvariant == Spec => []RunsInv
BY RunsInvInit, RunsInvStep, PTL DEF Spec

(* cmd/process and the tables keep their types, and a run's counters stay  *)
(* within the book, whatever overlaps, fails or is killed.                 *)
THEOREM TypeCorrect == Spec => []TypeOK
<1>1. RunsInv => TypeOK
  BY DEF RunsInv
<1>. QED
  BY <1>1, RunsInvariant, PTL

(* The chunk indices of a book are stored without a gap, even when runs    *)
(* that group it differently overlap and are killed.                       *)
THEOREM NoGap == Spec => []StoredWithoutGap
<1>1. RunsInv => StoredWithoutGap
  <2>1. ASSUME NEW k \in 0..N, Stored = 0..(k - 1) PROVE StoredWithoutGap
    BY <2>1, NAssumption DEF StoredWithoutGap
  <2>. QED
    BY <2>1 DEF RunsInv, StoredIsPrefix
<1>. QED
  BY <1>1, RunsInvariant, PTL

(* A breakdown is stored only beside questions, so processBook's two tests *)
(* never make it buy a stored breakdown again.                             *)
THEOREM BreakdownAfterQuestions == Spec => []BreakdownNeedsQuestions
<1>1. RunsInv => BreakdownNeedsQuestions
  BY DEF RunsInv
<1>. QED
  BY <1>1, RunsInvariant, PTL

(* However runs overlap, fail and are killed, a later run can resume from  *)
(* the tables: no gap among the indices, no breakdown before questions.    *)
THEOREM TablesStaySound == Spec => []TablesAreSound
<1>1. StoredWithoutGap /\ BreakdownNeedsQuestions => TablesAreSound
  BY DEF TablesAreSound
<1>. QED
  BY <1>1, NoGap, BreakdownAfterQuestions, PTL

-----------------------------------------------------------------------------
(* Runs that do not overlap.                                               *)

(* With one run there is only that run's part of AloneInv to show.         *)
LEMMA AloneIsEnough ==
    ASSUME Alone, NEW p \in Procs,
           Passage(text, Stored)', ContentMatchesText',
           GroupingOf(p)', LoopOf(p)',
           result'[p] = "ok" => pc'[p] = "idle" /\ \A i \in Stored' : Complete(i)',
           status' = "published" =>
               pc'[p] \in {"idle", "upsert"} /\ \A i \in Stored' : Complete(i)'
    PROVE  AloneInv'
<1>1. \A q \in Procs : q = p
  BY DEF Alone
<1>2. \A q \in Procs : GroupingOf(q)' /\ LoopOf(q)'
  BY <1>1
<1>. QED
  BY <1>1, <1>2 DEF AloneInv, SuccessIsComplete, PublishedIsComplete

LEMMA AloneFacts ==
    ASSUME AloneInv, NEW p \in Procs
    PROVE  /\ Passage(text, Stored) /\ ContentMatchesText
           /\ GroupingOf(p) /\ LoopOf(p)
           /\ result[p] = "ok" => pc[p] = "idle" /\ \A i \in Stored : Complete(i)
           /\ status = "published" =>
                  pc[p] \in {"idle", "upsert"} /\ \A i \in Stored : Complete(i)
BY DEF AloneInv, SuccessIsComplete, PublishedIsComplete

LEMMA SameContent ==
    ASSUME AloneInv, UNCHANGED contentVars
    PROVE  /\ Passage(text, Stored)' /\ ContentMatchesText'
           /\ Stored' = Stored
           /\ \A i \in Index : Complete(i)' <=> Complete(i)
<1>1. Stored' = Stored
  BY DEF contentVars, Stored
<1>2. Passage(text, Stored)' /\ ContentMatchesText'
  BY <1>1 DEF AloneInv, contentVars, Passage, ContentMatchesText
<1>. QED
  BY <1>1, <1>2 DEF contentVars, Complete

LEMMA AloneInvInit == Init => AloneInv
<1> SUFFICES ASSUME Init PROVE AloneInv
  OBVIOUS
<1>1. Stored = {}
  BY DEF Init, StoreInit, Stored
<1>2. Passage(text, Stored) /\ ContentMatchesText
  BY <1>1 DEF Init, StoreInit, Passage, ContentMatchesText
<1>3. ASSUME NEW p \in Procs
      PROVE  GroupingOf(p) /\ LoopOf(p) /\ result[p] # "ok"
  BY DEF Init, GroupingOf, LoopOf, BeforeChunks, Grouping, OnChunk
<1>4. status # "published"
  BY DEF Init, StoreInit
<1>. QED
  BY <1>1, <1>2, <1>3, <1>4 DEF AloneInv, SuccessIsComplete, PublishedIsComplete

-----------------------------------------------------------------------------
(* The steps before the chunk list is there.                               *)

LEMMA AloneExit ==
    ASSUME Alone, RunsInv, AloneInv, NEW p \in Procs, NEW r \in {"ok", "failed"},
           Exit(p, r), Passage(text, Stored)', ContentMatchesText',
           r = "ok" => \A i \in Stored' : Complete(i)',
           status' = "published" => \A i \in Stored' : Complete(i)'
    PROVE  AloneInv'
<1>1. /\ pc'[p] = "idle" /\ result'[p] = r
      /\ mem'[p] = NoChunks /\ failed'[p] = FALSE
  BY RunsInvFacts DEF Exit, GoTo, ProcTypeOK
<1>2. GroupingOf(p)' /\ LoopOf(p)'
  BY <1>1 DEF GroupingOf, LoopOf, BeforeChunks, Grouping, OnChunk
<1>. QED
  BY <1>1, <1>2, AloneIsEnough

LEMMA StartAlone ==
    ASSUME Alone, RunsInv, AloneInv, NEW p \in Procs, Start(p)
    PROVE  AloneInv'
<1>1. /\ pc[p] = "idle" /\ pc'[p] = "upsert" /\ result'[p] = "none"
      /\ mem' = mem /\ failed' = failed /\ UNCHANGED contentVars /\ status' = status
  BY RunsInvFacts DEF Start, GoTo, ProcTypeOK, storeVars, contentVars
<1>2. GroupingOf(p)' /\ LoopOf(p)'
  BY <1>1, AloneFacts DEF GroupingOf, LoopOf, BeforeChunks, Grouping, OnChunk
<1>3. status' = "published" => \A i \in Stored' : Complete(i)'
  BY <1>1, AloneFacts, SameContent DEF Stored
<1>. QED
  BY <1>1, <1>2, <1>3, SameContent, AloneIsEnough

LEMMA SaveBookAlone ==
    ASSUME Alone, RunsInv, AloneInv, NEW p \in Procs, SaveBook(p)
    PROVE  AloneInv'
<1>1. /\ pc[p] = "upsert" /\ pc'[p] = "load" /\ result' = result
      /\ mem' = mem /\ failed' = failed /\ UNCHANGED contentVars
      /\ status' = "processing"
  BY RunsInvFacts DEF SaveBook, UpsertBook, GoTo, ProcTypeOK, contentVars
<1>2. GroupingOf(p)' /\ LoopOf(p)' /\ result'[p] # "ok"
  BY <1>1, AloneFacts DEF GroupingOf, LoopOf, BeforeChunks, Grouping, OnChunk
<1>. QED
  BY <1>1, <1>2, SameContent, AloneIsEnough

LEMMA ResumeAlone ==
    ASSUME Alone, RunsInv, AloneInv, NEW p \in Procs, ResumeStoredChunks(p)
    PROVE  AloneInv'
<1>1. /\ pc[p] = "load" /\ pc'[p] = "loop" /\ result' = result
      /\ mem'[p] = LoadChunkProgress /\ count'[p] = Cardinality(Stored)
      /\ cur' = cur /\ failed' = failed
      /\ UNCHANGED contentVars /\ status' = status
  BY RunsInvFacts DEF ResumeStoredChunks, GoTo, ProcTypeOK, storeVars, contentVars
<1>2. cur'[p] = 0
  BY <1>1, RunsInvFacts DEF CountersOf, BeforeChunks
<1>3. Stored = 0..(Cardinality(Stored) - 1)
  <2>1. PICK k \in 0..N : Stored = 0..(k - 1)
    BY RunsInvFacts DEF TablesOK, StoredIsPrefix
  <2>. QED
    BY <2>1, StoredSize
<1>4. Stored' = Stored /\ Stored \subseteq Index
  BY <1>1, SameContent DEF Stored
<1>5. \A i \in Index : /\ mem'[p][i].text = text[i]
                       /\ mem'[p][i].hasQuestions = (questions[i] # None)
                       /\ mem'[p][i].hasBreakdown = (breakdown[i] # None)
  BY <1>1 DEF LoadChunkProgress
<1>6. \A i \in Pending(p)' : i \in Index
  BY <1>1, <1>3, <1>4 DEF Pending
<1>7. LoopOf(p)'
  BY <1>1, <1>2, <1>3, <1>4, <1>5, <1>6 DEF LoopOf, contentVars
<1>8. GroupingOf(p)' /\ result'[p] # "ok" /\ status' # "published"
  BY <1>1, AloneFacts DEF GroupingOf, BeforeChunks, Grouping
<1>. QED
  BY <1>1, <1>7, <1>8, SameContent, AloneIsEnough

LEMMA NothingToResumeAlone ==
    ASSUME Alone, RunsInv, AloneInv, NEW p \in Procs, NothingToResume(p)
    PROVE  AloneInv'
<1>1. /\ pc[p] = "load" /\ pc'[p] = "prepare" /\ result' = result /\ Stored = {}
      /\ mem' = mem /\ failed' = failed /\ UNCHANGED contentVars /\ status' = status
  BY RunsInvFacts DEF NothingToResume, GoTo, ProcTypeOK, storeVars, contentVars
<1>2. GroupingOf(p)' /\ LoopOf(p)' /\ result'[p] # "ok" /\ status' # "published"
  BY <1>1, AloneFacts, SameContent
     DEF GroupingOf, LoopOf, BeforeChunks, Grouping, OnChunk
<1>. QED
  BY <1>1, <1>2, SameContent, AloneIsEnough

LEMMA PrepareBookAlone ==
    ASSUME Alone, RunsInv, AloneInv, NEW p \in Procs, PrepareBook(p)
    PROVE  AloneInv'
<1>1. /\ pc[p] = "prepare" /\ pc'[p] = "group" /\ result' = result
      /\ mem' = mem /\ failed' = failed /\ UNCHANGED contentVars /\ status' = status
      /\ count' = count /\ cur' = cur /\ win' = win
  BY RunsInvFacts DEF PrepareBook, GoTo, ProcTypeOK, storeVars, contentVars
<1>2. /\ Stored = {} /\ mem[p] = NoChunks /\ ~failed[p]
      /\ count[p] = 0 /\ cur[p] = 0 /\ win[p] = 0
  BY <1>1, AloneFacts, RunsInvFacts DEF GroupingOf, CountersOf, BeforeChunks
<1>3. \A i \in Index : questions[i] = None /\ breakdown[i] = None
  BY <1>2, AloneFacts DEF ContentMatchesText, Stored
<1>4. \A i \in Index : ~mem[p][i].hasQuestions /\ ~mem[p][i].hasBreakdown
  BY <1>2 DEF NoChunks, NotGenerated
<1>5. GroupingOf(p)'
  <2>1. Stored' = {} /\ 0..(cur'[p] - 1) = {} /\ 0..(count'[p] - 1) = {}
    BY <1>1, <1>2, SameContent
  <2>2. Passage(MemText(p)', 0..(count'[p] - 1))
    BY <2>1 DEF Passage
  <2>3. MemText(p)' = [i \in Index |-> mem'[p][i].text]
    BY DEF MemText
  <2>. QED
    BY <1>1, <1>2, <1>3, <1>4, <2>1, <2>2 DEF GroupingOf, BeforeChunks, Grouping, contentVars
<1>6. LoopOf(p)' /\ result'[p] # "ok" /\ status' # "published"
  BY <1>1, AloneFacts DEF LoopOf, OnChunk
<1>. QED
  BY <1>1, <1>5, <1>6, SameContent, AloneIsEnough

LEMMA PrepareBookFailsAlone ==
    ASSUME Alone, RunsInv, AloneInv, NEW p \in Procs, PrepareBookFails(p)
    PROVE  AloneInv'
<1>1. Exit(p, "failed") /\ UNCHANGED contentVars /\ status' = status
  BY DEF PrepareBookFails, storeVars, contentVars
<1>2. status' = "published" => \A i \in Stored' : Complete(i)'
  BY <1>1, AloneFacts, SameContent DEF Stored
<1>. QED
  BY <1>1, <1>2, SameContent, AloneExit

-----------------------------------------------------------------------------
(* Grouping from scratch.                                                  *)

LEMMA NotGeneratedFields ==
    ASSUME NEW t
    PROVE  /\ NotGenerated(t).text = t
           /\ ~NotGenerated(t).hasQuestions /\ ~NotGenerated(t).hasBreakdown
BY DEF NotGenerated

(* A window's chunks continue the passage made of the windows before it.   *)
LEMMA AppendedPassage ==
    ASSUME NEW m \in [Index -> ChunkProgress], NEW c \in 0..N,
           NEW w \in 0..W, w < W, NEW g \in Groupings[w + 1],
           c <= WindowEnd[w], c = 0 => w = 0,
           c > 0 => m[c - 1].text.last = WindowEnd[w],
           Passage([i \in Index |-> m[i].text], 0..(c - 1))
    PROVE  LET a == Appended(m, c, g)
               n == c + Len(g)
           IN  /\ Passage([i \in Index |-> a[i].text], 0..(n - 1))
               /\ n > 0 /\ a[n - 1].text.last = WindowEnd[w + 1]
               /\ \A i \in 0..(c - 1) : a[i].text = m[i].text
               /\ \A i \in c..(n - 1) : ~a[i].hasQuestions /\ ~a[i].hasBreakdown
               /\ \A i \in Index \ (c..(n - 1)) : a[i] = m[i]
<1> DEFINE a == Appended(m, c, g)
           L == Len(g)
           n == c + L
           t == [i \in Index |-> a[i].text]
<1> USE NAssumption
<1>1. /\ L \in Nat \ {0} /\ \A k \in 1..L : g[k] \in Text
      /\ WindowEnd[w] \in 0..N /\ WindowEnd[w + 1] \in 0..N
      /\ WindowEnd[w] + L <= WindowEnd[w + 1]
  BY GroupingFits
<1>2. n \in 1..N
  BY <1>1
<1>3. IsPartition(g, WindowEnd[w] + 1, WindowEnd[w + 1])
  <2>1. w + 1 \in 1..W /\ (w + 1) - 1 = w
    BY WindowAssumption
  <2>. QED
    BY <2>1, GroupingAssumption
<1>4. 0..(n - 1) \subseteq Index
  BY <1>2 DEF Index
<1>5. \A i \in c..(n - 1) : i \in Index /\ a[i] = NotGenerated(g[i - c + 1])
  BY <1>1, <1>4 DEF Appended
<1>6. \A i \in Index \ (c..(n - 1)) : a[i] = m[i]
  BY DEF Appended
<1>7. \A i \in 0..(c - 1) : i \in Index /\ a[i] = m[i]
  BY <1>1, <1>2, <1>6 DEF Index
<1>a. /\ t = [i \in Index |-> a[i].text]
      /\ a = Appended(m, c, g)
  OBVIOUS
<1> HIDE DEF a, t
<1>8. \A i \in c..(n - 1) : t[i] = g[i - c + 1] /\ a[i].text = g[i - c + 1]
  BY <1>5, <1>a, NotGeneratedFields
<1>9. \A i \in 0..(c - 1) : t[i] = m[i].text
  BY <1>7, <1>a
<1>10. ASSUME NEW i \in 0..(n - 1)
       PROVE  /\ t[i].first <= t[i].last
              /\ t[i].first = IF i = 0 THEN 1 ELSE t[i - 1].last + 1
  <2>1. CASE i < c
    <3>1. i \in 0..(c - 1) /\ (i # 0 => i - 1 \in 0..(c - 1))
      BY <2>1
    <3>2. /\ m[i].text.first <= m[i].text.last
          /\ m[i].text.first = IF i = 0 THEN 1 ELSE m[i - 1].text.last + 1
      BY <3>1, <1>7 DEF Passage
    <3>. QED
      BY <1>9, <3>1, <3>2
  <2>2. CASE i = c
    <3>1. t[i] = g[1] /\ g[1].first = WindowEnd[w] + 1 /\ g[1].first <= g[1].last
      <4>1. i - c + 1 = 1 /\ i \in c..(n - 1)
        BY <1>1, <2>2
      <4>. QED
        BY <1>1, <1>3, <1>8, <4>1 DEF IsPartition
    <3>2. i = 0 => WindowEnd[w] = 0
      BY <2>2, WindowAssumption
    <3>3. i # 0 => t[i - 1].last = WindowEnd[w]
      <4>1. i # 0 => i - 1 \in 0..(c - 1) /\ i - 1 = c - 1 /\ c > 0
        BY <2>2
      <4>. QED
        BY <1>9, <4>1
    <3>. QED
      BY <3>1, <3>2, <3>3
  <2>3. CASE i > c
    <3> DEFINE k == i - c
    <3>1. k \in 1..L /\ k < L /\ k + 1 \in 1..L
      BY <1>1, <2>3
    <3>2. t[i] = g[k + 1] /\ t[i - 1] = g[k]
      <4>1. i \in c..(n - 1) /\ i - 1 \in c..(n - 1) /\ (i - 1) - c + 1 = k
        BY <2>3
      <4>. QED
        BY <1>8, <4>1
    <3>3. g[k + 1].first = g[k].last + 1 /\ g[k + 1].first <= g[k + 1].last
      BY <1>3, <3>1 DEF IsPartition
    <3>. QED
      BY <2>3, <3>2, <3>3
  <2>. QED
    BY <2>1, <2>2, <2>3
<1>11. Passage(t, 0..(n - 1))
  BY <1>10 DEF Passage
<1>12. a[n - 1].text.last = WindowEnd[w + 1]
  <2>1. n - 1 \in c..(n - 1) /\ (n - 1) - c + 1 = L
    BY <1>1
  <2>2. a[n - 1].text = g[L]
    BY <1>8, <2>1
  <2>. QED
    BY <1>3, <2>2 DEF IsPartition
<1>13. \A i \in c..(n - 1) : ~a[i].hasQuestions /\ ~a[i].hasBreakdown
  BY <1>5, NotGeneratedFields
<1>. QED
  BY <1>2, <1>6, <1>7, <1>11, <1>12, <1>13, <1>a

LEMMA GroupWindowAlone ==
    ASSUME Alone, RunsInv, AloneInv, NEW p \in Procs, GroupWindow(p)
    PROVE  AloneInv'
<1> DEFINE c == count[p]
<1>1. /\ pc[p] = "group" /\ win[p] < W /\ pc'[p] = "saveGroup"
      /\ win'[p] = win[p] + 1 /\ cur' = cur /\ failed' = failed /\ result' = result
      /\ UNCHANGED contentVars /\ status' = status
  BY RunsInvFacts DEF GroupWindow, GoTo, ProcTypeOK, storeVars, contentVars
<1>2. PICK g \in Groupings[win[p] + 1] :
        /\ mem'[p] = Appended(mem[p], c, g)
        /\ count'[p] = c + Len(g)
  BY RunsInvFacts DEF GroupWindow, ProcTypeOK
<1>3. /\ ~failed[p]
      /\ Passage(MemText(p), 0..(c - 1))
      /\ c > 0 => mem[p][c - 1].text.last = WindowEnd[win[p]]
      /\ c = 0 => win[p] = 0
      /\ Stored = 0..(cur[p] - 1)
      /\ \A i \in Stored : text[i] = mem[p][i].text
      /\ \A i \in Index : questions[i] = None /\ breakdown[i] = None
      /\ \A i \in Index : ~mem[p][i].hasQuestions /\ ~mem[p][i].hasBreakdown
  BY <1>1, AloneFacts DEF GroupingOf, Grouping
<1>4. cur[p] = c /\ c <= WindowEnd[win[p]]
  BY <1>1, RunsInvFacts DEF CountersOf, Grouping
<1>5. MemText(p) = [i \in Index |-> mem[p][i].text]
  BY DEF MemText
<1>6. /\ Passage([i \in Index |-> mem'[p][i].text], 0..(count'[p] - 1))
      /\ count'[p] > 0
      /\ mem'[p][count'[p] - 1].text.last = WindowEnd[win'[p]]
      /\ \A i \in 0..(c - 1) : mem'[p][i].text = mem[p][i].text
      /\ \A i \in c..(count'[p] - 1) :
             ~mem'[p][i].hasQuestions /\ ~mem'[p][i].hasBreakdown
      /\ \A i \in Index \ (c..(count'[p] - 1)) : mem'[p][i] = mem[p][i]
  <2>1. /\ mem[p] \in [Index -> ChunkProgress] /\ c \in 0..N /\ win[p] \in 0..W
        /\ Passage([i \in Index |-> mem[p][i].text], 0..(c - 1))
    BY <1>3, <1>5, RunsInvFacts
  <2>2. LET a == Appended(mem[p], c, g)
            n == c + Len(g)
        IN  /\ Passage([i \in Index |-> a[i].text], 0..(n - 1))
            /\ n > 0 /\ a[n - 1].text.last = WindowEnd[win[p] + 1]
            /\ \A i \in 0..(c - 1) : a[i].text = mem[p][i].text
            /\ \A i \in c..(n - 1) : ~a[i].hasQuestions /\ ~a[i].hasBreakdown
            /\ \A i \in Index \ (c..(n - 1)) : a[i] = mem[p][i]
    BY <1>1, <1>3, <1>4, <2>1, AppendedPassage
  <2>. QED
    BY <1>1, <1>2, <2>2
<1>7. \A i \in Index : ~mem'[p][i].hasQuestions /\ ~mem'[p][i].hasBreakdown
  BY <1>3, <1>6
<1>8. MemText(p)' = [i \in Index |-> mem'[p][i].text]
  BY DEF MemText
<1>9. Stored' = 0..(cur'[p] - 1) /\ \A i \in Stored' : text'[i] = mem'[p][i].text
  BY <1>1, <1>3, <1>4, <1>6, SameContent DEF contentVars
<1>10. \A i \in Index : questions'[i] = None /\ breakdown'[i] = None
  BY <1>1, <1>3 DEF contentVars
<1>11. GroupingOf(p)'
  <2>1. Passage(MemText(p), 0..(count[p] - 1))'
    BY <1>6, <1>8 DEF Passage
  <2>2. pc'[p] \notin BeforeChunks /\ pc'[p] # "prepare" /\ ~failed'[p]
    BY <1>1, <1>3 DEF BeforeChunks
  <2>. QED
    BY <1>6, <1>7, <1>9, <1>10, <2>1, <2>2, RunsInvFacts DEF GroupingOf
<1>12. LoopOf(p)' /\ result'[p] # "ok" /\ status' # "published"
  BY <1>1, AloneFacts DEF LoopOf, OnChunk
<1>. QED
  BY <1>1, <1>11, <1>12, SameContent, AloneIsEnough

(* Saving a grouped chunk, and what the tables hold if the save happened   *)
(* but the run was told it failed.                                         *)
LEMMA GroupedChunkTables ==
    ASSUME RunsInv, AloneInv, NEW p \in Procs, pc[p] = "saveGroup",
           SaveChunk(cur[p], mem[p][cur[p]].text, None)
    PROVE  /\ Passage(text, Stored)' /\ ContentMatchesText'
           /\ Stored' = 0..cur[p]
           /\ \A i \in Stored' : text'[i] = mem[p][i].text
           /\ questions' = questions /\ breakdown' = breakdown /\ status' = status
<1> USE NAssumption, NoneAssumption
<1> DEFINE c == cur[p]
           t == mem[p][c].text
<1>1. /\ c \in Index /\ c < count[p] /\ count[p] \in 0..N /\ t # None
      /\ c \in 0..(count[p] - 1)
  BY RunsInvFacts DEF MemoryOf, CountersOf, Index
<1>2. /\ text' = [text EXCEPT ![c] = t]
      /\ questions' = questions /\ breakdown' = breakdown /\ status' = status
  BY DEF SaveChunk
<1>3. text \in [Index -> Text \cup {None}]
  BY RunsInvFacts DEF TablesOK, StoreTypeOK
<1>4. /\ Passage(MemText(p), 0..(count[p] - 1))
      /\ Stored = 0..(c - 1)
      /\ \A i \in Stored : text[i] = mem[p][i].text
      /\ \A i \in Index : questions[i] = None /\ breakdown[i] = None
  BY AloneFacts DEF GroupingOf, Grouping
<1>5. Stored' = 0..c
  <2>1. Stored' = Stored \cup {c}
    BY <1>1, <1>2, <1>3 DEF Stored
  <2>. QED
    BY <1>1, <1>4, <2>1 DEF Index
<1>6. \A i \in 0..c : i \in 0..(count[p] - 1) /\ i \in Index
  BY <1>1 DEF Index
<1>7. \A i \in 0..c : text'[i] = mem[p][i].text
  BY <1>1, <1>2, <1>3, <1>4, <1>6
<1>8. Passage(text, Stored)'
  <2>1. ASSUME NEW i \in 0..c
        PROVE  /\ text'[i].first <= text'[i].last
               /\ text'[i].first = IF i = 0 THEN 1 ELSE text'[i - 1].last + 1
    <3>1. /\ mem[p][i].text.first <= mem[p][i].text.last
          /\ mem[p][i].text.first =
                IF i = 0 THEN 1 ELSE mem[p][i - 1].text.last + 1
      <4>1. i # 0 => i - 1 \in Index
        BY <1>6 DEF Index
      <4>. QED
        BY <1>4, <1>6, <4>1 DEF Passage, MemText
    <3>2. i # 0 => i - 1 \in 0..c
      BY <1>1 DEF Index
    <3>. QED
      BY <1>7, <3>1, <3>2
  <2>. QED
    BY <1>5, <2>1 DEF Passage
<1>9. ContentMatchesText'
  BY <1>2, <1>4 DEF ContentMatchesText
<1>. QED
  BY <1>2, <1>5, <1>7, <1>8, <1>9

LEMMA SaveGroupedChunkAlone ==
    ASSUME Alone, RunsInv, AloneInv, NEW p \in Procs, SaveGroupedChunk(p)
    PROVE  AloneInv'
<1> USE NAssumption
<1> DEFINE c == cur[p]
<1>1. /\ pc[p] = "saveGroup" /\ pc'[p] \in {"group", "saveGroup"}
      /\ cur'[p] = c + 1 /\ mem' = mem /\ count' = count /\ win' = win
      /\ failed' = failed /\ result' = result
      /\ SaveChunk(cur[p], mem[p][cur[p]].text, None)
  BY RunsInvFacts DEF SaveGroupedChunk, GoTo, Advance, ProcTypeOK
<1>2. /\ Passage(text, Stored)' /\ ContentMatchesText'
      /\ Stored' = 0..cur[p]
      /\ \A i \in Stored' : text'[i] = mem[p][i].text
      /\ questions' = questions /\ breakdown' = breakdown /\ status' = status
  BY <1>1, GroupedChunkTables
<1>3. Stored' = 0..(cur'[p] - 1)
  BY <1>1, <1>2, RunsInvFacts
<1>4. GroupingOf(p)'
  <2>1. pc[p] \in Grouping /\ pc'[p] \in Grouping
        /\ pc'[p] \notin BeforeChunks /\ pc'[p] # "prepare"
    BY <1>1 DEF Grouping, BeforeChunks
  <2>2. Passage(MemText(p), 0..(count[p] - 1))'
    <3>1. MemText(p)' = MemText(p)
      BY <1>1 DEF MemText
    <3>2. Passage(MemText(p), 0..(count[p] - 1))
      BY <2>1, AloneFacts DEF GroupingOf
    <3>. QED
      BY <1>1, <3>1, <3>2 DEF Passage
  <2>. QED
    BY <1>1, <1>2, <1>3, <2>1, <2>2, AloneFacts DEF GroupingOf
<1>5. LoopOf(p)' /\ result'[p] # "ok" /\ status' # "published"
  BY <1>1, <1>2, AloneFacts DEF LoopOf, OnChunk
<1>. QED
  BY <1>2, <1>4, <1>5, AloneIsEnough

LEMMA GroupingDoneAlone ==
    ASSUME Alone, RunsInv, AloneInv, NEW p \in Procs, GroupingDone(p)
    PROVE  AloneInv'
<1> USE NAssumption
<1>1. /\ pc[p] = "group" /\ pc'[p] = "loop" /\ cur'[p] = 0
      /\ mem' = mem /\ count' = count /\ failed' = failed /\ result' = result
      /\ UNCHANGED contentVars /\ status' = status
  BY RunsInvFacts DEF GroupingDone, GoTo, ProcTypeOK, storeVars, contentVars
<1>2. /\ Stored = 0..(cur[p] - 1)
      /\ \A i \in Stored : text[i] = mem[p][i].text
      /\ \A i \in Index : questions[i] = None /\ breakdown[i] = None
      /\ \A i \in Index : ~mem[p][i].hasQuestions /\ ~mem[p][i].hasBreakdown
  BY <1>1, AloneFacts DEF GroupingOf, Grouping
<1>3. cur[p] = count[p] /\ 0..(count[p] - 1) \subseteq Index
  BY <1>1, RunsInvFacts DEF CountersOf
<1>4. Stored' = 0..(count'[p] - 1) /\ \A i \in Stored' : text'[i] = mem'[p][i].text
  BY <1>1, <1>2, <1>3, SameContent DEF contentVars
<1>5. \A i \in Pending(p)' : i \in Index
  BY <1>1, <1>3 DEF Pending
<1>6. LoopOf(p)'
  <2>1. \A i \in Pending(p)' :
          /\ mem'[p][i].hasQuestions = (questions'[i] # None)
          /\ mem'[p][i].hasBreakdown = (breakdown'[i] # None)
    <3>1. ASSUME NEW i \in Pending(p)'
          PROVE  /\ ~mem'[p][i].hasQuestions /\ ~mem'[p][i].hasBreakdown
                 /\ questions'[i] = None /\ breakdown'[i] = None
      BY <1>1, <1>2, <1>5 DEF contentVars
    <3>2. mem'[p] \in [Index -> ChunkProgress]
      BY <1>1, RunsInvFacts
    <3>3. ASSUME NEW i \in Pending(p)'
          PROVE  mem'[p][i].hasQuestions \in BOOLEAN /\ mem'[p][i].hasBreakdown \in BOOLEAN
      BY <1>5, <3>2 DEF ChunkProgress
    <3>. QED
      BY <3>1, <3>3
  <2>2. 0..(cur'[p] - 1) = {}
    BY <1>1
  <2>. QED
    BY <1>1, <1>4, <2>1, <2>2 DEF LoopOf
<1>7. GroupingOf(p)' /\ result'[p] # "ok" /\ status' # "published"
  BY <1>1, AloneFacts DEF GroupingOf, BeforeChunks, Grouping
<1>. QED
  BY <1>1, <1>6, <1>7, SameContent, AloneIsEnough

-----------------------------------------------------------------------------
(* The loop.                                                               *)

LEMMA LoopFacts ==
    ASSUME RunsInv, AloneInv, NEW p \in Procs, pc[p] \in OnChunk \cup {"loop"}
    PROVE  /\ Stored = 0..(count[p] - 1) /\ Stored \subseteq Index
           /\ \A i \in Stored : text[i] = mem[p][i].text
           /\ \A i \in Pending(p) :
               /\ mem[p][i].hasQuestions = (questions[i] # None)
               /\ mem[p][i].hasBreakdown = (breakdown[i] # None)
           /\ ~failed[p] => \A i \in 0..(cur[p] - 1) : Complete(i)
           /\ cur[p] \in 0..N /\ count[p] \in 0..N /\ cur[p] <= count[p]
           /\ result[p] # "ok" /\ status # "published"
<1>1. pc[p] # "idle" /\ pc[p] # "upsert"
  BY DEF OnChunk
<1>2. cur[p] <= count[p]
  BY RunsInvFacts, NAssumption DEF CountersOf, OnChunk
<1>. QED
  BY <1>1, <1>2, AloneFacts, RunsInvFacts DEF LoopOf, Stored

(* A step of the loop that leaves the tables alone and moves no further    *)
(* than what it knows.                                                     *)
LEMMA SkipCompleteAlone ==
    ASSUME Alone, RunsInv, AloneInv, NEW p \in Procs, SkipComplete(p)
    PROVE  AloneInv'
<1> USE NAssumption
<1> DEFINE c == cur[p]
<1>1. /\ pc[p] = "loop" /\ pc'[p] = "loop" /\ c < count[p] /\ cur'[p] = c + 1
      /\ mem[p][c].hasQuestions /\ mem[p][c].hasBreakdown
      /\ mem' = mem /\ count' = count /\ failed' = failed /\ result' = result
      /\ UNCHANGED contentVars /\ status' = status
  BY RunsInvFacts DEF SkipComplete, AtChunk, Progress, Advance, ProcTypeOK, storeVars,
     contentVars
<1>2. c \in Pending(p) /\ c \in Index
  BY <1>1, RunsInvFacts DEF Pending, Index
<1>3. Complete(c)
  BY <1>1, <1>2, LoopFacts DEF Complete
<1>4. \A i \in Pending(p)' : i \in Pending(p)
  BY <1>1, RunsInvFacts DEF Pending
<1>5. ~failed'[p] => \A i \in 0..(cur'[p] - 1) : Complete(i)'
  <2>1. \A i \in 0..(cur'[p] - 1) : i = c \/ i \in 0..(c - 1)
    BY <1>1, RunsInvFacts
  <2>2. \A i \in 0..(c - 1) : i \in Index
    BY <1>2, RunsInvFacts DEF Index
  <2>. QED
    BY <1>1, <1>2, <1>3, <2>1, <2>2, LoopFacts, SameContent
<1>6. LoopOf(p)'
  BY <1>1, <1>4, <1>5, LoopFacts, SameContent DEF LoopOf, contentVars
<1>7. GroupingOf(p)' /\ result'[p] # "ok" /\ status' # "published"
  BY <1>1, AloneFacts DEF GroupingOf, BeforeChunks, Grouping
<1>. QED
  BY <1>1, <1>6, <1>7, SameContent, AloneIsEnough

LEMMA GenerateQuestionsAlone ==
    ASSUME Alone, RunsInv, AloneInv, NEW p \in Procs, GenerateQuestions(p)
    PROVE  AloneInv' /\ questions[cur[p]] = None
<1> USE NAssumption
<1> DEFINE c == cur[p]
<1>1. /\ pc[p] = "loop" /\ pc'[p] = "saveQuestions" /\ c < count[p] /\ cur' = cur
      /\ ~mem[p][c].hasQuestions
      /\ mem' = mem /\ count' = count /\ failed' = failed /\ result' = result
      /\ UNCHANGED contentVars /\ status' = status
  BY RunsInvFacts DEF GenerateQuestions, AtChunk, Progress, GoTo, ProcTypeOK, storeVars,
     contentVars
<1>2. c \in Pending(p)
  BY <1>1, RunsInvFacts DEF Pending
<1>3. questions[c] = None
  BY <1>1, <1>2, LoopFacts
<1>4. \A i \in Pending(p)' : i \in Pending(p)
  BY <1>1, RunsInvFacts DEF Pending
<1>5. \A i \in 0..(c - 1) : i \in Index
  BY <1>1, RunsInvFacts DEF Index
<1>6. LoopOf(p)'
  BY <1>1, <1>3, <1>4, <1>5, LoopFacts, SameContent DEF LoopOf, contentVars
<1>7. GroupingOf(p)' /\ result'[p] # "ok" /\ status' # "published"
  BY <1>1, LoopFacts DEF GroupingOf, BeforeChunks, Grouping
<1>. QED
  BY <1>1, <1>3, <1>6, <1>7, SameContent, AloneIsEnough

LEMMA GiveUpAlone ==
    ASSUME Alone, RunsInv, AloneInv, NEW p \in Procs, GiveUpOnChunk(p),
           pc[p] \in {"loop", "breakdown"}, cur[p] < count[p], UNCHANGED storeVars
    PROVE  AloneInv'
<1>1. /\ pc'[p] = "loop" /\ cur'[p] = cur[p] + 1 /\ failed'[p]
      /\ mem' = mem /\ count' = count /\ result' = result
      /\ UNCHANGED contentVars /\ status' = status
  BY RunsInvFacts DEF GiveUpOnChunk, Advance, GoTo, ProcTypeOK, storeVars, contentVars
<1>2. pc[p] \in OnChunk \cup {"loop"}
  BY DEF OnChunk
<1>3. \A i \in Pending(p)' : i \in Pending(p)
  BY <1>1, RunsInvFacts DEF Pending
<1>4. LoopOf(p)'
  BY <1>1, <1>2, <1>3, LoopFacts, SameContent DEF LoopOf, contentVars
<1>5. GroupingOf(p)' /\ result'[p] # "ok" /\ status' # "published"
  BY <1>1, <1>2, LoopFacts DEF GroupingOf, BeforeChunks, Grouping
<1>. QED
  BY <1>1, <1>4, <1>5, SameContent, AloneIsEnough

LEMMA GenerateQuestionsFailsAlone ==
    ASSUME Alone, RunsInv, AloneInv, NEW p \in Procs, GenerateQuestionsFails(p)
    PROVE  AloneInv'
<1>1. pc[p] = "loop" /\ cur[p] < count[p] /\ GiveUpOnChunk(p) /\ UNCHANGED storeVars
  BY DEF GenerateQuestionsFails, AtChunk, GiveUpOnChunk
<1>. QED
  BY <1>1, GiveUpAlone

LEMMA GenerateBreakdownFailsAlone ==
    ASSUME Alone, RunsInv, AloneInv, NEW p \in Procs, GenerateBreakdownFails(p)
    PROVE  AloneInv'
<1>1. pc[p] \in {"loop", "breakdown"} /\ GiveUpOnChunk(p) /\ UNCHANGED storeVars
  BY DEF GenerateBreakdownFails, AtBreakdown, AtChunk, GiveUpOnChunk
<1>2. cur[p] < count[p]
  BY RunsInvFacts DEF GenerateBreakdownFails, AtBreakdown, AtChunk, CountersOf, OnChunk
<1>. QED
  BY <1>1, <1>2, GiveUpAlone

LEMMA GenerateBreakdownAlone ==
    ASSUME Alone, RunsInv, AloneInv, NEW p \in Procs, GenerateBreakdown(p)
    PROVE  AloneInv' /\ breakdown[cur[p]] = None
<1> USE NAssumption
<1> DEFINE c == cur[p]
<1>1. /\ pc'[p] = "saveBreakdown" /\ cur' = cur
      /\ mem' = mem /\ count' = count /\ failed' = failed /\ result' = result
      /\ UNCHANGED contentVars /\ status' = status
  BY RunsInvFacts DEF GenerateBreakdown, GoTo, ProcTypeOK, storeVars, contentVars
<1>2. \/ pc[p] = "breakdown"
      \/ pc[p] = "loop" /\ c < count[p] /\ ~mem[p][c].hasBreakdown
  BY DEF GenerateBreakdown, AtBreakdown, AtChunk, Progress
<1>3. pc[p] \in OnChunk \cup {"loop"}
  BY <1>2 DEF OnChunk
<1>4. breakdown[c] = None
  <2>1. CASE pc[p] = "breakdown"
    BY <1>3, <2>1, AloneFacts DEF LoopOf
  <2>2. CASE pc[p] = "loop" /\ c < count[p] /\ ~mem[p][c].hasBreakdown
    <3>1. c \in Pending(p)
      BY <2>2, RunsInvFacts DEF Pending
    <3>. QED
      BY <1>3, <2>2, <3>1, LoopFacts
  <2>. QED
    BY <1>2, <2>1, <2>2
<1>5. \A i \in Pending(p)' : i \in Pending(p)
  BY <1>1, RunsInvFacts DEF Pending
<1>6. \A i \in 0..(c - 1) : i \in Index
  BY <1>3, LoopFacts, RunsInvFacts DEF Index
<1>7. LoopOf(p)'
  BY <1>1, <1>3, <1>4, <1>5, <1>6, LoopFacts, SameContent DEF LoopOf, contentVars
<1>8. GroupingOf(p)' /\ result'[p] # "ok" /\ status' # "published"
  BY <1>1, <1>3, LoopFacts DEF GroupingOf, BeforeChunks, Grouping
<1>. QED
  BY <1>1, <1>4, <1>7, <1>8, SameContent, AloneIsEnough

(* Saving a chunk's questions, whatever answer the run gets: the text is   *)
(* saved again as it was.                                                  *)
LEMMA QuestionsTables ==
    ASSUME RunsInv, AloneInv, NEW p \in Procs, pc[p] = "saveQuestions",
           SaveChunk(cur[p], mem[p][cur[p]].text, mem[p][cur[p]].text)
    PROVE  /\ Passage(text, Stored)' /\ ContentMatchesText'
           /\ text' = text /\ breakdown' = breakdown /\ status' = status
           /\ Stored' = Stored
           /\ \A i \in Index : i # cur[p] => questions'[i] = questions[i]
           /\ breakdown[cur[p]] = None
<1> USE NAssumption, NoneAssumption
<1> DEFINE c == cur[p]
           t == mem[p][c].text
<1>1. c \in Index /\ c < count[p] /\ count[p] \in 0..N
  BY RunsInvFacts DEF OnChunk, CountersOf
<1>2. /\ text \in [Index -> Text \cup {None}]
      /\ questions \in [Index -> Text \cup {None}]
      /\ BreakdownNeedsQuestions
  BY RunsInvFacts DEF TablesOK, StoreTypeOK
<1>3. pc[p] \in OnChunk
  BY DEF OnChunk
<1>4. c \in Stored /\ t = text[c] /\ t # None
  <2>1. c \in 0..(count[p] - 1)
    BY <1>1 DEF Index
  <2>. QED
    BY <1>3, <2>1, LoopFacts DEF Stored
<1>5. text' = text /\ Stored' = Stored
  BY <1>2, <1>4 DEF SaveChunk, Stored
<1>6. questions' = [questions EXCEPT ![c] = t]
      /\ breakdown' = breakdown /\ status' = status
  BY <1>4 DEF SaveChunk
<1>7. ContentMatchesText'
  BY <1>1, <1>2, <1>4, <1>5, <1>6, AloneFacts DEF ContentMatchesText
<1>8. breakdown[c] = None
  BY <1>1, <1>2, <1>3, AloneFacts DEF LoopOf, BreakdownNeedsQuestions
<1>9. Passage(text, Stored)'
  BY <1>5, AloneFacts DEF Passage
<1>. QED
  BY <1>2, <1>5, <1>6, <1>7, <1>8, <1>9

LEMMA BreakdownTables ==
    ASSUME RunsInv, AloneInv, NEW p \in Procs, pc[p] = "saveBreakdown",
           SaveBreakdown(cur[p], mem[p][cur[p]].text)
    PROVE  /\ Passage(text, Stored)' /\ ContentMatchesText'
           /\ text' = text /\ questions' = questions /\ status' = status
           /\ Stored' = Stored
           /\ \A i \in Index : i # cur[p] => breakdown'[i] = breakdown[i]
           /\ questions'[cur[p]] # None /\ breakdown'[cur[p]] # None
<1> USE NAssumption, NoneAssumption
<1> DEFINE c == cur[p]
           t == mem[p][c].text
<1>1. c \in Index /\ c < count[p] /\ count[p] \in 0..N
  BY RunsInvFacts DEF OnChunk, CountersOf
<1>2. breakdown \in [Index -> Text \cup {None}] /\ questions[c] # None
  BY RunsInvFacts DEF TablesOK, StoreTypeOK, MemoryOf
<1>3. c \in Stored /\ t = text[c] /\ t # None
  <2>1. c \in 0..(count[p] - 1) /\ pc[p] \in OnChunk
    BY <1>1 DEF Index, OnChunk
  <2>. QED
    BY <2>1, LoopFacts DEF Stored
<1>4. breakdown' = [breakdown EXCEPT ![c] = t] /\ text' = text
      /\ questions' = questions /\ status' = status /\ Stored' = Stored
  BY DEF SaveBreakdown, Stored
<1>5. ContentMatchesText'
  BY <1>1, <1>2, <1>3, <1>4, AloneFacts DEF ContentMatchesText
<1>6. Passage(text, Stored)'
  BY <1>4, AloneFacts DEF Passage
<1>7. questions'[c] # None /\ breakdown'[c] # None
  BY <1>1, <1>2, <1>3, <1>4
<1>. QED
  BY <1>2, <1>4, <1>5, <1>6, <1>7

LEMMA SaveQuestionsAlone ==
    ASSUME Alone, RunsInv, AloneInv, NEW p \in Procs, SaveQuestions(p)
    PROVE  AloneInv'
<1> USE NAssumption
<1> DEFINE c == cur[p]
<1>1. /\ pc[p] = "saveQuestions" /\ pc'[p] = "breakdown" /\ cur' = cur
      /\ mem' = mem /\ count' = count /\ failed' = failed /\ result' = result
      /\ SaveChunk(cur[p], mem[p][cur[p]].text, mem[p][cur[p]].text)
  BY RunsInvFacts DEF SaveQuestions, Progress, GoTo, ProcTypeOK
<1>2. /\ Passage(text, Stored)' /\ ContentMatchesText'
      /\ text' = text /\ breakdown' = breakdown /\ status' = status
      /\ Stored' = Stored
      /\ \A i \in Index : i # c => questions'[i] = questions[i]
      /\ breakdown[c] = None
  BY <1>1, QuestionsTables
<1>3. pc[p] \in OnChunk \cup {"loop"}
  BY <1>1 DEF OnChunk
<1>4. \A i \in Pending(p)' : i \in Pending(p) /\ i # c /\ i \in Index
  BY <1>1, RunsInvFacts DEF Pending
<1>5. ASSUME ~failed'[p], NEW i \in 0..(c - 1)
      PROVE  Complete(i)'
  <2>1. i \in Index /\ i # c
    BY <1>3, LoopFacts, RunsInvFacts DEF Index
  <2>2. Complete(i)
    BY <1>1, <1>3, <1>5, LoopFacts
  <2>. QED
    BY <1>2, <2>1, <2>2 DEF Complete
<1>6. LoopOf(p)'
  BY <1>1, <1>2, <1>3, <1>4, <1>5, LoopFacts DEF LoopOf
<1>7. GroupingOf(p)' /\ result'[p] # "ok" /\ status' # "published"
  BY <1>1, <1>2, <1>3, LoopFacts DEF GroupingOf, BeforeChunks, Grouping
<1>. QED
  BY <1>2, <1>6, <1>7, AloneIsEnough

LEMMA SaveChunkBreakdownAlone ==
    ASSUME Alone, RunsInv, AloneInv, NEW p \in Procs, SaveChunkBreakdown(p)
    PROVE  AloneInv'
<1> USE NAssumption
<1> DEFINE c == cur[p]
<1>1. /\ pc[p] = "saveBreakdown" /\ pc'[p] = "loop" /\ cur'[p] = c + 1
      /\ mem' = mem /\ count' = count /\ failed' = failed /\ result' = result
      /\ SaveBreakdown(cur[p], mem[p][cur[p]].text)
  BY RunsInvFacts DEF SaveChunkBreakdown, Progress, Advance, GoTo, ProcTypeOK
<1>2. /\ Passage(text, Stored)' /\ ContentMatchesText'
      /\ text' = text /\ questions' = questions /\ status' = status
      /\ Stored' = Stored
      /\ \A i \in Index : i # c => breakdown'[i] = breakdown[i]
      /\ questions'[c] # None /\ breakdown'[c] # None
  BY <1>1, BreakdownTables
<1>3. pc[p] \in OnChunk \cup {"loop"}
  BY <1>1 DEF OnChunk
<1>4. \A i \in Pending(p)' : i \in Pending(p) /\ i # c /\ i \in Index
  BY <1>1, RunsInvFacts DEF Pending
<1>5. ASSUME ~failed'[p], NEW i \in 0..(cur'[p] - 1)
      PROVE  Complete(i)'
  <2>1. CASE i = c
    BY <1>2, <2>1 DEF Complete
  <2>2. CASE i # c
    <3>1. i \in 0..(c - 1) /\ i \in Index
      BY <1>1, <1>3, <2>2, LoopFacts, RunsInvFacts DEF Index
    <3>2. Complete(i)
      BY <1>1, <1>3, <1>5, <3>1, LoopFacts
    <3>. QED
      BY <1>2, <2>2, <3>1, <3>2 DEF Complete
  <2>. QED
    BY <2>1, <2>2
<1>6. LoopOf(p)'
  BY <1>1, <1>2, <1>3, <1>4, <1>5, LoopFacts DEF LoopOf
<1>7. GroupingOf(p)' /\ result'[p] # "ok" /\ status' # "published"
  BY <1>1, <1>2, <1>3, LoopFacts DEF GroupingOf, BeforeChunks, Grouping
<1>. QED
  BY <1>2, <1>6, <1>7, AloneIsEnough

LEMMA FinishAlone ==
    ASSUME Alone, RunsInv, AloneInv, NEW p \in Procs, Finish(p)
    PROVE  AloneInv'
<1> DEFINE r == IF failed[p] THEN "failed" ELSE "ok"
<1>1. /\ pc[p] = "loop" /\ cur[p] = count[p] /\ Exit(p, r)
      /\ UNCHANGED contentVars /\ status' = status
  BY DEF Finish, storeVars, contentVars
<1>2. r \in {"ok", "failed"} /\ (r = "ok" => ~failed[p])
  OBVIOUS
<1>3. ~failed[p] => \A i \in Stored' : Complete(i)'
  BY <1>1, LoopFacts, SameContent
<1>4. status' # "published"
  BY <1>1, LoopFacts
<1> HIDE DEF r
<1>. QED
  BY <1>1, <1>2, <1>3, <1>4, SameContent, AloneExit

-----------------------------------------------------------------------------
(* Kills, failed calls, and the operator.                                  *)

LEMMA KillAlone ==
    ASSUME Alone, RunsInv, AloneInv, NEW p \in Procs, Kill(p)
    PROVE  AloneInv'
<1>1. Exit(p, "failed") /\ UNCHANGED contentVars /\ status' = status
  BY DEF Kill, Abort, storeVars, contentVars
<1>2. status' = "published" => \A i \in Stored' : Complete(i)'
  BY <1>1, AloneFacts, SameContent DEF Stored
<1>. QED
  BY <1>1, <1>2, SameContent, AloneExit

LEMMA StoreCallFailsAlone ==
    ASSUME Alone, RunsInv, AloneInv, NEW p \in Procs, StoreCallFails(p)
    PROVE  AloneInv'
<1>1. Exit(p, "failed") /\ (Write(p) \/ UNCHANGED storeVars)
  BY DEF StoreCallFails, Abort
<1>2. CASE UNCHANGED storeVars
  <2>1. UNCHANGED contentVars /\ status' = status
    BY <1>2 DEF storeVars, contentVars
  <2>2. status' = "published" => \A i \in Stored' : Complete(i)'
    BY <2>1, AloneFacts, SameContent DEF Stored
  <2>. QED
    BY <1>1, <2>1, <2>2, SameContent, AloneExit
<1>3. CASE pc[p] = "upsert" /\ \E f \in BOOLEAN : UpsertBook(f)
  <2>1. UNCHANGED contentVars /\ status' = "processing"
    BY <1>3 DEF UpsertBook, contentVars
  <2>. QED
    BY <1>1, <2>1, SameContent, AloneExit
<1>4. CASE pc[p] = "saveGroup" /\ SaveChunk(cur[p], Progress(p).text, None)
  <2>1. /\ Passage(text, Stored)' /\ ContentMatchesText' /\ status' = status
    BY <1>4, GroupedChunkTables DEF Progress
  <2>2. status # "published"
    BY <1>4, AloneFacts
  <2>. QED
    BY <1>1, <2>1, <2>2, AloneExit
<1>5. CASE /\ pc[p] = "saveQuestions"
           /\ SaveChunk(cur[p], Progress(p).text, Progress(p).text)
  <2>1. /\ Passage(text, Stored)' /\ ContentMatchesText' /\ status' = status
    BY <1>5, QuestionsTables DEF Progress
  <2>2. status # "published"
    BY <1>5, AloneFacts
  <2>. QED
    BY <1>1, <2>1, <2>2, AloneExit
<1>6. CASE pc[p] = "saveBreakdown" /\ SaveBreakdown(cur[p], Progress(p).text)
  <2>1. /\ Passage(text, Stored)' /\ ContentMatchesText' /\ status' = status
    BY <1>6, BreakdownTables DEF Progress
  <2>2. status # "published"
    BY <1>6, AloneFacts
  <2>. QED
    BY <1>1, <2>1, <2>2, AloneExit
<1>. QED
  BY <1>1, <1>2, <1>3, <1>4, <1>5, <1>6 DEF Write

(* The operator publishes what a run reported as finished.                 *)
LEMMA PublishAlone ==
    ASSUME Alone, RunsInv, AloneInv, Publish
    PROVE  AloneInv'
<1>1. PICK p \in Procs : result[p] = "ok" /\ pc[p] = "idle"
  BY DEF Publish
<1>2. UNCHANGED <<contentVars, procVars>>
  BY DEF Publish, MarkPublished, contentVars
<1>3. \A i \in Stored' : Complete(i)'
  BY <1>1, <1>2, AloneFacts, SameContent DEF Stored
<1>4. GroupingOf(p)' /\ LoopOf(p)' /\ pc'[p] = "idle"
  BY <1>1, <1>2, AloneFacts
     DEF GroupingOf, LoopOf, BeforeChunks, Grouping, OnChunk, procVars
<1>. QED
  BY <1>2, <1>3, <1>4, SameContent, AloneIsEnough

LEMMA RunAlone ==
    ASSUME Alone, RunsInv, AloneInv, NEW p \in Procs, Run(p)
    PROVE  AloneInv'
BY StartAlone, SaveBookAlone, ResumeAlone, NothingToResumeAlone,
   PrepareBookAlone, PrepareBookFailsAlone, GroupWindowAlone,
   SaveGroupedChunkAlone, GroupingDoneAlone, SkipCompleteAlone,
   GenerateQuestionsAlone, GenerateQuestionsFailsAlone, SaveQuestionsAlone,
   GenerateBreakdownAlone, GenerateBreakdownFailsAlone, SaveChunkBreakdownAlone,
   FinishAlone, KillAlone, StoreCallFailsAlone DEF Run

LEMMA StutterAlone ==
    ASSUME AloneInv, UNCHANGED vars
    PROVE  AloneInv'
<1>1. UNCHANGED <<contentVars, status, procVars>>
  BY DEF vars, storeVars, contentVars
<1>2. \A p \in Procs : GroupingOf(p)' /\ LoopOf(p)'
  <2>1. ASSUME NEW p \in Procs PROVE MemText(p)' = MemText(p) /\ Pending(p)' = Pending(p)
    BY <1>1 DEF MemText, Pending, procVars
  <2>2. ASSUME NEW p \in Procs PROVE GroupingOf(p)'
    BY <1>1, <2>1, AloneFacts, SameContent
       DEF GroupingOf, Passage, procVars, contentVars
  <2>3. ASSUME NEW p \in Procs PROVE LoopOf(p)'
    BY <1>1, <2>1, AloneFacts, SameContent
       DEF LoopOf, Complete, procVars, contentVars
  <2>. QED
    BY <2>2, <2>3
<1>3. SuccessIsComplete' /\ PublishedIsComplete'
  BY <1>1, SameContent
     DEF AloneInv, SuccessIsComplete, PublishedIsComplete, Complete, procVars, contentVars
<1>. QED
  BY <1>1, <1>2, <1>3, SameContent DEF AloneInv, procVars

LEMMA AloneInvStep ==
    ASSUME Alone, RunsInv, AloneInv, [Next]_vars
    PROVE  AloneInv'
<1>1. ASSUME NEW p \in Procs, Run(p) PROVE AloneInv'
  BY <1>1, RunAlone
<1>. QED
  BY <1>1, PublishAlone, StutterAlone DEF Next

-----------------------------------------------------------------------------
(* The theorems.                                                           *)

(* AloneInv holds in every reachable state when runs do not overlap.       *)
THEOREM AloneInvariant ==
    ASSUME Alone
    PROVE  Spec => []AloneInv
<1>1. RunsInv /\ AloneInv /\ [Next]_vars => AloneInv'
  BY AloneInvStep
<1>. QED
  BY <1>1, AloneInvInit, RunsInvariant, PTL DEF Spec

(* Without overlap the stored chunks read as one passage from the first    *)
(* sentence, whatever mixture of killed runs wrote them.                   *)
THEOREM InReadingOrder ==
    ASSUME Alone
    PROVE  Spec => []ReadingOrder
<1>1. RunsInv /\ AloneInv => ReadingOrder
  <2> SUFFICES ASSUME RunsInv, AloneInv PROVE ReadingOrder
    OBVIOUS
  <2>1. PICK k \in 0..N : Stored = 0..(k - 1)
    BY DEF RunsInv, StoredIsPrefix
  <2>2. Passage(text, Stored)
    BY DEF AloneInv
  <2>. QED
    BY <2>1, <2>2, NAssumption DEF Passage, ReadingOrder
<1>. QED
  BY <1>1, RunsInvariant, AloneInvariant, PTL

(* Without overlap a question set or breakdown is about the text it is     *)
(* stored with.                                                            *)
THEOREM ContentIsAboutItsText ==
    ASSUME Alone
    PROVE  Spec => []ContentMatchesText
<1>1. AloneInv => ContentMatchesText
  BY DEF AloneInv
<1>. QED
  BY <1>1, AloneInvariant, PTL

(* Without overlap a run that exits 0 left no stored chunk incomplete, and *)
(* no later run can undo it.                                               *)
THEOREM SuccessLeavesNothingUndone ==
    ASSUME Alone
    PROVE  Spec => []SuccessIsComplete
<1>1. AloneInv => SuccessIsComplete
  BY DEF AloneInv
<1>. QED
  BY <1>1, AloneInvariant, PTL

(* Without overlap nothing half-generated is published.                    *)
THEOREM NothingHalfGeneratedIsPublished ==
    ASSUME Alone
    PROVE  Spec => []PublishedIsComplete
<1>1. AloneInv => PublishedIsComplete
  BY DEF AloneInv
<1>. QED
  BY <1>1, AloneInvariant, PTL

(* Without overlap, whatever says that a book is finished, the exit code   *)
(* or its status, stays right through all later runs.                      *)
THEOREM FinishedStaysFinished ==
    ASSUME Alone
    PROVE  Spec => []CompleteWhenTold
<1>1. SuccessIsComplete /\ PublishedIsComplete => CompleteWhenTold
  BY DEF CompleteWhenTold
<1>. QED
  BY <1>1, SuccessLeavesNothingUndone, NothingHalfGeneratedIsPublished, PTL

-----------------------------------------------------------------------------
(* What is paid for.                                                       *)

(* A run reaches a save only by paying for what it is about to save.       *)
LEMMA OnlyGenerationBuys ==
    ASSUME RunsInv, NEW p \in Procs, Run(p)
    PROVE  /\ pc'[p] = "saveQuestions" /\ pc[p] # "saveQuestions" => GenerateQuestions(p)
           /\ pc'[p] = "saveBreakdown" /\ pc[p] # "saveBreakdown" => GenerateBreakdown(p)
<1>. pc \in [Procs -> Steps]
  BY DEF RunsInv, TypeOK, ProcTypeOK
<1>1. CASE Start(p) \/ SaveBook(p) \/ ResumeStoredChunks(p) \/ NothingToResume(p)
           \/ PrepareBook(p)
  BY <1>1 DEF Start, SaveBook, ResumeStoredChunks, NothingToResume, PrepareBook, GoTo
<1>2. CASE GroupWindow(p) \/ SaveGroupedChunk(p) \/ GroupingDone(p)
  BY <1>2 DEF GroupWindow, SaveGroupedChunk, GroupingDone, GoTo
<1>3. CASE SkipComplete(p)
  BY <1>3 DEF SkipComplete
<1>4. CASE GenerateQuestionsFails(p) \/ GenerateBreakdownFails(p)
           \/ SaveQuestions(p) \/ SaveChunkBreakdown(p)
  BY <1>4 DEF GenerateQuestionsFails, GenerateBreakdownFails, GiveUpOnChunk,
     SaveQuestions, SaveChunkBreakdown, GoTo
<1>5. CASE PrepareBookFails(p) \/ Finish(p) \/ Kill(p) \/ StoreCallFails(p)
  <2>1. pc' = [pc EXCEPT ![p] = "idle"]
    BY <1>5 DEF PrepareBookFails, Finish, Kill, StoreCallFails, Abort, Exit, GoTo
  <2>. QED
    BY <2>1
<1>6. CASE GenerateQuestions(p) \/ GenerateBreakdown(p)
  BY <1>6 DEF GenerateQuestions, GenerateBreakdown, GoTo
<1>. QED
  BY <1>1, <1>2, <1>3, <1>4, <1>5, <1>6 DEF Run

(* Without overlap no generation is paid for while its product is stored.  *)
THEOREM NothingSavedIsBoughtAgain ==
    ASSUME Alone
    PROVE  Spec => SavedIsNeverBoughtAgain
<1> DEFINE Bought == \A p \in Procs :
        /\ pc'[p] = "saveQuestions" /\ pc[p] # "saveQuestions"
               => questions[cur[p]] = None
        /\ pc'[p] = "saveBreakdown" /\ pc[p] # "saveBreakdown"
               => breakdown[cur[p]] = None
<1>1. ASSUME RunsInv, AloneInv, [Next]_vars
      PROVE  [Bought]_vars
  <2>1. ASSUME NEW p \in Procs, Run(p) PROVE Bought
    <3>1. \A q \in Procs : q = p
      BY DEF Alone
    <3>. QED
      BY <1>1, <2>1, <3>1, OnlyGenerationBuys, GenerateQuestionsAlone,
         GenerateBreakdownAlone
  <2>2. CASE Publish
    BY <2>2 DEF Publish, procVars
  <2>. QED
    BY <1>1, <2>1, <2>2 DEF Next
<1>. QED
  BY <1>1, RunsInvariant, AloneInvariant, PTL DEF Spec, SavedIsNeverBoughtAgain

Kinds == {"questions", "breakdown"}
Saving == {"saveQuestions", "saveBreakdown"}

(* The run p, if it holds a generation it has not saved.                   *)
Holding(p) == IF pc[p] \in Saving THEN 1 ELSE 0

LEMMA ProductsFinite ==
    /\ IsFiniteSet(Products) /\ Cardinality(Products) \in Nat
    /\ IsFiniteSet(Products') /\ Cardinality(Products') \in Nat
    /\ Products \subseteq Products' => Cardinality(Products) <= Cardinality(Products')
<1>1. IsFiniteSet(Index)
  BY FS_Interval, NAssumption DEF Index
<1>2. IsFiniteSet(Kinds)
  <2>1. IsFiniteSet({}) /\ IsFiniteSet({"questions"})
    BY FS_EmptySet, FS_Singleton
  <2>2. Kinds = {"questions"} \cup {"breakdown"}
    BY DEF Kinds
  <2>. QED
    BY <2>1, <2>2, FS_AddElement
<1>3. IsFiniteSet(Kinds \X Index)
  BY <1>1, <1>2, FS_Product
<1>4. Products \subseteq Kinds \X Index /\ Products' \subseteq Kinds \X Index
  BY DEF Products, Kinds
<1>5. IsFiniteSet(Products) /\ IsFiniteSet(Products')
  BY <1>3, <1>4, FS_Subset
<1>. QED
  BY <1>5, FS_Subset, FS_CardinalityType

LEMMA AloneInFlight ==
    ASSUME Alone, NEW p \in Procs
    PROVE  Cardinality(InFlight) = Holding(p) /\ Cardinality(InFlight') = Holding(p)'
<1>1. /\ InFlight = IF pc[p] \in Saving THEN {p} ELSE {}
      /\ InFlight' = IF pc'[p] \in Saving THEN {p} ELSE {}
  BY DEF InFlight, Saving, Alone
<1>. QED
  BY <1>1, FS_Singleton, FS_EmptySet DEF Holding

LEMMA ProductsGrow ==
    ASSUME Grows
    PROVE  Products \subseteq Products'
BY DEF Grows, Products

(* A saved generation is a product the tables did not have.                *)
LEMMA SavesAdd ==
    ASSUME RunsInv, AloneInv, NEW p \in Procs, Run(p),
           SaveQuestions(p) \/ SaveChunkBreakdown(p)
    PROVE  Cardinality(Products) + 1 <= Cardinality(Products')
<1> DEFINE kind == IF SaveQuestions(p) THEN "questions" ELSE "breakdown"
           x == <<kind, cur[p]>>
<1>1. Grows
  BY RunKeeps DEF KeptBy
<1>2. cur[p] \in Index /\ pc[p] \in OnChunk
  BY RunsInvFacts DEF SaveQuestions, SaveChunkBreakdown, OnChunk
<1>3. x \notin Products /\ x \in Products'
  <2>1. CASE SaveQuestions(p)
    <3>1. pc[p] = "saveQuestions" /\ questions[cur[p]] = None
      BY <1>2, <2>1, AloneFacts DEF SaveQuestions, LoopOf
    <3>2. questions'[cur[p]] # None
      BY <2>1, <1>2, SaveQuestionsTables DEF SaveQuestions, Progress
    <3>. QED
      BY <1>2, <2>1, <3>1, <3>2 DEF Products
  <2>2. CASE SaveChunkBreakdown(p) /\ ~SaveQuestions(p)
    <3>1. pc[p] = "saveBreakdown" /\ breakdown[cur[p]] = None
      BY <1>2, <2>2, AloneFacts DEF SaveChunkBreakdown, LoopOf
    <3>2. breakdown'[cur[p]] # None
      BY <2>2, <3>1, BreakdownTables DEF SaveChunkBreakdown, Progress
    <3>. QED
      BY <1>2, <2>2, <3>1, <3>2 DEF Products
  <2>. QED
    BY <2>1, <2>2
<1>4. Products \cup {x} \subseteq Products'
  BY <1>1, <1>3, ProductsGrow
<1> HIDE DEF x
<1>5. Cardinality(Products \cup {x}) = Cardinality(Products) + 1
  BY <1>3, ProductsFinite, FS_AddElement
<1>6. Cardinality(Products \cup {x}) <= Cardinality(Products')
  BY <1>4, ProductsFinite, FS_Subset
<1>. QED
  BY <1>5, <1>6

LEMMA RunLosesLittle ==
    ASSUME Alone, RunsInv, AloneInv, NEW p \in Procs, Run(p),
           paid <= Cardinality(Products) + Holding(p) + aborts
    PROVE  paid' <= Cardinality(Products') + Holding(p)' + aborts'
<1>1. /\ Cardinality(Products) \in Nat /\ Cardinality(Products') \in Nat
      /\ Cardinality(Products) <= Cardinality(Products')
  <2>1. Grows
    BY RunKeeps DEF KeptBy
  <2>. QED
    BY <2>1, ProductsGrow, ProductsFinite
<1>2. paid \in Nat /\ aborts \in Nat /\ pc \in [Procs -> Steps]
  BY RunsInvFacts, BoundAssumption DEF LedgerTypeOK, ProcTypeOK
<1>3. CASE GenerateQuestions(p) \/ GenerateBreakdown(p)
  <2>1. paid' = paid + 1 /\ aborts' = aborts /\ pc[p] \notin Saving /\ pc'[p] \in Saving
    BY <1>2, <1>3 DEF GenerateQuestions, GenerateBreakdown, AtChunk, AtBreakdown, Buy,
       GoTo, Saving
  <2>. QED
    BY <1>1, <1>2, <2>1 DEF Holding
<1>4. CASE SaveQuestions(p) \/ SaveChunkBreakdown(p)
  <2>1. paid' = paid /\ aborts' = aborts /\ pc[p] \in Saving /\ pc'[p] \notin Saving
    BY <1>2, <1>4 DEF SaveQuestions, SaveChunkBreakdown, GoTo, Saving, ledger
  <2>2. Cardinality(Products) + 1 <= Cardinality(Products')
    BY <1>4, SavesAdd
  <2>. QED
    BY <1>1, <1>2, <2>1, <2>2 DEF Holding
<1>5. CASE Kill(p) \/ StoreCallFails(p)
  <2>1. paid' = paid /\ aborts' = aborts + 1 /\ pc'[p] = "idle"
    BY <1>2, <1>5 DEF Kill, StoreCallFails, Abort, Exit, GoTo
  <2>. QED
    BY <1>1, <1>2, <2>1 DEF Holding, Saving
<1>6. CASE Start(p) \/ SaveBook(p) \/ ResumeStoredChunks(p) \/ NothingToResume(p)
           \/ PrepareBook(p) \/ PrepareBookFails(p) \/ Finish(p)
  <2>1. paid' = paid /\ aborts' = aborts /\ pc[p] \notin Saving
    BY <1>6 DEF Start, SaveBook, ResumeStoredChunks, NothingToResume, PrepareBook,
       PrepareBookFails, Finish, Saving, ledger
  <2>. QED
    BY <1>1, <1>2, <2>1 DEF Holding
<1>7. CASE GroupWindow(p) \/ SaveGroupedChunk(p) \/ GroupingDone(p) \/ SkipComplete(p)
           \/ GenerateQuestionsFails(p) \/ GenerateBreakdownFails(p)
  <2>1. paid' = paid /\ aborts' = aborts /\ pc[p] \notin Saving
    BY <1>7 DEF GroupWindow, SaveGroupedChunk, GroupingDone, SkipComplete,
       GenerateQuestionsFails, GenerateBreakdownFails, GiveUpOnChunk, AtChunk,
       AtBreakdown, Saving, ledger
  <2>. QED
    BY <1>1, <1>2, <2>1 DEF Holding
<1>. QED
  BY <1>3, <1>4, <1>5, <1>6, <1>7 DEF Run

(* Without overlap a kill or a failed call costs at most one generation.   *)
THEOREM AtMostOneIsLost ==
    ASSUME Alone
    PROVE  Spec => []AtMostOneLostPerAbort
<1>1. Init => AtMostOneLostPerAbort
  <2> SUFFICES ASSUME Init PROVE AtMostOneLostPerAbort
    OBVIOUS
  <2>1. InFlight = {}
    BY DEF Init, InFlight
  <2>. QED
    BY <2>1, ProductsFinite, FS_EmptySet DEF Init, AtMostOneLostPerAbort
<1>2. ASSUME RunsInv, AloneInv, AtMostOneLostPerAbort, [Next]_vars
      PROVE  AtMostOneLostPerAbort'
  <2>1. ASSUME NEW p \in Procs, Run(p) PROVE AtMostOneLostPerAbort'
    <3>1. Cardinality(InFlight) = Holding(p) /\ Cardinality(InFlight') = Holding(p)'
      BY AloneInFlight
    <3>. QED
      BY <1>2, <2>1, <3>1, RunLosesLittle DEF AtMostOneLostPerAbort
  <2>2. CASE Publish \/ UNCHANGED vars
    <3>1. UNCHANGED <<contentVars, pc, ledger>>
      BY <2>2 DEF Publish, MarkPublished, vars, storeVars, procVars, contentVars
    <3>2. Products' = Products /\ InFlight' = InFlight
      BY <3>1 DEF Products, InFlight, contentVars
    <3>. QED
      BY <1>2, <3>1, <3>2 DEF AtMostOneLostPerAbort, ledger
  <2>. QED
    BY <1>2, <2>1, <2>2 DEF Next
<1>. QED
  BY <1>1, <1>2, RunsInvariant, AloneInvariant, PTL DEF Spec

-----------------------------------------------------------------------------
(* The refinement: each step is the grouping or the promotion of one       *)
(* chunk, a publication, a withdrawal, or changes nothing a reader of the  *)
(* tables could see.                                                       *)

stages == [i \in Index |-> StageOf(i)]
visible == status = "published"

LEMMA StageCases ==
    ASSUME NEW i \in Index
    PROVE  /\ text[i] = None => StageOf(i) = "absent"
           /\ text[i] # None /\ questions[i] = None => StageOf(i) = "grouped"
           /\ text[i] # None /\ questions[i] # None /\ breakdown[i] = None
                  => StageOf(i) = "questioned"
           /\ text[i] # None /\ questions[i] # None /\ breakdown[i] # None
                  => StageOf(i) = "complete"
           /\ text'[i] = None => StageOf(i)' = "absent"
           /\ text'[i] # None /\ questions'[i] = None => StageOf(i)' = "grouped"
           /\ text'[i] # None /\ questions'[i] # None /\ breakdown'[i] = None
                  => StageOf(i)' = "questioned"
           /\ text'[i] # None /\ questions'[i] # None /\ breakdown'[i] # None
                  => StageOf(i)' = "complete"
           /\ /\ text'[i] = text[i] /\ questions'[i] = questions[i]
              /\ breakdown'[i] = breakdown[i]
              => StageOf(i)' = StageOf(i)
BY DEF StageOf

LEMMA LifecycleInit == Init => Lifecycle!Init
<1> SUFFICES ASSUME Init PROVE Lifecycle!Init
  OBVIOUS
<1>1. \A i \in Index : StageOf(i) = "absent"
  BY StageCases DEF Init, StoreInit
<1>. QED
  BY <1>1 DEF Init, StoreInit, Lifecycle!Init, Lifecycle!Index, Index

(* A step that leaves the contents alone publishes, withdraws or stutters. *)
LEMMA SameContentStep ==
    ASSUME AloneInv, UNCHANGED contentVars,
           \/ status' = status
           \/ status' = "processing"
           \/ status = "processing" /\ \A i \in Stored : Complete(i)
    PROVE  [Lifecycle!Next]_(Lifecycle!vars)
<1>1. stages' = stages /\ text' = text
  BY StageCases DEF stages, contentVars
<1>2. CASE visible' = visible
  BY <1>1, <1>2 DEF Lifecycle!vars, stages, visible
<1>3. CASE visible /\ ~visible'
  BY <1>1, <1>3 DEF Lifecycle!Next, Lifecycle!Withdraw, stages, visible
<1>4. CASE ~visible /\ visible'
  <2>1. \A i \in Stored : Complete(i)
    BY <1>4 DEF visible
  <2>2. \A i \in Index : StageOf(i) \in {"absent", "complete"}
    BY <2>1, StageCases DEF Stored, Complete
  <2>. QED
    BY <1>1, <1>4, <2>2
       DEF Lifecycle!Next, Lifecycle!Publish, Lifecycle!Index, Index, stages, visible
<1>. QED
  BY <1>2, <1>3, <1>4 DEF visible

(* A chunk that moves to another stage and is the only one to move.        *)
LEMMA OneStageMoves ==
    ASSUME NEW i \in Index, NEW to, StageOf(i)' = to,
           \A j \in Index : j # i => StageOf(j)' = StageOf(j)
    PROVE  stages' = [stages EXCEPT ![i] = to]
BY DEF stages

(* Saving a grouped chunk, acknowledged or not, is a Group step.           *)
LEMMA GroupStep ==
    ASSUME RunsInv, AloneInv, NEW p \in Procs, pc[p] = "saveGroup",
           NEW c \in Index, c = cur[p], NEW t, t = mem[p][c].text,
           SaveChunk(c, t, None)
    PROVE  [Lifecycle!Next]_(Lifecycle!vars)
<1> USE NAssumption, NoneAssumption
<1>1. /\ c \in Index /\ c \in 0..(count[p] - 1) /\ count[p] \in 0..N /\ t \in Text
  <2>1. c \in Index /\ c \in 0..(count[p] - 1) /\ count[p] \in 0..N /\ t # None
    BY RunsInvFacts DEF MemoryOf, CountersOf, Index
  <2>2. t \in Text \cup {None}
    BY <2>1, RunsInvFacts DEF ChunkProgress
  <2>. QED
    BY <2>1, <2>2
<1>2. /\ Passage(MemText(p), 0..(count[p] - 1))
      /\ Stored = 0..(c - 1)
      /\ \A i \in Stored : text[i] = mem[p][i].text
      /\ \A i \in Index : questions[i] = None /\ breakdown[i] = None
      /\ ~visible
  BY AloneFacts DEF GroupingOf, Grouping, visible
<1>3. /\ text' = [text EXCEPT ![c] = t] /\ text \in [Index -> Text \cup {None}]
      /\ questions' = questions /\ breakdown' = breakdown /\ status' = status
  BY RunsInvFacts DEF SaveChunk, TablesOK, StoreTypeOK
<1>4. text[c] = None /\ (c > 0 => text[c - 1] = mem[p][c - 1].text)
  <2>1. c \notin Stored /\ (c > 0 => c - 1 \in Stored)
    BY <1>1, <1>2 DEF Index
  <2>. QED
    BY <1>2, <2>1 DEF Stored
<1>5. c > 0 => c - 1 \in Index /\ c - 1 \in Stored
  BY <1>1, <1>2 DEF Index
<1>6. t.first <= t.last /\ t.first = IF c = 0 THEN 1 ELSE text[c - 1].last + 1
  <2>1. t = MemText(p)[c] /\ (c # 0 => mem[p][c - 1].text = MemText(p)[c - 1])
    BY <1>1, <1>5 DEF MemText, Index
  <2>2. /\ MemText(p)[c].first <= MemText(p)[c].last
        /\ MemText(p)[c].first = IF c = 0 THEN 1 ELSE MemText(p)[c - 1].last + 1
    BY <1>1, <1>2 DEF Passage
  <2>. QED
    BY <1>1, <1>4, <2>1, <2>2 DEF Index
<1>7. stages[c] = "absent" /\ (c > 0 => stages[c - 1] # "absent")
  BY <1>1, <1>4, <1>5, StageCases DEF stages, Stored
<1>8. stages' = [stages EXCEPT ![c] = "grouped"]
  <2>1. StageOf(c)' = "grouped"
    <3>1. text'[c] # None /\ questions'[c] = None
      BY <1>1, <1>2, <1>3
    <3>. QED
      BY <1>1, <3>1 DEF StageOf
  <2>. QED
    BY <1>1, <1>3, <2>1, StageCases, OneStageMoves
<1>9. Lifecycle!Group(c)
  BY <1>1, <1>2, <1>3, <1>6, <1>7, <1>8
     DEF Lifecycle!Group, Lifecycle!Text, Lifecycle!NextFirst, Text, stages, visible
<1>. QED
  BY <1>1, <1>9 DEF Lifecycle!Next, Lifecycle!Index, Index

(* Saving a chunk's questions and saving its breakdown promote it.         *)
LEMMA QuestionsStep ==
    ASSUME RunsInv, AloneInv, NEW p \in Procs, pc[p] = "saveQuestions",
           NEW c \in Index, c = cur[p],
           SaveChunk(cur[p], mem[p][cur[p]].text, mem[p][cur[p]].text)
    PROVE  [Lifecycle!Next]_(Lifecycle!vars)
<1>1. /\ text' = text /\ breakdown' = breakdown /\ status' = status
      /\ \A i \in Index : i # c => questions'[i] = questions[i]
      /\ breakdown[c] = None
  BY QuestionsTables
<1>2. pc[p] \in OnChunk /\ questions[c] = None /\ questions'[c] # None
  BY AloneFacts, SaveQuestionsTables DEF LoopOf, OnChunk
<1>3. c \in Stored /\ ~visible
  BY <1>2, LoopFacts, RunsInvFacts DEF CountersOf, Index, visible
<1>4. StageOf(c) = "grouped" /\ StageOf(c)' = "questioned"
  BY <1>1, <1>2, <1>3 DEF StageOf, Stored
<1>5. stages' = [stages EXCEPT ![c] = "questioned"]
  BY <1>1, <1>4, StageCases, OneStageMoves
<1>6. Lifecycle!Promote(c, "grouped", "questioned")
  BY <1>1, <1>3, <1>4, <1>5 DEF Lifecycle!Promote, stages, visible
<1>. QED
  BY <1>6 DEF Lifecycle!Next, Lifecycle!Index, Index

LEMMA BreakdownStep ==
    ASSUME RunsInv, AloneInv, NEW p \in Procs, pc[p] = "saveBreakdown",
           NEW c \in Index, c = cur[p],
           SaveBreakdown(cur[p], mem[p][cur[p]].text)
    PROVE  [Lifecycle!Next]_(Lifecycle!vars)
<1>1. /\ text' = text /\ questions' = questions /\ status' = status
      /\ \A i \in Index : i # c => breakdown'[i] = breakdown[i]
      /\ questions'[c] # None /\ breakdown'[c] # None
  BY BreakdownTables
<1>2. pc[p] \in OnChunk /\ breakdown[c] = None
  BY AloneFacts DEF LoopOf, OnChunk
<1>3. c \in Stored /\ ~visible
  BY <1>2, LoopFacts, RunsInvFacts DEF CountersOf, Index, visible
<1>4. StageOf(c) = "questioned" /\ StageOf(c)' = "complete"
  BY <1>1, <1>2, <1>3 DEF StageOf, Stored
<1>5. stages' = [stages EXCEPT ![c] = "complete"]
  BY <1>1, <1>4, StageCases, OneStageMoves
<1>6. Lifecycle!Promote(c, "questioned", "complete")
  BY <1>1, <1>3, <1>4, <1>5 DEF Lifecycle!Promote, stages, visible
<1>. QED
  BY <1>6 DEF Lifecycle!Next, Lifecycle!Index, Index

(* A write, whether or not the run hears that it succeeded.                *)
LEMMA WriteStep ==
    ASSUME RunsInv, AloneInv, NEW p \in Procs, Write(p)
    PROVE  [Lifecycle!Next]_(Lifecycle!vars)
<1>1. CASE pc[p] = "upsert" /\ \E f \in BOOLEAN : UpsertBook(f)
  BY <1>1, SameContentStep DEF UpsertBook
<1>2. CASE pc[p] = "saveGroup" /\ SaveChunk(cur[p], Progress(p).text, None)
  BY <1>2, RunsInvFacts, GroupStep DEF Progress
<1>3. CASE /\ pc[p] = "saveQuestions"
           /\ SaveChunk(cur[p], Progress(p).text, Progress(p).text)
  BY <1>3, RunsInvFacts, QuestionsStep DEF Progress, OnChunk
<1>4. CASE pc[p] = "saveBreakdown" /\ SaveBreakdown(cur[p], Progress(p).text)
  BY <1>4, RunsInvFacts, BreakdownStep DEF Progress, OnChunk
<1>. QED
  BY <1>1, <1>2, <1>3, <1>4 DEF Write

LEMMA LifecycleStep ==
    ASSUME RunsInv, AloneInv, [Next]_vars
    PROVE  [Lifecycle!Next]_(Lifecycle!vars)
<1>1. CASE UNCHANGED storeVars
  BY <1>1, SameContentStep DEF storeVars, contentVars
<1>2. ASSUME NEW p \in Procs, Run(p), ~ UNCHANGED storeVars
      PROVE  Write(p)
  BY <1>2 DEF Run, Start, SaveBook, ResumeStoredChunks, NothingToResume, PrepareBook,
     PrepareBookFails, GroupWindow, SaveGroupedChunk, GroupingDone, SkipComplete,
     GenerateQuestions, GenerateQuestionsFails, GenerateBreakdown,
     GenerateBreakdownFails, GiveUpOnChunk, SaveQuestions, SaveChunkBreakdown, Finish,
     Kill, StoreCallFails, Write, Progress
<1>3. CASE Publish
  <2>1. UNCHANGED contentVars /\ status = "processing"
    BY <1>3 DEF Publish, MarkPublished, contentVars
  <2>2. \A i \in Stored : Complete(i)
    BY <1>3, AloneFacts DEF Publish
  <2>. QED
    BY <2>1, <2>2, SameContentStep
<1>. QED
  BY <1>1, <1>2, <1>3, WriteStep DEF Next, vars

-----------------------------------------------------------------------------
(* Whatever is killed, fails or is run again, the tables evolve as         *)
(* BookLifecycle allows.                                                   *)
THEOREM ProcessImplementsLifecycle ==
    ASSUME Alone
    PROVE  Spec => ImplementsLifecycle
<1>1. RunsInv /\ AloneInv /\ [Next]_vars => [Lifecycle!Next]_(Lifecycle!vars)
  BY LifecycleStep
<1>. QED
  BY <1>1, LifecycleInit, RunsInvariant, AloneInvariant, PTL
     DEF Spec, ImplementsLifecycle, Lifecycle!Spec
=============================================================================
