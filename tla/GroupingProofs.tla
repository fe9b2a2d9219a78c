--------------------------- MODULE GroupingProofs ---------------------------
(***************************************************************************)
(* What TLAPS proves of Grouping for every book, every limit, every set of *)
(* replies and every number of retries: what BookProcess assumes of the    *)
(* windows and of their groupings (WindowAssumption, GroupingAssumption).  *)
(***************************************************************************)
EXTENDS GroupingInvariants, WellFoundedInduction, TLAPS

USE SizeAssumption, LimitAssumption

AnyRun == [first : Int, last : Int]

(* A run that begins where the list ends makes a longer list.              *)
LEMMA ExtendCovers ==
    ASSUME NEW g \in Seq(AnyRun), NEW a \in Int, NEW b \in Int, NEW lo \in Int,
           Covers(g, lo, a - 1), a <= b
    PROVE  /\ Append(g, Span(a, b)) # <<>>
           /\ IsPartition(Append(g, Span(a, b)), lo, b)
<1> DEFINE r == Span(a, b)
           h == Append(g, r)
           L == Len(g)
<1>1. r \in AnyRun /\ r.first = a /\ r.last = b
  BY DEF Span, AnyRun
<1> HIDE DEF r
<1>2. /\ Len(h) = L + 1 /\ L \in Nat /\ h # <<>>
      /\ \A k \in 1..L : h[k] = g[k] /\ g[k] \in AnyRun
      /\ h[L + 1] = r
  BY <1>1
<1> HIDE DEF h
<1>3. ASSUME g = <<>> PROVE IsPartition(h, lo, b)
  <2>1. L = 0 /\ a = lo /\ h[1] = r /\ Len(h) = 1
    BY <1>2, <1>3 DEF Covers
  <2>2. \A k \in 1..Len(h) : k = 1
    BY <2>1
  <2>. QED
    BY <1>1, <2>1, <2>2 DEF IsPartition
<1>4. ASSUME g # <<>> PROVE IsPartition(h, lo, b)
  <2>1. L > 0 /\ IsPartition(g, lo, a - 1)
    BY <1>4 DEF Covers
  <2>2. g[L].last = a - 1 /\ g[L].first <= g[L].last /\ g[L].first >= lo + L - 1
        /\ g[L].first \in Int
    BY <1>2, <2>1 DEF IsPartition, AnyRun
  <2>3. a >= lo + L
    BY <1>2, <2>2
  <2>4. ASSUME NEW k \in 1..Len(h)
        PROVE  /\ h[k].first <= h[k].last
               /\ h[k].first >= lo + k - 1
               /\ k < Len(h) => h[k + 1].first = h[k].last + 1
    <3>1. CASE k = L + 1
      BY <1>1, <1>2, <2>3, <3>1
    <3>2. CASE k = L
      BY <1>1, <1>2, <2>1, <2>2, <3>2
    <3>3. CASE k < L
      <4>1. k \in 1..L /\ k + 1 \in 1..L
        BY <1>2, <3>3
      <4>. QED
        BY <1>2, <2>1, <3>3, <4>1 DEF IsPartition
    <3>. QED
      BY <1>2, <3>1, <3>2, <3>3
  <2>5. h[1].first = lo /\ h[Len(h)].last = b /\ Len(h) > 0
    BY <1>1, <1>2, <2>1 DEF IsPartition
  <2>. QED
    BY <1>2, <2>4, <2>5 DEF IsPartition
<1>. QED
  BY <1>2, <1>3, <1>4 DEF h, r

LEMMA TypeFacts ==
    ASSUME TypeOK
    PROVE  /\ total \in [0..N -> Nat]
           /\ \A i \in 1..N : total[i - 1] <= total[i]
           /\ start \in 1..(N + 1) /\ next \in 1..(N + 1) /\ start <= next
           /\ chars \in Nat /\ ci \in Nat \ {0} /\ want \in Nat /\ calls \in Nat
           /\ attempt \in 0..MaxRetries
           /\ Len(windows) \in Nat /\ Len(groupings) \in Nat /\ Len(cuts) \in Nat
           /\ Len(reply) \in Nat
           /\ \A k \in 1..Len(windows) : windows[k] \in Run
           /\ \A k \in 1..Len(cuts) : cuts[k] \in Run
           /\ \A k \in 1..Len(reply) : reply[k] \in Group
<1>1. /\ total \in [0..N -> Nat]
      /\ \A i \in 1..N : total[i - 1] <= total[i]
  BY TotalsAssumption DEF TypeOK
<1>2. /\ start \in 1..(N + 1) /\ next \in 1..(N + 1) /\ start <= next
      /\ chars \in Nat /\ want \in Nat /\ calls \in Nat
      /\ attempt \in 0..MaxRetries
  BY DEF TypeOK
<1>3. windows \in Seq(Run) /\ groupings \in Seq(Seq(Run)) /\ cuts \in Seq(Run)
      /\ reply \in Seq(Group) /\ ci \in 1..(Len(reply) + 1)
  BY DEF TypeOK
<1>4. /\ Len(windows) \in Nat /\ Len(groupings) \in Nat /\ Len(cuts) \in Nat
      /\ Len(reply) \in Nat
  BY <1>3
<1>5. ci \in Nat \ {0}
  BY <1>3, <1>4
<1>6. /\ \A k \in 1..Len(windows) : windows[k] \in Run
      /\ \A k \in 1..Len(cuts) : cuts[k] \in Run
  BY <1>3
<1>7. \A k \in 1..Len(reply) : reply[k] \in Group
  BY <1>3
<1>. QED
  BY ONLY <1>1, <1>2, <1>4, <1>5, <1>6, <1>7

(* The window in hand is one of the book.                                  *)
LEMMA WindowFacts ==
    ASSUME GroupingInv, stage \in {"call", "validate", "greedy"}, Pending
    PROVE  /\ Window \in Run
           /\ Window.first \in 1..N /\ Window.last \in 1..N
           /\ Window.first <= Window.last
           /\ N > 0
<1>1. Len(groupings) + 1 \in 1..Len(windows)
  BY TypeFacts DEF GroupingInv, Pending
<1>2. Window \in Run
  BY <1>1, TypeFacts DEF GroupingInv, Window
<1>3. N # 0
  BY <1>2 DEF Run
<1>4. IsPartition(windows, 1, N)
  BY <1>3 DEF GroupingInv, WindowsInv
<1>. QED
  BY <1>1, <1>2, <1>3, <1>4 DEF IsPartition, Window, Run

LEMMA LoopBounds ==
    ASSUME GroupingInv, Cutting, stage = "greedy" \/ N > 0
    PROVE  Lo \in 1..N /\ Hi \in 1..N /\ Lo <= Hi
BY WindowFacts, TypeFacts DEF GroupingInv, GroupingsInv, Cutting, Lo, Hi

(* The last flush completes the cut of Lo..next-1.                         *)
LEMMA FlushFacts ==
    ASSUME GroupingInv, Cutting, start < next
    PROVE  /\ Flushed = Append(cuts, Span(start, next - 1))
           /\ Flushed \in Seq(Run) /\ Flushed # <<>>
           /\ IsPartition(Flushed, Lo, next - 1)
           /\ \A k \in 1..Len(Flushed) :
               Flushed[k].first < Flushed[k].last => RunChars(Flushed[k]) <= Limit
           /\ Len(Flushed) = Len(cuts) + 1
           /\ \A k \in 1..Len(cuts) : Flushed[k] = cuts[k]
           /\ Flushed[Len(cuts) + 1] = Span(start, next - 1)
<1> DEFINE r == Span(start, next - 1)
<1>1. /\ start \in 1..N /\ next \in Int /\ next - 1 \in 1..N /\ start <= next - 1 /\ N > 0
      /\ chars = total[next - 1] - total[start - 1]
  <2>1. start \in 1..(N + 1) /\ next \in 1..(N + 1)
    BY TypeFacts DEF GroupingInv
  <2>2. chars = total[next - 1] - total[start - 1]
    BY DEF GroupingInv, LoopInv
  <2>. QED
    BY <2>1, <2>2
<1>2. Lo \in 1..N /\ Lo <= start /\ Covers(cuts, Lo, start - 1) /\ cuts \in Seq(Run)
  BY <1>1, LoopBounds DEF GroupingInv, LoopInv, TypeOK
<1>3. Flushed = Append(cuts, r)
  BY DEF Flushed
<1>4. Append(cuts, r) # <<>> /\ IsPartition(Append(cuts, r), Lo, next - 1)
  <2>1. cuts \in Seq(AnyRun)
    <3>1. Run \subseteq AnyRun
      BY DEF Run, AnyRun
    <3>2. Len(cuts) \in Nat /\ cuts \in [1..Len(cuts) -> Run]
      BY <1>2
    <3>3. cuts \in [1..Len(cuts) -> AnyRun]
      BY <3>1, <3>2
    <3>. QED
      BY <3>2, <3>3
  <2>. QED
    BY <1>1, <1>2, <2>1, ExtendCovers
<1>5. r \in Run /\ r.first = start /\ r.last = next - 1
  BY <1>1 DEF Span, Run
<1> HIDE DEF r
<1>8. Append(cuts, r) \in Seq(Run)
  BY <1>2, <1>5
<1>6. /\ Len(Flushed) = Len(cuts) + 1 /\ Len(cuts) \in Nat
      /\ \A k \in 1..Len(cuts) : Flushed[k] = cuts[k]
      /\ Flushed[Len(cuts) + 1] = r
  BY <1>2, <1>3, <1>5
<1>7. ASSUME NEW k \in 1..Len(Flushed), Flushed[k].first < Flushed[k].last
      PROVE  RunChars(Flushed[k]) <= Limit
  <2>1. CASE k = Len(cuts) + 1
    <3>1. Flushed[k] = r /\ start < next - 1
      BY <1>5, <1>6, <1>7, <2>1
    <3>2. RunChars(Flushed[k]) = chars
      BY <1>1, <1>5, <3>1 DEF RunChars
    <3>3. chars <= Limit
      BY <1>1, <3>1 DEF GroupingInv, LoopInv
    <3>. QED
      BY <3>2, <3>3
  <2>2. CASE k \in 1..Len(cuts)
    BY <1>6, <1>7, <2>2 DEF GroupingInv, LoopInv
  <2>. QED
    BY <1>6, <2>1, <2>2
<1>. QED
  BY <1>3, <1>4, <1>6, <1>7, <1>8 DEF r

-----------------------------------------------------------------------------
(* The shared loop takes one more sentence.                                *)

LEMMA LoopFrame ==
    ASSUME GroupingInv, UNCHANGED <<total, stage, windows, groupings, replyVars, calls>>
    PROVE  /\ WindowsInv' /\ GroupingsInv' /\ ReplyInv' /\ CallsInv'
           /\ Lo' = Lo /\ Hi' = Hi /\ Limit' = Limit
           /\ Cutting' = Cutting
           /\ \A r : RunChars(r)' = RunChars(r)
<1>1. Window' = Window /\ Pending' = Pending
  BY DEF Window, Pending
<1>2. \A r : RunChars(r)' = RunChars(r)
  BY DEF RunChars
<1>3. WindowsAreFull'
  BY <1>2 DEF GroupingInv, WindowsInv, WindowsAreFull
<1>4. WindowsInv'
  BY <1>2, <1>3 DEF GroupingInv, WindowsInv
<1>5. GroupingsInv'
  BY <1>1 DEF GroupingInv, GroupingsInv, GroupingsCoverWindows
<1>6. BuiltTo(ci - 1)' = BuiltTo(ci - 1)
  BY DEF BuiltTo, replyVars
<1>7. ReplyInv'
  BY <1>1, <1>6 DEF GroupingInv, ReplyInv, replyVars, Covers
<1>8. CallsInv'
  BY <1>1 DEF GroupingInv, CallsInv, Spent, replyVars
<1>. QED
  BY <1>1, <1>2, <1>4, <1>5, <1>7, <1>8 DEF Lo, Hi, Limit, Cutting

LEMMA CharsAt ==
    ASSUME GroupingInv, next \in 1..N
    PROVE  /\ CharCount(next) \in Nat
           /\ total[next] = total[next - 1] + CharCount(next)
           /\ total[next] \in Nat /\ total[next - 1] \in Nat /\ total[start - 1] \in Nat
<1>1. total \in [0..N -> Nat] /\ total[next - 1] <= total[next]
      /\ start \in 1..(N + 1) /\ start <= next
  BY TypeFacts DEF GroupingInv
<1>. QED
  BY <1>1 DEF CharCount

LEMMA AddSentenceKeeps ==
    ASSUME GroupingInv, Cutting, AddSentence(Limit, Hi),
           UNCHANGED <<total, stage, windows, groupings, replyVars, calls>>
    PROVE  GroupingInv'
<1>1. /\ next <= Hi /\ next' = next + 1 /\ chars' = chars + CharCount(next)
      /\ cuts' = cuts /\ start' = start
      /\ start = next \/ chars + CharCount(next) <= Limit
  BY DEF AddSentence, Fits
<1>2. /\ start \in 1..(N + 1) /\ next \in 1..(N + 1) /\ start <= next /\ chars \in Nat
  BY TypeFacts DEF GroupingInv
<1>3. Hi \in 1..N /\ next \in 1..N /\ Lo \in 1..N /\ Lo <= start
      /\ total' = total
  <2>1. stage = "greedy" \/ N > 0
    BY <1>1, <1>2 DEF Cutting, Hi
  <2>. QED
    BY <1>1, <1>2, <2>1, LoopBounds DEF GroupingInv, LoopInv
<1>4. TypeOK'
  <2>1. start' \in 1..(N + 1) /\ next' \in start'..(N + 1)
    BY <1>1, <1>2, <1>3
  <2>2. chars' \in Nat
    BY <1>1, <1>2, <1>3, CharsAt
  <2>3. cuts' \in Seq(Run)
    BY <1>1 DEF GroupingInv, TypeOK
  <2>. QED
    BY <2>1, <2>2, <2>3 DEF GroupingInv, TypeOK, replyVars
<1>5. LoopInv'
  <2>1. Covers(cuts, Lo, start - 1)'
    BY <1>1, LoopFrame DEF GroupingInv, LoopInv, Covers
  <2>2. Lo' <= start' /\ next' <= Hi' + 1 /\ start' # next'
    <3>1. Lo' = Lo /\ Hi' = Hi
      BY LoopFrame
    <3>. QED
      BY <1>1, <1>2, <1>3, <3>1
  <2>3. chars' = total'[next' - 1] - total'[start' - 1]
    <3>1. chars = total[next - 1] - total[start - 1]
      BY DEF GroupingInv, LoopInv
    <3>. QED
      BY <1>1, <1>2, <1>3, <3>1, CharsAt
  <2>4. start' + 1 < next' => chars' <= Limit'
    BY <1>1, <1>2, LoopFrame
  <2>5. \A k \in 1..Len(cuts') :
          cuts'[k].first < cuts'[k].last
              => total'[cuts'[k].last] - total'[cuts'[k].first - 1] <= Limit'
    <3>1. \A k \in 1..Len(cuts) :
          cuts[k].first < cuts[k].last
              => total[cuts[k].last] - total[cuts[k].first - 1] <= Limit
      BY DEF GroupingInv, LoopInv, RunChars
    <3>2. Limit' = Limit
      BY LoopFrame
    <3>. QED
      BY <1>1, <1>3, <3>1, <3>2
  <2>. QED
    BY <2>1, <2>2, <2>3, <2>4, <2>5 DEF LoopInv, RunChars
<1>6. CutsAreFull'
  BY <1>1, LoopFrame DEF GroupingInv, CutsAreFull, RunChars
<1>. QED
  BY <1>4, <1>5, <1>6, LoopFrame DEF GroupingInv

LEMMA CutBeforeKeeps ==
    ASSUME GroupingInv, Cutting, CutBefore(Limit, Hi),
           UNCHANGED <<total, stage, windows, groupings, replyVars, calls>>
    PROVE  GroupingInv'
<1>1. /\ next <= Hi /\ next' = next + 1 /\ chars' = CharCount(next)
      /\ cuts' = Flushed /\ start' = next
      /\ start # next /\ ~(chars + CharCount(next) <= Limit)
  BY DEF CutBefore, Fits
<1>2. /\ start \in 1..(N + 1) /\ next \in 1..(N + 1) /\ start < next /\ chars \in Nat
  BY <1>1, TypeFacts DEF GroupingInv
<1>3. Hi \in 1..N /\ next \in 1..N /\ Lo \in 1..N /\ Lo <= start
      /\ total' = total
  <2>1. stage = "greedy" \/ N > 0
    BY <1>1, <1>2 DEF Cutting, Hi
  <2>. QED
    BY <1>1, <1>2, <2>1, LoopBounds DEF GroupingInv, LoopInv
<1>4. /\ Flushed \in Seq(Run) /\ Flushed # <<>>
      /\ IsPartition(Flushed, Lo, next - 1)
      /\ Len(Flushed) = Len(cuts) + 1 /\ Len(cuts) \in Nat
      /\ \A k \in 1..Len(cuts) : Flushed[k] = cuts[k]
      /\ Flushed[Len(cuts) + 1] = Span(start, next - 1)
  BY <1>2, FlushFacts, TypeFacts DEF GroupingInv
<1>5. TypeOK'
  <2>1. start' \in 1..(N + 1) /\ next' \in start'..(N + 1)
    BY <1>1, <1>2, <1>3
  <2>2. chars' \in Nat
    BY <1>1, <1>2, <1>3, CharsAt
  <2>3. cuts' \in Seq(Run)
    BY <1>1, <1>4
  <2>. QED
    BY <2>1, <2>2, <2>3 DEF GroupingInv, TypeOK, replyVars
<1>6. LoopInv'
  <2>1. Covers(cuts', Lo', start' - 1)
    BY <1>1, <1>4, LoopFrame DEF Covers
  <2>2. Lo' <= start' /\ next' <= Hi' + 1 /\ start' # next'
        /\ ~(start' + 1 < next')
    BY <1>1, <1>2, <1>3, LoopFrame
  <2>3. chars' = total'[next' - 1] - total'[start' - 1]
    BY <1>1, <1>2, <1>3, CharsAt
  <2>4. \A k \in 1..Len(cuts') :
          cuts'[k].first < cuts'[k].last
              => total'[cuts'[k].last] - total'[cuts'[k].first - 1] <= Limit'
    <3>1. \A k \in 1..Len(Flushed) :
          Flushed[k].first < Flushed[k].last
              => total[Flushed[k].last] - total[Flushed[k].first - 1] <= Limit
      BY <1>2, FlushFacts DEF RunChars
    <3>2. Limit' = Limit
      BY LoopFrame
    <3>. QED
      BY <1>1, <1>3, <3>1, <3>2
  <2>. QED
    BY <2>1, <2>2, <2>3, <2>4 DEF LoopInv, Covers, RunChars
<1>7. CutsAreFull'
  <2> SUFFICES ASSUME stage = "split", NEW k \in 1..Len(Flushed)
               PROVE  RunChars(Span(Flushed[k].first,
                          IF k = Len(Flushed) THEN next ELSE Flushed[k + 1].first))
                      > WindowLimit
    BY <1>1 DEF CutsAreFull, RunChars
  <2>1. CASE k = Len(cuts) + 1
    <3>1. RunChars(Span(start, next)) = chars + CharCount(next)
      <4>1. chars = total[next - 1] - total[start - 1]
        BY DEF GroupingInv, LoopInv
      <4>. QED
        BY <1>2, <1>3, <4>1, CharsAt DEF RunChars, Span
    <3>2. Limit = WindowLimit
      BY DEF Limit
    <3>. QED
      BY <1>1, <1>2, <1>3, <1>4, <2>1, <3>1, <3>2, CharsAt DEF Span
  <2>2. CASE k \in 1..Len(cuts)
    <3>1. RunChars(Span(cuts[k].first,
              IF k = Len(cuts) THEN start ELSE cuts[k + 1].first)) > WindowLimit
      BY <2>2 DEF GroupingInv, CutsAreFull
    <3>2. CASE k = Len(cuts)
      BY <1>4, <2>2, <3>1, <3>2 DEF Span
    <3>3. CASE k # Len(cuts)
      <4>1. k + 1 \in 1..Len(cuts) /\ k # Len(Flushed)
        BY <1>4, <2>2, <3>3
      <4>. QED
        BY <1>4, <2>2, <3>1, <3>3, <4>1
    <3>. QED
      BY <3>2, <3>3
  <2>. QED
    BY <1>4, <2>1, <2>2
<1>. QED
  BY <1>5, <1>6, <1>7, LoopFrame DEF GroupingInv

(* The budget of the windows already grouped is a number.                  *)
LEMMA BudgetFacts ==
    ASSUME TypeOK
    PROVE  /\ (MaxRetries + 1) * Len(groupings) \in Int
           /\ attempt \in Int /\ calls \in Nat /\ MaxRetries \in Nat
           /\ 0 <= attempt /\ attempt <= MaxRetries
<1>1. Len(groupings) \in Nat /\ attempt \in 0..MaxRetries /\ calls \in Nat
  BY TypeFacts
<1>2. MaxRetries + 1 \in Int
  OBVIOUS
<1>. QED
  BY <1>1, <1>2

LEMMA SentenceKeeps ==
    ASSUME GroupingInv, SplitSentence \/ GreedySentence
    PROVE  GroupingInv'
<1>1. CASE SplitSentence
  BY <1>1, AddSentenceKeeps, CutBeforeKeeps
  DEF SplitSentence, Sentence, Cutting, Limit, Hi
<1>2. CASE GreedySentence
  BY <1>2, AddSentenceKeeps, CutBeforeKeeps
  DEF GreedySentence, Sentence, Cutting, Limit, Hi
<1>. QED
  BY <1>1, <1>2

-----------------------------------------------------------------------------
(* The other steps.                                                        *)

LEMMA SplitDoneKeeps ==
    ASSUME GroupingInv, SplitDone
    PROVE  GroupingInv'
<1>1. /\ stage = "split" /\ next > N /\ windows' = Flushed /\ stage' = "call"
      /\ UNCHANGED <<total, groupings, attempt, reply, ci, want, cuts, start, next,
                     chars, calls>>
  BY DEF SplitDone, replyVars, loopVars
<1>2. /\ next = N + 1 /\ start \in 1..(N + 1) /\ start <= next /\ cuts \in Seq(Run)
      /\ Len(cuts) \in Nat
      /\ groupings = <<>>
      /\ start = next => next = 1
  BY <1>1, TypeFacts
  DEF GroupingInv, TypeOK, WindowsInv, LoopInv, Cutting, Lo
<1>3. ASSUME N = 0 PROVE windows' = <<>>
  <2>1. Flushed = cuts
    BY <1>2, <1>3 DEF Flushed
  <2>2. Len(cuts) = 0
    BY <1>2, <1>3 DEF Run
  <2>. QED
    BY <1>1, <1>2, <2>1, <2>2
<1>4. ASSUME N # 0
      PROVE  /\ Flushed \in Seq(Run) /\ IsPartition(Flushed, 1, N)
             /\ \A k \in 1..Len(Flushed) : Flushed[k].first < Flushed[k].last
                  => total[Flushed[k].last] - total[Flushed[k].first - 1] <= WindowLimit
             /\ \A k \in 1..(Len(Flushed) - 1) :
                  RunChars(Span(Flushed[k].first, Flushed[k + 1].first)) > WindowLimit
  <2>1. start < next /\ Cutting /\ Lo = 1 /\ Limit = WindowLimit
    BY <1>1, <1>2, <1>4 DEF Cutting, Lo, Limit
  <2>2. /\ Flushed \in Seq(Run) /\ IsPartition(Flushed, 1, N)
        /\ \A k \in 1..Len(Flushed) : Flushed[k].first < Flushed[k].last
             => total[Flushed[k].last] - total[Flushed[k].first - 1] <= WindowLimit
        /\ Len(Flushed) = Len(cuts) + 1
        /\ \A k \in 1..Len(cuts) : Flushed[k] = cuts[k]
        /\ Flushed[Len(cuts) + 1].first = start
    BY <1>2, <2>1, FlushFacts DEF RunChars, Span
  <2>3. ASSUME NEW k \in 1..(Len(Flushed) - 1)
        PROVE  RunChars(Span(Flushed[k].first, Flushed[k + 1].first)) > WindowLimit
    <3>1. k \in 1..Len(cuts)
      BY <1>2, <2>2
    <3>2. RunChars(Span(cuts[k].first, IF k = Len(cuts) THEN start ELSE cuts[k + 1].first))
            > WindowLimit
      BY <1>1, <3>1 DEF GroupingInv, CutsAreFull
    <3>3. CASE k = Len(cuts)
      BY <2>2, <3>1, <3>2, <3>3
    <3>4. CASE k # Len(cuts)
      <4>1. k + 1 \in 1..Len(cuts)
        BY <1>2, <3>1, <3>4
      <4>. QED
        BY <2>2, <3>1, <3>2, <3>4, <4>1
    <3>. QED
      BY <3>3, <3>4
  <2>. QED
    BY <2>2, <2>3
<1>5. windows' \in Seq(Run)
  <2>1. CASE N = 0
    BY <1>3, <2>1
  <2>2. CASE N # 0
    BY <1>1, <1>4, <2>2
  <2>. QED
    BY <2>1, <2>2
<1>6. TypeOK'
  BY <1>1, <1>5 DEF GroupingInv, TypeOK, Stages
<1>7. WindowsInv'
  <2>1. CASE N = 0
    BY <1>1, <1>3, <2>1 DEF WindowsInv, WindowsAreFull
  <2>2. CASE N # 0
    BY <1>1, <1>4, <2>2 DEF WindowsInv, WindowsAreFull, RunChars
  <2>. QED
    BY <2>1, <2>2
<1>8. GroupingsInv'
  <2>1. Len(windows') \in Nat /\ Len(groupings') = 0
    BY <1>1, <1>2, <1>5
  <2>. QED
    BY <1>1, <2>1 DEF GroupingsInv, GroupingsCoverWindows
<1>9. CallsInv'
  <2>1. ~Pending
    BY <1>1, <1>2 DEF GroupingInv, WindowsInv, Pending
  <2>2. attempt = 0
    BY <2>1, TypeFacts DEF GroupingInv, CallsInv
  <2>. QED
    BY <1>1, <2>2 DEF GroupingInv, CallsInv, Spent
<1>. QED
  BY <1>1, <1>6, <1>7, <1>8, <1>9
  DEF GroupingInv, LoopInv, CutsAreFull, ReplyInv, Cutting

(* A failed attempt: cnt is the number of requests after it.               *)
LEMMA FailKeeps ==
    ASSUME GroupingInv, stage \in {"call", "validate"}, Pending, FailAttempt,
           UNCHANGED <<total, windows, groupings, reply, ci, want>>,
           calls' \in Nat,
           calls' <= (MaxRetries + 1) * Len(groupings) + attempt + 1
    PROVE  GroupingInv'
<1>1. /\ Window' = Window /\ Pending'
      /\ Window.first \in 1..N /\ Window.last \in 1..N /\ Window.first <= Window.last
  BY WindowFacts DEF Window, Pending
<1>2. WindowsInv'
  BY DEF GroupingInv, WindowsInv, WindowsAreFull, RunChars, FailAttempt, StartGreedy
<1>3. GroupingsInv'
  BY <1>1 DEF GroupingInv, GroupingsInv, GroupingsCoverWindows
<1>4. CASE /\ attempt < MaxRetries /\ attempt' = attempt + 1
           /\ stage' = "call" /\ UNCHANGED loopVars
  <2>1. TypeOK'
    BY <1>4, TypeFacts DEF GroupingInv, TypeOK, Stages, loopVars
  <2>2. CallsInv'
    BY <1>1, <1>4, BudgetFacts DEF GroupingInv, CallsInv, Spent
  <2>. QED
    BY <1>2, <1>3, <1>4, <2>1, <2>2
    DEF GroupingInv, LoopInv, CutsAreFull, ReplyInv, Cutting
<1>5. CASE attempt = MaxRetries /\ StartGreedy /\ UNCHANGED attempt
  <2>1. /\ stage' = "greedy" /\ cuts' = <<>> /\ start' = Window.first
        /\ next' = Window.first /\ chars' = 0
    BY <1>5 DEF StartGreedy
  <2>2. TypeOK'
    <3>1. start' \in 1..(N + 1) /\ next' \in start'..(N + 1) /\ attempt' = attempt
      BY <1>1, <1>5, <2>1
    <3>2. cuts' \in Seq(Run) /\ chars' \in Nat /\ calls' \in Nat /\ stage' \in Stages
      BY <2>1 DEF Stages
    <3>. QED
      BY <3>1, <3>2 DEF GroupingInv, TypeOK
  <2>3. total[Window.first - 1] \in Nat
    <3>1. Window.first - 1 \in 0..N
      BY <1>1
    <3>2. total \in [0..N -> Nat]
      BY TypeFacts DEF GroupingInv
    <3>. QED
      BY <3>1, <3>2
  <2>4. LoopInv'
    BY <1>1, <2>1, <2>3 DEF LoopInv, Covers, Lo, Hi, Cutting
  <2>5. CallsInv'
    BY <1>1, <1>5, <2>1, TypeFacts DEF GroupingInv, CallsInv, Spent
  <2>. QED
    BY <1>2, <1>3, <2>1, <2>2, <2>4, <2>5 DEF GroupingInv, CutsAreFull, ReplyInv
<1>. QED
  BY <1>4, <1>5 DEF FailAttempt

LEMMA CallFailsKeeps ==
    ASSUME GroupingInv, CallFails
    PROVE  GroupingInv'
<1>1. /\ stage = "call" /\ Pending /\ calls' = calls + 1 /\ FailAttempt
      /\ UNCHANGED <<total, windows, groupings, reply, ci, want>>
  BY DEF CallFails, Asked
<1>2. calls' \in Nat /\ calls' <= (MaxRetries + 1) * Len(groupings) + attempt + 1
  <2> DEFINE budget == (MaxRetries + 1) * Len(groupings)
  <2>1. budget \in Int /\ attempt \in Int /\ calls \in Nat
    BY BudgetFacts DEF GroupingInv
  <2>2. calls <= budget + Spent
    BY DEF GroupingInv, CallsInv
  <2> HIDE DEF budget
  <2>3. calls' \in Nat /\ calls' <= budget + attempt + 1
    BY <1>1, <2>1, <2>2 DEF Spent
  <2>. QED
    BY <2>3 DEF budget
<1>. QED
  BY <1>1, <1>2, FailKeeps

LEMMA RejectKeeps ==
    ASSUME GroupingInv, Reject
    PROVE  GroupingInv'
<1>1. /\ stage = "validate" /\ calls' = calls /\ FailAttempt
      /\ UNCHANGED <<total, windows, groupings, reply, ci, want>>
  BY DEF Reject
<1>2. calls' \in Nat /\ calls' <= (MaxRetries + 1) * Len(groupings) + attempt + 1
  <2> DEFINE budget == (MaxRetries + 1) * Len(groupings)
  <2>1. budget \in Int /\ attempt \in Int /\ calls \in Nat
    BY BudgetFacts DEF GroupingInv
  <2>2. calls <= budget + Spent
    BY DEF GroupingInv, CallsInv
  <2> HIDE DEF budget
  <2>3. calls' \in Nat /\ calls' <= budget + attempt + 1
    BY <1>1, <2>1, <2>2 DEF Spent
  <2>. QED
    BY <2>3 DEF budget
<1>3. Pending
  BY <1>1 DEF GroupingInv, GroupingsInv
<1>. QED
  BY <1>1, <1>2, <1>3, FailKeeps

LEMMA CallKeeps ==
    ASSUME GroupingInv, Call
    PROVE  GroupingInv'
<1>1. /\ stage = "call" /\ Pending /\ calls' = calls + 1 /\ reply' \in Replies
      /\ ci' = 1 /\ want' = Window.first /\ stage' = "validate"
      /\ UNCHANGED <<total, windows, groupings, attempt, cuts, start, next, chars>>
  BY DEF Call, Asked, loopVars
<1>2. Window' = Window /\ Pending' /\ Window.first \in 1..N
  BY <1>1, WindowFacts DEF Window, Pending
<1>3. reply' \in Seq(Group)
  BY <1>1, RepliesAssumption
<1>4. TypeOK'
  BY <1>1, <1>2, <1>3 DEF GroupingInv, TypeOK, Stages
<1>5. ReplyInv'
  <2>1. BuiltTo(ci - 1)' = <<>>
    BY <1>1 DEF BuiltTo
  <2>. QED
    BY <1>1, <1>2, <2>1 DEF ReplyInv, Covers
<1>6. WindowsInv'
  BY <1>1 DEF GroupingInv, WindowsInv, WindowsAreFull, RunChars
<1>7. GroupingsInv'
  BY <1>1, <1>2 DEF GroupingInv, GroupingsInv, GroupingsCoverWindows
<1>8. CallsInv'
  BY <1>1, <1>2, BudgetFacts DEF GroupingInv, CallsInv, Spent
<1>. QED
  BY <1>1, <1>4, <1>5, <1>6, <1>7, <1>8
  DEF GroupingInv, LoopInv, CutsAreFull, Cutting

LEMMA ValidateGroupKeeps ==
    ASSUME GroupingInv, ValidateGroup
    PROVE  GroupingInv'
<1> DEFINE ss == reply[ci].sentences
           b == want + Len(ss) - 1
<1>1. /\ stage = "validate" /\ ci <= Len(reply)
      /\ want' = want + Len(ss) /\ ci' = ci + 1
      /\ Len(ss) > 0 /\ \A k \in 1..Len(ss) : ss[k] = want + k - 1
      /\ UNCHANGED <<total, stage, windows, groupings, attempt, reply, cuts, start,
                     next, chars, calls>>
  BY DEF ValidateGroup, GroupIsNext, loopVars
<1>2. /\ ci \in 1..Len(reply) /\ want \in Nat /\ Len(reply) \in Nat
      /\ \A k \in 1..Len(reply) : reply[k].sentences \in Seq(Int)
  <2>1. ci \in Nat \ {0} /\ want \in Nat /\ Len(reply) \in Nat
    BY TypeFacts DEF GroupingInv
  <2>2. \A k \in 1..Len(reply) : reply[k] \in Group
    BY TypeFacts DEF GroupingInv
  <2>3. \A k \in 1..Len(reply) : reply[k].sentences \in Seq(Int)
    BY <2>2 DEF Group
  <2>. QED
    BY <1>1, <2>1, <2>3
<1>3. /\ Len(ss) \in Nat \ {0} /\ ss[1] = want /\ ss[Len(ss)] = b
      /\ b \in Int /\ want <= b /\ want' = b + 1
  <2>1. Len(ss) \in Nat
    BY <1>2
  <2>2. 1 \in 1..Len(ss) /\ Len(ss) \in 1..Len(ss)
    BY <1>1, <2>1
  <2>3. ss[1] = want + 1 - 1 /\ ss[Len(ss)] = want + Len(ss) - 1
    BY <1>1, <2>2
  <2> HIDE DEF ss
  <2>. QED
    BY <1>1, <1>2, <2>1, <2>3
<1>4. /\ Window' = Window /\ Pending' = Pending /\ Window.first \in Int
  BY <1>1, WindowFacts DEF Window, Pending, GroupingInv, GroupingsInv
<1>5. TypeOK'
  <2>1. ci' \in 1..(Len(reply') + 1) /\ want' \in Nat
    BY <1>1, <1>2, <1>3
  <2>. QED
    BY <1>1, <2>1 DEF GroupingInv, TypeOK
<1>6. ReplyInv'
  <2>1. /\ Covers(BuiltTo(ci - 1), Window.first, want - 1)
        /\ \A k \in 1..(ci - 1) :
            /\ Len(reply[k].sentences) > 0
            /\ reply[k].sentences[Len(reply[k].sentences)] < want
    BY <1>1 DEF GroupingInv, ReplyInv
  <2>2. BuiltTo(ci - 1) \in Seq(AnyRun) /\ Len(BuiltTo(ci - 1)) = ci - 1
    <3>1. \A k \in 1..(ci - 1) : k \in 1..Len(reply)
      BY <1>2
    <3>2. \A k \in 1..(ci - 1) :
            /\ reply[k].sentences[1] \in Int
            /\ reply[k].sentences[Len(reply[k].sentences)] \in Int
      BY <1>2, <2>1, <3>1
    <3>3. BuiltTo(ci - 1) \in [1..(ci - 1) -> AnyRun]
      BY <3>2 DEF BuiltTo, Span, AnyRun
    <3>. QED
      BY <1>2, <3>3
  <2>3. BuiltTo(ci) = Append(BuiltTo(ci - 1), Span(want, b))
    <3> DEFINE A == Append(BuiltTo(ci - 1), Span(want, b))
    <3>1. A = [k \in 1..ci |-> IF k = ci THEN Span(want, b) ELSE BuiltTo(ci - 1)[k]]
      <4>1. Span(want, b) \in AnyRun
        BY <1>2, <1>3 DEF Span, AnyRun
      <4>2. /\ A \in Seq(AnyRun) /\ Len(A) = ci
            /\ \A k \in 1..(ci - 1) : A[k] = BuiltTo(ci - 1)[k]
            /\ A[ci] = Span(want, b)
        BY <1>2, <2>2, <4>1
      <4>3. A = [k \in 1..ci |-> A[k]]
        <5> HIDE DEF A
        <5>1. A \in [1..Len(A) -> AnyRun]
          BY <4>2
        <5>2. A = [k \in 1..Len(A) |-> A[k]]
          BY <5>1
        <5>. QED
          BY <4>2, <5>2
      <4>4. \A k \in 1..ci : A[k] = IF k = ci THEN Span(want, b) ELSE BuiltTo(ci - 1)[k]
        BY <1>2, <4>2
      <4>. QED
        BY <4>3, <4>4
    <3>2. ASSUME NEW k \in 1..ci
          PROVE  (IF k = ci THEN Span(want, b) ELSE BuiltTo(ci - 1)[k])
                 = Span(reply[k].sentences[1],
                        reply[k].sentences[Len(reply[k].sentences)])
      <4>1. CASE k = ci
        BY <1>3, <4>1
      <4>2. CASE k # ci
        BY <1>2, <4>2 DEF BuiltTo
      <4>. QED
        BY <4>1, <4>2
    <3>3. A = [k \in 1..ci |-> Span(reply[k].sentences[1],
                                    reply[k].sentences[Len(reply[k].sentences)])]
      <4> HIDE DEF A
      <4>. QED
        BY <3>1, <3>2
    <3>. QED
      BY <3>3 DEF BuiltTo
  <2>4. /\ BuiltTo(ci) # <<>> /\ IsPartition(BuiltTo(ci), Window.first, b)
    <3>1. want \in Int /\ b \in Int /\ want <= b
      BY <1>2, <1>3
    <3>2. Covers(BuiltTo(ci - 1), Window.first, want - 1)
      BY <2>1
    <3> HIDE DEF b
    <3>3. /\ Append(BuiltTo(ci - 1), Span(want, b)) # <<>>
          /\ IsPartition(Append(BuiltTo(ci - 1), Span(want, b)), Window.first, b)
      BY ONLY <1>4, <2>2, <3>1, <3>2, ExtendCovers
    <3>. QED
      BY <2>3, <3>3
  <2>5. BuiltTo(ci - 1)' = BuiltTo(ci)
    BY <1>1, <1>2 DEF BuiltTo
  <2>6. Covers(BuiltTo(ci - 1), Window.first, want - 1)'
    BY <1>3, <1>4, <2>4, <2>5 DEF Covers
  <2>7. ASSUME NEW k \in 1..ci
        PROVE  /\ Len(reply[k].sentences) > 0
               /\ reply[k].sentences[Len(reply[k].sentences)] < want'
    <3>1. CASE k = ci
      BY <1>1, <1>3, <3>1
    <3>2. CASE k # ci
      <4>1. k \in 1..(ci - 1) /\ k \in 1..Len(reply)
        BY <1>2, <3>2
      <4>2. reply[k].sentences[Len(reply[k].sentences)] \in Int
        BY <1>2, <2>1, <4>1
      <4>. QED
        <5>1. /\ Len(reply[k].sentences) > 0
              /\ reply[k].sentences[Len(reply[k].sentences)] < want
          BY <2>1, <4>1
        <5>2. want \in Int /\ want' \in Int /\ want < want'
          BY <1>2, <1>3
        <5>. QED
          BY <4>2, <5>1, <5>2
    <3>. QED
      BY <3>1, <3>2
  <2>. QED
    BY <1>1, <1>2, <2>6, <2>7 DEF ReplyInv
<1>7. WindowsInv'
  BY <1>1 DEF GroupingInv, WindowsInv, WindowsAreFull, RunChars
<1>8. GroupingsInv'
  BY <1>1, <1>4 DEF GroupingInv, GroupingsInv, GroupingsCoverWindows
<1>9. CallsInv'
  BY <1>1, <1>4 DEF GroupingInv, CallsInv, Spent
<1>. QED
  BY <1>1, <1>5, <1>6, <1>7, <1>8, <1>9
  DEF GroupingInv, LoopInv, CutsAreFull, Cutting

(* The window is grouped: g is the reply, or the greedy cut.               *)
LEMMA ReturnKeeps ==
    ASSUME GroupingInv, stage \in {"validate", "greedy"},
           NEW g \in Seq(Run), IsPartition(g, Window.first, Window.last), Return(g),
           UNCHANGED <<total, windows, reply, ci, want, loopVars, calls>>
    PROVE  GroupingInv'
<1> DEFINE n == Len(groupings)
<1>1. /\ groupings' = Append(groupings, g) /\ attempt' = 0 /\ stage' = "call"
      /\ UNCHANGED <<total, windows, reply, ci, want, cuts, start, next, chars, calls>>
  BY DEF Return, loopVars
<1>2. /\ n \in Nat /\ Len(windows) \in Nat /\ n + 1 <= Len(windows)
      /\ groupings \in Seq(Seq(Run))
  BY TypeFacts DEF GroupingInv, GroupingsInv, Pending, TypeOK
<1>3. /\ groupings' \in Seq(Seq(Run)) /\ Len(groupings') = n + 1
      /\ groupings'[n + 1] = g
      /\ \A w \in 1..n : groupings'[w] = groupings[w]
  BY <1>1, <1>2
<1>4. TypeOK'
  BY <1>1, <1>3 DEF GroupingInv, TypeOK, Stages
<1>5. GroupingsInv'
  <2>1. ASSUME NEW w \in 1..(n + 1)
        PROVE  IsPartition(groupings'[w], windows[w].first, windows[w].last)
    <3>1. CASE w = n + 1
      BY <1>3, <3>1 DEF Window
    <3>2. CASE w \in 1..n
      BY <1>3, <3>2 DEF GroupingInv, GroupingsInv, GroupingsCoverWindows
    <3>. QED
      BY <1>2, <3>1, <3>2
  <2>. QED
    BY <1>1, <1>2, <1>3, <2>1 DEF GroupingsInv, GroupingsCoverWindows
<1>6. WindowsInv'
  BY <1>1 DEF GroupingInv, WindowsInv, WindowsAreFull, RunChars
<1>7. CallsInv'
  <2>1. calls <= (MaxRetries + 1) * n + (MaxRetries + 1)
    BY BudgetFacts DEF GroupingInv, CallsInv, Spent
  <2>2. (MaxRetries + 1) * (n + 1) = (MaxRetries + 1) * n + (MaxRetries + 1)
    BY <1>2
  <2>. QED
    BY <1>1, <1>3, <2>1, <2>2, BudgetFacts DEF GroupingInv, CallsInv, Spent
<1>. QED
  BY <1>1, <1>4, <1>5, <1>6, <1>7
  DEF GroupingInv, LoopInv, CutsAreFull, ReplyInv, Cutting

LEMMA AcceptKeeps ==
    ASSUME GroupingInv, Accept
    PROVE  GroupingInv'
<1>1. /\ stage = "validate" /\ ci = Len(reply) + 1 /\ want = Window.last + 1
      /\ Return(Built)
      /\ UNCHANGED <<total, windows, reply, ci, want, loopVars, calls>>
  <2>1. ci \in 1..(Len(reply) + 1) /\ Len(reply) \in Nat
    BY TypeFacts DEF GroupingInv, TypeOK
  <2>. QED
    BY <2>1 DEF Accept, CoversWindow
<1>2. /\ Window.first \in 1..N /\ Window.last \in 1..N /\ Window.first <= Window.last
      /\ Len(reply) \in Nat
  BY <1>1, WindowFacts, TypeFacts DEF GroupingInv, GroupingsInv
<1>3. Built = BuiltTo(ci - 1) /\ ci - 1 = Len(reply)
  BY <1>1, <1>2 DEF Built, BuiltTo
<1>4. /\ IsPartition(Built, Window.first, Window.last)
      /\ \A k \in 1..Len(reply) :
            /\ Len(reply[k].sentences) > 0
            /\ reply[k].sentences[Len(reply[k].sentences)] <= Window.last
  <2>1. Covers(Built, Window.first, Window.last)
    BY <1>1, <1>2, <1>3 DEF GroupingInv, ReplyInv
  <2>2. Built # <<>>
    BY <1>2, <2>1 DEF Covers
  <2>3. ASSUME NEW k \in 1..Len(reply)
        PROVE  /\ Len(reply[k].sentences) > 0
               /\ reply[k].sentences[Len(reply[k].sentences)] <= Window.last
    <3>1. reply[k].sentences \in Seq(Int)
      BY TypeFacts DEF GroupingInv, Group
    <3>2. /\ Len(reply[k].sentences) > 0
          /\ reply[k].sentences[Len(reply[k].sentences)] < want
      BY <1>1, <1>3 DEF GroupingInv, ReplyInv
    <3>3. reply[k].sentences[Len(reply[k].sentences)] \in Int
      BY <3>1, <3>2
    <3>. QED
      BY <1>1, <1>2, <3>2, <3>3
  <2>. QED
    BY <2>1, <2>2, <2>3 DEF Covers
<1>5. Built \in Seq(Run)
  <2>1. ASSUME NEW k \in 1..Len(reply) PROVE Built[k] \in Run
    <3>1. reply[k].sentences \in Seq(Int)
      BY TypeFacts DEF GroupingInv, Group
    <3>2. /\ Built[k] = Span(reply[k].sentences[1],
                             reply[k].sentences[Len(reply[k].sentences)])
          /\ Len(Built) = Len(reply)
      BY <1>2 DEF Built
    <3>3. /\ Built[k].first \in Int /\ Built[k].last \in Int
          /\ Built[k].last <= Window.last
          /\ Built[k] = Span(Built[k].first, Built[k].last)
      BY <1>4, <3>1, <3>2 DEF Span
    <3>4. Built[k].first <= Built[k].last /\ Built[k].first >= Window.first + k - 1
      BY <1>4, <3>2 DEF IsPartition
    <3>5. Built[k].first \in 1..N /\ Built[k].last \in 1..N
      BY <1>2, <3>3, <3>4
    <3>. QED
      BY <3>3, <3>5 DEF Span, Run
  <2>2. Built \in [1..Len(reply) -> Run]
    BY <2>1 DEF Built
  <2>. QED
    BY <1>2, <2>2
<1>. QED
  BY <1>1, <1>4, <1>5, ReturnKeeps

LEMMA GreedyDoneKeeps ==
    ASSUME GroupingInv, GreedyDone
    PROVE  GroupingInv'
<1>1. /\ stage = "greedy" /\ next > Window.last /\ Return(Flushed)
      /\ UNCHANGED <<total, windows, reply, ci, want, loopVars, calls>>
  BY DEF GreedyDone
<1>2. /\ Window.first \in 1..N /\ Window.last \in 1..N /\ Window.first <= Window.last
      /\ Cutting /\ Lo = Window.first /\ Hi = Window.last
  BY <1>1, WindowFacts DEF GroupingInv, GroupingsInv, Cutting, Lo, Hi
<1>3. /\ next <= Hi + 1
      /\ start = next => next = Lo
      /\ start \in 1..(N + 1) /\ next \in 1..(N + 1) /\ start <= next
  BY <1>2, TypeFacts DEF GroupingInv, LoopInv
<1>4. next - 1 = Window.last /\ start < next
  BY <1>1, <1>2, <1>3
<1>5. Flushed \in Seq(Run) /\ IsPartition(Flushed, Window.first, Window.last)
  BY <1>2, <1>4, FlushFacts
<1>. QED
  BY <1>1, <1>5, ReturnKeeps

LEMMA AllGroupedKeeps ==
    ASSUME GroupingInv, AllGrouped
    PROVE  GroupingInv'
<1>1. /\ stage = "call" /\ ~Pending /\ stage' = "done"
      /\ UNCHANGED <<total, windows, groupings, attempt, reply, ci, want, cuts, start,
                     next, chars, calls>>
  BY DEF AllGrouped, replyVars, loopVars
<1>2. Pending' = Pending
  BY <1>1 DEF Pending
<1>3. TypeOK'
  BY <1>1 DEF GroupingInv, TypeOK, Stages
<1>4. WindowsInv'
  BY <1>1 DEF GroupingInv, WindowsInv, WindowsAreFull, RunChars
<1>5. GroupingsInv'
  BY <1>1 DEF GroupingInv, GroupingsInv, GroupingsCoverWindows
<1>6. CallsInv'
  BY <1>1, <1>2 DEF GroupingInv, CallsInv, Spent
<1>. QED
  BY <1>1, <1>3, <1>4, <1>5, <1>6
  DEF GroupingInv, LoopInv, CutsAreFull, ReplyInv, Cutting

LEMMA StutterKeeps ==
    ASSUME GroupingInv, UNCHANGED vars
    PROVE  GroupingInv'
<1>1. UNCHANGED <<total, stage, windows, groupings, attempt, reply, ci, want, cuts,
                  start, next, chars, calls>>
  BY DEF vars, replyVars, loopVars
<1>2. Window' = Window /\ Pending' = Pending /\ Limit' = Limit /\ Lo' = Lo /\ Hi' = Hi
  BY <1>1 DEF Window, Pending, Limit, Lo, Hi
<1>3. TypeOK' /\ WindowsInv' /\ GroupingsInv' /\ CallsInv'
  BY <1>1, <1>2 DEF GroupingInv, TypeOK, WindowsInv, WindowsAreFull, RunChars,
     GroupingsInv, GroupingsCoverWindows, CallsInv, Spent
<1>4. LoopInv' /\ CutsAreFull'
  BY <1>1, <1>2 DEF GroupingInv, LoopInv, CutsAreFull, Covers, Cutting, RunChars
<1>5. ReplyInv'
  BY <1>1, <1>2 DEF GroupingInv, ReplyInv, Covers, BuiltTo
<1>. QED
  BY <1>3, <1>4, <1>5 DEF GroupingInv

LEMMA InitHolds ==
    ASSUME Init
    PROVE  GroupingInv
<1>1. total \in [0..N -> Nat] /\ total[0] \in Nat
  BY TotalsAssumption DEF Init
<1>2. TypeOK
  BY DEF Init, TypeOK, Stages
<1>3. LoopInv /\ CutsAreFull
  BY <1>1 DEF Init, LoopInv, CutsAreFull, Covers, Cutting, Lo, Hi
<1>4. WindowsInv /\ GroupingsInv /\ ReplyInv
  BY DEF Init, WindowsInv, WindowsAreFull, GroupingsInv, GroupingsCoverWindows, ReplyInv
<1>5. CallsInv
  BY DEF Init, CallsInv, Spent
<1>. QED
  BY <1>2, <1>3, <1>4, <1>5 DEF GroupingInv

-----------------------------------------------------------------------------

(* The loops keep GroupingInv, whatever the model replies.                 *)
THEOREM GroupingInvariant == Spec => []GroupingInv
<1>1. Init => GroupingInv
  BY InitHolds
<1>2. GroupingInv /\ [Next]_vars => GroupingInv'
  BY SentenceKeeps, SplitDoneKeeps, CallKeeps, CallFailsKeeps, ValidateGroupKeeps,
     AcceptKeeps, RejectKeeps, GreedyDoneKeeps, AllGroupedKeeps, StutterKeeps
  DEF Next
<1>. QED
  BY <1>1, <1>2, PTL DEF Spec

(* Every run of sentences lies in the book and every counter is in its     *)
(* range: the slices the loops take are never out of bounds.               *)
THEOREM GroupingTypeCorrect == Spec => []TypeOK
<1>1. GroupingInv => TypeOK
  BY DEF GroupingInv
<1>. QED
  BY <1>1, GroupingInvariant, PTL

(* SplitIntoWindows neither loses nor repeats nor reorders a sentence.     *)
THEOREM WindowsArePartition == Spec => []WindowsCoverBook
<1>1. GroupingInv => WindowsCoverBook
  BY DEF GroupingInv, WindowsInv, WindowsCoverBook
<1>. QED
  BY <1>1, GroupingInvariant, PTL

(* GroupSentencesIntoChunks returns a partition of its window, whatever    *)
(* the model replies: what cmd/process turns into rows unseen.             *)
THEOREM GroupingsArePartitions == Spec => []GroupingsCoverWindows
<1>1. GroupingInv => GroupingsCoverWindows
  BY DEF GroupingInv, GroupingsInv
<1>. QED
  BY <1>1, GroupingInvariant, PTL

(* From the book to its chunks no sentence is lost, repeated or moved.     *)
THEOREM NothingIsLost == Spec => []NothingLost
<1>1. WindowsCoverBook /\ GroupingsCoverWindows => NothingLost
  BY DEF NothingLost
<1>. QED
  BY <1>1, WindowsArePartition, GroupingsArePartitions, PTL

(* Only a single sentence is ever over the limit of its run.               *)
THEOREM LimitIsKept == Spec => []LimitKept
<1>1. ASSUME GroupingInv PROVE LimitKept
  <2>1. ASSUME stage \in {"split", "greedy"}, NEW k \in 1..Len(Flushed),
               Flushed[k].first < Flushed[k].last
        PROVE  RunChars(Flushed[k]) <= Limit
    <3>1. Cutting /\ start <= next
      BY <1>1, <2>1, TypeFacts DEF GroupingInv, Cutting
    <3>2. CASE start < next
      BY <1>1, <2>1, <3>1, <3>2, FlushFacts
    <3>3. CASE ~(start < next)
      BY <1>1, <2>1, <3>1, <3>3 DEF GroupingInv, LoopInv, Flushed
    <3>. QED
      BY <3>2, <3>3
  <2>. QED
    BY <1>1, <2>1 DEF GroupingInv, WindowsInv, LimitKept
<1>. QED
  BY <1>1, GroupingInvariant, PTL

(* SplitIntoWindows closes a window only when the next sentence would not  *)
(* fit: it never pays for more requests than the limit asks for.           *)
THEOREM WindowsAreFullAlways == Spec => []WindowsAreFull
<1>1. GroupingInv => WindowsAreFull
  BY DEF GroupingInv, WindowsInv
<1>. QED
  BY <1>1, GroupingInvariant, PTL

(* Windows and greedy chunks are neither too large nor needlessly small.   *)
THEOREM SizesAreKept == Spec => []SizesKept
<1>1. LimitKept /\ WindowsAreFull => SizesKept
  BY DEF SizesKept
<1>. QED
  BY <1>1, LimitIsKept, WindowsAreFullAlways, PTL

(* A book costs at most 1 + MaxRetries requests for each of its windows.   *)
THEOREM CallsAreBounded == Spec => []CallsBounded
<1>1. ASSUME GroupingInv PROVE CallsBounded
  <2> DEFINE c == MaxRetries + 1
             n == Len(groupings)
             m == Len(windows)
  <2>1. /\ n \in Nat /\ m \in Nat /\ n <= m /\ c \in Nat
        /\ calls <= c * n + Spent
        /\ c * n \in Int /\ calls \in Nat /\ attempt \in 0..MaxRetries
    BY <1>1, TypeFacts, BudgetFacts DEF GroupingInv, GroupingsInv, CallsInv
  <2>2. CASE Pending
    <3>1. n + 1 <= m /\ Spent <= c /\ Spent \in Int
      BY <2>1, <2>2 DEF Pending, Spent
    <3>2. c * (n + 1) = c * n + c /\ c * (n + 1) \in Int
      BY <2>1
    <3>3. c * m = c * (n + 1) + c * (m - (n + 1)) /\ c * (m - (n + 1)) >= 0
      BY <2>1, <3>1
    <3>. QED
      BY <2>1, <3>1, <3>2, <3>3 DEF CallsBounded
  <2>3. CASE ~Pending
    <3>1. n = m /\ attempt = 0 /\ Spent = 0
      BY <1>1, <2>1, <2>3 DEF GroupingInv, GroupingsInv, CallsInv, Pending, Spent
    <3>. QED
      BY <2>1, <3>1 DEF CallsBounded
  <2>. QED
    BY <2>2, <2>3
<1>. QED
  BY <1>1, GroupingInvariant, PTL

-----------------------------------------------------------------------------
(* The validator.                                                          *)

(* The library's theorem on the order of the naturals, for sets: the least *)
(* counterexample is how TLAPS does an induction here.                     *)
LEMMA Least ==
    ASSUME NEW S \in SUBSET Nat, S # {}
    PROVE  \E n \in S : \A m \in S : n <= m
<1> PICK less : less = OpToRel(<, Nat)
  OBVIOUS
<1>1. IsWellFoundedOn(less, Nat)
  BY NatLessThanWellFounded
<1>2. PICK n \in S : \A m \in S : ~ (<<m, n>> \in less)
  BY <1>1, WFMin
<1>3. \A a, b \in Nat : b < a => <<b, a>> \in less
  BY DEF OpToRel
<1>4. \A a, b \in Nat : a <= b \/ b < a
  BY ONLY SMT
<1>. QED
  BY <1>2, <1>3, <1>4

(* A reply's sentences, by group.                                          *)
LEMMA PlacesByGroup ==
    ASSUME NEW r
    PROVE  /\ \A x \in Places(r) : \E k \in 1..Len(r) : \E j \in 1..Len(r[k].sentences) :
                x = <<k, j>>
           /\ \A k \in 1..Len(r) : \A j \in 1..Len(r[k].sentences) : <<k, j>> \in Places(r)
BY DEF Places

LEMMA PlaceAt ==
    ASSUME NEW r, NEW k, NEW j, NEW m, NEW l
    PROVE  /\ At(r, <<k, j>>) = r[k].sentences[j]
           /\ ListedBefore(<<k, j>>, <<m, l>>) <=> k < m \/ (k = m /\ j < l)
BY DEF At, ListedBefore

LEMMA GroupingIsAllGroups ==
    ASSUME NEW r \in Seq(Group), NEW lo, NEW hi
    PROVE  IsGroupingOf(r, lo, hi) <=> FirstGroups(r, Len(r), lo, hi)
<1>1. \A k \in 1..Len(r) : r[k].sentences \in Seq(Int)
  <2>1. \A k \in 1..Len(r) : r[k] \in Group
    OBVIOUS
  <2>. QED
    BY <2>1 DEF Group
<1>2. \A k \in 1..Len(r) : r[k].sentences # <<>> <=> Len(r[k].sentences) > 0
  BY <1>1
<1>3. ASSUME IsGroupingOf(r, lo, hi) PROVE FirstGroups(r, Len(r), lo, hi)
  <2>1. \A k \in 1..Len(r) : \A j \in 1..Len(r[k].sentences) : r[k].sentences[j] \in lo..hi
    <3>1. ASSUME NEW k \in 1..Len(r), NEW j \in 1..Len(r[k].sentences)
          PROVE  r[k].sentences[j] \in lo..hi
      <4>1. <<k, j>> \in Places(r) /\ At(r, <<k, j>>) = r[k].sentences[j]
        BY PlacesByGroup, PlaceAt
      <4>. QED
        BY <1>3, <4>1 DEF IsGroupingOf
    <3>. QED
      BY <3>1
  <2>2. \A s \in lo..hi : \E k \in 1..Len(r) : \E j \in 1..Len(r[k].sentences) :
            r[k].sentences[j] = s
    <3>1. ASSUME NEW s \in lo..hi
          PROVE  \E k \in 1..Len(r) : \E j \in 1..Len(r[k].sentences) : r[k].sentences[j] = s
      <4>1. PICK x \in Places(r) : At(r, x) = s
        BY <1>3 DEF IsGroupingOf
      <4>2. PICK k \in 1..Len(r) : \E j \in 1..Len(r[k].sentences) : x = <<k, j>>
        BY PlacesByGroup
      <4>3. PICK j \in 1..Len(r[k].sentences) : x = <<k, j>>
        BY <4>2
      <4>. QED
        BY <4>1, <4>3, PlaceAt
    <3>. QED
      BY <3>1
  <2>3. ASSUME NEW k \in 1..Len(r), NEW m \in 1..Len(r),
               NEW j \in 1..Len(r[k].sentences), NEW l \in 1..Len(r[m].sentences),
               k < m \/ (k = m /\ j < l)
        PROVE  r[k].sentences[j] < r[m].sentences[l]
    <3>1. <<k, j>> \in Places(r) /\ <<m, l>> \in Places(r)
      BY PlacesByGroup
    <3>2. ListedBefore(<<k, j>>, <<m, l>>)
      BY <2>3, PlaceAt
    <3>3. At(r, <<k, j>>) < At(r, <<m, l>>)
      BY <1>3, <3>1, <3>2 DEF IsGroupingOf
    <3>. QED
      BY <3>3, PlaceAt
  <2>4. \A k \in 1..Len(r) : r[k].index = k - 1 /\ Len(r[k].sentences) > 0
    BY <1>2, <1>3 DEF IsGroupingOf
  <2>. QED
    BY <2>1, <2>2, <2>3, <2>4 DEF FirstGroups
<1>4. ASSUME FirstGroups(r, Len(r), lo, hi) PROVE IsGroupingOf(r, lo, hi)
  <2>1. ASSUME NEW x \in Places(r) PROVE At(r, x) \in lo..hi
    <3>1. PICK k \in 1..Len(r) : \E j \in 1..Len(r[k].sentences) : x = <<k, j>>
      BY PlacesByGroup
    <3>2. PICK j \in 1..Len(r[k].sentences) : x = <<k, j>>
      BY <3>1
    <3>. QED
      BY <1>4, <3>2, PlaceAt DEF FirstGroups
  <2>2. ASSUME NEW s \in lo..hi PROVE \E x \in Places(r) : At(r, x) = s
    <3>1. PICK k \in 1..Len(r) : \E j \in 1..Len(r[k].sentences) : r[k].sentences[j] = s
      BY <1>4 DEF FirstGroups
    <3>2. PICK j \in 1..Len(r[k].sentences) : r[k].sentences[j] = s
      BY <3>1
    <3>3. <<k, j>> \in Places(r) /\ At(r, <<k, j>>) = s
      BY <3>2, PlacesByGroup, PlaceAt
    <3>. QED
      BY <3>3
  <2>3. ASSUME NEW x \in Places(r), NEW y \in Places(r), ListedBefore(x, y)
        PROVE  At(r, x) < At(r, y)
    <3>1. PICK k \in 1..Len(r) : \E j \in 1..Len(r[k].sentences) : x = <<k, j>>
      BY PlacesByGroup
    <3>2. PICK j \in 1..Len(r[k].sentences) : x = <<k, j>>
      BY <3>1
    <3>3. PICK m \in 1..Len(r) : \E l \in 1..Len(r[m].sentences) : y = <<m, l>>
      BY PlacesByGroup
    <3>4. PICK l \in 1..Len(r[m].sentences) : y = <<m, l>>
      BY <3>3
    <3>5. k < m \/ (k = m /\ j < l)
      BY <2>3, <3>2, <3>4, PlaceAt
    <3>6. r[k].sentences[j] < r[m].sentences[l]
      BY <1>4, <3>5 DEF FirstGroups
    <3>. QED
      BY <3>2, <3>4, <3>6, PlaceAt
  <2>4. \A k \in 1..Len(r) : r[k].index = k - 1 /\ r[k].sentences # <<>>
    BY <1>2, <1>4 DEF FirstGroups
  <2>. QED
    BY <2>1, <2>2, <2>3, <2>4 DEF IsGroupingOf
<1>. QED
  BY <1>3, <1>4

(* A group that begins where the ones before it end, and skips nothing.    *)
LEMMA FirstGroupsGrow ==
    ASSUME NEW r, NEW n \in Nat, NEW lo \in Int, NEW want0 \in Int, lo <= want0,
           FirstGroups(r, n, lo, want0 - 1),
           r[n + 1].index = n,
           NEW len \in Nat, len = Len(r[n + 1].sentences), len > 0,
           \A k \in 1..len : r[n + 1].sentences[k] = want0 + k - 1
    PROVE  FirstGroups(r, n + 1, lo, want0 + len - 1)
<1>1. \A k \in 1..(n + 1) : k \in 1..n \/ k = n + 1
  OBVIOUS
<1>2. \A k \in 1..(n + 1) : r[k].index = k - 1 /\ Len(r[k].sentences) > 0
  <2>1. \A k \in 1..n : r[k].index = k - 1 /\ Len(r[k].sentences) > 0
    BY DEF FirstGroups
  <2>2. (n + 1) - 1 = n
    OBVIOUS
  <2>. QED
    BY <1>1, <2>1, <2>2
<1>3. \A k \in 1..n : \A j \in 1..Len(r[k].sentences) :
          r[k].sentences[j] \in lo..(want0 - 1)
  BY DEF FirstGroups
<1>4. \A j \in 1..len : want0 + j - 1 \in want0..(want0 + len - 1)
  OBVIOUS
<1>5. \A k \in 1..(n + 1) : \A j \in 1..Len(r[k].sentences) :
          r[k].sentences[j] \in lo..(want0 + len - 1)
  <2>1. ASSUME NEW k \in 1..n, NEW j \in 1..Len(r[k].sentences)
        PROVE  r[k].sentences[j] \in lo..(want0 + len - 1)
    BY <1>3
  <2>2. ASSUME NEW j \in 1..len PROVE r[n + 1].sentences[j] \in lo..(want0 + len - 1)
    OBVIOUS
  <2>. QED
    BY <1>1, <2>1, <2>2
<1>6. ASSUME NEW s \in lo..(want0 + len - 1)
      PROVE  \E k \in 1..(n + 1) : \E j \in 1..Len(r[k].sentences) : r[k].sentences[j] = s
  <2>1. CASE s < want0
    <3>1. s \in lo..(want0 - 1)
      BY <2>1
    <3>2. PICK k \in 1..n : \E j \in 1..Len(r[k].sentences) : r[k].sentences[j] = s
      BY <3>1 DEF FirstGroups
    <3>3. k \in 1..(n + 1)
      OBVIOUS
    <3>. QED
      BY <3>2, <3>3
  <2>2. CASE want0 <= s
    <3>1. (s - want0) + 1 \in 1..len /\ want0 + ((s - want0) + 1) - 1 = s
      BY <2>2
    <3>2. r[n + 1].sentences[(s - want0) + 1] = s
      BY <3>1
    <3>3. n + 1 \in 1..(n + 1)
      OBVIOUS
    <3>. QED
      BY <3>1, <3>2, <3>3
  <2>. QED
    BY <2>1, <2>2
<1>7. ASSUME NEW k \in 1..(n + 1), NEW m \in 1..(n + 1),
             NEW j \in 1..Len(r[k].sentences), NEW l \in 1..Len(r[m].sentences),
             k < m \/ (k = m /\ j < l)
      PROVE  r[k].sentences[j] < r[m].sentences[l]
  <2>1. CASE m \in 1..n
    <3>1. k \in 1..n
      BY <1>7, <2>1
    <3>. QED
      BY <1>7, <2>1, <3>1 DEF FirstGroups
  <2>2. CASE m = n + 1 /\ k \in 1..n
    <3>1. r[k].sentences[j] \in lo..(want0 - 1)
      BY <1>3, <2>2
    <3>2. l \in 1..len /\ r[m].sentences[l] = want0 + l - 1
      BY <2>2
    <3>. QED
      BY <3>1, <3>2
  <2>3. CASE m = n + 1 /\ k = n + 1
    <3>1. j \in 1..len /\ l \in 1..len /\ j < l
      BY <1>7, <2>3
    <3>2. r[k].sentences[j] = want0 + j - 1 /\ r[m].sentences[l] = want0 + l - 1
      BY <2>3, <3>1
    <3>. QED
      BY <3>1, <3>2
  <2>. QED
    BY <1>1, <2>1, <2>2, <2>3
<1>. QED
  BY <1>2, <1>5, <1>6, <1>7 DEF FirstGroups

(* In a grouping of the window, the group after those that end before      *)
(* want0 lists want0 and on: at the first sentence that differs, the one   *)
(* missing would have to come later, and be smaller.                       *)
LEMMA NextGroupIsForced ==
    ASSUME NEW r, NEW t \in Nat, NEW n \in 1..t, NEW lo \in Int, NEW hi \in Int,
           NEW want0 \in Int, lo <= want0,
           FirstGroups(r, n - 1, lo, want0 - 1), FirstGroups(r, t, lo, hi),
           NEW len \in Nat, len = Len(r[n].sentences)
    PROVE  \A k \in 1..len : r[n].sentences[k] = want0 + k - 1
<1>1. PICK listed : listed = [k \in 1..len |-> r[n].sentences[k]]
  OBVIOUS
<1>2. listed \in [1..len -> lo..hi] /\ \A k \in 1..len : listed[k] = r[n].sentences[k]
  BY <1>1 DEF FirstGroups
<1>3. ASSUME NEW b \in 1..len, \A k \in 1..(b - 1) : listed[k] = want0 + k - 1
      PROVE  listed[b] = want0 + b - 1
  <2>1. b \in Int /\ want0 \in Int /\ listed[b] \in lo..hi /\ listed[b] \in Int
    BY <1>2
  <2>2. want0 + b - 1 <= listed[b]
    <3>1. CASE b > 1
      <4>1. b - 1 \in 1..(b - 1) /\ b - 1 \in 1..len /\ b - 1 < b
        BY <3>1
      <4>2. listed[b - 1] < listed[b]
        BY <1>2, <4>1 DEF FirstGroups
      <4>3. listed[b - 1] = want0 + (b - 1) - 1
        BY <1>3, <4>1
      <4>. QED
        BY <2>1, <4>2, <4>3
    <3>2. CASE b = 1 /\ want0 = lo
      BY <2>1, <3>2
    <3>3. CASE b = 1 /\ want0 > lo
      <4>1. want0 - 1 \in lo..(want0 - 1)
        BY <3>3
      <4>2. PICK k \in 1..(n - 1) :
              \E j \in 1..Len(r[k].sentences) : r[k].sentences[j] = want0 - 1
        BY <4>1 DEF FirstGroups
      <4>3. PICK j \in 1..Len(r[k].sentences) : r[k].sentences[j] = want0 - 1
        BY <4>2
      <4>4. k \in 1..t /\ k < n
        OBVIOUS
      <4>5. r[k].sentences[j] < r[n].sentences[b]
        BY <4>4 DEF FirstGroups
      <4>6. want0 - 1 < listed[b]
        BY <1>2, <4>3, <4>5
      <4>. QED
        BY <2>1, <3>3, <4>6
    <3>. QED
      BY <2>1, <3>1, <3>2, <3>3
  <2>3. ASSUME want0 + b - 1 < listed[b] PROVE FALSE
    <3>1. want0 + b - 1 \in lo..hi
      BY <2>1, <2>3
    <3>2. PICK k \in 1..t : \E j \in 1..Len(r[k].sentences) : r[k].sentences[j] = want0 + b - 1
      BY <3>1 DEF FirstGroups
    <3>3. PICK j \in 1..Len(r[k].sentences) : r[k].sentences[j] = want0 + b - 1
      BY <3>2
    <3>4. CASE k < n
      <4>1. k \in 1..(n - 1)
        BY <3>4
      <4>2. want0 + b - 1 \in lo..(want0 - 1)
        BY <3>3, <4>1 DEF FirstGroups
      <4>. QED
        BY <2>1, <4>2
    <3>5. CASE k = n /\ j < b
      <4>1. j \in 1..(b - 1) /\ j \in 1..len
        BY <3>5
      <4>2. listed[j] = want0 + j - 1 /\ listed[j] = want0 + b - 1
        BY <1>2, <1>3, <3>3, <3>5, <4>1
      <4>. QED
        BY <2>1, <3>5, <4>1, <4>2
    <3>6. CASE k = n /\ j = b
      <4>1. listed[b] = want0 + b - 1
        BY <1>2, <3>3, <3>6
      <4>. QED
        BY <2>1, <2>3, <4>1
    <3>7. CASE n < k \/ (n = k /\ b < j)
      <4>1. r[n].sentences[b] < r[k].sentences[j]
        BY <3>7 DEF FirstGroups
      <4>2. listed[b] < want0 + b - 1
        BY <1>2, <3>3, <4>1
      <4>. QED
        BY <2>1, <2>3, <4>2
    <3>8. k \in Int /\ n \in Int /\ (k = n => j \in Int)
      OBVIOUS
    <3>. QED
      BY <2>1, <3>4, <3>5, <3>6, <3>7, <3>8
  <2>. QED
    BY <2>1, <2>2, <2>3
<1>4. ASSUME NEW bad \in 1..len, listed[bad] # want0 + bad - 1 PROVE FALSE
  <2>1. PICK Bad : Bad = {k \in 1..len : listed[k] # want0 + k - 1}
    OBVIOUS
  <2>2. Bad \in SUBSET Nat /\ Bad # {}
    BY <1>4, <2>1
  <2>3. PICK b \in Bad : \A k \in Bad : b <= k
    BY <2>2, Least
  <2>4. b \in 1..len /\ listed[b] # want0 + b - 1
    BY <2>1
  <2>5. \A k \in 1..(b - 1) : k \in 1..len /\ ~ (b <= k)
    BY <2>4
  <2>6. \A k \in 1..(b - 1) : listed[k] = want0 + k - 1
    BY <2>1, <2>3, <2>5
  <2>. QED
    BY <1>3, <2>4, <2>6
<1>. QED
  BY <1>2, <1>4

(* Two such lists end at the same sentence.                                *)
LEMMA GroupingEnds ==
    ASSUME NEW r, NEW t \in Nat, NEW lo \in Int, NEW hi \in Int, lo <= hi,
           NEW want0 \in Int, lo <= want0,
           FirstGroups(r, t, lo, want0 - 1), FirstGroups(r, t, lo, hi)
    PROVE  want0 = hi + 1
<1>1. hi \in lo..hi
  OBVIOUS
<1>2. hi \in lo..(want0 - 1)
  BY <1>1 DEF FirstGroups
<1>3. want0 - 1 \in lo..(want0 - 1)
  BY <1>2
<1>4. want0 - 1 \in lo..hi
  BY <1>3 DEF FirstGroups
<1>. QED
  BY <1>2, <1>4

LEMMA ValidateGroupValidated ==
    ASSUME GroupingInv, ValidatedInv, ValidateGroup
    PROVE  ValidatedInv'
<1> PICK len, n, lo : len = Len(reply[ci].sentences) /\ n = ci - 1 /\ lo = Window.first
  OBVIOUS
<1>1. /\ stage = "validate" /\ ci <= Len(reply)
      /\ want' = want + len /\ ci' = ci + 1
      /\ len > 0 /\ \A k \in 1..len : reply[ci].sentences[k] = want + k - 1
      /\ reply[ci].index = n
      /\ UNCHANGED <<stage, windows, groupings, reply>>
  BY DEF ValidateGroup, GroupIsNext
<1>2. /\ ci \in Nat \ {0} /\ want \in Nat /\ Len(reply) \in Nat
      /\ \A k \in 1..Len(reply) : reply[k] \in Group
  BY TypeFacts DEF GroupingInv
<1>3. Window' = Window /\ lo \in Int
  BY <1>1, WindowFacts DEF GroupingInv, GroupingsInv, Window
<1>4. len \in Nat /\ n \in Nat /\ n + 1 = ci
  <2>1. reply[ci] \in Group
    BY <1>1, <1>2
  <2>2. reply[ci].sentences \in Seq(Int)
    BY <2>1 DEF Group
  <2>. QED
    BY <1>2, <2>2
<1>5. lo <= want /\ FirstGroups(reply, n, lo, want - 1)
  BY <1>1 DEF ValidatedInv
<1>6. FirstGroups(reply, n + 1, lo, want + len - 1)
  <2> PICK r, w : r = reply /\ w = want
    OBVIOUS
  <2>1. /\ len = Len(r[n + 1].sentences) /\ r[n + 1].index = n
        /\ \A k \in 1..len : r[n + 1].sentences[k] = w + k - 1
    BY <1>1, <1>4
  <2>2. FirstGroups(r, n + 1, lo, w + len - 1)
    <3>1. n \in Nat /\ lo \in Int /\ w \in Int /\ len \in Nat
      BY <1>2, <1>3, <1>4
    <3>2. lo <= w /\ FirstGroups(r, n, lo, w - 1)
      BY <1>5
    <3>3. len > 0
      BY <1>1
    <3>. QED
      BY <2>1, <3>1, <3>2, <3>3, FirstGroupsGrow
  <2>. QED
    BY <2>2
<1>7. ci' - 1 = n + 1 /\ want' - 1 = want + len - 1 /\ lo <= want'
  BY <1>1, <1>2, <1>3, <1>4, <1>5
<1>. QED
  BY <1>1, <1>3, <1>6, <1>7 DEF ValidatedInv

LEMMA CallValidated ==
    ASSUME GroupingInv, Call
    PROVE  ValidatedInv'
<1>1. stage = "call" /\ Pending /\ ci' = 1 /\ want' = Window.first /\ stage' = "validate"
      /\ UNCHANGED <<windows, groupings>>
  BY DEF Call, Asked
<1>2. Window' = Window /\ Window.first \in Int
  BY <1>1, WindowFacts DEF Window
<1> PICK r, lo : r = reply' /\ lo = Window.first
  OBVIOUS
<1>3. FirstGroups(r, 0, lo, lo - 1)
  BY <1>2 DEF FirstGroups
<1>. QED
  BY <1>1, <1>2, <1>3 DEF ValidatedInv

LEMMA ValidatedStep ==
    ASSUME GroupingInv, ValidatedInv, [Next]_vars
    PROVE  ValidatedInv'
<1>1. CASE ValidateGroup
  BY <1>1, ValidateGroupValidated
<1>2. CASE Call
  BY <1>2, CallValidated
<1>3. CASE SplitSentence \/ SplitDone \/ CallFails \/ Accept \/ Reject \/ GreedySentence
           \/ GreedyDone \/ AllGrouped
  <2>1. stage' # "validate"
    BY <1>3 DEF SplitSentence, SplitDone, CallFails, Accept, Reject, GreedySentence,
       GreedyDone, AllGrouped, FailAttempt, StartGreedy, Return
  <2>. QED
    BY <2>1 DEF ValidatedInv
<1>4. CASE UNCHANGED vars
  BY <1>4 DEF vars, replyVars, ValidatedInv, Window
<1>. QED
  BY <1>1, <1>2, <1>3, <1>4 DEF Next

(* What was passed is the whole reply and reaches the window's end.        *)
LEMMA AcceptsGroupings ==
    ASSUME GroupingInv, ValidatedInv, Accept
    PROVE  /\ Len(groupings') > Len(groupings)
           /\ IsGroupingOf(reply, Window.first, Window.last)
<1>1. stage = "validate" /\ ci > Len(reply) /\ want = Window.last + 1
      /\ groupings' = Append(groupings, Built)
  BY DEF Accept, CoversWindow, Return
<1>2. /\ ci \in 1..(Len(reply) + 1) /\ Len(reply) \in Nat /\ reply \in Seq(Group)
      /\ Len(groupings) \in Nat /\ groupings \in Seq(Seq(Run))
  BY TypeFacts DEF GroupingInv, TypeOK
<1>3. ci - 1 = Len(reply)
  BY <1>1, <1>2
<1>4. Window.last \in Int
  BY <1>1, WindowFacts DEF GroupingInv, GroupingsInv
<1>5. want - 1 = Window.last
  BY <1>1, <1>4
<1>6. FirstGroups(reply, Len(reply), Window.first, Window.last)
  BY <1>1, <1>3, <1>5 DEF ValidatedInv
<1>7. Len(groupings') = Len(groupings) + 1
  BY <1>1, <1>2
<1>. QED
  BY <1>2, <1>6, <1>7, GroupingIsAllGroups

(* A group is refused only if no grouping of the window has it there, an   *)
(* end only if it is not the window's.                                     *)
LEMMA RejectsOthers ==
    ASSUME GroupingInv, ValidatedInv, Reject
    PROVE  /\ groupings' = groupings
           /\ ~IsGroupingOf(reply, Window.first, Window.last)
<1> PICK lo, hi, t : lo = Window.first /\ hi = Window.last /\ t = Len(reply)
  OBVIOUS
<1>1. stage = "validate" /\ groupings' = groupings
      /\ IF ci <= Len(reply) THEN ~GroupIsNext ELSE ~CoversWindow
  BY DEF Reject
<1>2. /\ ci \in 1..(t + 1) /\ t \in Nat /\ reply \in Seq(Group) /\ want \in Nat
      /\ \A k \in 1..t : reply[k] \in Group
  BY TypeFacts DEF GroupingInv, TypeOK
<1>3. lo \in Int /\ hi \in Int /\ lo <= hi
  BY <1>1, WindowFacts DEF GroupingInv, GroupingsInv
<1>4. lo <= want /\ FirstGroups(reply, ci - 1, lo, want - 1)
  BY <1>1 DEF ValidatedInv
<1>5. ASSUME FirstGroups(reply, t, lo, hi) PROVE FALSE
  <2>1. CASE ci <= t
    <3>1. ci \in 1..t /\ reply[ci] \in Group
      BY <1>2, <2>1
    <3>2. reply[ci].sentences \in Seq(Int)
      BY <3>1 DEF Group
    <3> PICK len \in Nat : len = Len(reply[ci].sentences)
      BY <3>2
    <3>3. \A k \in 1..len : reply[ci].sentences[k] = want + k - 1
      <4> PICK n, w : n = ci /\ w = want
        OBVIOUS
      <4>1. \A k \in 1..len : reply[n].sentences[k] = w + k - 1
        BY <1>2, <1>3, <1>4, <1>5, <3>1, NextGroupIsForced
      <4>. QED
        BY <4>1
    <3>4. reply[ci].index = ci - 1 /\ len > 0
      BY <1>5, <3>1 DEF FirstGroups
    <3>5. GroupIsNext
      BY <3>3, <3>4 DEF GroupIsNext
    <3>. QED
      BY <1>1, <2>1, <3>5
  <2>2. CASE ~ (ci <= t)
    <3>1. ci - 1 = t
      BY <1>2, <2>2
    <3>2. want = hi + 1
      <4> PICK w : w = want
        OBVIOUS
      <4>1. w = hi + 1
        BY <1>2, <1>3, <1>4, <1>5, <3>1, GroupingEnds
      <4>. QED
        BY <4>1
    <3>3. CoversWindow
      BY <3>2 DEF CoversWindow
    <3>. QED
      BY <1>1, <2>2, <3>3
  <2>. QED
    BY <2>1, <2>2
<1>6. ~IsGroupingOf(reply, lo, hi)
  BY <1>2, <1>5, GroupingIsAllGroups
<1>. QED
  BY <1>1, <1>6

(* ValidatePartition takes exactly the replies that are what its comment   *)
(* calls a partition of the window: index for index, nothing missing,      *)
(* repeated or out of order.                                               *)
THEOREM ValidatorIsExactAlways == Spec => ValidatorIsExact
<1> DEFINE Verdict == stage = "validate" /\ stage' # "validate" =>
        (Len(groupings') > Len(groupings)
            <=> IsGroupingOf(reply, Window.first, Window.last))
<1>1. GroupingInv /\ ValidatedInv /\ [Next]_vars => [Verdict]_vars
  <2> SUFFICES ASSUME GroupingInv, ValidatedInv, Next, stage = "validate", stage' # "validate"
               PROVE  Len(groupings') > Len(groupings)
                          <=> IsGroupingOf(reply, Window.first, Window.last)
    OBVIOUS
  <2>1. Accept \/ Reject
    BY DEF Next, SplitSentence, SplitDone, Call, CallFails, Asked, ValidateGroup,
       GreedySentence, GreedyDone, AllGrouped
  <2>2. CASE Accept
    BY <2>2, AcceptsGroupings
  <2>3. CASE Reject
    <3>1. Len(groupings) \in Nat
      BY TypeFacts DEF GroupingInv
    <3>. QED
      BY <2>3, <3>1, RejectsOthers
  <2>. QED
    BY <2>1, <2>2, <2>3
<1>2. GroupingInv /\ ValidatedInv /\ [Next]_vars => ValidatedInv'
  BY ValidatedStep
<1>3. Init => ValidatedInv
  BY DEF Init, ValidatedInv
<1>4. Spec => []ValidatedInv
  BY <1>2, <1>3, GroupingInvariant, PTL DEF Spec
<1>. QED
  BY <1>1, <1>4, GroupingInvariant, PTL DEF Spec, ValidatorIsExact
=============================================================================
