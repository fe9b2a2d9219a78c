------------------------- MODULE GroupingInvariants -------------------------
(***************************************************************************)
(* The inductive invariant of Grouping, one part per loop of the code.     *)
(***************************************************************************)
EXTENDS Grouping

(* The runs g cover lo..hi, or nothing yet.                                *)
Covers(g, lo, hi) == IF g = <<>> THEN hi = lo - 1 ELSE IsPartition(g, lo, hi)

Cutting == stage \in {"split", "greedy"}
Lo == IF stage = "greedy" THEN Window.first ELSE 1
Hi == IF stage = "greedy" THEN Window.last ELSE N

(* The loop has cut Lo..start-1 and holds start..next-1, within the limit  *)
(* or alone; it holds a sentence as soon as it has seen one.               *)
LoopInv == Cutting =>
    /\ Covers(cuts, Lo, start - 1)
    /\ Lo <= start /\ next <= Hi + 1
    /\ start = next => next = Lo
    /\ chars = total[next - 1] - total[start - 1]
    /\ start + 1 < next => chars <= Limit
    /\ \A k \in 1..Len(cuts) :
        cuts[k].first < cuts[k].last => RunChars(cuts[k]) <= Limit

(* Each run the loop has cut was full: with the first sentence of the run  *)
(* after it, it would have been over the limit.                            *)
CutsAreFull == stage = "split" => \A k \in 1..Len(cuts) :
    RunChars(Span(cuts[k].first, IF k = Len(cuts) THEN start ELSE cuts[k + 1].first))
        > WindowLimit

WindowsInv ==
    /\ stage = "split" => windows = <<>> /\ groupings = <<>>
    /\ stage # "split" => IF N = 0 THEN windows = <<>> ELSE IsPartition(windows, 1, N)
    /\ \A k \in 1..Len(windows) :
        windows[k].first < windows[k].last => RunChars(windows[k]) <= WindowLimit
    /\ WindowsAreFull

GroupingsInv ==
    /\ Len(groupings) <= Len(windows)
    /\ stage \in {"validate", "greedy"} => Pending
    /\ GroupingsCoverWindows

(* The groups validated so far cover the window up to want - 1.            *)
BuiltTo(n) == [k \in 1..n |->
    Span(reply[k].sentences[1], reply[k].sentences[Len(reply[k].sentences)])]
ReplyInv == stage = "validate" =>
    /\ Covers(BuiltTo(ci - 1), Window.first, want - 1)
    /\ \A k \in 1..(ci - 1) :
        /\ Len(reply[k].sentences) > 0
        /\ reply[k].sentences[Len(reply[k].sentences)] < want

Spent == IF stage = "greedy" THEN MaxRetries + 1
         ELSE IF stage = "validate" THEN attempt + 1 ELSE attempt
CallsInv ==
    /\ calls <= (MaxRetries + 1) * Len(groupings) + Spent
    /\ attempt > 0 => Pending

(* The first n groups of r list lo..hi, each sentence once and in order.   *)
FirstGroups(r, n, lo, hi) ==
    /\ \A k \in 1..n : r[k].index = k - 1 /\ Len(r[k].sentences) > 0
    /\ \A k \in 1..n : \A j \in 1..Len(r[k].sentences) : r[k].sentences[j] \in lo..hi
    /\ \A s \in lo..hi : \E k \in 1..n : \E j \in 1..Len(r[k].sentences) :
        r[k].sentences[j] = s
    /\ \A k, m \in 1..n : \A j \in 1..Len(r[k].sentences), l \in 1..Len(r[m].sentences) :
        k < m \/ (k = m /\ j < l) => r[k].sentences[j] < r[m].sentences[l]

(* What the validator has passed is what the comment calls a partition, as *)
(* far as it goes.                                                         *)
ValidatedInv == stage = "validate" =>
    /\ Window.first <= want
    /\ FirstGroups(reply, ci - 1, Window.first, want - 1)

GroupingInv ==
    /\ TypeOK
    /\ LoopInv
    /\ CutsAreFull
    /\ WindowsInv
    /\ GroupingsInv
    /\ ReplyInv
    /\ CallsInv
=============================================================================
