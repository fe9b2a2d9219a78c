------------------------------ MODULE Grouping ------------------------------
(***************************************************************************)
(* Stage B of the pipeline (internal/chunk): cut a book's sentences into   *)
(* windows, and group each window by asking the model, checking its reply  *)
(* against ValidatePartition, asking once more, and falling back to the    *)
(* greedy cut.                                                             *)
(*                                                                         *)
(* Sentences are numbered from 1.  Only their lengths matter here:         *)
(* total[i] is the number of characters of the first i sentences.          *)
(***************************************************************************)
EXTENDS Partition

CONSTANTS
    N,            \* the number of sentences
    Totals,       \* the books considered
    WindowLimit,  \* WindowTargetChars
    ChunkLimit,   \* TargetChunkChars + ChunkCharTolerance
    Replies,      \* the groupings the model may reply with, right or wrong
    MaxRetries    \* maxRetries

Group == [index : Int, sentences : Seq(Int)]

ASSUME SizeAssumption == N \in Nat /\ MaxRetries \in Nat
ASSUME LimitAssumption == WindowLimit \in Nat /\ ChunkLimit \in Nat
ASSUME TotalsAssumption == \A t \in Totals :
    /\ t \in [0..N -> Nat]
    /\ \A i \in 1..N : t[i - 1] <= t[i]
ASSUME RepliesAssumption == Replies \subseteq Seq(Group)

VARIABLES
    total,      \* the book
    stage,      \* what the command is doing
    windows,    \* what SplitIntoWindows returned
    groupings,  \* what GroupSentencesIntoChunks returned, by window
    attempt,    \* failed attempts at the current window
    reply,      \* the reply being validated
    ci,         \* its next group
    want,       \* the sentence that group must begin with
    cuts,       \* runs flushed by the loop of SplitIntoWindows or GreedyGroup
    start,      \* the loop's current run is start..next-1 ...
    next,
    chars,      \* ... and has this many characters
    calls       \* history: replies asked for

replyVars == <<attempt, reply, ci, want>>
loopVars == <<cuts, start, next, chars>>
vars == <<total, stage, windows, groupings, replyVars, loopVars, calls>>

Run == [first : 1..N, last : 1..N]
Stages == {"split", "call", "validate", "greedy", "done"}

(* The type invariant: in particular, no run passes the end of the book.   *)
TypeOK ==
    /\ total \in Totals
    /\ stage \in Stages
    /\ windows \in Seq(Run)
    /\ groupings \in Seq(Seq(Run))
    /\ attempt \in 0..MaxRetries
    /\ reply \in Seq(Group)
    /\ ci \in 1..(Len(reply) + 1)
    /\ want \in Nat
    /\ cuts \in Seq(Run)
    /\ start \in 1..(N + 1)
    /\ next \in start..(N + 1)
    /\ chars \in Nat
    /\ calls \in Nat

Init ==
    /\ total \in Totals
    /\ stage = "split"
    /\ windows = <<>> /\ groupings = <<>>
    /\ attempt = 0 /\ reply = <<>> /\ ci = 1 /\ want = 1
    /\ cuts = <<>> /\ start = 1 /\ next = 1 /\ chars = 0
    /\ calls = 0

Pending == Len(groupings) < Len(windows)
Window == windows[Len(groupings) + 1]

-----------------------------------------------------------------------------
(* The loop that SplitIntoWindows and GreedyGroup share, over the          *)
(* sentences up to hi.                                                     *)

CharCount(i) == total[i] - total[i - 1]

(* Mutant of Fits: the sentence itself is not counted.                     *)
FitsBefore(limit) == start = next \/ chars <= limit

Fits(limit) == start = next \/ chars + CharCount(next) <= limit

(* Mutant of Flushed: the last run is dropped.                             *)
NotFlushed == cuts

Flushed == IF start < next THEN Append(cuts, Span(start, next - 1)) ELSE cuts

AddSentence(limit, hi) ==
    /\ next <= hi
    /\ Fits(limit)
    /\ next' = next + 1
    /\ chars' = chars + CharCount(next)
    /\ UNCHANGED <<cuts, start>>

CutBefore(limit, hi) ==
    /\ next <= hi
    /\ ~Fits(limit)
    /\ cuts' = Flushed
    /\ start' = next
    /\ next' = next + 1
    /\ chars' = CharCount(next)

Sentence(limit, hi) == AddSentence(limit, hi) \/ CutBefore(limit, hi)

-----------------------------------------------------------------------------

SplitSentence ==
    /\ stage = "split"
    /\ Sentence(WindowLimit, N)
    /\ UNCHANGED <<total, stage, windows, groupings, replyVars, calls>>

SplitDone ==
    /\ stage = "split"
    /\ next > N
    /\ windows' = Flushed
    /\ stage' = "call"
    /\ UNCHANGED <<total, groupings, replyVars, loopVars, calls>>

Asked == stage = "call" /\ Pending /\ calls' = calls + 1

StartGreedy ==
    /\ stage' = "greedy"
    /\ cuts' = <<>> /\ start' = Window.first /\ next' = Window.first /\ chars' = 0

(* Mutants of FailAttempt: the failed attempt is not counted; one attempt  *)
(* more than maxRetries allows.                                            *)
FailUncounted ==
    \/ /\ attempt < MaxRetries
       /\ stage' = "call"
       /\ UNCHANGED <<attempt, loopVars>>
    \/ /\ attempt = MaxRetries
       /\ StartGreedy
       /\ UNCHANGED attempt

FailOftener ==
    \/ /\ attempt <= MaxRetries
       /\ attempt' = attempt + 1
       /\ stage' = "call"
       /\ UNCHANGED loopVars
    \/ /\ attempt > MaxRetries
       /\ StartGreedy
       /\ UNCHANGED attempt

(* An attempt failed: ask again, or fall back.                             *)
FailAttempt ==
    \/ /\ attempt < MaxRetries
       /\ attempt' = attempt + 1
       /\ stage' = "call"
       /\ UNCHANGED loopVars
    \/ /\ attempt = MaxRetries
       /\ StartGreedy
       /\ UNCHANGED attempt

(* The request failed, or the reply is not JSON.                           *)
CallFails ==
    /\ Asked
    /\ FailAttempt
    /\ UNCHANGED <<total, windows, groupings, reply, ci, want>>

Call ==
    /\ Asked
    /\ reply' \in Replies
    /\ ci' = 1
    /\ want' = Window.first
    /\ stage' = "validate"
    /\ UNCHANGED <<total, windows, groupings, attempt, loopVars>>

(* Mutant of Return: the first window is taken for the whole book.         *)
ReturnFirst(g) ==
    /\ groupings' = Append(groupings, g)
    /\ attempt' = 0
    /\ stage' = "done"

(* GroupSentencesIntoChunks returns g; the next window starts afresh.      *)
Return(g) ==
    /\ groupings' = Append(groupings, g)
    /\ attempt' = 0
    /\ stage' = "call"

(* Mutant of GroupIsNext: chunk_index is not looked at.                    *)
SentencesAreNext ==
    LET g == reply[ci]
    IN  /\ Len(g.sentences) > 0
        /\ \A k \in 1..Len(g.sentences) : g.sentences[k] = want + k - 1

(* ValidatePartition's loop, one group at a time.                          *)
GroupIsNext ==
    LET g == reply[ci]
    IN  /\ g.index = ci - 1
        /\ Len(g.sentences) > 0
        /\ \A k \in 1..Len(g.sentences) : g.sentences[k] = want + k - 1

(* Mutant of CoversWindow: a grouping that stops early is accepted.        *)
CoversSome == want > Window.first

CoversWindow == want = Window.last + 1

ValidateGroup ==
    /\ stage = "validate"
    /\ ci <= Len(reply)
    /\ GroupIsNext
    /\ want' = want + Len(reply[ci].sentences)
    /\ ci' = ci + 1
    /\ UNCHANGED <<total, stage, windows, groupings, attempt, reply, loopVars, calls>>

Reject ==
    /\ stage = "validate"
    /\ IF ci <= Len(reply) THEN ~GroupIsNext ELSE ~CoversWindow
    /\ FailAttempt
    /\ UNCHANGED <<total, windows, groupings, reply, ci, want, calls>>

(* BuildChunks joins each group's sentences, a run from first to last.     *)
Built == [k \in 1..Len(reply) |->
    Span(reply[k].sentences[1], reply[k].sentences[Len(reply[k].sentences)])]

Accept ==
    /\ stage = "validate"
    /\ ci > Len(reply)
    /\ CoversWindow
    /\ Return(Built)
    /\ UNCHANGED <<total, windows, reply, ci, want, loopVars, calls>>

GreedySentence ==
    /\ stage = "greedy"
    /\ Sentence(ChunkLimit, Window.last)
    /\ UNCHANGED <<total, stage, windows, groupings, replyVars, calls>>

GreedyDone ==
    /\ stage = "greedy"
    /\ next > Window.last
    /\ Return(Flushed)
    /\ UNCHANGED <<total, windows, reply, ci, want, loopVars, calls>>

AllGrouped ==
    /\ stage = "call"
    /\ ~Pending
    /\ stage' = "done"
    /\ UNCHANGED <<total, windows, groupings, replyVars, loopVars, calls>>

Next ==
    \/ SplitSentence \/ SplitDone
    \/ Call \/ CallFails
    \/ ValidateGroup \/ Accept \/ Reject
    \/ GreedySentence \/ GreedyDone
    \/ AllGrouped

Spec == Init /\ [][Next]_vars

(* The command is sequential and every request ends, if only by failing.   *)
LiveSpec == Spec /\ WF_vars(Next)

-----------------------------------------------------------------------------
(* Safety.                                                                 *)

(* The windows are the book: every sentence is in one of them, in order.   *)
WindowsCoverBook ==
    stage # "split" /\ N > 0 => IsPartition(windows, 1, N)

(* What GroupSentencesIntoChunks returns is a partition of its window,     *)
(* whatever the model replied: cmd/process turns it into rows without      *)
(* another look, and BuildChunks panics on anything else.                  *)
GroupingsCoverWindows == \A w \in 1..Len(groupings) :
    IsPartition(groupings[w], windows[w].first, windows[w].last)

(* The two together: from the book to its chunks no sentence is lost,      *)
(* repeated or moved.                                                      *)
NothingLost == WindowsCoverBook /\ GroupingsCoverWindows

Limit == IF stage = "greedy" THEN ChunkLimit ELSE WindowLimit
RunChars(r) == total[r.last] - total[r.first - 1]

(* No run of several sentences is over the limit, neither in a window nor  *)
(* in a chunk of the fallback: only an oversized sentence may be, alone.   *)
LimitKept ==
    /\ \A k \in 1..Len(windows) :
        windows[k].first < windows[k].last => RunChars(windows[k]) <= WindowLimit
    /\ stage \in {"split", "greedy"} => \A k \in 1..Len(Flushed) :
        Flushed[k].first < Flushed[k].last => RunChars(Flushed[k]) <= Limit

(* No window could have taken the first sentence of the next one, so that  *)
(* no more requests are paid for than the window size asks for.            *)
WindowsAreFull == \A k \in 1..(Len(windows) - 1) :
    RunChars(Span(windows[k].first, windows[k + 1].first)) > WindowLimit

SizesKept == LimitKept /\ WindowsAreFull

(* A window costs at most 1 + MaxRetries requests.                         *)
CallsBounded == calls <= (MaxRetries + 1) * Len(windows)

(* What the comment on ValidatePartition calls a partition.                *)
Places(r) == UNION {{<<k, j>> : j \in 1..Len(r[k].sentences)} : k \in 1..Len(r)}
At(r, x) == r[x[1]].sentences[x[2]]
ListedBefore(x, y) == x[1] < y[1] \/ (x[1] = y[1] /\ x[2] < y[2])
IsGroupingOf(r, lo, hi) ==
    /\ \A k \in 1..Len(r) : r[k].index = k - 1 /\ r[k].sentences # <<>>
    /\ \A x \in Places(r) : At(r, x) \in lo..hi
    /\ \A s \in lo..hi : \E x \in Places(r) : At(r, x) = s
    /\ \A x, y \in Places(r) : ListedBefore(x, y) => At(r, x) < At(r, y)

(* A reply is taken or refused exactly as that definition says.            *)
ValidatorIsExact == [][
    stage = "validate" /\ stage' # "validate" =>
        (Len(groupings') > Len(groupings)
            <=> IsGroupingOf(reply, Window.first, Window.last))]_vars

(* Liveness: whatever the model replies, every window comes back grouped.  *)
EventuallyGrouped == <>(stage = "done" /\ Len(groupings) = Len(windows))
=============================================================================
