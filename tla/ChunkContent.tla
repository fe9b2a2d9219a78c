---------------------------- MODULE ChunkContent ----------------------------
(***************************************************************************)
(* The content of one stored chunk: runs of cmd/process ask the model for  *)
(* its questions, validate them, save them row by row in one transaction,  *)
(* and do the same, in one statement, for the breakdown.  BookProcess      *)
(* takes a generation, and SaveChunk, as one step; here they are not.      *)
(*                                                                         *)
(* The runs know nothing of each other.  What keeps them apart is          *)
(* Postgres: a row written by an open transaction is locked until it ends, *)
(* and a statement that meets such a row waits.                            *)
(***************************************************************************)
EXTENDS Integers, Sequences

CONSTANTS
    Runs,              \* the runs of the command, in any order or overlapping
    NoRun,             \* the owner of a row that is not locked
    QuestionReplies,   \* parsed replies to a request for questions
    BreakdownReplies,  \* replies to a request for a breakdown
    Spans,             \* the strings that occur in the chunk's text
    Native,            \* the language pair's native language
    MaxRetries         \* maxRetries

Types == {"vocab", "grammar", "comprehension"}
Order == <<"vocab", "grammar", "comprehension">>

(* A text is its words, and whether there are spaces around them.          *)
Option == [word : STRING, padded : BOOLEAN]
Question == [type : STRING, prompt : STRING, options : Seq(Option),
             answer : Int, explanation : STRING, highlight : STRING]

(* A breakdown is the number of its letters of either script, and whether  *)
(* there is anything else in it.                                           *)
Breakdown == [japanese : Nat, latin : Nat, other : BOOLEAN]

ASSUME RunsAssumption == NoRun \notin Runs
ASSUME RetriesAssumption == MaxRetries \in Nat
ASSUME NativeAssumption == Native \in {"ja", "en"}
ASSUME RepliesAreWellTyped ==
    /\ QuestionReplies \subseteq Seq(Question)
    /\ BreakdownReplies \subseteq Breakdown

VARIABLES
    rows,      \* the question rows of the chunk, by type
    stored,    \* its breakdown row
    serial,    \* the sequence behind question.id
    owner,     \* the run whose transaction holds the row locked
    pc,        \* what each run is about to do
    attempt,   \* its failed attempts at the current generation
    made,      \* the question set it was given ...
    content,   \* ... and the breakdown
    tx         \* the rows its open transaction has written

store == <<rows, stored>>
memoryOf == <<attempt, made, content>>
vars == <<store, serial, owner, pc, memoryOf, tx>>

NoRow == [id |-> 0]
NoRows == [t \in Types |-> NoRow]
NoBreakdown == [japanese |-> 0, latin |-> 0, other |-> FALSE]

ChunkRow == "chunk"
Keys == {ChunkRow} \cup Types

-----------------------------------------------------------------------------
(* ValidateQuestionSet and validateBreakdown.                              *)

Empty(text) == text = ""
Trim(option) == option.word

OneOfEachType(set) ==
    /\ Len(set) = 3
    /\ \A i \in DOMAIN set : set[i].type \in Types
    /\ \A i, j \in DOMAIN set : i # j => set[i].type # set[j].type

(* Mutant of FourOptions: options are compared with their spaces.          *)
FourDifferent(q) ==
    /\ Len(q.options) = 4
    /\ \A i \in 1..4 : ~Empty(Trim(q.options[i]))
    /\ \A i, j \in 1..4 : i # j => q.options[i] # q.options[j]

FourOptions(q) ==
    /\ Len(q.options) = 4
    /\ \A i \in 1..4 : ~Empty(Trim(q.options[i]))
    /\ \A i, j \in 1..4 : i # j => Trim(q.options[i]) # Trim(q.options[j])

HighlightFits(q) ==
    IF q.type = "comprehension"
    THEN Empty(q.highlight)
    ELSE ~Empty(q.highlight) /\ q.highlight \in Spans

ValidQuestion(q) ==
    /\ ~Empty(q.prompt) /\ ~Empty(q.explanation)
    /\ FourOptions(q) /\ HighlightFits(q)
    /\ 0 <= q.answer /\ q.answer < Len(q.options)

Accepts(set) == OneOfEachType(set) /\ \A i \in DOMAIN set : ValidQuestion(set[i])

(* Mutant of Canonical: the questions stay in the order of the reply.      *)
AsListed(set) == set

OfType(set, type) == set[CHOOSE i \in DOMAIN set : set[i].type = type]

Canonical(set) == [k \in 1..3 |-> OfType(set, Order[k])]

(* TrimSpace leaves nothing of a reply without letters or anything else.   *)
HasText(b) == b.japanese + b.latin > 0 \/ b.other

(* ValidateNativeText: any Japanese letter for EN_JP, and at most three    *)
(* in ten of the letters for JP_EN.                                        *)
LooksNative(b) ==
    IF Native = "ja" THEN b.japanese > 0
    ELSE 10 * b.japanese <= 3 * (b.japanese + b.latin)

AcceptsBreakdown(b) == HasText(b) /\ LooksNative(b)

-----------------------------------------------------------------------------

Init ==
    /\ rows = NoRows /\ stored = NoBreakdown
    /\ serial = 0
    /\ owner = [k \in Keys |-> NoRun]
    /\ pc = [p \in Runs |-> "idle"]
    /\ attempt = [p \in Runs |-> 0]
    /\ made = [p \in Runs |-> <<>>] /\ content = [p \in Runs |-> NoBreakdown]
    /\ tx = [p \in Runs |-> NoRows]

GoTo(p, step) == pc' = [pc EXCEPT ![p] = step]

(* A loop of GenerateQuestions or GenerateBreakdown begins.                *)
Generate(p, step) ==
    /\ GoTo(p, step)
    /\ attempt' = [attempt EXCEPT ![p] = 0]

(* LoadChunkProgress, and what it leaves to do: whether there are any      *)
(* questions, and whether there is a breakdown.                            *)
Start(p) ==
    /\ pc[p] = "idle"
    /\ \/ rows = NoRows /\ Generate(p, "questions")
       \/ rows # NoRows /\ stored = NoBreakdown /\ Generate(p, "breakdown")
       \/ rows # NoRows /\ stored # NoBreakdown /\ GoTo(p, "complete")
            /\ UNCHANGED attempt
    /\ UNCHANGED <<store, serial, owner, made, content, tx>>

Ask(p, step) ==
    /\ pc[p] = step
    /\ UNCHANGED <<store, serial, owner, tx>>

(* Mutant of FailAttempt: one attempt too many.                            *)
FailOnceMore(p) ==
    IF attempt[p] <= MaxRetries
    THEN attempt' = [attempt EXCEPT ![p] = @ + 1] /\ UNCHANGED pc
    ELSE GoTo(p, "gaveUp") /\ UNCHANGED attempt
(* The next turn of the loop, or the end of the chunk for this run.        *)
FailAttempt(p) ==
    IF attempt[p] < MaxRetries
    THEN attempt' = [attempt EXCEPT ![p] = @ + 1] /\ UNCHANGED pc
    ELSE GoTo(p, "gaveUp") /\ UNCHANGED attempt

AcceptQuestions(p) ==
    /\ Ask(p, "questions")
    /\ \E set \in QuestionReplies :
        /\ Accepts(set)
        /\ made' = [made EXCEPT ![p] = Canonical(set)]
    /\ GoTo(p, "begin")
    /\ UNCHANGED <<attempt, content>>

RejectQuestions(p) ==
    /\ Ask(p, "questions")
    /\ \E set \in QuestionReplies : ~Accepts(set)
    /\ FailAttempt(p)
    /\ UNCHANGED <<made, content>>

AcceptBreakdown(p) ==
    /\ Ask(p, "breakdown")
    /\ \E b \in BreakdownReplies :
        /\ AcceptsBreakdown(b)
        /\ content' = [content EXCEPT ![p] = b]
    /\ GoTo(p, "saveBreakdown")
    /\ UNCHANGED <<attempt, made>>

RejectBreakdown(p) ==
    /\ Ask(p, "breakdown")
    /\ \E b \in BreakdownReplies : ~AcceptsBreakdown(b)
    /\ FailAttempt(p)
    /\ UNCHANGED <<made, content>>

(* The request fails, or its reply has no text or does not parse.          *)
CallFails(p) ==
    /\ Ask(p, "questions") \/ Ask(p, "breakdown")
    /\ FailAttempt(p)
    /\ UNCHANGED <<made, content>>

-----------------------------------------------------------------------------
(* SaveChunk.                                                              *)

Lock(p, key) ==
    /\ owner[key] \in {NoRun, p}
    /\ owner' = [owner EXCEPT ![key] = p]

Unlocked(p) == [k \in Keys |-> IF owner[k] = p THEN NoRun ELSE owner[k]]

(* Mutant of BeginSave: the questions there are deleted first.             *)
BeginByDeleting(p) ==
    /\ pc[p] = "begin"
    /\ Lock(p, ChunkRow)
    /\ rows' = NoRows
    /\ GoTo(p, "rows")
    /\ UNCHANGED <<stored, serial, memoryOf, tx>>

(* Begin, and the upsert of the chunk's own row.                           *)
BeginSave(p) ==
    /\ pc[p] = "begin"
    /\ Lock(p, ChunkRow)
    /\ GoTo(p, "rows")
    /\ UNCHANGED <<store, serial, memoryOf, tx>>

Unwritten(p) == {k \in DOMAIN made[p] : tx[p][made[p][k].type] = NoRow}
IsNext(p, k) == k \in Unwritten(p) /\ \A j \in Unwritten(p) : k <= j

(* ON CONFLICT (chunk_id, type) DO UPDATE keeps the id of the row.         *)
Upserted(q) ==
    [id |-> IF rows[q.type] = NoRow THEN serial + 1 ELSE rows[q.type].id,
     question |-> q]

(* Mutant of SaveRow: outside the transaction.                             *)
SaveRowAtOnce(p) ==
    /\ pc[p] = "rows"
    /\ \E k \in DOMAIN made[p] :
        /\ IsNext(p, k)
        /\ Lock(p, made[p][k].type)
        /\ tx' = [tx EXCEPT ![p][made[p][k].type] = Upserted(made[p][k])]
        /\ rows' = [rows EXCEPT ![made[p][k].type] = Upserted(made[p][k])]
    /\ serial' = serial + 1
    /\ UNCHANGED <<stored, pc, memoryOf>>

(* The upsert of the next question's row.  It takes a number from the      *)
(* sequence whether it inserts or updates, and a rollback returns none.    *)
SaveRow(p) ==
    /\ pc[p] = "rows"
    /\ \E k \in DOMAIN made[p] :
        /\ IsNext(p, k)
        /\ Lock(p, made[p][k].type)
        /\ tx' = [tx EXCEPT ![p][made[p][k].type] = Upserted(made[p][k])]
    /\ serial' = serial + 1
    /\ UNCHANGED <<store, pc, memoryOf>>

Committed(p) == [t \in Types |-> IF tx[p][t] = NoRow THEN rows[t] ELSE tx[p][t]]

(* Commit, acknowledged or not; if it is not, the run ends.                *)
Commit(p) ==
    /\ pc[p] = "rows"
    /\ Unwritten(p) = {}
    /\ rows' = Committed(p)
    /\ owner' = Unlocked(p)
    /\ tx' = [tx EXCEPT ![p] = NoRows]
    /\ \/ Generate(p, "breakdown")
       \/ GoTo(p, "aborted") /\ UNCHANGED attempt
    /\ UNCHANGED <<stored, serial, made, content>>

(* One statement, which takes no row that SaveChunk locks exclusively.     *)
SaveBreakdown(p) ==
    /\ pc[p] = "saveBreakdown"
    /\ stored' = content[p]
    /\ GoTo(p, "complete")
    /\ UNCHANGED <<rows, serial, owner, memoryOf, tx>>

Ended == {"complete", "gaveUp", "aborted"}

(* Mutant of Abort: the transaction is left open.                          *)
AbortWithoutRollback(p) ==
    /\ pc[p] \notin {"idle"} \cup Ended
    /\ GoTo(p, "aborted")
    /\ UNCHANGED <<store, serial, owner, memoryOf, tx>>

(* The process is killed or a call to the database fails.  Its             *)
(* transaction is rolled back.                                             *)
Abort(p) ==
    /\ pc[p] \notin {"idle"} \cup Ended
    /\ GoTo(p, "aborted")
    /\ owner' = Unlocked(p)
    /\ tx' = [tx EXCEPT ![p] = NoRows]
    /\ UNCHANGED <<store, serial, memoryOf>>

Work(p) ==
    \/ AcceptQuestions(p) \/ RejectQuestions(p) \/ CallFails(p)
    \/ BeginSave(p) \/ SaveRow(p) \/ Commit(p)
    \/ AcceptBreakdown(p) \/ RejectBreakdown(p) \/ SaveBreakdown(p)

Next == \E p \in Runs : Start(p) \/ Work(p) \/ Abort(p)

Spec == Init /\ [][Next]_vars

(* A request is given up after the client's timeout, and a statement that  *)
(* waits is served once the row is free.                                   *)
LiveSpec == Spec /\ \A p \in Runs : WF_vars(Work(p))

-----------------------------------------------------------------------------
(* Properties.                                                             *)

Steps == {"idle", "questions", "begin", "rows", "breakdown", "saveBreakdown"}
             \cup Ended

Row == {NoRow} \cup [id : Nat \ {0}, question : Question]

(* The type invariant: in particular no id comes from beyond the sequence, *)
(* and a run writes only the rows it has locked.                           *)
TypeOK ==
    /\ rows \in [Types -> Row]
    /\ stored \in Breakdown
    /\ serial \in Nat
    /\ owner \in [Keys -> Runs \cup {NoRun}]
    /\ pc \in [Runs -> Steps]
    /\ attempt \in [Runs -> 0..MaxRetries]
    /\ made \in [Runs -> Seq(Question)]
    /\ content \in [Runs -> Breakdown]
    /\ tx \in [Runs -> [Types -> Row]]
    /\ \A t \in Types : rows[t].id <= serial
    /\ \A p \in Runs, t \in Types :
        tx[p][t].id <= serial /\ (tx[p][t] # NoRow => owner[t] = p)

ByType(set) == [t \in Types |-> OfType(set, t)]
Sets == {ByType(set) : set \in {s \in QuestionReplies : Accepts(s)}}
StoredSet == [t \in Types |-> rows[t].question]

(* What the schema's CHECKs demand of a row, once "" has become NULL.      *)
SchemaHolds(q) ==
    /\ q.type \in Types
    /\ Len(q.options) = 4 /\ q.answer \in 0..3
    /\ (q.type = "comprehension") = (q.highlight = "")

(* The answer is one of the options and unlike the others, and the         *)
(* highlight is found in the chunk's text.                                 *)
Answerable(q) == \E right \in DOMAIN q.options :
    /\ right = q.answer + 1
    /\ \A i \in DOMAIN q.options \ {right} :
        Trim(q.options[i]) # Trim(q.options[right])
    /\ q.highlight # "" => q.highlight \in Spans

(* For English speakers not mostly Japanese, for Japanese speakers not     *)
(* without any.                                                            *)
Readable(b) == IF Native = "ja" THEN b.japanese # 0 ELSE b.japanese <= b.latin

(* What the validators let through, the schema's constraints accept, so    *)
(* that no generation that was paid for is lost to them, and the app can   *)
(* show.                                                                   *)
MadeIsUsable == \A p \in Runs :
    /\ \A k \in DOMAIN made[p] : SchemaHolds(made[p][k]) /\ Answerable(made[p][k])
    /\ content[p] # NoBreakdown => Readable(content[p])

(* ListQuestionIDs orders by id, and the app shows the questions in that   *)
(* order: vocabulary, grammar, comprehension, also when the rows were      *)
(* inserted by a run that followed one rolled back, or were overwritten.   *)
ShownInOrder == rows # NoRows =>
    rows["vocab"].id < rows["grammar"].id /\ rows["grammar"].id < rows["comprehension"].id

(* Every run that was started ends: no run waits for ever for a row that   *)
(* another has locked, nor asks for ever.                                  *)
EveryRunEnds == \A p \in Runs : pc[p] # "idle" ~> pc[p] \in Ended
=============================================================================
