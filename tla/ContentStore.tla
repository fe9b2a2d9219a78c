---------------------------- MODULE ContentStore ----------------------------
(***************************************************************************)
(* The Postgres tables of one book (db/schema.sql) and the writes          *)
(* pipeline/internal/db makes to them.  One book is enough: every row is   *)
(* reached through its book, and no statement touches two books.           *)
(*                                                                         *)
(* Contents are abstracted to what they were made from.  A chunk's text is *)
(* the run of sentences it joins; a question set or a breakdown is         *)
(* represented by the text it was generated from, so that stale content is *)
(* a value different from the text beside it.  chunk ids are left out:     *)
(* UNIQUE (book_id, index) and the absence of any DELETE make a chunk's id *)
(* and its index interchangeable.                                          *)
(***************************************************************************)
EXTENDS Integers

CONSTANTS
    N,      \* the number of sentences of the book
    None    \* no row

Index == 0..(N - 1)     \* a chunk has at least one sentence
Text  == [first : 1..N, last : 1..N]

ASSUME NAssumption == N \in Nat
ASSUME NoneAssumption == None \notin Text

VARIABLES
    status,     \* book.status, or "absent" while the book has no row
    cover,      \* whether book_image is stored
    text,       \* chunk.text by chunk.index
    questions,  \* the chunk's three question rows
    breakdown   \* the chunk's breakdown row

contentVars == <<text, questions, breakdown>>
storeVars == <<status, cover, text, questions, breakdown>>

StoreTypeOK ==
    /\ status \in {"absent", "processing", "published"}
    /\ cover \in BOOLEAN
    /\ text \in [Index -> Text \cup {None}]
    /\ questions \in [Index -> Text \cup {None}]
    /\ breakdown \in [Index -> Text \cup {None}]

StoreInit ==
    /\ status = "absent"
    /\ cover = FALSE
    /\ text = [i \in Index |-> None]
    /\ questions = [i \in Index |-> None]
    /\ breakdown = [i \in Index |-> None]

Stored == {i \in Index : text[i] # None}
Complete(i) == questions[i] # None /\ breakdown[i] # None

-----------------------------------------------------------------------------

(* Mutants of UpsertBook: a status outside the schema's CHECK; a row made  *)
(* visible before its content is generated.                                *)
UpsertBookAsDraft(fetchedCover) ==
    /\ status' = "draft"
    /\ cover' = (cover \/ fetchedCover)
    /\ UNCHANGED contentVars

UpsertBookAsPublished(fetchedCover) ==
    /\ status' = "published"
    /\ cover' = (cover \/ fetchedCover)
    /\ UNCHANGED contentVars

(* INSERT ... ON CONFLICT (gutenberg_id) DO UPDATE: the status of an       *)
(* existing row is overwritten, its image is kept if this run has none.    *)
UpsertBook(fetchedCover) ==
    /\ status' = "processing"
    /\ cover' = (cover \/ fetchedCover)
    /\ UNCHANGED contentVars

(* Mutant of SaveChunk: the question rows are not written.                 *)
SaveChunkRowOnly(i, t, qs) ==
    /\ text' = [text EXCEPT ![i] = t]
    /\ UNCHANGED <<status, cover, questions, breakdown>>

(* One transaction: the chunk row, then a row for each question given.     *)
(* qs is None for a nil slice, which touches no question row.              *)
SaveChunk(i, t, qs) ==
    /\ text' = [text EXCEPT ![i] = t]
    /\ questions' = IF qs = None THEN questions
                                 ELSE [questions EXCEPT ![i] = qs]
    /\ UNCHANGED <<status, cover, breakdown>>

SaveBreakdown(i, content) ==
    /\ breakdown' = [breakdown EXCEPT ![i] = content]
    /\ UNCHANGED <<status, cover, text, questions>>

ChunkProgress ==
    [text : Text \cup {None}, hasQuestions : BOOLEAN, hasBreakdown : BOOLEAN]

(* Mutants of LoadChunkProgress: the two joins swapped; a chunk taken as   *)
(* complete once it has questions.                                         *)
LoadChunkProgressSwapped ==
    [i \in Index |-> [text         |-> text[i],
                      hasQuestions |-> breakdown[i] # None,
                      hasBreakdown |-> questions[i] # None]]

LoadChunkProgressByQuestions ==
    [i \in Index |-> [text         |-> text[i],
                      hasQuestions |-> questions[i] # None,
                      hasBreakdown |-> questions[i] # None]]

LoadChunkProgress ==
    [i \in Index |-> [text         |-> text[i],
                      hasQuestions |-> questions[i] # None,
                      hasBreakdown |-> breakdown[i] # None]]

(* The README's UPDATE book SET status = 'published', typed by hand.       *)
MarkPublished ==
    /\ status = "processing"
    /\ status' = "published"
    /\ UNCHANGED <<cover, text, questions, breakdown>>
=============================================================================
