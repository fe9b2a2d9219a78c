# Aidoku: a TLA+ model of the pipeline, the content store and the app

Aidoku turns public-domain books into short reading chunks with questions and
a breakdown, stores them in Postgres, serves the published ones over a
read-only API and shows them in a Flutter app. This directory models its core
logic in TLA+, model-checks it with TLC on small instances and proves the
main results with TLAPS for every size of book, catalog and number of runs.

The source of every definition is the code under `src/`; `PROJECT.json` maps
each definition to the lines it models.

## The system

| Part | State | Operations | What makes it correct |
|---|---|---|---|
| `pipeline/cmd/process` | per run: the entries left and the failures so far; per book the chunk list in memory and the chunk it is at | per entry: fetch the cover and upsert the book; resume stored chunks or fetch, segment, window, group and save; per chunk generate and save questions, then the breakdown | whatever kills and failures it goes through: chunks in reading order, content that matches its text, success only when complete, nothing bought that is stored; an exit code that tells of every failed book |
| `pipeline/internal/db` (Postgres: `book`, `chunk`, `question`, `breakdown`) | the rows | `UpsertBook`, `SaveChunk`, `SaveBreakdown`, `LoadChunkProgress`; `UPDATE book SET status` by hand | one transaction each; indices without gap; a breakdown only beside questions |
| `pipeline/internal/chunk` | a window's sentences, the current chunk and its size | `SplitIntoWindows`, the grouper's two attempts, `ValidatePartition`, `GreedyGroup`, `BuildChunks` | every result is a partition of the sentences, in order |
| `pipeline/internal/question`, `breakdown`, `anthropic`, `langpair` | the attempt number | three attempts each, `ValidateQuestionSet`, `ValidateNativeText` | only a valid set or a readable breakdown is returned; the schema accepts it; the budget is respected |
| `pipeline/internal/{ingest,clean,pipeline}` | none | download, strip the licence, normalise, drop and condense illustrations, dewrap, trim to the anchors | no word lost or moved; paragraphs stay what they were |
| `pipeline/internal/segment` | the scanner's position, the sentence's start, the sentences so far | `Segment`, `SegmentJapanese` | the sentences are the text, cut where a sentence ends |
| `pipeline/internal/catalog` | the block being read, the entries so far | `Parse` line by line, `newEntry` | a file means what its header says, or is an error |
| `pipeline/cmd/ingest` | a file of text and one of sentences per book | the free stages only | only a finished pair counts as done |
| `pipeline/cmd/livetest` | none | one book of its own, six sentences of it written through the same store | a second writer of the same tables, whose book is never shown half done |
| `book-content` (API) | none | reads filtered by `status = 'published'` | only published content, 404 otherwise |
| app: reading session (`ReadingSessionScreen`, `ChunkPanel`, `QuestionsView`) | chunk ids, position, phase, question, selected option | answer, advance, complete, restart | no chunk or question skipped; the saved position follows the reader |
| app: review (`ChunkListScreen`, `ChunkReviewSessionScreen`) | position in the review, badges | redo a cleared chunk | never moves the reader's position |
| app: `LocalProgressStore`, `LocalScoreStore` | key/value pairs on the device | unawaited writes, one key at a time | what survives a crash is a state the app was in |
| app: settings (`SettingsScreen`, `LocalSettingsStore`), library, `AidokuApp` | six keys on the device; the form's fields; what the library filters by; the theme | load, edit, save key by key and pop | what is stored is one save, not two mixed; the active language is one of those studied; what is shown is what was saved |
| app: shop, home, account screens | none of their own | load, show | |

The parts interact through two shared stores. The pipeline writes Postgres and
the API reads it, with the operator's hand-typed `UPDATE` between them; the
app reads the API and keeps its own state in `shared_preferences`. There is no
lock, queue or message between any two of them. What is hard is therefore
crashes and failures between two writes, runs and requests that overlap, and
memory that has gone stale; the list is under `hazards` in `PROJECT.json`, each
at the line where it bites.

## The modules

| Module | What it is |
|---|---|
| `ContentStore` | the rows of one book and the pipeline's writes to them |
| `BookProcess` | `cmd/process` on one book: any number of runs, kills, database failures, failed generations, the operator; its properties |
| `MCBookProcess` | instance: a short book in two windows and every grouping of each |
| `BookLifecycle` | the abstract specification: chunks appear in order, move forward through fixed stages, and change only while the book is hidden |
| `BookRefinement` | the mapping from `BookProcess` to `BookLifecycle` |
| `BookInvariants` | the inductive invariants of the proofs |
| `BookProofs` | proofs of what holds however many runs overlap, of what holds when they do not, and that `BookProcess` then implements `BookLifecycle` |
| `Partition` | lists of runs of sentences that cover a range in order |
| `Grouping` | `internal/chunk`: windows, the grouper's attempts, `ValidatePartition`, the greedy fallback |
| `MCGrouping` | instances: every short book of two sentence lengths, replies right and wrong |
| `GroupingInvariants`, `GroupingProofs` | its inductive invariant, and the proofs |
| `ChunkContent` | one chunk's questions and breakdown: the generators' attempts, the validators, `SaveChunk` statement by statement |
| `ChunkLog` | the abstract specification: a whole set of questions at once, a breakdown beside it |
| `ChunkRefinement`, `MCChunkContent` | the mapping to `ChunkLog`, and its instance: good replies and replies with one fault each |
| `ChunkContentProofs` | its inductive invariant, and the proofs, the refinement among them |
| `ContentApi` | `book-content`'s queries and the app's `loadChunk`, composed with `BookProcess` |
| `MCContentApi` | its instances, which check `BookProcess` and its refinement too |
| `ContentApiProofs` | proofs that what a reader was served stays true |
| `Segment` | the loops of `Segment` and `SegmentJapanese` over tokens |
| `Prepare` | from a catalog entry to its sentences: fetch, clean, trim, composed with `Segment`; its properties |
| `PrepareProofs` | the inductive invariants of the loops and of the steps before them, and the proofs that segmentation keeps the text and cuts it where a sentence ends, and that the words and the paragraphs of the raw body are kept |
| `MCPrepare` | instances: every short text over an alphabet with a token of each class |
| `Catalog` | `Parse` and `newEntry`, and what a catalog's header says of them |
| `Commands` | a shelf of books and the commands the operator types: `process` over the entries, `-book`, `-dry-run`, `ingest`, `livetest`, the `UPDATE` |
| `CommandsProofs` | its inductive invariant, the proofs, and that the catalog parser reads any file as documented |
| `BookApi` | the book and cover routes over the rows the commands write |
| `MCCommands` | instances: sound catalogs, and catalogs with one fault each |
| `Preferences` | what the app keeps of a book: memory, device, and the writes on their way |
| `ChunkPanel` | `ChunkPanel` and `QuestionsView`, as a value the screens hold |
| `ReadingSession` | the library's card, the reading session and the review, frames and taps, kills |
| `MCReadingSession` | instances: which questions may be answered wrong |
| `ReadingLog` | the abstract specification: a bookmark and a set of answers |
| `ReadingRefinement`, `MCReadingRefinement` | the mapping from the device's state to `ReadingLog`, and its instance |
| `ReadingSessionProofs` | its inductive invariants, and the proofs, the refinement among them |
| `Settings` | the settings form, the save key by key, the library's filter and the app's theme |
| `SettingsProofs` | its inductive invariant, and the proofs |
| `MCSettings` | its instances: one language pair, and three of them |

### How `BookProcess` corresponds to the code

`pc[p]` is the call a run is about to make. Between two calls to Postgres or
to Claude the code is sequential and touches only the run's memory, so one
action stands for one such call and all that follows it up to the next.

| Step | Code |
|---|---|
| `SaveBook` | `UpsertBook`, after the cover was fetched or not |
| `ResumeStoredChunks`, `NothingToResume` | `LoadChunkProgress` and the test `len(existing) > 0` |
| `PrepareBook`, `PrepareBookFails` | fetch, clean, trim, segment, window |
| `GroupWindow` | one `GroupSentencesIntoChunks`, `BuildChunks` and the renumbering |
| `SaveGroupedChunk` | `SaveChunk(..., nil)` for one chunk of the window |
| `SkipComplete`, `GenerateQuestions`, `SaveQuestions`, `GenerateBreakdown`, `SaveChunkBreakdown` | the loop body of `processBook` |
| `GenerateQuestionsFails`, `GenerateBreakdownFails` | the attempts are used up: `failedChunks++; continue` |
| `Finish` | `processBook` returns, with an error if a chunk failed |
| `Kill`, `StoreCallFails` | the process ends; a failed write may have been applied |
| `Publish` | the README's `UPDATE`, typed after a run that succeeded, with none active |

Abstractions. A chunk's text is the run of sentences it joins; a question set
or a breakdown is the text it was made from, so content that is stale differs
from the text beside it. One book is modelled, because no statement touches
two. The book's descriptive columns are left out: they are overwritten as a
whole and decide nothing. `GroupSentencesIntoChunks` is replaced by its
contract, any partition of the window (`GroupingAssumption`), which
`Grouping` establishes: it returns an error only for a language pair that is
not configured. `aborts` and `paid` are history variables: no guard reads
`paid`, and `aborts` only bounds the failures.

### How `Grouping` corresponds to the code

| Step | Code |
|---|---|
| `SplitSentence`, `SplitDone` | one turn of the loop of `SplitIntoWindows`, and its last flush |
| `Call`, `CallFails` | `callLLM`: a reply that parses, or a failed request or reply |
| `ValidateGroup`, `Accept`, `Reject` | one turn of the loop of `ValidatePartition`, and its verdict |
| `FailAttempt` | the next turn of the loop of `GroupSentencesIntoChunks`, or its fallback |
| `GreedySentence`, `GreedyDone` | one turn of the loop of `GreedyGroup`, and its last flush |

A sentence is its number, and its length only through `total`, the characters
up to it. `AddSentence` and `CutBefore` are the loop body that
`SplitIntoWindows` and `GreedyGroup` share. A reply may list any numbers,
beyond the window and the book too.

### How `ChunkContent` corresponds to the code

| Step | Code |
|---|---|
| `Start` | `LoadChunkProgress` and what `processBook` finds left to do for the chunk |
| `AcceptQuestions`, `RejectQuestions`, `AcceptBreakdown`, `RejectBreakdown` | one turn of the loop of `GenerateQuestions` or `GenerateBreakdown`, with a reply that validates or does not |
| `CallFails` | `CreateMessage` fails, or the reply has no text or does not parse |
| `FailAttempt` | the next turn of either loop, or its error |
| `BeginSave`, `SaveRow`, `Commit` | `SaveChunk`: `BEGIN` and the chunk's upsert, the upsert of one question, `COMMIT` |
| `SaveBreakdown` | the one statement of `SaveBreakdown` |
| `Abort` | a kill or a failed statement, and the rollback |

`BookProcess` takes a generation, and a save, as one step; here they are
taken apart, for one chunk and any number of overlapping runs, and
`ImplementsChunkLog` shows that the difference cannot be seen. Postgres is
modelled by what `SaveChunk` relies on: a row an open transaction has written
is locked until it ends, others see it only after the commit, and an upsert
takes a number from the sequence of ids whether it inserts or updates.

Abstractions. Words, and the strings that occur in the chunk, are members of
small sets; what `TrimSpace` does is a flag of an option. A breakdown is the
number of its letters of either script. The chunk's text stays as it is.

### How `ContentApi` corresponds to the code

| Step | Code |
|---|---|
| `OpenSession` | `getChunkIds`, asked by `initState` of the session (and by the library's card) |
| `OpenReview` | `listChunkSummaries`, asked by `_loadRows` of the review list |
| `LoadChunk`, `LoadQuestionIds`, `LoadContent` | the requests of `loadChunk`: the chunk, its question ids, then three questions and the breakdown in any order |
| `RequestFails` | `_getJson` throws |
| `Visible` | `WHERE ... b.status = 'published'` of every query |

The reader's steps interleave with every step of `BookProcess`. A request is
one SELECT, at the moment it is executed; what the app does between two
requests is part of the later one. One load is under way at a time; opening
the book, or its review list, anew abandons it. A row's preview, which
`firstSentencePreview` cuts from the text by bytes (in Japanese perhaps inside
a rune), is that text here.

### How `Prepare` and `Segment` correspond to the code

| Step | Code |
|---|---|
| `FetchText`, `FetchFails` | one GET of the book's raw text |
| `Clean` | `CleanEnglish` or `CleanJapanese`: line endings, the markers, bare illustrations, captions, paragraphs, in this order, or an error |
| `Trim` | `Trim`: each anchor once, and in order, or an error |
| `Newlines`, `Pass`, `EnglishStop`, `JapaneseStop` | one turn of the loop: a run of newlines, a rune that decides nothing, a run of punctuation with the lookahead and the fallback |
| `Return` | what is left after the loop |

A text is a sequence of tokens: one for each mark, blank, digit and tag that
the code distinguishes, and one for a word, which the code looks at only
through its first letter and the list of abbreviations. A sentence is the pair
of its ends. What cleaning does is stated position by position, where the code
applies one regular expression or rewrite after another; their order shows in
what is removed before what is condensed and joined (`Body`, `InBlock`).

What the properties leave open, because the code does: a bare illustration
tag on a line of its own inside a paragraph leaves a blank line behind it,
which forces a cut in mid-sentence; a line of spaces between two paragraphs is
no blank line, so that they are joined; a caption, though put on one line, is
still cut after its punctuation; `strings.Count` does not see a second anchor
that overlaps the first; and `isDecimal` decides nothing, since a full stop
followed by a digit is no boundary anyway.

### How `Catalog` and `Commands` correspond to the code

| Step | Code |
|---|---|
| `ReadLine`, `Flush`, `Parse` | the scanner's loop, the closure it calls, and the last flush |
| `Start`, `StartIngest`, `StartLivetest` | `main` and `run` up to the first book: flags, catalog, filter, key, database |
| `ProcessBook`, `BookDone` | `fetchBookImage` and `UpsertBook`; the rest of `processBook`, which `BookProcess` takes apart |
| `DryRunBook` | `printDryRunEstimate` |
| `IngestText`, `IngestSentences`, `IngestFails` | the two files of a book, or an error before, at or between them |
| `LivetestSaves`, `LivetestChunks` | `UpsertBook`; the chunks, which are complete only as far as the rows they meet are |
| `BookFails` | an error of one book, counted; what was written stays |
| `Exit` | the end of the loop and the exit code |
| `Kill` | the process ends anywhere |
| `Publish` | the README's `UPDATE`, for a book whose last successful run is not followed by another command on it |

A catalog's line is its kind and what is read from it. A book's chunks are
none, some unfinished, or all complete; a run that fails moves them on as far
as `BookLifecycle` lets it (`Onward`), and never back. A cover is known by its
content type; every way `FetchImage` fails gives none. Commands follow one
another here; what holds when runs overlap is `BookProcess`'s matter. A
Gutenberg ID may occur twice in a catalog, which the parser accepts. What is
printed, the dry run's costs among it, is left out.

`cmd/livetest` is in this module to the extent that a reader could notice it.
Three oddities of it are left as they are, being a developer's tool: it saves
chunks with nil questions, which keeps those of another text; the six
sentences it stores are what a later `process` run of that book resumes as the
whole book (finding 1 by another door); and its built-in entry has genres
that no catalog file may have.

`BookApi` adds the book routes: each is one SELECT and a status code.

### How `ReadingSession` corresponds to the code

| Step | Code |
|---|---|
| `OpenBook`, `BackToLibrary` | `_openBook` of the library's card: push, and read the stores again after the pop |
| `ChunkIdsArrive`, `ChunkIdsFail` | `_loadInitialChunk` after `listChunkIds` |
| `ChunkArrives` | the future of `loadChunk` completes, either way |
| `TapContinue`, `SelectOption`, `TapAdvance` | `_revealQuestions`, `_selectOption` with `_onAnswered`, `_advance` |
| `NextChunk`, `FinishBook` | the two branches of `_onChunkComplete` |
| `ReadAgain` | `_onRestart` |
| `OpenReview`, `RowsArrive` | `_openReview`, `_loadRows` |
| `OpenRow`, `ReviewArrives`, `BackToList` | `_openSession`, `_load`, and `_loadRows` after the pop |
| `ReviewContinue`, `ReviewSelect`, `ReviewAdvance`, `ReviewNext`, `ReviewEnds` | the same panel in the review, and its `_onChunkComplete` |
| `Frame` | `build` of what changed, `initState` and `dispose` of what came and went |
| `DeviceWrites` | the platform performs one write of `shared_preferences` |
| `Die` | the process ends and starts again |

A handler is one action, to the end of its last continuation: it awaits
`SharedPreferences.getInstance()`, which is loaded before the first screen
can be tapped, so that its continuations run before the next event. A write
changes what the app reads at once and reaches the device later, in order; no
screen waits for it. What a handler changes is seen at the next frame. Until
then a tap runs the handler the last frame drew (`drawn`), which finds the
state as it is now, so that `NextChunk` may run twice; `TapsOutrunFrames` says
whether two taps may come before one frame. A panel is kept by the key of its
chunk (`Mounted`).

Abstractions. One book, and one route of each screen: a second tap on the card
before the first frame pushes a second session, which is left out. An
answer's wording and the order of the options are left out; `Outcomes` says
whether a question can be got right, wrong or either. A highlighted word and
the sheet with its meaning change nothing else. The book has at least one
chunk and keeps its chunks, since no statement deletes one.

### How `Settings` corresponds to the code

| Step | Code |
|---|---|
| `LibraryLoads`, `Reload` | `LibraryScreen._load`, and `_openSettings` after the pop |
| `OpenSettings`, `BooksArrive` | `SettingsScreen._load`: the settings at once, the form when the books have arrived |
| `SetNativeLanguage`, `Enroll`, `Unenroll`, `SetActive`, `SetTheme` | the form's handlers |
| `Save` | the form's `_save` up to the first await of `saveSettings` |
| `PlatformWrites` | the platform performs a write; `saveSettings` goes on to the next key or returns |
| `SaveReturns` | `SettingsScreen._save` after the await: callback, `mounted`, pop |
| `PlatformWriteFails` | the write throws through all three |
| `Back`, `TransitionEnds` | the back button; the popped route is disposed of |
| `Restart` | the process ends and starts again |

A write is in memory at once and reaches the device later, in order, as in
`Preferences`; here each is awaited before the next. A popped route stays
mounted until its transition has ended, and a save that completes in between
pops what is then on top (`PopTop`).

Abstractions. The display name and the reading level, which nothing but the
form reads, and the row that leads to the account screen are left out. The
published books do not change in between. A failed load of the books is one
that never ends: either way the reader can only go back. Taps come after the
frame they react to; the catalogue is only its language pairs. `last`,
`hurried` and `torn` are history variables.

## The runs

| Run | Instance | Shows |
|---|---|---|
| `MCContentApi` | one run at a time, 4 sentences, windows of 3 and 1, up to 3 kills or failed calls, a reader beside the runs, with fairness | of the book: type invariant; no gap and no breakdown without questions; reading order; content matches text; a reported success and a published book have no incomplete chunk; each failure wastes at most one generation; nothing stored is bought again; every step is allowed by `BookLifecycle`; the stored chunks are all complete eventually, and for good. Of the reader: what is gathered for a chunk was made from one text; a text once served, in a session or as a row of the review list, is settled and complete; the list of a session, or of a review, stays the whole book |
| `MCGrouping` | 3 sentences of length 1 or 5, limits 3 and 2, one retry, replies of up to 2 groups, with fairness | type invariant; windows and groupings are partitions; limits kept; windows full; request budget; the validator accepts exactly the partitions; every window comes back grouped, whatever the model replies |
| `MCPrepare` | texts of up to 4 or 5 tokens between the markers: English, Japanese, illustrations, anchors | no word is lost, repeated or moved from the raw text to the sentences; no sentence spans a blank line and a caption is only cut after punctuation; sentences end where the comments say and nowhere else |
| `MCCommands` | two books, 5 sound and 11 faulty catalogs, two covers | a catalog is read as its header says; an exit code tells of every unfinished book; readers are shown complete books only; no failed download takes a cover away |
| `MCReadingSession` | 2 chunks of 2 questions, one of each pair possibly wrong, up to 4 writes on their way, with fairness | a cleared chunk is answered; the bookmark follows the reader and is never ahead of the answers on the device; prefilled means passed; badges and card show what is on record; the device goes through states of `ReadingLog`, whenever the app dies; a reader who reads on finishes, or leaves, or meets a failed request |
| `MCChunkContent` | two runs, three attempts, 2 good replies and 14 bad ones, 7 breakdowns, with fairness | type invariant; what validated, the schema accepts and the app can show; rows are listed in order; every step is one of `ChunkLog`, so that the stored rows are one whole set; every run ends |
| `MCSettings` | 3 languages, 2 visits, 4 changes, 2 saves | two saves are not mixed; the theme drawn and the library's filter are those saved; only the settings are popped; the active language is studied |
| `MCBookTruncated` | | a finding: success does not mean the whole book |
| `MCContentQuestionless` | a reader beside the runs | a finding: a chunk may be loaded without its questions |
| `MCReadingSkipped` | taps outrun frames | a finding: a question can be passed over |
| `MCSettingsTorn` | one visit, 3 changes, 2 saves | a finding: an app that ends during a save keeps half of it |
| `MCCoverMissing` | as `MCCommands` | a finding: a missing cover is answered with a server error |

Bounds. Four sentences in two windows give windows of one and of several
chunks, and a kill inside a window, between windows and in the loop. Three
failures let a run fail while it repairs what two earlier ones left.
`MaxAborts` is the only bound on behaviour: there is no bound on the number of
runs, on failed generations, or on how often a book is published and
withdrawn. The passing runs have one run of the command at a time; what holds
when runs overlap is proved (`BookProofs`). In
`MCGrouping` three sentences give windows of one and of several, an oversized
sentence alone and a cut at each place; the replies contain each way
`ValidatePartition` can fail: an index, an empty group, a gap, a repetition,
an end too early or too late. Deadlock is checked everywhere but in `Grouping`
and `ChunkContent`, which end; in `Prepare`, whose `Ended` stutters, the check
shows that no turn of the loop gets stuck. In `MCPrepare` the texts are all
those over an alphabet with one or two tokens of each class that the code
distinguishes: four tokens between two words make every lookahead (closer,
blanks, starter) succeed and fail at each of its steps, five make nested and
unmatched brackets and repeated anchors. In `MCCommands` two entries give a
failed book before and after a good one, and each faulty catalog has one of
the faults the parser looks for; nothing but the number of books and catalogs
is bounded. In `MCChunkContent` two runs are enough for
every conflict over a row, one of the good replies is listed in another order,
and each bad one has one of the faults the validator looks for; the breakdowns
lie on both sides of the ratio and at its ends. In `MCSettings` two visits let
a save be left and overtaken by another, and four changes let a reader enroll
in two languages and give up the active one; `MaxEdits` and `MaxSaves` are the
only bounds on behaviour. One language pair is the case in which the library
picks a language by itself.
In `MCReadingSession` two chunks give a next one and a last one, and two
questions a next one and a last one; one question that may be answered wrong
makes chunks that are passed, failed and redone. `MaxUnwritten` is the only
bound on behaviour: it stops the reader, not the app, while that many writes
are on their way; a restart issues two, so four let a kill fall anywhere in a
restart that follows other writes. Taps that outrun frames are admitted only
in `MCReadingSkipped`.

Fairness (`MCContentApi`). A run that is not killed goes on (weak
fairness of its work); the operator runs the command again as long as it did
not succeed; and no chunk's generation, nor the fetch, fails for ever (strong
fairness of each: they can fail any number of times in between). The code
justifies the first; the other two are what the README asks of the operator,
and without them nothing completes. `MCGrouping` needs only that the
grouping, which is sequential, goes on, and that a request ends, if only by
failing: the HTTP client has a timeout. `MCReadingSession` assumes
that the app draws its frames, the platform performs its writes, every request
ends and the reader, when a tap would read on, taps (weak fairness of each).
The reader may also open the review, leave or restart, any number of times.
`MCChunkContent` assumes that a run that was started goes on (weak fairness of
its work): a request ends, if only by the client's timeout, and Postgres
serves a statement that waits once the row is free. No run need be started.

Every property is broken by at least one mutant of the code (`mutants` in
`PROJECT.json`); the mutated definitions stand next to the definitions they
mutate.

## Findings

1. `cmd/process` resumes as soon as one chunk is stored. A run killed during
   the grouping leaves the beginning of a book, which every later run
   completes and reports as a success (`MCBookTruncated`).
2. `ListQuestionIDs` answers with an empty list where the other queries answer
   404. A book that is withdrawn and published again during one `loadChunk`
   gives a chunk without questions (`MCContentQuestionless`), which
   `QuestionsView` cannot show. What is loaded is otherwise consistent
   (`LoadIsOfOneText`).
3. `_advance` does not look whether the question is answered. A second tap on
   "Next question" before the next frame passes a question over, and the chunk
   counts as cleared (`MCReadingSkipped`). Frames drawn between taps exclude
   it (`ClearedIsAnswered` in `MCReadingSession`).
4. `saveSettings` writes key by key. If the app ends in between, the next
   start reads an active language that is not among those studied
   (`MCSettingsTorn`), which `UserSettings` excludes. As long as no save is cut
   off or left, it does not happen (`ActiveIsEnrolled`).
5. `GetBookImage` scans a NULL content type into a string, which fails before
   the missing image is noticed: a published book without a cover is answered
   with 500, not with the documented 404 (`MCCoverMissing`).

What else the comments promise and the code does not quite keep: the header of
`cmd/process` says that nothing is paid for twice, while a kill between a
generation and its save loses one generation, and no more
(`AtMostOneLostPerAbort`); `SaveChunk` is said to replace the questions, and
with none given keeps the old ones, which is harmless without overlapping runs
(`ContentMatchesText`); and leaving the settings while they are being saved
lets the save pop the library below them (`HomeStays` excepts it).

## What is proved

Every safety property of every passing run is a theorem, for all values of the
constants that the assumptions allow; so are the refinements. Where a property
needs more (no overlapping runs, taps that do not outrun frames), the theorem
states it as a hypothesis.

`BookProofs` proves, for every book length, windowing, grouping, number
of overlapping runs and bound on failures, under the assumptions named in the
modules (`NAssumption`, `NoneAssumption`, `WindowAssumption`,
`GroupingAssumption`, `BoundAssumption`):

- `TypeCorrect`: `Spec => []TypeOK`;
- `NoGap`: `Spec => []StoredWithoutGap`;
- `BreakdownAfterQuestions`: `Spec => []BreakdownNeedsQuestions`;
- `TablesStaySound`: `Spec => []TablesAreSound`, the two together;
- `RunsInvariant`: `Spec => []RunsInv`, from which they follow.

None of them is inductive alone. A run saves chunk `cur` of its list, so
that it leaves no gap only if every chunk before `cur` is stored already
(`MemoryOf`); a run's counters stay in range only because the chunks it has
grouped fit in the windows it has grouped (`CountersOf`: `count <=
WindowEnd[win]`, a window's partition having no more chunks than sentences);
and a breakdown is saved beside questions only because a run that believes
questions are stored is right for ever, no statement deleting a row. The
proof is by the frame of one run's step: what the step does to the tables
(`TablesOK'`, and `Grows`: rows only appear), that it leaves every other run's
memory alone (`OnlyRun`), and the conjuncts of its own run; `KeptIsEnough`
puts these together for every other run, whose facts survive because rows only
appear. There is one lemma per action.

Assuming `Alone` (at most one run is active at a time; the runs that follow
one another are unbounded), it proves

- `AloneInvariant`: `Spec => []AloneInv`;
- `InReadingOrder`, `ContentIsAboutItsText`, `SuccessLeavesNothingUndone`,
  `NothingHalfGeneratedIsPublished`: `ReadingOrder`, `ContentMatchesText`,
  `SuccessIsComplete` and `PublishedIsComplete` hold always, the last two
  together as `CompleteWhenTold` (`FinishedStaysFinished`);
- `NothingSavedIsBoughtAgain`: every step satisfies `SavedIsNeverBoughtAgain`;
- `AtMostOneIsLost`: `AtMostOneLostPerAbort` holds always.

`AloneInv` is needed because each of these speaks of the tables and each is
kept by what a run has in memory. While it groups (`GroupingOf`), the chunks in
memory read as one passage that ends where the windows it has grouped end, the
tables hold exactly the part it has saved, and nothing is generated. In the
loop (`LoopOf`), the tables hold exactly its chunks, what it has not reached is
in the tables as in memory (`Pending`), the chunk in hand lacks what it is
about to buy or save, and every chunk behind it is complete unless a failure
was counted. An aborted run leaves a passage, so the next run resumes from a
state `GroupingOf` and `LoopOf` describe again. `AtMostOneLostPerAbort` is
inductive given these: a generation raises `paid` and puts the run in flight, a
save takes it out of flight and adds a product that was not there (that is
where `LoopOf` is used), a kill exchanges the run in flight for an abort.

And `ProcessImplementsLifecycle`: `Spec => ImplementsLifecycle`, again under
`Alone`. A write maps to the grouping or the
promotion of one chunk whether or not the run is told that it succeeded, an
upsert to a withdrawal or a stutter, `Publish` to `Publish`, and everything
else leaves the tables alone.

`ContentApiProofs` proves, again under `Alone`, `LoadsAreOfOneText`,
`ServedStaysSettled` and `ListsAreTheBook` for every book, every run and every
reader beside them. The reader's steps are none of the book's
(`ReaderOnlyReads`), so that `RunsInv` and `AloneInv` still hold. What is
published is settled: it has chunks, and each is complete. `AloneInv` leaves a
run nothing to write to a settled book (`NothingInHand`: it can have neither a
grouping nor a generation of it in hand), so that it never changes again
(`SettledStays`), withdrawn or not. `ApiInv` says that a reader who holds a
list, a row or a text holds it of a settled book, and that a load has its text
before it asks for anything else.

`GroupingProofs` proves every safety property of `Grouping`, for every book, limit, number of retries and set of
replies (`SizeAssumption`, `LimitAssumption`, `TotalsAssumption`,
`RepliesAssumption`): `GroupingTypeCorrect`, `WindowsArePartition` and
`GroupingsArePartitions` (together `NothingIsLost`), `SizesAreKept` (from
`LimitIsKept` and `WindowsAreFullAlways`), `CallsAreBounded` and
`ValidatorIsExactAlways`, from `GroupingInvariant`. `GroupingInv` says of each loop
what it has done so far: the runs cut cover what was read, each within its
limit and too full for the sentence after it; the groups validated cover the
window up to `want`, and none reaches beyond, so that an accepted reply names
sentences of the book only. The greedy fallback and the split share the lemmas
of their loop (`AddSentenceKeeps`, `CutBeforeKeeps`); `FailKeeps` serves both
ways an attempt fails, `ReturnKeeps` both ways a window ends. That the
validator accepts every partition needs an induction over the reply: what a
partition's group number `k` has to begin with is forced by the groups before
it (`NextGroupIsForced`), and a first group that differs from what the loop
expects is a least element of a set of naturals, which `Least` gives from the
library's theorem on their order. `ValidatedInv` says what the loop has read
of the reply so far.

`CommandsProofs` proves, for every shelf, every set of catalogs and covers and
every sequence of commands, `ReportsAreTrue`, `OnlyCompleteIsListed` and
`CoversAreKept`, from `CommandsInvariant`. `ReportIsTrue` is about a command
that has ended; its strengthening `CountOK` is about one under way: the
failures counted are no fewer than the books behind it (`Undone`) that it did
not finish. It is kept because a step changes the book at hand only
(`ContinueCounts`), and it needs `PlaceOK`, which says that a command is at a
book of its own kind. `ListedIsComplete` needs `ToldOK` (what may be published
is complete) and, for `livetest`, that a command at work has hidden its book.
That a command works on what its catalog says (`CatalogsAreReadRight`) rests on
`CatalogsReadAsDocumented`, which is about `Parse` alone: a file of any number of
lines, in any order, reads to one entry for each block of lines between blank
lines, in the order of the file, or to an error if one of them is no entry.
The only assumption on a file is that it is a list of lines whose Gutenberg
URLs name books (`FilesAssumption`). The parser is a recursive function of the
lines read (`ParserAfter`), and so is what is left of the file without its
comments (`ContentTo`); that such functions exist is `WalkExists`. `HasRead`
relates the two line by line: what the parser has entered is what the blocks
that are already shut say, and what it holds is the block that is still open
(`BlankIsRead`, `LineIsRead`, `AllLines`). The end of the file shuts a block as a
blank line would (`EndIsBlank`), which is the last flush of `Parse`.

`PrepareProofs` is first about the loops of `Segment` and `SegmentJapanese`, for
every text of either language under `ClassAssumption` (which marks belong to
no two classes). `SegmentationKeepsTheText`: called with a text, the loop
leaves sentences that are stretches of it, in its order, neither padded nor
overlapping, with every rune that is no blank in one of them. The invariant
`SegInv` says it of the text up to `Reach`, where the next sentence begins:
`EmitKeeps` is the trimming, `CutKeeps` a cut with only blanks skipped before
the next start, `NoCutKeeps` a turn without one. How far a turn looks ahead
plays no part there. `SegmentationEndsRight` is what the lookahead is for:
between two neighbouring words the text is cut if and only if a sentence ends
there (`SentencesEndRight`). Its invariant `EndInv` says that before `Reach`
this is `Decided`, that no sentence has ended in the one being scanned up to
the scanner's position (`NotYet`), and that no sentence begins after an
abbreviation (`StartOK`, without which `isAbbreviation`, which looks back no
further than `start`, could miss one). `NewlinesDecide` and `StopDecides` say
what one turn leaves undecided for two neighbouring words: at most whether a
sentence ends behind the closers, with the last mark of the run; that is
decided alike by the code and by the definition (`EnglishDecides`,
`JapaneseDecides`), although after a run that ends no sentence the English
loop goes on behind the marks, inside what it has already looked at.
`BooksEndRight` and `BooksAreTheirText` say the same of `Prepare`, for every
catalog and whatever cleaning makes of the raw text (`EntryAssumption`):
trimming hands on a text.

`BooksKeepTheirWords` (`WordsAreKept`) is about cleaning, trimming and
segmentation together, for every catalog whose anchors are not blank lines
(`EntryAssumption`; `Parse` trims every line and skips the empty ones) and under
`BlankAssumption`. Its invariant `WordsInv` follows the words: the words of the
cleaned text are those of the raw body (`CleanKeeps`, because `Respaced` puts
blanks for blanks, `RespacedIsBlank`), the trimmed text has the words from the
first anchor to the last (`TrimKeeps`: a place of an anchor among the runes is
a place of its words among the words, `MatchOfWords`), and once the scan is
over the words of the sentences, one after the other, are those of the text
(`TextIsTold`, from `SegmentationKeepsTheText`). Texts are built by
`FlattenSeq`, a recursive function: `FlattenIs` unfolds it, and
`SeqInduction`, an induction for a set of sequences that follows from the
least element of a set of naturals (`Least`), takes the place of the
library's, whose parameter is an operator.

`BooksKeepTheirParagraphs` (`ParagraphsAreKept`) follows the blanks between the
words as well. `WordsInv` also says that the text is a stretch of the cleaned
body, and how many words stand before it (`IsCut`). `Count` numbers the words of
a text, and words with successive numbers are adjacent (`WordExists`,
`NextWord`); each token of the body has its piece in the cleaned text
(`PieceStandsThere`), a word ends its piece and keeps its number (`PieceEnds`),
and a blank's piece is empty, so that between two adjacent words of the text
is what `Respaced` makes of the blanks between them in the body (`GapStays`,
`GapComesFromThere`). That is one space or nothing in an illustration block,
because blanks are no brackets and the block is open up to the next word
(`BlocksStayOpen`); elsewhere a blank line stays one, and any line break that
stays is a blank line (`GapBreaksThere`). With `SentencesEndRight` a blank line
parts its words (`BlankLineParts`), a gap without one does not after a plain
word (`ProseStays`), and a line break inside a sentence would be a blank line
between two words that are together (`SentencesAreLines`). `BlankAssumption` says
for this that a space and a newline are blanks and differ, and that no blank
is a bracket.

`ChunkContentProofs` proves, for any number of overlapping runs, any replies
and any number of retries (`RunsAssumption`, `RetriesAssumption`,
`NativeAssumption`, `RepliesAreWellTyped`; `NothingAssumption` only says that
the abstract specification's "nothing" is no set of questions),
`ChunkTypeCorrect`, `WhatIsMadeIsUsable`, `QuestionsAreShownInOrder` and
`ContentImplementsLog`. `ChunkInv` needs, beyond what they say, that what a
run holds was validated (`GenerationOf`) and that only the holder of the
chunk's own row has written anything (`TransactionOf`): the upsert of the
chunk, which every save begins with, makes the saves of one chunk follow one
another although each question is a statement of its own. The ids a
transaction has taken are in the order of its questions, whether the rows were
there (then they keep theirs, which were in order) or not.

`SettingsProofs` proves `SaveIsWhole`, `ShowsWhatIsSaved`, `HomeIsKept` and
`ActiveStaysEnrolled` for any languages, catalogs, number of visits, changes
and saves (`CatalogsAssumption`, `NoneAssumption`, `BoundsAssumption`).
`SettingsInv` explains why overlapping saves are not mixed: every save under
way has exactly one write on its way (`OneWriteEach`), because each key is
awaited; so the newest save is behind all others and stays behind
(`Newest`), what it has written nobody writes again, and when the last save
has returned, memory, device and theme are its own (`SavesInOrder`). The rest
is about the screens: at most one form is open, a save that was not left
belongs to it (`ScreensOK`), and the forms that are open hold an active
language that is studied (`EnrolledOK`).

`ReadingSessionProofs` proves, for books of any size (`BookAssumption`,
`ReaderAssumption`), `PositionIsKept` (`BookmarkIsPosition`) without any
hypothesis, even if taps outrun frames, from `PositionInv`; and for a reader
whose taps do not (`~TapsOutrunFrames`, without which finding 3 refutes the
first of them) `ClearedWasAnswered`, `BookmarkIsDurable`, `RecordIsShown` and
`SessionImplementsLog`, from `SessionInv`. The device lags behind memory by
the writes on their way, so `StoreOK` speaks of all the values it will go
through while they are performed: each is a step of `ReadingLog` after the one
before, and each has the answers of the chunks before its bookmark. A handler
appends writes and extends that list of values; a platform write removes the
first; a kill drops the rest. `DrawnIsNow` says that when no frame is due what
can be tapped belongs to the present state, `PanelOK` and `FinishedOK` that
the questions left behind are answered, `ReviewOK` that only what is answered
is reviewed and only what is passed is shown prefilled.

Model-checked only: liveness under fairness, which is out of the prover's
reach (`EventuallyComplete`, `EventuallyGrouped`, `EveryRunEnds`, `NoDeadEnd`).

## Plan

In this order:

1. done: `ContentStore`, `BookProcess`, `BookLifecycle`, the refinement, and
   the proofs of all their safety properties.
2. done: `Grouping`, checked against the definition of a partition, with the
   proofs that discharge `GroupingAssumption`.
3. done: `ChunkContent`, which implements `ChunkLog` and takes the generations
   and saves of `BookProcess` apart.
4. done: `ReadingSession`, which implements `ReadingLog`; a second session
   route is left.
5. done: `ContentApi`, the app's `loadChunk` as several requests to a store
   that the pipeline and the operator change in between, and the review list.
6. done: `Settings`, the key-by-key save against crashes, reads and the form.
7. done: `Segment`, `Prepare` and `Catalog`, the algorithms on texts against
   what their comments say, with the proof that segmentation keeps the text.
8. done: `Commands` and `BookApi`, the shelf of books, with the proofs.
9. done: the proofs of `ChunkContent` and its refinement, of the session and
   its refinement, of the settings, of the validator, of where sentences end,
   of the words and paragraphs of a book, and of the catalog parser.
10. A second session route, pushed by a second tap on the library's card.

Not modelled, and not planned: the transport of HTTP clients and servers (a
request is answered or fails) and the server's start; configuration, which a
command reads before its first book (of two dotenv files the first wins, and an
empty value counts as set); prices and the cost estimate, which are printed
only; the wording of prompts and messages; drawing; the shop, home and detail
screens, which load and show; and the account screen, a thin layer over
Supabase.
