------------------------------ MODULE Commands ------------------------------
(***************************************************************************)
(* The operator's commands on a shelf of books: cmd/process over the       *)
(* entries of a catalog, -dry-run and -book included, cmd/ingest,          *)
(* cmd/livetest, and the hand-typed UPDATE that publishes a book.          *)
(*                                                                         *)
(* BookProcess models what cmd/process does with one book; here that is    *)
(* one step with its outcome.  A book's stored chunks are none, some of    *)
(* them unfinished (part), or all with questions and breakdown (complete). *)
(* BookLifecycle, which BookProcess implements, is why a step never takes  *)
(* a book back.  Commands follow one another; any may be killed.           *)
(***************************************************************************)
EXTENDS Catalog

CONSTANTS
  Books,     \* Gutenberg IDs
  LiveBook,  \* the book cmd/livetest has built in
  Files,     \* the catalog files the operator may have
  Pictures   \* covers a download may give, each of its own content type

ASSUME LiveBookAssumption == LiveBook \in Books

(* A file is a list of lines, and the URLs in it are those of the books.   *)
ASSUME FilesAssumption ==
  \A file \in Files :
    /\ file \in Seq(Range(file))
    /\ \A line \in Range(file) : IsUrl(line) => line[2] \in Books \cup {None}

VARIABLES
  row,      \* the book rows: status, cover, and how far the chunks are
  files,    \* what cmd/ingest's output directory has of a book
  cmd,      \* the command that runs, or ran last
  told      \* the books a successful run has reported on since touched

vars == <<row, files, cmd, told>>

(* How far a book's chunks may be after a run that met it at a stage.      *)
Onward == [none |-> {"none", "part", "complete"},
           part |-> {"part", "complete"}, complete |-> {"complete"}]

NoRow == [status |-> "absent", image |-> None, contentType |-> None, chunks |-> "none"]

Init ==
  /\ row = [b \in Books |-> NoRow]
  /\ files = [b \in Books |-> "old"]
  /\ cmd = [name |-> "none", at |-> "ended", todo |-> <<>>, all |-> {}, failed |-> 0]
  /\ told = {}

-----------------------------------------------------------------------------
(* The book row.  FetchImage's failures (no answer, a status other than    *)
(* 2xx, more than 5 MiB, not an image) all come to no picture.             *)

FetchedImages == Pictures \cup {None}

Coalesce(new, old) == IF new # None THEN new ELSE old

(* Mutant of UpsertBook: a download that failed overwrites the cover. *)
UpsertBookOverCover(b, fetched) ==
  row' = [row EXCEPT ![b].status = "processing", ![b].image = fetched,
                     ![b].contentType = Coalesce(fetched, @)]

(* Mutant of UpsertBook: a row that exists keeps its status. *)
UpsertBookAsListed(b, fetched) ==
  row' = [row EXCEPT ![b].status = IF @ = "absent" THEN "processing" ELSE @,
                     ![b].image = Coalesce(fetched, @),
                     ![b].contentType = Coalesce(fetched, @)]

(* The sniffed content type of a picture is told by the picture.           *)
UpsertBook(b, fetched) ==
  row' = [row EXCEPT ![b].status = "processing",
                     ![b].image = Coalesce(fetched, @),
                     ![b].contentType = Coalesce(fetched, @)]

-----------------------------------------------------------------------------
(* Starting and ending a command.                                          *)

Running == cmd.at # "ended"

Entry == Head(cmd.todo)

(* Mutant of Continue: a failed book is logged and not counted. *)
ContinueUncounted(fails) == cmd' = [cmd EXCEPT !.todo = Tail(@), !.at = "entry"]

(* The next entry, and one more failure if fails. *)
Continue(fails) ==
  cmd' = [cmd EXCEPT !.todo = Tail(@), !.at = "entry",
                     !.failed = IF fails THEN @ + 1 ELSE @]

(* What filterByGutenbergID leaves of the entries; 0 asks for every one.   *)
(* An entry is known by its ID here, so those of one ID are alike.         *)
FilterByGutenbergID(entries, wantID) ==
  IF wantID = 0 THEN entries
  ELSE LET found == {p \in 1 .. Len(entries) : entries[p] = wantID}
       IN  [p \in 1 .. Cardinality(found) |-> wantID]

(* run: the catalog, the selection, the key and the database, in order;    *)
(* any of them missing ends the command before the first book.             *)
StartOver(name, entries, ready) ==
  LET goes == entries # <<>> /\ ready IN
  /\ cmd' = [name |-> name, failed |-> 0, todo |-> IF goes THEN entries ELSE <<>>,
             all |-> IF goes THEN Range(entries) ELSE {},
             at |-> IF goes THEN "entry" ELSE "ended"]
  /\ files' = [b \in Books |-> "old"]
  /\ told' = IF name \in {"process", "livetest"} THEN told \ Range(entries) ELSE told
  /\ UNCHANGED row

(* What a command finds in the catalog: nothing if it has a faulty block.  *)
Entries(file) == IF Parse(file).error THEN <<>> ELSE Parse(file).entries

Readings == {Entries(file) : file \in Files}

Start ==
  /\ ~Running
  /\ \E name \in {"process", "dry-run"}, entries \in Readings,
         wantID \in Books \cup {0}, ready \in BOOLEAN :
       StartOver(name, FilterByGutenbergID(entries, wantID), ready)

StartIngest ==
  /\ ~Running
  /\ \E entries \in Readings, ready \in BOOLEAN : StartOver("ingest", entries, ready)

StartLivetest ==
  /\ ~Running
  /\ \E ready \in BOOLEAN : StartOver("livetest", <<LiveBook>>, ready)

(* The exit code is 1 if a book failed. *)
Exit ==
  /\ cmd.at = "entry" /\ cmd.todo = <<>>
  /\ cmd' = [cmd EXCEPT !.at = "ended"]
  /\ told' = IF cmd.name = "process" /\ cmd.failed = 0 THEN told \cup cmd.all ELSE told
  /\ UNCHANGED <<row, files>>

AtEntry(name) == cmd.name = name /\ cmd.at = "entry" /\ cmd.todo # <<>>

-----------------------------------------------------------------------------
(* cmd/process, one entry after the other.                                 *)

ProcessBook ==
  /\ AtEntry("process")
  /\ \E fetched \in FetchedImages : UpsertBook(Entry, fetched)
  /\ cmd' = [cmd EXCEPT !.at = "content"]
  /\ UNCHANGED <<files, told>>

(* Fetched or resumed, every chunk of the book gets what it lacks.         *)
BookDone ==
  /\ cmd.at = "content"
  /\ row' = [row EXCEPT ![Entry].chunks = "complete"]
  /\ Continue(FALSE)
  /\ UNCHANGED <<files, told>>

(* printDryRunEstimate prepares the book and writes nothing.               *)
DryRunBook ==
  /\ AtEntry("dry-run")
  /\ \E fails \in BOOLEAN : Continue(fails)
  /\ UNCHANGED <<row, files, told>>

-----------------------------------------------------------------------------
(* cmd/ingest: the prepared text, then its sentences, a file each.  A file *)
(* is from an earlier command (old), torn by a failed write, or new.       *)

WriteFile(b, content) == files' = [files EXCEPT ![b] = content]

IngestText ==
  /\ AtEntry("ingest")
  /\ WriteFile(Entry, "text")
  /\ cmd' = [cmd EXCEPT !.at = "sentences"]
  /\ UNCHANGED <<row, told>>

IngestSentences ==
  /\ cmd.at = "sentences"
  /\ WriteFile(Entry, "text and sentences")
  /\ Continue(FALSE)
  /\ UNCHANGED <<row, told>>

(* The book is not prepared, or either file is not written.                *)
IngestFails ==
  /\ AtEntry("ingest") \/ cmd.at = "sentences"
  /\ UNCHANGED files \/ WriteFile(Entry, "torn")
  /\ Continue(TRUE)
  /\ UNCHANGED <<row, told>>

-----------------------------------------------------------------------------
(* cmd/livetest generates first, and then saves six sentences of its book  *)
(* over the rows it finds: its first chunk complete, the others without    *)
(* questions unless the row they overwrite has some.                       *)

LivetestSaves ==
  /\ AtEntry("livetest")
  /\ UpsertBook(LiveBook, None)
  /\ cmd' = [cmd EXCEPT !.at = "chunks"]
  /\ UNCHANGED <<files, told>>

SaveLivetest ==
  \E s \in {"part", "complete"} : row' = [row EXCEPT ![LiveBook].chunks = s]

LivetestChunks ==
  /\ cmd.at = "chunks"
  /\ SaveLivetest
  /\ Continue(FALSE)
  /\ UNCHANGED <<files, told>>

-----------------------------------------------------------------------------
(* Failures.                                                               *)

(* The row as a step that does not end well leaves it: a failed or cut off *)
(* write may have been committed, and what a book has stored stays.        *)
Partly ==
  \/ UNCHANGED row
  \/ AtEntry("process") /\ \E fetched \in FetchedImages : UpsertBook(Entry, fetched)
  \/ /\ cmd.at = "content"
     /\ \E s \in Onward[row[Entry].chunks] : row' = [row EXCEPT ![Entry].chunks = s]
  \/ AtEntry("livetest") /\ UpsertBook(LiveBook, None)
  \/ cmd.at = "chunks" /\ SaveLivetest

(* The book cannot be saved or prepared, or a chunk is left without        *)
(* questions or breakdown: the loop goes on with the next entry.           *)
BookFails ==
  /\ AtEntry("process") \/ AtEntry("livetest") \/ cmd.at \in {"content", "chunks"}
  /\ Partly
  /\ Continue(TRUE)
  /\ UNCHANGED <<files, told>>

(* The process ends where it is.                                           *)
Kill ==
  /\ Running
  /\ Partly
  /\ cmd' = [cmd EXCEPT !.at = "ended", !.name = "killed"]
  /\ UNCHANGED <<files, told>>

-----------------------------------------------------------------------------
(* The README's UPDATE, for a book that a successful run has reported on.  *)
Publish ==
  /\ ~Running
  /\ \E b \in told : row' = [row EXCEPT ![b].status = "published"]
  /\ UNCHANGED <<files, cmd, told>>

Next ==
  \/ Start \/ StartIngest \/ StartLivetest \/ Exit
  \/ ProcessBook \/ BookDone \/ DryRunBook
  \/ IngestText \/ IngestSentences \/ IngestFails
  \/ LivetestSaves \/ LivetestChunks
  \/ BookFails \/ Kill
  \/ Publish

Spec == Init /\ [][Next]_vars

-----------------------------------------------------------------------------

Misread == {file \in Files : ~ReadsAsDocumented(file)}

(* A command works on a catalog only as that catalog's header says: none   *)
(* of those that the books it was asked for may have come from is misread. *)
CatalogIsReadRight == \A file \in Misread : ~(cmd.all \subseteq Range(Entries(file)))

(* A command that has ended reports no fewer failures than there are books *)
(* it was asked for and did not finish: one failed book neither stops nor  *)
(* hides another, and exit code 0 means that all is there.                 *)
Unfinished(b) ==
  CASE cmd.name = "process" -> row[b].chunks # "complete"
    [] cmd.name = "ingest" -> files[b] # "text and sentences"
    [] cmd.name = "livetest" -> row[b].chunks = "none"
    [] OTHER -> FALSE

ReportIsTrue ==
  ~Running => Cardinality({b \in cmd.all : Unfinished(b)}) <= cmd.failed

(* No command takes a stored cover away or gives it another's type,        *)
(* whichever downloads fail.                                               *)
CoverIsKept ==
  [][\A b \in Books :
       /\ row[b].image # None => row'[b].image # None
       /\ row'[b].contentType = row'[b].image]_row

(* What readers are shown is complete, through failed runs, kills,         *)
(* livetest, and catalogs that change in between.                          *)
ListedIsComplete ==
  \A b \in Books : row[b].status = "published" => row[b].chunks = "complete"
=============================================================================
