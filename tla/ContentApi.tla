----------------------------- MODULE ContentApi -----------------------------
(***************************************************************************)
(* A reader of one book through book-content, while cmd/process and the    *)
(* operator work on its tables.  The app lists the book's chunks when it   *)
(* is opened and loads a chunk by several requests; each is one SELECT,    *)
(* which sees only a published book.                                       *)
(***************************************************************************)
EXTENDS BookProcess

VARIABLES
    listed,  \* the chunk ids the open session works with
    load,    \* the chunk being loaded, or shown, by BookContentRepository
    teasers  \* the rows of the review list, each of a chunk and its text

apiVars == <<listed, load, teasers>>

(* A question row is known by its type, a chunk by its index.              *)
Types == {"vocab", "grammar", "comprehension"}
Contents == Types \cup {"breakdown"}

NoLoad == [step |-> "none", chunk |-> 0, text |-> None, pending |-> {},
           got |-> [c \in Contents |-> None]]

(* Mutant of Visible: the queries do not look at the status.               *)
VisibleIfPresent == status # "absent"

Visible == status = "published"

-----------------------------------------------------------------------------
(* The queries.  A lookup that finds nothing is a 404; a list that finds   *)
(* nothing is empty.                                                       *)

(* Mutant of ListChunkIDs: chunks of a book in processing are listed.      *)
ListAllChunkIDs == Stored

ListChunkIDs == IF Visible THEN Stored ELSE {}

(* A row's preview is cut from the chunk's text; here it is the text.      *)
ListChunkSummaries ==
    IF Visible THEN {[id |-> i, preview |-> text[i]] : i \in Stored} ELSE {}

GetChunk(i) == IF Visible THEN text[i] ELSE None

ListQuestionIDs(i) == IF Visible /\ questions[i] # None THEN Types ELSE {}

GetQuestion(i) == IF Visible THEN questions[i] ELSE None

(* Mutant of GetBreakdown: the book's first breakdown.                     *)
GetFirstBreakdown(i) == IF Visible THEN breakdown[0] ELSE None

GetBreakdown(i) == IF Visible THEN breakdown[i] ELSE None

-----------------------------------------------------------------------------
(* The app.                                                                *)

Fail(l) == [l EXCEPT !.step = "failed", !.pending = {}]

(* A session is opened, whatever the one before it was doing.              *)
OpenSession ==
    /\ listed' = ListChunkIDs
    /\ load' = NoLoad
    /\ teasers' = {}

(* The review list is opened on the session; a redo loads one of its rows. *)
(* Of the list and the loads only the one begun last is followed.          *)
OpenReview ==
    /\ listed # {}
    /\ teasers' = ListChunkSummaries
    /\ load' = NoLoad
    /\ UNCHANGED listed

(* loadChunk: getChunk ...                                                 *)
LoadChunk(i) ==
    /\ load.step \notin {"ids", "contents"}
    /\ i \in listed \cup {t.id : t \in teasers}
    /\ load' = LET l == [NoLoad EXCEPT !.chunk = i]
               IN  IF GetChunk(i) = None THEN Fail(l)
                   ELSE [l EXCEPT !.step = "ids", !.text = GetChunk(i)]
    /\ teasers' = {}
    /\ UNCHANGED listed

(* ... then getQuestionIds ...                                             *)
LoadQuestionIds ==
    /\ load.step = "ids"
    /\ load' = [load EXCEPT !.step = "contents",
                            !.pending = ListQuestionIDs(load.chunk) \cup {"breakdown"}]
    /\ UNCHANGED <<listed, teasers>>

(* Future.wait is over when every answer has come, or one has failed.      *)
Received(l, content, value) ==
    IF value = None THEN Fail(l)
    ELSE [l EXCEPT !.got[content] = value,
                   !.pending = @ \ {content},
                   !.step = IF l.pending = {content} THEN "loaded" ELSE @]

(* ... then every question and the breakdown, concurrently.                *)
LoadContent(content) ==
    /\ content \in load.pending
    /\ load' = Received(load, content,
                        IF content = "breakdown" THEN GetBreakdown(load.chunk)
                                                 ELSE GetQuestion(load.chunk))
    /\ UNCHANGED <<listed, teasers>>

(* The service is not reached, or answers with an error.                   *)
RequestFails ==
    /\ load.step \in {"ids", "contents"}
    /\ load' = Fail(load)
    /\ UNCHANGED <<listed, teasers>>

Reader ==
    \/ OpenSession \/ OpenReview
    \/ \E i \in Index : LoadChunk(i)
    \/ LoadQuestionIds
    \/ \E content \in Contents : LoadContent(content)
    \/ RequestFails

ApiInit == Init /\ listed = {} /\ load = NoLoad /\ teasers = {}

ApiNext ==
    \/ Next /\ UNCHANGED apiVars
    \/ Reader /\ UNCHANGED vars

ApiSpec == ApiInit /\ [][ApiNext]_<<vars, apiVars>>

(* The reader need not do anything; the operator and the command go on.    *)
ApiLiveSpec == ApiSpec /\ Fairness

-----------------------------------------------------------------------------

(* Without overlapping runs, everything gathered for a chunk was made from *)
(* the text it is shown with, whatever happened between two requests.      *)
LoadIsOfOneText == \A c \in Contents : load.got[c] \in {None, load.text}

(* Without overlapping runs, a text that a reader was once served is the   *)
(* stored one for good, and has its questions and breakdown: loading it    *)
(* again can fail only because the book is withdrawn or the service is     *)
(* down.                                                                   *)
ServedIsSettled ==
    /\ load.text # None => text[load.chunk] = load.text /\ Complete(load.chunk)
    /\ \A t \in teasers : text[t.id] = t.preview /\ Complete(t.id)

(* Without overlapping runs, the chunks a session works with stay all the  *)
(* chunks of the book, so that the end of its list is the end of the book; *)
(* a review list, if it has rows at all, has a row for each of them.       *)
ListedIsBook ==
    /\ listed \in {{}, Stored}
    /\ {t.id : t \in teasers} \in {{}, Stored}

(* LoadedChunk's comment (app/lib/models/loaded_chunk.dart:15): "Always    *)
(* exactly 3" questions for a chunk that has been through the pipeline.    *)
LoadedHasQuestions ==
    load.step = "loaded" => \A t \in Types : load.got[t] # None
=============================================================================
