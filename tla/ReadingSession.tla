--------------------------- MODULE ReadingSession ---------------------------
(***************************************************************************)
(* Reading one book in the app: the library's card, the reading session,   *)
(* the review opened on top of it, and the stores they share.              *)
(*                                                                         *)
(* A handler runs to its last await's continuation before the next event.  *)
(* What it changes is seen only at the next frame, and until then a tap    *)
(* still reaches what the last frame drew.                                 *)
(***************************************************************************)
EXTENDS ChunkPanel

CONSTANTS
    Outcomes,         \* how each question may be answered
    TapsOutrunFrames  \* may a second tap come before the frame

ASSUME ReaderAssumption ==
    /\ Outcomes \in [QuestionIds -> SUBSET {"right", "wrong"}]
    /\ TapsOutrunFrames \in BOOLEAN

VARIABLES
    top,          \* the route on top
    card,         \* what the library's card read
    session,      \* the state of ReadingSessionScreen ...
    panel,        \* ... and of the ChunkPanel in it
    list,         \* the state of ChunkListScreen
    review,       \* the state of ChunkReviewSessionScreen ...
    reviewPanel,  \* ... and of its ChunkPanel
    drawn,        \* what the last frame drew
    dirty         \* a frame is due

sessionVars == <<session, panel>>
reviewVars == <<list, review, reviewPanel>>
frameVars == <<drawn, dirty>>
vars == <<storeVars, top, card, sessionVars, reviewVars, frameVars>>

(* The routes, bottom to top.                                              *)
Library == 0
Session == 1
List == 2
Review == 3

Loads == {"loading", "loaded", "failed"}

NoSession == [ids |-> "loading", index |-> 0, complete |-> FALSE,
              content |-> "loading"]
NoList == [cleared |-> 0, rows |-> "loading", answers |-> NoAnswers]
NoReview == [index |-> 0, content |-> "loading", startAnswered |-> FALSE]

ClearedCount == IF session.complete THEN N ELSE session.index

-----------------------------------------------------------------------------
(* Frames and taps.                                                        *)

Mounted(p, chunk, content, startAnswered) ==
    IF content # "loaded" THEN NoPanel
    ELSE IF p # NoPanel /\ p.chunk = chunk THEN p
    ELSE NewPanel(chunk, startAnswered)

SessionControls ==
    {"back"} \cup PanelControls(panel)
        \cup (IF ClearedCount > 0 THEN {"review"} ELSE {})
        \cup (IF session.complete THEN {"read again"} ELSE {})
ListControls == {"back"} \cup (IF list.rows = "loaded" THEN {"row"} ELSE {})
ReviewControls == {"back"} \cup PanelControls(reviewPanel)

Controls ==
    CASE top = Library -> {"card"}
      [] top = Session -> SessionControls
      [] top = List -> ListControls
      [] top = Review -> ReviewControls

(* Build what changed and dispose of what was popped.                      *)
Frame ==
    /\ dirty
    /\ dirty' = FALSE
    /\ session' = IF top >= Session THEN session ELSE NoSession
    /\ panel' = IF top >= Session /\ ~session.complete
                THEN Mounted(panel, session.index, session.content, FALSE)
                ELSE NoPanel
    /\ list' = IF top >= List THEN list ELSE NoList
    /\ review' = IF top >= Review THEN review ELSE NoReview
    /\ reviewPanel' = IF top >= Review
                      THEN Mounted(reviewPanel, review.index, review.content,
                                   review.startAnswered)
                      ELSE NoPanel
    /\ UNCHANGED <<storeVars, top, card>>
    /\ drawn' = [top |-> top, controls |-> Controls']

(* The handler of a control runs; it finds the state as it is now.         *)
Tap(route, control) ==
    /\ drawn.top = route /\ control \in drawn.controls
    /\ TapsOutrunFrames \/ ~dirty
    /\ Room
    /\ dirty' = TRUE
    /\ UNCHANGED drawn

(* Something the app waited for arrives.                                   *)
Arrives == dirty' = TRUE /\ UNCHANGED <<storeVars, top, card, panel, reviewPanel, drawn>>

-----------------------------------------------------------------------------
(* ReadingSessionScreen.                                                   *)

Resume(saved) == IF saved \in Chunks THEN saved ELSE 0

(* Library: the card is tapped.                                            *)
OpenBook ==
    /\ Tap(Library, "card")
    /\ top = Library
    /\ top' = Session
    /\ session' = NoSession
    /\ UNCHANGED <<storeVars, card, panel, reviewVars>>

ChunkIdsArrive ==
    /\ top >= Session /\ session.ids = "loading"
    /\ session' = [session EXCEPT !.ids = "loaded", !.index = Resume(memory.progress)]
    /\ Arrives
    /\ UNCHANGED reviewVars

ChunkIdsFail ==
    /\ top >= Session /\ session.ids = "loading"
    /\ session' = [session EXCEPT !.ids = "failed"]
    /\ Arrives
    /\ UNCHANGED reviewVars

ChunkArrives ==
    /\ top >= Session /\ session.ids = "loaded" /\ session.content = "loading"
    /\ \E outcome \in {"loaded", "failed"} :
        session' = [session EXCEPT !.content = outcome]
    /\ Arrives
    /\ UNCHANGED reviewVars

TapContinue ==
    /\ Tap(Session, "continue")
    /\ panel' = RevealQuestions(panel)
    /\ UNCHANGED <<storeVars, top, card, session, reviewVars>>

SelectOption ==
    /\ Tap(Session, "option")
    /\ ~panel.selected
    /\ \E result \in Outcomes[Question(panel)] : RecordAnswer(Question(panel), result)
    /\ panel' = Select(panel)
    /\ UNCHANGED <<top, card, session, reviewVars>>

TapAdvance ==
    /\ Tap(Session, "advance")
    /\ panel' = Advance(panel)
    /\ UNCHANGED <<storeVars, top, card, session, reviewVars>>

(* Mutant of NextChunk: the position saved is that of the chunk finished.  *)
NextChunkSavingOld ==
    /\ Tap(Session, "next chunk")
    /\ session.index + 1 < N
    /\ SaveChunkIndex(session.index)
    /\ session' = [session EXCEPT !.index = @ + 1, !.content = "loading"]
    /\ UNCHANGED <<top, card, panel, reviewVars>>

(* _onChunkComplete.                                                       *)
NextChunk ==
    /\ Tap(Session, "next chunk")
    /\ session.index + 1 < N
    /\ SaveChunkIndex(session.index + 1)
    /\ session' = [session EXCEPT !.index = @ + 1, !.content = "loading"]
    /\ UNCHANGED <<top, card, panel, reviewVars>>

(* Mutant of FinishBook: nothing is done after the last chunk.             *)
FinishIgnored ==
    /\ Tap(Session, "next chunk")
    /\ session.index + 1 >= N
    /\ UNCHANGED <<storeVars, top, card, sessionVars, reviewVars>>

FinishBook ==
    /\ Tap(Session, "next chunk")
    /\ session.index + 1 >= N
    /\ ClearProgress
    /\ session' = [session EXCEPT !.complete = TRUE]
    /\ UNCHANGED <<top, card, panel, reviewVars>>

(* _onRestart.                                                             *)
ReadAgain ==
    /\ Tap(Session, "read again")
    /\ StartOver
    /\ session' = [session EXCEPT !.index = 0, !.complete = FALSE, !.content = "loading"]
    /\ UNCHANGED <<top, card, panel, reviewVars>>

(* The card reads the stores when the session's route is popped.           *)
BackToLibrary ==
    /\ top = Session
    /\ top' = Library
    /\ card' = memory
    /\ UNCHANGED list

-----------------------------------------------------------------------------
(* ChunkListScreen and ChunkReviewSessionScreen.                           *)

OpenReview ==
    /\ Tap(Session, "review")
    /\ top = Session
    /\ top' = List
    /\ list' = [NoList EXCEPT !.cleared = ClearedCount]
    /\ UNCHANGED <<storeVars, card, sessionVars, review, reviewPanel>>

(* _loadRows: the answers are read after the last response.                *)
RowsArrive ==
    /\ top >= List /\ list.rows = "loading"
    /\ \/ list' = [list EXCEPT !.rows = "loaded", !.answers = memory.answers]
       \/ list' = [list EXCEPT !.rows = "failed"]
    /\ Arrives
    /\ UNCHANGED <<session, review>>

(* _load: the answers are read at the call, not when the chunk arrives.    *)
LoadReview(chunk) ==
    [index |-> chunk, content |-> "loading",
     startAnswered |-> Passed(chunk, memory.answers)]

OpenRow ==
    /\ Tap(List, "row")
    /\ top = List
    /\ \E chunk \in 0..(list.cleared - 1) : review' = LoadReview(chunk)
    /\ top' = Review
    /\ UNCHANGED <<storeVars, card, sessionVars, list, reviewPanel>>

ReviewArrives ==
    /\ top = Review /\ review.content = "loading"
    /\ \E outcome \in {"loaded", "failed"} :
        review' = [review EXCEPT !.content = outcome]
    /\ Arrives
    /\ UNCHANGED <<session, list>>

ReviewContinue ==
    /\ Tap(Review, "continue")
    /\ reviewPanel' = RevealQuestions(reviewPanel)
    /\ UNCHANGED <<storeVars, top, card, sessionVars, list, review>>

ReviewSelect ==
    /\ Tap(Review, "option")
    /\ ~reviewPanel.selected
    /\ \E result \in Outcomes[Question(reviewPanel)] :
        RecordAnswer(Question(reviewPanel), result)
    /\ reviewPanel' = Select(reviewPanel)
    /\ UNCHANGED <<top, card, sessionVars, list, review>>

ReviewAdvance ==
    /\ Tap(Review, "advance")
    /\ reviewPanel' = Advance(reviewPanel)
    /\ UNCHANGED <<storeVars, top, card, sessionVars, list, review>>

ReviewNext ==
    /\ Tap(Review, "next chunk")
    /\ review.index + 1 < list.cleared
    /\ review' = LoadReview(review.index + 1)
    /\ UNCHANGED <<storeVars, top, card, sessionVars, list, reviewPanel>>

(* Mutant of BackToList: the badges are not read again.                    *)
BackToOldList ==
    /\ top = Review
    /\ top' = List
    /\ UNCHANGED <<card, list>>

(* _openSession's continuation: the rows are loaded again.                 *)
BackToList ==
    /\ top = Review
    /\ top' = List
    /\ list' = [list EXCEPT !.rows = "loading"]
    /\ UNCHANGED card

BackToSession ==
    /\ top = List
    /\ top' = Session
    /\ UNCHANGED <<card, list>>

(* Navigator.pop removes whichever route is on top.                        *)
Pop == BackToLibrary \/ BackToSession \/ BackToList

TapBack ==
    /\ \E route \in {Session, List, Review} : Tap(route, "back")
    /\ Pop
    /\ UNCHANGED <<storeVars, sessionVars, review, reviewPanel>>

ReviewEnds ==
    /\ Tap(Review, "next chunk")
    /\ review.index + 1 >= list.cleared
    /\ Pop
    /\ UNCHANGED <<storeVars, sessionVars, review, reviewPanel>>

-----------------------------------------------------------------------------

(* The app starts, on the library.                                         *)
Init ==
    /\ memory = Blank /\ device = Blank /\ unwritten = <<>>
    /\ card = Blank
    /\ top = Library
    /\ session = NoSession /\ panel = NoPanel
    /\ list = NoList /\ review = NoReview /\ reviewPanel = NoPanel
    /\ drawn = [top |-> Library, controls |-> {"card"}]
    /\ dirty = FALSE

(* The app is killed, and started again.                                   *)
Die ==
    /\ ForgetUnwritten
    /\ card' = device
    /\ top' = Library
    /\ session' = NoSession /\ panel' = NoPanel
    /\ list' = NoList /\ review' = NoReview /\ reviewPanel' = NoPanel
    /\ drawn' = [top |-> Library, controls |-> {"card"}]
    /\ dirty' = FALSE

DeviceWrites ==
    /\ PlatformWrites
    /\ UNCHANGED <<top, card, sessionVars, reviewVars, frameVars>>

Read == TapContinue \/ SelectOption \/ TapAdvance \/ NextChunk \/ FinishBook
Arrival == ChunkIdsArrive \/ ChunkIdsFail \/ ChunkArrives \/ RowsArrive \/ ReviewArrives
Redo == ReviewContinue \/ ReviewSelect \/ ReviewAdvance \/ ReviewNext \/ ReviewEnds

Next ==
    \/ Frame
    \/ Arrival
    \/ DeviceWrites
    \/ Read
    \/ Redo
    \/ OpenBook \/ OpenReview \/ OpenRow \/ ReadAgain \/ TapBack
    \/ Die

Spec == Init /\ [][Next]_vars

(* The app draws, the platform writes, every request ends, and a reader    *)
(* who can read on does.                                                   *)
LiveSpec ==
    /\ Spec
    /\ WF_vars(Frame) /\ WF_vars(DeviceWrites) /\ WF_vars(Arrival) /\ WF_vars(Read)

-----------------------------------------------------------------------------
(* Safety.                                                                 *)

(* A chunk counts as cleared only with all of its questions answered, so   *)
(* that every badge of the review list is a pass or a fail.                *)
ClearedIsAnswered ==
    top >= Session => \A c \in 0..(ClearedCount - 1) : Answered(c, memory.answers)

(* The bookmark is where the reader is, through reviews, restarts and      *)
(* resumed sessions; a finished book has none.                             *)
BookmarkIsPosition ==
    top >= Session /\ session.ids = "loaded" =>
        IF session.complete THEN memory.progress = None
        ELSE Resume(memory.progress) = session.index

(* However early the app dies, the chunks before the bookmark on the       *)
(* device have their answers there too.                                    *)
DurableBookmark ==
    \A c \in Chunks : c < device.progress => Answered(c, device.answers)

(* What the screens keep of the stores is what is on record, whatever was  *)
(* redone on top of them: the review list's badges, the library's card,    *)
(* and that a chunk shown prefilled was passed.                            *)
ShownIsOnRecord ==
    /\ top = List /\ list.rows = "loaded" => list.answers = memory.answers
    /\ top = Library => card = memory
    /\ top = Review /\ reviewPanel # NoPanel /\ reviewPanel.startAnswered =>
        Passed(reviewPanel.chunk, memory.answers)

-----------------------------------------------------------------------------
(* Liveness: a reader who reads on finishes the book, unless a request     *)
(* fails or the session is left.                                           *)
NoDeadEnd ==
    top = Session ~>
        \/ top # Session
        \/ session.complete
        \/ session.ids = "failed" \/ session.content = "failed"
=============================================================================
