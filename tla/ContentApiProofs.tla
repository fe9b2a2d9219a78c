-------------------------- MODULE ContentApiProofs --------------------------
(***************************************************************************)
(* What TLAPS proves of ContentApi when runs do not overlap, for every     *)
(* book, every number of kills and failures, and every reader: what was    *)
(* once served is settled.                                                 *)
(***************************************************************************)
EXTENDS ContentApi, BookProofs

(* A book with chunks, each with its questions and its breakdown.          *)
Settled == Stored # {} /\ \A i \in Stored : Complete(i)

Rows == {[id |-> i, preview |-> text[i]] : i \in Stored}

LoadTypeOK ==
    load \in [step : {"none", "ids", "contents", "loaded", "failed"},
              chunk : Index \cup {0}, text : Text \cup {None},
              pending : SUBSET Contents, got : [Contents -> Text \cup {None}]]

(* A reader who holds something holds it of a settled book; a load has its *)
(* text before it asks for anything else.                                  *)
ReaderOK ==
    /\ listed # {} => Settled /\ listed = Stored
    /\ teasers # {} => Settled /\ teasers = Rows
    /\ load.text # None =>
           Settled /\ load.chunk \in Stored /\ load.text = text[load.chunk]
    /\ load.step = "ids" \/ load.pending # {} => load.text # None
    /\ LoadIsOfOneText

(* The inductive invariant, beside RunsInv and AloneInv.                   *)
ApiInv == LoadTypeOK /\ ReaderOK

-----------------------------------------------------------------------------
(* A settled book stays as it is: a run skips all of its chunks, and       *)
(* neither groups it again nor has anything of it in hand.                 *)
LEMMA NothingInHand ==
    ASSUME RunsInv, AloneInv, Settled, NEW p \in Procs
    PROVE  pc[p] \notin {"saveGroup", "saveQuestions", "saveBreakdown"}
<1>1. PICK i \in Stored : i \in Index /\ questions[i] # None
  BY DEF Settled, Complete, Stored
<1>2. pc[p] # "saveGroup"
  BY <1>1, AloneFacts DEF GroupingOf, Grouping
<1>3. ASSUME pc[p] \in {"saveQuestions", "saveBreakdown"} PROVE FALSE
  <2>1. pc[p] \in OnChunk /\ pc[p] \notin Grouping
    BY <1>3 DEF OnChunk, Grouping
  <2>2. cur[p] < count[p]
    BY <2>1, RunsInvFacts DEF CountersOf
  <2>3. cur[p] \in Stored
    BY <2>1, <2>2, ChunkInHand
  <2>4. Complete(cur[p])
    BY <2>3 DEF Settled
  <2>. QED
    BY <1>3, <2>1, <2>4, AloneFacts DEF LoopOf, Complete
<1>. QED
  BY <1>2, <1>3

LEMMA SettledStays ==
    ASSUME RunsInv, AloneInv, Settled, [Next]_vars
    PROVE  UNCHANGED contentVars
<1>1. ASSUME NEW p \in Procs, Run(p) PROVE UNCHANGED contentVars
  <2>1. pc[p] \notin {"saveGroup", "saveQuestions", "saveBreakdown"}
    BY NothingInHand
  <2>2. ASSUME StoreCallFails(p) PROVE UNCHANGED contentVars
    <3>1. UNCHANGED storeVars \/ \E f \in BOOLEAN : UpsertBook(f)
      BY <2>1, <2>2 DEF StoreCallFails, Write
    <3>. QED
      BY <3>1 DEF UpsertBook, storeVars, contentVars
  <2>3. ASSUME SaveBook(p) PROVE UNCHANGED contentVars
    BY <2>3 DEF SaveBook, UpsertBook
  <2>4. ASSUME ~StoreCallFails(p), ~SaveBook(p) PROVE UNCHANGED storeVars
    BY <1>1, <2>1, <2>4
       DEF Run, Start, ResumeStoredChunks, NothingToResume, PrepareBook, PrepareBookFails,
           GroupWindow, SaveGroupedChunk, GroupingDone, SkipComplete, GenerateQuestions,
           GenerateQuestionsFails, SaveQuestions, GenerateBreakdown, GenerateBreakdownFails,
           SaveChunkBreakdown, Finish, Kill, GiveUpOnChunk
  <2>. QED
    BY <2>2, <2>3, <2>4 DEF storeVars, contentVars
<1>2. ASSUME Publish PROVE UNCHANGED contentVars
  BY <1>2 DEF Publish, MarkPublished, contentVars
<1>. QED
  BY <1>1, <1>2 DEF Next, vars, storeVars, contentVars

(* What readers may see is settled.                                        *)
LEMMA VisibleIsSettled ==
    ASSUME AloneInv, Visible, Stored # {}
    PROVE  Settled
BY DEF AloneInv, PublishedIsComplete, Visible, Settled

-----------------------------------------------------------------------------
LEMMA BookStepKeeps ==
    ASSUME RunsInv, AloneInv, ApiInv, [Next]_vars, UNCHANGED apiVars
    PROVE  ApiInv'
<1>1. LoadTypeOK' /\ listed' = listed /\ teasers' = teasers /\ load' = load
  BY DEF ApiInv, LoadTypeOK, apiVars
<1>2. ASSUME Settled
      PROVE  Settled' /\ Stored' = Stored /\ Rows' = Rows /\ text' = text
  BY <1>2, SettledStays DEF Settled, Complete, Stored, Rows, contentVars
<1>3. ReaderOK'
  BY <1>1, <1>2 DEF ApiInv, ReaderOK, LoadIsOfOneText
<1>. QED
  BY <1>1, <1>3 DEF ApiInv

LEMMA NoLoadOK ==
    /\ NoLoad \in [step : {"none", "ids", "contents", "loaded", "failed"},
              chunk : Index \cup {0}, text : Text \cup {None},
              pending : SUBSET Contents, got : [Contents -> Text \cup {None}]]
    /\ NoLoad.text = None /\ NoLoad.step = "none" /\ NoLoad.pending = {}
    /\ \A c \in Contents : NoLoad.got[c] = None
BY DEF NoLoad

(* Opening the book or its review list abandons the load.                  *)
LEMMA OpenKeeps ==
    ASSUME RunsInv, AloneInv, ApiInv, UNCHANGED vars, OpenSession \/ OpenReview
    PROVE  ApiInv'
<1>1. load' = NoLoad /\ LoadTypeOK'
  BY NoLoadOK DEF OpenSession, OpenReview, LoadTypeOK, Index, Text, Contents
<1>2. Settled' = Settled /\ Stored' = Stored /\ Rows' = Rows
  BY DEF vars, storeVars, Settled, Complete, Stored, Rows
<1>3. listed' # {} => Settled /\ listed' = Stored
  BY VisibleIsSettled DEF OpenSession, OpenReview, ListChunkIDs, ApiInv, ReaderOK
<1>4. teasers' # {} => Settled /\ teasers' = Rows
  <2>1. ASSUME OpenReview, teasers' # {} PROVE Settled /\ teasers' = Rows
    <3>1. Visible /\ teasers' = Rows
      BY <2>1 DEF OpenReview, ListChunkSummaries, Rows
    <3>2. Stored # {}
      BY <2>1, <3>1 DEF Rows
    <3>. QED
      BY <3>1, <3>2, VisibleIsSettled
  <2>. QED
    BY <2>1 DEF OpenSession
<1>5. LoadIsOfOneText'
  BY <1>1, NoLoadOK DEF LoadIsOfOneText
<1>. QED
  BY <1>1, <1>2, <1>3, <1>4, <1>5, NoLoadOK DEF ApiInv, ReaderOK

(* The requests of a load leave the lists alone, but for the review's.     *)
LEMMA RequestKeeps ==
    ASSUME ApiInv, UNCHANGED vars, listed' = listed, teasers' \in {teasers, {}},
           LoadTypeOK', LoadIsOfOneText',
           load'.text # None =>
               Settled /\ load'.chunk \in Stored /\ load'.text = text[load'.chunk],
           load'.step = "ids" \/ load'.pending # {} => load'.text # None
    PROVE  ApiInv'
<1>1. Settled' = Settled /\ Stored' = Stored /\ Rows' = Rows /\ text' = text
  BY DEF vars, storeVars, Settled, Complete, Stored, Rows
<1>. QED
  BY <1>1 DEF ApiInv, ReaderOK

LEMMA LoadChunkKeeps ==
    ASSUME RunsInv, AloneInv, ApiInv, UNCHANGED vars, NEW i \in Index, LoadChunk(i)
    PROVE  ApiInv'
<1> DEFINE l == [NoLoad EXCEPT !.chunk = i]
<1>1. /\ l \in [step : {"none", "ids", "contents", "loaded", "failed"},
              chunk : Index \cup {0}, text : Text \cup {None},
              pending : SUBSET Contents, got : [Contents -> Text \cup {None}]]
      /\ l.text = None /\ l.chunk = i /\ l.pending = {}
      /\ \A c \in Contents : l.got[c] = None
  BY NoLoadOK
<1>2. GetChunk(i) \in Text \cup {None}
  BY RunsInvFacts DEF GetChunk, RunsInv, TypeOK, StoreTypeOK
<1> HIDE DEF l
<1>3. CASE GetChunk(i) = None /\ load' = Fail(l)
  <2>1. /\ LoadTypeOK' /\ load'.text = None /\ load'.step = "failed"
        /\ load'.pending = {} /\ load'.got = l.got
    BY <1>1, <1>3 DEF Fail, LoadTypeOK, Index, Text, Contents
  <2>2. LoadIsOfOneText'
    BY <1>1, <2>1 DEF LoadIsOfOneText
  <2>. QED
    BY <2>1, <2>2, RequestKeeps DEF LoadChunk
<1>4. CASE GetChunk(i) # None /\ load' = [l EXCEPT !.step = "ids", !.text = GetChunk(i)]
  <2>1. /\ LoadTypeOK' /\ load'.text = GetChunk(i) /\ load'.chunk = i
        /\ load'.got = l.got /\ load'.text # None
    BY <1>1, <1>2, <1>4 DEF LoadTypeOK, Index, Text, Contents
  <2>2. LoadIsOfOneText'
    BY <1>1, <2>1 DEF LoadIsOfOneText
  <2>3. Visible /\ i \in Stored /\ GetChunk(i) = text[i]
    BY <1>4 DEF GetChunk, Stored
  <2>. QED
    BY <2>1, <2>2, <2>3, VisibleIsSettled, RequestKeeps DEF LoadChunk
<1>. QED
  BY <1>3, <1>4 DEF LoadChunk, l

LEMMA LoadQuestionIdsKeeps ==
    ASSUME ApiInv, UNCHANGED vars, LoadQuestionIds
    PROVE  ApiInv'
<1>1. ListQuestionIDs(load.chunk) \cup {"breakdown"} \in SUBSET Contents
  BY DEF ListQuestionIDs, Contents
<1>2. /\ LoadTypeOK' /\ load'.text = load.text /\ load'.chunk = load.chunk
      /\ load'.got = load.got /\ load.text # None
  BY <1>1 DEF LoadQuestionIds, ApiInv, ReaderOK, LoadTypeOK, Index, Text, Contents
<1>3. LoadIsOfOneText'
  BY <1>2 DEF LoadIsOfOneText, ApiInv, ReaderOK
<1>. QED
  BY <1>2, <1>3, RequestKeeps DEF LoadQuestionIds, ApiInv, ReaderOK

(* What an answer holds was made from the text the load has.               *)
LEMMA LoadContentKeeps ==
    ASSUME RunsInv, AloneInv, ApiInv, UNCHANGED vars,
           NEW content \in Contents, LoadContent(content)
    PROVE  ApiInv'
<1> DEFINE value == IF content = "breakdown" THEN GetBreakdown(load.chunk)
                                             ELSE GetQuestion(load.chunk)
<1>1. /\ load' = Received(load, content, value)
      /\ load.text # None /\ load.chunk \in Stored /\ load.text = text[load.chunk]
  BY DEF LoadContent, ApiInv, ReaderOK
<1>2. value \in {None, load.text}
  <2>1. load.chunk \in Index /\ ContentMatchesText
    BY <1>1 DEF Stored, AloneInv
  <2>. QED
    BY <1>1, <2>1 DEF ContentMatchesText, GetBreakdown, GetQuestion
<1> HIDE DEF value
<1>3. CASE load' = Fail(load)
  <2>1. /\ LoadTypeOK' /\ load'.text = load.text /\ load'.chunk = load.chunk
        /\ load'.got = load.got
    BY <1>3 DEF Fail, ApiInv, LoadTypeOK, Index, Text, Contents
  <2>2. LoadIsOfOneText'
    BY <2>1 DEF LoadIsOfOneText, ApiInv, ReaderOK
  <2>. QED
    BY <1>1, <2>1, <2>2, RequestKeeps DEF LoadContent, ApiInv, ReaderOK
<1>4. CASE load' = [load EXCEPT !.got[content] = value, !.pending = @ \ {content},
                                !.step = IF load.pending = {content} THEN "loaded" ELSE @]
  <2>1. /\ load'.text = load.text /\ load'.chunk = load.chunk
        /\ load'.got = [load.got EXCEPT ![content] = value]
        /\ load'.pending = load.pending \ {content} /\ load'.step \in {"loaded", load.step}
        /\ load' = [step |-> load'.step, chunk |-> load.chunk, text |-> load.text,
                    pending |-> load'.pending, got |-> load'.got]
    BY <1>4 DEF ApiInv, LoadTypeOK
  <2>3. load'.got \in [Contents -> Text \cup {None}] /\ load'.pending \in SUBSET Contents
    BY <1>2, <2>1 DEF ApiInv, LoadTypeOK
  <2>4. LoadTypeOK'
    BY <2>1, <2>3 DEF ApiInv, LoadTypeOK, Index, Text, Contents
  <2>2. LoadIsOfOneText'
    BY <1>2, <2>1 DEF LoadIsOfOneText, ApiInv, ReaderOK, LoadTypeOK
  <2>. QED
    BY <1>1, <2>1, <2>2, <2>4, RequestKeeps DEF LoadContent, ApiInv, ReaderOK
<1>. QED
  BY <1>1, <1>3, <1>4 DEF Received

LEMMA RequestFailsKeeps ==
    ASSUME ApiInv, UNCHANGED vars, RequestFails
    PROVE  ApiInv'
<1>1. /\ LoadTypeOK' /\ load'.text = load.text /\ load'.chunk = load.chunk
      /\ load'.got = load.got /\ load'.step = "failed" /\ load'.pending = {}
  BY DEF RequestFails, Fail, ApiInv, LoadTypeOK
<1>2. LoadIsOfOneText'
  BY <1>1 DEF LoadIsOfOneText, ApiInv, ReaderOK
<1>. QED
  BY <1>1, <1>2, RequestKeeps DEF RequestFails, ApiInv, ReaderOK

LEMMA ApiInvStep ==
    ASSUME RunsInv, AloneInv, ApiInv, [ApiNext]_<<vars, apiVars>>
    PROVE  ApiInv'
<1>1. ASSUME Reader, UNCHANGED vars PROVE ApiInv'
  BY <1>1, OpenKeeps, LoadChunkKeeps, LoadQuestionIdsKeeps, LoadContentKeeps,
     RequestFailsKeeps DEF Reader
<1>. QED
  BY <1>1, BookStepKeeps DEF ApiNext

-----------------------------------------------------------------------------
(* The theorems.                                                           *)

(* The reader's steps are none of the book's.                              *)
LEMMA ReaderOnlyReads == ApiSpec => Spec
<1>1. ApiInit => Init
  BY DEF ApiInit
<1>2. [ApiNext]_<<vars, apiVars>> => [Next]_vars
  BY DEF ApiNext
<1>. QED
  BY <1>1, <1>2, PTL DEF ApiSpec, Spec

(* Without overlapping runs, whatever a reader holds is of a settled book. *)
THEOREM ReaderInvariant ==
    ASSUME Alone
    PROVE  ApiSpec => []ApiInv
<1>1. ApiInit => ApiInv
  BY NoLoadOK
     DEF ApiInit, ApiInv, LoadTypeOK, ReaderOK, LoadIsOfOneText, Index, Text, Contents
<1>2. RunsInv /\ AloneInv /\ ApiInv /\ [ApiNext]_<<vars, apiVars>> => ApiInv'
  BY ApiInvStep
<1>. QED
  BY <1>1, <1>2, ReaderOnlyReads, RunsInvariant, AloneInvariant, PTL DEF ApiSpec

(* Without overlapping runs, what a load has gathered was all made from    *)
(* the text it is shown with, however long its requests take.              *)
THEOREM LoadsAreOfOneText ==
    ASSUME Alone
    PROVE  ApiSpec => []LoadIsOfOneText
<1>1. ApiInv => LoadIsOfOneText
  BY DEF ApiInv, ReaderOK
<1>. QED
  BY <1>1, ReaderInvariant, PTL

(* Without overlapping runs, a text once served is stored as it was, and   *)
(* complete, for good.                                                     *)
THEOREM ServedStaysSettled ==
    ASSUME Alone
    PROVE  ApiSpec => []ServedIsSettled
<1>1. ApiInv => ServedIsSettled
  BY DEF ApiInv, ReaderOK, ServedIsSettled, Settled, Rows
<1>. QED
  BY <1>1, ReaderInvariant, PTL

(* Without overlapping runs, the list of a session or of a review is the   *)
(* whole book as long as it is open.                                       *)
THEOREM ListsAreTheBook ==
    ASSUME Alone
    PROVE  ApiSpec => []ListedIsBook
<1>1. ApiInv => ListedIsBook
  <2>1. {t.id : t \in Rows} = Stored
    <3>1. \A i \in Stored : [id |-> i, preview |-> text[i]] \in Rows
      BY DEF Rows
    <3>2. \A t \in Rows : t.id \in Stored
      BY DEF Rows
    <3>3. \A i \in Stored : i \in {t.id : t \in Rows}
      <4>1. ASSUME NEW i \in Stored PROVE \E t \in Rows : i = t.id
        <5>1. [id |-> i, preview |-> text[i]].id = i
          OBVIOUS
        <5>. QED
          BY <3>1, <5>1
      <4>. QED
        BY <4>1
    <3>. QED
      BY <3>2, <3>3
  <2>. QED
    BY <2>1 DEF ApiInv, ReaderOK, ListedIsBook
<1>. QED
  BY <1>1, ReaderInvariant, PTL
=============================================================================
