------------------------ MODULE ReadingSessionProofs ------------------------
(***************************************************************************)
(* What TLAPS proves of ReadingSession, for books of any size: the         *)
(* bookmark is where the reader is, however fast he taps; and when no tap  *)
(* outruns a frame, what counts as cleared was answered, on the device     *)
(* too, what is shown is on record, and the device's log is in order.      *)
(***************************************************************************)
EXTENDS ReadingRefinement, SequenceTheorems, TLAPS

(* The writes there are.                                                   *)
Writes ==
    {[key |-> "progress", value |-> p] : p \in {None} \cup Chunks}
        \cup {[key |-> "answers", value |-> a] : a \in [QuestionIds -> Results]}

StoreTyped == memory \in Stored /\ device \in Stored /\ unwritten \in Seq(Writes)

SessionStates == [ids : Loads, index : Chunks, complete : BOOLEAN, content : Loads]
ListStates == [cleared : 0..N, rows : Loads, answers : [QuestionIds -> Results]]
ReviewStates == [index : Chunks, content : Loads, startAnswered : BOOLEAN]

TypeOK ==
    /\ StoreTyped
    /\ top \in {Library, Session, List, Review}
    /\ session \in SessionStates /\ panel \in Panel \cup {NoPanel}
    /\ list \in ListStates
    /\ review \in ReviewStates /\ reviewPanel \in Panel \cup {NoPanel}
    /\ dirty \in BOOLEAN

(* Until the chunk ids are there nothing can be finished or moved.         *)
IdsFirst == session.ids # "loaded" =>
    /\ session.index = 0 /\ ~session.complete /\ session.content = "loading"
    /\ drawn.top = Session => {"next chunk", "read again"} \cap drawn.controls = {}

CompleteAtEnd == session.complete => session.index + 1 >= N

(* What was drawn of a panel is drawn of one that is still there.          *)
PanelTaps == {"continue", "option", "advance", "next chunk"}

PanelsDrawn == PanelTaps \cap drawn.controls # {} =>
    /\ drawn.top = Session => panel # NoPanel
    /\ drawn.top = Review => reviewPanel # NoPanel

(* The invariant that holds even if taps outrun frames.                    *)
PositionInv ==
    /\ TypeOK
    /\ IdsFirst
    /\ CompleteAtEnd
    /\ BookmarkIsPosition
    /\ PanelsDrawn

-----------------------------------------------------------------------------
(* What the stores hold, and will.                                         *)

At(s) == IF s.progress = None THEN 0 ELSE s.progress
Bookmarked(s) == \A c \in Chunks : c < s.progress => Answered(c, s.answers)
AllAnswered(s) == \A c \in Chunks : Answered(c, s.answers)

(* The steps of ReadingLog, from one value of the stores to the next.      *)
LogStep(s, t) ==
    \/ /\ t.progress = s.progress
       /\ \E q \in QuestionIds, result \in {"right", "wrong"} :
            /\ q[1] = At(s) \/ Answered(q[1], s.answers)
            /\ t.answers = [s.answers EXCEPT ![q] = result]
    \/ /\ t.answers = s.answers
       /\ \/ Answered(At(s), s.answers) /\ At(s) + 1 < N /\ t.progress = At(s) + 1
          \/ AllAnswered(s) /\ t.progress = None
          \/ AllAnswered(s) /\ s.progress = None /\ t.progress = 0
    \/ s.progress = 0 /\ t.progress = 0 /\ t.answers = NoAnswers

(* The values the device goes through while writes, the queue, is          *)
(* performed: each a step of the log after the one before.                 *)
Passes(values, from, writes, to) ==
    /\ Len(values) = Len(writes) + 1
    /\ values[1] = from /\ values[Len(writes) + 1] = to
    /\ \A i \in 1..Len(writes) :
        /\ values[i + 1] = Perform(values[i], writes[i])
        /\ LogStep(values[i], values[i + 1])

StoreOK(from, writes, to) ==
    /\ from \in Stored /\ to \in Stored /\ writes \in Seq(Writes)
    /\ Bookmarked(from) /\ Bookmarked(to)
    /\ \E values \in Seq(Stored) : Passes(values, from, writes, to)

(* What is drawn when no frame is due.                                     *)
DrawnIsNow == ~dirty =>
    /\ drawn.top = top /\ drawn.controls = Controls
    /\ panel = NoPanel \/ (/\ top >= Session /\ ~session.complete
                           /\ session.content = "loaded" /\ panel.chunk = session.index)
    /\ top < List => list = NoList
    /\ reviewPanel = NoPanel \/ (top = Review /\ reviewPanel.chunk = review.index)

(* The questions left behind in the panel are answered.                    *)
PanelOK == panel # NoPanel =>
    /\ ~panel.startAnswered
    /\ panel.phase = "reading" => panel.question = 1 /\ ~panel.selected
    /\ \A k \in 1..PerChunk :
        k < panel.question \/ (k = panel.question /\ panel.selected) =>
            memory.answers[<<panel.chunk, k>>] # "none"
    /\ panel.phase = "breakdown" => Answered(panel.chunk, memory.answers)

FinishedOK == top >= Session /\ session.complete => AllAnswered(memory)

(* Only what is answered is reviewed, and only what is passed prefilled.   *)
ReviewOK ==
    /\ \A c \in Chunks : c < list.cleared => Answered(c, memory.answers)
    /\ top = Review =>
        /\ review.index < list.cleared
        /\ review.startAnswered => Passed(review.index, memory.answers)
    /\ reviewPanel # NoPanel =>
        /\ Answered(reviewPanel.chunk, memory.answers)
        /\ reviewPanel.startAnswered => reviewPanel.selected
        /\ top = Review /\ reviewPanel.chunk = review.index =>
            reviewPanel.startAnswered = review.startAnswered

(* The invariant when no tap outruns a frame.                              *)
SessionInv ==
    /\ PositionInv
    /\ StoreOK(device, unwritten, memory)
    /\ DrawnIsNow
    /\ PanelOK
    /\ FinishedOK
    /\ ReviewOK
    /\ ShownIsOnRecord

-----------------------------------------------------------------------------
(* Answers.                                                                *)

LEMMA AnsweredByNumber ==
    ASSUME NEW c \in Chunks, NEW a
    PROVE  /\ Answered(c, a) <=> \A k \in 1..PerChunk : a[<<c, k>>] # "none"
           /\ \A k \in 1..PerChunk : <<c, k>> \in QuestionIds
<1>1. \A q : q \in QuestionsOf(c) <=> \E k \in 1..PerChunk : q = <<c, k>>
  BY DEF QuestionsOf
<1>. QED
  BY <1>1 DEF Answered, QuestionIds

(* An answer given keeps the others.                                       *)
LEMMA AnswersStay ==
    ASSUME NEW a \in [QuestionIds -> Results], NEW q \in QuestionIds,
           NEW result \in {"right", "wrong"}, NEW b, b = [a EXCEPT ![q] = result]
    PROVE  /\ b \in [QuestionIds -> Results]
           /\ b[q] # "none"
           /\ \A x \in QuestionIds : a[x] # "none" => b[x] # "none"
           /\ \A c \in Chunks : Answered(c, a) => Answered(c, b)
           /\ \A c \in Chunks : c # q[1] => (Passed(c, b) <=> Passed(c, a))
<1>1. b \in [QuestionIds -> Results] /\ b[q] = result
  BY DEF Results
<1>2. \A x \in QuestionIds : b[x] = IF x = q THEN result ELSE a[x]
  OBVIOUS
<1>3. \A c \in Chunks : \A x \in QuestionsOf(c) : x \in QuestionIds /\ x[1] = c
  BY DEF QuestionsOf, QuestionIds
<1>4. \A c \in Chunks : c # q[1] => \A x \in QuestionsOf(c) : b[x] = a[x]
  BY <1>2, <1>3
<1>. QED
  BY <1>1, <1>2, <1>3, <1>4 DEF Answered, Passed

LEMMA BlankFacts ==
    /\ Blank \in Stored /\ Blank.progress = None /\ Blank.answers = NoAnswers
    /\ NoAnswers \in [QuestionIds -> Results]
    /\ 0 \in Chunks /\ N \in Nat /\ N > 0 /\ None = -1
BY BookAssumption DEF Blank, Stored, NoAnswers, Results, Chunks, None

LEMMA StoredFacts ==
    ASSUME NEW s \in Stored
    PROVE  /\ s.progress \in {None} \cup Chunks /\ s.answers \in [QuestionIds -> Results]
           /\ At(s) \in Chunks /\ At(s) = Resume(s.progress)
           /\ s.progress = None \/ s.progress = At(s)
           /\ None \notin Chunks
<1>1. s.progress \in {None} \cup Chunks /\ s.answers \in [QuestionIds -> Results]
  BY DEF Stored
<1>2. None \notin Chunks /\ 0 \in Chunks
  BY BlankFacts DEF Chunks
<1>. QED
  BY <1>1, <1>2 DEF At, Resume

LEMMA Performing ==
    ASSUME NEW s \in Stored, NEW w \in Writes
    PROVE  /\ Perform(s, w) \in Stored
           /\ w.key = "progress" =>
                  Perform(s, w).progress = w.value /\ Perform(s, w).answers = s.answers
           /\ w.key = "answers" =>
                  Perform(s, w).answers = w.value /\ Perform(s, w).progress = s.progress
<1>1. \/ w.key = "progress" /\ w.value \in {None} \cup Chunks
      \/ w.key = "answers" /\ w.value \in [QuestionIds -> Results]
  BY DEF Writes
<1>2. CASE w.key = "progress"
  <2>1. Perform(s, w) = [s EXCEPT !.progress = w.value]
    BY <1>2 DEF Perform
  <2>. QED
    BY <1>1, <1>2, <2>1 DEF Stored
<1>3. CASE w.key = "answers"
  <2>1. Perform(s, w) = [s EXCEPT !.answers = w.value]
    BY <1>3 DEF Perform
  <2>. QED
    BY <1>1, <1>3, <2>1 DEF Stored
<1>. QED
  BY <1>1, <1>2, <1>3

LEMMA WritesThere ==
    /\ \A p \in {None} \cup Chunks : [key |-> "progress", value |-> p] \in Writes
    /\ \A a \in [QuestionIds -> Results] : [key |-> "answers", value |-> a] \in Writes
BY DEF Writes

(* A step of the log keeps what is before the bookmark answered.           *)
LEMMA LogStepKeepsBookmark ==
    ASSUME NEW s \in Stored, NEW t \in Stored, LogStep(s, t), Bookmarked(s)
    PROVE  Bookmarked(t)
<1>1. /\ s.progress \in {None} \cup Chunks /\ s.answers \in [QuestionIds -> Results]
      /\ At(s) \in Chunks
      /\ s.progress = None \/ s.progress = At(s)
  BY StoredFacts
<1>2. \A c \in Chunks : ~ (c < None) /\ ~ (c < 0)
  BY DEF Chunks, None
<1>3. CASE /\ t.progress = s.progress
           /\ \E q \in QuestionIds, result \in {"right", "wrong"} :
                  t.answers = [s.answers EXCEPT ![q] = result]
  <2>1. \A c \in Chunks : Answered(c, s.answers) => Answered(c, t.answers)
    BY <1>1, <1>3, AnswersStay
  <2>. QED
    BY <1>3, <2>1 DEF Bookmarked
<1>4. CASE /\ t.answers = s.answers /\ Answered(At(s), s.answers) /\ t.progress = At(s) + 1
  <2>1. \A c \in Chunks : c < At(s) => Answered(c, s.answers)
    BY <1>1, <1>2 DEF Bookmarked, At
  <2>2. \A n, c \in Chunks : c < n + 1 => c < n \/ c = n
    BY BlankFacts DEF Chunks
  <2>3. PICK n : n = At(s)
    OBVIOUS
  <2>4. n \in Chunks
    BY <1>1, <2>3
  <2>5. \A c \in Chunks : c < n + 1 => Answered(c, s.answers)
    BY <1>4, <2>1, <2>2, <2>3, <2>4
  <2>. QED
    BY <1>4, <2>3, <2>5 DEF Bookmarked
<1>5. CASE t.progress = None \/ t.progress = 0
  BY <1>2, <1>5 DEF Bookmarked
<1>. QED
  BY <1>3, <1>4, <1>5 DEF LogStep

-----------------------------------------------------------------------------
(* The queue of writes.                                                    *)

LEMMA QueueEmpty ==
    ASSUME NEW s \in Stored, Bookmarked(s)
    PROVE  StoreOK(s, <<>>, s)
<1>1. /\ <<s>> \in Seq(Stored) /\ Len(<<s>>) = 1 /\ <<s>>[1] = s
      /\ <<>> \in Seq(Writes) /\ Len(<<>>) = 0
  OBVIOUS
<1>2. Passes(<<s>>, s, <<>>, s)
  BY <1>1 DEF Passes
<1>. QED
  BY <1>1, <1>2 DEF StoreOK

(* A write behind the others.                                              *)
LEMMA QueueGrows ==
    ASSUME NEW d, NEW u, NEW m, StoreOK(d, u, m),
           NEW w \in Writes, NEW t, t = Perform(m, w), LogStep(m, t)
    PROVE  StoreOK(d, Append(u, w), t)
<1>1. d \in Stored /\ m \in Stored /\ u \in Seq(Writes) /\ Bookmarked(d) /\ Bookmarked(m)
  BY DEF StoreOK
<1>2. t \in Stored
  BY <1>1, Performing
<1>3. Bookmarked(t)
  BY <1>1, <1>2, LogStepKeepsBookmark
<1>4. PICK values \in Seq(Stored) : Passes(values, d, u, m)
  BY DEF StoreOK
<1> PICK L : L = Len(u)
  OBVIOUS
<1>5. /\ L \in Nat /\ Len(values) = L + 1 /\ values[1] = d /\ values[L + 1] = m
      /\ \A i \in 1..L : values[i + 1] = Perform(values[i], u[i])
                         /\ LogStep(values[i], values[i + 1])
  BY <1>1, <1>4 DEF Passes
<1> PICK more, queue : more = Append(values, t) /\ queue = Append(u, w)
  OBVIOUS
<1>6. /\ more \in Seq(Stored) /\ Len(more) = L + 2 /\ more[L + 2] = t
      /\ \A i \in 1..(L + 1) : more[i] = values[i]
  <2>1. (L + 1) + 1 = L + 2
    BY <1>5
  <2>. QED
    BY <1>2, <1>5, <2>1, AppendProperties
<1>7. /\ queue \in Seq(Writes) /\ Len(queue) = L + 1 /\ queue[L + 1] = w
      /\ \A i \in 1..L : queue[i] = u[i]
  BY <1>1, AppendProperties
<1>8. \A i \in 1..(L + 1) : more[i + 1] = Perform(more[i], queue[i])
                            /\ LogStep(more[i], more[i + 1])
  <2>1. ASSUME NEW i \in 1..L
        PROVE  more[i + 1] = Perform(more[i], queue[i]) /\ LogStep(more[i], more[i + 1])
    <3>1. i \in 1..(L + 1) /\ i + 1 \in 1..(L + 1)
      BY <1>5
    <3>. QED
      BY <1>5, <1>6, <1>7, <3>1
  <2>2. more[(L + 1) + 1] = Perform(more[L + 1], queue[L + 1])
        /\ LogStep(more[L + 1], more[(L + 1) + 1])
    <3>1. L + 1 \in 1..(L + 1) /\ (L + 1) + 1 = L + 2
      BY <1>5
    <3>. QED
      BY <1>5, <1>6, <1>7, <3>1
  <2>3. \A i \in 1..(L + 1) : i = L + 1 \/ i \in 1..L
    BY <1>5
  <2>. QED
    BY <2>1, <2>2, <2>3
<1>9. Passes(more, d, queue, t)
  <2>1. more[1] = d
    BY <1>5, <1>6
  <2>2. Len(more) = Len(queue) + 1 /\ more[Len(queue) + 1] = t
    <3>1. (L + 1) + 1 = L + 2
      BY <1>5
    <3>. QED
      BY <1>6, <1>7, <3>1
  <2>. QED
    BY <1>7, <1>8, <2>1, <2>2 DEF Passes
<1>. QED
  BY <1>1, <1>2, <1>3, <1>6, <1>7, <1>9 DEF StoreOK

(* The platform performs the first write.                                  *)
LEMMA QueueShrinks ==
    ASSUME NEW d, NEW u, NEW m, StoreOK(d, u, m), u # <<>>
    PROVE  StoreOK(Perform(d, Head(u)), Tail(u), m) /\ LogStep(d, Perform(d, Head(u)))
<1>1. d \in Stored /\ m \in Stored /\ u \in Seq(Writes) /\ Bookmarked(d) /\ Bookmarked(m)
  BY DEF StoreOK
<1>2. PICK values \in Seq(Stored) : Passes(values, d, u, m)
  BY DEF StoreOK
<1> PICK L : L = Len(u)
  OBVIOUS
<1> PICK t, rest, left : t = Perform(d, Head(u)) /\ rest = Tail(u) /\ left = Tail(values)
  OBVIOUS
<1>3. /\ L \in Nat /\ L >= 1 /\ Head(u) = u[1] /\ u[1] \in Writes
      /\ rest \in Seq(Writes) /\ Len(rest) = L - 1
      /\ \A i \in 1..(L - 1) : rest[i] = u[i + 1]
  <2>1. u[1] \in Writes /\ Head(u) = u[1] /\ Len(u) >= 1
    BY <1>1
  <2>. QED
    BY <1>1, <2>1, HeadTailProperties
<1>4. /\ Len(values) = L + 1 /\ values[1] = d /\ values[L + 1] = m
      /\ \A i \in 1..L : values[i + 1] = Perform(values[i], u[i])
                         /\ LogStep(values[i], values[i + 1])
  BY <1>2 DEF Passes
<1>5. t \in Stored
  BY <1>1, <1>3, Performing
<1>6. values[2] = t /\ LogStep(d, t)
  <2>1. 1 \in 1..L /\ 1 + 1 = 2
    BY <1>3
  <2>. QED
    BY <1>3, <1>4, <2>1
<1>7. Bookmarked(t)
  BY <1>1, <1>5, <1>6, LogStepKeepsBookmark
<1>8. /\ left \in Seq(Stored) /\ Len(left) = L
      /\ \A i \in 1..L : left[i] = values[i + 1]
  <2>1. values # <<>>
    BY <1>3, <1>4
  <2>2. (L + 1) - 1 = L
    BY <1>3
  <2>. QED
    BY <1>4, <2>1, <2>2, HeadTailProperties
<1>9. Passes(left, t, rest, m)
  <2>1. 1 \in 1..L /\ 1 + 1 = 2 /\ L \in 1..L /\ (L - 1) + 1 = L
    BY <1>3
  <2>2. left[1] = t /\ left[(L - 1) + 1] = m
    BY <1>4, <1>6, <1>8, <2>1
  <2>3. ASSUME NEW i \in 1..(L - 1)
        PROVE  left[i + 1] = Perform(left[i], rest[i]) /\ LogStep(left[i], left[i + 1])
    <3>1. i \in 1..L /\ i + 1 \in 1..L
      BY <1>3
    <3>. QED
      BY <1>3, <1>4, <1>8, <3>1
  <2>4. Len(left) = Len(rest) + 1
    BY <1>3, <1>8
  <2>. QED
    BY <1>3, <2>2, <2>3, <2>4 DEF Passes
<1>. QED
  BY <1>1, <1>3, <1>5, <1>6, <1>7, <1>8, <1>9 DEF StoreOK

-----------------------------------------------------------------------------
(* Panels.                                                                 *)

LEMMA PanelTypes ==
    ASSUME NEW q \in Panel
    PROVE  /\ q # NoPanel
           /\ RevealQuestions(q) \in Panel /\ Select(q) \in Panel /\ Advance(q) \in Panel
           /\ Question(q) \in QuestionIds /\ Outcomes[Question(q)] \subseteq {"right", "wrong"}
           /\ q.chunk \in Chunks /\ q.question \in 1..PerChunk
<1>1. /\ q.chunk \in Chunks /\ q.phase \in Phases /\ q.question \in 1..PerChunk
      /\ q.selected \in BOOLEAN /\ q.startAnswered \in BOOLEAN
  BY DEF Panel
<1>2. q # NoPanel
  BY <1>1 DEF NoPanel, Phases
<1>3. RevealQuestions(q) \in Panel /\ Select(q) \in Panel
  BY DEF Panel, RevealQuestions, Select, Phases
<1>4. Advance(q) \in Panel
  <2>1. q.question # PerChunk => q.question + 1 \in 1..PerChunk
    BY <1>1, BookAssumption
  <2>2. [q EXCEPT !.phase = "breakdown"] \in Panel
    BY DEF Panel, Phases
  <2>3. q.question # PerChunk =>
            [q EXCEPT !.question = q.question + 1, !.selected = q.startAnswered] \in Panel
    BY <1>1, <2>1 DEF Panel
  <2>. QED
    BY <2>2, <2>3 DEF Advance
<1>5. Question(q) \in QuestionIds
  BY <1>1 DEF Question, QuestionIds
<1>6. Outcomes[Question(q)] \subseteq {"right", "wrong"}
  BY <1>5, ReaderAssumption
<1>. QED
  BY <1>1, <1>2, <1>3, <1>4, <1>5, <1>6

LEMMA NewPanelFacts ==
    ASSUME NEW chunk \in Chunks, NEW start \in BOOLEAN
    PROVE  /\ NewPanel(chunk, start) \in Panel
           /\ NewPanel(chunk, start).chunk = chunk
           /\ NewPanel(chunk, start).phase = "reading"
           /\ NewPanel(chunk, start).question = 1
           /\ NewPanel(chunk, start).selected = start
           /\ NewPanel(chunk, start).startAnswered = start
<1>1. 1 \in 1..PerChunk
  BY BookAssumption
<1>. QED
  BY <1>1 DEF NewPanel, Panel, Phases

LEMMA MountedFacts ==
    ASSUME NEW q \in Panel \cup {NoPanel}, NEW chunk \in Chunks, NEW content,
           NEW start \in BOOLEAN, NEW m, m = Mounted(q, chunk, content, start)
    PROVE  /\ m \in Panel \cup {NoPanel}
           /\ m # NoPanel => content = "loaded" /\ m.chunk = chunk
           /\ m = NoPanel \/ m = NewPanel(chunk, start) \/ (m = q /\ q.chunk = chunk)
<1>1. NewPanel(chunk, start) \in Panel /\ NewPanel(chunk, start).chunk = chunk
  BY NewPanelFacts
<1>. QED
  BY <1>1 DEF Mounted

LEMMA NoPanelShowsNothing ==
    PanelControls(NoPanel) = {}
BY DEF PanelControls, NoPanel

LEMMA PositionParts ==
    ASSUME PositionInv
    PROVE  /\ TypeOK /\ IdsFirst /\ CompleteAtEnd /\ BookmarkIsPosition /\ PanelsDrawn
           /\ memory \in Stored /\ device \in Stored /\ unwritten \in Seq(Writes)
           /\ top \in {Library, Session, List, Review}
           /\ session \in SessionStates /\ panel \in Panel \cup {NoPanel}
           /\ list \in ListStates
           /\ review \in ReviewStates /\ reviewPanel \in Panel \cup {NoPanel}
           /\ dirty \in BOOLEAN
BY DEF PositionInv, TypeOK, StoreTyped

LEMMA Routes ==
    /\ Library = 0 /\ Session = 1 /\ List = 2 /\ Review = 3
    /\ \A r \in {Library, Session, List, Review} :
           /\ r >= Session <=> r # Library
           /\ r >= List <=> r \in {List, Review}
           /\ r >= Review <=> r = Review
           /\ r < List <=> r \in {Library, Session}
BY DEF Library, Session, List, Review

(* A step that leaves the session and the bookmark alone.                  *)
LEMMA PositionKept ==
    ASSUME PositionInv, TypeOK', UNCHANGED <<session, drawn>>,
           memory'.progress = memory.progress,
           top' # Library => top # Library,
           panel # NoPanel => panel' # NoPanel,
           reviewPanel # NoPanel => reviewPanel' # NoPanel
    PROVE  PositionInv'
<1>1. IdsFirst' /\ CompleteAtEnd' /\ PanelsDrawn'
  BY PositionParts DEF IdsFirst, CompleteAtEnd, PanelsDrawn
<1>2. BookmarkIsPosition'
  <2>1. top' >= Session => top >= Session
    BY PositionParts, Routes DEF TypeOK
  <2>. QED
    BY <2>1, PositionParts DEF BookmarkIsPosition
<1>. QED
  BY <1>1, <1>2 DEF PositionInv

(* A write: at once in memory, behind the others on its way.               *)
LEMMA WriteFacts ==
    ASSUME PositionInv, NEW w \in Writes, Write(w.key, w.value)
    PROVE  /\ memory' = Perform(memory, w) /\ unwritten' = Append(unwritten, w)
           /\ UNCHANGED device /\ StoreTyped'
<1>1. w = [key |-> w.key, value |-> w.value]
  BY DEF Writes
<1>2. memory' = Perform(memory, w) /\ unwritten' = Append(unwritten, w) /\ UNCHANGED device
  BY <1>1 DEF Write
<1>3. memory' \in Stored
  BY <1>2, PositionParts, Performing
<1>4. unwritten' \in Seq(Writes)
  BY <1>2, PositionParts, AppendProperties
<1>. QED
  BY <1>2, <1>3, <1>4, PositionParts DEF StoreTyped

LEMMA TapFacts ==
    ASSUME NEW route, NEW control, Tap(route, control)
    PROVE  /\ drawn.top = route /\ control \in drawn.controls
           /\ dirty' = TRUE /\ UNCHANGED drawn
           /\ ~TapsOutrunFrames => ~dirty
BY DEF Tap

(* What a tap on a panel's control finds.                                  *)
LEMMA PanelTapFacts ==
    ASSUME PositionInv, NEW control \in PanelTaps
    PROVE  /\ Tap(Session, control) => panel \in Panel
           /\ Tap(Review, control) => reviewPanel \in Panel
<1>1. PanelsDrawn /\ panel \in Panel \cup {NoPanel} /\ reviewPanel \in Panel \cup {NoPanel}
  BY PositionParts
<1>2. ASSUME NEW route, Tap(route, control)
      PROVE  drawn.top = route /\ PanelTaps \cap drawn.controls # {}
  BY <1>2, TapFacts
<1>. QED
  BY <1>1, <1>2 DEF PanelsDrawn

-----------------------------------------------------------------------------
(* The position, step by step.                                             *)

(* What changes no store, not the route and not the session.               *)
LEMMA OnlyShownPosition ==
    ASSUME PositionInv, UNCHANGED <<storeVars, top, session, drawn>>,
           panel' \in Panel \cup {NoPanel}, panel # NoPanel => panel' # NoPanel,
           reviewPanel' \in Panel \cup {NoPanel},
           reviewPanel # NoPanel => reviewPanel' # NoPanel,
           list' \in ListStates, review' \in ReviewStates, dirty' \in BOOLEAN
    PROVE  PositionInv'
<1>1. TypeOK'
  BY PositionParts DEF TypeOK, StoreTyped, storeVars
<1>. QED
  BY <1>1, PositionKept DEF storeVars

LEMMA PanelStepPosition ==
    ASSUME PositionInv, TapContinue \/ TapAdvance \/ ReviewContinue \/ ReviewAdvance
    PROVE  PositionInv'
<1>1. /\ UNCHANGED <<storeVars, top, session, drawn, list, review>> /\ dirty' = TRUE
      /\ \/ panel' \in Panel /\ UNCHANGED reviewPanel
         \/ reviewPanel' \in Panel /\ UNCHANGED panel
  BY PanelTapFacts, TapFacts, PanelTypes
     DEF TapContinue, TapAdvance, ReviewContinue, ReviewAdvance, sessionVars, reviewVars, PanelTaps
<1>2. \A q \in Panel : q # NoPanel
  BY PanelTypes
<1>. QED
  BY <1>1, <1>2, PositionParts, OnlyShownPosition

(* An answer recorded, of the question before the reader.                  *)
LEMMA RecordFacts ==
    ASSUME PositionInv, NEW q \in QuestionIds, NEW result \in {"right", "wrong"},
           RecordAnswer(q, result)
    PROVE  /\ memory'.progress = memory.progress
           /\ memory'.answers = [memory.answers EXCEPT ![q] = result]
           /\ StoreTyped' /\ UNCHANGED device
           /\ \E w \in Writes :
                memory' = Perform(memory, w) /\ unwritten' = Append(unwritten, w)
<1> DEFINE a == [memory.answers EXCEPT ![q] = result]
           w == [key |-> "answers", value |-> a]
<1>1. memory.answers \in [QuestionIds -> Results]
  BY PositionParts, StoredFacts
<1>2. a \in [QuestionIds -> Results]
  BY <1>1 DEF Results
<1>3. w \in Writes
  BY <1>2, WritesThere
<1>4. Write(w.key, w.value)
  BY DEF RecordAnswer
<1> HIDE DEF a
<1>5. w.key = "answers" /\ w.value = a
  OBVIOUS
<1> HIDE DEF w
<1>6. /\ memory' = Perform(memory, w) /\ unwritten' = Append(unwritten, w)
      /\ UNCHANGED device /\ StoreTyped'
  BY <1>3, <1>4, WriteFacts
<1>7. memory'.answers = a /\ memory'.progress = memory.progress
  BY <1>3, <1>5, <1>6, PositionParts, Performing
<1>. QED
  BY <1>3, <1>6, <1>7 DEF a

LEMMA SelectPosition ==
    ASSUME PositionInv, SelectOption \/ ReviewSelect
    PROVE  PositionInv'
<1>1. ASSUME NEW x, x \in Panel, \E result \in {"right", "wrong"} : RecordAnswer(Question(x), result)
      PROVE  StoreTyped' /\ memory'.progress = memory.progress
  <2>1. PICK result \in {"right", "wrong"} : RecordAnswer(Question(x), result)
    BY <1>1
  <2>. QED
    BY <1>1, <2>1, PanelTypes, RecordFacts
<1>2. CASE SelectOption
  <2>1. panel \in Panel /\ \E result \in {"right", "wrong"} : RecordAnswer(Question(panel), result)
    BY <1>2, PanelTapFacts, PanelTypes DEF SelectOption, PanelTaps
  <2>2. /\ panel' = Select(panel) /\ dirty' = TRUE
        /\ UNCHANGED <<top, session, list, review, reviewPanel, drawn>>
    BY <1>2, TapFacts DEF SelectOption, reviewVars
  <2>3. panel' \in Panel /\ panel' # NoPanel
    BY <2>1, <2>2, PanelTypes
  <2>4. TypeOK'
    BY <1>1, <2>1, <2>2, <2>3, PositionParts DEF TypeOK
  <2>. QED
    BY <1>1, <2>1, <2>2, <2>3, <2>4, PositionKept
<1>3. CASE ReviewSelect
  <2>1. /\ reviewPanel \in Panel
        /\ \E result \in {"right", "wrong"} : RecordAnswer(Question(reviewPanel), result)
    BY <1>3, PanelTapFacts, PanelTypes DEF ReviewSelect, PanelTaps
  <2>2. /\ reviewPanel' = Select(reviewPanel) /\ dirty' = TRUE
        /\ UNCHANGED <<top, session, panel, list, review, drawn>>
    BY <1>3, TapFacts DEF ReviewSelect, sessionVars
  <2>3. reviewPanel' \in Panel /\ reviewPanel' # NoPanel
    BY <2>1, <2>2, PanelTypes
  <2>4. TypeOK'
    BY <1>1, <2>1, <2>2, <2>3, PositionParts DEF TypeOK
  <2>. QED
    BY <1>1, <2>1, <2>2, <2>3, <2>4, PositionKept
<1>. QED
  BY <1>2, <1>3

(* The bookmark is saved.                                                  *)
LEMMA BookmarkFacts ==
    ASSUME PositionInv, NEW mark \in {None} \cup Chunks, Write("progress", mark)
    PROVE  /\ memory'.progress = mark /\ memory'.answers = memory.answers
           /\ StoreTyped' /\ UNCHANGED device
           /\ \E w \in Writes :
                memory' = Perform(memory, w) /\ unwritten' = Append(unwritten, w)
<1> PICK w : w = [key |-> "progress", value |-> mark]
  OBVIOUS
<1>1. w \in Writes /\ w.key = "progress" /\ w.value = mark
  BY WritesThere
<1>2. /\ memory' = Perform(memory, w) /\ unwritten' = Append(unwritten, w)
      /\ UNCHANGED device /\ StoreTyped'
  BY <1>1, WriteFacts
<1>. QED
  BY <1>1, <1>2, PositionParts, Performing

LEMMA NextChunkPosition ==
    ASSUME PositionInv, NextChunk
    PROVE  PositionInv'
<1>1. /\ Tap(Session, "next chunk") /\ session.index + 1 < N
      /\ Write("progress", session.index + 1)
      /\ session' = [session EXCEPT !.index = @ + 1, !.content = "loading"]
      /\ UNCHANGED <<top, panel, list, review, reviewPanel>>
  BY DEF NextChunk, SaveChunkIndex, reviewVars
<1>2. /\ dirty' = TRUE /\ UNCHANGED drawn /\ drawn.top = Session
      /\ "next chunk" \in drawn.controls
  BY <1>1, TapFacts
<1>3. session.ids = "loaded" /\ session.index \in Chunks
  BY <1>2, PositionParts DEF IdsFirst, SessionStates
<1> PICK i, n : i = session.index /\ n = i + 1
  OBVIOUS
<1>4. n \in Chunks /\ ~ (n >= N)
  <2>1. i \in Chunks /\ i + 1 < N
    BY <1>1, <1>3
  <2>. QED
    BY <2>1, BlankFacts DEF Chunks
<1>5. memory'.progress = n /\ StoreTyped'
  BY <1>1, <1>4, BookmarkFacts
<1>6. /\ session' \in SessionStates /\ session'.index = n /\ session'.complete = session.complete
      /\ session'.ids = "loaded"
  BY <1>1, <1>3, <1>4, PositionParts DEF SessionStates, Loads
<1>7. ~session.complete
  BY <1>4, PositionParts DEF CompleteAtEnd
<1>8. TypeOK'
  BY <1>1, <1>2, <1>5, <1>6, PositionParts DEF TypeOK
<1>9. IdsFirst' /\ CompleteAtEnd' /\ PanelsDrawn'
  BY <1>1, <1>2, <1>6, <1>7, PositionParts DEF IdsFirst, CompleteAtEnd, PanelsDrawn
<1>10. BookmarkIsPosition'
  BY <1>4, <1>5, <1>6, <1>7 DEF BookmarkIsPosition, Resume
<1>. QED
  BY <1>8, <1>9, <1>10 DEF PositionInv

LEMMA FinishBookPosition ==
    ASSUME PositionInv, FinishBook
    PROVE  PositionInv'
<1>1. /\ Tap(Session, "next chunk") /\ session.index + 1 >= N
      /\ Write("progress", None)
      /\ session' = [session EXCEPT !.complete = TRUE]
      /\ UNCHANGED <<top, panel, list, review, reviewPanel>>
  BY DEF FinishBook, ClearProgress, reviewVars
<1>2. /\ dirty' = TRUE /\ UNCHANGED drawn /\ drawn.top = Session
      /\ "next chunk" \in drawn.controls
  BY <1>1, TapFacts
<1>3. session.ids = "loaded"
  BY <1>2, PositionParts DEF IdsFirst
<1>4. memory'.progress = None /\ StoreTyped'
  BY <1>1, BookmarkFacts
<1>5. /\ session' \in SessionStates /\ session'.index = session.index
      /\ session'.complete /\ session'.ids = "loaded"
  BY <1>1, <1>3, PositionParts DEF SessionStates
<1>6. TypeOK'
  BY <1>1, <1>2, <1>4, <1>5, PositionParts DEF TypeOK
<1>7. IdsFirst' /\ CompleteAtEnd' /\ PanelsDrawn'
  BY <1>1, <1>2, <1>5, PositionParts DEF IdsFirst, CompleteAtEnd, PanelsDrawn
<1>8. BookmarkIsPosition'
  BY <1>4, <1>5 DEF BookmarkIsPosition
<1>. QED
  BY <1>6, <1>7, <1>8 DEF PositionInv

(* The two writes of a fresh start, one after the other.                   *)
LEMMA StartOverFacts ==
    ASSUME PositionInv, StartOver
    PROVE  \E w1 \in Writes, w2 \in Writes :
               /\ w1 = [key |-> "progress", value |-> 0]
               /\ w2 = [key |-> "answers", value |-> NoAnswers]
               /\ unwritten' = Append(Append(unwritten, w1), w2)
               /\ memory' = Perform(Perform(memory, w1), w2)
               /\ memory'.progress = 0 /\ memory'.answers = NoAnswers
               /\ UNCHANGED device /\ StoreTyped'
<1> PICK w1, w2 : /\ w1 = [key |-> "progress", value |-> 0]
                  /\ w2 = [key |-> "answers", value |-> NoAnswers]
  OBVIOUS
<1>1. w1 \in Writes /\ w2 \in Writes
  BY BlankFacts, WritesThere
<1>2. /\ memory' = [progress |-> 0, answers |-> NoAnswers]
      /\ unwritten' = unwritten \o <<w1, w2>> /\ UNCHANGED device
  BY DEF StartOver
<1>3. unwritten' = Append(Append(unwritten, w1), w2)
  BY <1>1, <1>2, PositionParts
<1>4. unwritten' \in Seq(Writes)
  BY <1>1, <1>3, PositionParts, AppendProperties
<1> PICK s, t : s = Perform(memory, w1) /\ t = Perform(s, w2)
  OBVIOUS
<1>5. s \in Stored /\ s.progress = 0
  BY <1>1, PositionParts, Performing
<1>6. t \in Stored /\ t.progress = 0 /\ t.answers = NoAnswers
  BY <1>1, <1>5, Performing
<1>7. t = memory'
  BY <1>2, <1>6 DEF Stored
<1>8. StoreTyped'
  BY <1>2, <1>4, <1>6, <1>7, PositionParts DEF StoreTyped
<1>. QED
  BY <1>1, <1>2, <1>3, <1>6, <1>7, <1>8

LEMMA ReadAgainPosition ==
    ASSUME PositionInv, ReadAgain
    PROVE  PositionInv'
<1>1. /\ Tap(Session, "read again") /\ StartOver
      /\ session' = [session EXCEPT !.index = 0, !.complete = FALSE, !.content = "loading"]
      /\ UNCHANGED <<top, panel, list, review, reviewPanel>>
  BY DEF ReadAgain, reviewVars
<1>2. dirty' = TRUE /\ UNCHANGED drawn
  BY <1>1, TapFacts
<1>3. memory'.progress = 0 /\ StoreTyped'
  BY <1>1, StartOverFacts
<1>4. /\ session' \in SessionStates /\ session'.index = 0 /\ ~session'.complete
      /\ session'.content = "loading" /\ session'.ids = session.ids
  BY <1>1, PositionParts, BlankFacts DEF SessionStates, Loads
<1>5. TypeOK'
  BY <1>1, <1>2, <1>3, <1>4, PositionParts DEF TypeOK
<1>6. IdsFirst' /\ CompleteAtEnd' /\ PanelsDrawn'
  BY <1>1, <1>2, <1>4, PositionParts DEF IdsFirst, CompleteAtEnd, PanelsDrawn
<1>7. BookmarkIsPosition'
  BY <1>3, <1>4, BlankFacts DEF BookmarkIsPosition, Resume
<1>. QED
  BY <1>5, <1>6, <1>7 DEF PositionInv

LEMMA InitialStates ==
    /\ NoSession \in SessionStates /\ NoList \in ListStates /\ NoReview \in ReviewStates
    /\ NoSession.ids = "loading" /\ NoSession.index = 0 /\ ~NoSession.complete
    /\ NoSession.content = "loading" /\ NoList.cleared = 0
BY BlankFacts DEF NoSession, NoList, NoReview, SessionStates, ListStates, ReviewStates, Loads

(* The route changes, or a screen under it.                                *)
LEMMA OpenBookPosition ==
    ASSUME PositionInv, OpenBook
    PROVE  PositionInv'
<1>1. /\ drawn.top = Library /\ dirty' = TRUE /\ top' = Session /\ session' = NoSession
      /\ UNCHANGED <<memory, device, unwritten, panel, list, review, reviewPanel, drawn>>
  BY TapFacts DEF OpenBook, storeVars, reviewVars
<1>2. TypeOK'
  BY <1>1, PositionParts, InitialStates DEF TypeOK, StoreTyped
<1>3. IdsFirst' /\ CompleteAtEnd' /\ PanelsDrawn'
  BY <1>1, PositionParts, InitialStates, Routes DEF IdsFirst, CompleteAtEnd, PanelsDrawn
<1>4. BookmarkIsPosition'
  BY <1>1, InitialStates DEF BookmarkIsPosition
<1>. QED
  BY <1>2, <1>3, <1>4 DEF PositionInv

LEMMA ArrivalPosition ==
    ASSUME PositionInv, ChunkIdsArrive \/ ChunkIdsFail \/ ChunkArrives
    PROVE  PositionInv'
<1>1. /\ dirty' = TRUE
      /\ UNCHANGED <<memory, device, unwritten, top, panel, reviewPanel, drawn, list, review>>
  BY DEF ChunkIdsArrive, ChunkIdsFail, ChunkArrives, Arrives, storeVars, reviewVars
<1>2. ASSUME session' \in SessionStates, IdsFirst', CompleteAtEnd', BookmarkIsPosition'
      PROVE  PositionInv'
  <2>1. TypeOK'
    BY <1>1, <1>2, PositionParts DEF TypeOK, StoreTyped
  <2>2. PanelsDrawn'
    BY <1>1, PositionParts DEF PanelsDrawn
  <2>. QED
    BY <1>2, <2>1, <2>2 DEF PositionInv
<1>3. CASE ChunkIdsArrive
  <2>1. /\ session.ids = "loading" /\ ~session.complete
        /\ session' = [session EXCEPT !.ids = "loaded", !.index = Resume(memory.progress)]
    BY <1>3, PositionParts DEF ChunkIdsArrive, IdsFirst
  <2>2. Resume(memory.progress) \in Chunks
    BY BlankFacts DEF Resume
  <2>3. /\ session' \in SessionStates /\ session'.ids = "loaded" /\ ~session'.complete
        /\ session'.index = Resume(memory.progress)
    BY <2>1, <2>2, PositionParts DEF SessionStates, Loads
  <2>. QED
    BY <1>1, <1>2, <2>3 DEF IdsFirst, CompleteAtEnd, BookmarkIsPosition
<1>4. CASE ChunkIdsFail
  <2>1. session.ids = "loading" /\ session' = [session EXCEPT !.ids = "failed"]
    BY <1>4 DEF ChunkIdsFail
  <2>2. /\ session' \in SessionStates /\ session'.ids = "failed"
        /\ session'.complete = session.complete /\ session'.index = session.index
        /\ session'.content = session.content
    BY <2>1, PositionParts DEF SessionStates, Loads
  <2>3. session'.ids # "loaded" /\ session.ids # "loaded"
    BY <2>1, <2>2
  <2>. QED
    BY <1>1, <1>2, <2>2, <2>3, PositionParts DEF IdsFirst, CompleteAtEnd, BookmarkIsPosition
<1>5. CASE ChunkArrives
  <2>1. PICK outcome \in {"loaded", "failed"} :
            session.ids = "loaded" /\ session' = [session EXCEPT !.content = outcome]
    BY <1>5 DEF ChunkArrives
  <2>2. /\ session' \in SessionStates /\ session'.ids = "loaded"
        /\ session'.complete = session.complete /\ session'.index = session.index
    BY <2>1, PositionParts DEF SessionStates, Loads
  <2>. QED
    BY <1>1, <1>2, <2>1, <2>2, PositionParts DEF IdsFirst, CompleteAtEnd, BookmarkIsPosition
<1>. QED
  BY <1>3, <1>4, <1>5

LEMMA ClearedCountTyped ==
    ASSUME session \in SessionStates
    PROVE  ClearedCount \in 0..N
<1>1. \A i \in Chunks : i \in 0..N
  BY BlankFacts DEF Chunks
<1>2. N \in 0..N
  BY BlankFacts
<1>. QED
  BY <1>1, <1>2 DEF ClearedCount, SessionStates

LEMMA LoadReviewFacts ==
    ASSUME NEW chunk \in Chunks
    PROVE  /\ LoadReview(chunk) \in ReviewStates
           /\ LoadReview(chunk).index = chunk
           /\ LoadReview(chunk).content = "loading"
           /\ LoadReview(chunk).startAnswered = Passed(chunk, memory.answers)
<1>1. Passed(chunk, memory.answers) \in BOOLEAN
  BY DEF Passed
<1>. QED
  BY <1>1 DEF LoadReview, ReviewStates, Loads

LEMMA ReviewPosition ==
    ASSUME PositionInv, OpenReview \/ RowsArrive \/ OpenRow \/ ReviewArrives \/ ReviewNext
    PROVE  PositionInv'
<1>1. /\ dirty' = TRUE
      /\ UNCHANGED <<memory, device, unwritten, session, panel, reviewPanel, drawn>>
      /\ top' = top \/ (top # Library /\ top' \in {List, Review})
  <2>1. CASE OpenReview
    BY <2>1, TapFacts, Routes DEF OpenReview, storeVars, sessionVars
  <2>2. CASE RowsArrive \/ ReviewArrives
    BY <2>2 DEF RowsArrive, ReviewArrives, Arrives, storeVars
  <2>3. CASE OpenRow
    <3>1. /\ Tap(List, "row") /\ top = List /\ top' = Review
          /\ UNCHANGED <<memory, device, unwritten, session, panel, reviewPanel>>
      BY <2>3 DEF OpenRow, storeVars, sessionVars
    <3>2. dirty' = TRUE /\ UNCHANGED drawn
      BY <3>1, TapFacts
    <3>3. top # Library
      BY <3>1, Routes
    <3>. QED
      BY <3>1, <3>2, <3>3
  <2>4. CASE ReviewNext
    BY <2>4, TapFacts DEF ReviewNext, storeVars, sessionVars
  <2>. QED
    BY <2>1, <2>2, <2>3, <2>4
<1>2. ASSUME list' \in ListStates, review' \in ReviewStates
      PROVE  PositionInv'
  <2>1. TypeOK'
    BY <1>1, <1>2, PositionParts, Routes DEF TypeOK, StoreTyped
  <2>. QED
    BY <1>1, <2>1, PositionKept
<1>3. CASE OpenReview
  <2>1. list' = [NoList EXCEPT !.cleared = ClearedCount] /\ UNCHANGED review
    BY <1>3 DEF OpenReview
  <2>2. list' \in ListStates
    BY <2>1, PositionParts, ClearedCountTyped, InitialStates DEF ListStates
  <2>. QED
    BY <1>2, <2>1, <2>2, PositionParts
<1>4. CASE RowsArrive
  <2>1. /\ UNCHANGED review
        /\ \/ list' = [list EXCEPT !.rows = "loaded", !.answers = memory.answers]
           \/ list' = [list EXCEPT !.rows = "failed"]
    BY <1>4 DEF RowsArrive
  <2>2. memory.answers \in [QuestionIds -> Results]
    BY PositionParts, StoredFacts
  <2>3. list' \in ListStates
    BY <2>1, <2>2, PositionParts DEF ListStates, Loads
  <2>. QED
    BY <1>2, <2>1, <2>3, PositionParts
<1>5. CASE OpenRow
  <2>1. PICK chunk \in 0..(list.cleared - 1) : review' = LoadReview(chunk)
    BY <1>5 DEF OpenRow
  <2>2. UNCHANGED list /\ list.cleared \in 0..N
    BY <1>5, PositionParts DEF OpenRow, ListStates
  <2>3. chunk \in Chunks
    BY <2>2, BlankFacts DEF Chunks
  <2>. QED
    BY <1>2, <2>1, <2>2, <2>3, PositionParts, LoadReviewFacts
<1>6. CASE ReviewArrives
  <2>1. PICK outcome \in {"loaded", "failed"} : review' = [review EXCEPT !.content = outcome]
    BY <1>6 DEF ReviewArrives
  <2>2. review' \in ReviewStates /\ UNCHANGED list
    BY <1>6, <2>1, PositionParts DEF ReviewArrives, ReviewStates, Loads
  <2>. QED
    BY <1>2, <2>2, PositionParts
<1>7. CASE ReviewNext
  <2>1. PICK i : i = review.index
    OBVIOUS
  <2>2. /\ i + 1 < list.cleared /\ review' = LoadReview(i + 1) /\ UNCHANGED list
        /\ i \in Chunks /\ list.cleared \in 0..N
    BY <1>7, <2>1, PositionParts DEF ReviewNext, ReviewStates, ListStates
  <2>3. i + 1 \in Chunks
    BY <2>2, BlankFacts DEF Chunks
  <2>. QED
    BY <1>2, <2>2, <2>3, PositionParts, LoadReviewFacts
<1>. QED
  BY <1>3, <1>4, <1>5, <1>6, <1>7

LEMMA PopPosition ==
    ASSUME PositionInv, TapBack \/ ReviewEnds
    PROVE  PositionInv'
<1>1. /\ dirty' = TRUE /\ Pop
      /\ UNCHANGED <<memory, device, unwritten, session, panel, review, reviewPanel, drawn>>
  BY TapFacts DEF TapBack, ReviewEnds, storeVars, sessionVars
<1>2. /\ top # Library /\ top' \in {Library, Session, List}
      /\ list' \in {list, [list EXCEPT !.rows = "loading"]}
  BY <1>1, Routes DEF Pop, BackToLibrary, BackToSession, BackToList
<1>3. list' \in ListStates
  BY <1>2, PositionParts DEF ListStates, Loads
<1>4. TypeOK'
  BY <1>1, <1>2, <1>3, PositionParts DEF TypeOK, StoreTyped
<1>. QED
  BY <1>1, <1>2, <1>4, PositionKept

LEMMA FrameFacts ==
    ASSUME PositionInv, Frame
    PROVE  /\ dirty' = FALSE
           /\ UNCHANGED <<memory, device, unwritten, top, card>>
           /\ session' = IF top # Library THEN session ELSE NoSession
           /\ panel' = IF top # Library /\ ~session.complete
                       THEN Mounted(panel, session.index, session.content, FALSE)
                       ELSE NoPanel
           /\ list' = IF top \in {List, Review} THEN list ELSE NoList
           /\ review' = IF top = Review THEN review ELSE NoReview
           /\ reviewPanel' = IF top = Review
                      THEN Mounted(reviewPanel, review.index, review.content,
                                   review.startAnswered)
                      ELSE NoPanel
           /\ drawn'.top = top' /\ drawn'.controls = Controls'
<1>1. top \in {Library, Session, List, Review}
  BY PositionParts
<1>2. drawn' = [top |-> top, controls |-> Controls']
  BY DEF Frame
<1>3. drawn'.top = top' /\ drawn'.controls = Controls'
  BY <1>2 DEF Frame
<1>. QED
  BY <1>1, <1>3, Routes DEF Frame, storeVars

LEMMA FramePosition ==
    ASSUME PositionInv, Frame
    PROVE  PositionInv'
<1>1. /\ dirty' = FALSE /\ UNCHANGED <<memory, device, unwritten, top>>
      /\ session' = IF top # Library THEN session ELSE NoSession
      /\ panel' = IF top # Library /\ ~session.complete
                  THEN Mounted(panel, session.index, session.content, FALSE)
                  ELSE NoPanel
      /\ list' = IF top \in {List, Review} THEN list ELSE NoList
      /\ review' = IF top = Review THEN review ELSE NoReview
      /\ reviewPanel' = IF top = Review
                 THEN Mounted(reviewPanel, review.index, review.content, review.startAnswered)
                 ELSE NoPanel
      /\ drawn'.top = top' /\ drawn'.controls = Controls'
  BY FrameFacts
<1>2. /\ panel' \in Panel \cup {NoPanel} /\ reviewPanel' \in Panel \cup {NoPanel}
      /\ panel' # NoPanel => session.content = "loaded"
  <2>1. /\ session.index \in Chunks /\ review.index \in Chunks
        /\ review.startAnswered \in BOOLEAN /\ FALSE \in BOOLEAN
    BY PositionParts DEF SessionStates, ReviewStates
  <2>2. /\ Mounted(panel, session.index, session.content, FALSE) \in Panel \cup {NoPanel}
        /\ Mounted(panel, session.index, session.content, FALSE) # NoPanel =>
               session.content = "loaded"
    <3>1. PICK m, start : start = FALSE /\ m = Mounted(panel, session.index, session.content, start)
      OBVIOUS
    <3>2. panel \in Panel \cup {NoPanel} /\ start \in BOOLEAN
      BY <3>1, PositionParts
    <3>3. m \in Panel \cup {NoPanel} /\ (m # NoPanel => session.content = "loaded")
      BY <2>1, <3>1, <3>2, MountedFacts
    <3>. QED
      BY <3>1, <3>3
  <2>3. Mounted(reviewPanel, review.index, review.content, review.startAnswered)
            \in Panel \cup {NoPanel}
    BY <2>1, PositionParts, MountedFacts
  <2>. QED
    BY <1>1, <2>2, <2>3
<1>3. TypeOK'
  BY <1>1, <1>2, PositionParts, InitialStates DEF TypeOK, StoreTyped
<1>4. BookmarkIsPosition' /\ CompleteAtEnd'
  <2>1. top # Library => session' = session
    BY <1>1
  <2>2. top = Library => session' = NoSession
    BY <1>1
  <2>. QED
    BY <1>1, <2>1, <2>2, PositionParts, InitialStates, Routes
       DEF BookmarkIsPosition, CompleteAtEnd
<1>5. /\ top = Session => Controls' = SessionControls'
      /\ top = Review => Controls' = ReviewControls'
  BY <1>1, Routes DEF Controls
<1>6. IdsFirst'
  <2>1. ASSUME session'.ids # "loaded"
        PROVE  session'.index = 0 /\ ~session'.complete /\ session'.content = "loading"
    <3>1. CASE top = Library
      BY <1>1, <3>1, InitialStates
    <3>2. CASE top # Library
      BY <1>1, <2>1, <3>2, PositionParts DEF IdsFirst
    <3>. QED
      BY <3>1, <3>2
  <2>2. ASSUME session'.ids # "loaded", drawn'.top = Session
        PROVE  {"next chunk", "read again"} \cap drawn'.controls = {}
    <3>1. top = Session /\ session' = session
      BY <1>1, <2>2, Routes
    <3>2. panel' = NoPanel
      BY <1>2, <2>1, <2>2, <3>1
    <3>3. drawn'.controls = {"back"} \cup {} \cup (IF ClearedCount' > 0 THEN {"review"} ELSE {})
      BY <1>1, <1>5, <2>1, <2>2, <3>1, <3>2, NoPanelShowsNothing DEF SessionControls
    <3>. QED
      BY <3>3
  <2>. QED
    BY <2>1, <2>2 DEF IdsFirst
<1>7. PanelsDrawn'
  <2>1. ASSUME drawn'.top = Session, panel' = NoPanel PROVE PanelTaps \cap drawn'.controls = {}
    <3>1. top = Session
      BY <1>1, <2>1
    <3>2. drawn'.controls \subseteq {"back", "review", "read again"}
      BY <1>1, <1>5, <2>1, <3>1, NoPanelShowsNothing DEF SessionControls
    <3>. QED
      BY <3>2 DEF PanelTaps
  <2>2. ASSUME drawn'.top = Review, reviewPanel' = NoPanel
        PROVE  PanelTaps \cap drawn'.controls = {}
    <3>1. top = Review
      BY <1>1, <2>2
    <3>2. drawn'.controls = {"back"}
      BY <1>1, <1>5, <2>2, <3>1, NoPanelShowsNothing DEF ReviewControls
    <3>. QED
      BY <3>2 DEF PanelTaps
  <2>. QED
    BY <2>1, <2>2 DEF PanelsDrawn
<1>. QED
  BY <1>3, <1>4, <1>6, <1>7 DEF PositionInv

(* The app as it starts, on what the device holds.                         *)
Started ==
    /\ memory \in Stored /\ device = memory /\ unwritten = <<>> /\ card = memory
    /\ top = Library /\ session = NoSession /\ panel = NoPanel /\ list = NoList
    /\ review = NoReview /\ reviewPanel = NoPanel
    /\ drawn = [top |-> Library, controls |-> {"card"}] /\ dirty = FALSE

LEMMA StartPosition == Started => PositionInv
<1> SUFFICES ASSUME Started PROVE PositionInv
  OBVIOUS
<1>1. TypeOK
  <2>1. unwritten \in Seq(Writes)
    BY DEF Started
  <2>. QED
    BY <2>1, InitialStates DEF TypeOK, StoreTyped, Started
<1>2. drawn.top = Library /\ drawn.controls = {"card"}
  BY DEF Started
<1>3. IdsFirst /\ CompleteAtEnd /\ BookmarkIsPosition
  BY <1>2, InitialStates, Routes DEF IdsFirst, CompleteAtEnd, BookmarkIsPosition, Started
<1>4. PanelsDrawn
  BY <1>2, Routes DEF PanelsDrawn
<1>. QED
  BY <1>1, <1>3, <1>4 DEF PositionInv

LEMMA StartedAgain == (Started => PositionInv)'
BY StartPosition, PTL

LEMMA InitStarts == Init => Started
BY BlankFacts DEF Init, Started

LEMMA DieStarts ==
    ASSUME PositionInv, Die
    PROVE  Started'
<1>1. device \in Stored
  BY PositionParts
<1>. QED
  BY <1>1 DEF Die, ForgetUnwritten, Started

(* The write at the head of the queue reaches the device.                  *)
LEMMA DeviceWritesPosition ==
    ASSUME PositionInv, DeviceWrites
    PROVE  PositionInv'
<1>1. /\ unwritten # <<>> /\ device' = Perform(device, Head(unwritten))
      /\ unwritten' = Tail(unwritten)
      /\ UNCHANGED <<memory, top, card, session, panel, list, review, reviewPanel, drawn, dirty>>
  BY DEF DeviceWrites, PlatformWrites, sessionVars, reviewVars, frameVars
<1>2. Head(unwritten) \in Writes /\ Tail(unwritten) \in Seq(Writes)
  BY <1>1, PositionParts, HeadTailProperties
<1>3. device' \in Stored /\ unwritten' \in Seq(Writes)
  BY <1>1, <1>2, PositionParts, Performing
<1>4. TypeOK'
  BY <1>1, <1>3, PositionParts DEF TypeOK, StoreTyped
<1>. QED
  BY <1>1, <1>4, PositionKept

LEMMA StutterPosition ==
    ASSUME PositionInv, UNCHANGED vars
    PROVE  PositionInv'
<1>1. UNCHANGED <<memory, device, unwritten, top, session, panel, list, review, reviewPanel,
                  drawn, dirty>>
  BY DEF vars, storeVars, sessionVars, reviewVars, frameVars
<1>2. TypeOK'
  BY <1>1, PositionParts DEF TypeOK, StoreTyped
<1>. QED
  BY <1>1, <1>2, PositionKept

LEMMA PositionStep ==
    ASSUME PositionInv, [Next]_vars
    PROVE  PositionInv'
<1>1. CASE Frame
  BY <1>1, FramePosition
<1>2. CASE Arrival
  BY <1>2, ArrivalPosition, ReviewPosition DEF Arrival
<1>3. CASE DeviceWrites
  BY <1>3, DeviceWritesPosition
<1>4. CASE Read
  BY <1>4, PanelStepPosition, SelectPosition, NextChunkPosition, FinishBookPosition DEF Read
<1>5. CASE Redo
  BY <1>5, PanelStepPosition, SelectPosition, ReviewPosition, PopPosition DEF Redo
<1>6. CASE OpenBook \/ OpenReview \/ OpenRow \/ ReadAgain \/ TapBack
  BY <1>6, OpenBookPosition, ReviewPosition, ReadAgainPosition, PopPosition
<1>7. CASE Die
  BY <1>7, DieStarts, StartedAgain
<1>8. CASE UNCHANGED vars
  BY <1>8, StutterPosition
<1>. QED
  BY <1>1, <1>2, <1>3, <1>4, <1>5, <1>6, <1>7, <1>8 DEF Next

(* However fast the taps come, PositionInv holds.                          *)
THEOREM PositionInvariant == Spec => []PositionInv
<1>1. Init => PositionInv
  BY InitStarts, StartPosition
<1>2. PositionInv /\ [Next]_vars => PositionInv'
  BY PositionStep
<1>. QED
  BY <1>1, <1>2, PTL DEF Spec

(* The bookmark is the chunk the reader is at, through reviews, restarts   *)
(* and resumed sessions, even if taps outrun the frames.                   *)
THEOREM PositionIsKept == Spec => []BookmarkIsPosition
<1>1. PositionInv => BookmarkIsPosition
  BY PositionParts
<1>. QED
  BY <1>1, PositionInvariant, PTL

-----------------------------------------------------------------------------
(* No tap outruns a frame.                                                 *)

LEMMA SessionParts ==
    ASSUME SessionInv
    PROVE  /\ PositionInv /\ StoreOK(device, unwritten, memory)
           /\ DrawnIsNow /\ PanelOK /\ FinishedOK /\ ReviewOK /\ ShownIsOnRecord
           /\ Bookmarked(memory) /\ Bookmarked(device)
BY DEF SessionInv, StoreOK

LEMMA SessionWhole ==
    ASSUME PositionInv', StoreOK(device, unwritten, memory)', DrawnIsNow',
           PanelOK', FinishedOK', ReviewOK', ShownIsOnRecord'
    PROVE  SessionInv'
BY DEF SessionInv

LEMMA FrameIsDue == dirty' = TRUE => DrawnIsNow'
BY DEF DrawnIsNow

LEMMA ControlPhases ==
    ASSUME NEW q \in Panel
    PROVE  /\ "continue" \in PanelControls(q) => q.phase = "reading"
           /\ "option" \in PanelControls(q) => q.phase = "questions"
           /\ "advance" \in PanelControls(q) => q.phase = "questions" /\ q.selected
           /\ "next chunk" \in PanelControls(q) => q.phase = "breakdown"
           /\ PanelControls(q) \subseteq PanelTaps
<1>1. q.phase \in {"reading", "questions", "breakdown"}
  BY DEF Panel, Phases
<1>2. CASE q.phase = "reading"
  BY <1>2 DEF PanelControls, PanelTaps
<1>3. CASE q.phase = "questions"
  <2>1. PanelControls(q) = {"option"} \cup (IF q.selected THEN {"advance"} ELSE {})
    BY <1>3 DEF PanelControls, QuestionControls
  <2>. QED
    BY <1>3, <2>1 DEF PanelTaps
<1>4. CASE q.phase = "breakdown"
  BY <1>4 DEF PanelControls, PanelTaps
<1>. QED
  BY <1>1, <1>2, <1>3, <1>4

LEMMA ControlsByRoute ==
    /\ top = Library => Controls = {"card"}
    /\ top = Session => Controls = SessionControls
    /\ top = Review => Controls = ReviewControls
BY Routes DEF Controls

(* A tap finds what the last frame drew, and that is what is.              *)
LEMMA TapFindsNow ==
    ASSUME SessionInv, ~TapsOutrunFrames, NEW route, NEW control, Tap(route, control)
    PROVE  /\ top = route /\ control \in Controls /\ dirty' = TRUE /\ UNCHANGED drawn
           /\ panel = NoPanel \/ (/\ top >= Session /\ ~session.complete
                                  /\ session.content = "loaded" /\ panel.chunk = session.index)
           /\ top < List => list = NoList
           /\ reviewPanel = NoPanel \/ (top = Review /\ reviewPanel.chunk = review.index)
<1>1. drawn.top = route /\ control \in drawn.controls /\ dirty' = TRUE /\ UNCHANGED drawn /\ ~dirty
  BY TapFacts
<1>. QED
  BY <1>1, SessionParts DEF DrawnIsNow

LEMMA SessionTap ==
    ASSUME SessionInv, ~TapsOutrunFrames, NEW control \in PanelTaps, Tap(Session, control)
    PROVE  /\ top = Session /\ panel \in Panel /\ control \in PanelControls(panel)
           /\ ~session.complete /\ session.ids = "loaded"
           /\ panel.chunk = session.index /\ panel.chunk = At(memory)
           /\ list = NoList /\ reviewPanel = NoPanel
<1>1. /\ top = Session /\ control \in Controls
      /\ panel = NoPanel \/ (/\ ~session.complete /\ session.content = "loaded"
                             /\ panel.chunk = session.index)
      /\ top < List => list = NoList
      /\ reviewPanel = NoPanel \/ top = Review
  BY TapFindsNow
<1>2. control \in SessionControls /\ list = NoList /\ reviewPanel = NoPanel
  BY <1>1, Routes DEF Controls
<1>3. PositionInv /\ panel \in Panel \cup {NoPanel}
  BY SessionParts, PositionParts
<1>4. panel \in Panel /\ panel # NoPanel
  BY <1>3, PanelTapFacts, PanelTypes
<1>5. control \in PanelControls(panel)
  BY <1>2 DEF SessionControls, PanelTaps
<1>6. session.ids = "loaded"
  BY <1>1, <1>3, <1>4, PositionParts DEF IdsFirst
<1>7. Resume(memory.progress) = session.index
  BY <1>1, <1>3, <1>4, <1>6, PositionParts, Routes DEF BookmarkIsPosition
<1>8. At(memory) = session.index
  BY <1>3, <1>7, PositionParts, StoredFacts
<1>. QED
  BY <1>1, <1>2, <1>4, <1>5, <1>6, <1>8

LEMMA ReviewTap ==
    ASSUME SessionInv, ~TapsOutrunFrames, NEW control \in PanelTaps, Tap(Review, control)
    PROVE  /\ top = Review /\ reviewPanel \in Panel /\ control \in PanelControls(reviewPanel)
           /\ reviewPanel.chunk = review.index
<1>1. /\ top = Review /\ control \in Controls
      /\ reviewPanel = NoPanel \/ reviewPanel.chunk = review.index
  BY TapFindsNow
<1>2. control \in ReviewControls
  BY <1>1, Routes DEF Controls
<1>3. PositionInv
  BY SessionParts
<1>4. reviewPanel \in Panel /\ reviewPanel # NoPanel
  BY <1>3, PanelTapFacts, PanelTypes
<1>5. control \in PanelControls(reviewPanel)
  BY <1>2 DEF ReviewControls, PanelTaps
<1>. QED
  BY <1>1, <1>4, <1>5

(* What counts as cleared is answered.                                     *)
LEMMA ClearedAnswered ==
    ASSUME SessionInv, top >= Session
    PROVE  \A c \in Chunks : c < ClearedCount => Answered(c, memory.answers)
<1>1. PositionInv /\ FinishedOK /\ Bookmarked(memory) /\ memory \in Stored
  BY SessionParts, PositionParts
<1>2. CASE session.complete
  BY <1>1, <1>2 DEF FinishedOK, AllAnswered
<1>3. CASE ~session.complete /\ session.ids # "loaded"
  <2>1. ClearedCount = 0
    BY <1>1, <1>3, PositionParts DEF IdsFirst, ClearedCount
  <2>. QED
    BY <2>1 DEF Chunks
<1>4. CASE ~session.complete /\ session.ids = "loaded"
  <2>1. ClearedCount = Resume(memory.progress)
    BY <1>1, <1>4, PositionParts DEF BookmarkIsPosition, ClearedCount
  <2>2. CASE memory.progress \in Chunks
    BY <1>1, <2>1, <2>2 DEF Resume, Bookmarked
  <2>3. CASE memory.progress \notin Chunks
    <3>1. ClearedCount = 0
      BY <2>1, <2>3 DEF Resume
    <3>. QED
      BY <3>1 DEF Chunks
  <2>. QED
    BY <2>2, <2>3
<1>. QED
  BY <1>2, <1>3, <1>4

(* A step on a panel leaves the rest as it is.                             *)
LEMMA OnPanelKept ==
    ASSUME SessionInv, PositionInv', UNCHANGED <<storeVars, top, session, list, review, card>>,
           dirty' = TRUE, PanelOK', UNCHANGED reviewPanel
    PROVE  SessionInv'
<1>1. FinishedOK' /\ StoreOK(device, unwritten, memory)'
  BY SessionParts DEF FinishedOK, AllAnswered, storeVars
<1>2. ReviewOK' /\ ShownIsOnRecord'
  BY SessionParts DEF ReviewOK, ShownIsOnRecord, storeVars
<1>. QED
  BY <1>1, <1>2, FrameIsDue, SessionWhole

LEMMA TapContinueSession ==
    ASSUME SessionInv, ~TapsOutrunFrames, TapContinue
    PROVE  SessionInv'
<1>1. /\ Tap(Session, "continue") /\ panel' = RevealQuestions(panel)
      /\ UNCHANGED <<storeVars, top, session, list, review, reviewPanel, card>>
  BY DEF TapContinue, reviewVars
<1>2. PositionInv' /\ dirty' = TRUE
  BY <1>1, SessionParts, PanelStepPosition, TapFacts
<1>3. panel \in Panel /\ panel.phase = "reading"
  BY <1>1, SessionTap, ControlPhases DEF PanelTaps
<1>4. /\ panel'.chunk = panel.chunk /\ panel'.question = panel.question
      /\ panel'.selected = panel.selected /\ panel'.startAnswered = panel.startAnswered
      /\ panel'.phase = "questions" /\ panel # NoPanel
  BY <1>1, <1>3, PanelTypes DEF RevealQuestions, Panel
<1>5. PanelOK'
  BY <1>1, <1>4, SessionParts DEF PanelOK, storeVars
<1>. QED
  BY <1>1, <1>2, <1>5, OnPanelKept

LEMMA TapAdvanceSession ==
    ASSUME SessionInv, ~TapsOutrunFrames, TapAdvance
    PROVE  SessionInv'
<1>1. /\ Tap(Session, "advance") /\ panel' = Advance(panel)
      /\ UNCHANGED <<storeVars, top, session, list, review, reviewPanel, card>>
  BY DEF TapAdvance, reviewVars
<1>2. PositionInv' /\ dirty' = TRUE
  BY <1>1, SessionParts, PanelStepPosition, TapFacts
<1>3. panel \in Panel /\ panel.phase = "questions" /\ panel.selected /\ panel # NoPanel
  BY <1>1, SessionTap, ControlPhases, PanelTypes DEF PanelTaps
<1> PICK c, n : c = panel.chunk /\ n = panel.question
  OBVIOUS
<1>4. c \in Chunks /\ n \in 1..PerChunk
  BY <1>3, PanelTypes
<1>5. /\ ~panel.startAnswered
      /\ \A k \in 1..PerChunk : k < n \/ k = n => memory.answers[<<c, k>>] # "none"
  BY <1>3, SessionParts DEF PanelOK
<1>6. UNCHANGED memory
  BY <1>1 DEF storeVars
<1>7. PanelOK'
  <2>1. CASE n = PerChunk
    <3>1. /\ panel'.chunk = c /\ panel'.question = n /\ panel'.selected
          /\ ~panel'.startAnswered /\ panel'.phase = "breakdown"
      BY <1>1, <1>3, <1>5, <2>1 DEF Advance, Panel
    <3>2. \A k \in 1..PerChunk : k < n \/ k = n
      BY <1>4, <2>1
    <3>3. Answered(c, memory.answers)
      BY <1>4, <1>5, <3>2, AnsweredByNumber
    <3>. QED
      BY <1>5, <1>6, <3>1, <3>3 DEF PanelOK
  <2>2. CASE n # PerChunk
    <3>1. /\ panel'.chunk = c /\ panel'.question = n + 1 /\ panel'.selected = panel.startAnswered
          /\ panel'.startAnswered = panel.startAnswered /\ panel'.phase = "questions"
      BY <1>1, <1>3, <2>2 DEF Advance, Panel
    <3>2. \A k \in 1..PerChunk : k < n + 1 => k < n \/ k = n
      BY <1>4
    <3>. QED
      BY <1>5, <1>6, <3>1, <3>2 DEF PanelOK
  <2>. QED
    BY <2>1, <2>2
<1>. QED
  BY <1>1, <1>2, <1>7, OnPanelKept

LEMMA ReviewPanelSession ==
    ASSUME SessionInv, ~TapsOutrunFrames, ReviewContinue \/ ReviewAdvance
    PROVE  SessionInv'
<1>1. /\ ReviewContinue => Tap(Review, "continue") /\ reviewPanel' = RevealQuestions(reviewPanel)
      /\ ReviewAdvance => Tap(Review, "advance") /\ reviewPanel' = Advance(reviewPanel)
      /\ UNCHANGED <<storeVars, top, session, list, review, panel, card>>
  BY DEF ReviewContinue, ReviewAdvance, sessionVars
<1>2. PositionInv' /\ dirty' = TRUE
  BY <1>1, SessionParts, PanelStepPosition, TapFacts
<1>3. reviewPanel \in Panel /\ reviewPanel # NoPanel
  BY <1>1, ReviewTap, PanelTypes DEF PanelTaps
<1>4. /\ reviewPanel'.chunk = reviewPanel.chunk
      /\ reviewPanel'.startAnswered = reviewPanel.startAnswered
      /\ reviewPanel'.selected = reviewPanel.selected
         \/ reviewPanel'.selected = reviewPanel.startAnswered
  <2>1. CASE ReviewContinue
    BY <1>1, <1>3, <2>1 DEF RevealQuestions, Panel
  <2>2. CASE ReviewAdvance
    BY <1>1, <1>3, <2>2 DEF Advance, Panel
  <2>. QED
    BY <2>1, <2>2
<1>5. ReviewOK' /\ ShownIsOnRecord'
  BY <1>1, <1>3, <1>4, SessionParts DEF ReviewOK, ShownIsOnRecord, storeVars
<1>6. FinishedOK' /\ StoreOK(device, unwritten, memory)' /\ PanelOK'
  BY <1>1, SessionParts DEF FinishedOK, AllAnswered, storeVars, PanelOK
<1>. QED
  BY <1>2, <1>5, <1>6, FrameIsDue, SessionWhole

(* A write that is a step of the log keeps the stores in order.            *)
LEMMA StoreStep ==
    ASSUME SessionInv, NEW w \in Writes,
           memory' = Perform(memory, w), unwritten' = Append(unwritten, w), UNCHANGED device,
           LogStep(memory, memory')
    PROVE  StoreOK(device, unwritten, memory)'
<1> PICK t, u : t = memory' /\ u = unwritten'
  OBVIOUS
<1>1. StoreOK(device, Append(unwritten, w), t)
  BY SessionParts, QueueGrows
<1>. QED
  BY <1>1

(* An answer to the question at hand, or of a chunk redone.                *)
LEMMA AnswerStep ==
    ASSUME SessionInv, NEW q \in QuestionIds, NEW result \in {"right", "wrong"},
           RecordAnswer(q, result), q[1] = At(memory) \/ Answered(q[1], memory.answers)
    PROVE  /\ StoreOK(device, unwritten, memory)'
           /\ memory'.answers[q] # "none"
           /\ \A x \in QuestionIds : memory.answers[x] # "none" => memory'.answers[x] # "none"
           /\ \A c \in Chunks : Answered(c, memory.answers) => Answered(c, memory'.answers)
           /\ \A c \in Chunks : c # q[1] =>
                  (Passed(c, memory'.answers) <=> Passed(c, memory.answers))
<1>1. PositionInv /\ memory.answers \in [QuestionIds -> Results]
  BY SessionParts, PositionParts, StoredFacts
<1>2. /\ memory'.progress = memory.progress
      /\ memory'.answers = [memory.answers EXCEPT ![q] = result]
      /\ UNCHANGED device
      /\ \E w \in Writes : memory' = Perform(memory, w) /\ unwritten' = Append(unwritten, w)
  BY <1>1, RecordFacts
<1>3. LogStep(memory, memory')
  BY <1>2 DEF LogStep
<1>4. StoreOK(device, unwritten, memory)'
  BY <1>2, <1>3, StoreStep
<1> PICK b : b = memory'.answers
  OBVIOUS
<1>5. /\ b[q] # "none"
      /\ \A x \in QuestionIds : memory.answers[x] # "none" => b[x] # "none"
      /\ \A c \in Chunks : Answered(c, memory.answers) => Answered(c, b)
      /\ \A c \in Chunks : c # q[1] => (Passed(c, b) <=> Passed(c, memory.answers))
  BY <1>1, <1>2, AnswersStay
<1>. QED
  BY <1>4, <1>5

LEMMA NothingShown ==
    ASSUME top' = Session
    PROVE  /\ ShownIsOnRecord'
           /\ list' = NoList /\ reviewPanel' = NoPanel => ReviewOK'
<1>1. top' # List /\ top' # Library /\ top' # Review
  BY Routes
<1>2. ShownIsOnRecord'
  BY <1>1 DEF ShownIsOnRecord
<1>3. ASSUME list' = NoList, reviewPanel' = NoPanel PROVE ReviewOK'
  <2>1. \A c \in Chunks : ~ (c < 0)
    BY DEF Chunks
  <2>2. list'.cleared = 0
    BY <1>3, InitialStates
  <2>. QED
    BY <1>1, <1>3, <2>1, <2>2 DEF ReviewOK
<1>. QED
  BY <1>2, <1>3

LEMMA SelectOptionSession ==
    ASSUME SessionInv, ~TapsOutrunFrames, SelectOption
    PROVE  SessionInv'
<1>1. /\ Tap(Session, "option") /\ panel' = Select(panel)
      /\ UNCHANGED <<top, session, list, review, reviewPanel, card>>
  BY DEF SelectOption, reviewVars
<1>2. PositionInv' /\ dirty' = TRUE
  BY <1>1, SessionParts, SelectPosition, TapFacts
<1>3. /\ panel \in Panel /\ panel.phase = "questions" /\ panel # NoPanel
      /\ panel.chunk = At(memory) /\ list = NoList /\ reviewPanel = NoPanel /\ top = Session
  BY <1>1, SessionTap, ControlPhases, PanelTypes DEF PanelTaps
<1> PICK c, n : c = panel.chunk /\ n = panel.question
  OBVIOUS
<1>4. /\ c \in Chunks /\ n \in 1..PerChunk /\ Question(panel) = <<c, n>> /\ <<c, n>> \in QuestionIds
  BY <1>3, PanelTypes DEF Question
<1>5. PICK result \in {"right", "wrong"} : RecordAnswer(<<c, n>>, result)
  BY <1>3, <1>4, PanelTypes DEF SelectOption
<1>6. /\ StoreOK(device, unwritten, memory)'
      /\ memory'.answers[<<c, n>>] # "none"
      /\ \A x \in QuestionIds : memory.answers[x] # "none" => memory'.answers[x] # "none"
      /\ \A d \in Chunks : Answered(d, memory.answers) => Answered(d, memory'.answers)
  <2>1. <<c, n>>[1] = At(memory)
    BY <1>3
  <2>. QED
    BY <1>4, <1>5, <2>1, AnswerStep
<1>7. PanelOK'
  <2>1. /\ panel'.chunk = c /\ panel'.question = n /\ panel'.selected
        /\ panel'.startAnswered = panel.startAnswered /\ panel'.phase = "questions"
    BY <1>1, <1>3 DEF Select, Panel
  <2>2. \A k \in 1..PerChunk : k < n => memory.answers[<<c, k>>] # "none"
    BY <1>3, SessionParts DEF PanelOK
  <2>3. \A k \in 1..PerChunk : <<c, k>> \in QuestionIds
    BY <1>4, AnsweredByNumber
  <2>4. \A k \in 1..PerChunk : k < n \/ k = n => memory'.answers[<<c, k>>] # "none"
    BY <1>6, <2>2, <2>3
  <2>5. ~panel.startAnswered
    BY <1>3, SessionParts DEF PanelOK
  <2>. QED
    BY <2>1, <2>4, <2>5 DEF PanelOK
<1>8. FinishedOK'
  BY <1>1, <1>6, SessionParts DEF FinishedOK, AllAnswered
<1>9. ReviewOK' /\ ShownIsOnRecord'
  BY <1>1, <1>3, NothingShown
<1>. QED
  BY <1>2, <1>6, <1>7, <1>8, <1>9, FrameIsDue, SessionWhole

LEMMA ReviewSelectSession ==
    ASSUME SessionInv, ~TapsOutrunFrames, ReviewSelect
    PROVE  SessionInv'
<1>1. /\ Tap(Review, "option") /\ reviewPanel' = Select(reviewPanel) /\ ~reviewPanel.selected
      /\ UNCHANGED <<top, session, panel, list, review, card>>
  BY DEF ReviewSelect, sessionVars
<1>2. PositionInv' /\ dirty' = TRUE
  BY <1>1, SessionParts, SelectPosition, TapFacts
<1>3. /\ reviewPanel \in Panel /\ reviewPanel # NoPanel /\ top = Review
      /\ reviewPanel.chunk = review.index
  BY <1>1, ReviewTap, PanelTypes DEF PanelTaps
<1> PICK c, n : c = reviewPanel.chunk /\ n = reviewPanel.question
  OBVIOUS
<1>4. c \in Chunks /\ Question(reviewPanel) = <<c, n>> /\ <<c, n>> \in QuestionIds
  BY <1>3, PanelTypes DEF Question
<1>5. PICK result \in {"right", "wrong"} : RecordAnswer(<<c, n>>, result)
  BY <1>3, <1>4, PanelTypes DEF ReviewSelect
<1>6. /\ Answered(c, memory.answers)
      /\ ~reviewPanel.startAnswered /\ ~review.startAnswered
  BY <1>1, <1>3, SessionParts DEF ReviewOK
<1>7. /\ StoreOK(device, unwritten, memory)'
      /\ \A x \in QuestionIds : memory.answers[x] # "none" => memory'.answers[x] # "none"
      /\ \A d \in Chunks : Answered(d, memory.answers) => Answered(d, memory'.answers)
  <2>1. Answered(<<c, n>>[1], memory.answers)
    BY <1>6
  <2>. QED
    BY <1>4, <1>5, <2>1, AnswerStep
<1>8. PanelOK'
  <2>1. panel # NoPanel => panel.chunk \in Chunks
    BY SessionParts, PositionParts, PanelTypes
  <2>2. \A k \in 1..PerChunk : panel # NoPanel => <<panel.chunk, k>> \in QuestionIds
    BY <2>1, AnsweredByNumber
  <2>. QED
    BY <1>1, <1>7, <2>1, <2>2, SessionParts DEF PanelOK
<1>9. FinishedOK'
  BY <1>1, <1>7, SessionParts DEF FinishedOK, AllAnswered
<1>10. /\ reviewPanel'.chunk = c /\ reviewPanel'.selected /\ ~reviewPanel'.startAnswered
  BY <1>1, <1>3, <1>6 DEF Select, Panel
<1>11. ReviewOK'
  <2>1. \A d \in Chunks : d < list'.cleared => Answered(d, memory'.answers)
    BY <1>1, <1>7, SessionParts DEF ReviewOK
  <2>2. review'.index < list'.cleared /\ ~review'.startAnswered
    BY <1>1, <1>3, <1>6, SessionParts DEF ReviewOK
  <2>3. Answered(reviewPanel'.chunk, memory'.answers)
    BY <1>4, <1>6, <1>7, <1>10
  <2>4. reviewPanel'.startAnswered = review'.startAnswered
    BY <1>1, <1>3, <1>6, SessionParts DEF ReviewOK, Select, Panel
  <2>. QED
    BY <1>10, <2>1, <2>2, <2>3, <2>4 DEF ReviewOK
<1>12. ShownIsOnRecord'
  BY <1>1, <1>3, <1>10, Routes DEF ShownIsOnRecord
<1>. QED
  BY <1>2, <1>7, <1>8, <1>9, <1>11, <1>12, FrameIsDue, SessionWhole

LEMMA NextChunkSession ==
    ASSUME SessionInv, ~TapsOutrunFrames, NextChunk
    PROVE  SessionInv'
<1>1. /\ Tap(Session, "next chunk") /\ session.index + 1 < N
      /\ Write("progress", session.index + 1)
      /\ session' = [session EXCEPT !.index = @ + 1, !.content = "loading"]
      /\ UNCHANGED <<top, panel, list, review, reviewPanel, card>>
  BY DEF NextChunk, SaveChunkIndex, reviewVars
<1>2. PositionInv' /\ PositionInv /\ dirty' = TRUE
  BY <1>1, SessionParts, NextChunkPosition, TapFacts
<1>3. /\ top = Session /\ panel \in Panel /\ panel # NoPanel /\ panel.phase = "breakdown"
      /\ session.index = At(memory) /\ panel.chunk = At(memory) /\ ~session.complete
  BY <1>1, SessionTap, ControlPhases, PanelTypes DEF PanelTaps
<1> PICK i : i = session.index
  OBVIOUS
<1>4. i + 1 \in {None} \cup Chunks
  <2>1. i \in Chunks /\ i + 1 < N
    BY <1>1, <1>2, PositionParts DEF SessionStates
  <2>. QED
    BY <2>1, BlankFacts DEF Chunks
<1>5. /\ memory'.progress = i + 1 /\ memory'.answers = memory.answers
      /\ UNCHANGED device
      /\ \E w \in Writes : memory' = Perform(memory, w) /\ unwritten' = Append(unwritten, w)
  BY <1>1, <1>2, <1>4, BookmarkFacts
<1>6. Answered(At(memory), memory.answers)
  BY <1>3, SessionParts DEF PanelOK
<1>7. LogStep(memory, memory')
  BY <1>1, <1>3, <1>5, <1>6 DEF LogStep
<1>8. StoreOK(device, unwritten, memory)'
  BY <1>5, <1>7, StoreStep
<1>9. session'.complete = session.complete
  BY <1>1, <1>2, PositionParts DEF SessionStates
<1>10. PanelOK' /\ FinishedOK' /\ ReviewOK'
  BY <1>1, <1>3, <1>5, <1>9, SessionParts DEF PanelOK, FinishedOK, ReviewOK
<1>11. ShownIsOnRecord'
  BY <1>1, <1>3, NothingShown
<1>. QED
  BY <1>2, <1>8, <1>10, <1>11, FrameIsDue, SessionWhole

LEMMA FinishBookSession ==
    ASSUME SessionInv, ~TapsOutrunFrames, FinishBook
    PROVE  SessionInv'
<1>1. /\ Tap(Session, "next chunk") /\ session.index + 1 >= N
      /\ Write("progress", None)
      /\ session' = [session EXCEPT !.complete = TRUE]
      /\ UNCHANGED <<top, panel, list, review, reviewPanel, card>>
  BY DEF FinishBook, ClearProgress, reviewVars
<1>2. PositionInv' /\ PositionInv /\ dirty' = TRUE
  BY <1>1, SessionParts, FinishBookPosition, TapFacts
<1>3. /\ top = Session /\ panel \in Panel /\ panel # NoPanel /\ panel.phase = "breakdown"
      /\ session.index = At(memory) /\ panel.chunk = At(memory) /\ ~session.complete
  BY <1>1, SessionTap, ControlPhases, PanelTypes DEF PanelTaps
<1>4. /\ memory'.progress = None /\ memory'.answers = memory.answers
      /\ UNCHANGED device
      /\ \E w \in Writes : memory' = Perform(memory, w) /\ unwritten' = Append(unwritten, w)
  BY <1>1, <1>2, BookmarkFacts
<1>5. AllAnswered(memory)
  <2>1. Answered(At(memory), memory.answers)
    BY <1>3, SessionParts DEF PanelOK
  <2>2. \A c \in Chunks : c < ClearedCount => Answered(c, memory.answers)
    BY <1>3, ClearedAnswered, Routes
  <2>3. ClearedCount = At(memory)
    BY <1>3 DEF ClearedCount
  <2>4. PICK n \in Chunks : n = At(memory) /\ n + 1 >= N
    BY <1>1, <1>2, <1>3, PositionParts, StoredFacts
  <2>5. \A c \in Chunks : c < n \/ c = n
    BY <2>4, BlankFacts DEF Chunks
  <2>. QED
    BY <2>1, <2>2, <2>3, <2>4, <2>5 DEF AllAnswered
<1>6. LogStep(memory, memory')
  BY <1>4, <1>5 DEF LogStep
<1>7. StoreOK(device, unwritten, memory)'
  BY <1>4, <1>6, StoreStep
<1>8. PanelOK' /\ FinishedOK' /\ ReviewOK'
  BY <1>1, <1>3, <1>4, <1>5, SessionParts DEF PanelOK, FinishedOK, AllAnswered, ReviewOK
<1>9. ShownIsOnRecord'
  BY <1>1, <1>3, NothingShown
<1>. QED
  BY <1>2, <1>7, <1>8, <1>9, FrameIsDue, SessionWhole

LEMMA ReadAgainSession ==
    ASSUME SessionInv, ~TapsOutrunFrames, ReadAgain
    PROVE  SessionInv'
<1>1. /\ Tap(Session, "read again") /\ StartOver
      /\ session' = [session EXCEPT !.index = 0, !.complete = FALSE, !.content = "loading"]
      /\ UNCHANGED <<top, panel, list, review, reviewPanel, card>>
  BY DEF ReadAgain, reviewVars
<1>2. PositionInv' /\ PositionInv /\ dirty' = TRUE /\ memory \in Stored
  BY <1>1, SessionParts, ReadAgainPosition, PositionParts, TapFacts
<1>3. /\ top = Session /\ "read again" \in Controls
      /\ panel = NoPanel \/ ~session.complete
      /\ top < List => list = NoList
      /\ reviewPanel = NoPanel \/ top = Review
  BY <1>1, TapFindsNow
<1>4. list = NoList /\ reviewPanel = NoPanel /\ "read again" \in SessionControls
  <2>1. top = Session
    BY <1>3
  <2>2. top # Review /\ top # Library /\ top < List
    BY <2>1, Routes
  <2>3. Controls = SessionControls
    BY <2>1, ControlsByRoute
  <2>. QED
    BY <1>3, <2>2, <2>3
<1>5. "read again" \notin PanelControls(panel)
  <2>1. "read again" \notin PanelTaps
    BY DEF PanelTaps
  <2>. QED
    BY <1>2, <2>1, PositionParts, ControlPhases, NoPanelShowsNothing
<1>6. session.complete /\ panel = NoPanel
  BY <1>3, <1>4, <1>5 DEF SessionControls
<1>7. AllAnswered(memory) /\ memory.progress = None
  <2>1. AllAnswered(memory)
    BY <1>3, <1>6, SessionParts, Routes DEF FinishedOK
  <2>2. session.ids = "loaded"
    BY <1>2, <1>6, PositionParts DEF IdsFirst
  <2>. QED
    BY <1>2, <1>3, <1>6, <2>1, <2>2, PositionParts, Routes DEF BookmarkIsPosition
<1>8. StoreOK(device, unwritten, memory)'
  <2>1. PICK w1 \in Writes, w2 \in Writes :
               /\ w1 = [key |-> "progress", value |-> 0]
               /\ w2 = [key |-> "answers", value |-> NoAnswers]
               /\ unwritten' = Append(Append(unwritten, w1), w2)
               /\ memory' = Perform(Perform(memory, w1), w2)
               /\ UNCHANGED device
    BY <1>1, <1>2, StartOverFacts
  <2> PICK s, t : s = Perform(memory, w1) /\ t = Perform(s, w2)
    OBVIOUS
  <2>2. s \in Stored /\ s.progress = 0 /\ s.answers = memory.answers
    BY <1>2, <2>1, Performing
  <2>3. t.progress = 0 /\ t.answers = NoAnswers
    BY <2>1, <2>2, Performing
  <2>4. LogStep(memory, s) /\ LogStep(s, t)
    BY <1>7, <2>2, <2>3 DEF LogStep
  <2>5. StoreOK(device, Append(unwritten, w1), s)
    BY <2>4, SessionParts, QueueGrows
  <2>6. StoreOK(device, Append(Append(unwritten, w1), w2), t)
    BY <2>4, <2>5, QueueGrows
  <2>. QED
    BY <2>1, <2>6
<1>9. PanelOK' /\ FinishedOK'
  <2>1. ~session'.complete
    BY <1>1, <1>2, PositionParts DEF SessionStates
  <2>. QED
    BY <1>1, <1>6, <2>1 DEF PanelOK, FinishedOK
<1>10. ReviewOK' /\ ShownIsOnRecord'
  BY <1>1, <1>3, <1>4, NothingShown
<1>. QED
  BY <1>2, <1>8, <1>9, <1>10, FrameIsDue, SessionWhole

LEMMA OpenBookSession ==
    ASSUME SessionInv, ~TapsOutrunFrames, OpenBook
    PROVE  SessionInv'
<1>1. /\ Tap(Library, "card") /\ top' = Session /\ session' = NoSession
      /\ UNCHANGED <<storeVars, card, panel, list, review, reviewPanel>>
  BY DEF OpenBook, reviewVars
<1>2. PositionInv' /\ dirty' = TRUE
  BY <1>1, SessionParts, OpenBookPosition, TapFacts
<1>3. top = Library /\ list = NoList /\ reviewPanel = NoPanel
  <2>1. /\ top = Library /\ (top < List => list = NoList)
        /\ reviewPanel = NoPanel \/ top = Review
    BY <1>1, TapFindsNow
  <2>. QED
    BY <2>1, Routes
<1>4. PanelOK' /\ StoreOK(device, unwritten, memory)'
  BY <1>1, SessionParts DEF PanelOK, storeVars
<1>5. FinishedOK'
  BY <1>1, InitialStates DEF FinishedOK
<1>6. ReviewOK' /\ ShownIsOnRecord'
  BY <1>1, <1>3, NothingShown
<1>. QED
  BY <1>2, <1>4, <1>5, <1>6, FrameIsDue, SessionWhole

LEMMA ArrivalSession ==
    ASSUME SessionInv, ChunkIdsArrive \/ ChunkIdsFail \/ ChunkArrives
    PROVE  SessionInv'
<1>1. /\ dirty' = TRUE
      /\ UNCHANGED <<storeVars, top, card, panel, reviewPanel, list, review>>
  BY DEF ChunkIdsArrive, ChunkIdsFail, ChunkArrives, Arrives, reviewVars
<1>2. PositionInv' /\ PositionInv
  BY SessionParts, ArrivalPosition
<1>3. session'.complete = session.complete
  BY <1>2, PositionParts DEF SessionStates, ChunkIdsArrive, ChunkIdsFail, ChunkArrives
<1>4. PanelOK' /\ StoreOK(device, unwritten, memory)'
  BY <1>1, SessionParts DEF PanelOK, storeVars
<1>5. FinishedOK'
  BY <1>1, <1>3, SessionParts DEF FinishedOK, AllAnswered, storeVars
<1>6. ReviewOK' /\ ShownIsOnRecord'
  BY <1>1, SessionParts DEF ReviewOK, ShownIsOnRecord, storeVars
<1>. QED
  BY <1>1, <1>2, <1>4, <1>5, <1>6, FrameIsDue, SessionWhole

(* A step of the review above an unchanged session.                        *)
LEMMA UnderReviewKept ==
    ASSUME SessionInv, PositionInv', UNCHANGED <<storeVars, session, panel>>,
           dirty' = TRUE, top' >= Session => top >= Session, ReviewOK', ShownIsOnRecord'
    PROVE  SessionInv'
<1>1. PanelOK' /\ StoreOK(device, unwritten, memory)'
  BY SessionParts DEF PanelOK, storeVars
<1>2. FinishedOK'
  BY SessionParts DEF FinishedOK, AllAnswered, storeVars
<1>. QED
  BY <1>1, <1>2, FrameIsDue, SessionWhole

LEMMA OpenReviewSession ==
    ASSUME SessionInv, ~TapsOutrunFrames, OpenReview
    PROVE  SessionInv'
<1>1. /\ Tap(Session, "review") /\ top = Session /\ top' = List
      /\ list' = [NoList EXCEPT !.cleared = ClearedCount]
      /\ UNCHANGED <<storeVars, card, session, panel, review, reviewPanel>>
  BY DEF OpenReview, sessionVars
<1>2. PositionInv' /\ dirty' = TRUE
  BY <1>1, SessionParts, ReviewPosition, TapFacts
<1>3. reviewPanel = NoPanel
  <2>1. reviewPanel = NoPanel \/ top = Review
    BY <1>1, TapFindsNow
  <2>. QED
    BY <1>1, <2>1, Routes
<1>4. list'.cleared = ClearedCount /\ list'.rows = "loading"
  BY <1>1 DEF NoList
<1>5. top >= Session /\ top' # Review /\ top' # Library
  BY <1>1, Routes
<1>6. ReviewOK'
  <2>1. \A c \in Chunks : c < list'.cleared => Answered(c, memory'.answers)
    BY <1>1, <1>4, <1>5, ClearedAnswered DEF storeVars
  <2>. QED
    BY <1>1, <1>3, <1>5, <2>1 DEF ReviewOK
<1>7. ShownIsOnRecord'
  BY <1>4, <1>5 DEF ShownIsOnRecord
<1>. QED
  BY <1>1, <1>2, <1>5, <1>6, <1>7, UnderReviewKept

LEMMA RowsArriveSession ==
    ASSUME SessionInv, RowsArrive \/ ReviewArrives
    PROVE  SessionInv'
<1>1. /\ dirty' = TRUE
      /\ UNCHANGED <<storeVars, top, card, panel, reviewPanel, session>>
  BY DEF RowsArrive, ReviewArrives, Arrives
<1>2. PositionInv' /\ PositionInv
  BY SessionParts, ReviewPosition
<1>3. /\ list'.cleared = list.cleared
      /\ list'.rows = "loaded" =>
             list'.answers = memory.answers \/ (list'.answers = list.answers /\ list.rows = "loaded")
  <2>1. CASE RowsArrive
    BY <1>2, <2>1, PositionParts DEF RowsArrive, ListStates
  <2>2. CASE ReviewArrives
    BY <2>2 DEF ReviewArrives
  <2>. QED
    BY <2>1, <2>2
<1>4. review'.index = review.index /\ review'.startAnswered = review.startAnswered
  BY <1>2, PositionParts DEF RowsArrive, ReviewArrives, ReviewStates
<1>5. ReviewOK'
  BY <1>1, <1>3, <1>4, SessionParts DEF ReviewOK, storeVars
<1>6. ShownIsOnRecord'
  BY <1>1, <1>3, SessionParts DEF ShownIsOnRecord, storeVars
<1>. QED
  BY <1>1, <1>2, <1>5, <1>6, UnderReviewKept

LEMMA OpenRowSession ==
    ASSUME SessionInv, ~TapsOutrunFrames, OpenRow
    PROVE  SessionInv'
<1>1. /\ Tap(List, "row") /\ top = List /\ top' = Review
      /\ UNCHANGED <<storeVars, card, session, panel, list, reviewPanel>>
  BY DEF OpenRow, sessionVars
<1>2. PICK chunk \in 0..(list.cleared - 1) : review' = LoadReview(chunk)
  BY DEF OpenRow
<1>3. PositionInv' /\ PositionInv /\ dirty' = TRUE
  BY <1>1, SessionParts, ReviewPosition, TapFacts
<1>4. chunk \in Chunks /\ chunk < list.cleared
  <2>1. list.cleared \in 0..N
    BY <1>3, PositionParts DEF ListStates
  <2>. QED
    BY <2>1, BlankFacts DEF Chunks
<1>5. review'.index = chunk /\ review'.startAnswered = Passed(chunk, memory.answers)
  BY <1>2, <1>4, LoadReviewFacts
<1>6. reviewPanel = NoPanel /\ top >= Session /\ top' # List /\ top' # Library
  <2>1. reviewPanel = NoPanel \/ top = Review
    BY <1>1, TapFindsNow
  <2>. QED
    BY <1>1, <2>1, Routes
<1>7. ReviewOK'
  BY <1>1, <1>4, <1>5, <1>6, SessionParts DEF ReviewOK, storeVars
<1>8. ShownIsOnRecord'
  BY <1>1, <1>6 DEF ShownIsOnRecord
<1>. QED
  BY <1>1, <1>3, <1>6, <1>7, <1>8, UnderReviewKept

LEMMA ReviewNextSession ==
    ASSUME SessionInv, ~TapsOutrunFrames, ReviewNext
    PROVE  SessionInv'
<1> PICK i : i = review.index
  OBVIOUS
<1>1. /\ Tap(Review, "next chunk") /\ i + 1 < list.cleared /\ review' = LoadReview(i + 1)
      /\ UNCHANGED <<storeVars, top, card, session, panel, list, reviewPanel>>
  BY DEF ReviewNext, sessionVars
<1>2. PositionInv' /\ PositionInv /\ dirty' = TRUE
  BY <1>1, SessionParts, ReviewPosition, TapFacts
<1>3. i \in Chunks /\ i + 1 \in Chunks /\ i + 1 # i
  <2> PICK cleared : cleared = list.cleared
    OBVIOUS
  <2>1. i \in Chunks
    BY <1>2, PositionParts DEF ReviewStates
  <2>2. cleared \in 0..N
    BY <1>2, PositionParts DEF ListStates
  <2>3. i + 1 < cleared
    BY <1>1
  <2>. QED
    BY <2>1, <2>2, <2>3, BlankFacts DEF Chunks
<1>4. review'.index = i + 1 /\ review'.startAnswered = Passed(i + 1, memory.answers)
  BY <1>1, <1>3, LoadReviewFacts
<1>5. top = Review /\ reviewPanel.chunk = i
  BY <1>1, ReviewTap DEF PanelTaps
<1>6. ReviewOK'
  BY <1>1, <1>3, <1>4, <1>5, SessionParts DEF ReviewOK, storeVars
<1>7. ShownIsOnRecord'
  BY <1>1, SessionParts DEF ShownIsOnRecord, storeVars
<1>. QED
  BY <1>1, <1>2, <1>6, <1>7, UnderReviewKept

LEMMA PopSession ==
    ASSUME SessionInv, TapBack \/ ReviewEnds
    PROVE  SessionInv'
<1>1. /\ Pop /\ dirty' = TRUE
      /\ UNCHANGED <<storeVars, session, panel, review, reviewPanel>>
  BY TapFacts DEF TapBack, ReviewEnds, sessionVars
<1>2. PositionInv' /\ PositionInv
  BY SessionParts, PopPosition
<1>3. /\ top >= Session /\ top' # Review
      /\ list'.cleared = list.cleared
      /\ top' = List => list'.rows = "loading"
      /\ top' = Library => card' = memory
  <2>1. CASE BackToLibrary
    BY <2>1, Routes DEF BackToLibrary
  <2>2. CASE BackToSession
    BY <2>2, Routes DEF BackToSession
  <2>3. CASE BackToList
    BY <1>2, <2>3, PositionParts, Routes DEF BackToList, ListStates
  <2>. QED
    BY <1>1, <2>1, <2>2, <2>3 DEF Pop
<1>4. ReviewOK'
  BY <1>1, <1>3, SessionParts DEF ReviewOK, storeVars
<1>5. ShownIsOnRecord'
  BY <1>1, <1>3 DEF ShownIsOnRecord, storeVars
<1>. QED
  BY <1>1, <1>2, <1>3, <1>4, <1>5, UnderReviewKept

LEMMA FrameSession ==
    ASSUME SessionInv, Frame
    PROVE  SessionInv'
<1>1. PositionInv' /\ PositionInv
  BY SessionParts, FramePosition
<1>2. /\ dirty' = FALSE
      /\ UNCHANGED <<memory, device, unwritten, top, card>>
      /\ session' = IF top # Library THEN session ELSE NoSession
      /\ panel' = IF top # Library /\ ~session.complete
                  THEN Mounted(panel, session.index, session.content, FALSE)
                  ELSE NoPanel
      /\ list' = IF top \in {List, Review} THEN list ELSE NoList
      /\ review' = IF top = Review THEN review ELSE NoReview
      /\ reviewPanel' = IF top = Review
                 THEN Mounted(reviewPanel, review.index, review.content, review.startAnswered)
                 ELSE NoPanel
      /\ drawn'.top = top' /\ drawn'.controls = Controls'
  BY <1>1, FrameFacts
<1>3. /\ top \in {Library, Session, List, Review}
      /\ session.index \in Chunks /\ review.index \in Chunks /\ review.startAnswered \in BOOLEAN
      /\ panel \in Panel \cup {NoPanel} /\ reviewPanel \in Panel \cup {NoPanel}
  BY <1>1, PositionParts DEF SessionStates, ReviewStates
<1> PICK start : start = FALSE
  OBVIOUS
<1> PICK m : m = Mounted(panel, session.index, session.content, start)
  OBVIOUS
<1>4. /\ m # NoPanel => session.content = "loaded" /\ m.chunk = session.index
      /\ m = NoPanel \/ m = NewPanel(session.index, start) \/ m = panel
  <2>1. start \in BOOLEAN
    OBVIOUS
  <2>. QED
    BY <1>3, <2>1, MountedFacts
<1>5. panel' = NoPanel \/ (panel' = m /\ top # Library /\ ~session.complete)
  BY <1>2
<1> PICK r : r = Mounted(reviewPanel, review.index, review.content, review.startAnswered)
  OBVIOUS
<1>6. /\ r # NoPanel => r.chunk = review.index
      /\ r = NoPanel \/ r = NewPanel(review.index, review.startAnswered)
                     \/ (r = reviewPanel /\ reviewPanel.chunk = review.index)
  BY <1>3, MountedFacts
<1>7. reviewPanel' = NoPanel \/ (reviewPanel' = r /\ top = Review)
  BY <1>2
<1>8. DrawnIsNow'
  <2>1. top' < List => list' = NoList
    BY <1>2, <1>3, Routes
  <2>2. panel' = NoPanel \/ (/\ top' >= Session /\ ~session'.complete
                             /\ session'.content = "loaded" /\ panel'.chunk = session'.index)
    BY <1>2, <1>3, <1>4, <1>5, Routes
  <2>3. reviewPanel' = NoPanel \/ (top' = Review /\ reviewPanel'.chunk = review'.index)
    BY <1>2, <1>6, <1>7
  <2>. QED
    BY <1>2, <2>1, <2>2, <2>3 DEF DrawnIsNow
<1>9. PanelOK'
  <2>1. CASE panel' = NoPanel
    BY <2>1 DEF PanelOK
  <2>2. CASE panel' = panel
    BY <1>2, <2>2, SessionParts DEF PanelOK
  <2>3. CASE panel' = NewPanel(session.index, start)
    <3>1. /\ panel'.startAnswered = start /\ panel'.selected = start
          /\ panel'.phase = "reading" /\ panel'.question = 1
      BY <1>3, <2>3, NewPanelFacts
    <3>2. \A k \in 1..PerChunk : ~ (k < 1)
      OBVIOUS
    <3>. QED
      BY <3>1, <3>2 DEF PanelOK
  <2>. QED
    BY <1>4, <1>5, <2>1, <2>2, <2>3
<1>10. FinishedOK'
  BY <1>2, InitialStates, SessionParts DEF FinishedOK, AllAnswered
<1>11. ReviewOK'
  <2>1. \A c \in Chunks : c < list'.cleared => Answered(c, memory'.answers)
    <3>1. \A c \in Chunks : ~ (c < 0)
      BY DEF Chunks
    <3>2. list'.cleared = list.cleared \/ list'.cleared = 0
      BY <1>2, InitialStates
    <3>. QED
      BY <1>2, <3>1, <3>2, SessionParts DEF ReviewOK
  <2>2. ASSUME top' = Review
        PROVE  /\ review' = review /\ list' = list
               /\ review.index < list.cleared
               /\ review.startAnswered => Passed(review.index, memory.answers)
    BY <1>2, <2>2, SessionParts DEF ReviewOK
  <2>3. ASSUME reviewPanel' # NoPanel
        PROVE  /\ Answered(reviewPanel'.chunk, memory'.answers)
               /\ reviewPanel'.startAnswered => reviewPanel'.selected
               /\ reviewPanel'.startAnswered = review'.startAnswered
    <3>1. reviewPanel' = r /\ r # NoPanel /\ top = Review /\ review' = review
      BY <1>2, <1>7, <2>3
    <3>2. CASE r = reviewPanel /\ reviewPanel.chunk = review.index
      BY <1>2, <3>1, <3>2, SessionParts DEF ReviewOK
    <3>3. CASE r = NewPanel(review.index, review.startAnswered)
      <4>1. r.chunk = review.index /\ r.selected = review.startAnswered
            /\ r.startAnswered = review.startAnswered
        BY <1>3, <3>3, NewPanelFacts
      <4>2. Answered(review.index, memory.answers)
        BY <1>3, <3>1, SessionParts DEF ReviewOK
      <4>. QED
        BY <1>2, <3>1, <4>1, <4>2
    <3>. QED
      BY <1>6, <3>1, <3>2, <3>3
  <2>. QED
    BY <1>2, <2>1, <2>2, <2>3 DEF ReviewOK
<1>12. ShownIsOnRecord'
  <2>1. top' = List => list' = list /\ top = List
    BY <1>2
  <2>2. top' = Review /\ reviewPanel' # NoPanel /\ reviewPanel'.startAnswered =>
            Passed(reviewPanel'.chunk, memory'.answers)
    <3>1. ASSUME reviewPanel' # NoPanel, reviewPanel'.startAnswered, top' = Review
          PROVE  Passed(reviewPanel'.chunk, memory'.answers)
      <4>1. reviewPanel'.chunk = review.index /\ reviewPanel'.startAnswered = review.startAnswered
            /\ review' = review
        BY <1>2, <1>6, <1>7, <1>11, <3>1 DEF ReviewOK
      <4>2. Passed(review.index, memory.answers)
        BY <1>2, <3>1, <4>1, SessionParts DEF ReviewOK
      <4>. QED
        BY <1>2, <4>1, <4>2
    <3>. QED
      BY <3>1
  <2>. QED
    BY <1>2, <2>1, <2>2, SessionParts DEF ShownIsOnRecord
<1>13. StoreOK(device, unwritten, memory)'
  BY <1>2, SessionParts
<1>. QED
  BY <1>1, <1>8, <1>9, <1>10, <1>11, <1>12, <1>13, SessionWhole

LEMMA DeviceWritesSession ==
    ASSUME SessionInv, DeviceWrites
    PROVE  SessionInv'
<1>1. /\ unwritten # <<>> /\ device' = Perform(device, Head(unwritten))
      /\ unwritten' = Tail(unwritten)
      /\ UNCHANGED <<memory, top, card, session, panel, list, review, reviewPanel, drawn, dirty>>
  BY DEF DeviceWrites, PlatformWrites, sessionVars, reviewVars, frameVars
<1>2. PositionInv'
  BY SessionParts, DeviceWritesPosition
<1>3. StoreOK(device, unwritten, memory)'
  <2> PICK d, u : d = device' /\ u = unwritten'
    OBVIOUS
  <2>1. StoreOK(d, u, memory)
    BY <1>1, SessionParts, QueueShrinks
  <2>. QED
    BY <1>1, <2>1
<1>4. DrawnIsNow'
  <2>1. Controls' = Controls
    BY <1>1 DEF Controls, SessionControls, ListControls, ReviewControls, ClearedCount
  <2>. QED
    BY <1>1, <2>1, SessionParts DEF DrawnIsNow
<1>5. PanelOK' /\ FinishedOK'
  BY <1>1, SessionParts DEF PanelOK, FinishedOK, AllAnswered
<1>6. ReviewOK' /\ ShownIsOnRecord'
  BY <1>1, SessionParts DEF ReviewOK, ShownIsOnRecord
<1>. QED
  BY <1>2, <1>3, <1>4, <1>5, <1>6, SessionWhole

LEMMA StutterSession ==
    ASSUME SessionInv, UNCHANGED vars
    PROVE  SessionInv'
<1>1. UNCHANGED <<memory, device, unwritten, top, card, session, panel, list, review,
                  reviewPanel, drawn, dirty>>
  BY DEF vars, storeVars, sessionVars, reviewVars, frameVars
<1>2. PositionInv'
  BY SessionParts, StutterPosition
<1>3. StoreOK(device, unwritten, memory)'
  BY <1>1, SessionParts
<1>4. DrawnIsNow'
  <2>1. Controls' = Controls
    BY <1>1 DEF Controls, SessionControls, ListControls, ReviewControls, ClearedCount
  <2>. QED
    BY <1>1, <2>1, SessionParts DEF DrawnIsNow
<1>5. PanelOK' /\ FinishedOK'
  BY <1>1, SessionParts DEF PanelOK, FinishedOK, AllAnswered
<1>6. ReviewOK' /\ ShownIsOnRecord'
  BY <1>1, SessionParts DEF ReviewOK, ShownIsOnRecord
<1>. QED
  BY <1>2, <1>3, <1>4, <1>5, <1>6, SessionWhole

(* The app starts with nothing on its way, and with what the device holds: *)
(* whenever it died, that is a position whose past is answered.            *)
LEMMA StartSession == Started /\ Bookmarked(memory) => SessionInv
<1> SUFFICES ASSUME Started, Bookmarked(memory) PROVE SessionInv
  OBVIOUS
<1>1. PositionInv
  BY StartPosition
<1>2. StoreOK(device, unwritten, memory)
  BY QueueEmpty DEF Started
<1>3. /\ top = Library /\ session = NoSession /\ panel = NoPanel /\ list = NoList
      /\ review = NoReview /\ reviewPanel = NoPanel /\ card = memory
      /\ drawn.top = top /\ drawn.controls = {"card"}
  BY DEF Started
<1>4. DrawnIsNow
  BY <1>3, ControlsByRoute DEF DrawnIsNow
<1>5. PanelOK /\ FinishedOK
  BY <1>3, Routes DEF PanelOK, FinishedOK
<1>6. ReviewOK
  <2>1. \A c \in Chunks : ~ (c < list.cleared)
    BY <1>3, InitialStates DEF Chunks
  <2>. QED
    BY <1>3, <2>1, Routes DEF ReviewOK
<1>7. ShownIsOnRecord
  BY <1>3, Routes DEF ShownIsOnRecord
<1>. QED
  BY <1>1, <1>2, <1>4, <1>5, <1>6, <1>7 DEF SessionInv

LEMMA StartSessionAgain == (Started /\ Bookmarked(memory) => SessionInv)'
BY StartSession, PTL

LEMMA DieSession ==
    ASSUME SessionInv, Die
    PROVE  SessionInv'
<1>1. Started'
  BY SessionParts, DieStarts
<1>2. memory' = device
  BY DEF Die, ForgetUnwritten
<1>3. Bookmarked(memory)'
  BY <1>2, SessionParts DEF Bookmarked
<1>. QED
  BY <1>1, <1>3, StartSessionAgain

LEMMA SessionStep ==
    ASSUME ~TapsOutrunFrames, SessionInv, [Next]_vars
    PROVE  SessionInv'
<1>1. CASE Frame
  BY <1>1, FrameSession
<1>2. CASE Arrival
  BY <1>2, ArrivalSession, RowsArriveSession DEF Arrival
<1>3. CASE DeviceWrites
  BY <1>3, DeviceWritesSession
<1>4. CASE Read
  BY <1>4, TapContinueSession, SelectOptionSession, TapAdvanceSession, NextChunkSession,
     FinishBookSession DEF Read
<1>5. CASE Redo
  BY <1>5, ReviewPanelSession, ReviewSelectSession, ReviewNextSession, PopSession DEF Redo
<1>6. CASE OpenBook \/ OpenReview \/ OpenRow
  BY <1>6, OpenBookSession, OpenReviewSession, OpenRowSession
<1>7. CASE ReadAgain \/ TapBack
  BY <1>7, ReadAgainSession, PopSession
<1>8. CASE Die
  BY <1>8, DieSession
<1>9. CASE UNCHANGED vars
  BY <1>9, StutterSession
<1>. QED
  BY <1>1, <1>2, <1>3, <1>4, <1>5, <1>6, <1>7, <1>8, <1>9 DEF Next

LEMMA InitSession == Init => SessionInv
<1> SUFFICES ASSUME Init PROVE SessionInv
  OBVIOUS
<1>1. Started /\ memory = Blank
  BY InitStarts DEF Init
<1>2. \A c \in Chunks : ~ (c < None)
  BY DEF Chunks, None
<1>3. Bookmarked(memory)
  BY <1>1, <1>2, BlankFacts DEF Bookmarked
<1>. QED
  BY <1>1, <1>3, StartSession

(* When every tap is on what the last frame drew, SessionInv holds of the  *)
(* stores, the queue of writes, and what every screen keeps of them.       *)
THEOREM SessionInvariant ==
    ASSUME ~TapsOutrunFrames
    PROVE  Spec => []SessionInv
<1>1. Init => SessionInv
  BY InitSession
<1>2. SessionInv /\ [Next]_vars => SessionInv'
  BY SessionStep
<1>. QED
  BY <1>1, <1>2, PTL DEF Spec

(* What the session counts as cleared has all of its questions answered.   *)
THEOREM ClearedWasAnswered ==
    ASSUME ~TapsOutrunFrames
    PROVE  Spec => []ClearedIsAnswered
<1>1. SessionInv => ClearedIsAnswered
  <2> SUFFICES ASSUME SessionInv, top >= Session
               PROVE  \A c \in 0..(ClearedCount - 1) : Answered(c, memory.answers)
    BY DEF ClearedIsAnswered
  <2>1. ClearedCount \in 0..N
    <3>1. session \in SessionStates
      BY SessionParts, PositionParts
    <3>. QED
      BY <3>1, ClearedCountTyped
  <2>2. \A c \in 0..(ClearedCount - 1) : c \in Chunks /\ c < ClearedCount
    BY <2>1, BlankFacts DEF Chunks
  <2>. QED
    BY <2>2, ClearedAnswered
<1>. QED
  BY <1>1, SessionInvariant, PTL

(* Whenever the app dies, the chunks before the bookmark on the device     *)
(* have their answers there too.                                           *)
THEOREM BookmarkIsDurable ==
    ASSUME ~TapsOutrunFrames
    PROVE  Spec => []DurableBookmark
<1>1. SessionInv => DurableBookmark
  BY SessionParts DEF Bookmarked, DurableBookmark
<1>. QED
  BY <1>1, SessionInvariant, PTL

(* The review list's badges, the library's card and what is shown          *)
(* prefilled are what the stores have on record.                           *)
THEOREM RecordIsShown ==
    ASSUME ~TapsOutrunFrames
    PROVE  Spec => []ShownIsOnRecord
<1>1. SessionInv => ShownIsOnRecord
  BY SessionParts
<1>. QED
  BY <1>1, SessionInvariant, PTL

-----------------------------------------------------------------------------
(* The device is a log of the reading.                                     *)

LEMMA LogNames ==
    /\ Log!Questions = QuestionIds /\ Log!NoMark = None /\ Log!NoResults = NoAnswers
    /\ Log!At = At(device)
BY DEF Log!Questions, Log!NoMark, Log!NoResults, Log!At, QuestionIds, Chunks, None,
       NoAnswers, At

LEMMA LogDone == \A c \in Chunks : Log!Done(c) <=> Answered(c, device.answers)
BY AnsweredByNumber DEF Log!Done

(* The device's steps are those of the log.                                *)
LEMMA DeviceStep ==
    ASSUME device \in Stored, LogStep(device, device')
    PROVE  Log!Next
<1>1. At(device) \in Chunks
  BY StoredFacts
<1>2. CASE /\ device'.progress = device.progress
           /\ \E q \in QuestionIds, result \in {"right", "wrong"} :
                /\ q[1] = At(device) \/ Answered(q[1], device.answers)
                /\ device'.answers = [device.answers EXCEPT ![q] = result]
  <2>1. PICK q \in QuestionIds, result \in {"right", "wrong"} :
          /\ q[1] = At(device) \/ Answered(q[1], device.answers)
          /\ device'.answers = [device.answers EXCEPT ![q] = result]
    BY <1>2
  <2>2. q[1] \in Chunks
    BY DEF QuestionIds
  <2>3. q[1] = Log!At \/ Log!Done(q[1])
    BY <2>1, <2>2, LogNames, LogDone
  <2>4. Log!Answer
    BY <1>2, <2>1, <2>3, LogNames DEF Log!Answer
  <2>. QED
    BY <2>4 DEF Log!Next
<1>3. CASE /\ device'.answers = device.answers
           /\ Answered(At(device), device.answers)
           /\ At(device) + 1 < N /\ device'.progress = At(device) + 1
  BY <1>1, <1>3, LogNames, LogDone DEF Log!Next, Log!Move
<1>4. CASE /\ device'.answers = device.answers /\ AllAnswered(device)
           /\ \/ device'.progress = None
              \/ device.progress = None /\ device'.progress = 0
  <2>1. \A chunk \in 0..(N - 1) : Log!Done(chunk)
    BY <1>4, LogDone DEF AllAnswered, Chunks
  <2>. QED
    BY <1>4, <2>1, LogNames DEF Log!Next, Log!Finish, Log!Restart
<1>5. CASE device.progress = 0 /\ device'.progress = 0 /\ device'.answers = NoAnswers
  BY <1>5, LogNames DEF Log!Next, Log!Wipe
<1>. QED
  BY <1>2, <1>3, <1>4, <1>5 DEF LogStep

(* Only the platform changes what the device holds, by performing the      *)
(* oldest write of the queue.                                              *)
LEMMA OnlyWritesReachDevice ==
    ASSUME [Next]_vars
    PROVE  \/ UNCHANGED device
           \/ unwritten # <<>> /\ device' = Perform(device, Head(unwritten))
<1>1. CASE Frame
  BY <1>1 DEF Frame, storeVars
<1>2. CASE Arrival
  BY <1>2 DEF Arrival, ChunkIdsArrive, ChunkIdsFail, ChunkArrives, RowsArrive, ReviewArrives,
     Arrives, storeVars
<1>3. CASE DeviceWrites
  BY <1>3 DEF DeviceWrites, PlatformWrites
<1>4. CASE Read
  BY <1>4 DEF Read, TapContinue, SelectOption, TapAdvance, NextChunk, FinishBook, storeVars,
     RecordAnswer, SaveChunkIndex, ClearProgress, Write
<1>5. CASE Redo
  BY <1>5 DEF Redo, ReviewContinue, ReviewSelect, ReviewAdvance, ReviewNext, ReviewEnds,
     storeVars, RecordAnswer, Write
<1>6. CASE OpenBook \/ OpenReview \/ OpenRow \/ ReadAgain \/ TapBack
  BY <1>6 DEF OpenBook, OpenReview, OpenRow, ReadAgain, TapBack, StartOver, storeVars
<1>7. CASE Die
  BY <1>7 DEF Die, ForgetUnwritten
<1>8. CASE UNCHANGED vars
  BY <1>8 DEF vars, storeVars
<1>. QED
  BY <1>1, <1>2, <1>3, <1>4, <1>5, <1>6, <1>7, <1>8 DEF Next

(* What has reached the device, whenever the app dies, is a log written in *)
(* the order of the reading: ReadingSession implements ReadingLog.         *)
THEOREM SessionImplementsLog ==
    ASSUME ~TapsOutrunFrames
    PROVE  Spec => ImplementsLog
<1>1. Init => Log!Init
  BY BlankFacts, LogNames DEF Init, Log!Init
<1>2. SessionInv /\ [Next]_vars => [Log!Next]_(Log!vars)
  <2> SUFFICES ASSUME SessionInv, [Next]_vars PROVE [Log!Next]_(Log!vars)
    OBVIOUS
  <2>1. CASE UNCHANGED device
    BY <2>1 DEF Log!vars
  <2>2. CASE unwritten # <<>> /\ device' = Perform(device, Head(unwritten))
    <3>1. LogStep(device, device')
      BY <2>2, SessionParts, QueueShrinks
    <3>2. device \in Stored
      BY SessionParts, PositionParts
    <3>. QED
      BY <3>1, <3>2, DeviceStep
  <2>. QED
    BY <2>1, <2>2, OnlyWritesReachDevice
<1>. QED
  BY <1>1, <1>2, SessionInvariant, PTL DEF Spec, ImplementsLog, Log!Spec
=============================================================================
