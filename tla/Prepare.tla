------------------------------ MODULE Prepare ------------------------------
(***************************************************************************)
(* From a catalog entry to the sentences of the novel: PrepareBook fetches *)
(* the book's raw text, cleans it (clean.go, illustration.go) and trims it *)
(* to the span between the entry's two anchors; Stage A (Segment) then     *)
(* cuts it into sentences.                                                 *)
(*                                                                         *)
(* Raw text is a sequence of the tokens of Segment and of five more: the   *)
(* licence's START and END marker lines, the bare "[Illustration]" tag,    *)
(* the opening "[Illustration:" tag, and the carriage return.  A byte      *)
(* order mark stands before the START marker and goes with the licence.    *)
(***************************************************************************)
EXTENDS Segment, SequencesExt

CONSTANT Catalogs  \* sets of entries: [lang, raw, firstLine, lastLine]

(* An anchor is a line of the catalog file: it is not blank. *)
IsAnchor(t) == t \in Seq(STRING) /\ \E p \in 1 .. Len(t) : t[p] \notin Space

ASSUME EntryAssumption ==
  \A catalog \in Catalogs : \A e \in catalog :
    /\ e.lang \in Languages /\ e.raw \in Seq(STRING)
    /\ IsAnchor(e.firstLine) /\ IsAnchor(e.lastLine)

(* The space that joins wrapped lines, the newline, and what is no blank.  *)
ASSUME BlankAssumption ==
  /\ " " \in Space /\ Newline \in STRING \ {" "}
  /\ Space \cap {"[", "]", "[Illustration:"} = {}

VARIABLE entry

prepVars == <<entry, segVars>>

(* Which pair an entry belongs to picks clean and segment functions alike. *)
CleanAndSegmentFns(e) == e.lang

Init ==
  /\ \E catalog \in Catalogs : entry \in catalog
  /\ lang = CleanAndSegmentFns(entry)
  /\ text = <<>> /\ start = 1 /\ i = 1 /\ sentences = <<>>
  /\ stage = "fetch"

Places(t, token) == {p \in 1 .. Len(t) : t[p] = token}

(* normalizeLineEndings: \r\n and a lone \r both become \n. *)
Normalized(t) ==
  FlattenSeq([p \in 1 .. Len(t) |->
    IF t[p] # "CR" THEN <<t[p]>>
    ELSE IF p < Len(t) /\ t[p + 1] = Newline THEN <<>> ELSE <<Newline>>])

(* A START and an END marker, the first of each in this order. *)
HasMarkers(t) ==
  /\ Places(t, "START") # {} /\ Places(t, "END") # {}
  /\ Min(Places(t, "START")) < Min(Places(t, "END"))

Wrapped(t) ==
  SubSeq(t, Min(Places(t, "START")) + 1, Min(Places(t, "END")) - 1)

(* What is left of t without its tokens of S. *)
Without(t, S) ==
  FlattenSeq([p \in 1 .. Len(t) |-> IF t[p] \in S THEN <<>> ELSE <<t[p]>>])

RemoveBareIllustrations(b) == Without(b, {"[Illustration]"})

(* Brackets opened and not yet closed between positions o and p of b. *)
Depth(b, o, p) ==
  Cardinality({q \in o .. p : b[q] \in {"[", "[Illustration:"}})
    - Cardinality({q \in o .. p : b[q] = "]"})

(* Position p of b lies in the illustration block that opens at o. *)
InBlock(b, o, p) ==
  /\ b[o] = "[Illustration:"
  /\ \A q \in o .. p : Depth(b, o, q) > 0

Unmatched(b) == \E o \in 1 .. Len(b) : InBlock(b, o, Len(b))

WordJoin == IF lang = "ja" THEN <<>> ELSE <<" ">>

(* Mutant of Respaced: a caption is dewrapped like any other paragraph. *)
RespacedAsProse(b, p, gap) ==
  IF \E g \in 1 .. (Len(gap) - 1) : gap[g] = Newline /\ gap[g + 1] = Newline
  THEN <<Newline, Newline>>
  ELSE IF Newline \in Range(gap) THEN WordJoin ELSE gap

(* What cleaning leaves of the blanks gap before the word at p:            *)
(* condenseIllustrations makes it one wordJoin inside an illustration      *)
(* block; elsewhere dewrapParagraphs keeps a paragraph break as one blank  *)
(* line, joins wrapped lines, and leaves blanks inside a line alone.       *)
Respaced(b, p, gap) ==
  CASE gap = <<>> -> <<>>
    [] gap # <<>> /\ \E o \in 1 .. (p - 1) : InBlock(b, o, p - 1) -> WordJoin
    [] OTHER ->
         IF \E g \in 1 .. (Len(gap) - 1) : gap[g] = Newline /\ gap[g + 1] = Newline
         THEN <<Newline, Newline>>
         ELSE IF Newline \in Range(gap) THEN WordJoin ELSE gap

WordsBefore(b, p) == {q \in 1 .. (p - 1) : b[q] \notin Space}

(* Blanks at both ends go, and every other run of blanks is respaced. *)
Dewrapped(b) ==
  FlattenSeq([p \in 1 .. Len(b) |->
    IF b[p] \in Space THEN <<>>
    ELSE IF WordsBefore(b, p) = {} THEN <<b[p]>>
    ELSE Respaced(b, p, SubSeq(b, Max(WordsBefore(b, p)) + 1, p - 1)) \o <<b[p]>>])

(* Where anchor stands in t, overlapping places included. *)
Matches(t, anchor) ==
  {p \in 1 .. (Len(t) - Len(anchor) + 1) :
     SubSeq(t, p, p + Len(anchor) - 1) = anchor}

(* strings.Count = 1: it does not count a match that overlaps the first.   *)
CountIsOne(t, anchor) ==
  LET ms == Matches(t, anchor) IN
  ms # {} /\ \A p \in ms : p < Min(ms) + Len(anchor)

-----------------------------------------------------------------------------
Fail == stage' = "failed" /\ UNCHANGED <<entry, lang, text, start, i, sentences>>

Becomes(t, next) ==
  text' = t /\ stage' = next /\ UNCHANGED <<entry, lang, start, i, sentences>>

FetchText == stage = "fetch" /\ Becomes(entry.raw, "clean")

(* The request fails, or the answer has a status other than 2xx. *)
FetchFails == stage = "fetch" /\ Fail

Clean ==
  LET t == Normalized(text)
      b == RemoveBareIllustrations(Wrapped(t))
  IN  /\ stage = "clean"
      /\ IF ~HasMarkers(t) \/ Unmatched(b) THEN Fail
                                           ELSE Becomes(Dewrapped(b), "trim")

Trim ==
  /\ stage = "trim"
  /\ IF ~CountIsOne(text, entry.firstLine) \/ ~CountIsOne(text, entry.lastLine)
     THEN Fail
     ELSE LET first == Min(Matches(text, entry.firstLine))
              end == Min(Matches(text, entry.lastLine)) + Len(entry.lastLine)
          IN  IF end <= first THEN Fail
                              ELSE Becomes(SubSeq(text, first, end - 1), "scan")

StageA == Scan /\ UNCHANGED entry

(* The sentences, or the error, have been returned. *)
Ended == stage \in {"done", "failed"} /\ UNCHANGED prepVars

Next == FetchText \/ FetchFails \/ Clean \/ Trim \/ StageA \/ Ended

Spec == Init /\ [][Next]_prepVars

-----------------------------------------------------------------------------
(* Properties. *)

Words(t) == Without(t, Space)

(* The body of the raw text as its reader sees it, and its words. *)
Body == RemoveBareIllustrations(Wrapped(Normalized(entry.raw)))
Kept == Words(Body)

(* Where the n-th word of t stands. *)
WordAt(t, n) ==
  CHOOSE p \in 1 .. Len(t) :
    t[p] \notin Space /\ Len(Words(SubSeq(t, 1, p))) = n

Told == FlattenSeq([s \in 1 .. Len(sentences) |->
          Words(SubSeq(text, sentences[s][1], sentences[s][2]))])

(* The sentences' words are words p to q of the raw body, anchor to anchor. *)
Fits(p, q) ==
  /\ Told = SubSeq(Kept, p, q)
  /\ p \in Matches(Kept, Words(entry.firstLine))
  /\ q - Len(Words(entry.lastLine)) + 1 \in Matches(Kept, Words(entry.lastLine))

(* No word is lost, repeated or moved between the raw text and the         *)
(* sentences: cleaning, trimming and segmentation together hand on exactly *)
(* the words from the first anchor to the last.                            *)
WordsAreKept ==
  stage = "done" => \E p, q \in 1 .. Len(Kept) : Fits(p, q)

(* The words m and m + 1 of the raw body have a blank line between them. *)
BlankLineAfter(m) ==
  \E p \in WordAt(Body, m) .. (WordAt(Body, m + 1) - 2) :
    Body[p + 1] = Newline /\ Body[p + 2] = Newline

InIllustration(m) ==
  \E o \in 1 .. WordAt(Body, m) : InBlock(Body, o, WordAt(Body, m))

(* The paragraphs of the raw text are what the sentences are cut from: no  *)
(* sentence spans a blank line, none holds a line break, and a caption,    *)
(* however many blank lines it has, is only ever cut after punctuation.    *)
ParagraphsAreKept ==
  stage = "done" =>
    /\ \A s \in 1 .. Len(sentences) :
         \A p \in sentences[s][1] .. sentences[s][2] : text[p] # Newline
    /\ \E p, q \in 1 .. Len(Kept) :
         /\ Fits(p, q)
         /\ \A m \in p .. (q - 1) :
              LET parted == ~Together(WordAt(text, m - p + 1), WordAt(text, m - p + 2)) IN
              IF InIllustration(m) THEN Plain(Kept[m]) => ~parted
                                   ELSE BlankLineAfter(m) => parted
=============================================================================
