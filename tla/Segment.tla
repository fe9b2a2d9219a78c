------------------------------ MODULE Segment ------------------------------
(***************************************************************************)
(* Stage A: the deterministic sentence segmentation of a book's text, for  *)
(* English (Segment) and for Japanese (SegmentJapanese).                   *)
(*                                                                         *)
(* A text is a sequence of tokens: a punctuation mark, a space, a newline, *)
(* a digit, or a whole word (the code looks at a word as a whole when it   *)
(* asks for an abbreviation, and at its first letter when it asks for the  *)
(* start of a sentence).  No two words are neighbours.  A sentence is the  *)
(* pair of its first and last position: the code's sentences are exact     *)
(* substrings of the text.  One action is one iteration of the loop.       *)
(***************************************************************************)
EXTENDS Integers, Sequences

CONSTANTS
  Newline,       \* '\n'
  Space,         \* unicode.IsSpace, the newline among them
  Dot,           \* '.'
  Digit,         \* unicode.IsDigit
  Abbreviation,  \* commonAbbreviations and single capital letters (initials)
  Starter,       \* tokens whose first rune isSentenceStartRune accepts
  Opener,        \* isJapaneseOpeningBracket
  Terminal,      \* the terminal punctuation of each language
  Closer         \* the closing quotes and brackets of each language

Languages == {"en", "ja"}

ASSUME ClassAssumption ==
  /\ Newline \in Space
  /\ DOMAIN Terminal = Languages /\ DOMAIN Closer = Languages
  /\ \A l \in Languages : /\ Terminal[l] \cap Space = {}
                          /\ Closer[l] \cap Space = {}
                          /\ Terminal[l] \cap Closer[l] = {}
                          /\ Abbreviation \cap (Space \cup Terminal[l] \cup Closer[l]) = {}
  /\ Digit \cap (Space \cup Closer["en"]) = {}
  /\ Opener \cap (Space \cup Closer["ja"]) = {}

VARIABLES
  lang,       \* the language the text is in: which of the two functions runs
  text,       \* runes
  start,      \* where the sentence being scanned begins
  i,          \* the scanner's position
  sentences,  \* out
  stage       \* "scan" while the loop runs, "done" once it has returned

segVars == <<lang, text, start, i, sentences, stage>>

N == Len(text)

(* The run of tokens of S that starts at p ends just before q. *)
IsRun(p, q, S) ==
  /\ p <= q
  /\ \A r \in p .. (q - 1) : text[r] \in S
  /\ q <= N => text[q] \notin S

(* What trimSpace leaves of start to end, if anything: first to last. *)
NotBlank(end) == {p \in start .. (end - 1) : text[p] \notin Space}

TrimSpace(end, first, last) ==
  first \in NotBlank(end) /\ last \in NotBlank(end) /\ NotBlank(end) \subseteq first .. last

(* emit: what lies between start and end, trimmed, unless it is blank. *)
Emit(end) ==
  \/ NotBlank(end) = {} /\ UNCHANGED sentences
  \/ \E first, last \in NotBlank(end) :
       /\ TrimSpace(end, first, last)
       /\ sentences' = Append(sentences, <<first, last>>)

(* The loop looks at the token at i, which is one of S. *)
At(S) == stage = "scan" /\ i <= N /\ text[i] \in S

(* Mutant of Cut: the token after the cut belongs to no sentence. *)
CutPastStart(end, next) == Emit(end) /\ start' = next + 1

(* The sentence ends before end, and the next one starts at next. *)
Cut(end, next) == Emit(end) /\ start' = next

NoCut == UNCHANGED <<sentences, start>>

(* Two or more newlines force a boundary whatever stands before them. *)
Newlines ==
  /\ At({Newline})
  /\ \E j \in i .. (N + 1) :
       /\ IsRun(i, j, {Newline})
       /\ IF j - i >= 2 THEN Cut(i, j) ELSE NoCut
       /\ i' = j
  /\ UNCHANGED <<lang, text, stage>>

Pass ==
  /\ stage = "scan" /\ i <= N
  /\ text[i] \notin Terminal[lang] \cup {Newline}
  /\ i' = i + 1 /\ NoCut
  /\ UNCHANGED <<lang, text, stage>>

IsAbbreviation(dot) == dot > start /\ text[dot - 1] \in Abbreviation

IsDecimal(dot) ==
  dot > 1 /\ dot < N /\ text[dot - 1] \in Digit /\ text[dot + 1] \in Digit

(* A run of one '.' that closes an abbreviation or stands in a number. *)
Abbrev(j) ==
  j = i + 1 /\ text[i] = Dot /\ (IsAbbreviation(i) \/ IsDecimal(i))

(* Mutant of IsBoundary: what follows the space is not looked at. *)
IsBoundaryAtSpace(k) == k > N \/ text[k] \in Space

(* After the punctuation and its closers: the end of the text, or space    *)
(* and then the start of a sentence.                                       *)
IsBoundary(k) ==
  \/ k > N
  \/ /\ text[k] \in Space
     /\ \E m \in k .. (N + 1) :
          IsRun(k, m, Space) /\ (m > N \/ text[m] \in Starter)

(* Japanese: a closing bracket leaves open whether a dialogue tag follows. *)
IsBoundaryJapanese(k, bracketConsumed) ==
  ~bracketConsumed \/ k > N \/ text[k] \in Opener

(* The run of punctuation at i ends before j, its closers before k. *)
Stops(j, k) == IsRun(i, j, Terminal[lang]) /\ IsRun(j, k, Closer[lang])

EnglishStop ==
  /\ lang = "en" /\ At(Terminal[lang])
  /\ \E j, k \in i .. (N + 1) :
       /\ Stops(j, k)
       /\ IF ~Abbrev(j) /\ IsBoundary(k) THEN Cut(k, k) /\ i' = k
                                         ELSE NoCut /\ i' = j
  /\ UNCHANGED <<lang, text, stage>>

JapaneseStop ==
  /\ lang = "ja" /\ At(Terminal[lang])
  /\ \E j, k \in i .. (N + 1) :
       /\ Stops(j, k)
       /\ IF IsBoundaryJapanese(k, k > j) THEN Cut(k, k) ELSE NoCut
       /\ i' = k
  /\ UNCHANGED <<lang, text, stage>>

(* The loop has ended: what is left is the last sentence. *)
Return ==
  /\ stage = "scan" /\ i > N
  /\ IF start <= N THEN Emit(N + 1) ELSE UNCHANGED sentences
  /\ stage' = "done"
  /\ UNCHANGED <<lang, text, start, i>>

Scan == Newlines \/ Pass \/ EnglishStop \/ JapaneseStop \/ Return

-----------------------------------------------------------------------------
(* Properties.                                                             *)

Together(x, y) ==
  \E s \in 1 .. Len(sentences) : sentences[s][1] <= x /\ y <= sentences[s][2]

Plain(token) == token \notin Terminal[lang] \cup Closer[lang]

(* Position x closes a stretch of punctuation and closers that ends an     *)
(* English sentence, if a new one starts after it: it is no abbreviation's *)
(* full stop.                                                              *)
Trails(x, t) ==
  /\ text[t] \in Terminal[lang]
  /\ \A c \in (t + 1) .. x : text[c] \in Closer[lang]

AfterAbbreviation(t) == text[t] = Dot /\ t > 1 /\ text[t - 1] \in Abbreviation

(* The stretch that begins at t ends a sentence between x and y.           *)
StopAt(x, y, t) ==
  Trails(x, t) /\
    IF lang = "en"
    THEN y > x + 1 /\ text[y] \in Starter /\ ~AfterAbbreviation(t)
    ELSE IF x = t THEN y > x + 1 \/ Plain(text[y])
                  ELSE y = x + 1 /\ text[y] \in Opener

BlankLine(p) == text[p + 1] = Newline /\ text[p + 2] = Newline

(* What the comments of the two functions call the end of a sentence,      *)
(* between the neighbouring words x and y of the text.                     *)
SentenceEnd(x, y) ==
  \/ \E p \in x .. (y - 2) : BlankLine(p)
  \/ \E t \in 1 .. x : StopAt(x, y, t)

Neighbours(x, y) ==
  /\ x < y
  /\ text[x] \notin Space /\ text[y] \notin Space
  /\ \A p \in (x + 1) .. (y - 1) : text[p] \in Space

(* The loop, which looks ahead, falls back and restarts, cuts the text     *)
(* where a sentence ends and nowhere else.                                 *)
SentencesEndRight ==
  stage = "done" =>
    \A x, y \in 1 .. N : Neighbours(x, y) => (Together(x, y) <=> ~SentenceEnd(x, y))
=============================================================================
