------------------------------ MODULE Catalog ------------------------------
(***************************************************************************)
(* The catalog file of a language pair, and how it is read: a file is a    *)
(* sequence of lines, blocks of exactly nine lines are separated by blank  *)
(* ones, and comments are nowhere part of a block.  One faulty block makes *)
(* the whole file an error.                                                *)
(*                                                                         *)
(* A line, once trimmed, is a tuple of its kind and of what is read from   *)
(* it: <<"blank">>, <<"comment">>, <<"url", id>> (id is None for an URL    *)
(* that gutenbergIDPattern does not match), <<"level", n>>, <<"tags", the  *)
(* trimmed tags>>, or <<"words">>.                                         *)
(***************************************************************************)
EXTENDS Integers, SequencesExt

CONSTANT None

ValidLevel(n) == n \in 1 .. 10

IsUrl(line) == line[1] = "url"

ParsesAsLevel(line) == line[1] = "level" /\ ValidLevel(line[2])

(* minGenres to maxGenres tags, none empty, a class before the others.     *)
ParsesAsGenres(line) ==
  /\ line[1] = "tags"
  /\ "" \notin Range(line[2])
  /\ Len(line[2]) \in 3 .. 5
  /\ line[2][1] \in {"Fiction", "Non-Fiction"}

(* newEntry: title, author, URL, image URL, first and last line, level,    *)
(* genres and summary, in this order.                                      *)
IsEntry(block) ==
  /\ IsUrl(block[3]) /\ IsUrl(block[4])
  /\ block[3][2] # None
  /\ ParsesAsLevel(block[7]) /\ ParsesAsGenres(block[8])

GutenbergID(block) == block[3][2]

(* The parser's state: the block being read, the entries so far (by their  *)
(* Gutenberg ID), and whether it has returned an error.                    *)
Flush(parser) ==
  IF parser.block = <<>> THEN parser
  ELSE IF Len(parser.block) = 9 /\ IsEntry(parser.block)
  THEN [parser EXCEPT !.block = <<>>,
                      !.entries = Append(@, GutenbergID(parser.block))]
  ELSE [parser EXCEPT !.error = TRUE]

ReadLine(parser, line) ==
  IF parser.error \/ line[1] = "comment" THEN parser
  ELSE IF line[1] = "blank" THEN Flush(parser)
  ELSE [parser EXCEPT !.block = Append(@, line)]

(* The parser when it has read the first n lines, for every n. *)
ParserAfter(lines) ==
  LET parser[n \in 0 .. Len(lines)] ==
        IF n = 0 THEN [block |-> <<>>, entries |-> <<>>, error |-> FALSE]
                 ELSE ReadLine(parser[n - 1], lines[n])
  IN  parser

(* Mutant of Parse: a block that no blank line follows is forgotten. *)
ParseToLastBlank(lines) == ParserAfter(lines)[Len(lines)]

(* All lines, and a last flush if the file does not end with a blank one.  *)
Parse(lines) ==
  LET parser == ParserAfter(lines)[Len(lines)]
  IN  IF parser.error THEN parser ELSE Flush(parser)

-----------------------------------------------------------------------------

(* What a catalog file's own header says: the blocks are the longest runs  *)
(* of lines between blank lines, comments aside; every one has to be an    *)
(* entry, and they are the entries, in order.                              *)
ContentTo(lines) ==
  LET content[n \in 0 .. Len(lines)] ==
        IF n = 0 THEN <<>>
        ELSE IF lines[n][1] = "comment" THEN content[n - 1]
        ELSE Append(content[n - 1], lines[n])
  IN  content

Content(lines) == ContentTo(lines)[Len(lines)]

BlankAt(c, p) == p \in {0, Len(c) + 1} \/ c[p][1] = "blank"

Blocks(c) ==
  {b \in (1 .. Len(c)) \X (1 .. Len(c)) :
    /\ b[1] <= b[2] /\ BlankAt(c, b[1] - 1) /\ BlankAt(c, b[2] + 1)
    /\ \A p \in b[1] .. b[2] : ~BlankAt(c, p)}

IsEntryAt(c, b) == b[2] = b[1] + 8 /\ IsEntry(SubSeq(c, b[1], b[2]))

(* Which of the blocks bs is b. *)
Place(bs, b) == Cardinality({d \in bs : d[1] <= b[1]})

ReadsAsDocumented(lines) ==
  LET c == Content(lines)
      good == \A b \in Blocks(c) : IsEntryAt(c, b)
  IN  /\ Parse(lines).error <=> ~good
      /\ good =>
           /\ Len(Parse(lines).entries) = Cardinality(Blocks(c))
           /\ \A b \in Blocks(c) :
                Parse(lines).entries[Place(Blocks(c), b)] = c[b[1] + 2][2]
=============================================================================
