--------------------------- MODULE CommandsProofs ---------------------------
(***************************************************************************)
(* What TLAPS proves of Commands for every shelf of books, every set of    *)
(* catalogs and covers, and every succession of commands, and of the       *)
(* catalog parser for every file.                                          *)
(***************************************************************************)
EXTENDS Commands, FiniteSetTheorems, SequenceTheorems, WellFoundedInduction, TLAPS

USE LiveBookAssumption

Names == {"none", "process", "dry-run", "ingest", "livetest", "killed"}
Ats == {"entry", "content", "sentences", "chunks", "ended"}
Extents == {"none", "part", "complete"}
Rows == [status : {"absent", "processing", "published"}, image : FetchedImages,
         contentType : FetchedImages, chunks : Extents]
Contents == {"old", "torn", "text", "text and sentences"}

TypesOK ==
  /\ row \in [Books -> Rows]
  /\ files \in [Books -> Contents]
  /\ cmd \in [name : Names, at : Ats, todo : Seq(Books), all : SUBSET Books, failed : Nat]
  /\ told \in SUBSET Books

(* A cover and its content type are stored together.                       *)
CoversOK == \A b \in Books : row[b].contentType = row[b].image

(* A command is at a book of its own kind, and hides the one it works on.  *)
PlaceOK ==
  /\ cmd.at \in {"content", "sentences", "chunks"} => cmd.todo # <<>>
  /\ cmd.at = "content" => cmd.name = "process" /\ row[Entry].status = "processing"
  /\ cmd.at = "sentences" => cmd.name = "ingest"
  /\ cmd.at = "chunks" => cmd.name = "livetest" /\ row[LiveBook].status = "processing"
  /\ cmd.name = "livetest" /\ Running => cmd.todo \in {<<>>, <<LiveBook>>}
                                         /\ LiveBook \notin told
  /\ ~Running /\ cmd.name # "killed" => cmd.todo = <<>>
  /\ cmd.name = "killed" => ~Running

(* What may be published is complete already.                              *)
ToldOK ==
  \A b \in Books : row[b].status = "published" \/ b \in told => row[b].chunks = "complete"

(* The books behind a command that it did not finish.                      *)
Undone == {b \in cmd.all : Unfinished(b) /\ b \notin Range(cmd.todo)}

CountOK == IsFiniteSet(cmd.all) /\ Cardinality(Undone) <= cmd.failed

(* The inductive invariant.                                                *)
Inv == TypesOK /\ CoversOK /\ PlaceOK /\ ToldOK /\ CountOK

-----------------------------------------------------------------------------
(* Recursive functions.  What they compute is proved by an induction that  *)
(* is stated for a set of natural numbers instead of a predicate, from the *)
(* least element of its complement.                                        *)

(* The library's theorem on the order of the naturals, for sets.           *)
LEMMA Least ==
  ASSUME NEW S \in SUBSET Nat, S # {}
  PROVE  \E n \in S : \A m \in S : n <= m
<1> PICK less : less = OpToRel(<, Nat)
  OBVIOUS
<1>1. IsWellFoundedOn(less, Nat)
  BY NatLessThanWellFounded
<1>2. PICK n \in S : \A m \in S : ~ (<<m, n>> \in less)
  BY <1>1, WFMin
<1>3. \A a, b \in Nat : b < a => <<b, a>> \in less
  BY DEF OpToRel
<1>4. \A a, b \in Nat : a <= b \/ b < a
  BY ONLY SMT
<1> QED  BY <1>2, <1>3, <1>4

(* Induction, for a set: every natural number is in it.                    *)
LEMMA Induction ==
  ASSUME NEW S \in SUBSET Nat, 0 \in S, \A n \in S : n + 1 \in S
  PROVE  \A n \in Nat : n \in S
<1> SUFFICES ASSUME Nat \ S # {}
             PROVE  FALSE
  OBVIOUS
<1>1. PICK n \in Nat \ S : \A m \in Nat \ S : n <= m
  BY Least
<1>2. n # 0 /\ n - 1 \in Nat /\ ~(n <= n - 1) /\ (n - 1) + 1 = n
  OBVIOUS
<1>3. n - 1 \in S
  BY <1>1, <1>2
<1> QED  BY <1>2, <1>3

(* f goes through n steps: from s0, by step.                               *)
Walk(f, s0, step, n) ==
  f = [k \in 0 .. n |-> IF k = 0 THEN s0 ELSE step[k, f[k - 1]]]

(* There is such a walk.                                                   *)
LEMMA WalkExists ==
  ASSUME NEW N \in Nat, NEW S, NEW s0 \in S, NEW step \in [(1 .. N) \X S -> S]
  PROVE  \E f \in [0 .. N -> S] : Walk(f, s0, step, N)
<1> DEFINE D == {n \in Nat : n <= N => \E f \in [0 .. n -> S] : Walk(f, s0, step, n)}
<1>1. 0 \in D
  <2>1. [k \in 0 .. 0 |-> s0] \in [0 .. 0 -> S]
    OBVIOUS
  <2>2. Walk([k \in 0 .. 0 |-> s0], s0, step, 0)
    BY DEF Walk
  <2> QED  BY <2>1, <2>2
<1>2. ASSUME NEW n \in D PROVE n + 1 \in D
  <2> SUFFICES ASSUME n + 1 <= N
               PROVE  \E f \in [0 .. (n + 1) -> S] : Walk(f, s0, step, n + 1)
    OBVIOUS
  <2>1. n \in Nat /\ n <= N
    OBVIOUS
  <2>2. PICK f \in [0 .. n -> S] : Walk(f, s0, step, n)
    BY <2>1
  <2> DEFINE x == step[n + 1, f[n]]
             g == [k \in 0 .. (n + 1) |-> IF k = n + 1 THEN x ELSE f[k]]
  <2>3. n + 1 \in 1 .. N /\ n \in 0 .. n
    BY <2>1
  <2>4. x \in S
    BY <2>2, <2>3
  <2>5. ASSUME NEW k \in 0 .. (n + 1) PROVE g[k] \in S
    <3>1. CASE k = n + 1
      BY <2>4, <3>1
    <3>2. CASE k # n + 1
      <4>1. k \in 0 .. n
        BY <2>1, <3>2
      <4> QED  BY <2>2, <3>2, <4>1
    <3> QED  BY <3>1, <3>2
  <2>6. ASSUME NEW k \in 0 .. (n + 1)
        PROVE  g[k] = IF k = 0 THEN s0 ELSE step[k, g[k - 1]]
    <3>1. CASE k = n + 1
      <4>1. k # 0 /\ k - 1 = n /\ n # n + 1 /\ n \in 0 .. (n + 1)
        BY <2>1, <3>1
      <4>2. g[n] = f[n]
        BY <4>1
      <4> QED  BY <3>1, <4>1, <4>2
    <3>2. CASE k # n + 1
      <4>1. k \in 0 .. n
        BY <2>1, <3>2
      <4>2. g[k] = f[k]
        BY <3>2
      <4>3. f[k] = IF k = 0 THEN s0 ELSE step[k, f[k - 1]]
        BY <2>2, <4>1 DEF Walk
      <4>4. k # 0 => k - 1 \in 0 .. (n + 1) /\ k - 1 # n + 1
        BY <2>1, <4>1
      <4>5. k # 0 => g[k - 1] = f[k - 1]
        BY <4>4
      <4> QED  BY <4>2, <4>3, <4>5
    <3> QED  BY <3>1, <3>2
  <2>7. Walk(g, s0, step, n + 1)
    BY <2>6 DEF Walk
  <2> QED  BY <2>5, <2>7
<1>3. N \in D
  <2>1. D \in SUBSET Nat
    OBVIOUS
  <2> HIDE DEF D
  <2> QED  BY <1>1, <1>2, <2>1, Induction
<1> QED  BY <1>3

-----------------------------------------------------------------------------
(* The parser and the content of a file, line after line.                  *)

IsFile(lines) == lines \in Seq(Range(lines))

FirstState == [block |-> <<>>, entries |-> <<>>, error |-> FALSE]

(* The IDs in the URLs of a file. *)
IDs(lines) == {l[2] : l \in {m \in Range(lines) : IsUrl(m) /\ m[2] # None}}

Parsers(lines) ==
  [block : Seq(Range(lines)), entries : Seq(IDs(lines)), error : BOOLEAN]

(* A flush keeps the parser's type.                                        *)
LEMMA FlushTyped ==
  ASSUME NEW lines, IsFile(lines), NEW r \in Parsers(lines)
  PROVE  Flush(r) \in Parsers(lines)
<1>1. CASE Len(r.block) = 9 /\ IsEntry(r.block)
  <2>1. r.block[3] \in Range(lines)
    BY <1>1 DEF Parsers
  <2> PICK id : id = GutenbergID(r.block)
    OBVIOUS
  <2>2. IsUrl(r.block[3]) /\ r.block[3][2] # None
    BY <1>1 DEF IsEntry
  <2>3. id \in IDs(lines)
    BY <2>1, <2>2 DEF GutenbergID, IDs
  <2>4. Append(r.entries, id) \in Seq(IDs(lines))
    BY <2>3 DEF Parsers
  <2>5. <<>> \in Seq(Range(lines))
    OBVIOUS
  <2> QED  BY <2>4, <2>5 DEF Flush, Parsers
<1>2. CASE ~(Len(r.block) = 9 /\ IsEntry(r.block))
  BY <1>2 DEF Flush, Parsers
<1> QED  BY <1>1, <1>2

(* So does a line.                                                         *)
LEMMA ReadLineTyped ==
  ASSUME NEW lines, IsFile(lines), NEW r \in Parsers(lines), NEW l \in Range(lines)
  PROVE  ReadLine(r, l) \in Parsers(lines)
<1>1. Append(r.block, l) \in Seq(Range(lines))
  BY DEF Parsers
<1>2. [r EXCEPT !.block = Append(@, l)] \in Parsers(lines)
  BY <1>1 DEF Parsers
<1> QED  BY <1>2, FlushTyped DEF ReadLine

(* What ParserAfter and ContentTo say of themselves.                       *)
LEMMA ParserAfterIs ==
  ASSUME NEW lines, IsFile(lines)
  PROVE  /\ ParserAfter(lines)[0] = FirstState
         /\ \A n \in 1 .. Len(lines) :
              ParserAfter(lines)[n] = ReadLine(ParserAfter(lines)[n - 1], lines[n])
<1> DEFINE S == Parsers(lines)
           step == [x \in (1 .. Len(lines)) \X S |-> ReadLine(x[2], lines[x[1]])]
<1>1. Len(lines) \in Nat /\ \A n \in 1 .. Len(lines) : lines[n] \in Range(lines)
  BY DEF IsFile
<1>2. FirstState \in S
  BY DEF Parsers, FirstState
<1>3. step \in [(1 .. Len(lines)) \X S -> S]
  <2> SUFFICES ASSUME NEW x \in (1 .. Len(lines)) \X S
               PROVE  ReadLine(x[2], lines[x[1]]) \in S
    OBVIOUS
  <2>1. x[2] \in S /\ lines[x[1]] \in Range(lines)
    BY <1>1
  <2> QED  BY <2>1, ReadLineTyped
<1>4. PICK f \in [0 .. Len(lines) -> S] : Walk(f, FirstState, step, Len(lines))
  <2> HIDE DEF S, step
  <2> QED  BY <1>1, <1>2, <1>3, WalkExists
<1>5. ASSUME NEW n \in 0 .. Len(lines)
      PROVE  f[n] = IF n = 0 THEN FirstState ELSE ReadLine(f[n - 1], lines[n])
  <2>1. f[n] = IF n = 0 THEN FirstState ELSE step[n, f[n - 1]]
    BY <1>4 DEF Walk
  <2>2. n # 0 => n \in 1 .. Len(lines) /\ f[n - 1] \in S
    <3>1. n # 0 => n - 1 \in 0 .. Len(lines) /\ n \in 1 .. Len(lines)
      BY <1>1
    <3> QED  BY <1>4, <3>1
  <2>3. n # 0 => <<n, f[n - 1]>> \in (1 .. Len(lines)) \X S
    BY <2>2
  <2>4. n # 0 => step[n, f[n - 1]] = ReadLine(f[n - 1], lines[n])
    BY <2>3
  <2> QED  BY <2>1, <2>4
<1> DEFINE Walks(g) == g = [n \in 0 .. Len(lines) |->
             IF n = 0 THEN [block |-> <<>>, entries |-> <<>>, error |-> FALSE]
                      ELSE ReadLine(g[n - 1], lines[n])]
<1>6. Walks(f)
  BY <1>4, <1>5 DEF FirstState
<1>7. ParserAfter(lines) = CHOOSE g : Walks(g)
  BY DEF ParserAfter
<1>8. Walks(ParserAfter(lines))
  <2> HIDE DEF Walks
  <2> QED  BY <1>6, <1>7
<1>9. 0 \in 0 .. Len(lines) /\ \A n \in 1 .. Len(lines) : n \in 0 .. Len(lines) /\ n # 0
  BY <1>1
<1> QED  BY <1>8, <1>9 DEF FirstState

LEMMA ContentToIs ==
  ASSUME NEW lines, IsFile(lines)
  PROVE  /\ ContentTo(lines)[0] = <<>>
         /\ \A n \in 1 .. Len(lines) :
              ContentTo(lines)[n] = IF lines[n][1] = "comment" THEN ContentTo(lines)[n - 1]
                                    ELSE Append(ContentTo(lines)[n - 1], lines[n])
<1> DEFINE S == Seq(Range(lines))
           step == [x \in (1 .. Len(lines)) \X S |->
                      IF lines[x[1]][1] = "comment" THEN x[2] ELSE Append(x[2], lines[x[1]])]
<1>1. Len(lines) \in Nat /\ \A n \in 1 .. Len(lines) : lines[n] \in Range(lines)
  BY DEF IsFile
<1>2. <<>> \in S
  OBVIOUS
<1>3. step \in [(1 .. Len(lines)) \X S -> S]
  <2> SUFFICES ASSUME NEW x \in (1 .. Len(lines)) \X S
               PROVE  Append(x[2], lines[x[1]]) \in S
    OBVIOUS
  <2>1. x[2] \in S /\ lines[x[1]] \in Range(lines)
    BY <1>1
  <2> QED  BY <2>1
<1>4. PICK f \in [0 .. Len(lines) -> S] : Walk(f, <<>>, step, Len(lines))
  <2> HIDE DEF S, step
  <2> QED  BY <1>1, <1>2, <1>3, WalkExists
<1>5. ASSUME NEW n \in 0 .. Len(lines)
      PROVE  f[n] = IF n = 0 THEN <<>> ELSE IF lines[n][1] = "comment" THEN f[n - 1]
                    ELSE Append(f[n - 1], lines[n])
  <2>1. f[n] = IF n = 0 THEN <<>> ELSE step[n, f[n - 1]]
    BY <1>4 DEF Walk
  <2>2. n # 0 => n \in 1 .. Len(lines) /\ f[n - 1] \in S
    <3>1. n # 0 => n - 1 \in 0 .. Len(lines) /\ n \in 1 .. Len(lines)
      BY <1>1
    <3> QED  BY <1>4, <3>1
  <2>3. n # 0 => <<n, f[n - 1]>> \in (1 .. Len(lines)) \X S
    BY <2>2
  <2>4. n # 0 => step[n, f[n - 1]] = IF lines[n][1] = "comment" THEN f[n - 1]
                                     ELSE Append(f[n - 1], lines[n])
    BY <2>3
  <2> QED  BY <2>1, <2>4
<1> DEFINE Walks(g) == g = [n \in 0 .. Len(lines) |->
             IF n = 0 THEN <<>>
             ELSE IF lines[n][1] = "comment" THEN g[n - 1]
             ELSE Append(g[n - 1], lines[n])]
<1>6. Walks(f)
  BY <1>4, <1>5
<1>7. ContentTo(lines) = CHOOSE g : Walks(g)
  BY DEF ContentTo
<1>8. Walks(ContentTo(lines))
  <2> HIDE DEF Walks
  <2> QED  BY <1>6, <1>7
<1>9. 0 \in 0 .. Len(lines) /\ \A n \in 1 .. Len(lines) : n \in 0 .. Len(lines) /\ n # 0
  BY <1>1
<1> QED  BY <1>8, <1>9

-----------------------------------------------------------------------------
(* Blocks.                                                                 *)

(* The blocks of c that a blank line ends.                                 *)
Shut(c) ==
  {b \in (1 .. Len(c)) \X (1 .. Len(c)) :
    /\ b[1] <= b[2] /\ b[2] < Len(c)
    /\ BlankAt(c, b[1] - 1) /\ BlankAt(c, b[2] + 1)
    /\ \A p \in b[1] .. b[2] : ~BlankAt(c, p)}

(* From k on c has no blank line, and before k there is none or one.       *)
Since(c, k) ==
  /\ k \in 0 .. Len(c) /\ BlankAt(c, k)
  /\ \A p \in (k + 1) .. Len(c) : ~BlankAt(c, p)

(* The parser has read c: the open block is the lines since a blank one,   *)
(* and every block before it is an entry, unless there was an error.       *)
HasRead(r, c) ==
  IF r.error THEN \E b \in Shut(c) : ~IsEntryAt(c, b)
  ELSE /\ \E k \in Nat : Since(c, k) /\ r.block = SubSeq(c, k + 1, Len(c))
       /\ \A b \in Shut(c) : IsEntryAt(c, b)
       /\ Len(r.entries) = Cardinality(Shut(c))
       /\ \A b \in Shut(c) : r.entries[Place(Shut(c), b)] = c[b[1] + 2][2]

(* What one more line l leaves as it was.                                  *)
LEMMA AppendLeaves ==
  ASSUME NEW L, NEW c \in Seq(L), NEW l \in L
  PROVE  /\ Append(c, l) \in Seq(L) /\ Len(Append(c, l)) = Len(c) + 1 /\ Len(c) \in Nat
         /\ \A p \in 1 .. Len(c) : Append(c, l)[p] = c[p]
         /\ Append(c, l)[Len(c) + 1] = l
         /\ \A p \in 0 .. Len(c) : BlankAt(Append(c, l), p) <=> BlankAt(c, p)
         /\ BlankAt(Append(c, l), Len(c) + 1) <=> l[1] = "blank"
<1>1. /\ Append(c, l) \in Seq(L) /\ Len(Append(c, l)) = Len(c) + 1 /\ Len(c) \in Nat
      /\ \A p \in 1 .. Len(c) : Append(c, l)[p] = c[p]
      /\ Append(c, l)[Len(c) + 1] = l
  OBVIOUS
<1> PICK d : d = Append(c, l)
  OBVIOUS
<1>2. ASSUME NEW p \in 0 .. Len(c) PROVE BlankAt(d, p) <=> BlankAt(c, p)
  <2>1. CASE p = 0
    BY <2>1 DEF BlankAt
  <2>2. CASE p # 0
    <3>1. p \in 1 .. Len(c) /\ p # Len(c) + 1 /\ p # Len(d) + 1
      BY <1>1, <2>2
    <3>2. d[p] = c[p]
      BY <1>1, <3>1
    <3> QED  BY <2>2, <3>1, <3>2 DEF BlankAt
  <2> QED  BY <2>1, <2>2
<1>3. BlankAt(d, Len(c) + 1) <=> l[1] = "blank"
  <2>1. Len(c) + 1 # 0 /\ Len(c) + 1 # Len(d) + 1 /\ d[Len(c) + 1] = l
    BY <1>1
  <2> QED  BY <2>1 DEF BlankAt
<1> QED  BY <1>1, <1>2, <1>3

(* What is the same in both: a stretch of c, and the entry at a block.     *)
LEMMA SameStretch ==
  ASSUME NEW L, NEW c \in Seq(L), NEW l \in L, NEW m \in 1 .. Len(c), NEW n \in 1 .. Len(c)
  PROVE  SubSeq(Append(c, l), m, n) = SubSeq(c, m, n)
<1>1. PICK d \in Seq(L) : d = Append(c, l)
  BY AppendLeaves
<1>2. \A p \in m .. n : p \in 1 .. Len(c)
  OBVIOUS
<1>3. \A p \in 1 .. Len(c) : d[p] = c[p] /\ c[p] \in L
  BY <1>1, AppendLeaves, ElementOfSeq
<1>4. \A p \in m .. n : d[p] = c[p] /\ c[p] \in L /\ d[p] \in L
  BY <1>2, <1>3
<1>5. m \in Int /\ n \in Int
  OBVIOUS
<1> PICK x, y : x = SubSeq(d, m, n) /\ y = SubSeq(c, m, n)
  OBVIOUS
<1>6. /\ x \in Seq(L) /\ Len(x) = IF m <= n THEN n - m + 1 ELSE 0
      /\ \A p \in 1 .. n - m + 1 : x[p] = d[m + p - 1]
  BY <1>4, <1>5, SubSeqProperties
<1>7. /\ y \in Seq(L) /\ Len(y) = IF m <= n THEN n - m + 1 ELSE 0
      /\ \A p \in 1 .. n - m + 1 : y[p] = c[m + p - 1]
  BY <1>4, <1>5, SubSeqProperties
<1>8. ASSUME NEW p \in 1 .. Len(x) PROVE x[p] = y[p]
  <2>1. p \in 1 .. n - m + 1 /\ m + p - 1 \in m .. n
    BY <1>6
  <2> QED  BY <1>4, <1>6, <1>7, <2>1
<1>9. x = y
  BY <1>6, <1>7, <1>8, SeqEqual
<1> QED  BY <1>1, <1>9

LEMMA SameEntryAt ==
  ASSUME NEW L, NEW c \in Seq(L), NEW l \in L, NEW b \in (1 .. Len(c)) \X (1 .. Len(c))
  PROVE  IsEntryAt(Append(c, l), b) <=> IsEntryAt(c, b)
<1>1. b[1] \in 1 .. Len(c) /\ b[2] \in 1 .. Len(c)
  OBVIOUS
<1>2. SubSeq(Append(c, l), b[1], b[2]) = SubSeq(c, b[1], b[2])
  BY <1>1, SameStretch
<1> QED  BY <1>2 DEF IsEntryAt

(* A block that is shut stays, and only one that ends at c's end is new.   *)
LEMMA ShutStays ==
  ASSUME NEW L, NEW c \in Seq(L), NEW l \in L
  PROVE  /\ Shut(c) \subseteq Shut(Append(c, l))
         /\ \A b \in Shut(Append(c, l)) : b[2] # Len(c) => b \in Shut(c)
<1> PICK d : d = Append(c, l)
  OBVIOUS
<1>1. /\ Len(d) = Len(c) + 1 /\ Len(c) \in Nat
      /\ \A p \in 0 .. Len(c) : BlankAt(d, p) <=> BlankAt(c, p)
  BY AppendLeaves
<1>2. ASSUME NEW b \in Shut(c) PROVE b \in Shut(d)
  <2>1. /\ b \in (1 .. Len(c)) \X (1 .. Len(c)) /\ b[1] <= b[2] /\ b[2] < Len(c)
        /\ BlankAt(c, b[1] - 1) /\ BlankAt(c, b[2] + 1)
        /\ \A p \in b[1] .. b[2] : ~BlankAt(c, p)
    BY DEF Shut
  <2>2. b \in (1 .. Len(d)) \X (1 .. Len(d)) /\ b[2] < Len(d)
    BY <1>1, <2>1
  <2>3. /\ b[1] - 1 \in 0 .. Len(c) /\ b[2] + 1 \in 0 .. Len(c)
        /\ \A p \in b[1] .. b[2] : p \in 0 .. Len(c)
    BY <1>1, <2>1
  <2>4. /\ BlankAt(d, b[1] - 1) /\ BlankAt(d, b[2] + 1)
        /\ \A p \in b[1] .. b[2] : ~BlankAt(d, p)
    BY <1>1, <2>1, <2>3
  <2> QED  BY <2>1, <2>2, <2>4 DEF Shut
<1>3. ASSUME NEW b \in Shut(d), b[2] # Len(c) PROVE b \in Shut(c)
  <2>1. /\ b \in (1 .. Len(d)) \X (1 .. Len(d)) /\ b[1] <= b[2] /\ b[2] < Len(d)
        /\ BlankAt(d, b[1] - 1) /\ BlankAt(d, b[2] + 1)
        /\ \A p \in b[1] .. b[2] : ~BlankAt(d, p)
    BY DEF Shut
  <2>2. b \in (1 .. Len(c)) \X (1 .. Len(c)) /\ b[2] < Len(c)
    BY <1>1, <1>3, <2>1
  <2>3. /\ b[1] - 1 \in 0 .. Len(c) /\ b[2] + 1 \in 0 .. Len(c)
        /\ \A p \in b[1] .. b[2] : p \in 0 .. Len(c)
    BY <1>1, <2>2
  <2>4. /\ BlankAt(c, b[1] - 1) /\ BlankAt(c, b[2] + 1)
        /\ \A p \in b[1] .. b[2] : ~BlankAt(c, p)
    BY <1>1, <2>1, <2>3
  <2> QED  BY <2>1, <2>2, <2>4 DEF Shut
<1> QED  BY <1>2, <1>3

(* A line that is not blank shuts no block.                                *)
LEMMA ShutByNone ==
  ASSUME NEW L, NEW c \in Seq(L), NEW l \in L,
         l[1] # "blank" \/ Since(c, Len(c))
  PROVE  Shut(Append(c, l)) = Shut(c)
<1> PICK d : d = Append(c, l)
  OBVIOUS
<1>1. /\ Len(d) = Len(c) + 1 /\ Len(c) \in Nat
      /\ \A p \in 0 .. Len(c) : BlankAt(d, p) <=> BlankAt(c, p)
      /\ BlankAt(d, Len(c) + 1) <=> l[1] = "blank"
  BY AppendLeaves
<1>2. ASSUME NEW b \in Shut(d) PROVE b[2] # Len(c)
  <2>1. /\ b \in (1 .. Len(d)) \X (1 .. Len(d)) /\ b[1] <= b[2] /\ BlankAt(d, b[2] + 1)
        /\ \A p \in b[1] .. b[2] : ~BlankAt(d, p)
    BY DEF Shut
  <2> SUFFICES ASSUME b[2] = Len(c) PROVE FALSE
    OBVIOUS
  <2>2. l[1] = "blank"
    BY <1>1, <2>1
  <2>3. BlankAt(c, Len(c))
    BY <2>2 DEF Since
  <2>4. Len(c) \in b[1] .. b[2] /\ Len(c) \in 0 .. Len(c)
    BY <1>1, <2>1
  <2> QED  BY <1>1, <2>1, <2>3, <2>4
<1>3. Shut(c) \subseteq Shut(d) /\ \A b \in Shut(d) : b[2] # Len(c) => b \in Shut(c)
  BY ShutStays
<1> QED  BY <1>2, <1>3

(* A blank line shuts the open block.                                      *)
LEMMA ShutByBlank ==
  ASSUME NEW L, NEW c \in Seq(L), NEW l \in L, l[1] = "blank",
         NEW k \in Nat, Since(c, k), k # Len(c)
  PROVE  /\ Shut(Append(c, l)) = Shut(c) \cup {<<k + 1, Len(c)>>}
         /\ \A b \in Shut(c) : b[1] \in Nat /\ b[1] <= k
<1> PICK d : d = Append(c, l)
  OBVIOUS
<1>1. /\ Len(d) = Len(c) + 1 /\ Len(c) \in Nat
      /\ \A p \in 0 .. Len(c) : BlankAt(d, p) <=> BlankAt(c, p)
      /\ BlankAt(d, Len(c) + 1) <=> l[1] = "blank"
  BY AppendLeaves
<1>2. /\ k \in 0 .. Len(c) /\ k < Len(c) /\ BlankAt(c, k)
      /\ \A p \in (k + 1) .. Len(c) : ~BlankAt(c, p)
  BY <1>1 DEF Since
<1> PICK n : n = <<k + 1, Len(c)>>
  OBVIOUS
<1>3. n[1] = k + 1 /\ n[2] = Len(c) /\ n \in (1 .. Len(d)) \X (1 .. Len(d))
  BY <1>1, <1>2
<1>4. n \in Shut(d)
  <2>1. n[1] <= n[2] /\ n[2] < Len(d)
    BY <1>1, <1>2, <1>3
  <2>2. BlankAt(d, n[1] - 1) /\ BlankAt(d, n[2] + 1)
    BY <1>1, <1>2, <1>3
  <2>3. \A p \in n[1] .. n[2] : ~BlankAt(d, p)
    BY <1>1, <1>2, <1>3
  <2> QED  BY <1>3, <2>1, <2>2, <2>3 DEF Shut
<1>5. ASSUME NEW b \in Shut(d), b[2] = Len(c) PROVE b = n
  <2>1. /\ b \in (1 .. Len(d)) \X (1 .. Len(d)) /\ b[1] <= b[2] /\ BlankAt(d, b[1] - 1)
        /\ \A p \in b[1] .. b[2] : ~BlankAt(d, p)
    BY DEF Shut
  <2>2. b[1] - 1 \in 0 .. Len(c)
    BY <1>1, <1>5, <2>1
  <2>3. BlankAt(c, b[1] - 1)
    BY <1>1, <2>1, <2>2
  <2>4. b[1] - 1 <= k
    <3>1. b[1] - 1 \notin (k + 1) .. Len(c)
      BY <1>2, <2>3
    <3> QED  BY <1>1, <1>2, <2>2, <3>1
  <2>5. k \notin b[1] .. b[2]
    BY <1>1, <1>2, <2>1
  <2>6. b[1] = k + 1
    BY <1>1, <1>2, <1>5, <2>1, <2>2, <2>4, <2>5
  <2> QED  BY <1>3, <1>5, <2>1, <2>6
<1>6. ASSUME NEW b \in Shut(c) PROVE b[1] \in Nat /\ b[1] <= k
  <2>1. /\ b \in (1 .. Len(c)) \X (1 .. Len(c)) /\ b[1] <= b[2] /\ b[2] < Len(c)
        /\ BlankAt(c, b[2] + 1)
    BY DEF Shut
  <2>2. b[2] + 1 \notin (k + 1) .. Len(c)
    BY <1>2, <2>1
  <2> QED  BY <1>1, <1>2, <2>1, <2>2
<1>7. Shut(c) \subseteq Shut(d) /\ \A b \in Shut(d) : b[2] # Len(c) => b \in Shut(c)
  BY ShutStays
<1>8. Shut(d) = Shut(c) \cup {n}
  BY <1>4, <1>5, <1>7
<1> QED  BY <1>6, <1>8

(* Where the blocks bs stand when n comes behind them.                     *)
StandBefore(bs, n) ==
  /\ \A b \in bs : /\ Place(bs, b) \in 1 .. Cardinality(bs)
                   /\ Place(bs \cup {n}, b) = Place(bs, b)
  /\ Place(bs \cup {n}, n) = Cardinality(bs) + 1
  /\ Cardinality(bs \cup {n}) = Cardinality(bs) + 1
  /\ Cardinality(bs) \in Nat

LEMMA Places ==
  ASSUME NEW bs, IsFiniteSet(bs), NEW k \in Nat, NEW n, n \notin bs, n[1] = k + 1,
         \A b \in bs : b[1] \in Nat /\ b[1] <= k
  PROVE  StandBefore(bs, n)
<1>1. /\ Cardinality(bs \cup {n}) = Cardinality(bs) + 1
      /\ Cardinality(bs) \in Nat
  BY FS_AddElement, FS_CardinalityType
<1>2. {d \in bs \cup {n} : d[1] <= n[1]} = bs \cup {n}
  OBVIOUS
<1>3. ASSUME NEW b \in bs
      PROVE  /\ Place(bs, b) \in 1 .. Cardinality(bs)
             /\ Place(bs \cup {n}, b) = Place(bs, b)
  <2> DEFINE D == {d \in bs : d[1] <= b[1]}
  <2>1. {d \in bs \cup {n} : d[1] <= b[1]} = D
    OBVIOUS
  <2>2. b \in D /\ D \subseteq bs
    OBVIOUS
  <2>3. IsFiniteSet(D) /\ Cardinality(D) <= Cardinality(bs)
    BY <2>2, FS_Subset
  <2>4. Cardinality(D) \in Nat /\ Cardinality(D) # 0
    <3> HIDE DEF D
    <3> QED  BY <2>2, <2>3, FS_CardinalityType, FS_EmptySet
  <2>5. Cardinality(D) \in 1 .. Cardinality(bs)
    <3> HIDE DEF D
    <3> QED  BY <1>1, <2>3, <2>4
  <2> QED  BY <2>1, <2>5 DEF Place
<1> QED  BY <1>1, <1>2, <1>3 DEF Place, StandBefore

-----------------------------------------------------------------------------
(* One line.                                                               *)

(* The blocks that are shut are finitely many.                             *)
LEMMA ShutIsFinite ==
  ASSUME NEW L, NEW c \in Seq(L)
  PROVE  IsFiniteSet(Shut(c))
<1>1. Len(c) \in Nat
  OBVIOUS
<1>2. IsFiniteSet(1 .. Len(c))
  BY <1>1, FS_Interval
<1>3. IsFiniteSet((1 .. Len(c)) \X (1 .. Len(c)))
  BY <1>2, FS_Product
<1>4. Shut(c) \subseteq (1 .. Len(c)) \X (1 .. Len(c))
  BY DEF Shut
<1> QED  BY <1>3, <1>4, FS_Subset

(* A parser that has met a faulty block does not lose sight of it.         *)
LEMMA ErrorsStay ==
  ASSUME NEW L, NEW c \in Seq(L), NEW l \in L, NEW r, r.error, HasRead(r, c)
  PROVE  HasRead(r, Append(c, l))
<1>1. PICK b \in Shut(c) : ~IsEntryAt(c, b)
  BY DEF HasRead
<1>2. b \in (1 .. Len(c)) \X (1 .. Len(c))
  BY DEF Shut
<1>3. ~IsEntryAt(Append(c, l), b)
  BY <1>1, <1>2, SameEntryAt
<1>4. b \in Shut(Append(c, l))
  BY ShutStays
<1> QED  BY <1>3, <1>4 DEF HasRead

(* What the parser has been told of the blocks that are shut.              *)
Entered(entries, c) ==
  /\ \A b \in Shut(c) : IsEntryAt(c, b)
  /\ Len(entries) = Cardinality(Shut(c))
  /\ \A b \in Shut(c) : entries[Place(Shut(c), b)] = c[b[1] + 2][2]

(* It stays so if none is added.                                           *)
LEMMA EnteredStays ==
  ASSUME NEW L, NEW c \in Seq(L), NEW l \in L, NEW entries, Entered(entries, c),
         Shut(Append(c, l)) = Shut(c)
  PROVE  Entered(entries, Append(c, l))
<1> PICK d : d = Append(c, l)
  OBVIOUS
<1>1. ASSUME NEW b \in Shut(c)
      PROVE  IsEntryAt(d, b) /\ entries[Place(Shut(c), b)] = d[b[1] + 2][2]
  <2>1. b \in (1 .. Len(c)) \X (1 .. Len(c)) /\ IsEntryAt(c, b)
    BY DEF Shut, Entered
  <2>2. IsEntryAt(d, b)
    BY <2>1, SameEntryAt
  <2>3. b[1] \in 1 .. Len(c) /\ b[2] \in 1 .. Len(c) /\ b[2] = b[1] + 8
    BY <2>1 DEF IsEntryAt
  <2>4. b[1] + 2 \in 1 .. Len(c)
    <3>1. Len(c) \in Nat
      OBVIOUS
    <3> QED  BY <2>3, <3>1
  <2>5. d[b[1] + 2] = c[b[1] + 2]
    BY <2>4, AppendLeaves
  <2> QED  BY <2>2, <2>5 DEF Entered
<1>2. Shut(d) = Shut(c)
  OBVIOUS
<1> QED  BY <1>1, <1>2 DEF Entered

(* A line of a block.                                                      *)
LEMMA LineIsRead ==
  ASSUME NEW L, NEW c \in Seq(L), NEW l \in L, l[1] # "blank",
         NEW r, ~r.error, NEW s, ~s.error, s.entries = r.entries,
         s.block = Append(r.block, l), HasRead(r, c)
  PROVE  HasRead(s, Append(c, l))
<1>1. Entered(r.entries, c)
  BY DEF HasRead, Entered
<1>2. Shut(Append(c, l)) = Shut(c)
  BY ShutByNone
<1>3. Entered(s.entries, Append(c, l))
  BY <1>1, <1>2, EnteredStays
<1>4. PICK k \in Nat : Since(c, k) /\ r.block = SubSeq(c, k + 1, Len(c))
  BY DEF HasRead
<1> PICK d : d = Append(c, l)
  OBVIOUS
<1>5. /\ Len(d) = Len(c) + 1 /\ Len(c) \in Nat
      /\ \A p \in 0 .. Len(c) : BlankAt(d, p) <=> BlankAt(c, p)
      /\ BlankAt(d, Len(c) + 1) <=> l[1] = "blank"
  BY AppendLeaves
<1>6. k \in 0 .. Len(c)
  BY <1>4 DEF Since
<1>7. Since(d, k)
  <2>1. k \in 0 .. Len(d) /\ BlankAt(d, k)
    BY <1>4, <1>5, <1>6 DEF Since
  <2>2. ASSUME NEW p \in (k + 1) .. Len(d) PROVE ~BlankAt(d, p)
    <3>1. CASE p = Len(c) + 1
      BY <1>5, <3>1
    <3>2. CASE p # Len(c) + 1
      <4>1. p \in (k + 1) .. Len(c) /\ p \in 0 .. Len(c)
        BY <1>5, <1>6, <3>2
      <4> QED  BY <1>4, <1>5, <4>1 DEF Since
    <3> QED  BY <3>1, <3>2
  <2> QED  BY <2>1, <2>2 DEF Since
<1>8. s.block = SubSeq(d, k + 1, Len(d))
  <2>1. Append(SubSeq(c, k + 1, Len(c)), l) = SubSeq(Append(c, l), k + 1, Len(c) + 1)
    BY <1>6
  <2> QED  BY <1>4, <1>5, <2>1
<1> QED  BY <1>3, <1>7, <1>8 DEF HasRead, Entered

(* A blank line, or the end of the file.                                   *)
LEMMA BlankIsRead ==
  ASSUME NEW L, NEW c \in Seq(L), NEW l \in L, l[1] = "blank",
         NEW E, NEW r \in [block : Seq(L), entries : Seq(E), error : BOOLEAN],
         ~r.error, HasRead(r, c)
  PROVE  HasRead(Flush(r), Append(c, l))
<1>1. Entered(r.entries, c)
  BY DEF HasRead, Entered
<1>2. PICK k \in Nat : Since(c, k) /\ r.block = SubSeq(c, k + 1, Len(c))
  BY DEF HasRead
<1> PICK d : d = Append(c, l)
  OBVIOUS
<1>3. /\ Len(d) = Len(c) + 1 /\ Len(c) \in Nat /\ d \in Seq(L)
      /\ \A p \in 0 .. Len(c) : BlankAt(d, p) <=> BlankAt(c, p)
      /\ BlankAt(d, Len(c) + 1) <=> l[1] = "blank"
      /\ \A p \in 1 .. Len(c) : d[p] = c[p]
  BY AppendLeaves
<1>4. k \in 0 .. Len(c)
  BY <1>2 DEF Since
<1>5. /\ Len(r.block) = Len(c) - k
      /\ \A p \in 1 .. (Len(c) - k) : r.block[p] = c[k + p]
  BY <1>2, <1>3, <1>4
<1>6. Since(d, Len(d)) /\ SubSeq(d, Len(d) + 1, Len(d)) = <<>>
  <2>1. BlankAt(d, Len(d)) /\ (Len(d) + 1) .. Len(d) = {} /\ Len(d) \in 0 .. Len(d)
    BY <1>3
  <2> QED  BY <1>3, <2>1 DEF Since
<1>7. CASE k = Len(c)
  <2>1. r.block = <<>>
    BY <1>5, <1>7
  <2>2. Flush(r) = r
    BY <2>1 DEF Flush
  <2>3. Shut(d) = Shut(c)
    BY <1>2, <1>7, ShutByNone
  <2>4. Entered(r.entries, d)
    BY <1>1, <2>3, EnteredStays
  <2>5. Len(d) \in Nat /\ Since(d, Len(d)) /\ r.block = SubSeq(d, Len(d) + 1, Len(d))
    BY <1>3, <1>6, <2>1
  <2> QED  BY <2>2, <2>4, <2>5 DEF HasRead, Entered
<1>8. CASE k # Len(c)
  <2> PICK n : n = <<k + 1, Len(c)>>
    OBVIOUS
  <2>1. n[1] = k + 1 /\ n[2] = Len(c)
    OBVIOUS
  <2>2. Shut(d) = Shut(c) \cup {n} /\ \A b \in Shut(c) : b[1] \in Nat /\ b[1] <= k
    BY <1>2, <1>8, ShutByBlank
  <2>3. IsEntryAt(d, n) <=> Len(r.block) = 9 /\ IsEntry(r.block)
    <3>1. n \in (1 .. Len(c)) \X (1 .. Len(c))
      BY <1>3, <1>4, <1>8
    <3>2. IsEntryAt(d, n) <=> IsEntryAt(c, n)
      BY <3>1, SameEntryAt
    <3>3. n[2] = n[1] + 8 <=> Len(r.block) = 9
      BY <1>3, <1>4, <1>5, <2>1
    <3>4. r.block = SubSeq(c, n[1], n[2])
      BY <1>2, <2>1
    <3> QED  BY <3>2, <3>3, <3>4 DEF IsEntryAt
  <2>4. r.block # <<>>
    <3>1. Len(r.block) # 0
      BY <1>3, <1>4, <1>5, <1>8
    <3> QED  BY <3>1
  <2>5. CASE ~IsEntryAt(d, n)
    <3>1. Flush(r) = [r EXCEPT !.error = TRUE]
      BY <2>3, <2>4, <2>5 DEF Flush
    <3>2. Flush(r).error
      BY <3>1
    <3>3. n \in Shut(d)
      BY <2>2
    <3> QED  BY <2>5, <3>2, <3>3 DEF HasRead
  <2>6. CASE IsEntryAt(d, n)
    <3> PICK id : id = GutenbergID(r.block)
      OBVIOUS
    <3>1. Flush(r) = [r EXCEPT !.block = <<>>, !.entries = Append(@, id)]
      BY <2>3, <2>4, <2>6 DEF Flush
    <3>2. /\ Flush(r).block = <<>> /\ Flush(r).entries = Append(r.entries, id)
          /\ ~Flush(r).error
      BY <3>1
    <3>3. id = d[n[1] + 2][2]
      <4>1. Len(c) = k + 9 /\ k + 3 \in 1 .. Len(c) /\ 3 \in 1 .. (Len(c) - k)
        BY <1>3, <1>5, <2>1, <2>3, <2>6
      <4>2. r.block[3] = c[k + 3] /\ d[k + 3] = c[k + 3] /\ n[1] + 2 = k + 3
        BY <1>3, <1>5, <2>1, <4>1
      <4> QED  BY <4>2 DEF GutenbergID
    <3>4. n \notin Shut(c)
      BY <2>1, <2>2
    <3>5. IsFiniteSet(Shut(c))
      BY ShutIsFinite
    <3>6. /\ \A b \in Shut(c) : /\ Place(Shut(c), b) \in 1 .. Cardinality(Shut(c))
                                /\ Place(Shut(d), b) = Place(Shut(c), b)
          /\ Place(Shut(d), n) = Cardinality(Shut(c)) + 1
          /\ Cardinality(Shut(d)) = Cardinality(Shut(c)) + 1
          /\ Cardinality(Shut(c)) \in Nat
      <4> PICK bs : bs = Shut(c)
        OBVIOUS
      <4>1. IsFiniteSet(bs) /\ n \notin bs /\ \A b \in bs : b[1] \in Nat /\ b[1] <= k
        BY <2>2, <3>4, <3>5
      <4>2. StandBefore(bs, n)
        BY <2>1, <4>1, Places
      <4>3. Shut(d) = bs \cup {n}
        BY <2>2
      <4> QED  BY <4>2, <4>3 DEF StandBefore
    <3>7. /\ Len(r.entries) = Cardinality(Shut(c))
          /\ \A b \in Shut(c) : IsEntryAt(c, b) /\ r.entries[Place(Shut(c), b)] = c[b[1] + 2][2]
      BY <1>1 DEF Entered
    <3> PICK es : es = Append(r.entries, id)
      OBVIOUS
    <3>8. /\ Len(es) = Cardinality(Shut(c)) + 1
          /\ es[Cardinality(Shut(c)) + 1] = id
          /\ \A p \in 1 .. Cardinality(Shut(c)) : es[p] = r.entries[p]
      <4>1. Len(r.entries) \in Nat /\ DOMAIN r.entries = 1 .. Len(r.entries)
        OBVIOUS
      <4> QED  BY <3>7, <4>1
    <3>9. ASSUME NEW b \in Shut(d)
          PROVE  IsEntryAt(d, b) /\ es[Place(Shut(d), b)] = d[b[1] + 2][2]
      <4>1. CASE b = n
        BY <2>6, <3>3, <3>6, <3>8, <4>1
      <4>2. CASE b \in Shut(c)
        <5>1. b \in (1 .. Len(c)) \X (1 .. Len(c)) /\ IsEntryAt(c, b)
          BY <3>7, <4>2 DEF Shut
        <5>2. IsEntryAt(d, b)
          BY <5>1, SameEntryAt
        <5>3. b[1] + 2 \in 1 .. Len(c)
          <6>1. PICK x \in 1 .. Len(c), y \in 1 .. Len(c) : x = b[1] /\ y = b[2] /\ y = x + 8
            BY <5>1 DEF IsEntryAt
          <6>2. x + 2 \in 1 .. Len(c)
            BY <1>3, <6>1
          <6> QED  BY <6>1, <6>2
        <5>4. d[b[1] + 2] = c[b[1] + 2]
          BY <1>3, <5>3
        <5>5. es[Place(Shut(d), b)] = r.entries[Place(Shut(c), b)]
          BY <3>6, <3>8, <4>2
        <5> QED  BY <3>7, <4>2, <5>2, <5>4, <5>5
      <4> QED  BY <2>2, <4>1, <4>2
    <3>10. Entered(es, d)
      BY <3>6, <3>8, <3>9 DEF Entered
    <3>11. Len(d) \in Nat /\ Since(d, Len(d)) /\ Flush(r).block = SubSeq(d, Len(d) + 1, Len(d))
      BY <1>3, <1>6, <3>2
    <3> QED  BY <3>2, <3>10, <3>11 DEF HasRead, Entered
  <2> QED  BY <2>5, <2>6
<1> QED  BY <1>7, <1>8

-----------------------------------------------------------------------------
(* The whole file.                                                         *)

(* After every line the parser has read the content so far.                *)
LinesRead(lines, n) ==
  /\ ContentTo(lines)[n] \in Seq(Range(lines))
  /\ ParserAfter(lines)[n] \in Parsers(lines)
  /\ HasRead(ParserAfter(lines)[n], ContentTo(lines)[n])

LEMMA OneMoreLine ==
  ASSUME NEW lines, IsFile(lines), NEW n \in 1 .. Len(lines), LinesRead(lines, n - 1)
  PROVE  LinesRead(lines, n)
<1> PICK l : l = lines[n]
  OBVIOUS
<1> PICK r : r = ParserAfter(lines)[n - 1]
  OBVIOUS
<1> PICK s : s = ParserAfter(lines)[n]
  OBVIOUS
<1> PICK c : c = ContentTo(lines)[n - 1]
  OBVIOUS
<1> PICK d : d = ContentTo(lines)[n]
  OBVIOUS
<1>1. l \in Range(lines)
  BY DEF IsFile
<1>2. c \in Seq(Range(lines)) /\ r \in Parsers(lines) /\ HasRead(r, c)
  BY DEF LinesRead
<1>3. s = ReadLine(r, l)
  BY ParserAfterIs
<1>4. d = IF l[1] = "comment" THEN c ELSE Append(c, l)
  BY ContentToIs
<1>5. s \in Parsers(lines)
  BY <1>1, <1>2, <1>3, ReadLineTyped
<1>6. d \in Seq(Range(lines))
  <2>1. Append(c, l) \in Seq(Range(lines))
    BY <1>1, <1>2
  <2> QED  BY <1>2, <1>4, <2>1
<1>7. HasRead(s, d)
  <2>1. CASE l[1] = "comment"
    BY <1>2, <1>3, <1>4, <2>1 DEF ReadLine
  <2>2. CASE l[1] # "comment" /\ r.error
    <3>1. s = r /\ d = Append(c, l)
      BY <1>3, <1>4, <2>2 DEF ReadLine
    <3>2. HasRead(r, Append(c, l))
      BY <1>1, <1>2, <2>2, ErrorsStay
    <3> QED  BY <3>1, <3>2
  <2>3. CASE l[1] # "comment" /\ ~r.error /\ l[1] = "blank"
    <3>1. s = Flush(r) /\ d = Append(c, l)
      BY <1>3, <1>4, <2>3 DEF ReadLine
    <3>2. r \in [block : Seq(Range(lines)), entries : Seq(IDs(lines)), error : BOOLEAN]
      BY <1>2 DEF Parsers
    <3>3. HasRead(Flush(r), Append(c, l))
      BY <1>1, <1>2, <2>3, <3>2, BlankIsRead
    <3> QED  BY <3>1, <3>3
  <2>4. CASE l[1] # "comment" /\ ~r.error /\ l[1] # "blank"
    <3>1. s = [r EXCEPT !.block = Append(@, l)] /\ d = Append(c, l)
      BY <1>3, <1>4, <2>4 DEF ReadLine
    <3>2. s.error = r.error /\ s.entries = r.entries /\ s.block = Append(r.block, l)
      BY <1>2, <3>1 DEF Parsers
    <3>3. HasRead(s, Append(c, l))
      BY <1>1, <1>2, <2>4, <3>2, LineIsRead
    <3> QED  BY <3>1, <3>3
  <2> QED  BY <2>1, <2>2, <2>3, <2>4
<1> QED  BY <1>5, <1>6, <1>7 DEF LinesRead

LEMMA AllLines ==
  ASSUME NEW lines, IsFile(lines)
  PROVE  LinesRead(lines, Len(lines))
<1> DEFINE D == {n \in Nat : n <= Len(lines) => LinesRead(lines, n)}
<1>1. Len(lines) \in Nat
  BY DEF IsFile
<1>2. 0 \in D
  <2>1. ContentTo(lines)[0] = <<>> /\ ParserAfter(lines)[0] = FirstState
    BY ContentToIs, ParserAfterIs
  <2>2. FirstState \in Parsers(lines) /\ <<>> \in Seq(Range(lines))
    BY DEF FirstState, Parsers
  <2>3. HasRead(FirstState, <<>>)
    <3> PICK c : c = <<>>
      OBVIOUS
    <3>1. c \in Seq({}) /\ Len(c) = 0
      OBVIOUS
    <3>2. Shut(c) = {}
      BY <3>1 DEF Shut
    <3>3. Since(c, 0) /\ 0 \in Nat
      BY <3>1 DEF Since, BlankAt
    <3>4. SubSeq(c, 0 + 1, Len(c)) = <<>>
      BY <3>1
    <3>5. /\ ~FirstState.error /\ FirstState.block = <<>>
          /\ Len(FirstState.entries) = 0
      BY DEF FirstState
    <3>6. Cardinality(Shut(c)) = 0
      BY <3>2, FS_EmptySet
    <3>7. \E k \in Nat : Since(c, k) /\ FirstState.block = SubSeq(c, k + 1, Len(c))
      BY <3>3, <3>4, <3>5
    <3> QED  BY <3>2, <3>5, <3>6, <3>7 DEF HasRead
  <2> QED  BY <2>1, <2>2, <2>3 DEF LinesRead
<1>3. ASSUME NEW n \in D PROVE n + 1 \in D
  <2> SUFFICES ASSUME n + 1 <= Len(lines) PROVE LinesRead(lines, n + 1)
    OBVIOUS
  <2>1. n + 1 \in 1 .. Len(lines) /\ (n + 1) - 1 = n /\ n <= Len(lines)
    BY <1>1
  <2>2. LinesRead(lines, (n + 1) - 1)
    BY <2>1
  <2> QED  BY <2>1, <2>2, OneMoreLine
<1>4. Len(lines) \in D
  <2>1. D \in SUBSET Nat
    OBVIOUS
  <2> HIDE DEF D
  <2> QED  BY <1>1, <1>2, <1>3, <2>1, Induction
<1> QED  BY <1>4

(* The end of a file ends a block as a blank line would.                   *)
LEMMA EndIsBlank ==
  ASSUME NEW L, NEW c \in Seq(L), NEW l \in L, l[1] = "blank"
  PROVE  Blocks(c) = Shut(Append(c, l))
<1> PICK d : d = Append(c, l)
  OBVIOUS
<1>1. /\ Len(d) = Len(c) + 1 /\ Len(c) \in Nat
      /\ \A p \in 0 .. Len(c) : BlankAt(d, p) <=> BlankAt(c, p)
      /\ BlankAt(d, Len(c) + 1)
  BY AppendLeaves
<1>2. BlankAt(c, Len(c) + 1)
  BY DEF BlankAt
<1>3. \A p \in 0 .. (Len(c) + 1) : BlankAt(d, p) <=> BlankAt(c, p)
  BY <1>1, <1>2
<1>4. ASSUME NEW b \in Blocks(c) PROVE b \in Shut(d)
  <2>1. /\ b \in (1 .. Len(c)) \X (1 .. Len(c)) /\ b[1] <= b[2]
        /\ BlankAt(c, b[1] - 1) /\ BlankAt(c, b[2] + 1)
        /\ \A p \in b[1] .. b[2] : ~BlankAt(c, p)
    BY DEF Blocks
  <2>2. b \in (1 .. Len(d)) \X (1 .. Len(d)) /\ b[2] < Len(d)
    BY <1>1, <2>1
  <2>3. /\ b[1] - 1 \in 0 .. (Len(c) + 1) /\ b[2] + 1 \in 0 .. (Len(c) + 1)
        /\ \A p \in b[1] .. b[2] : p \in 0 .. (Len(c) + 1)
    BY <1>1, <2>1
  <2>4. /\ BlankAt(d, b[1] - 1) /\ BlankAt(d, b[2] + 1)
        /\ \A p \in b[1] .. b[2] : ~BlankAt(d, p)
    BY <1>3, <2>1, <2>3
  <2> QED  BY <2>1, <2>2, <2>4 DEF Shut
<1>5. ASSUME NEW b \in Shut(d) PROVE b \in Blocks(c)
  <2>1. /\ b \in (1 .. Len(d)) \X (1 .. Len(d)) /\ b[1] <= b[2] /\ b[2] < Len(d)
        /\ BlankAt(d, b[1] - 1) /\ BlankAt(d, b[2] + 1)
        /\ \A p \in b[1] .. b[2] : ~BlankAt(d, p)
    BY DEF Shut
  <2>2. b \in (1 .. Len(c)) \X (1 .. Len(c))
    BY <1>1, <2>1
  <2>3. /\ b[1] - 1 \in 0 .. (Len(c) + 1) /\ b[2] + 1 \in 0 .. (Len(c) + 1)
        /\ \A p \in b[1] .. b[2] : p \in 0 .. (Len(c) + 1)
    BY <1>1, <2>2
  <2>4. /\ BlankAt(c, b[1] - 1) /\ BlankAt(c, b[2] + 1)
        /\ \A p \in b[1] .. b[2] : ~BlankAt(c, p)
    BY <1>3, <2>1, <2>3
  <2> QED  BY <2>1, <2>2, <2>4 DEF Blocks
<1> QED  BY <1>4, <1>5

(* Every file is read as its header says.                                  *)
LEMMA FileIsReadRight ==
  ASSUME NEW lines, IsFile(lines)
  PROVE  ReadsAsDocumented(lines)
<1> PICK l : l = <<"blank">>
  OBVIOUS
<1> PICK L : L = Range(lines) \cup {l}
  OBVIOUS
<1> PICK c : c = Content(lines)
  OBVIOUS
<1> PICK r : r = ParserAfter(lines)[Len(lines)]
  OBVIOUS
<1> PICK s : s = Parse(lines)
  OBVIOUS
<1>1. l[1] = "blank" /\ l \in L
  OBVIOUS
<1>2. c \in Seq(Range(lines)) /\ r \in Parsers(lines) /\ HasRead(r, c)
  BY AllLines DEF LinesRead, Content
<1>3. c \in Seq(L) /\ r \in [block : Seq(L), entries : Seq(IDs(lines)), error : BOOLEAN]
  <2>1. Seq(Range(lines)) \subseteq Seq(L)
    OBVIOUS
  <2> QED  BY <1>2, <2>1 DEF Parsers
<1> PICK d : d = Append(c, l)
  OBVIOUS
<1>4. HasRead(s, d)
  <2>1. CASE r.error
    <3>1. s = r
      BY <2>1 DEF Parse
    <3>2. HasRead(r, d)
      BY <1>1, <1>2, <1>3, <2>1, ErrorsStay
    <3> QED  BY <3>1, <3>2
  <2>2. CASE ~r.error
    <3>1. s = Flush(r)
      BY <2>2 DEF Parse
    <3>2. HasRead(Flush(r), d)
      BY <1>1, <1>2, <1>3, <2>2, BlankIsRead
    <3> QED  BY <3>1, <3>2
  <2> QED  BY <2>1, <2>2
<1>5. Blocks(c) = Shut(d)
  BY <1>1, <1>3, EndIsBlank
<1>6. ASSUME NEW b \in Blocks(c)
      PROVE  /\ IsEntryAt(d, b) <=> IsEntryAt(c, b)
             /\ IsEntryAt(c, b) => d[b[1] + 2] = c[b[1] + 2]
  <2>1. b \in (1 .. Len(c)) \X (1 .. Len(c))
    BY DEF Blocks
  <2>2. IsEntryAt(d, b) <=> IsEntryAt(c, b)
    BY <1>1, <1>3, <2>1, SameEntryAt
  <2>3. IsEntryAt(c, b) => b[1] + 2 \in 1 .. Len(c)
    <3>1. Len(c) \in Nat /\ b[1] \in 1 .. Len(c) /\ b[2] \in 1 .. Len(c)
      BY <1>3, <2>1
    <3>2. IsEntryAt(c, b) => b[2] = b[1] + 8
      BY DEF IsEntryAt
    <3> QED  BY <3>1, <3>2
  <2>4. \A p \in 1 .. Len(c) : d[p] = c[p]
    BY <1>1, <1>3, AppendLeaves
  <2> QED  BY <2>2, <2>3, <2>4
<1>7. s.error \in BOOLEAN
  <2>1. Flush(r) \in Parsers(lines)
    BY <1>2, FlushTyped
  <2> QED  BY <1>2, <2>1 DEF Parse, Parsers
<1>8. CASE s.error
  <2>1. PICK b \in Shut(d) : ~IsEntryAt(d, b)
    BY <1>4, <1>8 DEF HasRead
  <2>2. b \in Blocks(c) /\ ~IsEntryAt(c, b)
    BY <1>5, <1>6, <2>1
  <2> QED  BY <1>8, <2>2 DEF ReadsAsDocumented
<1>9. CASE ~s.error
  <2>1. /\ \A b \in Shut(d) : IsEntryAt(d, b)
        /\ Len(s.entries) = Cardinality(Shut(d))
        /\ \A b \in Shut(d) : s.entries[Place(Shut(d), b)] = d[b[1] + 2][2]
    BY <1>4, <1>9 DEF HasRead
  <2>2. /\ \A b \in Blocks(c) : IsEntryAt(c, b)
        /\ Len(s.entries) = Cardinality(Blocks(c))
        /\ \A b \in Blocks(c) : s.entries[Place(Blocks(c), b)] = c[b[1] + 2][2]
    BY <1>5, <1>6, <2>1
  <2> QED  BY <1>9, <2>2 DEF ReadsAsDocumented
<1> QED  BY <1>7, <1>8, <1>9

(* What a catalog holds, all of it or one ID of it, is a list of books.    *)
LEMMA ReadingsAreLists ==
  ASSUME NEW entries \in Readings, NEW wantID \in Books \cup {0}
  PROVE  entries \in Seq(Books) /\ FilterByGutenbergID(entries, wantID) \in Seq(Books)
<1>1. PICK file \in Files : entries = Entries(file)
  BY DEF Readings
<1>2. IsFile(file)
  BY FilesAssumption DEF IsFile
<1>3. IDs(file) \subseteq Books
  BY FilesAssumption DEF IDs
<1>4. Parse(file) \in Parsers(file)
  <2>1. ParserAfter(file)[Len(file)] \in Parsers(file)
    BY <1>2, AllLines DEF LinesRead
  <2> QED  BY <1>2, <2>1, FlushTyped DEF Parse
<1>5. entries \in Seq(Books)
  <2>1. Parse(file).entries \in Seq(Books) /\ <<>> \in Seq(Books)
    BY <1>3, <1>4 DEF Parsers
  <2> QED  BY <1>1, <2>1 DEF Entries
<1>6. ASSUME wantID # 0 PROVE FilterByGutenbergID(entries, wantID) \in Seq(Books)
  <2> DEFINE found == {p \in 1 .. Len(entries) : entries[p] = wantID}
  <2>1. IsFiniteSet(found)
    <3>1. Len(entries) \in Nat
      BY <1>5
    <3>2. IsFiniteSet(1 .. Len(entries)) /\ found \subseteq 1 .. Len(entries)
      BY <3>1, FS_Interval
    <3> HIDE DEF found
    <3> QED  BY <3>2, FS_Subset
  <2>2. Cardinality(found) \in Nat
    BY <2>1, FS_CardinalityType
  <2>3. [p \in 1 .. Cardinality(found) |-> wantID] \in Seq(Books)
    BY <1>6, <2>2
  <2> QED  BY <1>6, <2>3 DEF FilterByGutenbergID
<1> QED  BY <1>5, <1>6 DEF FilterByGutenbergID

(* No catalog is misread.                                                  *)
LEMMA NothingIsMisread == Misread = {}
<1> SUFFICES ASSUME NEW file \in Files PROVE ReadsAsDocumented(file)
  BY DEF Misread
<1>1. IsFile(file)
  BY FilesAssumption DEF IsFile
<1> QED  BY <1>1, FileIsReadRight

-----------------------------------------------------------------------------
(* Lists of books.                                                         *)

(* The rest of a list has the books of the list, its first one perhaps     *)
(* excepted.                                                               *)
LEMMA TailRange ==
  ASSUME NEW s \in Seq(Books), s # <<>>
  PROVE  /\ Tail(s) \in Seq(Books) /\ Head(s) \in Books
         /\ Range(s) = {Head(s)} \cup Range(Tail(s))
<1>1. Tail(s) \in Seq(Books) /\ Head(s) \in Books /\ Head(s) = s[1]
  OBVIOUS
<1>2. /\ DOMAIN s = 1 .. Len(s) /\ Len(s) \in Nat \ {0}
      /\ DOMAIN Tail(s) = 1 .. (Len(s) - 1)
      /\ \A k \in 1 .. (Len(s) - 1) : Tail(s)[k] = s[k + 1]
  OBVIOUS
<1>3. ASSUME NEW x \in Range(s) PROVE x \in {Head(s)} \cup Range(Tail(s))
  <2>1. PICK k \in 1 .. Len(s) : x = s[k]
    BY <1>2 DEF Range
  <2>2. CASE k = 1
    BY <1>1, <2>1, <2>2
  <2>3. CASE k # 1
    <3>1. k - 1 \in 1 .. (Len(s) - 1) /\ Tail(s)[k - 1] = x
      BY <1>2, <2>1, <2>3
    <3> QED  BY <1>2, <3>1 DEF Range
  <2> QED  BY <2>2, <2>3
<1>4. ASSUME NEW x \in Range(Tail(s)) PROVE x \in Range(s)
  <2>1. PICK k \in 1 .. (Len(s) - 1) : x = Tail(s)[k]
    BY <1>2 DEF Range
  <2>2. k + 1 \in 1 .. Len(s) /\ x = s[k + 1]
    BY <1>2, <2>1
  <2> QED  BY <1>2, <2>2 DEF Range
<1>5. Head(s) \in Range(s)
  BY <1>1, <1>2 DEF Range
<1> QED  BY <1>1, <1>3, <1>4, <1>5

(* The books of a list are finitely many.                                  *)
LEMMA FiniteRange ==
  ASSUME NEW s \in Seq(Books)
  PROVE  Range(s) \in SUBSET Books /\ IsFiniteSet(Range(s))
<1>1. DOMAIN s = 1 .. Len(s) /\ Len(s) \in Nat /\ \A k \in 1 .. Len(s) : s[k] \in Books
  OBVIOUS
<1>2. IsFiniteSet(1 .. Len(s))
  BY <1>1, FS_Interval
<1>3. s \in Surjection(1 .. Len(s), Range(s))
  BY <1>1 DEF Surjection, Range
<1> QED  BY <1>1, <1>2, <1>3, FS_Surjection DEF Range

(* Nothing is listed in the empty list.                                    *)
LEMMA EmptyRange == Range(<<>>) = {}
  BY DEF Range

-----------------------------------------------------------------------------
(* One book behind the command: it counts as failed if it is not finished, *)
(* and no other book has changed.                                          *)
LEMMA ContinueCounts ==
  ASSUME TypesOK, CountOK, cmd.todo # <<>>, NEW fails \in BOOLEAN, Continue(fails),
         NEW e \in Books, e = Entry,
         \A b \in Books \ {e} : Unfinished(b)' => Unfinished(b),
         fails \/ ~Unfinished(e)'
  PROVE  CountOK'
<1>1. /\ cmd.todo \in Seq(Books) /\ cmd.all \in SUBSET Books /\ cmd.failed \in Nat
      /\ cmd'.todo = Tail(cmd.todo) /\ cmd'.all = cmd.all
      /\ cmd'.failed = IF fails THEN cmd.failed + 1 ELSE cmd.failed
  BY DEF TypesOK, Continue
<1>2. Range(cmd.todo) = {e} \cup Range(cmd'.todo)
  BY <1>1, TailRange DEF Entry
<1>3. Undone' \subseteq IF fails THEN Undone \cup {e} ELSE Undone
  <2> SUFFICES ASSUME NEW b \in Undone'
               PROVE  b \in IF fails THEN Undone \cup {e} ELSE Undone
    OBVIOUS
  <2>1. b \in cmd.all /\ b \in Books /\ Unfinished(b)' /\ b \notin Range(cmd'.todo)
    BY <1>1 DEF Undone
  <2>2. CASE b = e
    BY <2>1, <2>2
  <2>3. CASE b # e
    <3>1. Unfinished(b) /\ b \notin Range(cmd.todo)
      BY <1>2, <2>1, <2>3
    <3> QED  BY <2>1, <3>1 DEF Undone
  <2> QED  BY <2>2, <2>3
<1>4. IsFiniteSet(Undone) /\ Cardinality(Undone) <= cmd.failed
  BY FS_Subset DEF CountOK, Undone
<1>5. /\ IsFiniteSet(Undone \cup {e})
      /\ Cardinality(Undone \cup {e}) <= Cardinality(Undone) + 1
      /\ Cardinality(Undone) \in Nat
  <2>1. /\ IsFiniteSet(Undone \cup {e})
        /\ \/ Cardinality(Undone \cup {e}) = Cardinality(Undone)
           \/ Cardinality(Undone \cup {e}) = Cardinality(Undone) + 1
    BY <1>4, FS_AddElement
  <2>2. Cardinality(Undone) \in Nat
    BY <1>4, FS_CardinalityType
  <2> HIDE DEF Undone
  <2> QED  BY <2>1, <2>2
<1>6. Cardinality(Undone') <= Cardinality(IF fails THEN Undone \cup {e} ELSE Undone)
  BY <1>3, <1>4, <1>5, FS_Subset
<1>7. Cardinality(Undone') \in Nat
  BY <1>3, <1>4, <1>5, FS_Subset, FS_CardinalityType
<1>8. Cardinality(Undone') <= cmd'.failed
  <2>1. CASE fails
    <3>1. Cardinality(Undone') <= Cardinality(Undone \cup {e}) /\ cmd'.failed = cmd.failed + 1
      BY <1>1, <1>6, <2>1
    <3>2. Cardinality(Undone \cup {e}) \in Nat
      BY <1>5, FS_CardinalityType
    <3> QED  BY <1>1, <1>4, <1>5, <1>7, <3>1, <3>2
  <2>2. CASE ~fails
    BY <1>1, <1>4, <1>5, <1>6, <1>7, <2>2
  <2> QED  BY <2>1, <2>2
<1> QED  BY <1>1, <1>8 DEF CountOK

(* A command that stays at its book counts as before.                      *)
LEMMA SameCount ==
  ASSUME TypesOK, CountOK, cmd'.all = cmd.all, cmd'.todo = cmd.todo,
         cmd'.failed = cmd.failed,
         \A b \in Books \ Range(cmd.todo) : Unfinished(b)' => Unfinished(b)
  PROVE  CountOK'
<1>1. Undone' \subseteq Undone /\ cmd.failed \in Nat
  BY DEF Undone, TypesOK
<1>2. IsFiniteSet(Undone)
  BY FS_Subset DEF CountOK, Undone
<1>3. Cardinality(Undone') <= Cardinality(Undone)
      /\ Cardinality(Undone) \in Nat /\ Cardinality(Undone') \in Nat
  BY <1>1, <1>2, FS_Subset, FS_CardinalityType
<1> QED  BY <1>1, <1>3 DEF CountOK

-----------------------------------------------------------------------------
(* The row of the book in hand.                                            *)

(* What a command may do to book b: cover and type stay together and stay; *)
(* it publishes nothing; what has been told of b is not undone.            *)
RowStep(b) ==
  /\ row' \in [Books -> Rows]
  /\ \A x \in Books \ {b} : row'[x] = row[x]
  /\ row'[b].contentType = row'[b].image
  /\ row[b].image # None => row'[b].image # None
  /\ row'[b].status = "published" =>
       row[b].status = "published" /\ row'[b].chunks = row[b].chunks
  /\ b \in told /\ row[b].chunks = "complete" => row'[b].chunks = "complete"

(* A step that leaves the rows alone is one.                               *)
LEMMA NoRowStep ==
  ASSUME TypesOK, CoversOK, UNCHANGED row, NEW b \in Books
  PROVE  RowStep(b)
BY DEF TypesOK, CoversOK, RowStep

(* UpsertBook hides the book and keeps its chunks and its cover.           *)
LEMMA UpsertBookSteps ==
  ASSUME TypesOK, CoversOK, NEW b \in Books, NEW f \in FetchedImages, UpsertBook(b, f)
  PROVE  RowStep(b) /\ row'[b].status = "processing" /\ row'[b].chunks = row[b].chunks
<1>1. row \in [Books -> Rows] /\ row[b] \in Rows /\ row[b].contentType = row[b].image
  BY DEF TypesOK, CoversOK
<1>2. /\ \A x \in Books \ {b} : row'[x] = row[x]
      /\ row'[b] = [row[b] EXCEPT !.status = "processing",
                                  !.image = Coalesce(f, row[b].image),
                                  !.contentType = Coalesce(f, row[b].contentType)]
  BY <1>1 DEF UpsertBook
<1>3. Coalesce(f, row[b].image) \in FetchedImages
  BY <1>1 DEF Coalesce, Rows
<1>4. /\ row'[b].status = "processing" /\ row'[b].chunks = row[b].chunks
      /\ row'[b].image = Coalesce(f, row[b].image)
      /\ row'[b].contentType = Coalesce(f, row[b].image)
  BY <1>1, <1>2 DEF Rows
<1>5. row'[b] \in Rows
  <2>1. \A r \in Rows, c \in FetchedImages :
          [r EXCEPT !.status = "processing", !.image = c, !.contentType = c] \in Rows
    BY DEF Rows
  <2>2. Coalesce(f, row[b].contentType) = Coalesce(f, row[b].image)
    BY <1>1
  <2> DEFINE c == Coalesce(f, row[b].image)
  <2>3. row'[b] = [row[b] EXCEPT !.status = "processing", !.image = c, !.contentType = c]
    BY <1>2, <2>2
  <2>4. c \in FetchedImages
    BY <1>3
  <2> HIDE DEF c
  <2> QED  BY <1>1, <2>1, <2>3, <2>4
<1>6. row' \in [Books -> Rows]
  BY <1>1, <1>5 DEF UpsertBook
<1>7. row[b].image # None => Coalesce(f, row[b].image) # None
  BY DEF Coalesce
<1> QED  BY <1>2, <1>4, <1>6, <1>7 DEF RowStep

(* Chunks are written to a hidden book only; a process takes them forward. *)
LEMMA ChunksStep ==
  ASSUME TypesOK, CoversOK, NEW b \in Books, NEW s \in Extents,
         row' = [row EXCEPT ![b].chunks = s], row[b].status = "processing",
         b \in told /\ row[b].chunks = "complete" => s = "complete"
  PROVE  RowStep(b) /\ row'[b].status = "processing" /\ row'[b].chunks = s
<1>1. row \in [Books -> Rows] /\ row[b] \in Rows /\ row[b].contentType = row[b].image
  BY DEF TypesOK, CoversOK
<1>2. /\ \A x \in Books \ {b} : row'[x] = row[x]
      /\ row'[b] = [row[b] EXCEPT !.chunks = s]
  BY <1>1
<1>3. row'[b] \in Rows /\ row'[b].chunks = s /\ row'[b].status = "processing"
      /\ row'[b].image = row[b].image /\ row'[b].contentType = row[b].contentType
  BY <1>1, <1>2 DEF Rows
<1>4. row' \in [Books -> Rows]
  BY <1>1, <1>3
<1> QED  BY <1>1, <1>2, <1>3, <1>4 DEF RowStep

(* What may be published stays complete.                                   *)
LEMMA RowStepKeeps ==
  ASSUME TypesOK, CoversOK, ToldOK, NEW b \in Books, RowStep(b), UNCHANGED told
  PROVE  CoversOK' /\ ToldOK'
BY DEF TypesOK, CoversOK, ToldOK, RowStep

(* The book in hand is in the list, and is livetest's own in a livetest.   *)
LEMMA EntryIsBook ==
  ASSUME Inv, cmd.todo # <<>>
  PROVE  /\ Entry \in Books /\ Entry \in Range(cmd.todo) /\ cmd.todo \in Seq(Books)
         /\ cmd.name = "livetest" /\ Running => Entry = LiveBook /\ Tail(cmd.todo) = <<>>
<1>1. cmd.todo \in Seq(Books)
  BY DEF Inv, TypesOK
<1>2. Entry \in Books /\ Entry \in Range(cmd.todo)
  BY <1>1, TailRange DEF Entry
<1>3. ASSUME cmd.name = "livetest", Running PROVE Entry = LiveBook /\ Tail(cmd.todo) = <<>>
  <2>1. cmd.todo = <<LiveBook>>
    BY <1>3 DEF Inv, PlaceOK
  <2> QED  BY <2>1 DEF Entry
<1> QED  BY <1>1, <1>2, <1>3

(* A write that may or may not have been committed is a step of the row.   *)
LEMMA PartlySteps ==
  ASSUME Inv, Running, Partly
  PROVE  UNCHANGED row \/ (cmd.todo # <<>> /\ RowStep(Entry))
<1> DEFINE Upserts == \E f \in FetchedImages : UpsertBook(Entry, f)
<1>1. TypesOK /\ CoversOK /\ PlaceOK
  BY DEF Inv
<1>2. ASSUME NEW name \in {"process", "livetest"}, AtEntry(name), Upserts
      PROVE  cmd.todo # <<>> /\ RowStep(Entry)
  BY <1>1, <1>2, EntryIsBook, UpsertBookSteps DEF AtEntry
<1>3. ASSUME cmd.at = "content", NEW s \in Onward[row[Entry].chunks],
             row' = [row EXCEPT ![Entry].chunks = s]
      PROVE  cmd.todo # <<>> /\ RowStep(Entry)
  <2>1. cmd.todo # <<>> /\ Entry \in Books /\ row[Entry].status = "processing"
    BY <1>1, <1>3, EntryIsBook DEF PlaceOK
  <2>2. row[Entry].chunks \in Extents
    BY <1>1, <2>1 DEF TypesOK, Rows
  <2>3. s \in Extents /\ (row[Entry].chunks = "complete" => s = "complete")
    BY <1>3, <2>2 DEF Onward, Extents
  <2> QED  BY <1>1, <1>3, <2>1, <2>3, ChunksStep
<1>4. ASSUME cmd.at = "chunks", SaveLivetest
      PROVE  cmd.todo # <<>> /\ RowStep(Entry)
  <2>1. /\ cmd.todo # <<>> /\ Entry = LiveBook /\ row[LiveBook].status = "processing"
        /\ LiveBook \notin told
    BY <1>1, <1>4, EntryIsBook DEF PlaceOK, Running
  <2>2. PICK s \in {"part", "complete"} : row' = [row EXCEPT ![LiveBook].chunks = s]
    BY <1>4 DEF SaveLivetest
  <2> QED  BY <1>1, <2>1, <2>2, ChunksStep DEF Extents
<1>5. ASSUME AtEntry("livetest"), UpsertBook(LiveBook, None) PROVE Upserts
  <2>1. Entry = LiveBook
    BY <1>5, EntryIsBook DEF AtEntry, Running
  <2> QED  BY <1>5, <2>1 DEF FetchedImages
<1> QED
  BY <1>2, <1>3, <1>4, <1>5 DEF Partly

-----------------------------------------------------------------------------
(* The steps of a command.                                                 *)

(* A step that ends with the next entry.                                   *)
LEMMA ContinueKeeps ==
  ASSUME Inv, Running, cmd.todo # <<>>, NEW e \in Books, e = Entry,
         NEW fails \in BOOLEAN, Continue(fails), RowStep(e), UNCHANGED told,
         files' \in [Books -> Contents],
         \A b \in Books \ {e} : files'[b] = files[b],
         fails \/ ~Unfinished(e)'
  PROVE  Inv'
<1>1. TypesOK /\ CoversOK /\ PlaceOK /\ ToldOK /\ CountOK
  BY DEF Inv
<1>2. /\ cmd \in [name : Names, at : Ats, todo : Seq(Books), all : SUBSET Books, failed : Nat]
      /\ cmd' = [cmd EXCEPT !.todo = Tail(@), !.at = "entry",
                            !.failed = IF fails THEN @ + 1 ELSE @]
      /\ Tail(cmd.todo) \in Seq(Books)
  BY <1>1, TailRange DEF TypesOK, Continue
<1>3. /\ cmd' \in [name : Names, at : Ats, todo : Seq(Books), all : SUBSET Books, failed : Nat]
      /\ cmd'.name = cmd.name /\ cmd'.at = "entry" /\ cmd'.todo = Tail(cmd.todo)
  <2>1. (IF fails THEN cmd.failed + 1 ELSE cmd.failed) \in Nat
    BY <1>2
  <2> QED  BY <1>2, <2>1 DEF Ats
<1>4. TypesOK'
  BY <1>1, <1>3 DEF TypesOK, RowStep
<1>5. CoversOK' /\ ToldOK'
  BY <1>1, RowStepKeeps
<1>6. PlaceOK'
  BY <1>1, <1>3, EntryIsBook DEF PlaceOK, Running
<1>7. \A b \in Books \ {e} : Unfinished(b)' => Unfinished(b)
  BY <1>3 DEF Unfinished, RowStep
<1>8. CountOK'
  BY <1>1, <1>7, ContinueCounts
<1> QED  BY <1>4, <1>5, <1>6, <1>8 DEF Inv

(* A step that stays with its book.                                        *)
LEMMA StayKeeps ==
  ASSUME Inv, Running, cmd.todo # <<>>, NEW e \in Books, e = Entry,
         NEW at \in {"content", "sentences", "chunks"}, cmd' = [cmd EXCEPT !.at = at],
         RowStep(e), UNCHANGED told, files' \in [Books -> Contents],
         \A b \in Books \ {e} : files'[b] = files[b],
         \/ at = "content" /\ cmd.name = "process" /\ row'[e].status = "processing"
         \/ at = "sentences" /\ cmd.name = "ingest"
         \/ at = "chunks" /\ cmd.name = "livetest" /\ row'[e].status = "processing"
  PROVE  Inv'
<1>1. TypesOK /\ CoversOK /\ PlaceOK /\ ToldOK /\ CountOK
  BY DEF Inv
<1>2. /\ cmd' \in [name : Names, at : Ats, todo : Seq(Books), all : SUBSET Books, failed : Nat]
      /\ cmd'.name = cmd.name /\ cmd'.at = at /\ cmd'.todo = cmd.todo
      /\ cmd'.all = cmd.all /\ cmd'.failed = cmd.failed
  BY <1>1 DEF TypesOK, Ats
<1>3. TypesOK'
  BY <1>1, <1>2 DEF TypesOK, RowStep
<1>4. CoversOK' /\ ToldOK'
  BY <1>1, RowStepKeeps
<1>5. Entry' = e /\ (cmd.name = "livetest" => e = LiveBook) /\ e \in Range(cmd.todo)
  BY <1>2, EntryIsBook DEF Entry
<1>6. PlaceOK'
  BY <1>1, <1>2, <1>5 DEF PlaceOK, Running
<1>7. \A b \in Books \ Range(cmd.todo) : Unfinished(b)' => Unfinished(b)
  BY <1>2, <1>5 DEF Unfinished, RowStep
<1>8. CountOK'
  BY <1>1, <1>2, <1>7, SameCount
<1> QED  BY <1>3, <1>4, <1>6, <1>8 DEF Inv

-----------------------------------------------------------------------------
(* The actions.                                                            *)

(* A new command begins with all of its entries before it.                 *)
LEMMA StartOverKeeps ==
  ASSUME Inv, ~Running, NEW name \in {"process", "dry-run", "ingest", "livetest"},
         NEW entries \in Seq(Books), NEW ready \in BOOLEAN, StartOver(name, entries, ready),
         name = "livetest" => entries = <<LiveBook>>
  PROVE  Inv'
<1> DEFINE goes == entries # <<>> /\ ready
<1>1. TypesOK /\ CoversOK /\ ToldOK /\ row' = row
  BY DEF Inv, StartOver
<1>2. /\ cmd'.name = name /\ cmd'.failed = 0
      /\ cmd'.todo = IF goes THEN entries ELSE <<>>
      /\ cmd'.all = IF goes THEN Range(entries) ELSE {}
      /\ cmd'.at = IF goes THEN "entry" ELSE "ended"
      /\ cmd' = [name |-> cmd'.name, failed |-> cmd'.failed, todo |-> cmd'.todo,
                 all |-> cmd'.all, at |-> cmd'.at]
  BY DEF StartOver
<1>3. Range(entries) \in SUBSET Books /\ IsFiniteSet(Range(entries))
  BY FiniteRange
<1>4. TypesOK'
  <2>1. cmd' \in [name : Names, at : Ats, todo : Seq(Books), all : SUBSET Books, failed : Nat]
    <3>1. /\ cmd'.name \in Names /\ cmd'.at \in Ats /\ cmd'.failed \in Nat
          /\ cmd'.todo \in Seq(Books) /\ cmd'.all \in SUBSET Books
      BY <1>2, <1>3 DEF Names, Ats
    <3> QED  BY <1>2, <3>1
  <2>2. told' \in SUBSET Books /\ files' \in [Books -> Contents]
    BY <1>1 DEF StartOver, TypesOK, Contents
  <2> QED  BY <1>1, <2>1, <2>2 DEF TypesOK
<1>5. ToldOK' /\ CoversOK'
  BY <1>1 DEF ToldOK, CoversOK, StartOver
<1>6. PlaceOK'
  <2>1. name = "livetest" => LiveBook \notin told'
    <3>1. ASSUME name = "livetest" PROVE LiveBook \in Range(entries)
      BY <3>1 DEF Range
    <3> QED  BY <3>1 DEF StartOver
  <2> QED  BY <1>2, <2>1 DEF PlaceOK, Running
<1>7. CountOK'
  <2>1. Undone' = {} /\ IsFiniteSet(cmd'.all)
    BY <1>2, <1>3, FS_EmptySet DEF Undone
  <2> QED  BY <1>2, <2>1, FS_EmptySet DEF CountOK
<1> QED  BY <1>4, <1>5, <1>6, <1>7 DEF Inv

(* Every way a command starts.                                             *)
LEMMA StartKeeps ==
  ASSUME Inv, Start \/ StartIngest \/ StartLivetest
  PROVE  Inv'
<1>1. CASE Start
  <2>1. PICK name \in {"process", "dry-run"}, entries \in Readings,
             wantID \in Books \cup {0}, ready \in BOOLEAN :
               StartOver(name, FilterByGutenbergID(entries, wantID), ready)
    BY <1>1 DEF Start
  <2>2. FilterByGutenbergID(entries, wantID) \in Seq(Books)
    BY ReadingsAreLists
  <2>3. ~Running
    BY <1>1 DEF Start
  <2> QED  BY <2>1, <2>2, <2>3, StartOverKeeps
<1>2. CASE StartIngest
  <2>1. PICK entries \in Readings, ready \in BOOLEAN : StartOver("ingest", entries, ready)
    BY <1>2 DEF StartIngest
  <2>2. entries \in Seq(Books) /\ ~Running
    BY <1>2, ReadingsAreLists DEF StartIngest
  <2> QED  BY <2>1, <2>2, StartOverKeeps
<1>3. CASE StartLivetest
  <2>1. ~Running /\ \E ready \in BOOLEAN : StartOver("livetest", <<LiveBook>>, ready)
    BY <1>3 DEF StartLivetest
  <2>2. <<LiveBook>> \in Seq(Books)
    OBVIOUS
  <2> QED  BY <2>1, <2>2, StartOverKeeps
<1> QED  BY <1>1, <1>2, <1>3

(* A command that has counted no failure finished all of its books.        *)
LEMMA ExitKeeps ==
  ASSUME Inv, Exit
  PROVE  Inv'
<1>1. TypesOK /\ CoversOK /\ PlaceOK /\ ToldOK /\ CountOK
  BY DEF Inv
<1>2. /\ cmd.at = "entry" /\ cmd.todo = <<>> /\ cmd' = [cmd EXCEPT !.at = "ended"]
      /\ row' = row /\ files' = files
  BY DEF Exit
<1>3. /\ cmd' \in [name : Names, at : Ats, todo : Seq(Books), all : SUBSET Books, failed : Nat]
      /\ cmd'.name = cmd.name /\ cmd'.at = "ended" /\ cmd'.todo = cmd.todo
      /\ cmd'.all = cmd.all /\ cmd'.failed = cmd.failed
  BY <1>1, <1>2 DEF TypesOK, Ats
<1>4. ASSUME cmd.name = "process", cmd.failed = 0, NEW b \in cmd.all
      PROVE  row[b].chunks = "complete"
  <2>1. IsFiniteSet(Undone) /\ Cardinality(Undone) \in Nat
    BY <1>1, FS_Subset, FS_CardinalityType DEF CountOK, Undone
  <2>2. Undone = {}
    BY <1>1, <1>4, <2>1, FS_EmptySet DEF CountOK
  <2>3. b \notin Range(cmd.todo)
    BY <1>2, EmptyRange
  <2> QED  BY <1>4, <2>2, <2>3 DEF Undone, Unfinished
<1>5. told' \in SUBSET Books /\ ToldOK' /\ CoversOK'
  <2>1. cmd.all \in SUBSET Books
    BY <1>1 DEF TypesOK
  <2> QED  BY <1>1, <1>2, <1>4, <2>1 DEF Exit, TypesOK, ToldOK, CoversOK
<1>6. TypesOK'
  BY <1>1, <1>2, <1>3, <1>5 DEF TypesOK
<1>7. PlaceOK'
  BY <1>1, <1>2, <1>3 DEF PlaceOK, Running
<1>8. CountOK'
  BY <1>1, <1>2, <1>3, SameCount DEF Unfinished
<1> QED  BY <1>5, <1>6, <1>7, <1>8 DEF Inv

(* The command is killed: nobody reads what it would have reported.        *)
LEMMA KillKeeps ==
  ASSUME Inv, Kill
  PROVE  Inv'
<1>1. TypesOK /\ CoversOK /\ PlaceOK /\ ToldOK /\ CountOK
  BY DEF Inv
<1>2. /\ Running /\ Partly /\ cmd' = [cmd EXCEPT !.at = "ended", !.name = "killed"]
      /\ files' = files /\ told' = told
  BY DEF Kill
<1>3. /\ cmd' \in [name : Names, at : Ats, todo : Seq(Books), all : SUBSET Books, failed : Nat]
      /\ cmd'.name = "killed" /\ cmd'.at = "ended"
      /\ cmd'.all = cmd.all /\ cmd'.failed = cmd.failed
  BY <1>1, <1>2 DEF TypesOK, Ats, Names
<1>4. row' \in [Books -> Rows] /\ CoversOK' /\ ToldOK'
  <2>1. CASE UNCHANGED row
    BY <1>1, <1>2, <2>1 DEF TypesOK, CoversOK, ToldOK
  <2>2. CASE cmd.todo # <<>> /\ RowStep(Entry)
    <3>1. Entry \in Books
      BY <2>2, EntryIsBook
    <3> QED  BY <1>1, <1>2, <2>2, <3>1, RowStepKeeps DEF RowStep
  <2> QED  BY <1>2, <2>1, <2>2, PartlySteps
<1>5. TypesOK'
  BY <1>1, <1>2, <1>3, <1>4 DEF TypesOK
<1>6. PlaceOK'
  BY <1>3 DEF PlaceOK, Running
<1>7. CountOK'
  <2>1. Undone' = {}
    BY <1>3 DEF Undone, Unfinished
  <2>2. cmd'.failed \in Nat
    BY <1>3
  <2> QED  BY <1>1, <1>3, <2>1, <2>2, FS_EmptySet DEF CountOK
<1> QED  BY <1>4, <1>5, <1>6, <1>7 DEF Inv

(* The operator publishes what has been told of, which is complete.        *)
LEMMA PublishKeeps ==
  ASSUME Inv, Publish
  PROVE  /\ Inv'
         /\ \A b \in Books : row'[b].image = row[b].image
<1>1. TypesOK /\ CoversOK /\ PlaceOK /\ ToldOK /\ CountOK
  BY DEF Inv
<1>2. PICK b \in told : row' = [row EXCEPT ![b].status = "published"]
  BY DEF Publish
<1>3. b \in Books /\ row[b].chunks = "complete" /\ row[b] \in Rows
  BY <1>1, <1>2 DEF TypesOK, ToldOK
<1>4. /\ \A x \in Books \ {b} : row'[x] = row[x]
      /\ row'[b] = [row[b] EXCEPT !.status = "published"]
  BY <1>1, <1>2, <1>3 DEF TypesOK
<1>5. /\ row'[b] \in Rows /\ row'[b].chunks = row[b].chunks
      /\ row'[b].image = row[b].image /\ row'[b].contentType = row[b].contentType
  BY <1>3, <1>4 DEF Rows
<1>6. ~Running /\ files' = files /\ cmd' = cmd /\ told' = told
  BY DEF Publish
<1>7. TypesOK'
  BY <1>1, <1>2, <1>3, <1>5, <1>6 DEF TypesOK
<1>8. CoversOK' /\ ToldOK'
  BY <1>1, <1>3, <1>4, <1>5, <1>6 DEF CoversOK, ToldOK
<1>9. PlaceOK'
  BY <1>1, <1>6 DEF PlaceOK, Running
<1>10. CountOK'
  <2>1. \A x \in Books : row'[x].chunks = row[x].chunks
    BY <1>4, <1>5
  <2> QED  BY <1>1, <1>6, <2>1, SameCount DEF Unfinished
<1> QED  BY <1>4, <1>5, <1>7, <1>8, <1>9, <1>10 DEF Inv

(* The steps at a book, which are all of RowStep's kind.                   *)
Work ==
  \/ ProcessBook \/ BookDone \/ DryRunBook
  \/ IngestText \/ IngestSentences \/ IngestFails
  \/ LivetestSaves \/ LivetestChunks \/ BookFails

(* They work on the book in hand.                                          *)
LEMMA WorkIsAtBook ==
  ASSUME Inv, Work
  PROVE  Running /\ cmd.todo # <<>> /\ UNCHANGED told
<1>1. PlaceOK
  BY DEF Inv
<1>2. Running /\ cmd.todo # <<>>
  BY <1>1 DEF Work, ProcessBook, BookDone, DryRunBook, IngestText, IngestSentences,
     IngestFails, LivetestSaves, LivetestChunks, BookFails, AtEntry, PlaceOK, Running
<1>3. UNCHANGED told
  BY DEF Work, ProcessBook, BookDone, DryRunBook, IngestText, IngestSentences,
     IngestFails, LivetestSaves, LivetestChunks, BookFails
<1> QED  BY <1>2, <1>3

LEMMA WorkKeeps ==
  ASSUME Inv, Work, NEW e \in Books, e = Entry
  PROVE  Inv' /\ RowStep(e)
<1>1. TypesOK /\ CoversOK /\ PlaceOK /\ ToldOK /\ CountOK
  BY DEF Inv
<1>2. /\ Running /\ cmd.todo # <<>> /\ UNCHANGED told
      /\ cmd.name = "livetest" => e = LiveBook
      /\ files \in [Books -> Contents]
  BY <1>1, WorkIsAtBook, EntryIsBook DEF TypesOK
<1>3. ASSUME NEW c \in Contents, WriteFile(e, c)
      PROVE  files' \in [Books -> Contents] /\ (\A b \in Books \ {e} : files'[b] = files[b])
             /\ files'[e] = c
  BY <1>2, <1>3 DEF WriteFile
<1>4. CASE ProcessBook
  <2>1. cmd.name = "process" /\ cmd' = [cmd EXCEPT !.at = "content"] /\ UNCHANGED files
    BY <1>4 DEF ProcessBook, AtEntry
  <2>2. RowStep(e) /\ row'[e].status = "processing"
    BY <1>1, <1>4, UpsertBookSteps DEF ProcessBook
  <2> QED  BY <1>2, <2>1, <2>2, StayKeeps
<1>5. CASE BookDone
  <2>1. /\ cmd.name = "process" /\ row[e].status = "processing"
        /\ row' = [row EXCEPT ![e].chunks = "complete"]
        /\ Continue(FALSE) /\ UNCHANGED files
    BY <1>1, <1>5 DEF BookDone, PlaceOK
  <2>2. RowStep(e) /\ row'[e].chunks = "complete"
    BY <1>1, <2>1, ChunksStep DEF Extents
  <2>3. cmd'.name = "process"
    BY <1>1, <2>1 DEF Continue, TypesOK
  <2>4. ~Unfinished(e)'
    BY <2>2, <2>3 DEF Unfinished
  <2> QED  BY <1>2, <2>1, <2>2, <2>4, ContinueKeeps
<1>6. CASE DryRunBook
  <2>1. PICK fails \in BOOLEAN : Continue(fails)
    BY <1>6 DEF DryRunBook
  <2>2. UNCHANGED <<row, files>> /\ cmd'.name = "dry-run"
    BY <1>1, <1>6, <2>1 DEF DryRunBook, AtEntry, Continue, TypesOK
  <2>3. RowStep(e)
    BY <1>1, <2>2, NoRowStep
  <2>4. ~Unfinished(e)'
    BY <2>2 DEF Unfinished
  <2> QED  BY <1>2, <2>1, <2>2, <2>3, <2>4, ContinueKeeps
<1>7. CASE IngestText
  <2>1. /\ cmd.name = "ingest" /\ cmd' = [cmd EXCEPT !.at = "sentences"]
        /\ WriteFile(e, "text") /\ UNCHANGED row
    BY <1>7 DEF IngestText, AtEntry
  <2>2. RowStep(e)
    BY <1>1, <2>1, NoRowStep
  <2> QED  BY <1>2, <1>3, <2>1, <2>2, StayKeeps DEF Contents
<1>8. CASE IngestSentences
  <2>1. /\ cmd.name = "ingest" /\ Continue(FALSE)
        /\ WriteFile(e, "text and sentences") /\ UNCHANGED row
    BY <1>1, <1>8 DEF IngestSentences, PlaceOK
  <2>2. RowStep(e)
    BY <1>1, <2>1, NoRowStep
  <2>3. cmd'.name = "ingest" /\ files'[e] = "text and sentences"
    BY <1>1, <1>3, <2>1 DEF Continue, TypesOK, Contents
  <2>4. ~Unfinished(e)'
    BY <2>3 DEF Unfinished
  <2> QED  BY <1>2, <1>3, <2>1, <2>2, <2>4, ContinueKeeps DEF Contents
<1>9. CASE IngestFails
  <2>1. Continue(TRUE) /\ UNCHANGED row /\ (UNCHANGED files \/ WriteFile(e, "torn"))
    BY <1>9 DEF IngestFails
  <2>2. RowStep(e)
    BY <1>1, <2>1, NoRowStep
  <2>3. files' \in [Books -> Contents] /\ \A b \in Books \ {e} : files'[b] = files[b]
    BY <1>2, <1>3, <2>1 DEF Contents
  <2> QED  BY <1>2, <2>1, <2>2, <2>3, ContinueKeeps
<1>10. CASE LivetestSaves
  <2>1. /\ cmd.name = "livetest" /\ cmd' = [cmd EXCEPT !.at = "chunks"]
        /\ UpsertBook(e, None) /\ UNCHANGED files
    BY <1>2, <1>10 DEF LivetestSaves, AtEntry
  <2>2. RowStep(e) /\ row'[e].status = "processing"
    BY <1>1, <2>1, UpsertBookSteps DEF FetchedImages
  <2> QED  BY <1>2, <2>1, <2>2, StayKeeps
<1>11. CASE LivetestChunks
  <2>1. /\ cmd.name = "livetest" /\ e = LiveBook /\ row[e].status = "processing"
        /\ e \notin told /\ SaveLivetest /\ Continue(FALSE) /\ UNCHANGED files
    BY <1>1, <1>2, <1>11 DEF LivetestChunks, PlaceOK, Running
  <2>2. PICK s \in {"part", "complete"} : row' = [row EXCEPT ![e].chunks = s]
    BY <2>1 DEF SaveLivetest
  <2>3. RowStep(e) /\ row'[e].chunks = s
    BY <1>1, <2>1, <2>2, ChunksStep DEF Extents
  <2>4. cmd'.name = "livetest"
    BY <1>1, <2>1 DEF Continue, TypesOK
  <2>5. ~Unfinished(e)'
    BY <2>3, <2>4 DEF Unfinished
  <2> QED  BY <1>2, <2>1, <2>3, <2>5, ContinueKeeps
<1>12. CASE BookFails
  <2>1. Continue(TRUE) /\ Partly /\ UNCHANGED files
    BY <1>12 DEF BookFails
  <2>2. RowStep(e)
    BY <1>1, <1>2, <2>1, NoRowStep, PartlySteps
  <2> QED  BY <1>2, <2>1, <2>2, ContinueKeeps
<1> QED
  BY <1>4, <1>5, <1>6, <1>7, <1>8, <1>9, <1>10, <1>11, <1>12 DEF Work

-----------------------------------------------------------------------------
(* The theorems.                                                           *)

LEMMA InvInit == Init => Inv
<1> SUFFICES ASSUME Init PROVE Inv
  OBVIOUS
<1>1. NoRow \in Rows
  BY DEF NoRow, Rows, FetchedImages, Extents
<1>2. TypesOK
  <2>1. cmd \in [name : Names, at : Ats, todo : Seq(Books), all : SUBSET Books, failed : Nat]
    BY DEF Init, Names, Ats
  <2> QED  BY <1>1, <2>1 DEF Init, TypesOK, Contents
<1>3. CoversOK /\ ToldOK
  BY DEF Init, CoversOK, ToldOK, NoRow
<1>4. PlaceOK
  BY DEF Init, PlaceOK, Running
<1>5. CountOK
  <2>1. Undone = {} /\ cmd.all = {} /\ cmd.failed = 0
    BY DEF Init, Undone
  <2> QED  BY <2>1, FS_EmptySet DEF CountOK
<1> QED  BY <1>2, <1>3, <1>4, <1>5 DEF Inv

(* What one step does to the covers.                                       *)
CoversStay ==
  \A b \in Books :
    /\ row[b].image # None => row'[b].image # None
    /\ row'[b].contentType = row'[b].image

LEMMA InvNext ==
  ASSUME Inv, [Next]_vars
  PROVE  Inv' /\ [CoversStay]_row
<1>1. CASE Start \/ StartIngest \/ StartLivetest
  <2>1. UNCHANGED row
    BY <1>1 DEF Start, StartIngest, StartLivetest, StartOver
  <2> QED  BY <1>1, <2>1, StartKeeps
<1>2. CASE Exit
  BY <1>2, ExitKeeps DEF Exit
<1>3. CASE Work
  <2>1. cmd.todo # <<>> /\ Entry \in Books
    BY <1>3, WorkIsAtBook, EntryIsBook
  <2>2. Inv' /\ RowStep(Entry)
    BY <1>3, <2>1, WorkKeeps
  <2>3. CoversStay
    BY <2>2 DEF RowStep, CoversStay, Inv, CoversOK
  <2> QED  BY <2>2, <2>3
<1>4. CASE Kill
  <2>1. Inv'
    BY <1>4, KillKeeps
  <2>2. UNCHANGED row \/ (cmd.todo # <<>> /\ RowStep(Entry))
    BY <1>4, PartlySteps DEF Kill
  <2>3. ASSUME cmd.todo # <<>>, RowStep(Entry) PROVE CoversStay
    BY <2>1, <2>3, EntryIsBook DEF RowStep, CoversStay, Inv, CoversOK
  <2> QED  BY <2>1, <2>2, <2>3
<1>5. CASE Publish
  BY <1>5, PublishKeeps DEF CoversStay, Inv, CoversOK
<1>6. CASE UNCHANGED vars
  BY <1>6 DEF vars, Inv, TypesOK, CoversOK, PlaceOK, ToldOK, CountOK, Undone, Unfinished,
     Entry, Running
<1> QED
  BY <1>1, <1>2, <1>3, <1>4, <1>5, <1>6 DEF Next, Work

(* However commands fail, are killed or follow one another: rows, lists    *)
(* and reports are as above.                                               *)
THEOREM CommandsInvariant == Spec => []Inv
<1>1. Inv /\ [Next]_vars => Inv'
  BY InvNext
<1> QED  BY <1>1, InvInit, PTL DEF Spec

(* Readers are shown complete books only, for every shelf and catalog.     *)
THEOREM OnlyCompleteIsListed == Spec => []ListedIsComplete
<1>1. Inv => ListedIsComplete
  BY DEF Inv, ToldOK, ListedIsComplete
<1> QED  BY <1>1, CommandsInvariant, PTL

(* A command reports at least as many failures as there are books it left  *)
(* unfinished.                                                             *)
THEOREM ReportsAreTrue == Spec => []ReportIsTrue
<1>1. Inv => ReportIsTrue
  <2> SUFFICES ASSUME Inv, ~Running
               PROVE  Cardinality({b \in cmd.all : Unfinished(b)}) <= cmd.failed
    BY DEF ReportIsTrue
  <2>1. CASE cmd.name = "killed"
    <3>1. {b \in cmd.all : Unfinished(b)} = {} /\ cmd.failed \in Nat
      BY <2>1 DEF Unfinished, Inv, TypesOK
    <3> QED  BY <3>1, FS_EmptySet
  <2>2. CASE cmd.name # "killed"
    <3>1. cmd.todo = <<>>
      BY <2>2 DEF Inv, PlaceOK
    <3>2. {b \in cmd.all : Unfinished(b)} = Undone
      BY <3>1, EmptyRange DEF Undone
    <3> QED  BY <3>2 DEF Inv, CountOK
  <2> QED  BY <2>1, <2>2
<1> QED  BY <1>1, CommandsInvariant, PTL

(* No command takes a cover away or parts it from its content type.        *)
THEOREM CoversAreKept == Spec => CoverIsKept
<1>1. Inv /\ [Next]_vars => [CoversStay]_row
  BY InvNext
<1> QED  BY <1>1, CommandsInvariant, PTL DEF Spec, CoverIsKept, CoversStay

(* Every catalog file is read as its header says: it has an error if and   *)
(* only if one of its blocks is no entry, and otherwise its blocks are its *)
(* entries, in order.                                                      *)
THEOREM CatalogsReadAsDocumented == \A file \in Files : ReadsAsDocumented(file)
  BY NothingIsMisread DEF Misread

(* A command works on a catalog only as that catalog's header says         *)
(* (CatalogIsReadRight).                                                   *)
THEOREM CatalogsAreReadRight == Spec => []CatalogIsReadRight
<1>1. CatalogIsReadRight
  BY NothingIsMisread DEF CatalogIsReadRight
<1> QED  BY <1>1, PTL
=============================================================================
