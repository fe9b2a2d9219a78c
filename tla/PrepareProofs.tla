--------------------------- MODULE PrepareProofs ---------------------------
(***************************************************************************)
(* What TLAPS proves of a book on its way from its raw text to sentences.  *)
(*                                                                         *)
(* Of Segment, for every text in either language: the sentences are        *)
(* stretches of the text in its order that do not overlap, nothing but     *)
(* blanks lies outside of them, and they end where the comments of the two *)
(* functions say that a sentence ends.                                     *)
(*                                                                         *)
(* Of Prepare, for every catalog: no word is lost between the body of the  *)
(* raw text and the sentences, and its paragraphs are what they are cut    *)
(* from.  FlattenSeq is recursive, and what it computes is proved by an    *)
(* induction that is stated for a set of natural numbers instead of a      *)
(* predicate, from the least element of its complement.                    *)
(***************************************************************************)
EXTENDS Prepare, SequenceTheorems, WellFoundedInduction, TLAPS

-----------------------------------------------------------------------------
(* Numbers and sequences.                                                  *)

(* The library's theorem on the order of the naturals, for sets.           *)
LEMMA Least ==
  ASSUME NEW S \in SUBSET Nat, S # {}
  PROVE  \E n \in S : \A m \in S : n <= m
<1> PICK less : less = OpToRel(<, Nat)
  OBVIOUS
<1>1. IsWellFoundedOn(less, Nat)
  BY NatLessThanWellFounded
<1>2. PICK n \in S : \A m \in S : ~ (<<m, n>> \in less)
  BY <1>1, WFMin
<1>3. \A a, b \in Nat : b < a => <<b, a>> \in less
  BY DEF OpToRel
<1>4. \A a, b \in Nat : a <= b \/ b < a
  BY ONLY SMT
<1> QED  BY <1>2, <1>3, <1>4

(* A finite set of numbers, not empty, has a greatest.                     *)
LEMMA Greatest ==
  ASSUME NEW n \in Nat, NEW S \in SUBSET (0 .. n), S # {}
  PROVE  Max(S) \in S /\ \A x \in S : x <= Max(S)
<1> DEFINE B == {k \in Nat : \A x \in S : x <= k}
<1>1. n \in B
  OBVIOUS
<1>2. PICK k \in B : \A j \in B : k <= j
  <2>1. B \in SUBSET Nat /\ B # {}
    BY <1>1
  <2> HIDE DEF B
  <2> QED  BY <2>1, Least
<1>3. k \in Nat /\ \A x \in S : x <= k
  OBVIOUS
<1>4. k \in S
  <2> SUFFICES ASSUME k \notin S PROVE FALSE
    OBVIOUS
  <2>1. k # 0
    <3>1. PICK x : x \in S
      OBVIOUS
    <3>2. x \in 0 .. n /\ x <= k
      BY <1>3, <3>1
    <3>3. x # k
      BY <3>1
    <3> QED  BY <1>3, <3>2, <3>3
  <2>2. k - 1 \in Nat /\ ~(k <= k - 1)
    BY <1>3, <2>1
  <2>3. ASSUME NEW x \in S PROVE x <= k - 1
    <3>1. x \in 0 .. n /\ x <= k /\ x # k
      BY <1>3
    <3> QED  BY <1>3, <3>1
  <2>4. k - 1 \in B
    BY <2>2, <2>3
  <2> QED  BY <1>2, <2>2, <2>4
<1>5. \E x \in S : \A y \in S : x >= y
  <2>1. \A y \in S : k >= y
    BY <1>3
  <2> QED  BY <1>4, <2>1
<1>6. Max(S) \in S /\ \A y \in S : Max(S) >= y
  BY <1>5 DEF Max
<1>7. \A y \in S : Max(S) \in 0 .. n /\ y \in 0 .. n
  BY <1>6
<1> QED  BY <1>6, <1>7

(* Induction, for a set: every natural number is in it.                    *)
LEMMA Induction ==
  ASSUME NEW S \in SUBSET Nat, 0 \in S, \A n \in S : n + 1 \in S
  PROVE  \A n \in Nat : n \in S
<1> SUFFICES ASSUME Nat \ S # {}
             PROVE  FALSE
  OBVIOUS
<1>1. PICK n \in Nat \ S : \A m \in Nat \ S : n <= m
  BY Least
<1>2. n # 0 /\ n - 1 \in Nat /\ ~(n <= n - 1) /\ (n - 1) + 1 = n
  OBVIOUS
<1>3. n - 1 \in S
  BY <1>1, <1>2
<1> QED  BY <1>2, <1>3

-----------------------------------------------------------------------------
(* FlattenSeq.                                                             *)

(* f is what FlattenSeq computes on its way through s.                     *)
Flattens(f, s) ==
  f = [j \in 1 .. Len(s) |-> IF j = 1 THEN s[j] ELSE f[j - 1] \o s[j]]

(* s and r agree up to n.                                                  *)
Alike(s, r, n) == \A j \in 1 .. n : s[j] = r[j]

(* It depends on no more of s than it has passed.                          *)
LEMMA FlattenerIsUnique ==
  ASSUME NEW f, NEW g, NEW s, NEW r, Flattens(f, s), Flattens(g, r),
         NEW n \in Nat, n <= Len(s), n <= Len(r), Len(s) \in Nat, Len(r) \in Nat,
         Alike(s, r, n)
  PROVE  Alike(f, g, n)
<1> USE DEF Alike
<1> DEFINE S == {k \in Nat : k \in 1 .. n => f[k] = g[k]}
<1>1. /\ \A j \in 1 .. Len(s) : f[j] = IF j = 1 THEN s[j] ELSE f[j - 1] \o s[j]
      /\ \A j \in 1 .. Len(r) : g[j] = IF j = 1 THEN r[j] ELSE g[j - 1] \o r[j]
  BY DEF Flattens
<1>2. 0 \in S
  OBVIOUS
<1>3. ASSUME NEW k \in S PROVE k + 1 \in S
  <2> SUFFICES ASSUME k + 1 \in 1 .. n
               PROVE  f[k + 1] = g[k + 1]
    OBVIOUS
  <2>1. k + 1 \in 1 .. Len(s) /\ k + 1 \in 1 .. Len(r) /\ (k + 1) - 1 = k
    OBVIOUS
  <2>2. /\ f[k + 1] = IF k + 1 = 1 THEN s[k + 1] ELSE f[k] \o s[k + 1]
        /\ g[k + 1] = IF k + 1 = 1 THEN r[k + 1] ELSE g[k] \o r[k + 1]
    BY <1>1, <2>1
  <2>3. k + 1 # 1 => f[k] = g[k]
    OBVIOUS
  <2> QED  BY <2>2, <2>3
<1>4. \A k \in Nat : k \in S
  <2> HIDE DEF S
  <2>1. S \in SUBSET Nat
    BY DEF S
  <2> QED  BY <1>2, <1>3, <2>1, Induction
<1> QED  BY <1>4

(* There is such a function, and its values are sequences like those of s. *)
LEMMA FlattenerExists ==
  ASSUME NEW T, NEW s \in Seq(Seq(T)), Len(s) # 0
  PROVE  \E f \in [1 .. Len(s) -> Seq(T)] : Flattens(f, s)
<1> DEFINE Upto(f, n) == \A j \in 1 .. n : f[j] = IF j = 1 THEN s[j] ELSE f[j - 1] \o s[j]
           Some(n) == \E f \in [1 .. n -> Seq(T)] : Upto(f, n)
           S == {n \in Nat : n <= Len(s) => Some(n)}
<1>1. Len(s) \in Nat /\ \A j \in 1 .. Len(s) : s[j] \in Seq(T)
  OBVIOUS
<1>2. 0 \in S
  <2>1. PICK f : f = [j \in 1 .. 0 |-> <<>>]
    OBVIOUS
  <2>2. f \in [1 .. 0 -> Seq(T)] /\ Upto(f, 0)
    BY <2>1
  <2>3. Some(0)
    BY <2>2
  <2> QED  BY <2>3
<1>3. ASSUME NEW n \in S PROVE n + 1 \in S
  <2>0. n \in Nat /\ (n <= Len(s) => Some(n))
    OBVIOUS
  <2> SUFFICES ASSUME n + 1 <= Len(s)
               PROVE  Some(n + 1)
    <3> HIDE DEF Some
    <3> QED  BY <2>0
  <2>1. n \in Nat /\ n <= Len(s) /\ n + 1 \in 1 .. Len(s) /\ s[n + 1] \in Seq(T)
    BY <1>1, <2>0
  <2>2. PICK f \in [1 .. n -> Seq(T)] : Upto(f, n)
    BY <2>0, <2>1
  <2>3. PICK x : x = IF n = 0 THEN s[n + 1] ELSE f[n] \o s[n + 1]
    OBVIOUS
  <2>4. x \in Seq(T)
    <3>1. CASE n = 0
      BY <2>1, <2>3, <3>1
    <3>2. CASE n # 0
      <4>1. f[n] \in Seq(T)
        BY <2>1, <2>2, <3>2
      <4> QED  BY <2>1, <2>3, <3>2, <4>1, ConcatProperties
    <3> QED  BY <3>1, <3>2
  <2>5. PICK g : g = [j \in 1 .. (n + 1) |-> IF j = n + 1 THEN x ELSE f[j]]
    OBVIOUS
  <2>6. g \in [1 .. (n + 1) -> Seq(T)]
    <3>1. \A j \in 1 .. (n + 1) : j # n + 1 => f[j] \in Seq(T)
      BY <2>1, <2>2
    <3> QED  BY <2>4, <2>5, <3>1
  <2>7. ASSUME NEW j \in 1 .. (n + 1)
        PROVE  g[j] = IF j = 1 THEN s[j] ELSE g[j - 1] \o s[j]
    <3>1. CASE j = n + 1
      <4>1. g[j] = x
        BY <2>5, <3>1
      <4>2. j # 1 => g[j - 1] = f[n]
        <5> SUFFICES ASSUME j # 1 PROVE g[j - 1] = f[n]
          OBVIOUS
        <5>1. j - 1 \in 1 .. (n + 1) /\ j - 1 # n + 1 /\ j - 1 = n
          BY <2>1, <3>1
        <5> QED  BY <2>5, <5>1
      <4>3. j = 1 <=> n = 0
        BY <2>1, <3>1
      <4> QED  BY <2>3, <3>1, <4>1, <4>2, <4>3
    <3>2. CASE j # n + 1
      <4>1. j \in 1 .. n /\ g[j] = f[j]
        BY <2>1, <2>5, <3>2
      <4>2. j # 1 => g[j - 1] = f[j - 1]
        <5> SUFFICES ASSUME j # 1 PROVE g[j - 1] = f[j - 1]
          OBVIOUS
        <5>1. j - 1 \in 1 .. (n + 1) /\ j - 1 # n + 1
          BY <2>1, <4>1
        <5> QED  BY <2>5, <5>1
      <4>3. f[j] = IF j = 1 THEN s[j] ELSE f[j - 1] \o s[j]
        BY <2>2, <4>1
      <4> QED  BY <4>1, <4>2, <4>3
    <3> QED  BY <3>1, <3>2
  <2> QED  BY <2>6, <2>7
<1>4. \A n \in Nat : n \in S
  <2> HIDE DEF S
  <2>1. S \in SUBSET Nat
    BY DEF S
  <2> QED  BY <1>2, <1>3, <2>1, Induction
<1>5. PICK f \in [1 .. Len(s) -> Seq(T)] : Upto(f, Len(s))
  <2>1. Len(s) \in S
    <3> HIDE DEF S
    <3> QED  BY <1>1, <1>4
  <2>2. Some(Len(s))
    <3> HIDE DEF Some
    <3> QED  BY <1>1, <2>1
  <2> QED  BY <2>2
<1>6. f = [j \in 1 .. Len(s) |-> f[j]]
  OBVIOUS
<1>7. f = [j \in 1 .. Len(s) |-> IF j = 1 THEN s[j] ELSE f[j - 1] \o s[j]]
  BY <1>5, <1>6
<1> QED  BY <1>5, <1>7 DEF Flattens

(* What FlattenSeq returns is the last value of that function.             *)
LEMMA FlattenIs ==
  ASSUME NEW T, NEW s \in Seq(Seq(T)), Len(s) # 0, NEW f, Flattens(f, s)
  PROVE  FlattenSeq(s) = f[Len(s)] /\ f[Len(s)] \in Seq(T)
<1> DEFINE g == CHOOSE g : g = [j \in 1 .. Len(s) |-> IF j = 1 THEN s[j] ELSE g[j - 1] \o s[j]]
<1>1. FlattenSeq(s) = g[Len(s)]
  BY DEF FlattenSeq
<1>2. PICK h \in [1 .. Len(s) -> Seq(T)] : Flattens(h, s)
  BY FlattenerExists, Zenon
<1>3. Flattens(g, s)
  BY <1>2, Zenon DEF Flattens
<1>4. Len(s) \in Nat /\ Len(s) \in 1 .. Len(s) /\ Len(s) <= Len(s) /\ Alike(s, s, Len(s))
  BY DEF Alike
<1> HIDE DEF g
<1>5. Alike(g, f, Len(s)) /\ Alike(h, f, Len(s))
  BY <1>2, <1>3, <1>4, FlattenerIsUnique, Zenon
<1>6. g[Len(s)] = f[Len(s)] /\ h[Len(s)] = f[Len(s)]
  BY <1>4, <1>5 DEF Alike
<1> QED  BY <1>1, <1>2, <1>4, <1>6

(* FlattenSeq by the way a sequence of sequences is built.                 *)
LEMMA FlattenEmpty == FlattenSeq(<<>>) = <<>>
BY DEF FlattenSeq

LEMMA FlattenTyped ==
  ASSUME NEW T, NEW s \in Seq(Seq(T))
  PROVE  FlattenSeq(s) \in Seq(T)
<1>1. CASE Len(s) = 0
  BY <1>1, FlattenEmpty, EmptySeq
<1>2. CASE Len(s) # 0
  BY <1>2, FlattenerExists, FlattenIs
<1> QED  BY <1>1, <1>2

LEMMA FlattenAppend ==
  ASSUME NEW T, NEW s \in Seq(Seq(T)), NEW u \in Seq(T)
  PROVE  FlattenSeq(Append(s, u)) = FlattenSeq(s) \o u
<1> DEFINE r == Append(s, u)
<1>1. /\ r \in Seq(Seq(T)) /\ Len(s) \in Nat /\ Len(r) = Len(s) + 1 /\ r[Len(s) + 1] = u
      /\ \A j \in 1 .. Len(s) : r[j] = s[j]
  OBVIOUS
<1> HIDE DEF r
<1>2. PICK f : Flattens(f, r)
  BY <1>1, FlattenerExists
<1>3. FlattenSeq(r) = f[Len(s) + 1]
  BY <1>1, <1>2, FlattenIs
<1>4. f[Len(s) + 1] = IF Len(s) = 0 THEN u ELSE f[Len(s)] \o u
  <2>1. \A j \in 1 .. Len(r) : f[j] = IF j = 1 THEN r[j] ELSE f[j - 1] \o r[j]
    BY <1>2 DEF Flattens
  <2>2. Len(s) + 1 \in 1 .. Len(r) /\ (Len(s) + 1) - 1 = Len(s) /\ (Len(s) + 1 = 1 <=> Len(s) = 0)
    BY <1>1
  <2> QED  BY <1>1, <2>1, <2>2
<1>5. CASE Len(s) = 0
  <2>1. s = <<>> /\ <<>> \o u = u
    BY <1>5, ConcatEmptySeq
  <2> QED  BY <1>3, <1>4, <1>5, <2>1, FlattenEmpty DEF r
<1>6. CASE Len(s) # 0
  <2>1. PICK g : Flattens(g, s)
    BY <1>6, FlattenerExists
  <2>2. FlattenSeq(s) = g[Len(s)]
    BY <1>6, <2>1, FlattenIs
  <2>3. Len(s) \in 1 .. Len(s) /\ Len(s) <= Len(r) /\ Len(r) \in Nat
    BY <1>1, <1>6
  <2>4. \A j \in 1 .. Len(s) : g[j] = f[j]
    <3>1. PICK n \in Nat : n = Len(s)
      BY <1>1
    <3>2. n <= Len(s) /\ n <= Len(r) /\ Len(s) \in Nat /\ Len(r) \in Nat /\ Alike(s, r, n)
      BY <1>1, <2>3, <3>1 DEF Alike
    <3>3. Alike(g, f, n)
      BY <1>2, <2>1, <3>2, FlattenerIsUnique
    <3> QED  BY <3>1, <3>3 DEF Alike
  <2> QED  BY <1>3, <1>4, <1>6, <2>2, <2>3, <2>4 DEF r
<1> QED  BY <1>5, <1>6

(* Induction, for a set of sequences.                                      *)
LEMMA SeqInduction ==
  ASSUME NEW T, NEW S \in SUBSET Seq(T), <<>> \in S,
         \A s \in S : \A e \in T : Append(s, e) \in S
  PROVE  \A s \in Seq(T) : s \in S
<1> DEFINE K == {n \in Nat : \A s \in Seq(T) : Len(s) = n => s \in S}
<1>1. 0 \in K
  <2>1. \A s \in Seq(T) : Len(s) = 0 => s = <<>>
    BY EmptySeq
  <2> QED  BY <2>1
<1>2. ASSUME NEW n \in K PROVE n + 1 \in K
  <2> SUFFICES ASSUME NEW s \in Seq(T), Len(s) = n + 1
               PROVE  s \in S
    OBVIOUS
  <2>1. s # <<>>
    OBVIOUS
  <2>2. PICK r \in Seq(T), e \in T : s = Append(r, e)
    BY <2>1, SequenceEmptyOrAppend
  <2>3. Len(r) = n
    BY <2>2
  <2> QED  BY <2>2, <2>3
<1>3. \A n \in Nat : n \in K
  <2> HIDE DEF K
  <2>1. K \in SUBSET Nat
    BY DEF K
  <2> QED  BY <1>1, <1>2, <2>1, Induction
<1> QED  BY <1>3

(* Two sequences of sequences, one after the other.                        *)
LEMMA FlattenConcat ==
  ASSUME NEW T, NEW r \in Seq(Seq(T)), NEW s \in Seq(Seq(T))
  PROVE  FlattenSeq(r \o s) = FlattenSeq(r) \o FlattenSeq(s)
<1> DEFINE S == {t \in Seq(Seq(T)) : FlattenSeq(r \o t) = FlattenSeq(r) \o FlattenSeq(t)}
<1>1. FlattenSeq(r) \in Seq(T)
  BY FlattenTyped
<1>2. <<>> \in S
  <2>1. r \o <<>> = r /\ FlattenSeq(r) \o <<>> = FlattenSeq(r)
    BY <1>1, ConcatEmptySeq
  <2>2. <<>> \in Seq(Seq(T))
    BY EmptySeq
  <2> QED  BY <2>1, <2>2, FlattenEmpty
<1>3. ASSUME NEW t \in S, NEW u \in Seq(T) PROVE Append(t, u) \in S
  <2>1. t \in Seq(Seq(T)) /\ FlattenSeq(r \o t) = FlattenSeq(r) \o FlattenSeq(t)
    OBVIOUS
  <2>2. r \o t \in Seq(Seq(T)) /\ FlattenSeq(t) \in Seq(T)
    BY <2>1, ConcatProperties, FlattenTyped
  <2>3. Append(t, u) \in Seq(Seq(T)) /\ r \o Append(t, u) = Append(r \o t, u)
    <3>1. t \in Seq(Seq(T))
      BY <2>1
    <3> QED  BY <3>1
  <2>4. /\ FlattenSeq(Append(r \o t, u)) = FlattenSeq(r \o t) \o u
        /\ FlattenSeq(Append(t, u)) = FlattenSeq(t) \o u
    BY <2>1, <2>2, FlattenAppend
  <2>5. (FlattenSeq(r) \o FlattenSeq(t)) \o u = FlattenSeq(r) \o (FlattenSeq(t) \o u)
    BY <1>1, <2>2, ConcatAssociative, SMTT(30)
  <2> QED  BY <2>1, <2>3, <2>4, <2>5
<1>4. \A t \in Seq(Seq(T)) : t \in S
  <2>1. S \in SUBSET Seq(Seq(T))
    OBVIOUS
  <2> HIDE DEF S
  <2> QED  BY <1>2, <1>3, <2>1, SeqInduction
<1> QED  BY <1>4

(* Sequences short enough to be written down.                              *)
LEMMA Tuples ==
  ASSUME NEW T, NEW x \in T, NEW y \in T
  PROVE  <<>> \in Seq(T) /\ <<x>> \in Seq(T) /\ <<x, y>> \in Seq(T)
OBVIOUS

(* The middle of three sequences.                                          *)
LEMMA Middle ==
  ASSUME NEW T, NEW a \in Seq(T), NEW b \in Seq(T), NEW c \in Seq(T)
  PROVE  /\ SubSeq((a \o b) \o c, Len(a) + 1, Len(a) + Len(b)) = b
         /\ Len(a) + Len(b) <= Len((a \o b) \o c)
<1>1. PICK k \in Nat, l \in Nat, m \in Nat : k = Len(a) /\ l = Len(b) /\ m = Len(c)
  OBVIOUS
<1>2. /\ a \o b \in Seq(T) /\ Len(a \o b) = k + l
      /\ \A p \in 1 .. k + l : (a \o b)[p] = IF p <= k THEN a[p] ELSE b[p - k]
  BY <1>1, ConcatProperties
<1>3. PICK d : d = (a \o b) \o c
  OBVIOUS
<1>4. /\ d \in Seq(T) /\ Len(d) = k + l + m
      /\ \A p \in 1 .. k + l + m : d[p] = IF p <= k + l THEN (a \o b)[p] ELSE c[p - (k + l)]
  BY <1>1, <1>2, <1>3, ConcatProperties
<1>5. PICK e : e = SubSeq(d, k + 1, k + l)
  OBVIOUS
<1>7. ASSUME NEW p \in 1 .. l PROVE d[k + p] = b[p]
  <2>1. PICK q : q = k + p
    OBVIOUS
  <2>2. q \in 1 .. k + l /\ q \in 1 .. k + l + m /\ q <= k + l /\ ~(q <= k) /\ q - k = p
    BY <2>1
  <2>3. d[q] = (a \o b)[q]
    BY <1>4, <2>2
  <2>4. (a \o b)[q] = b[q - k]
    BY <1>2, <2>2
  <2> QED  BY <2>1, <2>2, <2>3, <2>4
<1>8. /\ \A p \in (k + 1) .. (k + l) : d[p] \in T
  BY <1>4
<1>9. /\ e \in Seq(T) /\ Len(e) = l
      /\ \A p \in 1 .. l : e[p] = d[k + p]
  <2>1. /\ e \in Seq(T) /\ Len(e) = IF k + 1 <= k + l THEN (k + l) - (k + 1) + 1 ELSE 0
        /\ \A p \in 1 .. ((k + l) - (k + 1) + 1) : e[p] = d[(k + 1) + p - 1]
    BY <1>5, <1>8, SubSeqProperties
  <2>2. (k + l) - (k + 1) + 1 = l /\ (~(k + 1 <= k + l) => l = 0) /\ \A p \in 1 .. l : (k + 1) + p - 1 = k + p
    OBVIOUS
  <2> QED  BY <2>1, <2>2
<1>10. e = b
  BY <1>1, <1>7, <1>9, SeqEqual
<1>11. k + l <= k + l + m
  OBVIOUS
<1> QED  BY <1>1, <1>3, <1>4, <1>5, <1>10, <1>11

-----------------------------------------------------------------------------
(* Segmentation.                                                           *)

(* Segment, or SegmentJapanese, is called with a text.                     *)
Called(Runes) ==
  /\ lang \in Languages /\ text \in Seq(Runes)
  /\ start = 1 /\ i = 1 /\ sentences = <<>>
  /\ stage = "scan"

(* Up to here, the text has been handed out in sentences.                  *)
Reach == IF stage = "done" THEN N + 1 ELSE start

Inside(p, s) == sentences[s][1] <= p /\ p <= sentences[s][2]

(* Sentences begin and end with something that is no blank, before reach,  *)
(* and one begins after the other has ended.                               *)
Apart ==
  /\ \A s \in 1 .. Len(sentences) :
       /\ 1 <= sentences[s][1] /\ sentences[s][1] <= sentences[s][2]
       /\ sentences[s][2] < Reach
       /\ text[sentences[s][1]] \notin Space /\ text[sentences[s][2]] \notin Space
  /\ \A s, t \in 1 .. Len(sentences) : s < t => sentences[s][2] < sentences[t][1]

Covered ==
  \A p \in 1 .. (Reach - 1) :
    text[p] \notin Space => \E s \in 1 .. Len(sentences) : Inside(p, s)

PositionsOK ==
  /\ lang \in Languages /\ N \in Nat
  /\ start \in 1 .. (N + 1) /\ i \in start .. (N + 1)
  /\ sentences \in Seq((1 .. N) \X (1 .. N))
  /\ stage \in {"scan", "done"}

(* The inductive invariant of the loop.                                    *)
SegInv == PositionsOK /\ Apart /\ Covered

-----------------------------------------------------------------------------
(* emit hands out what lies between start and end, its blanks aside.       *)
LEMMA EmitKeeps ==
  ASSUME SegInv, stage = "scan", NEW end \in start .. (N + 1), Emit(end), UNCHANGED text,
         NEW r \in end .. (N + 1), Reach' = r,
         \A p \in end .. (r - 1) : text[p] \in Space
  PROVE  Apart' /\ Covered' /\ sentences' \in Seq((1 .. N) \X (1 .. N))
<1> USE DEF SegInv, PositionsOK
<1>1. Reach = start /\ N' = N /\ N \in Nat /\ start \in 1 .. (N + 1)
  BY DEF Reach, N
<1>2. CASE NotBlank(end) = {} /\ UNCHANGED sentences
  <2>1. \A p \in start .. (r - 1) : text[p] \in Space
    BY <1>1, <1>2 DEF NotBlank
  <2>2. Apart'
    BY <1>1, <1>2 DEF Apart
  <2>3. Covered'
    <3>1. \A p \in 1 .. (r - 1) : p \in 1 .. (start - 1) \/ p \in start .. (r - 1)
      BY <1>1
    <3> QED  BY <1>1, <1>2, <2>1, <3>1 DEF Covered, Inside
  <2> QED  BY <1>2, <2>2, <2>3
<1>3. ASSUME NEW first \in NotBlank(end), NEW last \in NotBlank(end),
             TrimSpace(end, first, last), sentences' = Append(sentences, <<first, last>>)
      PROVE  Apart' /\ Covered' /\ sentences' \in Seq((1 .. N) \X (1 .. N))
  <2> DEFINE L == Len(sentences)
  <2>1. /\ first \in start .. (end - 1) /\ last \in start .. (end - 1) /\ first <= last
        /\ text[first] \notin Space /\ text[last] \notin Space
    <3>1. end \in Int /\ first \in start .. (end - 1) /\ last \in start .. (end - 1)
          /\ text[first] \notin Space /\ text[last] \notin Space
      BY <1>1, <1>3 DEF NotBlank
    <3>2. last \in first .. last
      BY <1>3 DEF TrimSpace
    <3> QED  BY <1>1, <3>1, <3>2
  <2>2. <<first, last>> \in (1 .. N) \X (1 .. N)
    BY <1>1, <2>1
  <2>3. /\ sentences' \in Seq((1 .. N) \X (1 .. N)) /\ L \in Nat /\ Len(sentences') = L + 1
        /\ \A s \in 1 .. L : sentences'[s] = sentences[s]
        /\ sentences'[L + 1] = <<first, last>>
    BY <1>3, <2>2
  <2>4. Apart'
    <3>0. ASSUME NEW s \in 1 .. L
          PROVE  /\ sentences'[s] = sentences[s]
                 /\ 1 <= sentences[s][1] /\ sentences[s][1] <= sentences[s][2]
                 /\ sentences[s][2] < start /\ sentences[s][2] < r
                 /\ \A p \in first .. last : sentences[s][2] < p
                 /\ text[sentences[s][1]] \notin Space /\ text[sentences[s][2]] \notin Space
      <4>1. sentences[s] \in (1 .. N) \X (1 .. N)
        BY <2>3
      <4>2. /\ sentences'[s] = sentences[s]
            /\ 1 <= sentences[s][1] /\ sentences[s][1] <= sentences[s][2]
            /\ sentences[s][2] < start
            /\ text[sentences[s][1]] \notin Space /\ text[sentences[s][2]] \notin Space
        BY <1>1, <2>3, <4>1 DEF Apart
      <4>3. sentences[s][2] \in Int
        BY <4>1
      <4>4. \A x \in Int : x < start => x < r /\ \A p \in first .. last : x < p
        BY <1>1, <2>1
      <4> QED  BY <4>2, <4>3, <4>4
    <3>1. ASSUME NEW s \in 1 .. (L + 1)
          PROVE  /\ 1 <= sentences'[s][1] /\ sentences'[s][1] <= sentences'[s][2]
                 /\ sentences'[s][2] < r
                 /\ text[sentences'[s][1]] \notin Space /\ text[sentences'[s][2]] \notin Space
      <4>1. CASE s = L + 1
        <5>1. sentences'[s][1] = first /\ sentences'[s][2] = last
          BY <2>3, <4>1
        <5> QED  BY <1>1, <2>1, <5>1
      <4>2. CASE s # L + 1
        <5>1. s \in 1 .. L
          BY <2>3, <4>2
        <5> QED  BY <3>0, <5>1
      <4> QED  BY <4>1, <4>2
    <3>2. ASSUME NEW s \in 1 .. (L + 1), NEW t \in 1 .. (L + 1), s < t
          PROVE  sentences'[s][2] < sentences'[t][1]
      <4>1. s \in 1 .. L
        BY <2>3, <3>2
      <4>2. CASE t = L + 1
        <5>1. sentences'[t][1] = first /\ first \in first .. last
          BY <1>1, <2>1, <2>3, <4>2
        <5>2. sentences'[s] = sentences[s] /\ sentences[s][2] < first
          BY <3>0, <4>1, <5>1
        <5> QED  BY <5>1, <5>2
      <4>3. CASE t # L + 1
        <5>1. t \in 1 .. L
          BY <2>3, <4>3
        <5> QED  BY <3>0, <3>2, <4>1, <5>1 DEF Apart
      <4> QED  BY <4>2, <4>3
    <3> QED  BY <2>3, <3>1, <3>2 DEF Apart
  <2>5. ASSUME NEW p \in 1 .. (r - 1), text[p] \notin Space
        PROVE  \E s \in 1 .. (L + 1) : sentences'[s][1] <= p /\ p <= sentences'[s][2]
    <3>1. CASE p < start
      <4>1. PICK s \in 1 .. L : Inside(p, s)
        BY <1>1, <2>5, <3>1 DEF Covered
      <4>2. s \in 1 .. (L + 1) /\ sentences'[s] = sentences[s]
        BY <2>3, <4>1
      <4> QED  BY <4>1, <4>2 DEF Inside
    <3>2. CASE p >= start
      <4>1. p \in NotBlank(end)
        BY <1>1, <2>5, <3>2 DEF NotBlank
      <4>2. first <= p /\ p <= last /\ L + 1 \in 1 .. (L + 1)
        BY <1>3, <2>3, <4>1 DEF TrimSpace
      <4>3. sentences'[L + 1][1] = first /\ sentences'[L + 1][2] = last
        BY <2>3
      <4> QED  BY <4>2, <4>3
    <3>3. p \in Int /\ start \in Int
      BY <1>1
    <3> QED  BY <3>1, <3>2, <3>3
  <2>6. Covered'
    BY <2>3, <2>5 DEF Covered, Inside
  <2> QED  BY <2>3, <2>4, <2>6
<1> QED  BY <1>2, <1>3 DEF Emit

(* A cut at a place the scanner has come to, with blanks up to the next    *)
(* start.                                                                  *)
LEMMA CutKeeps ==
  ASSUME SegInv, stage = "scan", NEW end \in start .. (N + 1), NEW next \in end .. (N + 1),
         Cut(end, next), i' = next, UNCHANGED <<lang, text, stage>>,
         \A p \in end .. (next - 1) : text[p] \in Space
  PROVE  SegInv'
<1>1. Emit(end) /\ start' = next /\ N' = N /\ Reach' = next
  BY DEF Cut, N, Reach
<1>2. Apart' /\ Covered' /\ sentences' \in Seq((1 .. N) \X (1 .. N))
  BY <1>1, EmitKeeps
<1>3. PositionsOK'
  BY <1>1, <1>2 DEF SegInv, PositionsOK
<1> QED  BY <1>2, <1>3 DEF SegInv

(* The scanner goes on.                                                    *)
LEMMA NoCutKeeps ==
  ASSUME SegInv, stage = "scan", NoCut, i' \in i .. (N + 1), UNCHANGED <<lang, text, stage>>
  PROVE  SegInv'
<1>1. UNCHANGED <<sentences, start>> /\ N' = N /\ Reach' = Reach
  BY DEF NoCut, N, Reach
<1>2. PositionsOK'
  BY <1>1 DEF SegInv, PositionsOK
<1>3. Apart' /\ Covered'
  BY <1>1 DEF SegInv, Apart, Covered, Inside
<1> QED  BY <1>2, <1>3 DEF SegInv

LEMMA ScanKeeps ==
  ASSUME SegInv, Scan
  PROVE  SegInv'
<1>1. N \in Nat /\ start \in 1 .. (N + 1) /\ i \in start .. (N + 1)
  BY DEF SegInv, PositionsOK
<1>2. CASE Newlines
  <2>1. stage = "scan" /\ UNCHANGED <<lang, text, stage>>
    BY <1>2 DEF Newlines, At
  <2>2. PICK j \in i .. (N + 1) :
          /\ IsRun(i, j, {Newline}) /\ i' = j
          /\ IF j - i >= 2 THEN Cut(i, j) ELSE NoCut
    BY <1>2 DEF Newlines
  <2>3. \A p \in i .. (j - 1) : text[p] \in Space
    BY <2>2, ClassAssumption DEF IsRun
  <2>4. CASE Cut(i, j)
    BY <1>1, <2>1, <2>2, <2>3, <2>4, CutKeeps
  <2>5. CASE NoCut
    BY <2>1, <2>2, <2>5, NoCutKeeps
  <2> QED  BY <2>2, <2>4, <2>5
<1>3. CASE Pass
  <2>1. /\ stage = "scan" /\ NoCut /\ i' = i + 1 /\ i <= N
        /\ UNCHANGED <<lang, text, stage>>
    BY <1>3 DEF Pass
  <2>2. i' \in i .. (N + 1)
    BY <1>1, <2>1
  <2> QED  BY <2>1, <2>2, NoCutKeeps
<1>4. CASE EnglishStop
  <2>1. stage = "scan" /\ UNCHANGED <<lang, text, stage>>
    BY <1>4 DEF EnglishStop, At
  <2>2. PICK j, k \in i .. (N + 1) :
          IF ~Abbrev(j) /\ IsBoundary(k) THEN Cut(k, k) /\ i' = k ELSE NoCut /\ i' = j
    BY <1>4 DEF EnglishStop
  <2>3. CASE Cut(k, k) /\ i' = k
    BY <1>1, <2>1, <2>3, CutKeeps
  <2>4. CASE NoCut /\ i' = j
    BY <2>1, <2>4, NoCutKeeps
  <2> QED  BY <2>2, <2>3, <2>4
<1>5. CASE JapaneseStop
  <2>1. stage = "scan" /\ UNCHANGED <<lang, text, stage>>
    BY <1>5 DEF JapaneseStop, At
  <2>2. PICK j, k \in i .. (N + 1) :
          /\ IF IsBoundaryJapanese(k, k > j) THEN Cut(k, k) ELSE NoCut
          /\ i' = k
    BY <1>5 DEF JapaneseStop
  <2>3. CASE Cut(k, k)
    BY <1>1, <2>1, <2>2, <2>3, CutKeeps
  <2>4. CASE NoCut
    BY <2>1, <2>2, <2>4, NoCutKeeps
  <2> QED  BY <2>2, <2>3, <2>4
<1>6. CASE Return
  <2>1. /\ stage = "scan" /\ stage' = "done" /\ UNCHANGED <<lang, text, start, i>>
        /\ N' = N /\ Reach' = N + 1
    BY <1>6 DEF Return, N, Reach
  <2>2. Apart' /\ Covered' /\ sentences' \in Seq((1 .. N) \X (1 .. N))
    <3>1. CASE start <= N
      <4>1. Emit(N + 1)
        BY <1>6, <3>1 DEF Return
      <4> QED  BY <1>1, <2>1, <4>1, EmitKeeps
    <3>2. CASE ~(start <= N)
      <4>1. UNCHANGED sentences /\ start = N + 1 /\ Reach = N + 1
        BY <1>1, <1>6, <2>1, <3>2 DEF Return, Reach
      <4> QED  BY <2>1, <4>1 DEF SegInv, PositionsOK, Apart, Covered, Inside
    <3> QED  BY <3>1, <3>2
  <2>3. PositionsOK'
    BY <2>1, <2>2 DEF SegInv, PositionsOK
  <2> QED  BY <2>2, <2>3 DEF SegInv
<1> QED  BY <1>2, <1>3, <1>4, <1>5, <1>6 DEF Scan

-----------------------------------------------------------------------------
(* What the two functions promise: sentences in the order of the text,     *)
(* none empty or padded, and every rune that is no blank in one of them.   *)
SentencesAreTheText ==
  stage = "done" =>
    /\ \A s, t \in 1 .. Len(sentences) : s < t => sentences[s][2] < sentences[t][1]
    /\ \A s \in 1 .. Len(sentences) :
         /\ sentences[s][1] <= sentences[s][2]
         /\ text[sentences[s][1]] \notin Space /\ text[sentences[s][2]] \notin Space
    /\ \A p \in 1 .. N :
         text[p] \notin Space => \E s \in 1 .. Len(sentences) : Inside(p, s)

-----------------------------------------------------------------------------
(* Where the sentences end.                                                *)

(* What the scanner, at b, has seen of the end of a sentence between x and *)
(* y.                                                                      *)
EndsBefore(x, y, b) ==
  \/ \E p \in x .. (y - 2) : p + 1 < b /\ BlankLine(p)
  \/ \E t \in 1 .. x : t < b /\ StopAt(x, y, t)

(* Up to Reach the text is cut between two words exactly where a sentence  *)
(* ends, and it is cut at Reach because one ends there.                    *)
Decided ==
  \A x, y \in 1 .. N : Neighbours(x, y) =>
    /\ y < Reach => (Together(x, y) <=> ~SentenceEnd(x, y))
    /\ x < Reach /\ Reach <= y => SentenceEnd(x, y)

(* In the sentence being scanned none has ended up to here.                *)
NotYet ==
  stage = "scan" =>
    \A x, y \in 1 .. N : Neighbours(x, y) /\ start <= x => ~EndsBefore(x, y, i)

(* A sentence never begins after an abbreviation, so that isAbbreviation,  *)
(* which looks no further back than start, misses none.                    *)
StartOK == start > 1 => text[start - 1] \notin Abbreviation

EndInv == Decided /\ NotYet /\ StartOK

LEMMA Classes ==
  ASSUME lang \in Languages, NEW c
  PROVE  /\ c \in Terminal[lang] => /\ c \notin Space /\ c # Newline
                                    /\ c \notin Closer[lang] /\ c \notin Abbreviation
         /\ c \in Closer[lang] => c \notin Space /\ c # Newline /\ c \notin Abbreviation
         /\ c \in Space => c \notin Abbreviation
BY ClassAssumption

LEMMA EndsUnchanged ==
  ASSUME UNCHANGED <<lang, text>>, NEW x, NEW y, NEW b
  PROVE  /\ Neighbours(x, y)' <=> Neighbours(x, y)
         /\ SentenceEnd(x, y)' <=> SentenceEnd(x, y)
         /\ EndsBefore(x, y, b)' <=> EndsBefore(x, y, b)
<1>1. \A p : BlankLine(p)' <=> BlankLine(p)
  BY DEF BlankLine
<1>2. ASSUME NEW t PROVE StopAt(x, y, t)' <=> StopAt(x, y, t)
  BY DEF StopAt, Trails, AfterAbbreviation, Plain
<1> QED  BY <1>1, <1>2 DEF Neighbours, SentenceEnd, EndsBefore

(* What the scanner has seen is there.                                     *)
LEMMA EndsBeforeIsEnd ==
  ASSUME NEW x \in Nat, NEW y \in Nat, NEW b \in Int
  PROVE  /\ EndsBefore(x, y, b) => SentenceEnd(x, y)
         /\ \A a \in Int : a <= b /\ EndsBefore(x, y, a) => EndsBefore(x, y, b)
         /\ y <= b /\ SentenceEnd(x, y) /\ x < b => EndsBefore(x, y, b)
BY DEF EndsBefore, SentenceEnd

(* emit puts together what it hands out, and nothing else.                 *)
LEMMA EmitCovers ==
  ASSUME SegInv, stage = "scan", NEW end \in start .. (N + 1), Emit(end), UNCHANGED text,
         NEW r \in end .. (N + 1), \A p \in end .. (r - 1) : text[p] \in Space,
         NEW x \in 1 .. N, NEW y \in 1 .. N, x < y, text[x] \notin Space, text[y] \notin Space
  PROVE  /\ Together(x, y)' => Together(x, y) \/ start <= x
         /\ Together(x, y) => Together(x, y)' /\ y < start
         /\ start <= x /\ y < r => Together(x, y)'
<1> DEFINE L == Len(sentences)
<1>1. /\ N \in Nat /\ start \in 1 .. (N + 1) /\ L \in Nat
      /\ sentences \in Seq((1 .. N) \X (1 .. N))
  BY DEF SegInv, PositionsOK
<1>2. ASSUME Together(x, y) PROVE y < start
  <2>1. PICK s \in 1 .. L : y <= sentences[s][2]
    BY <1>2 DEF Together
  <2>2. sentences[s][2] < start
    BY <2>1 DEF SegInv, Apart, Reach
  <2>3. sentences[s][2] \in Int
    BY <1>1, <2>1
  <2> QED  BY <1>1, <2>1, <2>2, <2>3
<1>3. CASE NotBlank(end) = {} /\ UNCHANGED sentences
  <2>1. Together(x, y)' <=> Together(x, y)
    BY <1>3 DEF Together
  <2>2. ASSUME start <= x, y < r PROVE FALSE
    <3>1. x < end
      BY <1>1, <2>2
    <3> QED  BY <1>1, <1>3, <2>2, <3>1 DEF NotBlank
  <2> QED  BY <1>2, <2>1, <2>2
<1>4. ASSUME NEW first \in NotBlank(end), NEW last \in NotBlank(end),
             TrimSpace(end, first, last), sentences' = Append(sentences, <<first, last>>)
      PROVE  /\ Together(x, y)' => Together(x, y) \/ start <= x
             /\ Together(x, y) => Together(x, y)'
             /\ start <= x /\ y < r => Together(x, y)'
  <2>1. first \in start .. (end - 1) /\ last \in start .. (end - 1)
    BY <1>4 DEF NotBlank
  <2>2. <<first, last>> \in (1 .. N) \X (1 .. N)
    BY <1>1, <2>1
  <2>3. /\ Len(sentences') = L + 1
        /\ \A s \in 1 .. L : sentences'[s] = sentences[s]
        /\ sentences'[L + 1] = <<first, last>>
    BY <1>1, <1>4, <2>2
  <2>4. ASSUME Together(x, y)' PROVE Together(x, y) \/ start <= x
    <3>1. PICK s \in 1 .. (L + 1) : sentences'[s][1] <= x /\ y <= sentences'[s][2]
      BY <2>3, <2>4 DEF Together
    <3>2. CASE s = L + 1
      BY <1>1, <2>1, <2>3, <3>1, <3>2
    <3>3. CASE s # L + 1
      <4>1. s \in 1 .. L
        BY <1>1, <3>1, <3>3
      <4> QED  BY <2>3, <3>1, <4>1 DEF Together
    <3> QED  BY <3>2, <3>3
  <2>5. ASSUME Together(x, y) PROVE Together(x, y)'
    <3>1. PICK s \in 1 .. L : sentences[s][1] <= x /\ y <= sentences[s][2]
      BY <2>5 DEF Together
    <3>2. s \in 1 .. (L + 1) /\ sentences'[s] = sentences[s]
      BY <1>1, <2>3, <3>1
    <3> QED  BY <2>3, <3>1, <3>2 DEF Together
  <2>6. ASSUME start <= x, y < r PROVE Together(x, y)'
    <3>1. y < end
      BY <1>1, <2>6
    <3>2. x \in NotBlank(end) /\ y \in NotBlank(end)
      BY <1>1, <2>6, <3>1 DEF NotBlank
    <3>3. first <= x /\ y <= last
      BY <1>4, <3>2 DEF TrimSpace
    <3>4. L + 1 \in 1 .. (L + 1) /\ sentences'[L + 1][1] = first /\ sentences'[L + 1][2] = last
      BY <1>1, <2>3
    <3> QED  BY <2>3, <3>3, <3>4 DEF Together
  <2> QED  BY <2>4, <2>5, <2>6
<1> QED  BY <1>2, <1>3, <1>4 DEF Emit

(* Handing out the sentence up to end decides everything before r.         *)
LEMMA EmitDecides ==
  ASSUME SegInv, Decided, stage = "scan", NEW end \in start .. (N + 1), Emit(end),
         UNCHANGED <<lang, text>>, NEW r \in end .. (N + 1), Reach' = r,
         \A p \in end .. (r - 1) : text[p] \in Space,
         \A x, y \in 1 .. N : Neighbours(x, y) /\ start <= x =>
           /\ y < r => ~SentenceEnd(x, y)
           /\ x < r /\ r <= y => SentenceEnd(x, y)
  PROVE  Decided'
<1>1. N' = N /\ N \in Nat /\ start \in 1 .. (N + 1) /\ Reach = start
  BY DEF SegInv, PositionsOK, N, Reach
<1>2. ASSUME NEW x \in 1 .. N, NEW y \in 1 .. N, Neighbours(x, y)
      PROVE  /\ y < r => (Together(x, y)' <=> ~SentenceEnd(x, y))
             /\ x < r /\ r <= y => SentenceEnd(x, y)
  <2>0. x < y /\ text[x] \notin Space /\ text[y] \notin Space
    BY <1>2 DEF Neighbours
  <2>1. /\ Together(x, y)' => Together(x, y) \/ start <= x
        /\ Together(x, y) => Together(x, y)' /\ y < start
        /\ start <= x /\ y < r => Together(x, y)'
    BY <2>0, EmitCovers
  <2>2. /\ y < start => (Together(x, y) <=> ~SentenceEnd(x, y))
        /\ x < start /\ start <= y => SentenceEnd(x, y)
    BY <1>1, <1>2 DEF Decided
  <2>3. start <= x => /\ y < r => ~SentenceEnd(x, y)
                      /\ x < r /\ r <= y => SentenceEnd(x, y)
    BY <1>2
  <2>4. start <= r
    BY <1>1
  <2> QED  BY <1>1, <2>0, <2>1, <2>2, <2>3, <2>4
<1>3. \A x, y : /\ Neighbours(x, y)' <=> Neighbours(x, y)
                /\ SentenceEnd(x, y)' <=> SentenceEnd(x, y)
  BY EndsUnchanged
<1> QED  BY <1>1, <1>2, <1>3 DEF Decided

(* A cut where a sentence ends.                                            *)
LEMMA CutEnds ==
  ASSUME SegInv, EndInv, stage = "scan", NEW end \in start .. (N + 1),
         NEW next \in end .. (N + 1), Cut(end, next), i' = next,
         UNCHANGED <<lang, text, stage>>,
         \A p \in end .. (next - 1) : text[p] \in Space,
         next > 1 => text[next - 1] \notin Abbreviation,
         \A x, y \in 1 .. N : Neighbours(x, y) /\ start <= x =>
           /\ y < next => ~SentenceEnd(x, y)
           /\ x < next /\ next <= y => SentenceEnd(x, y),
         \A x, y \in 1 .. N : Neighbours(x, y) /\ next <= x => ~EndsBefore(x, y, next)
  PROVE  EndInv'
<1>1. /\ Emit(end) /\ start' = next /\ N' = N /\ Reach' = next /\ Decided
      /\ UNCHANGED <<lang, text>>
  BY DEF Cut, N, Reach, EndInv
<1>2. Decided'
  BY <1>1, EmitDecides
<1>3. \A x, y : /\ Neighbours(x, y)' <=> Neighbours(x, y)
                /\ EndsBefore(x, y, next)' <=> EndsBefore(x, y, next)
  BY EndsUnchanged
<1>4. NotYet'
  BY <1>1, <1>3 DEF NotYet
<1>5. StartOK'
  BY <1>1 DEF StartOK
<1> QED  BY <1>2, <1>4, <1>5 DEF EndInv

(* The scanner goes on, past no end of a sentence.                         *)
LEMMA NoCutEnds ==
  ASSUME SegInv, EndInv, stage = "scan", NoCut, NEW next, i' = next,
         UNCHANGED <<lang, text, stage>>,
         \A x, y \in 1 .. N : Neighbours(x, y) /\ start <= x => ~EndsBefore(x, y, next)
  PROVE  EndInv'
<1>1. UNCHANGED <<sentences, start, lang, text>> /\ N' = N /\ Reach' = Reach
  BY DEF NoCut, N, Reach
<1>2. \A x, y : /\ Neighbours(x, y)' <=> Neighbours(x, y)
                /\ SentenceEnd(x, y)' <=> SentenceEnd(x, y)
                /\ Together(x, y)' <=> Together(x, y)
                /\ EndsBefore(x, y, next)' <=> EndsBefore(x, y, next)
  <2>1. ASSUME NEW x, NEW y PROVE Together(x, y)' <=> Together(x, y)
    BY <1>1 DEF Together
  <2> QED  BY <1>1, <2>1, EndsUnchanged
<1>3. Decided'
  BY <1>1, <1>2 DEF EndInv, Decided
<1>4. NotYet'
  BY <1>1, <1>2 DEF NotYet
<1>5. StartOK'
  BY <1>1 DEF EndInv, StartOK
<1> QED  BY <1>3, <1>4, <1>5 DEF EndInv

-----------------------------------------------------------------------------
(* One turn of the loop, seen from two neighbouring words.                 *)

(* A run of newlines decides what lies on either side of it.               *)
LEMMA NewlinesDecide ==
  ASSUME SegInv, EndInv, stage = "scan", i <= N, text[i] = Newline,
         NEW j \in i .. (N + 1), IsRun(i, j, {Newline}),
         NEW x \in 1 .. N, NEW y \in 1 .. N, Neighbours(x, y)
  PROVE  /\ i < j /\ text[j - 1] = Newline /\ \A p \in i .. (j - 1) : text[p] \in Space
         /\ start <= x /\ y < j => ~SentenceEnd(x, y)
         /\ j - i >= 2 /\ x < j /\ j <= y => SentenceEnd(x, y)
         /\ j <= x => \A t \in 1 .. x : t < j => ~StopAt(x, y, t)
         /\ ~(j - i >= 2) /\ start <= x => ~EndsBefore(x, y, j)
<1>0. PICK T : T = Terminal[lang]
  OBVIOUS
<1>1. /\ N \in Nat /\ start \in 1 .. (N + 1) /\ i \in start .. (N + 1) /\ lang \in Languages
      /\ i <= N
  BY DEF SegInv, PositionsOK
<1>2. i < j /\ \A p \in i .. (j - 1) : text[p] = Newline
  BY <1>1 DEF IsRun
<1>3. /\ Newline \in Space /\ Newline \notin Terminal[lang] /\ Newline \notin Closer[lang]
  BY <1>1, ClassAssumption
<1>4. /\ text[j - 1] = Newline /\ \A p \in i .. (j - 1) : text[p] \in Space
  BY <1>1, <1>2, <1>3
<1>5. /\ x < y /\ text[x] \notin Space /\ text[y] \notin Space
      /\ \A p \in (x + 1) .. (y - 1) : text[p] \in Space
  BY DEF Neighbours
<1>6. (x < i \/ j <= x) /\ (y < i \/ j <= y)
  BY <1>1, <1>4, <1>5
<1>7. start <= x => ~EndsBefore(x, y, i)
  BY DEF EndInv, NotYet
<1>8. \A t \in i .. (j - 1) : ~StopAt(x, y, t)
  BY <1>2, <1>3 DEF StopAt, Trails
<1>9. ASSUME start <= x, y < j PROVE ~SentenceEnd(x, y)
  <2>1. y <= i /\ x < i
    BY <1>1, <1>5, <1>6, <1>9
  <2> QED  BY <1>1, <1>7, <1>9, <2>1, EndsBeforeIsEnd
<1>10. ASSUME j - i >= 2, x < j, j <= y PROVE SentenceEnd(x, y)
  <2>1. x < i
    BY <1>1, <1>6, <1>10
  <2>2. i - 1 \in x .. (y - 2) /\ i \in i .. (j - 1) /\ i + 1 \in i .. (j - 1)
    BY <1>1, <1>10, <2>1
  <2>3. (i - 1) + 1 = i /\ (i - 1) + 2 = i + 1
    BY <1>1
  <2> QED  BY <1>2, <2>2, <2>3 DEF SentenceEnd, BlankLine
<1>11. ASSUME j <= x, NEW t \in 1 .. x, t < j PROVE ~StopAt(x, y, t)
  <2>1. t = j - 1 \/ j - 1 \in (t + 1) .. x
    BY <1>1, <1>11
  <2> QED  BY <1>3, <1>4, <2>1 DEF StopAt, Trails
<1>12. ASSUME ~(j - i >= 2), start <= x, EndsBefore(x, y, j) PROVE FALSE
  <2>1. j = i + 1
    BY <1>1, <1>2, <1>12
  <2>2. ASSUME NEW p \in x .. (y - 2), p + 1 < j, BlankLine(p) PROVE FALSE
    <3>1. p + 1 < i \/ p + 1 = i
      BY <1>1, <2>1, <2>2
    <3>2. ~(p + 1 < i)
      BY <1>7, <1>12, <2>2 DEF EndsBefore
    <3>3. p + 2 = j /\ j <= N
      BY <1>1, <2>1, <2>2, <3>1, <3>2
    <3> QED  BY <2>2, <3>3 DEF BlankLine, IsRun
  <2>3. ASSUME NEW t \in 1 .. x, t < j, StopAt(x, y, t) PROVE FALSE
    <3>1. t < i \/ t \in i .. (j - 1)
      BY <1>1, <2>3
    <3>2. ~(t < i)
      BY <1>7, <1>12, <2>3 DEF EndsBefore
    <3> QED  BY <1>8, <2>3, <3>1, <3>2
  <2> QED  BY <1>12, <2>2, <2>3 DEF EndsBefore
<1> QED  BY <1>2, <1>4, <1>9, <1>10, <1>11, <1>12

(* A run of punctuation and its closers: no sentence ends inside of them,  *)
(* and one that ends behind them ends with the last mark of the run.       *)
LEMMA StopDecides ==
  ASSUME SegInv, EndInv, stage = "scan", i <= N, text[i] \in Terminal[lang],
         NEW j \in i .. (N + 1), NEW k \in i .. (N + 1), Stops(j, k),
         NEW x \in 1 .. N, NEW y \in 1 .. N, Neighbours(x, y)
  PROVE  /\ start <= x /\ y < k => ~SentenceEnd(x, y)
         /\ k <= x => \A t \in 1 .. x : t < k => ~StopAt(x, y, t)
         /\ start <= x /\ x < k /\ k <= y =>
              /\ x = k - 1 /\ Trails(x, j - 1)
              /\ \A t \in 1 .. x : StopAt(x, y, t) => t = j - 1
<1>1. /\ N \in Nat /\ start \in 1 .. (N + 1) /\ i \in start .. (N + 1) /\ lang \in Languages
      /\ i <= N
  BY DEF SegInv, PositionsOK
<1>2. /\ i < j /\ j <= k
      /\ \A p \in i .. (j - 1) : text[p] \in Terminal[lang]
      /\ \A p \in j .. (k - 1) : text[p] \in Closer[lang]
      /\ k <= N => text[k] \notin Closer[lang]
  BY <1>1 DEF Stops, IsRun
<1>3. \A p \in i .. (k - 1) : text[p] \in Terminal[lang] \cup Closer[lang]
  BY <1>1, <1>2
<1>4. \A p \in i .. (k - 1) : text[p] \notin Space /\ text[p] # Newline
  BY <1>1, <1>3, Classes
<1>5. \A p : text[p] \in Terminal[lang] => text[p] \notin Closer[lang]
  BY <1>1, Classes
<1>6. /\ x < y /\ text[x] \notin Space /\ text[y] \notin Space
      /\ \A p \in (x + 1) .. (y - 1) : text[p] \in Space
  BY DEF Neighbours
<1>7. start <= x => ~EndsBefore(x, y, i)
  BY DEF EndInv, NotYet
<1>8. ASSUME start <= x, y < k, SentenceEnd(x, y) PROVE FALSE
  <2>1. ASSUME NEW p \in x .. (y - 2), BlankLine(p) PROVE FALSE
    <3>1. ~(p + 1 < i)
      BY <1>7, <1>8, <2>1 DEF EndsBefore
    <3>2. p + 1 \in i .. (k - 1)
      BY <1>1, <1>8, <2>1, <3>1
    <3> QED  BY <1>4, <2>1, <3>2 DEF BlankLine
  <2>2. ASSUME NEW t \in 1 .. x, StopAt(x, y, t) PROVE FALSE
    <3>1. ~(t < i)
      BY <1>7, <1>8, <2>2 DEF EndsBefore
    <3>2. i <= x /\ i <= t
      BY <1>1, <2>2, <3>1
    <3>3. y = x + 1
      <4>1. x + 1 \in i .. (k - 1)
        BY <1>1, <1>6, <1>8, <3>2
      <4>2. x + 1 \notin (x + 1) .. (y - 1)
        BY <1>4, <1>6, <4>1
      <4> QED  BY <1>6, <4>2
    <3>4. y \in i .. (k - 1)
      BY <1>1, <1>8, <3>2, <3>3
    <3>5. text[y] \in Terminal[lang] \cup Closer[lang] /\ lang # "en"
      BY <1>3, <2>2, <3>3, <3>4 DEF StopAt
    <3>6. x # t /\ text[y] \in Opener
      BY <2>2, <3>3, <3>5 DEF StopAt, Plain
    <3>7. lang = "ja"
      BY <1>1, <3>5 DEF Languages
    <3>8. text[y] \in Terminal[lang]
      BY <3>5, <3>6, <3>7, ClassAssumption
    <3>9. text[x] \in Closer[lang]
      BY <2>2, <3>6 DEF StopAt, Trails
    <3>10. j <= x
      BY <1>1, <1>2, <1>5, <3>2, <3>9
    <3>11. y \in j .. (k - 1)
      BY <1>1, <1>2, <1>8, <3>3, <3>10
    <3> QED  BY <1>2, <1>5, <3>8, <3>11
  <2> QED  BY <1>8, <2>1, <2>2 DEF SentenceEnd
<1>9. ASSUME k <= x, NEW t \in 1 .. x, t < k PROVE ~StopAt(x, y, t)
  <2>1. k \in (t + 1) .. x /\ k <= N
    BY <1>1, <1>9
  <2> QED  BY <1>2, <2>1 DEF StopAt, Trails
<1>10. ASSUME start <= x, x < k, k <= y
       PROVE  /\ x = k - 1 /\ Trails(x, j - 1)
              /\ \A t \in 1 .. x : StopAt(x, y, t) => t = j - 1
  <2>1. k - 1 \in i .. (k - 1)
    BY <1>1, <1>2
  <2>2. k - 1 \notin (x + 1) .. (y - 1)
    BY <1>4, <1>6, <2>1
  <2>3. x = k - 1
    BY <1>1, <1>10, <2>2
  <2>4. Trails(x, j - 1)
    BY <1>1, <1>2, <2>3 DEF Trails
  <2>5. ASSUME NEW t \in 1 .. x, StopAt(x, y, t) PROVE t = j - 1
    <3>1. ~(t < i)
      BY <1>7, <1>10, <2>5 DEF EndsBefore
    <3>2. text[t] \in Terminal[lang] /\ \A c \in (t + 1) .. x : text[c] \in Closer[lang]
      BY <2>5 DEF StopAt, Trails
    <3>3. t \notin j .. (k - 1)
      BY <1>2, <1>5, <3>2
    <3>4. t < j
      BY <1>1, <2>3, <3>3
    <3>5. ASSUME t < j - 1 PROVE FALSE
      <4>1. t + 1 \in i .. (j - 1) /\ t + 1 \in (t + 1) .. x
        BY <1>1, <1>2, <2>3, <3>1, <3>5
      <4> QED  BY <1>2, <1>5, <3>2, <4>1
    <3> QED  BY <1>1, <3>4, <3>5
  <2> QED  BY <2>3, <2>4, <2>5
<1> QED  BY <1>8, <1>9, <1>10

(* The full stop before which no abbreviation stands is one that Abbrev    *)
(* lets pass, unless a digit follows it.                                   *)
LEMMA AbbrevIsAbbreviation ==
  ASSUME SegInv, EndInv, i <= N, text[i] \in Terminal[lang],
         NEW j \in i .. (N + 1), IsRun(i, j, Terminal[lang])
  PROVE  /\ AfterAbbreviation(j - 1) => Abbrev(j)
         /\ Abbrev(j) /\ ~AfterAbbreviation(j - 1) => j <= N /\ text[j] \in Digit
<1>1. /\ N \in Nat /\ start \in 1 .. (N + 1) /\ i \in start .. (N + 1) /\ lang \in Languages
      /\ i <= N
  BY DEF SegInv, PositionsOK
<1>2. i < j /\ \A p \in i .. (j - 1) : text[p] \in Terminal[lang]
  BY <1>1 DEF IsRun
<1>3. ASSUME AfterAbbreviation(j - 1) PROVE Abbrev(j)
  <2>1. text[j - 1] = Dot /\ j - 1 > 1 /\ text[(j - 1) - 1] \in Abbreviation
    BY <1>3 DEF AfterAbbreviation
  <2>2. (j - 1) - 1 \notin i .. (j - 1)
    BY <1>1, <1>2, <2>1, Classes
  <2>3. j = i + 1 /\ (j - 1) - 1 = i - 1 /\ j - 1 = i
    BY <1>1, <1>2, <2>2
  <2>4. i # start
    BY <2>1, <2>3 DEF EndInv, StartOK
  <2>5. IsAbbreviation(i)
    BY <1>1, <2>1, <2>3, <2>4 DEF IsAbbreviation
  <2> QED  BY <2>1, <2>3, <2>5 DEF Abbrev
<1>4. ASSUME Abbrev(j), ~AfterAbbreviation(j - 1) PROVE j <= N /\ text[j] \in Digit
  <2>1. j = i + 1 /\ j - 1 = i /\ text[i] = Dot
    BY <1>1, <1>4 DEF Abbrev
  <2>2. ~IsAbbreviation(i)
    BY <1>1, <1>4, <2>1 DEF IsAbbreviation, AfterAbbreviation
  <2> QED  BY <1>1, <1>4, <2>1, <2>2 DEF Abbrev, IsDecimal
<1> QED  BY <1>3, <1>4

(* English: behind the run a sentence ends exactly if Segment cuts there.  *)
LEMMA EnglishDecides ==
  ASSUME SegInv, EndInv, stage = "scan", i <= N, lang = "en", text[i] \in Terminal[lang],
         NEW j \in i .. (N + 1), NEW k \in i .. (N + 1), Stops(j, k),
         NEW x \in 1 .. N, NEW y \in 1 .. N, Neighbours(x, y),
         start <= x, x < k, k <= y
  PROVE  StopAt(x, y, j - 1) <=> ~Abbrev(j) /\ IsBoundary(k)
<1>1. N \in Nat /\ start \in 1 .. (N + 1) /\ i \in start .. (N + 1) /\ lang \in Languages
  BY DEF SegInv, PositionsOK
<1>2. x = k - 1 /\ Trails(x, j - 1)
  BY StopDecides
<1>3. /\ x < y /\ text[x] \notin Space /\ text[y] \notin Space
      /\ \A p \in (x + 1) .. (y - 1) : text[p] \in Space
  BY DEF Neighbours
<1>4. k <= N /\ x + 1 = k
  BY <1>1, <1>2
<1>5. /\ AfterAbbreviation(j - 1) => Abbrev(j)
      /\ Abbrev(j) /\ ~AfterAbbreviation(j - 1) => j <= N /\ text[j] \in Digit
  BY AbbrevIsAbbreviation DEF Stops
<1>6. ASSUME StopAt(x, y, j - 1) PROVE ~Abbrev(j) /\ IsBoundary(k)
  <2>1. y > k /\ text[y] \in Starter /\ ~AfterAbbreviation(j - 1)
    BY <1>4, <1>6 DEF StopAt
  <2>2. IsRun(k, y, Space) /\ text[k] \in Space
    BY <1>1, <1>3, <1>4, <2>1 DEF IsRun
  <2>3. IsBoundary(k)
    BY <1>1, <2>1, <2>2 DEF IsBoundary
  <2>4. ASSUME Abbrev(j) PROVE FALSE
    <3>1. j <= N /\ text[j] \in Digit
      BY <1>5, <2>1, <2>4
    <3>2. text[j] \notin Space /\ text[j] \notin Closer[lang]
      BY <3>1, ClassAssumption
    <3>3. j <= k /\ \A p \in j .. (k - 1) : text[p] \in Closer[lang]
      BY DEF Stops, IsRun
    <3>4. j = k
      BY <1>1, <3>2, <3>3
    <3> QED  BY <2>2, <3>2, <3>4
  <2> QED  BY <2>3, <2>4
<1>7. ASSUME ~Abbrev(j), IsBoundary(k) PROVE StopAt(x, y, j - 1)
  <2>1. PICK m \in k .. (N + 1) :
          text[k] \in Space /\ IsRun(k, m, Space) /\ (m > N \/ text[m] \in Starter)
    BY <1>1, <1>4, <1>7 DEF IsBoundary
  <2>2. y # k
    BY <1>3, <2>1
  <2>3. m <= y
    <3>1. y \notin k .. (m - 1)
      BY <1>3, <2>1 DEF IsRun
    <3> QED  BY <1>1, <3>1
  <2>4. m = y
    <3>1. m <= N /\ m \notin k .. (y - 1)
      BY <1>1, <1>3, <1>4, <2>1, <2>3 DEF IsRun
    <3> QED  BY <1>1, <2>3, <3>1
  <2>5. text[y] \in Starter /\ y > x + 1
    BY <1>1, <1>4, <2>1, <2>2, <2>4
  <2> QED  BY <1>2, <1>5, <1>7, <2>5 DEF StopAt
<1> QED  BY <1>6, <1>7

(* Japanese: likewise, by what follows the bracket, if there is one.       *)
LEMMA JapaneseDecides ==
  ASSUME SegInv, EndInv, stage = "scan", i <= N, lang = "ja", text[i] \in Terminal[lang],
         NEW j \in i .. (N + 1), NEW k \in i .. (N + 1), Stops(j, k),
         NEW x \in 1 .. N, NEW y \in 1 .. N, Neighbours(x, y),
         start <= x, x < k, k <= y
  PROVE  StopAt(x, y, j - 1) <=> IsBoundaryJapanese(k, k > j)
<1>1. N \in Nat /\ start \in 1 .. (N + 1) /\ i \in start .. (N + 1) /\ lang \in Languages
  BY DEF SegInv, PositionsOK
<1>2. x = k - 1 /\ Trails(x, j - 1) /\ lang # "en"
  BY StopDecides
<1>3. /\ x < y /\ text[x] \notin Space /\ text[y] \notin Space
      /\ \A p \in (x + 1) .. (y - 1) : text[p] \in Space
  BY DEF Neighbours
<1>4. k <= N /\ x + 1 = k
  BY <1>1, <1>2
<1>5. /\ j <= k
      /\ text[j] \in Terminal[lang] => j > N
      /\ text[k] \in Closer[lang] => k > N
  BY <1>1 DEF Stops, IsRun
<1>6. CASE j = k
  <2>1. x = j - 1 /\ ~(k > j)
    BY <1>1, <1>2, <1>6
  <2>2. text[k] \notin Terminal[lang] \cup Closer[lang]
    BY <1>1, <1>4, <1>5, <1>6
  <2>3. y > x + 1 \/ Plain(text[y])
    BY <1>1, <1>4, <2>2 DEF Plain
  <2>4. StopAt(x, y, j - 1)
    BY <1>2, <2>1, <2>3 DEF StopAt
  <2> QED  BY <2>1, <2>4 DEF IsBoundaryJapanese
<1>7. CASE j # k
  <2>1. k > j /\ x # j - 1
    BY <1>1, <1>2, <1>5, <1>7
  <2>2. IsBoundaryJapanese(k, k > j) <=> text[k] \in Opener
    BY <1>1, <1>4, <2>1 DEF IsBoundaryJapanese
  <2>3. text[k] \in Opener => y = k
    <3>1. text[k] \in Opener => text[k] \notin Space
      BY ClassAssumption
    <3>2. k # y => k \in (x + 1) .. (y - 1)
      BY <1>1, <1>4
    <3> QED  BY <1>3, <3>1, <3>2
  <2>4. StopAt(x, y, j - 1) <=> y = k /\ text[y] \in Opener
    BY <1>2, <1>4, <2>1 DEF StopAt
  <2> QED  BY <2>2, <2>3, <2>4
<1> QED  BY <1>6, <1>7

(* A cut behind a run of punctuation, at the end of a sentence.            *)
LEMMA StopCutEnds ==
  ASSUME SegInv, EndInv, stage = "scan", i <= N, text[i] \in Terminal[lang],
         NEW j \in i .. (N + 1), NEW k \in i .. (N + 1), Stops(j, k),
         Cut(k, k), i' = k, UNCHANGED <<lang, text, stage>>,
         \A x, y \in 1 .. N : Neighbours(x, y) /\ start <= x /\ x < k /\ k <= y =>
           StopAt(x, y, j - 1)
  PROVE  EndInv'
<1>1. /\ N \in Nat /\ start \in 1 .. (N + 1) /\ i \in start .. (N + 1) /\ lang \in Languages
      /\ i <= N
  BY DEF SegInv, PositionsOK
<1>2. i < j /\ j <= k /\ \A p \in i .. (k - 1) : text[p] \in Terminal[lang] \cup Closer[lang]
  BY <1>1 DEF Stops, IsRun
<1>3. k \in start .. (N + 1) /\ text[k - 1] \notin Abbreviation
  <2>1. k - 1 \in i .. (k - 1)
    BY <1>1, <1>2
  <2> QED  BY <1>1, <1>2, <2>1, Classes
<1>4. ASSUME NEW x \in 1 .. N, NEW y \in 1 .. N, Neighbours(x, y), start <= x
      PROVE  /\ y < k => ~SentenceEnd(x, y)
             /\ x < k /\ k <= y => SentenceEnd(x, y)
  <2>1. y < k => ~SentenceEnd(x, y)
    BY <1>4, StopDecides
  <2>2. ASSUME x < k, k <= y PROVE SentenceEnd(x, y)
    <3>1. x = k - 1 /\ StopAt(x, y, j - 1)
      BY <1>4, <2>2, StopDecides
    <3>2. j - 1 \in 1 .. x
      BY <1>1, <1>2, <3>1
    <3> QED  BY <3>1, <3>2 DEF SentenceEnd
  <2> QED  BY <2>1, <2>2
<1>5. ASSUME NEW x \in 1 .. N, NEW y \in 1 .. N, Neighbours(x, y), k <= x
      PROVE  ~EndsBefore(x, y, k)
  <2>1. \A t \in 1 .. x : t < k => ~StopAt(x, y, t)
    BY <1>5, StopDecides
  <2>2. \A p \in x .. (y - 2) : ~(p + 1 < k)
    BY <1>1, <1>5
  <2> QED  BY <2>1, <2>2 DEF EndsBefore
<1> QED  BY <1>1, <1>3, <1>4, <1>5, CutEnds

(* No cut behind a run of punctuation, where no sentence ends.             *)
LEMMA StopNoCutEnds ==
  ASSUME SegInv, EndInv, stage = "scan", i <= N, text[i] \in Terminal[lang],
         NEW j \in i .. (N + 1), NEW k \in i .. (N + 1), Stops(j, k),
         NoCut, NEW next \in i .. k, i' = next, UNCHANGED <<lang, text, stage>>,
         \A x, y \in 1 .. N : Neighbours(x, y) /\ start <= x /\ x < k /\ k <= y =>
           ~StopAt(x, y, j - 1)
  PROVE  EndInv'
<1>1. /\ N \in Nat /\ start \in 1 .. (N + 1) /\ i \in start .. (N + 1) /\ lang \in Languages
      /\ i <= N
  BY DEF SegInv, PositionsOK
<1>2. ASSUME NEW x \in 1 .. N, NEW y \in 1 .. N, Neighbours(x, y), start <= x,
             EndsBefore(x, y, next)
      PROVE  FALSE
  <2>1. EndsBefore(x, y, k) /\ SentenceEnd(x, y)
    <3>1. x \in Nat /\ y \in Nat /\ k \in Int /\ next \in Int /\ next <= k
      BY <1>1
    <3> QED  BY <1>2, <3>1, EndsBeforeIsEnd
  <2>2. CASE y < k
    BY <1>2, <2>1, <2>2, StopDecides
  <2>3. CASE k <= x
    <3>1. \A t \in 1 .. x : t < k => ~StopAt(x, y, t)
      BY <1>2, <2>3, StopDecides
    <3>2. \A p \in x .. (y - 2) : ~(p + 1 < k)
      BY <1>1, <2>3
    <3> QED  BY <2>1, <3>1, <3>2 DEF EndsBefore
  <2>4. CASE x < k /\ k <= y
    <3>1. x = k - 1 /\ \A t \in 1 .. x : StopAt(x, y, t) => t = j - 1
      BY <1>2, <2>4, StopDecides
    <3>2. ~StopAt(x, y, j - 1)
      BY <1>2, <2>4
    <3>3. \A t \in 1 .. x : ~StopAt(x, y, t)
      BY <3>1, <3>2
    <3>4. \A p \in x .. (y - 2) : ~(p + 1 < k)
      BY <1>1, <3>1
    <3> QED  BY <2>1, <3>3, <3>4 DEF EndsBefore
  <2> QED  BY <1>1, <2>2, <2>3, <2>4
<1> QED  BY <1>2, NoCutEnds

LEMMA ScanEnds ==
  ASSUME SegInv, EndInv, Scan
  PROVE  EndInv'
<1>1. /\ N \in Nat /\ start \in 1 .. (N + 1) /\ i \in start .. (N + 1) /\ lang \in Languages
  BY DEF SegInv, PositionsOK
<1>2. CASE Newlines
  <2>1. stage = "scan" /\ i <= N /\ text[i] = Newline /\ UNCHANGED <<lang, text, stage>>
    BY <1>2 DEF Newlines, At
  <2>2. PICK j \in i .. (N + 1) :
          /\ IsRun(i, j, {Newline}) /\ i' = j
          /\ IF j - i >= 2 THEN Cut(i, j) ELSE NoCut
    BY <1>2 DEF Newlines
  <2>3. CASE j - i >= 2
    <3>1. Cut(i, j) /\ i \in start .. (N + 1)
      BY <1>1, <2>2, <2>3
    <3>2. /\ \A p \in i .. (j - 1) : text[p] \in Space
          /\ text[j - 1] \notin Abbreviation
      <4>1. text[j - 1] = Newline /\ \A p \in i .. (j - 1) : text[p] = Newline
        <5>1. i < j /\ \A p \in i .. (j - 1) : text[p] \in {Newline}
          BY <1>1, <2>1, <2>2 DEF IsRun
        <5> QED  BY <1>1, <5>1
      <4> QED  BY <1>1, <4>1, ClassAssumption
    <3>3. ASSUME NEW x \in 1 .. N, NEW y \in 1 .. N, Neighbours(x, y), start <= x
          PROVE  /\ y < j => ~SentenceEnd(x, y)
                 /\ x < j /\ j <= y => SentenceEnd(x, y)
      BY <2>1, <2>2, <2>3, <3>3, NewlinesDecide
    <3>4. ASSUME NEW x \in 1 .. N, NEW y \in 1 .. N, Neighbours(x, y), j <= x
          PROVE  ~EndsBefore(x, y, j)
      <4>1. \A t \in 1 .. x : t < j => ~StopAt(x, y, t)
        BY <2>1, <2>2, <3>4, NewlinesDecide
      <4>2. \A p \in x .. (y - 2) : ~(p + 1 < j)
        BY <1>1, <3>4
      <4> QED  BY <4>1, <4>2 DEF EndsBefore
    <3> QED  BY <2>1, <2>2, <3>1, <3>2, <3>3, <3>4, CutEnds
  <2>4. CASE ~(j - i >= 2)
    <3>1. NoCut
      BY <2>2, <2>4
    <3>2. ASSUME NEW x \in 1 .. N, NEW y \in 1 .. N, Neighbours(x, y), start <= x
          PROVE  ~EndsBefore(x, y, j)
      BY <2>1, <2>2, <2>4, <3>2, NewlinesDecide
    <3> QED  BY <2>1, <2>2, <3>1, <3>2, NoCutEnds
  <2> QED  BY <2>3, <2>4
<1>3. CASE Pass
  <2>1. /\ stage = "scan" /\ NoCut /\ i' = i + 1 /\ i <= N
        /\ text[i] \notin Terminal[lang] /\ text[i] # Newline
        /\ UNCHANGED <<lang, text, stage>>
    BY <1>3 DEF Pass
  <2>2. ASSUME NEW x \in 1 .. N, NEW y \in 1 .. N, Neighbours(x, y), start <= x,
               EndsBefore(x, y, i + 1)
        PROVE  FALSE
    <3>1. ~EndsBefore(x, y, i)
      BY <2>1, <2>2 DEF EndInv, NotYet
    <3>2. ASSUME NEW p \in x .. (y - 2), p + 1 < i + 1, BlankLine(p) PROVE FALSE
      <4>1. p + 1 # i
        BY <2>1, <3>2 DEF BlankLine
      <4>2. p + 1 < i
        BY <1>1, <3>2, <4>1
      <4> QED  BY <3>1, <3>2, <4>2 DEF EndsBefore
    <3>3. ASSUME NEW t \in 1 .. x, t < i + 1, StopAt(x, y, t) PROVE FALSE
      <4>1. t # i
        BY <2>1, <3>3 DEF StopAt, Trails
      <4>2. t < i
        BY <1>1, <3>3, <4>1
      <4> QED  BY <3>1, <3>3, <4>2 DEF EndsBefore
    <3> QED  BY <2>2, <3>2, <3>3 DEF EndsBefore
  <2> QED  BY <2>1, <2>2, NoCutEnds
<1>4. CASE EnglishStop
  <2>1. /\ stage = "scan" /\ lang = "en" /\ i <= N /\ text[i] \in Terminal[lang]
        /\ UNCHANGED <<lang, text, stage>>
    BY <1>4 DEF EnglishStop, At
  <2>2. PICK j, k \in i .. (N + 1) :
          /\ Stops(j, k)
          /\ IF ~Abbrev(j) /\ IsBoundary(k) THEN Cut(k, k) /\ i' = k ELSE NoCut /\ i' = j
    BY <1>4 DEF EnglishStop
  <2>3. \A x, y \in 1 .. N : Neighbours(x, y) /\ start <= x /\ x < k /\ k <= y =>
          (StopAt(x, y, j - 1) <=> ~Abbrev(j) /\ IsBoundary(k))
    BY <2>1, <2>2, EnglishDecides
  <2>4. CASE ~Abbrev(j) /\ IsBoundary(k)
    BY <2>1, <2>2, <2>3, <2>4, StopCutEnds
  <2>5. CASE ~(~Abbrev(j) /\ IsBoundary(k))
    <3>1. NoCut /\ i' = j /\ j \in i .. k
      BY <1>1, <2>2, <2>5 DEF Stops, IsRun
    <3> QED  BY <2>1, <2>2, <2>3, <2>5, <3>1, StopNoCutEnds
  <2> QED  BY <2>4, <2>5
<1>5. CASE JapaneseStop
  <2>1. /\ stage = "scan" /\ lang = "ja" /\ i <= N /\ text[i] \in Terminal[lang]
        /\ UNCHANGED <<lang, text, stage>>
    BY <1>5 DEF JapaneseStop, At
  <2>2. PICK j, k \in i .. (N + 1) :
          /\ Stops(j, k) /\ i' = k
          /\ IF IsBoundaryJapanese(k, k > j) THEN Cut(k, k) ELSE NoCut
    BY <1>5 DEF JapaneseStop
  <2>3. \A x, y \in 1 .. N : Neighbours(x, y) /\ start <= x /\ x < k /\ k <= y =>
          (StopAt(x, y, j - 1) <=> IsBoundaryJapanese(k, k > j))
    BY <2>1, <2>2, JapaneseDecides
  <2>4. CASE IsBoundaryJapanese(k, k > j)
    BY <2>1, <2>2, <2>3, <2>4, StopCutEnds
  <2>5. CASE ~IsBoundaryJapanese(k, k > j)
    <3>1. NoCut /\ k \in i .. k
      BY <1>1, <2>2, <2>5
    <3> QED  BY <2>1, <2>2, <2>3, <2>5, <3>1, StopNoCutEnds
  <2> QED  BY <2>4, <2>5
<1>6. CASE Return
  <2>1. /\ stage = "scan" /\ stage' = "done" /\ UNCHANGED <<lang, text, start, i>>
        /\ N' = N /\ Reach' = N + 1 /\ Reach = start /\ i > N /\ Decided
    BY <1>6 DEF Return, N, Reach, EndInv
  <2>2. ASSUME NEW x \in 1 .. N, NEW y \in 1 .. N, Neighbours(x, y), start <= x
        PROVE  ~SentenceEnd(x, y)
    <3>1. ~EndsBefore(x, y, i)
      BY <2>1, <2>2 DEF EndInv, NotYet
    <3>2. x \in Nat /\ y \in Nat /\ i \in Int /\ y <= i /\ x < i
      BY <1>1, <2>1
    <3> QED  BY <3>1, <3>2, EndsBeforeIsEnd
  <2>3. Decided'
    <3>1. CASE start <= N
      <4>1. Emit(N + 1) /\ N + 1 \in start .. (N + 1) /\ N + 1 \in (N + 1) .. (N + 1)
        BY <1>1, <1>6, <3>1 DEF Return
      <4>2. \A p \in (N + 1) .. ((N + 1) - 1) : text[p] \in Space
        BY <1>1
      <4>3. \A x, y \in 1 .. N : Neighbours(x, y) /\ start <= x =>
              /\ y < N + 1 => ~SentenceEnd(x, y)
              /\ x < N + 1 /\ N + 1 <= y => SentenceEnd(x, y)
        BY <1>1, <2>2
      <4> QED  BY <2>1, <4>1, <4>2, <4>3, EmitDecides
    <3>2. CASE ~(start <= N)
      <4>1. UNCHANGED <<sentences, lang, text>> /\ Reach' = Reach
        BY <1>1, <1>6, <2>1, <3>2 DEF Return
      <4>2. \A x, y : /\ Neighbours(x, y)' <=> Neighbours(x, y)
                      /\ SentenceEnd(x, y)' <=> SentenceEnd(x, y)
        BY <4>1, EndsUnchanged
      <4>3. ASSUME NEW x, NEW y PROVE Together(x, y)' <=> Together(x, y)
        BY <4>1 DEF Together
      <4> QED  BY <2>1, <4>1, <4>2, <4>3 DEF Decided
    <3> QED  BY <3>1, <3>2
  <2>4. NotYet' /\ StartOK'
    BY <2>1 DEF NotYet, EndInv, StartOK
  <2> QED  BY <2>3, <2>4 DEF EndInv
<1> QED  BY <1>2, <1>3, <1>4, <1>5, <1>6 DEF Scan

-----------------------------------------------------------------------------
(* Every text.                                                             *)

(* The state in which either function is called.                           *)
Fresh ==
  /\ lang \in Languages /\ N \in Nat
  /\ start = 1 /\ i = 1 /\ sentences = <<>>

LEMMA FreshInv ==
  Fresh /\ stage = "scan" => SegInv /\ EndInv
<1> SUFFICES ASSUME Fresh, stage = "scan"
             PROVE  SegInv /\ EndInv
  OBVIOUS
<1>1. Reach = 1 /\ Len(sentences) = 0 /\ N \in Nat
  BY DEF Fresh, Reach
<1>2. PositionsOK
  BY <1>1 DEF Fresh, PositionsOK
<1>3. ASSUME NEW x \in 1 .. N, NEW y \in 1 .. N PROVE ~(x < Reach) /\ ~(y < Reach)
  BY <1>1
<1>4. ASSUME NEW x \in 1 .. N, NEW y \in 1 .. N PROVE ~EndsBefore(x, y, i)
  BY <1>1 DEF Fresh, EndsBefore
<1>5. EndInv
  BY <1>3, <1>4 DEF Fresh, EndInv, Decided, NotYet, StartOK
<1> QED  BY <1>1, <1>2, <1>5 DEF SegInv, Apart, Covered

LEMMA SegNext ==
  SegInv /\ EndInv /\ [Scan]_segVars => SegInv' /\ EndInv'
<1>1. ASSUME SegInv, EndInv, UNCHANGED segVars PROVE SegInv' /\ EndInv'
  <2>1. UNCHANGED <<lang, text, start, i, sentences, stage>> /\ N' = N /\ Reach' = Reach
    BY <1>1 DEF segVars, N, Reach
  <2>2. SegInv'
    BY <1>1, <2>1 DEF SegInv, PositionsOK, Apart, Covered, Inside
  <2>3. \A x, y : /\ Neighbours(x, y)' <=> Neighbours(x, y)
                  /\ SentenceEnd(x, y)' <=> SentenceEnd(x, y)
                  /\ EndsBefore(x, y, i)' <=> EndsBefore(x, y, i)
    <3>1. \A x, y, b : /\ Neighbours(x, y)' <=> Neighbours(x, y)
                       /\ SentenceEnd(x, y)' <=> SentenceEnd(x, y)
                       /\ EndsBefore(x, y, b)' <=> EndsBefore(x, y, b)
      BY <2>1, EndsUnchanged
    <3>2. PICK b : b = i
      OBVIOUS
    <3>3. \A x, y : (EndsBefore(x, y, b)' <=> EndsBefore(x, y, i)')
      BY <2>1, <3>2 DEF EndsBefore
    <3> QED  BY <3>1, <3>2, <3>3
  <2>4. ASSUME NEW x, NEW y PROVE Together(x, y)' <=> Together(x, y)
    BY <2>1 DEF Together
  <2>5. EndInv'
    BY <1>1, <2>1, <2>3, <2>4 DEF EndInv, Decided, NotYet, StartOK
  <2> QED  BY <2>2, <2>5
<1> QED  BY <1>1, ScanKeeps, ScanEnds

LEMMA SegInvSays ==
  SegInv /\ EndInv => SentencesAreTheText /\ SentencesEndRight
<1>1. ASSUME SegInv, stage = "done" PROVE N \in Nat /\ Reach = N + 1
  BY <1>1 DEF SegInv, PositionsOK, Reach
<1>2. ASSUME SegInv PROVE SentencesAreTheText
  <2> SUFFICES ASSUME stage = "done" PROVE SentencesAreTheText
    BY DEF SentencesAreTheText
  <2>1. \A p \in 1 .. N : p \in 1 .. (Reach - 1)
    BY <1>1, <1>2
  <2> QED  BY <1>2, <2>1 DEF SegInv, Apart, Covered, SentencesAreTheText
<1>3. ASSUME SegInv, EndInv PROVE SentencesEndRight
  <2> SUFFICES ASSUME stage = "done" PROVE SentencesEndRight
    BY DEF SentencesEndRight
  <2>1. \A y \in 1 .. N : y < Reach
    BY <1>1, <1>3
  <2> QED  BY <1>3, <2>1 DEF EndInv, Decided, SentencesEndRight
<1> QED  BY <1>2, <1>3

(* Segmentation loses, repeats and moves nothing of any text: what reaches *)
(* the chunks is the text, whatever the lookahead does.                    *)
THEOREM SegmentationKeepsTheText ==
  ASSUME NEW CONSTANT Runes
  PROVE  Called(Runes) /\ [][Scan]_segVars => []SentencesAreTheText
<1>1. Called(Runes) => Fresh /\ stage = "scan"
  BY DEF Called, Fresh, N
<1> QED  BY <1>1, FreshInv, SegNext, SegInvSays, PTL

(* And it cuts any text where a sentence ends, as the comments of Segment  *)
(* and SegmentJapanese define it, and nowhere else.                        *)
THEOREM SegmentationEndsRight ==
  ASSUME NEW CONSTANT Runes
  PROVE  Called(Runes) /\ [][Scan]_segVars => []SentencesEndRight
<1>1. Called(Runes) => Fresh /\ stage = "scan"
  BY DEF Called, Fresh, N
<1> QED  BY <1>1, FreshInv, SegNext, SegInvSays, PTL

-----------------------------------------------------------------------------
(* The texts of the books: what PrepareBook hands on is one of them.       *)

PrepInv ==
  /\ entry \in UNION Catalogs /\ lang \in Languages
  /\ stage \in {"fetch", "clean", "trim"} => start = 1 /\ i = 1 /\ sentences = <<>>
  /\ stage \in {"scan", "done"} => SegInv /\ EndInv

(* An anchor that stands in a text has a first place there.                *)
LEMMA FirstMatch ==
  ASSUME NEW t, NEW a, CountIsOne(t, a)
  PROVE  Min(Matches(t, a)) \in Nat /\ Min(Matches(t, a)) \in Matches(t, a)
<1>1. Matches(t, a) \in SUBSET Nat /\ Matches(t, a) # {}
  BY DEF CountIsOne, Matches
<1>2. \E n \in Matches(t, a) : \A m \in Matches(t, a) : n <= m
  BY <1>1, Least
<1>3. Min(Matches(t, a)) \in Matches(t, a)
  BY <1>2 DEF Min
<1> QED  BY <1>1, <1>3

(* What is between two anchors is a text, whatever cleaning has made of    *)
(* the rest.                                                               *)
LEMMA TrimIsFresh ==
  ASSUME PrepInv, Trim
  PROVE  stage' = "failed" \/ (stage' = "scan" /\ Fresh')
<1>1. stage = "trim" /\ start = 1 /\ i = 1 /\ sentences = <<>> /\ lang \in Languages
  BY DEF Trim, PrepInv
<1>2. Len(entry.lastLine) \in Nat
  BY EntryAssumption DEF PrepInv
<1>3. CASE ~CountIsOne(text, entry.firstLine) \/ ~CountIsOne(text, entry.lastLine)
  BY <1>3 DEF Trim, Fail
<1>4. CASE CountIsOne(text, entry.firstLine) /\ CountIsOne(text, entry.lastLine)
  <2>1. PICK first \in Nat : first = Min(Matches(text, entry.firstLine))
    BY <1>4, FirstMatch
  <2>2. PICK last \in Nat : last = Min(Matches(text, entry.lastLine))
    BY <1>4, FirstMatch
  <2>3. PICK end \in Nat : end = last + Len(entry.lastLine)
    BY <1>2
  <2>4. Fail \/ Becomes(SubSeq(text, first, end - 1), "scan")
    BY <1>4, <2>1, <2>2, <2>3 DEF Trim
  <2>5. CASE Becomes(SubSeq(text, first, end - 1), "scan")
    <3>1. /\ text' = SubSeq(text, first, end - 1) /\ stage' = "scan"
          /\ UNCHANGED <<lang, start, i, sentences>>
      BY <2>5 DEF Becomes
    <3>2. PICK S : S = {text[p] : p \in first .. (end - 1)}
      OBVIOUS
    <3>3. first \in Int /\ end - 1 \in Int /\ \A p \in first .. (end - 1) : text[p] \in S
      BY <3>2
    <3>4. SubSeq(text, first, end - 1) \in Seq(S)
      BY <3>3, SubSeqProperties
    <3>5. N' \in Nat
      BY <3>1, <3>4 DEF N
    <3> QED  BY <1>1, <3>1, <3>5 DEF Fresh
  <2> QED  BY <2>4, <2>5 DEF Fail
<1> QED  BY <1>3, <1>4

LEMMA FreshInvPrimed == (Fresh /\ stage = "scan" => SegInv /\ EndInv)'
BY FreshInv, PTL

LEMMA PrepInit == Init => PrepInv
BY EntryAssumption DEF Init, PrepInv, CleanAndSegmentFns

LEMMA PrepNext == PrepInv /\ [Next]_prepVars => PrepInv'
<1> SUFFICES ASSUME PrepInv, [Next]_prepVars
             PROVE  PrepInv'
  OBVIOUS
<1>1. CASE FetchText \/ FetchFails \/ Clean
  <2>1. /\ UNCHANGED <<entry, lang, start, i, sentences>>
        /\ stage \in {"fetch", "clean"} /\ stage' \in {"clean", "trim", "failed"}
    BY <1>1 DEF FetchText, FetchFails, Clean, Becomes, Fail
  <2> QED  BY <2>1 DEF PrepInv
<1>2. CASE Trim
  <2>1. UNCHANGED <<entry, lang>>
    BY <1>2 DEF Trim, Becomes, Fail
  <2>2. stage' = "failed" \/ (stage' = "scan" /\ Fresh')
    BY <1>2, TrimIsFresh
  <2> QED  BY <2>1, <2>2, FreshInvPrimed DEF PrepInv
<1>3. CASE StageA
  <2>1. Scan /\ UNCHANGED <<entry, lang>> /\ stage = "scan" /\ stage' \in {"scan", "done"}
    BY <1>3 DEF StageA, Scan, Newlines, Pass, EnglishStop, JapaneseStop, Return, At
  <2>2. SegInv' /\ EndInv'
    BY <2>1, ScanKeeps, ScanEnds DEF PrepInv
  <2> QED  BY <2>1, <2>2 DEF PrepInv
<1>4. CASE UNCHANGED prepVars
  <2>1. UNCHANGED <<entry, segVars>> /\ UNCHANGED <<lang, start, i, sentences, stage>>
    BY <1>4 DEF prepVars, segVars
  <2>2. SegInv /\ EndInv => SegInv' /\ EndInv'
    BY <2>1, SegNext
  <2> QED  BY <2>1, <2>2 DEF PrepInv
<1> QED  BY <1>1, <1>2, <1>3, <1>4 DEF Next, Ended

(* For every catalog and whatever cleaning makes of a book, its sentences  *)
(* end where a sentence ends.                                              *)
THEOREM BooksEndRight == Spec => []SentencesEndRight
<1>1. PrepInv => SentencesEndRight
  BY SegInvSays DEF PrepInv, SentencesEndRight
<1> QED  BY <1>1, PrepInit, PrepNext, PTL DEF Spec

(* For every catalog, every word of a book's trimmed text is in one of its *)
(* sentences, in order and once.                                           *)
THEOREM BooksAreTheirText == Spec => []SentencesAreTheText
<1>1. PrepInv => SentencesAreTheText
  BY SegInvSays DEF PrepInv, SentencesAreTheText
<1> QED  BY <1>1, PrepInit, PrepNext, PTL DEF Spec

-----------------------------------------------------------------------------
(* What Without leaves of one token.                                       *)
Survives(x, S) == IF x \in S THEN <<>> ELSE <<x>>

(* What Without puts together.                                             *)
Parts(t, S) == [p \in 1 .. Len(t) |-> IF t[p] \in S THEN <<>> ELSE <<t[p]>>]

LEMMA WithoutEmpty == \A S : Without(<<>>, S) = <<>>
<1> SUFFICES ASSUME NEW S PROVE Without(<<>>, S) = <<>>
  OBVIOUS
<1>1. Parts(<<>>, S) = <<>>
  BY DEF Parts
<1> QED  BY <1>1, FlattenEmpty DEF Without, Parts

LEMMA PartsTyped ==
  ASSUME NEW T, NEW t \in Seq(T), NEW S
  PROVE  Parts(t, S) \in Seq(Seq(T)) /\ Len(Parts(t, S)) = Len(t)
<1>1. \A p \in 1 .. Len(t) : t[p] \in T /\ <<>> \in Seq(T) /\ <<t[p]>> \in Seq(T)
  OBVIOUS
<1> QED  BY <1>1 DEF Parts

LEMMA WithoutTyped ==
  ASSUME NEW T, NEW t \in Seq(T), NEW S
  PROVE  Without(t, S) \in Seq(T)
<1>1. FlattenSeq(Parts(t, S)) \in Seq(T)
  BY PartsTyped, FlattenTyped
<1> QED  BY <1>1 DEF Without, Parts

Splits(a, b, S) == Without(a \o b, S) = Without(a, S) \o Without(b, S)

(* What is left of a text is what is left of its parts.                    *)
LEMMA WithoutConcat ==
  ASSUME NEW T, NEW a \in Seq(T), NEW b \in Seq(T), NEW S
  PROVE  Splits(a, b, S)
<1>1. Parts(a \o b, S) = Parts(a, S) \o Parts(b, S)
  <2>1. /\ a \o b \in Seq(T) /\ Len(a \o b) = Len(a) + Len(b)
        /\ \A p \in 1 .. Len(a) + Len(b) :
             (a \o b)[p] = IF p <= Len(a) THEN a[p] ELSE b[p - Len(a)]
    BY ConcatProperties
  <2>2. /\ Parts(a, S) \in Seq(Seq(T)) /\ Len(Parts(a, S)) = Len(a)
        /\ Parts(b, S) \in Seq(Seq(T)) /\ Len(Parts(b, S)) = Len(b)
        /\ Parts(a \o b, S) \in Seq(Seq(T)) /\ Len(Parts(a \o b, S)) = Len(a) + Len(b)
    BY <2>1, PartsTyped
  <2>3. /\ Parts(a, S) \o Parts(b, S) \in Seq(Seq(T))
        /\ Len(Parts(a, S) \o Parts(b, S)) = Len(a) + Len(b)
        /\ \A p \in 1 .. Len(a) + Len(b) :
             (Parts(a, S) \o Parts(b, S))[p]
               = IF p <= Len(a) THEN Parts(a, S)[p] ELSE Parts(b, S)[p - Len(a)]
    <3>1. PICK x \in Seq(Seq(T)), y \in Seq(Seq(T)) : x = Parts(a, S) /\ y = Parts(b, S)
      BY <2>2
    <3>2. Len(x) = Len(a) /\ Len(y) = Len(b)
      BY <2>2, <3>1
    <3>3. /\ x \o y \in Seq(Seq(T)) /\ Len(x \o y) = Len(x) + Len(y)
          /\ \A p \in 1 .. Len(x) + Len(y) :
               (x \o y)[p] = IF p <= Len(x) THEN x[p] ELSE y[p - Len(x)]
      BY ConcatProperties
    <3> QED  BY <3>1, <3>2, <3>3
  <2>4. Len(a) \in Nat /\ Len(b) \in Nat
    OBVIOUS
  <2>5. ASSUME NEW p \in 1 .. Len(a) + Len(b)
        PROVE  Parts(a \o b, S)[p] = (Parts(a, S) \o Parts(b, S))[p]
    <3>1. Parts(a \o b, S)[p] = Survives((a \o b)[p], S)
      BY <2>1, <2>5 DEF Parts, Survives
    <3>2. CASE p <= Len(a)
      <4>1. p \in 1 .. Len(a)
        BY <2>4, <3>2
      <4>2. Parts(a, S)[p] = Survives(a[p], S)
        BY <4>1 DEF Parts, Survives
      <4>3. (a \o b)[p] = a[p] /\ (Parts(a, S) \o Parts(b, S))[p] = Parts(a, S)[p]
        BY <2>1, <2>3, <3>2
      <4> QED  BY <3>1, <4>2, <4>3
    <3>3. CASE ~ (p <= Len(a))
      <4>1. p - Len(a) \in 1 .. Len(b)
        BY <2>4, <3>3
      <4>2. Parts(b, S)[p - Len(a)] = Survives(b[p - Len(a)], S)
        BY <4>1 DEF Parts, Survives
      <4>3. (a \o b)[p] = b[p - Len(a)] /\ (Parts(a, S) \o Parts(b, S))[p] = Parts(b, S)[p - Len(a)]
        BY <2>1, <2>3, <3>3
      <4> QED  BY <3>1, <4>2, <4>3
    <3> QED  BY <3>2, <3>3
  <2> QED  BY <2>2, <2>3, <2>5, SeqEqual
<1>2. FlattenSeq(Parts(a, S) \o Parts(b, S)) = FlattenSeq(Parts(a, S)) \o FlattenSeq(Parts(b, S))
  BY PartsTyped, FlattenConcat
<1> QED  BY <1>1, <1>2 DEF Splits, Without, Parts

LEMMA WithoutOne ==
  ASSUME NEW x, NEW S
  PROVE  Without(<<x>>, S) = IF x \in S THEN <<>> ELSE <<x>>
<1> PICK y : y = IF x \in S THEN <<>> ELSE <<x>>
  OBVIOUS
<1>1. y \in Seq({x})
  <2>1. <<>> \in Seq({x}) /\ <<x>> \in Seq({x})
    OBVIOUS
  <2> QED  BY <2>1
<1>2. Parts(<<x>>, S) = Append(<<>>, y)
  BY DEF Parts
<1>3. FlattenSeq(Append(<<>>, y)) = FlattenSeq(<<>>) \o y
  BY <1>1, EmptySeq, FlattenAppend
<1>4. <<>> \o y = y
  BY <1>1, ConcatEmptySeq
<1> QED  BY <1>2, <1>3, <1>4, FlattenEmpty DEF Without, Parts

(* Nothing is left of what is all in S.                                    *)
LEMMA WithoutNothing ==
  ASSUME NEW T, NEW t \in Seq(T), NEW S, \A p \in 1 .. Len(t) : t[p] \in S
  PROVE  Without(t, S) = <<>>
<1> DEFINE K == {s \in Seq(S) : Without(s, S) = <<>>}
<1>1. <<>> \in K
  BY WithoutEmpty, EmptySeq
<1>2. ASSUME NEW s \in K, NEW e \in S PROVE Append(s, e) \in K
  <2>1. s \in Seq(S) /\ Without(s, S) = <<>> /\ <<e>> \in Seq(S)
    OBVIOUS
  <2>2. Append(s, e) \in Seq(S) /\ Append(s, e) = s \o <<e>>
    BY <2>1, AppendIsConcat
  <2>3. Without(s \o <<e>>, S) = Without(s, S) \o Without(<<e>>, S)
    <3>1. PICK d \in Seq(S) : d = <<e>>
      BY <2>1
    <3>2. s \in Seq(S)
      BY <2>1
    <3>3. Splits(s, d, S)
      BY <3>1, <3>2, WithoutConcat
    <3> QED  BY <3>1, <3>3 DEF Splits
  <2>4. Without(<<e>>, S) = <<>> /\ <<>> \o <<>> = <<>>
    BY WithoutOne
  <2> QED  BY <2>1, <2>2, <2>3, <2>4
<1>3. \A s \in Seq(S) : s \in K
  <2>1. K \in SUBSET Seq(S)
    OBVIOUS
  <2> HIDE DEF K
  <2> QED  BY <1>1, <1>2, <2>1, SeqInduction
<1>4. t \in Seq(S)
  OBVIOUS
<1> QED  BY <1>3, <1>4

(* What is left of the pieces of a text is what is left of the text.       *)
Each(s, S) == [p \in 1 .. Len(s) |-> Without(s[p], S)]

LEMMA WithoutFlatten ==
  ASSUME NEW T, NEW s \in Seq(Seq(T)), NEW S
  PROVE  Without(FlattenSeq(s), S) = FlattenSeq(Each(s, S))
<1> DEFINE K == {r \in Seq(Seq(T)) : Without(FlattenSeq(r), S) = FlattenSeq(Each(r, S))}
<1>1. <<>> \in K
  <2>1. Each(<<>>, S) = <<>> /\ <<>> \in Seq(Seq(T))
    BY EmptySeq DEF Each
  <2> QED  BY <2>1, WithoutEmpty, FlattenEmpty
<1>2. ASSUME NEW r \in K, NEW u \in Seq(T) PROVE Append(r, u) \in K
  <2>1. /\ r \in Seq(Seq(T)) /\ Without(FlattenSeq(r), S) = FlattenSeq(Each(r, S))
        /\ FlattenSeq(r) \in Seq(T) /\ Append(r, u) \in Seq(Seq(T))
    BY FlattenTyped
  <2>2. Without(u, S) \in Seq(T) /\ Each(r, S) \in Seq(Seq(T))
    <3>1. \A p \in 1 .. Len(r) : Without(r[p], S) \in Seq(T)
      BY <2>1, WithoutTyped
    <3> QED  BY <2>1, <3>1, WithoutTyped DEF Each
  <2>3. Each(Append(r, u), S) = Append(Each(r, S), Without(u, S))
    BY <2>1, <2>2 DEF Each
  <2>4. FlattenSeq(Append(r, u)) = FlattenSeq(r) \o u
    BY <2>1, FlattenAppend
  <2>5. Without(FlattenSeq(r) \o u, S) = Without(FlattenSeq(r), S) \o Without(u, S)
    <3>1. PICK d \in Seq(T) : d = FlattenSeq(r)
      BY <2>1
    <3>2. Splits(d, u, S)
      BY <3>1, WithoutConcat
    <3> QED  BY <3>1, <3>2 DEF Splits
  <2>6. FlattenSeq(Append(Each(r, S), Without(u, S))) = FlattenSeq(Each(r, S)) \o Without(u, S)
    BY <2>2, FlattenAppend
  <2> QED  BY <2>1, <2>3, <2>4, <2>5, <2>6
<1>3. \A r \in Seq(Seq(T)) : r \in K
  <2>1. K \in SUBSET Seq(Seq(T))
    OBVIOUS
  <2> HIDE DEF K
  <2> QED  BY <1>1, <1>2, <2>1, SeqInduction
<1> QED  BY <1>3

(* The words of a stretch of a text stand together among the text's words. *)
(* What is left of t from m to n stands in what is left of t, after what is*)
(* left of t before m.                                                     *)
StandsIn(t, m, n, S) ==
  LET before == Without(SubSeq(t, 1, m - 1), S)
      between == Without(SubSeq(t, m, n), S)
      upto == Without(SubSeq(t, 1, n), S)
  IN  /\ upto = before \o between
      /\ Len(upto) <= Len(Without(t, S))
      /\ SubSeq(Without(t, S), Len(before) + 1, Len(upto)) = between

LEMMA Stretch ==
  ASSUME NEW T, NEW t \in Seq(T), NEW S,
         NEW m \in Nat, NEW n \in Nat, 1 <= m, m <= n + 1, n <= Len(t)
  PROVE  StandsIn(t, m, n, S)
<1>1. PICK a, b, c : a = SubSeq(t, 1, m - 1) /\ b = SubSeq(t, m, n) /\ c = SubSeq(t, n + 1, Len(t))
  OBVIOUS
<1>2. PICK l \in Nat : l = Len(t)
  OBVIOUS
<1>3. /\ \A p \in 1 .. (m - 1) : t[p] \in T
      /\ \A p \in m .. n : t[p] \in T
      /\ \A p \in (n + 1) .. l : t[p] \in T
  BY <1>2
<1>4. a \in Seq(T) /\ b \in Seq(T) /\ c \in Seq(T)
  BY <1>1, <1>2, <1>3, SubSeqProperties
<1>5. a \o b = SubSeq(t, 1, n)
  <2>1. /\ 1 \in 1 .. Len(t) + 1 /\ m - 1 \in 1 - 1 .. Len(t) /\ n \in m - 1 .. Len(t)
        /\ (m - 1) + 1 = m
    BY <1>2
  <2>2. SubSeq(t, 1, m - 1) \o SubSeq(t, (m - 1) + 1, n) = SubSeq(t, 1, n)
    BY <2>1, ConcatAdjacentSubSeq
  <2> QED  BY <1>1, <2>1, <2>2
<1>6. (a \o b) \o c = t
  <2>1. 1 \in 1 .. Len(t) + 1 /\ n \in 1 - 1 .. Len(t) /\ Len(t) \in n .. Len(t)
    BY <1>2
  <2>2. SubSeq(t, 1, n) \o SubSeq(t, n + 1, Len(t)) = SubSeq(t, 1, Len(t))
    BY <2>1, ConcatAdjacentSubSeq
  <2> QED  BY <1>1, <1>5, <2>2, SubSeqFull
<1>7. a \o b \in Seq(T)
  BY <1>4, ConcatProperties
<1>8. /\ Without(a \o b, S) = Without(a, S) \o Without(b, S)
      /\ Without(t, S) = Without(a \o b, S) \o Without(c, S)
  <2>1. PICK d \in Seq(T) : d = a \o b
    BY <1>7
  <2>2. Splits(a, b, S)
    BY <1>4, WithoutConcat
  <2>3. Splits(d, c, S)
    BY <1>4, WithoutConcat
  <2> QED  BY <1>6, <2>1, <2>2, <2>3 DEF Splits
<1>9. PICK x \in Seq(T), y \in Seq(T), z \in Seq(T) :
        x = Without(a, S) /\ y = Without(b, S) /\ z = Without(c, S)
  BY <1>4, WithoutTyped
<1>10. Len(x \o y) = Len(x) + Len(y)
  BY <1>9, ConcatProperties
<1>11. SubSeq((x \o y) \o z, Len(x) + 1, Len(x) + Len(y)) = y /\ Len(x) + Len(y) <= Len((x \o y) \o z)
  BY Middle
<1> QED  BY <1>1, <1>5, <1>8, <1>9, <1>10, <1>11 DEF StandsIn

-----------------------------------------------------------------------------
(* The tokens of the texts that cleaning works on.                         *)
Token == STRING \cup Space

LEMMA BlanksAreTokens == \A t \in Seq(Space) : t \in Seq(Token)
BY SeqMonotonic DEF Token

(* Blanks are no words.                                                    *)
LEMMA BlankStretch ==
  ASSUME NEW T, NEW t \in Seq(T), NEW m \in Nat, NEW n \in Nat,
         1 <= m, m <= n + 1, n <= Len(t),
         \A p \in m .. n : t[p] \in Space
  PROVE  Words(SubSeq(t, 1, n)) = Words(SubSeq(t, 1, m - 1))
<1>1. PICK b : b = SubSeq(t, m, n)
  OBVIOUS
<1>2. \A p \in m .. n : t[p] \in Space
  OBVIOUS
<1>3. /\ b \in Seq(Space) /\ Len(b) = IF m <= n THEN n - m + 1 ELSE 0
      /\ \A p \in 1 .. n - m + 1 : b[p] = t[m + p - 1]
  BY <1>1, <1>2, SubSeqProperties
<1>4. \A p \in 1 .. Len(b) : b[p] \in Space
  BY <1>3
<1>5. Without(b, Space) = <<>>
  BY <1>3, <1>4, WithoutNothing
<1>6. Without(SubSeq(t, 1, n), Space) = Without(SubSeq(t, 1, m - 1), Space) \o <<>>
  <2>1. StandsIn(t, m, n, Space)
    BY Stretch
  <2> QED  BY <1>1, <1>5, <2>1 DEF StandsIn
<1>7. Without(SubSeq(t, 1, m - 1), Space) \in Seq(T)
  <2>1. \A p \in 1 .. (m - 1) : t[p] \in T
    OBVIOUS
  <2>2. SubSeq(t, 1, m - 1) \in Seq(T)
    BY <2>1, SubSeqProperties
  <2> QED  BY <2>2, WithoutTyped
<1> QED  BY <1>6, <1>7, ConcatEmptySeq DEF Words

(* What cleaning puts in place of a run of blanks is a run of blanks.      *)
LEMMA RespacedIsBlank ==
  ASSUME NEW b, NEW p, NEW gap \in Seq(Space)
  PROVE  Respaced(b, p, gap) \in Seq(Space)
<1>1. " " \in Space /\ Newline \in Space
  BY BlankAssumption, ClassAssumption
<1>2. <<>> \in Seq(Space) /\ <<" ">> \in Seq(Space) /\ <<Newline, Newline>> \in Seq(Space)
  BY <1>1, Tuples
<1> PICK one, two : one = <<" ">> /\ two = <<Newline, Newline>>
  OBVIOUS
<1>3. WordJoin \in {<<>>, one}
  BY DEF WordJoin
<1>4. Respaced(b, p, gap) \in {<<>>, WordJoin, two, gap}
  BY DEF Respaced
<1> QED  BY <1>2, <1>3, <1>4

(* The blanks between a word and the word before.                          *)
LEMMA GapIsBlank ==
  ASSUME NEW b \in Seq(Token), NEW p \in 1 .. Len(b), WordsBefore(b, p) # {},
         NEW gap, gap = SubSeq(b, Max(WordsBefore(b, p)) + 1, p - 1)
  PROVE  gap \in Seq(Space)
<1> PICK m : m = Max(WordsBefore(b, p))
  OBVIOUS
<1>1. p \in Nat /\ WordsBefore(b, p) \in SUBSET (0 .. p)
  BY DEF WordsBefore
<1>2. m \in WordsBefore(b, p) /\ \A x \in WordsBefore(b, p) : x <= m
  BY <1>1, Greatest
<1>3. m \in 1 .. (p - 1)
  BY <1>2 DEF WordsBefore
<1>4. ASSUME NEW q \in (m + 1) .. (p - 1) PROVE b[q] \in Space
  <2>1. q \in 1 .. (p - 1) /\ q \in 1 .. Len(b) /\ ~(q <= m)
    BY <1>1, <1>3
  <2>2. q \notin WordsBefore(b, p)
    BY <1>2, <2>1
  <2> QED  BY <2>1, <2>2 DEF WordsBefore
<1>5. m + 1 \in Int /\ p - 1 \in Int /\ \A q \in (m + 1) .. (p - 1) : b[q] \in Space
  BY <1>1, <1>3, <1>4
<1> QED  BY <1>5, SubSeqProperties

(* One piece of what Dewrapped puts together.                              *)
Piece(b, p) ==
  IF b[p] \in Space THEN <<>>
  ELSE IF WordsBefore(b, p) = {} THEN <<b[p]>>
  ELSE Respaced(b, p, SubSeq(b, Max(WordsBefore(b, p)) + 1, p - 1)) \o <<b[p]>>

LEMMA PieceWords ==
  ASSUME NEW b \in Seq(Token), NEW p \in 1 .. Len(b)
  PROVE  /\ Piece(b, p) \in Seq(Token)
         /\ Without(Piece(b, p), Space) = IF b[p] \in Space THEN <<>> ELSE <<b[p]>>
<1>1. b[p] \in Token
  OBVIOUS
<1>2. CASE b[p] \in Space
  BY <1>2, EmptySeq, WithoutEmpty DEF Piece
<1>3. CASE b[p] \notin Space /\ WordsBefore(b, p) = {}
  BY <1>1, <1>3, WithoutOne DEF Piece
<1>4. CASE b[p] \notin Space /\ WordsBefore(b, p) # {}
  <2>1. PICK gap : gap = SubSeq(b, Max(WordsBefore(b, p)) + 1, p - 1)
    OBVIOUS
  <2>2. gap \in Seq(Space)
    BY <1>4, <2>1, GapIsBlank
  <2>3. PICK r : r = Respaced(b, p, gap)
    OBVIOUS
  <2>4. r \in Seq(Space) /\ r \in Seq(Token) /\ \A g \in 1 .. Len(r) : r[g] \in Space
    <3>1. r \in Seq(Space)
      BY <2>2, <2>3, RespacedIsBlank
    <3> QED  BY <3>1, BlanksAreTokens, ElementOfSeq
  <2>5. PICK w \in Seq(Token) : w = <<b[p]>>
    <3>1. <<b[p]>> \in Seq(Token)
      BY <1>1, Tuples
    <3> QED  BY <3>1
  <2>6. Piece(b, p) = r \o w
    BY <1>4, <2>1, <2>3, <2>5 DEF Piece
  <2>7. r \o w \in Seq(Token)
    BY <2>4, ConcatProperties
  <2>8. Splits(r, w, Space)
    BY <2>4, WithoutConcat
  <2>9. Without(r, Space) = <<>>
    BY <2>4, WithoutNothing
  <2>10. Without(w, Space) = w
    BY <1>4, <2>5, WithoutOne
  <2>11. <<>> \o w = w
    BY ConcatEmptySeq
  <2> QED  BY <1>4, <2>5, <2>6, <2>7, <2>8, <2>9, <2>10, <2>11 DEF Splits
<1> QED  BY <1>2, <1>3, <1>4

(* Cleaning keeps the words of the body, in their order.                   *)
LEMMA DewrappedWords ==
  ASSUME NEW b \in Seq(Token)
  PROVE  Dewrapped(b) \in Seq(Token) /\ Words(Dewrapped(b)) = Words(b)
<1>1. PICK s : s = [p \in 1 .. Len(b) |-> Piece(b, p)]
  OBVIOUS
<1>2. Len(b) \in Nat /\ \A p \in 1 .. Len(b) : Piece(b, p) \in Seq(Token)
  BY PieceWords
<1>3. s \in Seq(Seq(Token)) /\ Len(s) = Len(b)
  BY <1>1, <1>2
<1>4. Dewrapped(b) = FlattenSeq(s)
  BY <1>1 DEF Dewrapped, Piece
<1>5. FlattenSeq(s) \in Seq(Token)
  BY <1>3, FlattenTyped
<1>6. Without(FlattenSeq(s), Space) = FlattenSeq(Each(s, Space))
  BY <1>3, WithoutFlatten
<1>7. Each(s, Space) = Parts(b, Space)
  <2>1. \A p \in 1 .. Len(b) : Without(s[p], Space) = IF b[p] \in Space THEN <<>> ELSE <<b[p]>>
    BY <1>1, PieceWords
  <2> QED  BY <1>3, <2>1 DEF Each, Parts
<1>8. Without(b, Space) = FlattenSeq(Parts(b, Space))
  BY DEF Without, Parts
<1> QED  BY <1>4, <1>5, <1>6, <1>7, <1>8 DEF Words

-----------------------------------------------------------------------------
(* The words of sentence s, and of the text up to its end.                 *)
WordsOf(s) == Words(SubSeq(text, sentences[s][1], sentences[s][2]))
UpTo(k) == IF k = 0 THEN 0 ELSE sentences[k][2]
ToldBy(k) == FlattenSeq([s \in 1 .. k |-> WordsOf(s)])

(* Where the sentences are.                                                *)
LEMMA SentencesWithin ==
  ASSUME PositionsOK, NEW s \in 1 .. Len(sentences)
  PROVE  sentences[s][1] \in 1 .. N /\ sentences[s][2] \in 1 .. N
<1>1. sentences[s] \in (1 .. N) \X (1 .. N)
  BY ElementOfSeq DEF PositionsOK
<1> QED  BY <1>1

(* One sentence more, and the blanks before it.                            *)
LEMMA OneMoreIsTold ==
  ASSUME SegInv, stage = "done", text \in Seq(Token),
         NEW k \in Nat, k + 1 <= Len(sentences),
         ToldBy(k) = Words(SubSeq(text, 1, UpTo(k)))
  PROVE  ToldBy(k + 1) = Words(SubSeq(text, 1, UpTo(k + 1)))
<1>1. /\ N = Len(text) /\ N \in Nat /\ Reach = N + 1
      /\ PositionsOK /\ Len(sentences) \in Nat
  BY DEF SegInv, PositionsOK, Reach, N
<1>2. PICK b, e, u : b = sentences[k + 1][1] /\ e = sentences[k + 1][2] /\ u = UpTo(k)
  OBVIOUS
<1>3. k + 1 \in 1 .. Len(sentences) /\ (k # 0 => k \in 1 .. Len(sentences))
  BY <1>1
<1>4. /\ b \in 1 .. N /\ e \in 1 .. N /\ b <= e
      /\ u \in 0 .. N /\ u < b
  <2>1. b \in 1 .. N /\ e \in 1 .. N /\ b <= e
    <3>1. b \in 1 .. N /\ e \in 1 .. N
      BY <1>1, <1>2, <1>3, SentencesWithin
    <3>2. b <= e
      BY <1>2, <1>3 DEF SegInv, Apart
    <3> QED  BY <3>1, <3>2
  <2>2. CASE k = 0
    BY <1>1, <1>2, <2>1, <2>2 DEF UpTo
  <2>3. CASE k # 0
    <3>1. u = sentences[k][2]
      BY <1>2, <2>3 DEF UpTo
    <3>2. u \in 1 .. N
      BY <1>1, <1>3, <2>3, <3>1, SentencesWithin
    <3>3. k < k + 1
      OBVIOUS
    <3>4. sentences[k][2] < sentences[k + 1][1]
      BY <1>3, <2>3, <3>3 DEF SegInv, Apart
    <3> QED  BY <1>2, <2>1, <3>1, <3>2, <3>4
  <2> QED  BY <2>1, <2>2, <2>3
<1>5. ASSUME NEW p \in (u + 1) .. (b - 1) PROVE text[p] \in Space
  <2> SUFFICES ASSUME text[p] \notin Space PROVE FALSE
    OBVIOUS
  <2>1. p \in 1 .. (Reach - 1)
    BY <1>1, <1>4
  <2>2. PICK s \in 1 .. Len(sentences) : sentences[s][1] <= p /\ p <= sentences[s][2]
    BY <2>1 DEF SegInv, Covered, Inside
  <2>3. sentences[s][1] \in 1 .. N /\ sentences[s][2] \in 1 .. N
    BY <1>1, SentencesWithin
  <2>4. s # k + 1
    BY <1>2, <1>4, <2>2, <2>3
  <2>5. ~(k + 1 < s)
    <3> SUFFICES ASSUME k + 1 < s PROVE FALSE
      OBVIOUS
    <3>1. e < sentences[s][1]
      BY <1>2, <1>3 DEF SegInv, Apart
    <3> QED  BY <1>4, <2>2, <2>3, <3>1
  <2>6. s <= k /\ k # 0
    BY <1>1, <2>4, <2>5
  <2>7. u = sentences[k][2]
    BY <1>2, <2>6 DEF UpTo
  <2>8. sentences[s][2] <= u
    <3>1. CASE s = k
      BY <1>4, <2>7, <3>1
    <3>2. CASE s < k
      <4>1. sentences[s][2] < sentences[k][1] /\ sentences[k][1] <= sentences[k][2]
        BY <1>3, <2>6, <3>2 DEF SegInv, Apart
      <4>2. sentences[k][1] \in 1 .. N /\ sentences[k][2] \in 1 .. N
        <5>1. k \in 1 .. Len(sentences)
          BY <1>3, <2>6
        <5> QED  BY <1>1, <5>1, SentencesWithin
      <4> QED  BY <2>3, <2>7, <4>1, <4>2
    <3> QED  BY <2>6, <3>1, <3>2
  <2> QED  BY <1>4, <2>2, <2>3, <2>8
<1>6. Words(SubSeq(text, 1, b - 1)) = Words(SubSeq(text, 1, u))
  <2>1. PICK m \in Nat, n \in Nat : m = u + 1 /\ n = b - 1
    BY <1>4
  <2>2. 1 <= m /\ m <= n + 1 /\ n <= Len(text) /\ m - 1 = u
    BY <1>1, <1>4, <2>1
  <2>3. \A p \in m .. n : text[p] \in Space
    BY <1>5, <2>1
  <2>4. Words(SubSeq(text, 1, n)) = Words(SubSeq(text, 1, m - 1))
    BY <2>2, <2>3, BlankStretch
  <2> QED  BY <2>1, <2>2, <2>4
<1>7. PICK x, y, z : /\ x = Words(SubSeq(text, 1, b - 1)) /\ y = Words(SubSeq(text, b, e))
                     /\ z = Words(SubSeq(text, 1, e))
  OBVIOUS
<1>8. z = x \o y
  <2>1. b \in Nat /\ e \in Nat /\ 1 <= b /\ b <= e + 1 /\ e <= Len(text)
    BY <1>1, <1>4
  <2>2. StandsIn(text, b, e, Space)
    BY <2>1, Stretch
  <2> QED  BY <1>7, <2>2 DEF StandsIn, Words
<1>9. PICK f : f = [s \in 1 .. k |-> WordsOf(s)]
  OBVIOUS
<1>10. \A s \in 1 .. (k + 1) : WordsOf(s) \in Seq(Token)
  <2> SUFFICES ASSUME NEW s \in 1 .. (k + 1)
               PROVE  WordsOf(s) \in Seq(Token)
    OBVIOUS
  <2>0. s \in 1 .. Len(sentences)
    BY <1>1
  <2>1. sentences[s][1] \in 1 .. N /\ sentences[s][2] \in 1 .. N
    BY <1>1, <2>0, SentencesWithin
  <2>2. ASSUME NEW p \in sentences[s][1] .. sentences[s][2] PROVE text[p] \in Token
    <3>1. p \in 1 .. Len(text)
      BY <1>1, <2>1
    <3> QED  BY <3>1, ElementOfSeq
  <2>3. SubSeq(text, sentences[s][1], sentences[s][2]) \in Seq(Token)
    BY <2>1, <2>2, SubSeqProperties
  <2> QED  BY <2>3, WithoutTyped DEF WordsOf, Words
<1>11. y = WordsOf(k + 1) /\ y \in Seq(Token) /\ f \in Seq(Seq(Token)) /\ Len(f) = k
  <2>1. y = WordsOf(k + 1)
    BY <1>2, <1>7 DEF WordsOf
  <2>2. \A s \in 1 .. k : WordsOf(s) \in Seq(Token)
    BY <1>10
  <2> QED  BY <1>9, <1>10, <2>1, <2>2
<1>12. [s \in 1 .. (k + 1) |-> WordsOf(s)] = Append(f, y)
  BY <1>9, <1>11
<1>13. FlattenSeq(Append(f, y)) = FlattenSeq(f) \o y
  BY <1>11, FlattenAppend
<1>14. FlattenSeq(f) = x /\ UpTo(k + 1) = e
  <2>1. k + 1 # 0
    OBVIOUS
  <2> QED  BY <1>2, <1>6, <1>7, <1>9, <2>1 DEF ToldBy, UpTo
<1> QED  BY <1>7, <1>8, <1>12, <1>13, <1>14 DEF ToldBy

(* What the sentences tell is the text.                                    *)
LEMMA TextIsTold ==
  ASSUME SegInv, stage = "done", text \in Seq(Token)
  PROVE  Told = Words(text)
<1>1. /\ N = Len(text) /\ N \in Nat /\ Reach = N + 1
      /\ PositionsOK /\ Len(sentences) \in Nat
  BY DEF SegInv, PositionsOK, Reach, N
<1> PICK L \in Nat : L = Len(sentences)
  BY <1>1
<1> DEFINE K == {k \in Nat : k <= L => ToldBy(k) = Words(SubSeq(text, 1, UpTo(k)))}
<1>2. 0 \in K
  <2>1. [s \in 1 .. 0 |-> WordsOf(s)] = <<>> /\ SubSeq(text, 1, 0) = <<>>
    <3>1. SubSeq(text, 1, 0) = <<>>
      BY SubSeqEmpty
    <3> QED  BY <3>1
  <2> QED  BY <2>1, FlattenEmpty, WithoutEmpty DEF ToldBy, UpTo, Words
<1>3. ASSUME NEW k \in K PROVE k + 1 \in K
  <2> SUFFICES ASSUME k + 1 <= L
               PROVE  ToldBy(k + 1) = Words(SubSeq(text, 1, UpTo(k + 1)))
    OBVIOUS
  <2>1. k \in Nat /\ k + 1 <= Len(sentences) /\ ToldBy(k) = Words(SubSeq(text, 1, UpTo(k)))
    OBVIOUS
  <2> QED  BY <2>1, OneMoreIsTold
<1>4. \A k \in Nat : k \in K
  <2>1. K \in SUBSET Nat
    OBVIOUS
  <2> HIDE DEF K
  <2> QED  BY <1>2, <1>3, <2>1, Induction
<1>5. ToldBy(L) = Words(SubSeq(text, 1, UpTo(L)))
  BY <1>4
<1>6. UpTo(L) \in 0 .. N
  <2>1. CASE L = 0
    BY <1>1, <2>1 DEF UpTo
  <2>2. CASE L # 0
    <3>1. L \in 1 .. Len(sentences)
      BY <2>2
    <3>2. sentences[L][2] \in 1 .. N
      BY <1>1, <3>1, SentencesWithin
    <3> QED  BY <1>1, <2>2, <3>2 DEF UpTo
  <2> QED  BY <2>1, <2>2
<1>7. ASSUME NEW p \in (UpTo(L) + 1) .. N PROVE text[p] \in Space
  <2> SUFFICES ASSUME text[p] \notin Space PROVE FALSE
    OBVIOUS
  <2>1. p \in 1 .. (Reach - 1)
    BY <1>1, <1>6
  <2>2. PICK s \in 1 .. L : sentences[s][1] <= p /\ p <= sentences[s][2]
    BY <2>1 DEF SegInv, Covered, Inside
  <2>3. /\ L \in 1 .. L /\ s \in 1 .. Len(sentences) /\ L \in 1 .. Len(sentences) /\ UpTo(L) = sentences[L][2]
        /\ (s = L \/ s < L)
    BY <2>2 DEF UpTo
  <2>4. /\ sentences[s][2] \in 1 .. N
        /\ sentences[L][1] \in 1 .. N /\ sentences[L][2] \in 1 .. N
    BY <1>1, <2>3, SentencesWithin
  <2>5. sentences[s][2] <= sentences[L][2]
    <3>1. CASE s = L
      BY <2>4, <3>1
    <3>2. CASE s < L
      <4>1. sentences[s][2] < sentences[L][1] /\ sentences[L][1] <= sentences[L][2]
        BY <2>3, <3>2 DEF SegInv, Apart
      <4> QED  BY <2>4, <4>1
    <3> QED  BY <2>3, <3>1, <3>2
  <2> QED  BY <1>6, <2>2, <2>3, <2>4, <2>5
<1>8. Words(SubSeq(text, 1, N)) = Words(SubSeq(text, 1, UpTo(L)))
  <2>1. PICK m \in Nat : m = UpTo(L) + 1
    BY <1>6
  <2>2. 1 <= m /\ m <= N + 1 /\ N <= Len(text) /\ m - 1 = UpTo(L)
    BY <1>1, <1>6, <2>1
  <2>3. \A p \in m .. N : text[p] \in Space
    BY <1>7, <2>1
  <2>4. Words(SubSeq(text, 1, N)) = Words(SubSeq(text, 1, m - 1))
    BY <1>1, <2>2, <2>3, BlankStretch
  <2> QED  BY <2>2, <2>4
<1>9. SubSeq(text, 1, N) = text
  BY <1>1, SubSeqFull
<1>10. Told = ToldBy(L)
  BY DEF Told, ToldBy, WordsOf
<1> QED  BY <1>5, <1>8, <1>9, <1>10

-----------------------------------------------------------------------------
(* Cleaning keeps to texts.                                                *)
LEMMA NormalizedTyped ==
  ASSUME NEW t \in Seq(Token)
  PROVE  Normalized(t) \in Seq(Token)
<1> PICK s : s = [p \in 1 .. Len(t) |->
                    IF t[p] # "CR" THEN <<t[p]>>
                    ELSE IF p < Len(t) /\ t[p + 1] = Newline THEN <<>> ELSE <<Newline>>]
  OBVIOUS
<1>1. Len(t) \in Nat /\ Newline \in Token
  BY ClassAssumption DEF Token
<1>2. \A p \in 1 .. Len(t) : t[p] \in Token
  OBVIOUS
<1>3. \A x \in Token : <<>> \in Seq(Token) /\ <<x>> \in Seq(Token)
  BY Tuples
<1>4. \A p \in 1 .. Len(t) : s[p] \in Seq(Token)
  <2> SUFFICES ASSUME NEW p \in 1 .. Len(t)
               PROVE  s[p] \in Seq(Token)
    OBVIOUS
  <2>1. s[p] \in {<<t[p]>>, <<>>, <<Newline>>}
    OBVIOUS
  <2>2. <<t[p]>> \in Seq(Token) /\ <<>> \in Seq(Token) /\ <<Newline>> \in Seq(Token)
    BY <1>1, <1>2, <1>3
  <2> QED  BY <2>1, <2>2
<1>5. s \in Seq(Seq(Token))
  BY <1>1, <1>4
<1>6. FlattenSeq(s) \in Seq(Token)
  BY <1>5, FlattenTyped
<1> QED  BY <1>6 DEF Normalized

(* A token that stands in a text has a first place there.                  *)
LEMMA FirstPlace ==
  ASSUME NEW t, NEW token, Places(t, token) # {}
  PROVE  Min(Places(t, token)) \in 1 .. Len(t)
<1>1. Places(t, token) \in SUBSET Nat
  BY DEF Places
<1>2. \E n \in Places(t, token) : \A m \in Places(t, token) : n <= m
  BY <1>1, Least
<1>3. Min(Places(t, token)) \in Places(t, token)
  BY <1>2 DEF Min
<1> QED  BY <1>3 DEF Places

LEMMA WrappedTyped ==
  ASSUME NEW t \in Seq(Token), HasMarkers(t)
  PROVE  Wrapped(t) \in Seq(Token)
<1> PICK m, n : m = Min(Places(t, "START")) /\ n = Min(Places(t, "END"))
  OBVIOUS
<1>1. m \in 1 .. Len(t) /\ n \in 1 .. Len(t)
  BY FirstPlace DEF HasMarkers
<1>2. m + 1 \in Int /\ n - 1 \in Int /\ \A p \in (m + 1) .. (n - 1) : t[p] \in Token
  BY <1>1
<1>3. SubSeq(t, m + 1, n - 1) \in Seq(Token)
  BY <1>2, SubSeqProperties
<1> QED  BY <1>3 DEF Wrapped

LEMMA RawText ==
  ASSUME entry \in UNION Catalogs
  PROVE  /\ entry.raw \in Seq(Token)
         /\ entry.firstLine \in Seq(Token) /\ IsAnchor(entry.firstLine)
         /\ entry.lastLine \in Seq(Token) /\ IsAnchor(entry.lastLine)
<1>1. /\ entry.raw \in Seq(STRING)
      /\ IsAnchor(entry.firstLine) /\ IsAnchor(entry.lastLine)
  BY EntryAssumption
<1>2. entry.firstLine \in Seq(STRING) /\ entry.lastLine \in Seq(STRING)
  BY <1>1 DEF IsAnchor
<1>3. \A t \in Seq(STRING) : t \in Seq(Token)
  BY SeqMonotonic DEF Token
<1> QED  BY <1>1, <1>2, <1>3

(* Clean hands on the words of the body.                                   *)
(* The raw body as cleaning leaves it.                                     *)
Prose == Dewrapped(Body)

LEMMA CleanKeeps ==
  ASSUME entry \in UNION Catalogs, text = entry.raw, Clean
  PROVE  \/ stage' = "failed"
         \/ /\ stage' = "trim" /\ Body \in Seq(Token) /\ text' = Prose
            /\ text' \in Seq(Token) /\ Words(text') = Kept
<1> PICK t : t = Normalized(text)
  OBVIOUS
<1> PICK b : b = RemoveBareIllustrations(Wrapped(t))
  OBVIOUS
<1>1. CASE ~HasMarkers(t) \/ Unmatched(b)
  BY <1>1 DEF Clean, Fail
<1>2. CASE HasMarkers(t) /\ ~Unmatched(b)
  <2>1. t \in Seq(Token)
    BY RawText, NormalizedTyped
  <2>2. b \in Seq(Token)
    BY <1>2, <2>1, WrappedTyped, WithoutTyped DEF RemoveBareIllustrations
  <2>3. text' = Dewrapped(b) /\ stage' = "trim"
    BY <1>2 DEF Clean, Becomes
  <2>4. Dewrapped(b) \in Seq(Token) /\ Words(Dewrapped(b)) = Words(b)
    BY <2>2, DewrappedWords
  <2>5. Body = b /\ Prose = Dewrapped(b) /\ Kept = Words(b)
    BY DEF Kept, Prose, Body
  <2> QED  BY <2>2, <2>3, <2>4, <2>5
<1> QED  BY <1>1, <1>2

-----------------------------------------------------------------------------
(* Where the words of a text stand.                                        *)

(* How many words t has up to position p.                                  *)
Count(t, p) == Len(Words(SubSeq(t, 1, p)))

(* One token of a text.                                                    *)
LEMMA OneToken ==
  ASSUME NEW t \in Seq(Token), NEW p \in 1 .. Len(t)
  PROVE  SubSeq(t, p, p) = <<t[p]>>
<1>1. SubSeq(t, p, p) = <<t[p]>> \o SubSeq(t, p + 1, p)
  <2>1. p \in p .. Len(t)
    OBVIOUS
  <2> QED  BY <2>1, SubSeqRecursiveFirst
<1>2. SubSeq(t, p + 1, p) = <<>>
  <2>1. p + 1 \in Int /\ p \in Int /\ p < p + 1
    OBVIOUS
  <2> QED  BY <2>1, SubSeqEmpty
<1>3. PICK c \in Token : c = t[p]
  OBVIOUS
<1>4. <<c>> \o <<>> = <<c>>
  BY Tuples, ConcatEmptySeq
<1> QED  BY <1>1, <1>2, <1>3, <1>4

(* A token of a stretch of a text.                                         *)
LEMMA InStretch ==
  ASSUME NEW t \in Seq(Token), NEW m \in Nat, NEW n \in Nat, n <= Len(t),
         NEW j \in 1 .. (n - m)
  PROVE  SubSeq(t, m + 1, n)[j] = t[m + j]
<1>1. ASSUME NEW q \in (m + 1) .. n PROVE t[q] \in Token
  <2>1. q \in 1 .. Len(t)
    OBVIOUS
  <2> QED  BY <2>1, ElementOfSeq
<1>2. PICK k \in Int : k = m + 1
  OBVIOUS
<1>3. j \in 1 .. n - k + 1 /\ k + j - 1 = m + j /\ n \in Int
  BY <1>2
<1>4. \A q \in k .. n : t[q] \in Token
  BY <1>1, <1>2
<1>5. SubSeq(t, k, n)[j] = t[k + j - 1]
  BY <1>3, <1>4, SubSeqProperties
<1> QED  BY <1>2, <1>3, <1>5

(* Counting on from m to n.                                                *)
LEMMA CountOn ==
  ASSUME NEW t \in Seq(Token), NEW m \in Nat, NEW n \in Nat, m <= n, n <= Len(t)
  PROVE  /\ Count(t, m) \in Nat /\ Count(t, n) \in Nat
         /\ Words(SubSeq(t, m + 1, n)) \in Seq(Token)
         /\ Count(t, n) = Count(t, m) + Len(Words(SubSeq(t, m + 1, n)))
         /\ Count(t, n) <= Len(Words(t))
         /\ SubSeq(Words(t), Count(t, m) + 1, Count(t, n)) = Words(SubSeq(t, m + 1, n))
<1>1. PICK k \in Nat : k = m + 1
  OBVIOUS
<1>2. 1 <= k /\ k <= n + 1 /\ k - 1 = m
  BY <1>1
<1>3. StandsIn(t, k, n, Space)
  BY <1>2, Stretch
<1> PICK x, y, u : /\ x = Words(SubSeq(t, 1, m)) /\ y = Words(SubSeq(t, m + 1, n))
                   /\ u = Words(SubSeq(t, 1, n))
  OBVIOUS
<1>4. /\ u = x \o y /\ Len(u) <= Len(Words(t))
      /\ SubSeq(Words(t), Len(x) + 1, Len(u)) = y
  BY <1>1, <1>2, <1>3 DEF StandsIn, Words
<1>5. x \in Seq(Token) /\ y \in Seq(Token)
  <2>1. /\ \A q \in 1 .. m : t[q] \in Token
        /\ \A q \in (m + 1) .. n : t[q] \in Token
    OBVIOUS
  <2>2. m \in Int /\ n \in Int /\ m + 1 \in Int
    OBVIOUS
  <2>3. SubSeq(t, 1, m) \in Seq(Token) /\ SubSeq(t, m + 1, n) \in Seq(Token)
    BY <2>1, <2>2, SubSeqProperties
  <2> QED  BY <2>3, WithoutTyped DEF Words
<1>6. Len(u) = Len(x) + Len(y) /\ Len(x) \in Nat /\ Len(y) \in Nat
  BY <1>4, <1>5, ConcatProperties
<1>7. Count(t, m) = Len(x) /\ Count(t, n) = Len(u)
  BY DEF Count
<1> QED  BY <1>4, <1>5, <1>6, <1>7

(* Counting starts at 0, ends with all words, and a token counts one if it *)
(* is a word.                                                              *)
LEMMA CountStarts ==
  ASSUME NEW t \in Seq(Token)
  PROVE  Count(t, 0) = 0 /\ Count(t, Len(t)) = Len(Words(t))
<1>1. SubSeq(t, 1, 0) = <<>> /\ SubSeq(t, 1, Len(t)) = t
  BY SubSeqEmpty, SubSeqFull
<1>2. Words(<<>>) = <<>>
  BY WithoutEmpty DEF Words
<1>3. Count(t, 0) = 0
  <2>1. Words(SubSeq(t, 1, 0)) = <<>>
    BY <1>1, <1>2
  <2>2. Len(<<>>) = 0
    OBVIOUS
  <2> QED  BY <2>1, <2>2, Zenon DEF Count
<1> QED  BY <1>1, <1>3 DEF Count

LEMMA CountStep ==
  ASSUME NEW t \in Seq(Token), NEW p \in 1 .. Len(t)
  PROVE  /\ t[p] \in Space => Count(t, p) = Count(t, p - 1)
         /\ t[p] \notin Space => /\ Count(t, p) = Count(t, p - 1) + 1
                                 /\ Count(t, p) \in 1 .. Len(Words(t))
                                 /\ Words(t)[Count(t, p)] = t[p]
<1>1. p - 1 \in Nat /\ p \in Nat /\ p - 1 <= p /\ p <= Len(t) /\ (p - 1) + 1 = p
  OBVIOUS
<1> PICK y : y = Words(SubSeq(t, p, p))
  OBVIOUS
<1> PICK a, c : a = Count(t, p - 1) /\ c = Count(t, p)
  OBVIOUS
<1> PICK w : w = Words(t)
  OBVIOUS
<1>2. /\ a \in Nat /\ c \in Nat /\ c = a + Len(y) /\ c <= Len(w)
      /\ SubSeq(w, a + 1, c) = y
  <2>1. PICK m \in Nat : m = p - 1
    BY <1>1
  <2>2. /\ Count(t, m) \in Nat /\ Count(t, p) \in Nat
        /\ Count(t, p) = Count(t, m) + Len(Words(SubSeq(t, m + 1, p)))
        /\ Count(t, p) <= Len(Words(t))
        /\ SubSeq(Words(t), Count(t, m) + 1, Count(t, p)) = Words(SubSeq(t, m + 1, p))
    BY <1>1, <2>1, CountOn
  <2>3. m + 1 = p
    BY <1>1, <2>1
  <2> QED  BY <2>1, <2>2, <2>3
<1>3. y = IF t[p] \in Space THEN <<>> ELSE <<t[p]>>
  BY OneToken, WithoutOne DEF Words
<1>4. CASE t[p] \in Space
  <2>1. Len(y) = 0
    BY <1>3, <1>4
  <2> QED  BY <1>2, <1>4, <2>1
<1>5. CASE t[p] \notin Space
  <2>1. y = <<t[p]>> /\ Len(y) = 1
    BY <1>3, <1>5
  <2>2. c = a + 1
    BY <1>2, <2>1
  <2>3. w \in Seq(Token) /\ Len(w) \in Nat
    BY WithoutTyped DEF Words
  <2>4. c \in 1 .. Len(w)
    BY <1>2, <2>2, <2>3
  <2>5. SubSeq(w, c, c) = <<w[c]>>
    BY <2>3, <2>4, OneToken
  <2>6. <<w[c]>> = <<t[p]>>
    BY <1>2, <2>1, <2>2, <2>5
  <2>7. w[c] = t[p]
    BY <2>6
  <2> QED  BY <1>5, <2>2, <2>4, <2>7
<1> QED  BY <1>4, <1>5

(* Later words have higher numbers.                                        *)
LEMMA LaterWord ==
  ASSUME NEW t \in Seq(Token), NEW p \in 1 .. Len(t), NEW r \in 1 .. Len(t),
         p < r, t[r] \notin Space
  PROVE  Count(t, p) < Count(t, r)
<1>1. p \in Nat /\ r - 1 \in Nat /\ p <= r - 1 /\ r - 1 <= Len(t)
  OBVIOUS
<1> PICK y : y = Words(SubSeq(t, p + 1, r - 1))
  OBVIOUS
<1>2. /\ Count(t, p) \in Nat /\ Count(t, r - 1) \in Nat /\ y \in Seq(Token)
      /\ Count(t, r - 1) = Count(t, p) + Len(y)
  BY <1>1, CountOn
<1>3. Count(t, r) = Count(t, r - 1) + 1
  BY CountStep
<1>4. Len(y) \in Nat
  BY <1>2
<1> QED  BY <1>2, <1>3, <1>4

(* The words x and y of t have nothing but blanks between them.            *)
Adjacent(t, x, y) ==
  /\ x \in 1 .. Len(t) /\ y \in 1 .. Len(t) /\ x < y
  /\ t[x] \notin Space /\ t[y] \notin Space
  /\ \A p \in (x + 1) .. (y - 1) : t[p] \in Space

(* A word is the word of its number.                                       *)
LEMMA WordAtIs ==
  ASSUME NEW t \in Seq(Token), NEW p \in 1 .. Len(t), t[p] \notin Space,
         NEW n, n = Count(t, p)
  PROVE  WordAt(t, n) = p
<1> DEFINE Is(q) == q \in 1 .. Len(t) /\ t[q] \notin Space /\ Len(Words(SubSeq(t, 1, q))) = n
<1>1. Is(p)
  BY DEF Count
<1>2. ASSUME NEW q, Is(q) PROVE q = p
  <2>1. q \in 1 .. Len(t) /\ t[q] \notin Space /\ Count(t, q) = n
    BY <1>2 DEF Count
  <2>2. ~(q < p) /\ ~(p < q)
    <3>1. Count(t, p) \in Nat
      <4>1. p \in Nat /\ p <= p /\ p <= Len(t)
        OBVIOUS
      <4> QED  BY <4>1, CountOn
    <3>2. ~(n < n)
      BY <3>1
    <3> QED  BY <2>1, <3>2, LaterWord
  <2> QED  BY <2>1, <2>2
<1>3. WordAt(t, n) = CHOOSE q \in 1 .. Len(t) :
        t[q] \notin Space /\ Len(Words(SubSeq(t, 1, q))) = n
  BY DEF WordAt
<1> QED  BY <1>1, <1>2, <1>3

(* Every number up to the number of words has its word.                    *)
LEMMA WordExists ==
  ASSUME NEW t \in Seq(Token), NEW n \in 1 .. Len(Words(t))
  PROVE  \E p \in 1 .. Len(t) : t[p] \notin Space /\ Count(t, p) = n /\ WordAt(t, n) = p
<1> DEFINE B == {p \in 0 .. Len(t) : Count(t, p) >= n}
<1>1. Len(t) \in Nat /\ Len(Words(t)) \in Nat
  BY WithoutTyped DEF Words
<1>2. Len(t) \in B
  BY <1>1, CountStarts
<1>3. PICK p \in B : \A q \in B : p <= q
  <2>1. B \in SUBSET Nat /\ B # {}
    BY <1>1, <1>2
  <2> HIDE DEF B
  <2> QED  BY <2>1, Least
<1>4. p \in 0 .. Len(t) /\ Count(t, p) >= n
  OBVIOUS
<1>5. p # 0
  <2>1. Count(t, 0) = 0 /\ ~(0 >= n)
    BY <1>1, CountStarts
  <2> QED  BY <1>4, <2>1
<1>6. p \in 1 .. Len(t) /\ p - 1 \in 0 .. Len(t) /\ ~(p <= p - 1)
  BY <1>1, <1>4, <1>5
<1>7. ~(Count(t, p - 1) >= n)
  BY <1>3, <1>6
<1>8. Count(t, p - 1) \in Nat /\ Count(t, p) \in Nat
  <2>1. p - 1 \in Nat /\ p \in Nat /\ p - 1 <= p /\ p <= Len(t)
    BY <1>6
  <2> QED  BY <2>1, CountOn
<1>9. t[p] \notin Space
  <2> SUFFICES ASSUME t[p] \in Space PROVE FALSE
    OBVIOUS
  <2>1. Count(t, p) = Count(t, p - 1)
    BY <1>6, CountStep
  <2> QED  BY <1>4, <1>7, <2>1
<1>10. Count(t, p) = n
  <2>1. Count(t, p) = Count(t, p - 1) + 1
    BY <1>6, <1>9, CountStep
  <2>2. PICK a, c : a = Count(t, p - 1) /\ c = Count(t, p)
    OBVIOUS
  <2>3. a \in Nat /\ c = a + 1 /\ c >= n /\ ~(a >= n) /\ n \in Nat
    BY <1>1, <1>4, <1>7, <1>8, <2>1, <2>2
  <2>4. c = n
    BY <2>3
  <2> QED  BY <2>2, <2>4
<1>11. WordAt(t, n) = p
  BY <1>6, <1>9, <1>10, WordAtIs
<1> QED  BY <1>6, <1>9, <1>10, <1>11

(* Words with successive numbers are adjacent, and the other way round.    *)
LEMMA NextWord ==
  ASSUME NEW t \in Seq(Token), NEW x \in 1 .. Len(t), NEW y \in 1 .. Len(t),
         t[x] \notin Space, t[y] \notin Space
  PROVE  Count(t, y) = Count(t, x) + 1 <=> Adjacent(t, x, y)
<1>1. Count(t, x) \in Nat /\ Count(t, y) \in Nat
  <2>1. x \in Nat /\ x <= x /\ x <= Len(t) /\ y \in Nat /\ y <= y /\ y <= Len(t)
    OBVIOUS
  <2> QED  BY <2>1, CountOn
<1>2. ASSUME Count(t, y) = Count(t, x) + 1 PROVE Adjacent(t, x, y)
  <2>1. x < y
    <3>1. ~(y < x)
      <4> SUFFICES ASSUME y < x PROVE FALSE
        OBVIOUS
      <4>1. Count(t, y) < Count(t, x)
        BY LaterWord
      <4> QED  BY <1>1, <1>2, <4>1
    <3>2. y # x
      BY <1>1, <1>2
    <3> QED  BY <3>1, <3>2
  <2>2. ASSUME NEW p \in (x + 1) .. (y - 1) PROVE t[p] \in Space
    <3> SUFFICES ASSUME t[p] \notin Space PROVE FALSE
      OBVIOUS
    <3>1. p \in 1 .. Len(t) /\ x < p /\ p < y
      OBVIOUS
    <3>2. Count(t, x) < Count(t, p) /\ Count(t, p) < Count(t, y)
      BY <3>1, LaterWord
    <3>3. Count(t, p) \in Nat
      <4>1. p \in Nat /\ p <= p /\ p <= Len(t)
        BY <3>1
      <4> QED  BY <4>1, CountOn
    <3> QED  BY <1>1, <1>2, <3>2, <3>3
  <2> QED  BY <2>1, <2>2 DEF Adjacent
<1>3. ASSUME Adjacent(t, x, y) PROVE Count(t, y) = Count(t, x) + 1
  <2>1. PICK m \in Nat, n \in Nat : m = x + 1 /\ n = y - 1
    BY <1>3 DEF Adjacent
  <2>2. 1 <= m /\ m <= n + 1 /\ n <= Len(t) /\ m - 1 = x /\ n = y - 1
    BY <1>3, <2>1 DEF Adjacent
  <2>3. \A p \in m .. n : t[p] \in Space
    BY <1>3, <2>1 DEF Adjacent
  <2>4. Words(SubSeq(t, 1, n)) = Words(SubSeq(t, 1, m - 1))
    BY <2>2, <2>3, BlankStretch
  <2>5. Count(t, y - 1) = Count(t, x)
    BY <2>2, <2>4 DEF Count
  <2>6. Count(t, y) = Count(t, y - 1) + 1
    BY CountStep
  <2> QED  BY <2>5, <2>6
<1> QED  BY <1>2, <1>3

-----------------------------------------------------------------------------
(* Where FlattenSeq puts the pieces.                                       *)

(* The first k pieces of s end here.                                       *)
End(s, k) == Len(FlattenSeq(SubSeq(s, 1, k)))

(* Piece k of s stands in FlattenSeq(s) between End(s, k - 1) and          *)
(* End(s, k).                                                              *)
PieceStands(s, k) ==
  /\ End(s, k - 1) \in Nat /\ End(s, k) = End(s, k - 1) + Len(s[k])
  /\ End(s, k) <= Len(FlattenSeq(s))
  /\ SubSeq(FlattenSeq(s), End(s, k - 1) + 1, End(s, k)) = s[k]

LEMMA PieceStandsThere ==
  ASSUME NEW T, NEW s \in Seq(Seq(T)), NEW k \in 1 .. Len(s)
  PROVE  PieceStands(s, k)
<1> PICK n \in Nat : n = Len(s)
  OBVIOUS
<1> PICK a, b, c : a = SubSeq(s, 1, k - 1) /\ b = SubSeq(s, 1, k) /\ c = SubSeq(s, k + 1, n)
  OBVIOUS
<1>1. a \in Seq(Seq(T)) /\ b \in Seq(Seq(T)) /\ c \in Seq(Seq(T)) /\ s[k] \in Seq(T)
  <2>1. /\ \A p \in 1 .. (k - 1) : s[p] \in Seq(T)
        /\ \A p \in 1 .. k : s[p] \in Seq(T)
        /\ \A p \in (k + 1) .. n : s[p] \in Seq(T)
    OBVIOUS
  <2>2. k - 1 \in Int /\ k \in Int /\ k + 1 \in Int /\ 1 \in Int
    OBVIOUS
  <2> QED  BY <2>1, <2>2, SubSeqProperties
<1>2. b = Append(a, s[k])
  <2>1. k \in 1 .. Len(s)
    OBVIOUS
  <2> QED  BY <2>1
<1>3. b \o c = s
  <2>1. 1 \in 1 .. Len(s) + 1 /\ k \in 1 - 1 .. Len(s) /\ Len(s) \in k .. Len(s)
    OBVIOUS
  <2>2. SubSeq(s, 1, k) \o SubSeq(s, k + 1, Len(s)) = SubSeq(s, 1, Len(s))
    BY <2>1, ConcatAdjacentSubSeq
  <2> QED  BY <2>2, SubSeqFull
<1>4. PICK x \in Seq(T), y \in Seq(T), z \in Seq(T) :
        x = FlattenSeq(a) /\ y = s[k] /\ z = FlattenSeq(c)
  BY <1>1, FlattenTyped
<1>5. FlattenSeq(b) = x \o y
  BY <1>1, <1>2, FlattenAppend, <1>4
<1>6. FlattenSeq(b \o c) = FlattenSeq(b) \o z
  BY <1>1, FlattenConcat, <1>4
<1>7. FlattenSeq(s) = (x \o y) \o z
  BY <1>3, <1>5, <1>6
<1>8. /\ SubSeq((x \o y) \o z, Len(x) + 1, Len(x) + Len(y)) = y
      /\ Len(x) + Len(y) <= Len((x \o y) \o z)
  BY Middle
<1>9. Len(x \o y) = Len(x) + Len(y) /\ Len(x) \in Nat
  BY ConcatProperties
<1>10. End(s, k - 1) = Len(x) /\ End(s, k) = Len(x) + Len(y)
  BY <1>4, <1>5, <1>9 DEF End
<1> QED  BY <1>4, <1>7, <1>8, <1>9, <1>10 DEF PieceStands

LEMMA EndStarts ==
  ASSUME NEW T, NEW s \in Seq(Seq(T))
  PROVE  End(s, 0) = 0 /\ End(s, Len(s)) = Len(FlattenSeq(s))
<1>1. SubSeq(s, 1, 0) = <<>> /\ SubSeq(s, 1, Len(s)) = s
  BY SubSeqEmpty, SubSeqFull
<1>2. FlattenSeq(SubSeq(s, 1, 0)) = <<>>
  BY <1>1, FlattenEmpty
<1>3. Len(<<>>) = 0
  OBVIOUS
<1>4. End(s, 0) = 0
  BY <1>2, <1>3, Zenon DEF End
<1> QED  BY <1>1, <1>4 DEF End

-----------------------------------------------------------------------------
(* Where dewrapping puts the words, and what it puts between them.         *)

Pieces(b) == [p \in 1 .. Len(b) |-> Piece(b, p)]

LEMMA PiecesTyped ==
  ASSUME NEW b \in Seq(Token)
  PROVE  /\ Pieces(b) \in Seq(Seq(Token)) /\ Len(Pieces(b)) = Len(b)
         /\ Dewrapped(b) = FlattenSeq(Pieces(b)) /\ Dewrapped(b) \in Seq(Token)
<1>1. Len(b) \in Nat /\ \A p \in 1 .. Len(b) : Piece(b, p) \in Seq(Token)
  BY PieceWords
<1>2. Pieces(b) \in Seq(Seq(Token)) /\ Len(Pieces(b)) = Len(b)
  BY <1>1 DEF Pieces
<1>3. Dewrapped(b) = FlattenSeq(Pieces(b))
  BY DEF Dewrapped, Pieces, Piece
<1> QED  BY <1>2, <1>3, FlattenTyped

(* The pieces of b up to p have as many words as b.                        *)
Counts(b, p) ==
  /\ End(Pieces(b), p) \in Nat /\ End(Pieces(b), p) <= Len(Dewrapped(b))
  /\ Count(Dewrapped(b), End(Pieces(b), p)) = Count(b, p)

LEMMA OneMoreCounts ==
  ASSUME NEW b \in Seq(Token), NEW p \in 1 .. Len(b), Counts(b, p - 1)
  PROVE  Counts(b, p)
<1> PICK s, D : s = Pieces(b) /\ D = Dewrapped(b)
  OBVIOUS
<1>1. /\ s \in Seq(Seq(Token)) /\ Len(s) = Len(b)
      /\ D = FlattenSeq(s) /\ D \in Seq(Token)
  BY PiecesTyped
<1> PICK m, n : m = End(s, p - 1) /\ n = End(s, p)
  OBVIOUS
<1>2. PieceStands(s, p)
  BY <1>1, PieceStandsThere
<1>3. s[p] = Piece(b, p) /\ Piece(b, p) \in Seq(Token)
  BY PieceWords DEF Pieces
<1>4. /\ m \in Nat /\ n = m + Len(s[p]) /\ n <= Len(D)
      /\ SubSeq(D, m + 1, n) = s[p]
  BY <1>1, <1>2 DEF PieceStands
<1>5. n \in Nat /\ m <= n
  <2>1. PICK l \in Nat : l = Len(s[p])
    BY <1>3
  <2>2. m \in Nat /\ n = m + l
    BY <1>4, <2>1
  <2> QED  BY <2>2
<1>6. Count(D, n) = Count(D, m) + Len(Words(SubSeq(D, m + 1, n)))
  BY <1>1, <1>4, <1>5, CountOn
<1> PICK y : y = Words(SubSeq(D, m + 1, n))
  OBVIOUS
<1>7. y = Words(s[p])
  <2>1. SubSeq(D, m + 1, n) = s[p]
    BY <1>4
  <2> QED  BY <2>1, Zenon
<1>8. y = IF b[p] \in Space THEN <<>> ELSE <<b[p]>>
  BY <1>3, <1>7, PieceWords DEF Words
<1>9. Count(D, m) = Count(b, p - 1)
  BY DEF Counts
<1>10. Count(D, n) = Count(b, p)
  <2>1. CASE b[p] \in Space
    <3>1. Len(y) = 0
      BY <1>8, <2>1
    <3>2. Count(b, p) = Count(b, p - 1)
      BY <2>1, CountStep
    <3>3. Count(b, p - 1) \in Nat
      <4>1. p - 1 \in Nat /\ p - 1 <= p - 1 /\ p - 1 <= Len(b)
        OBVIOUS
      <4> QED  BY <4>1, CountOn
    <3> QED  BY <1>6, <1>9, <3>1, <3>2, <3>3
  <2>2. CASE b[p] \notin Space
    <3>1. Len(y) = 1
      BY <1>8, <2>2
    <3>2. Count(b, p) = Count(b, p - 1) + 1
      BY <2>2, CountStep
    <3> QED  BY <1>6, <1>9, <3>1, <3>2
  <2> QED  BY <2>1, <2>2
<1> QED  BY <1>4, <1>5, <1>10 DEF Counts

LEMMA AllCount ==
  ASSUME NEW b \in Seq(Token), NEW p \in 0 .. Len(b)
  PROVE  Counts(b, p)
<1> DEFINE K == {k \in Nat : k <= Len(b) => Counts(b, k)}
<1>1. 0 \in K
  <2>1. Pieces(b) \in Seq(Seq(Token)) /\ Dewrapped(b) \in Seq(Token)
    BY PiecesTyped
  <2>2. End(Pieces(b), 0) = 0
    BY <2>1, EndStarts
  <2>3. Count(b, 0) = 0 /\ Count(Dewrapped(b), 0) = 0
    BY <2>1, CountStarts
  <2>4. Len(Dewrapped(b)) \in Nat
    BY <2>1
  <2>5. Counts(b, 0)
    BY <2>2, <2>3, <2>4 DEF Counts
  <2> QED  BY <2>5
<1>2. ASSUME NEW k \in K PROVE k + 1 \in K
  <2> SUFFICES ASSUME k + 1 <= Len(b) PROVE Counts(b, k + 1)
    OBVIOUS
  <2>1. k + 1 \in 1 .. Len(b) /\ (k + 1) - 1 = k /\ k <= Len(b)
    OBVIOUS
  <2>2. Counts(b, (k + 1) - 1)
    BY <2>1
  <2> QED  BY <2>1, <2>2, OneMoreCounts
<1>3. \A k \in Nat : k \in K
  <2>1. K \in SUBSET Nat
    OBVIOUS
  <2> HIDE DEF K
  <2> QED  BY <1>1, <1>2, <2>1, Induction
<1> QED  BY <1>3

(* The last word of a piece ends it.                                       *)
LEMMA PieceEnds ==
  ASSUME NEW b \in Seq(Token), NEW p \in 1 .. Len(b), b[p] \notin Space
  PROVE  /\ End(Pieces(b), p) \in 1 .. Len(Dewrapped(b))
         /\ Dewrapped(b)[End(Pieces(b), p)] = b[p]
         /\ WordAt(Dewrapped(b), Count(b, p)) = End(Pieces(b), p)
<1> PICK s, D : s = Pieces(b) /\ D = Dewrapped(b)
  OBVIOUS
<1>1. /\ s \in Seq(Seq(Token)) /\ Len(s) = Len(b)
      /\ D = FlattenSeq(s) /\ D \in Seq(Token)
  BY PiecesTyped
<1> PICK m, n : m = End(s, p - 1) /\ n = End(s, p)
  OBVIOUS
<1>2. /\ m \in Nat /\ n = m + Len(s[p]) /\ n <= Len(D)
      /\ SubSeq(D, m + 1, n) = s[p]
  BY <1>1, PieceStandsThere DEF PieceStands
<1>3. PICK r \in Seq(Token) : s[p] = r \o <<b[p]>>
  <2>1. s[p] = Piece(b, p)
    BY DEF Pieces
  <2>2. CASE WordsBefore(b, p) = {}
    <3>1. s[p] = <<b[p]>> /\ b[p] \in Token
      BY <2>1, <2>2 DEF Piece
    <3>2. <<>> \o <<b[p]>> = <<b[p]>> /\ <<>> \in Seq(Token)
      BY <3>1, Tuples, ConcatEmptySeq
    <3> QED  BY <3>1, <3>2
  <2>3. CASE WordsBefore(b, p) # {}
    <3>1. PICK gap : gap = SubSeq(b, Max(WordsBefore(b, p)) + 1, p - 1)
      OBVIOUS
    <3>2. gap \in Seq(Space)
      BY <2>3, <3>1, GapIsBlank
    <3>3. Respaced(b, p, gap) \in Seq(Token)
      BY <3>2, RespacedIsBlank, BlanksAreTokens
    <3>4. s[p] = Respaced(b, p, gap) \o <<b[p]>>
      BY <2>1, <2>3, <3>1 DEF Piece
    <3> QED  BY <3>3, <3>4
  <2> QED  BY <2>2, <2>3
<1>4. b[p] \in Token
  OBVIOUS
<1>5. Len(s[p]) = Len(r) + 1 /\ s[p][Len(r) + 1] = b[p] /\ Len(r) \in Nat
  <2>1. PICK w \in Seq(Token) : w = <<b[p]>>
    BY <1>4, Tuples
  <2>2. Len(w) = 1 /\ w[1] = b[p]
    BY <2>1
  <2>3. /\ Len(r \o w) = Len(r) + Len(w)
        /\ \A q \in 1 .. Len(r) + Len(w) : (r \o w)[q] = IF q <= Len(r) THEN r[q] ELSE w[q - Len(r)]
    BY ConcatProperties
  <2>4. Len(r) \in Nat
    OBVIOUS
  <2>5. Len(r) + 1 \in 1 .. Len(r) + Len(w) /\ ~(Len(r) + 1 <= Len(r)) /\ (Len(r) + 1) - Len(r) = 1
    BY <2>2, <2>4
  <2> QED  BY <1>3, <2>1, <2>2, <2>3, <2>4, <2>5
<1> PICK l : l = Len(r)
  OBVIOUS
<1>6. l \in Nat /\ n = m + l + 1 /\ m \in Nat /\ n \in Nat /\ n \in 1 .. Len(D)
  <2>1. l \in Nat /\ m \in Nat /\ n = m + (l + 1) /\ n <= Len(D)
    BY <1>2, <1>5
  <2>2. Len(D) \in Nat
    BY <1>1
  <2> QED  BY <2>1, <2>2
<1>7. D[n] = b[p]
  <2>1. PICK x \in Nat, y \in Nat, z \in Nat : x = m /\ y = n /\ z = l + 1
    BY <1>6
  <2>2. y = x + z /\ z >= 1
    <3>1. l \in Nat /\ y = x + l + 1 /\ z = l + 1
      BY <1>6, <2>1
    <3> QED  BY <3>1
  <2>3. z \in 1 .. (y - x) /\ x + z = y
    BY <2>2
  <2>4. y <= Len(D)
    BY <1>2, <2>1
  <2>5. SubSeq(D, x + 1, y)[z] = D[x + z]
    BY <1>1, <2>3, <2>4, InStretch
  <2>6. SubSeq(D, x + 1, y) = s[p]
    BY <1>2, <2>1, Zenon
  <2>7. s[p][z] = b[p]
    BY <1>5, <2>1, Zenon
  <2>8. D[y] = b[p]
    BY <2>3, <2>5, <2>6, <2>7, Zenon
  <2> QED  BY <2>1, <2>8
<1>8. Count(D, n) = Count(b, p)
  <2>1. p \in 0 .. Len(b)
    OBVIOUS
  <2> QED  BY <2>1, AllCount DEF Counts
<1>9. WordAt(D, Count(b, p)) = n
  <2>1. PICK k \in 1 .. Len(D) : k = n
    BY <1>6
  <2>2. D[k] \notin Space /\ Count(D, k) = Count(b, p)
    BY <1>7, <1>8, <2>1
  <2>3. WordAt(D, Count(b, p)) = k
    BY <1>1, <2>2, WordAtIs
  <2> QED  BY <2>1, <2>3
<1> QED  BY <1>6, <1>7, <1>9

(* What dewrapping makes of the blanks between the adjacent words u and v. *)
Gap(b, u, v) == Respaced(b, v, SubSeq(b, u + 1, v - 1))

(* Between positions x and y, t has r and nothing else.                    *)
Fills(t, x, y, r) ==
  /\ y = x + Len(r) + 1
  /\ \A j \in 1 .. Len(r) : t[x + j] = r[j]

(* The word before v is the last of those before it.                       *)
LEMMA WordBefore ==
  ASSUME NEW b, NEW u, NEW v, Adjacent(b, u, v), Len(b) \in Nat
  PROVE  WordsBefore(b, v) # {} /\ Max(WordsBefore(b, v)) = u
<1>1. /\ u \in 1 .. (v - 1) /\ v \in 1 .. Len(b) /\ b[u] \notin Space
      /\ \A p \in (u + 1) .. (v - 1) : b[p] \in Space
  BY DEF Adjacent
<1>2. u \in WordsBefore(b, v)
  BY <1>1 DEF WordsBefore
<1>3. v \in Nat /\ WordsBefore(b, v) \in SUBSET (0 .. v)
  BY <1>1 DEF WordsBefore
<1>4. /\ Max(WordsBefore(b, v)) \in WordsBefore(b, v)
      /\ \A x \in WordsBefore(b, v) : x <= Max(WordsBefore(b, v))
  BY <1>2, <1>3, Greatest
<1> PICK w : w = Max(WordsBefore(b, v))
  OBVIOUS
<1>5. w \in 1 .. (v - 1) /\ b[w] \notin Space /\ u <= w
  BY <1>2, <1>4 DEF WordsBefore
<1>6. w \notin (u + 1) .. (v - 1)
  BY <1>1, <1>5
<1> QED  BY <1>1, <1>2, <1>3, <1>5, <1>6

(* Blanks have no piece.                                                   *)
LEMMA BlanksHaveNoPiece ==
  ASSUME NEW b \in Seq(Token), NEW u \in Nat, NEW w \in Nat, u <= w, w <= Len(b),
         \A p \in (u + 1) .. w : b[p] \in Space
  PROVE  End(Pieces(b), w) = End(Pieces(b), u)
<1> DEFINE K == {k \in Nat : u <= k /\ k <= w => End(Pieces(b), k) = End(Pieces(b), u)}
<1>1. 0 \in K
  <2>1. u <= 0 => u = 0
    OBVIOUS
  <2> QED  BY <2>1
<1>2. ASSUME NEW k \in K PROVE k + 1 \in K
  <2> SUFFICES ASSUME u <= k + 1, k + 1 <= w
               PROVE  End(Pieces(b), k + 1) = End(Pieces(b), u)
    OBVIOUS
  <2>1. k \in Nat /\ (u = k + 1 \/ (u <= k /\ k <= w))
    OBVIOUS
  <2>2. CASE u <= k /\ k <= w
    <3>1. k + 1 \in 1 .. Len(b) /\ (k + 1) - 1 = k /\ k + 1 \in (u + 1) .. w
      BY <2>1, <2>2
    <3>2. Pieces(b)[k + 1] = <<>>
      BY <3>1 DEF Pieces, Piece
    <3> PICK l \in Nat : l = k + 1
      BY <2>1
    <3>3. l \in 1 .. Len(Pieces(b)) /\ Pieces(b) \in Seq(Seq(Token))
      BY <3>1, PiecesTyped
    <3>4. PieceStands(Pieces(b), l)
      BY <3>3, PieceStandsThere
    <3>5. End(Pieces(b), l) = End(Pieces(b), k) + 0 /\ End(Pieces(b), k) \in Nat
      <4>1. Len(<<>>) = 0
        OBVIOUS
      <4>2. l - 1 = k
        BY <3>1
      <4>3. Len(Pieces(b)[l]) = 0
        BY <3>2, <4>1, Zenon
      <4> QED  BY <3>4, <4>2, <4>3 DEF PieceStands
    <3>6. End(Pieces(b), k) = End(Pieces(b), u)
      BY <2>1, <2>2
    <3> QED  BY <3>5, <3>6
  <2>3. CASE u = k + 1
    BY <2>3
  <2> QED  BY <2>1, <2>2, <2>3
<1>3. \A k \in Nat : k \in K
  <2>1. K \in SUBSET Nat
    OBVIOUS
  <2> HIDE DEF K
  <2> QED  BY <1>1, <1>2, <2>1, Induction
<1> QED  BY <1>3

(* Between two adjacent words of b, dewrapped, is what their gap becomes.  *)
LEMMA GapStays ==
  ASSUME NEW b \in Seq(Token), NEW u, NEW v, Adjacent(b, u, v)
  PROVE  /\ Gap(b, u, v) \in Seq(Space)
         /\ Fills(Dewrapped(b), End(Pieces(b), u), End(Pieces(b), v), Gap(b, u, v))
<1> PICK s, D : s = Pieces(b) /\ D = Dewrapped(b)
  OBVIOUS
<1>1. /\ s \in Seq(Seq(Token)) /\ Len(s) = Len(b)
      /\ D = FlattenSeq(s) /\ D \in Seq(Token)
  BY PiecesTyped
<1>2. /\ u \in 1 .. (v - 1) /\ v \in 1 .. Len(b) /\ b[v] \notin Space
      /\ \A p \in (u + 1) .. (v - 1) : b[p] \in Space
  BY DEF Adjacent
<1>3. WordsBefore(b, v) # {} /\ Max(WordsBefore(b, v)) = u
  BY WordBefore
<1> PICK gap : gap = SubSeq(b, u + 1, v - 1)
  OBVIOUS
<1>4. gap \in Seq(Space)
  BY <1>2, <1>3, GapIsBlank
<1>5. PICK r \in Seq(Space) : r = Respaced(b, v, gap)
  BY <1>4, RespacedIsBlank
<1>6. s[v] = r \o <<b[v]>>
  BY <1>2, <1>3, <1>5 DEF Pieces, Piece
<1> PICK m, n : m = End(s, v - 1) /\ n = End(s, v)
  OBVIOUS
<1>7. /\ m \in Nat /\ n = m + Len(s[v]) /\ n <= Len(D)
      /\ SubSeq(D, m + 1, n) = s[v]
  BY <1>1, <1>2, PieceStandsThere DEF PieceStands
<1>8. m = End(s, u)
  <2>1. PICK w \in Nat : w = v - 1
    BY <1>2
  <2>2. u \in Nat /\ u <= w /\ w <= Len(b)
    BY <1>2, <2>1
  <2>3. \A p \in (u + 1) .. w : b[p] \in Space
    BY <1>2, <2>1
  <2>4. End(s, w) = End(s, u)
    BY <2>2, <2>3, BlanksHaveNoPiece
  <2> QED  BY <2>1, <2>4
<1> PICK l : l = Len(r)
  OBVIOUS
<1>9. /\ l \in Nat /\ Len(s[v]) = l + 1
      /\ \A j \in 1 .. l : s[v][j] = r[j]
  <2>1. r \in Seq(Token) /\ b[v] \in Token
    BY <1>2, BlanksAreTokens
  <2>2. PICK w \in Seq(Token) : w = <<b[v]>>
    BY <2>1, Tuples
  <2>3. Len(w) = 1 /\ l \in Nat
    BY <2>2
  <2>4. /\ Len(r \o w) = Len(r) + Len(w)
        /\ \A q \in 1 .. Len(r) + Len(w) : (r \o w)[q] = IF q <= Len(r) THEN r[q] ELSE w[q - Len(r)]
    BY <2>1, ConcatProperties
  <2>5. \A j \in 1 .. l : j \in 1 .. Len(r) + Len(w) /\ j <= Len(r)
    BY <2>3
  <2> QED  BY <1>6, <2>2, <2>3, <2>4, <2>5
<1>10. n = m + l + 1 /\ m \in Nat /\ n \in Nat
  <2>1. PICK x \in Nat, z \in Nat : x = m /\ z = l
    BY <1>7, <1>9
  <2>2. n = x + (z + 1)
    BY <1>7, <1>9, <2>1
  <2>3. n = x + z + 1 /\ n \in Nat
    BY <2>2
  <2> QED  BY <2>1, <2>3
<1>11. ASSUME NEW j \in 1 .. l PROVE D[m + j] = r[j]
  <2>1. PICK x \in Nat, y \in Nat, z \in Nat : x = m /\ y = n /\ z = l
    BY <1>9, <1>10
  <2>2. y = x + z + 1
    BY <1>10, <2>1
  <2>3. j \in 1 .. (y - x)
    <3>1. j \in 1 .. z
      BY <2>1, Zenon
    <3> QED  BY <2>2, <3>1
  <2>4. y <= Len(D)
    BY <1>7, <2>1
  <2>5. SubSeq(D, x + 1, y)[j] = D[x + j]
    BY <1>1, <2>3, <2>4, InStretch
  <2>6. SubSeq(D, x + 1, y) = s[v]
    BY <1>7, <2>1, Zenon
  <2>7. s[v][j] = D[x + j]
    BY <2>5, <2>6, Zenon
  <2>8. s[v][j] = r[j]
    BY <1>9
  <2> QED  BY <2>1, <2>7, <2>8, Zenon
<1>12. Gap(b, u, v) = r
  BY <1>5 DEF Gap
<1>13. Fills(D, m, n, r)
  BY <1>10, <1>11 DEF Fills
<1> QED  BY <1>5, <1>8, <1>12, <1>13

-----------------------------------------------------------------------------
(* t is D from f to e, and c words of D stand before it.                   *)
IsCut(t, D, f, e, c) ==
  /\ f \in Nat /\ e \in Nat /\ 1 <= f /\ f <= e + 1 /\ e <= Len(D)
  /\ t \in Seq(Token) /\ t = SubSeq(D, f, e)
  /\ c \in Nat /\ c = Count(D, f - 1)

(* A word of a cut, and its number.                                        *)
LEMMA InCut ==
  ASSUME NEW D \in Seq(Token), NEW t \in Seq(Token), NEW f \in Nat, NEW e \in Nat, NEW c \in Nat,
         IsCut(t, D, f, e, c), NEW x \in 1 .. Len(t)
  PROVE  /\ f - 1 + x \in 1 .. Len(D) /\ t[x] = D[f - 1 + x]
         /\ Count(D, f - 1 + x) = c + Count(t, x)
<1>1. PICK k \in Nat : k = Len(D)
  OBVIOUS
<1>2. /\ 1 <= f /\ f <= e + 1 /\ e <= k
      /\ t = SubSeq(D, f, e) /\ c = Count(D, f - 1)
  BY <1>1 DEF IsCut
<1>3. \A q \in f .. e : D[q] \in Token
  <2>1. \A q \in f .. e : q \in 1 .. Len(D)
    BY <1>1, <1>2
  <2> QED  BY <2>1, ElementOfSeq
<1>4. /\ Len(t) = IF f <= e THEN e - f + 1 ELSE 0
      /\ \A q \in 1 .. e - f + 1 : t[q] = D[f + q - 1]
  BY <1>2, <1>3, SubSeqProperties
<1>5. x \in 1 .. e - f + 1 /\ x \in Nat /\ f <= e
  BY <1>4
<1>6. PICK n \in Nat : n = f - 1 + x
  BY <1>5
<1>7. n = f + x - 1 /\ n \in 1 .. k /\ n <= e /\ f \in 1 .. k
  BY <1>2, <1>5, <1>6
<1>8. t[x] = D[n]
  BY <1>4, <1>5, <1>7
<1>9. SubSeq(t, 1, x) = SubSeq(D, f, n)
  <2>1. /\ f \in 1 .. Len(D) /\ e \in 1 .. Len(D)
        /\ 1 \in 1 .. e - f + 1 /\ x \in 1 .. e - f + 1
        /\ f + 1 - 1 = f /\ f + x - 1 = n
    BY <1>1, <1>2, <1>5, <1>7
  <2>2. SubSeq(SubSeq(D, f, e), 1, x) = SubSeq(D, f + 1 - 1, f + x - 1)
    BY <2>1, SubSeqOfSubSeq
  <2> QED  BY <1>2, <2>1, <2>2
<1>10. PICK m \in Nat : m = f - 1
  BY <1>2
<1>11. m <= n /\ n <= Len(D) /\ m + 1 = f
  BY <1>1, <1>5, <1>6, <1>7, <1>10
<1>12. Count(D, n) = Count(D, m) + Len(Words(SubSeq(D, m + 1, n)))
  BY <1>11, CountOn
<1>13. Words(SubSeq(D, m + 1, n)) = Words(SubSeq(t, 1, x))
  BY <1>9, <1>11, Zenon
<1>14. Count(D, n) = Count(D, m) + Count(t, x)
  BY <1>12, <1>13, Zenon DEF Count
<1> QED  BY <1>1, <1>2, <1>6, <1>7, <1>8, <1>10, <1>14

(* What lies between two words of a cut.                                   *)
FillsAlike(t, D, f) ==
  \A x, y \in 1 .. Len(t) : \A X, Y : \A r \in Seq(Space) :
    X = f - 1 + x /\ Y = f - 1 + y /\ Fills(D, X, Y, r) => Fills(t, x, y, r)

LEMMA FillsCut ==
  ASSUME NEW D \in Seq(Token), NEW t \in Seq(Token), NEW f \in Nat, NEW e \in Nat, NEW c \in Nat,
         IsCut(t, D, f, e, c)
  PROVE  FillsAlike(t, D, f)
<1>1. ASSUME NEW x \in 1 .. Len(t), NEW y \in 1 .. Len(t),
             NEW X, X = f - 1 + x, NEW Y, Y = f - 1 + y,
             NEW r \in Seq(Space), Fills(D, X, Y, r)
      PROVE  Fills(t, x, y, r)
  <2>1. PICK l \in Nat : l = Len(r)
    OBVIOUS
  <2>2. y = x + l + 1
    <3>1. Y = X + l + 1
      BY <1>1, <2>1 DEF Fills
    <3> QED  BY <1>1, <3>1
  <2>3. ASSUME NEW j \in 1 .. l PROVE t[x + j] = r[j]
    <3>1. PICK z \in Nat : z = x + j
      OBVIOUS
    <3>2. z \in 1 .. Len(t)
      <4>1. z < y /\ 1 <= z
        BY <2>2, <3>1
      <4> QED  BY <4>1
    <3>3. t[z] = D[f - 1 + z]
      BY <3>2, InCut
    <3>4. f - 1 + z = X + j
      BY <1>1, <3>1
    <3>5. D[X + j] = r[j]
      BY <1>1, <2>1 DEF Fills
    <3> QED  BY <3>1, <3>3, <3>4, <3>5
  <2> QED  BY <2>1, <2>2, <2>3 DEF Fills
<1> QED  BY <1>1 DEF FillsAlike

(* A word of a stretch t of what dewrapping makes of b, and where it was   *)
(* in b.                                                                   *)
ComesFrom(t, f, b, n, m) ==
  LET x == WordAt(t, n)
      u == WordAt(b, m)
  IN  /\ x \in 1 .. Len(t) /\ t[x] \notin Space /\ Count(t, x) = n
      /\ u \in 1 .. Len(b) /\ b[u] \notin Space /\ Count(b, u) = m
      /\ t[x] = b[u] /\ Words(b)[m] = b[u] /\ f - 1 + x = End(Pieces(b), u)

LEMMA WordComesFrom ==
  ASSUME NEW b \in Seq(Token), NEW t \in Seq(Token), NEW f \in Nat, NEW e \in Nat, NEW c \in Nat,
         IsCut(t, Dewrapped(b), f, e, c),
         NEW n \in 1 .. Len(Words(t)), NEW m, m = c + n
  PROVE  ComesFrom(t, f, b, n, m)
<1>1. PICK D \in Seq(Token) : D = Dewrapped(b)
  BY PiecesTyped
<1>2. PICK x \in 1 .. Len(t) : t[x] \notin Space /\ Count(t, x) = n /\ WordAt(t, n) = x
  BY WordExists
<1>3. PICK X : X = f - 1 + x
  OBVIOUS
<1>4. X \in 1 .. Len(D) /\ t[x] = D[X] /\ Count(D, X) = m
  <2>1. IsCut(t, D, f, e, c)
    BY <1>1
  <2>2. /\ f - 1 + x \in 1 .. Len(D) /\ t[x] = D[f - 1 + x]
        /\ Count(D, f - 1 + x) = c + Count(t, x)
    BY <2>1, InCut
  <2> QED  BY <1>2, <1>3, <2>2
<1>5. D[X] \notin Space
  BY <1>2, <1>4
<1>6. m \in 1 .. Len(Words(b))
  <2>1. Count(D, X) \in 1 .. Len(Words(D))
    BY <1>4, <1>5, CountStep
  <2>2. Words(D) = Words(b)
    BY <1>1, DewrappedWords
  <2> QED  BY <1>4, <2>1, <2>2
<1>7. PICK u \in 1 .. Len(b) : b[u] \notin Space /\ Count(b, u) = m /\ WordAt(b, m) = u
  BY <1>6, WordExists
<1>8. WordAt(D, m) = X
  BY <1>4, <1>5, WordAtIs
<1>9. D[End(Pieces(b), u)] = b[u] /\ WordAt(D, m) = End(Pieces(b), u)
  BY <1>1, <1>7, PieceEnds
<1>10. Words(b)[m] = b[u]
  BY <1>7, CountStep
<1>11. t[x] = b[u] /\ f - 1 + x = End(Pieces(b), u)
  BY <1>3, <1>4, <1>8, <1>9, Zenon
<1> QED  BY <1>2, <1>7, <1>10, <1>11 DEF ComesFrom

(* Two adjacent words of the stretch were adjacent in b, and between them  *)
(* is what dewrapping makes of the blanks between them there.              *)
GapComesFrom(t, b, n, m) ==
  LET x == WordAt(t, n)
      y == WordAt(t, n + 1)
      u == WordAt(b, m)
      v == WordAt(b, m + 1)
  IN  /\ Adjacent(t, x, y) /\ Adjacent(b, u, v)
      /\ Fills(t, x, y, Gap(b, u, v)) /\ Gap(b, u, v) \in Seq(Space)
      /\ t[x] = b[u] /\ Words(b)[m] = b[u]

LEMMA GapComesFromThere ==
  ASSUME NEW b \in Seq(Token), NEW t \in Seq(Token), NEW f \in Nat, NEW e \in Nat, NEW c \in Nat,
         IsCut(t, Dewrapped(b), f, e, c),
         NEW n \in Nat, 1 <= n, n + 1 <= Len(Words(t)), NEW m \in Nat, m = c + n
  PROVE  GapComesFrom(t, b, n, m)
<1>1. PICK D \in Seq(Token) : D = Dewrapped(b)
  BY PiecesTyped
<1>2. IsCut(t, D, f, e, c)
  BY <1>1
<1>3. PICK k \in Nat : k = Len(Words(t))
  <2>1. Words(t) \in Seq(Token)
    BY WithoutTyped DEF Words
  <2> QED  BY <2>1
<1>4. /\ n \in 1 .. Len(Words(t)) /\ n + 1 \in 1 .. Len(Words(t))
      /\ m + 1 = c + (n + 1)
  <2>1. n + 1 <= k
    BY <1>3
  <2>2. n \in 1 .. k /\ n + 1 \in 1 .. k /\ m + 1 = c + (n + 1)
    BY <2>1
  <2> QED  BY <1>3, <2>2
<1>5. ComesFrom(t, f, b, n, m)
  BY <1>4, WordComesFrom
<1>6. ComesFrom(t, f, b, n + 1, m + 1)
  BY <1>4, WordComesFrom
<1> PICK x, y, u, v : /\ x = WordAt(t, n) /\ y = WordAt(t, n + 1)
                      /\ u = WordAt(b, m) /\ v = WordAt(b, m + 1)
  OBVIOUS
<1>7. /\ x \in 1 .. Len(t) /\ t[x] \notin Space /\ Count(t, x) = n
      /\ u \in 1 .. Len(b) /\ b[u] \notin Space /\ Count(b, u) = m
      /\ t[x] = b[u] /\ Words(b)[m] = b[u] /\ f - 1 + x = End(Pieces(b), u)
  BY <1>5 DEF ComesFrom
<1>8. /\ y \in 1 .. Len(t) /\ t[y] \notin Space /\ Count(t, y) = n + 1
      /\ v \in 1 .. Len(b) /\ b[v] \notin Space /\ Count(b, v) = m + 1
      /\ f - 1 + y = End(Pieces(b), v)
  BY <1>6 DEF ComesFrom
<1>9. Adjacent(t, x, y)
  BY <1>7, <1>8, NextWord
<1>10. Adjacent(b, u, v)
  BY <1>7, <1>8, NextWord
<1>11. PICK r \in Seq(Space) : r = Gap(b, u, v)
  BY <1>10, GapStays
<1>12. PICK X, Y : X = f - 1 + x /\ Y = f - 1 + y /\ Fills(D, X, Y, r)
  <2>1. Fills(Dewrapped(b), End(Pieces(b), u), End(Pieces(b), v), Gap(b, u, v))
    BY <1>10, GapStays
  <2> QED  BY <1>1, <1>7, <1>8, <1>11, <2>1
<1>13. Fills(t, x, y, r)
  <2>1. /\ x \in 1 .. Len(t) /\ y \in 1 .. Len(t)
    BY <1>7, <1>8
  <2>2. FillsAlike(t, D, f)
    BY <1>2, FillsCut
  <2> QED  BY <1>11, <1>12, <2>1, <2>2 DEF FillsAlike
<1> QED  BY <1>7, <1>9, <1>10, <1>11, <1>13 DEF GapComesFrom

-----------------------------------------------------------------------------
(* What dewrapping does to line breaks.                                    *)

BreakAt(t, p) == t[p] = Newline /\ t[p + 1] = Newline

(* The ways in which the blanks of a gap are respaced.                     *)
RespacedAs(b, p, gap, r) ==
  /\ \/ r = <<>>
     \/ r = <<" ">>
     \/ Len(r) = 2 /\ BreakAt(r, 1)
     \/ r = gap /\ \A j \in 1 .. Len(gap) : gap[j] # Newline
  /\ gap # <<>> /\ (\E o \in 1 .. (p - 1) : InBlock(b, o, p - 1)) => r = <<>> \/ r = <<" ">>
  /\ gap # <<>> /\ ~(\E o \in 1 .. (p - 1) : InBlock(b, o, p - 1))
       /\ (\E g \in 1 .. (Len(gap) - 1) : BreakAt(gap, g)) =>
         Len(r) = 2 /\ BreakAt(r, 1)

LEMMA RespacedCases ==
  ASSUME NEW b, NEW p, NEW gap \in Seq(Space), NEW r, r = Respaced(b, p, gap)
  PROVE  RespacedAs(b, p, gap, r)
<1> DEFINE Inner == \E o \in 1 .. (p - 1) : InBlock(b, o, p - 1)
           Broken == \E g \in 1 .. (Len(gap) - 1) : gap[g] = Newline /\ gap[g + 1] = Newline
<1>1. WordJoin = <<>> \/ WordJoin = <<" ">>
  BY DEF WordJoin
<1>2. Broken <=> \E g \in 1 .. (Len(gap) - 1) : BreakAt(gap, g)
  BY DEF BreakAt
<1>3. PICK two : two = <<Newline, Newline>>
  OBVIOUS
<1>4. Len(two) = 2 /\ BreakAt(two, 1)
  BY <1>3 DEF BreakAt
<1>5. gap = <<>> => r = <<>>
  BY DEF Respaced
<1>6. gap # <<>> /\ Inner => r = WordJoin
  BY DEF Respaced
<1>7. gap # <<>> /\ ~Inner =>
        r = IF Broken THEN two ELSE IF Newline \in Range(gap) THEN WordJoin ELSE gap
  BY <1>3 DEF Respaced
<1>8. Newline \notin Range(gap) => \A j \in 1 .. Len(gap) : gap[j] # Newline
  <2>1. DOMAIN gap = 1 .. Len(gap)
    OBVIOUS
  <2> QED  BY <2>1, Zenon DEF Range
<1>9. gap # <<>> /\ ~Inner /\ Broken => Len(r) = 2 /\ BreakAt(r, 1)
  BY <1>4, <1>7
<1>10. gap # <<>> /\ ~Inner /\ ~Broken =>
         r = <<>> \/ r = <<" ">> \/ (r = gap /\ \A j \in 1 .. Len(gap) : gap[j] # Newline)
  BY <1>1, <1>7, <1>8
<1> HIDE DEF Inner, Broken
<1>11. gap # <<>> /\ Inner => r = <<>> \/ r = <<" ">>
  BY <1>1, <1>6
<1>12. Inner <=> \E o \in 1 .. (p - 1) : InBlock(b, o, p - 1)
  BY DEF Inner
<1> QED  BY <1>2, <1>5, <1>9, <1>10, <1>11, <1>12 DEF RespacedAs

LEMMA OnlyOne == \A k \in 1 .. 1 : k = 1
OBVIOUS

(* A blank that is one space has no line break.                            *)
LEMMA NoBreakInJoin ==
  ASSUME NEW r, r = <<>> \/ r = <<" ">>, NEW j \in 1 .. Len(r)
  PROVE  r[j] # Newline
<1>1. CASE r = <<>>
  BY <1>1
<1>2. CASE r = <<" ">>
  <2>1. PICK c : c = " "
    OBVIOUS
  <2>2. r = <<c>> /\ c # Newline
    BY <1>2, <2>1, BlankAssumption
  <2>3. Len(r) = 1 /\ r[1] = c
    BY <2>2
  <2>4. j = 1
    BY <2>3, OnlyOne, Zenon
  <2> QED  BY <2>2, <2>3, <2>4
<1> QED  BY <1>1, <1>2

(* Blanks are no brackets: a block open at u is open up to the next word.  *)
LEMMA BlocksStayOpen ==
  ASSUME NEW b, NEW u, NEW v, Adjacent(b, u, v), Len(b) \in Nat
  PROVE  (\E o \in 1 .. u : InBlock(b, o, u)) <=> (\E o \in 1 .. (v - 1) : InBlock(b, o, v - 1))
<1>1. /\ u \in 1 .. (v - 1) /\ u \in Nat /\ v \in Nat
      /\ \A p \in (u + 1) .. (v - 1) : b[p] \in Space
  BY DEF Adjacent
<1>2. ASSUME NEW p \in (u + 1) .. (v - 1)
      PROVE  b[p] \notin {"[", "[Illustration:"} /\ b[p] # "]" /\ b[p] # "[Illustration:"
  BY <1>1, BlankAssumption
<1>3. ASSUME NEW o \in 1 .. u, NEW q \in u .. (v - 1)
      PROVE  Depth(b, o, q) = Depth(b, o, u)
  <2>1. ASSUME NEW p \in o .. q, p \notin o .. u
        PROVE  p \in (u + 1) .. (v - 1)
    BY <1>1, <2>1
  <2>2. \A p : p \in o .. u => p \in o .. q
    BY <1>1
  <2>3. {p \in o .. q : b[p] \in {"[", "[Illustration:"}} = {p \in o .. u : b[p] \in {"[", "[Illustration:"}}
    BY <1>2, <2>1, <2>2
  <2>4. {p \in o .. q : b[p] = "]"} = {p \in o .. u : b[p] = "]"}
    BY <1>2, <2>1, <2>2
  <2> QED  BY <2>3, <2>4 DEF Depth
<1>4. ASSUME NEW o \in 1 .. u, InBlock(b, o, u)
      PROVE  o \in 1 .. (v - 1) /\ InBlock(b, o, v - 1)
  <2>1. b[o] = "[Illustration:" /\ \A q \in o .. u : Depth(b, o, q) > 0
    BY <1>4 DEF InBlock
  <2>2. ASSUME NEW q \in o .. (v - 1) PROVE Depth(b, o, q) > 0
    <3>1. CASE q \in o .. u
      BY <2>1, <3>1
    <3>2. CASE q \notin o .. u
      <4>1. q \in u .. (v - 1) /\ u \in o .. u
        BY <1>1, <3>2
      <4> QED  BY <1>3, <2>1, <4>1
    <3> QED  BY <3>1, <3>2
  <2>3. o \in 1 .. (v - 1)
    BY <1>1
  <2> QED  BY <2>1, <2>2, <2>3 DEF InBlock
<1>5. ASSUME NEW o \in 1 .. (v - 1), InBlock(b, o, v - 1)
      PROVE  o \in 1 .. u /\ InBlock(b, o, u)
  <2>1. b[o] = "[Illustration:" /\ \A q \in o .. (v - 1) : Depth(b, o, q) > 0
    BY <1>5 DEF InBlock
  <2>2. o \notin (u + 1) .. (v - 1)
    BY <1>2, <2>1
  <2>3. o \in 1 .. u /\ \A q \in o .. u : q \in o .. (v - 1)
    BY <1>1, <2>2
  <2> QED  BY <2>1, <2>3 DEF InBlock
<1> QED  BY <1>4, <1>5

(* A gap is one space or less inside an illustration block; elsewhere a    *)
(* blank line stays one, and any line break that stays is a blank line.    *)
GapBreaks(b, u, v, r) ==
  /\ \A j \in 1 .. Len(r) : r[j] = Newline => Len(r) = 2 /\ BreakAt(r, 1)
  /\ (\E o \in 1 .. u : InBlock(b, o, u)) => \A j \in 1 .. Len(r) : r[j] # Newline
  /\ ~(\E o \in 1 .. u : InBlock(b, o, u)) /\ (\E p \in u .. (v - 2) : BreakAt(b, p + 1)) =>
       Len(r) = 2 /\ BreakAt(r, 1)

LEMMA GapBreaksThere ==
  ASSUME NEW b \in Seq(Token), NEW u, NEW v, Adjacent(b, u, v)
  PROVE  GapBreaks(b, u, v, Gap(b, u, v))
<1>1. /\ u \in 1 .. (v - 1) /\ v \in 1 .. Len(b) /\ u \in Nat /\ v \in Nat
      /\ \A p \in (u + 1) .. (v - 1) : b[p] \in Space
  BY DEF Adjacent
<1>2. ASSUME NEW p \in u .. (v - 2), p + 2 # v, NEW g \in Nat, g = p + 1 - u
      PROVE  /\ g \in 1 .. (v - 1 - u) /\ g + 1 \in 1 .. (v - 1 - u) /\ g \in 1 .. (v - 1 - u) - 1
             /\ u + g = p + 1 /\ u + (g + 1) = p + 2
  <2>1. u \in Nat /\ v \in Nat
    BY <1>1
  <2> QED  BY <1>2, <2>1
<1>3. PICK gap : gap = SubSeq(b, u + 1, v - 1)
  OBVIOUS
<1>4. gap \in Seq(Space) /\ Len(gap) = v - 1 - u
  <2>1. PICK k \in Int, n \in Int : k = u + 1 /\ n = v - 1
    BY <1>1
  <2>2. \A p \in k .. n : b[p] \in Space
    BY <1>1, <2>1
  <2>3. SubSeq(b, k, n) \in Seq(Space) /\ Len(SubSeq(b, k, n)) = IF k <= n THEN n - k + 1 ELSE 0
    BY <2>2, SubSeqProperties
  <2>4. (IF k <= n THEN n - k + 1 ELSE 0) = v - 1 - u
    BY <1>1, <2>1
  <2> QED  BY <1>3, <2>1, <2>3, <2>4
<1>5. PICK r : r = Respaced(b, v, gap)
  OBVIOUS
<1>6. /\ \/ r = <<>>
         \/ r = <<" ">>
         \/ Len(r) = 2 /\ BreakAt(r, 1)
         \/ r = gap /\ \A j \in 1 .. Len(gap) : gap[j] # Newline
      /\ gap # <<>> /\ (\E o \in 1 .. (v - 1) : InBlock(b, o, v - 1)) => r = <<>> \/ r = <<" ">>
      /\ gap # <<>> /\ ~(\E o \in 1 .. (v - 1) : InBlock(b, o, v - 1))
           /\ (\E g \in 1 .. (Len(gap) - 1) : BreakAt(gap, g)) => Len(r) = 2 /\ BreakAt(r, 1)
  <2>1. RespacedAs(b, v, gap, r)
    BY <1>4, <1>5, RespacedCases, Zenon
  <2> QED  BY <2>1 DEF RespacedAs
<1>7. (\E o \in 1 .. u : InBlock(b, o, u)) <=> (\E o \in 1 .. (v - 1) : InBlock(b, o, v - 1))
  BY BlocksStayOpen
<1>8. ASSUME NEW j \in 1 .. Len(r), r[j] = Newline PROVE Len(r) = 2 /\ BreakAt(r, 1)
  BY <1>6, <1>8, NoBreakInJoin
<1>9. ASSUME \E o \in 1 .. u : InBlock(b, o, u), NEW j \in 1 .. Len(r) PROVE r[j] # Newline
  <2>1. CASE gap = <<>>
    <3>1. r = <<>>
      BY <1>5, <2>1 DEF Respaced
    <3> QED  BY <3>1, NoBreakInJoin
  <2>2. CASE gap # <<>>
    BY <1>6, <1>7, <1>9, <2>2, NoBreakInJoin
  <2> QED  BY <2>1, <2>2
<1>10. ASSUME ~(\E o \in 1 .. u : InBlock(b, o, u)), NEW p \in u .. (v - 2), BreakAt(b, p + 1)
      PROVE  Len(r) = 2 /\ BreakAt(r, 1)
  <2>1. PICK g \in Nat : g = p + 1 - u
    BY <1>1
  <2>2. g \in 1 .. (v - 1 - u) /\ g + 1 \in 1 .. (v - 1 - u) /\ g \in 1 .. (Len(gap) - 1)
        /\ u + g = p + 1 /\ u + (g + 1) = p + 2
    <3>1. /\ g \in 1 .. (v - 1 - u) /\ g + 1 \in 1 .. (v - 1 - u) /\ g \in 1 .. (v - 1 - u) - 1
          /\ u + g = p + 1 /\ u + (g + 1) = p + 2
      <4>1. b[p + 2] = Newline /\ b[v] \notin Space /\ Newline \in Space
        BY <1>10, ClassAssumption DEF BreakAt, Adjacent
      <4>2. p + 2 # v
        BY <4>1
      <4> QED  BY <1>2, <2>1, <4>2
    <3> QED  BY <1>4, <3>1, Zenon
  <2>3. PICK n \in Nat : n = v - 1 /\ n <= Len(b)
    BY <1>1
  <2>4. \A j \in 1 .. (n - u) : gap[j] = b[u + j]
    BY <1>1, <1>3, <2>3, InStretch
  <2>5. gap[g] = b[p + 1] /\ gap[g + 1] = b[p + 2]
    BY <2>2, <2>3, <2>4
  <2>6. b[p + 1] = Newline /\ b[p + 2] = Newline
    BY <1>10 DEF BreakAt
  <2>7. BreakAt(gap, g)
    BY <2>5, <2>6 DEF BreakAt
  <2>8. gap # <<>>
    BY <2>2
  <2> QED  BY <1>6, <1>7, <1>10, <2>2, <2>7, <2>8
<1>11. GapBreaks(b, u, v, r)
  BY <1>8, <1>9, <1>10 DEF GapBreaks
<1> QED  BY <1>3, <1>5, <1>11 DEF Gap

-----------------------------------------------------------------------------
(* What the line breaks of a finished text do to its sentences.            *)

LEMMA AdjacentAreNeighbours ==
  ASSUME NEW x, NEW y, Adjacent(text, x, y)
  PROVE  x \in 1 .. N /\ y \in 1 .. N /\ Neighbours(x, y)
BY DEF Adjacent, Neighbours, N

(* A blank line in the gap parts its words.                                *)
LEMMA BlankLineParts ==
  ASSUME stage = "done", SentencesEndRight, NEW x, NEW y, Adjacent(text, x, y), N \in Nat,
         NEW r, Fills(text, x, y, r), Len(r) = 2, BreakAt(r, 1)
  PROVE  ~Together(x, y)
<1>1. x \in 1 .. N /\ y \in 1 .. N /\ Neighbours(x, y)
  BY AdjacentAreNeighbours
<1>2. y = x + 2 + 1 /\ \A j \in 1 .. 2 : text[x + j] = r[j]
  BY DEF Fills
<1>3. r[1] = Newline /\ r[2] = Newline
  <2>1. 1 + 1 = 2
    OBVIOUS
  <2> QED  BY <2>1 DEF BreakAt
<1>4. 1 \in 1 .. 2 /\ 2 \in 1 .. 2
  OBVIOUS
<1>5. BlankLine(x)
  BY <1>2, <1>3, <1>4 DEF BlankLine
<1>6. x \in x .. (y - 2)
  BY <1>1, <1>2
<1>7. SentenceEnd(x, y)
  BY <1>5, <1>6 DEF SentenceEnd
<1> QED  BY <1>1, <1>7 DEF SentencesEndRight

(* Without a line break, a sentence ends only after punctuation.           *)
LEMMA ProseStays ==
  ASSUME stage = "done", SentencesEndRight, NEW x, NEW y, Adjacent(text, x, y), N \in Nat,
         NEW r, Fills(text, x, y, r), \A j \in 1 .. Len(r) : r[j] # Newline, Len(r) \in Nat,
         Plain(text[x])
  PROVE  Together(x, y)
<1>1. x \in 1 .. N /\ y \in 1 .. N /\ Neighbours(x, y) /\ text[y] \notin Space
  BY AdjacentAreNeighbours DEF Adjacent
<1>2. PICK l \in Nat : l = Len(r)
  OBVIOUS
<1>3. /\ y = x + l + 1 /\ \A j \in 1 .. l : text[x + j] = r[j] /\ r[j] # Newline
  BY <1>2 DEF Fills
<1>4. ASSUME NEW p \in x .. (y - 2) PROVE ~BlankLine(p)
  <2>1. PICK j \in Nat : j = p + 1 - x
    BY <1>1
  <2>2. j \in 1 .. l /\ x + j = p + 1
    <3>1. x \in Nat /\ y = x + l + 1
      BY <1>1, <1>3
    <3> QED  BY <2>1, <3>1
  <2>3. text[p + 1] # Newline
    BY <1>3, <2>2
  <2> QED  BY <2>3 DEF BlankLine
<1>5. ASSUME NEW t \in 1 .. x PROVE ~StopAt(x, y, t)
  <2> SUFFICES ASSUME Trails(x, t) PROVE FALSE
    BY DEF StopAt
  <2>1. t = x \/ x \in (t + 1) .. x
    BY <1>1
  <2> QED  BY <2>1 DEF Trails, Plain
<1>6. ~SentenceEnd(x, y)
  BY <1>4, <1>5 DEF SentenceEnd
<1> QED  BY <1>1, <1>6 DEF SentencesEndRight

(* The blanks of a sentence lie between words of it.                       *)
LEMMA BlankIsBetween ==
  ASSUME SegInv, text \in Seq(Token), NEW s \in 1 .. Len(sentences),
         NEW p \in sentences[s][1] .. sentences[s][2], text[p] \in Space
  PROVE  \E x, y : Adjacent(text, x, y) /\ p \in (x + 1) .. (y - 1) /\ Together(x, y)
<1> PICK a, z : a = sentences[s][1] /\ z = sentences[s][2]
  OBVIOUS
<1>1. a \in 1 .. N /\ z \in 1 .. N
  BY SentencesWithin DEF SegInv
<1>2. text[a] \notin Space /\ text[z] \notin Space
  BY DEF SegInv, Apart
<1>3. p \in a .. z /\ p # a /\ p # z
  BY <1>2
<1>4. N \in Nat /\ N = Len(text)
  BY DEF N
<1>5. p \in Nat /\ a < p /\ p < z /\ p \in 1 .. N
  BY <1>1, <1>3, <1>4
<1> DEFINE Left == {q \in a .. p : text[q] \notin Space}
           Right == {q \in p .. z : text[q] \notin Space}
<1>6. PICK x \in Left : \A q \in Left : q <= x
  <2>1. a \in Left /\ Left \in SUBSET (0 .. p)
    BY <1>1, <1>2, <1>5
  <2>2. Max(Left) \in Left /\ \A q \in Left : q <= Max(Left)
    <3> HIDE DEF Left
    <3> QED  BY <1>5, <2>1, Greatest
  <2> QED  BY <2>2
<1>7. PICK y \in Right : \A q \in Right : y <= q
  <2>1. z \in Right /\ Right \in SUBSET Nat
    BY <1>1, <1>2, <1>5
  <2>2. \E y \in Right : \A q \in Right : y <= q
    <3> HIDE DEF Right
    <3> QED  BY <2>1, Least
  <2> QED  BY <2>2
<1>8. x \in a .. p /\ y \in p .. z /\ text[x] \notin Space /\ text[y] \notin Space
  OBVIOUS
<1>9. x < p /\ p < y /\ x \in 1 .. N /\ y \in 1 .. N
  <2>1. x # p /\ y # p
    BY <1>8
  <2> QED  BY <1>1, <1>4, <1>5, <1>8, <2>1
<1>10. ASSUME NEW q \in (x + 1) .. (y - 1) PROVE text[q] \in Space
  <2> SUFFICES ASSUME text[q] \notin Space PROVE FALSE
    OBVIOUS
  <2>1. q \in a .. p \/ q \in p .. z
    BY <1>1, <1>5, <1>8, <1>9
  <2>2. ~(q <= x) /\ ~(y <= q)
    BY <1>1, <1>5, <1>8, <1>9
  <2> QED  BY <1>6, <1>7, <2>1, <2>2
<1>11. Adjacent(text, x, y)
  <2>1. x < y
    BY <1>5, <1>9
  <2> QED  BY <1>4, <1>8, <1>9, <1>10, <2>1 DEF Adjacent
<1>12. Together(x, y)
  BY <1>8, <1>1, <1>5 DEF Together
<1>13. p \in (x + 1) .. (y - 1)
  BY <1>5, <1>9
<1> QED  BY <1>11, <1>12, <1>13

(* No sentence holds a line break: one that cleaning leaves in a gap is of *)
(* a blank line, and the gap parts its words.                              *)
LEMMA SentencesAreLines ==
  ASSUME stage = "done", SegInv, SentencesEndRight, text \in Seq(Token),
         NEW b \in Seq(Token), NEW f \in Nat, NEW e \in Nat, NEW c \in Nat,
         IsCut(text, Dewrapped(b), f, e, c),
         NEW s \in 1 .. Len(sentences), NEW p \in sentences[s][1] .. sentences[s][2]
  PROVE  text[p] # Newline
<1> SUFFICES ASSUME text[p] = Newline PROVE FALSE
  OBVIOUS
<1>1. text[p] \in Space
  BY ClassAssumption
<1>2. PICK x, y : Adjacent(text, x, y) /\ p \in (x + 1) .. (y - 1) /\ Together(x, y)
  BY <1>1, BlankIsBetween
<1>3. /\ x \in 1 .. Len(text) /\ y \in 1 .. Len(text)
      /\ text[x] \notin Space /\ text[y] \notin Space
  BY <1>2 DEF Adjacent
<1>4. PICK n : n = Count(text, x)
  OBVIOUS
<1>5. n \in 1 .. Len(Words(text))
  BY <1>3, <1>4, CountStep
<1>6. Count(text, y) = n + 1 /\ Count(text, y) \in 1 .. Len(Words(text))
  <2>1. Count(text, y) = Count(text, x) + 1
    BY <1>2, <1>3, NextWord
  <2>2. Count(text, y) \in 1 .. Len(Words(text))
    BY <1>3, CountStep
  <2> QED  BY <1>4, <2>1, <2>2
<1>7. WordAt(text, n) = x /\ WordAt(text, n + 1) = y
  <2>1. WordAt(text, n) = x
    BY <1>3, <1>4, WordAtIs
  <2>2. PICK k : k = n + 1 /\ k = Count(text, y)
    BY <1>6
  <2>3. WordAt(text, k) = y
    BY <1>3, <2>2, WordAtIs
  <2> QED  BY <2>1, <2>2, <2>3
<1>8. n \in Nat /\ 1 <= n /\ n + 1 <= Len(Words(text))
  BY <1>5, <1>6
<1>9. PICK m \in Nat : m = c + n
  BY <1>8
<1>10. GapComesFrom(text, b, n, m)
  BY <1>8, <1>9, GapComesFromThere
<1> PICK u, v, r : u = WordAt(b, m) /\ v = WordAt(b, m + 1) /\ r = Gap(b, u, v)
  OBVIOUS
<1>11. Adjacent(b, u, v) /\ Fills(text, x, y, r) /\ r \in Seq(Space)
  BY <1>7, <1>10 DEF GapComesFrom
<1>12. GapBreaks(b, u, v, r)
  BY <1>11, GapBreaksThere
<1>13. PICK l \in Nat : l = Len(r)
  BY <1>11
<1>14. y = x + l + 1 /\ \A j \in 1 .. l : text[x + j] = r[j]
  BY <1>11, <1>13 DEF Fills
<1>15. PICK j \in 1 .. l : r[j] = Newline
  <2>1. x \in Nat /\ y = x + l + 1 /\ p \in (x + 1) .. (y - 1)
    BY <1>2, <1>3, <1>14
  <2>2. PICK j \in 1 .. l : p = x + j
    <3>1. p - x \in 1 .. l /\ p = x + (p - x)
      BY <2>1
    <3> QED  BY <3>1
  <2>3. text[x + j] = Newline
    BY <2>2
  <2> QED  BY <1>14, <2>3
<1>16. Len(r) = 2 /\ BreakAt(r, 1)
  BY <1>12, <1>13, <1>15 DEF GapBreaks
<1>17. N \in Nat
  BY DEF N
<1> QED  BY <1>2, <1>11, <1>16, <1>17, BlankLineParts

(* The words m and m + 1 of b, which are n and n + 1 of the text.          *)
Parting(b, n, m) ==
  LET u == WordAt(b, m)
      v == WordAt(b, m + 1)
      together == Together(WordAt(text, n), WordAt(text, n + 1))
  IN  IF \E o \in 1 .. u : InBlock(b, o, u)
      THEN Plain(Words(b)[m]) => together
      ELSE (\E p \in u .. (v - 2) : b[p + 1] = Newline /\ b[p + 2] = Newline) => ~together

LEMMA ParagraphsPart ==
  ASSUME stage = "done", SentencesEndRight, text \in Seq(Token),
         NEW b \in Seq(Token), NEW f \in Nat, NEW e \in Nat, NEW c \in Nat,
         IsCut(text, Dewrapped(b), f, e, c),
         NEW n \in Nat, 1 <= n, n + 1 <= Len(Words(text)), NEW m \in Nat, m = c + n
  PROVE  Parting(b, n, m)
<1>1. GapComesFrom(text, b, n, m)
  BY GapComesFromThere
<1> PICK x, y, u, v : /\ x = WordAt(text, n) /\ y = WordAt(text, n + 1)
                      /\ u = WordAt(b, m) /\ v = WordAt(b, m + 1)
  OBVIOUS
<1> PICK r : r = Gap(b, u, v)
  OBVIOUS
<1>2. /\ Adjacent(text, x, y) /\ Adjacent(b, u, v) /\ Fills(text, x, y, r) /\ r \in Seq(Space)
      /\ text[x] = b[u] /\ Words(b)[m] = b[u]
  BY <1>1 DEF GapComesFrom
<1>3. GapBreaks(b, u, v, r)
  BY <1>2, GapBreaksThere
<1>4. N \in Nat /\ Len(r) \in Nat
  BY <1>2 DEF N
<1>5. CASE \E o \in 1 .. u : InBlock(b, o, u)
  <2>1. \A j \in 1 .. Len(r) : r[j] # Newline
    BY <1>3, <1>5 DEF GapBreaks
  <2>2. Plain(Words(b)[m]) => Plain(text[x])
    BY <1>2
  <2>3. Plain(text[x]) => Together(x, y)
    BY <1>2, <1>4, <2>1, ProseStays
  <2> QED  BY <1>5, <2>2, <2>3 DEF Parting
<1>6. CASE ~(\E o \in 1 .. u : InBlock(b, o, u))
  <2>1. ASSUME NEW p \in u .. (v - 2), b[p + 1] = Newline, b[p + 2] = Newline
        PROVE  ~Together(x, y)
    <3>1. BreakAt(b, p + 1)
      <4>1. (p + 1) + 1 = p + 2
        <5>1. u \in Int /\ v \in Int
          BY <1>2 DEF Adjacent
        <5> QED  BY <5>1
      <4> QED  BY <2>1, <4>1 DEF BreakAt
    <3>2. Len(r) = 2 /\ BreakAt(r, 1)
      BY <1>3, <1>6, <3>1 DEF GapBreaks
    <3> QED  BY <1>2, <1>4, <3>2, BlankLineParts
  <2> QED  BY <1>6, <2>1 DEF Parting
<1> QED  BY <1>5, <1>6

-----------------------------------------------------------------------------
(* How many words t has before position p.                                 *)
Before(t, p) == Len(Words(SubSeq(t, 1, p - 1)))

(* An anchor's words stand among the text's where the anchor stands in it. *)
LEMMA MatchOfWords ==
  ASSUME NEW t \in Seq(Token), NEW a \in Seq(Token), NEW p \in Matches(t, a)
  PROVE  /\ p \in Nat /\ 1 <= p /\ p + Len(a) - 1 <= Len(t)
         /\ Before(t, p) + 1 \in Matches(Words(t), Words(a))
         /\ Before(t, p + Len(a)) = Before(t, p) + Len(Words(a))
         /\ Before(t, p + Len(a)) <= Len(Words(t))
<1> PICK l \in Nat, k \in Nat : l = Len(a) /\ k = Len(t)
  OBVIOUS
<1>1. p \in 1 .. (k - l + 1) /\ SubSeq(t, p, p + l - 1) = a
  BY DEF Matches
<1> PICK n : n = p + l - 1
  OBVIOUS
<1>2. p \in Nat /\ n \in Nat /\ 1 <= p /\ p <= n + 1 /\ n <= Len(t) /\ n = (p + l) - 1
  BY <1>1
<1>3. StandsIn(t, p, n, Space)
  BY <1>2, Stretch
<1> PICK x, u : x = Words(SubSeq(t, 1, p - 1)) /\ u = Words(SubSeq(t, 1, n))
  OBVIOUS
<1> PICK y : y = Words(a)
  OBVIOUS
<1> PICK w : w = Words(t)
  OBVIOUS
<1>4. u = x \o y /\ Len(u) <= Len(w) /\ SubSeq(w, Len(x) + 1, Len(u)) = y
  BY <1>1, <1>3 DEF StandsIn, Words
<1>5. x \in Seq(Token) /\ y \in Seq(Token) /\ w \in Seq(Token)
  <2>1. \A q \in 1 .. (p - 1) : t[q] \in Token
    BY <1>2
  <2>2. SubSeq(t, 1, p - 1) \in Seq(Token)
    BY <1>2, <2>1, SubSeqProperties
  <2> QED  BY <2>2, WithoutTyped DEF Words
<1>6. Len(u) = Len(x) + Len(y) /\ Len(x) \in Nat /\ Len(y) \in Nat /\ Len(w) \in Nat
  BY <1>4, <1>5, ConcatProperties
<1>7. Before(t, p) = Len(x) /\ Before(t, p + Len(a)) = Len(u)
  BY <1>2 DEF Before
<1>8. Len(x) + 1 \in Matches(w, y)
  <2>1. Len(x) + 1 \in 1 .. (Len(w) - Len(y) + 1) /\ (Len(x) + 1) + Len(y) - 1 = Len(u)
    BY <1>4, <1>6
  <2> QED  BY <1>4, <2>1 DEF Matches
<1> QED  BY <1>2, <1>4, <1>6, <1>7, <1>8

(* An anchor is not blank: it has a word.                                  *)
LEMMA AnchorHasWords ==
  ASSUME NEW a, IsAnchor(a), a \in Seq(Token)
  PROVE  Len(Words(a)) \in Nat /\ Len(Words(a)) >= 1
<1>1. PICK p \in 1 .. Len(a) : a[p] \notin Space
  BY DEF IsAnchor
<1>2. p \in Nat /\ 1 <= p /\ p <= p + 1 /\ p <= Len(a)
  OBVIOUS
<1>3. StandsIn(a, p, p, Space)
  BY <1>2, Stretch
<1> PICK x, y, u : x = Words(SubSeq(a, 1, p - 1)) /\ y = Words(SubSeq(a, p, p)) /\ u = Words(SubSeq(a, 1, p))
  OBVIOUS
<1>4. u = x \o y /\ Len(u) <= Len(Words(a))
  BY <1>3 DEF StandsIn, Words
<1>5. y = <<a[p]>>
  <2>1. SubSeq(a, p, p) = <<a[p]>> \o SubSeq(a, p + 1, p)
    <3>1. p \in p .. Len(a)
      OBVIOUS
    <3> QED  BY <3>1, SubSeqRecursiveFirst
  <2>2. SubSeq(a, p + 1, p) = <<>>
    <3>1. p + 1 \in Int /\ p \in Int /\ p < p + 1
      OBVIOUS
    <3> QED  BY <3>1, SubSeqEmpty
  <2>3. PICK c \in Token : c = a[p]
    OBVIOUS
  <2>4. <<c>> \in Seq(Token)
    BY Tuples
  <2>5. <<c>> \o <<>> = <<c>>
    BY <2>4, ConcatEmptySeq
  <2>6. SubSeq(a, p, p) = <<c>>
    BY <2>1, <2>2, <2>3, <2>5
  <2>7. Without(<<c>>, Space) = <<c>>
    BY <1>1, <2>3, WithoutOne
  <2> QED  BY <2>3, <2>6, <2>7 DEF Words
<1>6. x \in Seq(Token) /\ Words(a) \in Seq(Token) /\ y \in Seq(Token)
  <2>1. \A q \in 1 .. (p - 1) : a[q] \in Token
    OBVIOUS
  <2>2. SubSeq(a, 1, p - 1) \in Seq(Token)
    BY <1>2, <2>1, SubSeqProperties
  <2>3. a[p] \in Token
    OBVIOUS
  <2> QED  BY <1>5, <2>2, <2>3, WithoutTyped, Tuples DEF Words
<1>7. Len(u) = Len(x) + 1
  <2>1. Len(y) = 1
    BY <1>5
  <2>2. Len(x \o y) = Len(x) + Len(y)
    BY <1>6, ConcatProperties
  <2> QED  BY <1>4, <2>1, <2>2
<1> QED  BY <1>4, <1>6, <1>7

(* The words of text are words p to q of the raw body, anchor to anchor,   *)
(* and text is the stretch of the cleaned body that they stand in.         *)
Spans(p, q) ==
  /\ Words(text) = SubSeq(Kept, p, q)
  /\ \E f, e, c \in Nat : IsCut(text, Prose, f, e, c) /\ p = c + 1
  /\ p \in Matches(Kept, Words(entry.firstLine))
  /\ q - Len(Words(entry.lastLine)) + 1 \in Matches(Kept, Words(entry.lastLine))

LEMMA BeforeIsNat ==
  ASSUME NEW t \in Seq(Token), NEW p \in Nat, 1 <= p, p - 1 <= Len(t)
  PROVE  Before(t, p) \in Nat
<1>1. \A q \in 1 .. (p - 1) : t[q] \in Token
  OBVIOUS
<1>2. SubSeq(t, 1, p - 1) \in Seq(Token)
  BY <1>1, SubSeqProperties
<1> QED  BY <1>2, WithoutTyped DEF Before, Words

(* What cleaning makes of the body changes with the entry only.            *)
LEMMA ProseStaysSo ==
  ASSUME entry' = entry, lang' = lang
  PROVE  Prose' = Prose /\ Body' = Body /\ Kept' = Kept
<1>1. Body' = Body /\ WordJoin' = WordJoin
  BY DEF Body, WordJoin
<1> QED  BY <1>1 DEF Prose, Kept, Dewrapped, Respaced

(* Trim hands on the words from the first anchor to the last.              *)
LEMMA TrimKeeps ==
  ASSUME entry \in UNION Catalogs, text \in Seq(Token), Words(text) = Kept, text = Prose, Trim
  PROVE  \/ stage' = "failed"
         \/ /\ stage' = "scan" /\ text' \in Seq(Token)
            /\ \E p, q \in 1 .. Len(Kept) : Spans(p, q)'
<1> PICK F, L : F = entry.firstLine /\ L = entry.lastLine
  OBVIOUS
<1>1. CASE ~CountIsOne(text, F) \/ ~CountIsOne(text, L)
  BY <1>1 DEF Trim, Fail
<1>2. CASE CountIsOne(text, F) /\ CountIsOne(text, L)
  <2> PICK first, last : first = Min(Matches(text, F)) /\ last = Min(Matches(text, L))
    OBVIOUS
  <2> PICK end : end = last + Len(L)
    OBVIOUS
  <2>1. CASE end <= first
    BY <1>2, <2>1 DEF Trim, Fail
  <2>2. CASE ~(end <= first)
    <3>1. /\ text' = SubSeq(text, first, end - 1) /\ stage' = "scan"
          /\ entry' = entry /\ lang' = lang
      BY <1>2, <2>2 DEF Trim, Becomes
    <3>2. F \in Seq(Token) /\ L \in Seq(Token)
      BY RawText
    <3>3. first \in Matches(text, F) /\ last \in Matches(text, L)
      BY <1>2, FirstMatch
    <3>4. /\ first \in Nat /\ 1 <= first
          /\ Before(text, first) + 1 \in Matches(Words(text), Words(F))
          /\ Before(text, first + Len(F)) = Before(text, first) + Len(Words(F))
          /\ Before(text, first + Len(F)) <= Len(Words(text))
      BY <3>2, <3>3, MatchOfWords
    <3>5. /\ last \in Nat /\ 1 <= last /\ last + Len(L) - 1 <= Len(text)
          /\ Before(text, last) + 1 \in Matches(Words(text), Words(L))
          /\ Before(text, end) = Before(text, last) + Len(Words(L))
          /\ Before(text, end) <= Len(Words(text))
      BY <3>2, <3>3, MatchOfWords
    <3>6. end \in Nat /\ end - 1 \in Nat /\ first <= (end - 1) + 1 /\ end - 1 <= Len(text)
      <4>1. PICK l \in Nat, k \in Nat : l = Len(L) /\ k = Len(text)
        BY <3>2
      <4>2. end \in Nat /\ last \in Nat /\ end = last + l /\ last + l - 1 <= k
        BY <3>5, <4>1
      <4>3. first < end /\ first \in Nat
        BY <2>2, <3>4, <4>2
      <4>4. PICK x \in Nat, y \in Nat, z \in Nat : x = first /\ y = last /\ z = end
        BY <4>2, <4>3
      <4>5. z = y + l /\ y + l - 1 <= k /\ x < z
        BY <4>2, <4>3, <4>4
      <4>6. z - 1 \in Nat /\ x <= (z - 1) + 1 /\ z - 1 <= k
        BY <4>5
      <4> QED  BY <4>1, <4>4, <4>6
    <3> PICK n \in Nat : n = end - 1
      BY <3>6
    <3>7. StandsIn(text, first, n, Space)
      BY <3>4, <3>6, Stretch
    <3> PICK p, q : p = Before(text, first) + 1 /\ q = Before(text, end)
      OBVIOUS
    <3>8. SubSeq(Kept, p, q) = Words(text')
      BY <3>1, <3>7 DEF StandsIn, Words, Before
    <3>9. /\ Before(text, first) \in Nat /\ Before(text, last) \in Nat /\ Before(text, end) \in Nat
          /\ Len(Kept) \in Nat
      <4>1. text \in Seq(Token) /\ Len(text) \in Nat /\ Len(L) \in Nat
        BY <3>2
      <4>2. last \in Nat /\ 1 <= last /\ last - 1 <= Len(text) /\ first - 1 <= Len(text)
        <5>1. PICK l \in Nat, k \in Nat, e \in Nat : l = Len(L) /\ k = Len(text) /\ e = end
          BY <3>6, <4>1
        <5>2. last \in Nat /\ 1 <= last /\ last + l - 1 <= k
          BY <3>5, <5>1
        <5>3. last - 1 <= k
          BY <5>2
        <5>4. first \in Nat /\ first <= (e - 1) + 1 /\ e - 1 <= k
          BY <3>4, <3>6, <5>1
        <5>5. first - 1 <= k
          BY <5>4
        <5> QED  BY <5>1, <5>2, <5>3, <5>5
      <4>3. 1 <= end
        BY <3>4, <3>6, <2>2
      <4>4. Before(text, first) \in Nat
        BY <3>4, <4>2, BeforeIsNat
      <4>5. Before(text, last) \in Nat
        BY <4>2, BeforeIsNat
      <4>6. Before(text, end) \in Nat
        BY <3>6, <4>3, BeforeIsNat
      <4>7. Len(Kept) \in Nat
        <5>1. Words(text) \in Seq(Token)
          BY WithoutTyped DEF Words
        <5> QED  BY <5>1
      <4> QED  BY <4>4, <4>5, <4>6, <4>7
    <3>10. /\ Len(Words(F)) \in Nat /\ Len(Words(F)) >= 1
           /\ Len(Words(L)) \in Nat /\ Len(Words(L)) >= 1
      BY <3>2, RawText, AnchorHasWords
    <3>11. p \in 1 .. Len(Kept) /\ q \in 1 .. Len(Kept) /\ q - Len(Words(L)) + 1 = Before(text, last) + 1
      <4>1. PICK x, y, z, k, f, l :
              /\ x = Before(text, first) /\ y = Before(text, last) /\ z = Before(text, end)
              /\ k = Len(Kept) /\ f = Len(Words(F)) /\ l = Len(Words(L))
        OBVIOUS
      <4>2. x \in Nat /\ y \in Nat /\ z \in Nat /\ k \in Nat /\ f \in Nat /\ l \in Nat
        BY <3>9, <3>10, <4>1
      <4>3. f >= 1 /\ l >= 1 /\ z = y + l /\ z <= k /\ x + f <= k
        BY <3>4, <3>5, <3>10, <4>1
      <4>4. x + 1 \in 1 .. k /\ z \in 1 .. k /\ z - l + 1 = y + 1
        BY <4>2, <4>3
      <4> QED  BY <4>1, <4>4
    <3>12. p \in Matches(Kept, Words(F)) /\ q - Len(Words(L)) + 1 \in Matches(Kept, Words(L))
      BY <3>4, <3>5, <3>11
    <3>13. text' \in Seq(Token)
      <4>1. ASSUME NEW x \in first .. n PROVE text[x] \in Token
        <5>1. x \in 1 .. Len(text)
          BY <3>4, <3>6
        <5> QED  BY <5>1, ElementOfSeq
      <4>2. first \in Int /\ n \in Int
        BY <3>4
      <4>3. SubSeq(text, first, n) \in Seq(Token)
        BY <4>1, <4>2, SubSeqProperties
      <4> QED  BY <3>1, <4>3
    <3>14. Kept' = Kept
      BY <3>1 DEF Kept, Body
    <3>15. PICK c \in Nat : c = Before(text, first)
      BY <3>9
    <3>16. IsCut(text, Prose, first, n, c)' /\ p = c + 1
      <4>1. c = Count(text, first - 1) /\ p = c + 1
        BY <3>15 DEF Before, Count
      <4>2. Prose' = text
        BY <3>1, ProseStaysSo
      <4>3. first \in Nat /\ 1 <= first /\ first <= n + 1 /\ n <= Len(text)
        BY <3>4, <3>6
      <4>4. text' = SubSeq(text, first, n)
        BY <3>1
      <4>5. IsCut(text', text, first, n, c)
        BY <3>13, <4>1, <4>3, <4>4 DEF IsCut
      <4>6. IsCut(text', Prose', first, n, c)
        BY <4>2, <4>5
      <4> QED  BY <4>1, <4>6
    <3>17. Spans(p, q)'
      BY <3>1, <3>4, <3>8, <3>12, <3>14, <3>16 DEF Spans
    <3> QED  BY <3>1, <3>11, <3>13, <3>17
  <2> QED  BY <2>1, <2>2
<1> QED  BY <1>1, <1>2

(* The inductive invariant: how the words come from the raw body to text.  *)
WordsInv ==
  /\ entry \in UNION Catalogs
  /\ stage = "clean" => text = entry.raw
  /\ stage = "trim" => /\ Body \in Seq(Token) /\ text = Prose
                       /\ text \in Seq(Token) /\ Words(text) = Kept
  /\ stage \in {"scan", "done"} =>
       /\ Body \in Seq(Token) /\ text \in Seq(Token)
       /\ \E p, q \in 1 .. Len(Kept) : Spans(p, q)

LEMMA WordsInit == Init => WordsInv
BY DEF Init, WordsInv

LEMMA WordsNext == WordsInv /\ [Next]_prepVars => WordsInv'
<1> SUFFICES ASSUME WordsInv, [Next]_prepVars
             PROVE  WordsInv'
  OBVIOUS
<1>1. entry' = entry /\ lang' = lang
  BY DEF Next, FetchText, FetchFails, Clean, Trim, StageA, Ended, Becomes, Fail, prepVars,
         Scan, Newlines, Pass, EnglishStop, JapaneseStop, Return, segVars
<1>2. entry' \in UNION Catalogs
  BY <1>1 DEF WordsInv
<1>3. CASE FetchText \/ FetchFails
  <2>1. stage' \in {"clean", "failed"} /\ (stage' = "clean" => text' = entry.raw)
    BY <1>3 DEF FetchText, FetchFails, Becomes, Fail
  <2> QED  BY <1>1, <1>2, <2>1 DEF WordsInv
<1>4. CASE Clean
  <2>1. text = entry.raw
    BY <1>4 DEF WordsInv, Clean
  <2>2. \/ stage' = "failed"
        \/ /\ stage' = "trim" /\ Body \in Seq(Token) /\ text' = Prose
           /\ text' \in Seq(Token) /\ Words(text') = Kept
    BY <1>4, <2>1, CleanKeeps DEF WordsInv
  <2>3. Prose' = Prose /\ Body' = Body /\ Kept' = Kept
    BY <1>1, ProseStaysSo
  <2> QED  BY <1>2, <2>2, <2>3 DEF WordsInv
<1>5. CASE Trim
  <2>1. Body \in Seq(Token) /\ text \in Seq(Token) /\ Words(text) = Kept /\ text = Prose
    BY <1>5 DEF WordsInv, Trim
  <2>2. \/ stage' = "failed"
        \/ /\ stage' = "scan" /\ text' \in Seq(Token)
           /\ \E p, q \in 1 .. Len(Kept) : Spans(p, q)'
    BY <1>5, <2>1, TrimKeeps DEF WordsInv
  <2>3. Body' = Body /\ Kept' = Kept
    BY <1>1, ProseStaysSo
  <2> QED  BY <1>2, <2>1, <2>2, <2>3 DEF WordsInv
<1>6. CASE StageA \/ UNCHANGED prepVars
  <2>1. /\ UNCHANGED <<entry, text>>
        /\ (stage \in {"scan", "done"} /\ stage' \in {"scan", "done"}) \/ stage' = stage
    BY <1>6 DEF StageA, Scan, Newlines, Pass, EnglishStop, JapaneseStop, Return, At, prepVars, segVars
  <2>2. Prose' = Prose /\ Body' = Body /\ Kept' = Kept
    BY <1>1, ProseStaysSo
  <2>3. \A p, q : Spans(p, q)' <=> Spans(p, q)
    BY <2>1, <2>2 DEF Spans
  <2> QED  BY <1>2, <2>1, <2>2, <2>3 DEF WordsInv
<1> QED  BY <1>3, <1>4, <1>5, <1>6 DEF Next, Ended

(* For every catalog, and every raw text, no word is lost, repeated or moved*)
(* between the raw body and the sentences: cleaning, trimming and          *)
(* segmentation hand on the words from the first anchor to the last.       *)
THEOREM BooksKeepTheirWords == Spec => []WordsAreKept
<1>1. PrepInv /\ WordsInv => WordsAreKept
  <2> SUFFICES ASSUME PrepInv, WordsInv, stage = "done"
               PROVE  \E p, q \in 1 .. Len(Kept) : Fits(p, q)
    BY DEF WordsAreKept
  <2>1. text \in Seq(Token) /\ SegInv
    BY DEF WordsInv, PrepInv
  <2>2. PICK p, q \in 1 .. Len(Kept) : Spans(p, q)
    BY DEF WordsInv
  <2>3. Told = Words(text)
    BY <2>1, TextIsTold
  <2> QED  BY <2>2, <2>3 DEF Spans, Fits
<1> QED  BY <1>1, PrepInit, PrepNext, WordsInit, WordsNext, PTL DEF Spec

(* For every catalog, and every raw text, the paragraphs of the body are   *)
(* what the sentences are cut from: no sentence holds a line break or      *)
(* spans a blank line, and an illustration's caption, however many blank   *)
(* lines it has, is only ever cut after punctuation.                       *)
THEOREM BooksKeepTheirParagraphs == Spec => []ParagraphsAreKept
<1>1. PrepInv /\ WordsInv => ParagraphsAreKept
  <2> SUFFICES ASSUME PrepInv, WordsInv, stage = "done"
               PROVE  ParagraphsAreKept
    BY DEF ParagraphsAreKept
  <2>1. /\ text \in Seq(Token) /\ Body \in Seq(Token) /\ SegInv /\ EndInv
    BY DEF WordsInv, PrepInv
  <2>2. SentencesEndRight
    BY <2>1, SegInvSays
  <2>3. PICK p, q \in 1 .. Len(Kept) : Spans(p, q)
    BY DEF WordsInv
  <2>4. PICK f \in Nat, e \in Nat, c \in Nat : IsCut(text, Dewrapped(Body), f, e, c) /\ p = c + 1
    BY <2>3 DEF Spans, Prose
  <2>5. Fits(p, q)
    BY <2>1, <2>3, TextIsTold DEF Spans, Fits
  <2>6. ASSUME NEW s \in 1 .. Len(sentences), NEW x \in sentences[s][1] .. sentences[s][2]
        PROVE  text[x] # Newline
    BY <2>1, <2>2, <2>4, SentencesAreLines
  <2>7. ASSUME NEW m \in p .. (q - 1)
        PROVE  Parting(Body, m - p + 1, m)
    <3>1. Kept \in Seq(Token)
      BY <2>1, WithoutTyped DEF Kept, Words
    <3>2. PICK h \in Nat : h = m /\ p <= h /\ h <= q - 1
      OBVIOUS
    <3>3. PICK n \in Nat : n = h - p + 1
      BY <3>2
    <3>4. Len(Words(text)) = q - p + 1
      <4>1. PICK k \in Nat : k = Len(Kept)
        BY <3>1
      <4>2. p \in 1 .. k /\ q \in 1 .. k
        BY <4>1
      <4>3. ASSUME NEW x \in p .. q PROVE Kept[x] \in Token
        <5>1. x \in 1 .. Len(Kept)
          BY <4>1, <4>2
        <5> QED  BY <3>1, <5>1, ElementOfSeq
      <4> QED  BY <2>3, <3>2, <4>2, <4>3, SubSeqProperties DEF Spans
    <3>5. 1 <= n /\ n + 1 <= Len(Words(text)) /\ h = c + n
      BY <2>4, <3>2, <3>3, <3>4
    <3>6. Parting(Body, n, h)
      BY <2>1, <2>2, <2>4, <3>5, ParagraphsPart
    <3> QED  BY <3>2, <3>3, <3>6
  <2>8. ASSUME NEW m \in p .. (q - 1)
        PROVE  LET parted == ~Together(WordAt(text, m - p + 1), WordAt(text, m - p + 2)) IN
               IF InIllustration(m) THEN Plain(Kept[m]) => ~parted
                                    ELSE BlankLineAfter(m) => parted
    <3>1. (m - p + 1) + 1 = m - p + 2
      OBVIOUS
    <3> QED  BY <2>7, <3>1 DEF Parting, InIllustration, BlankLineAfter, Kept
  <2> QED  BY <2>5, <2>6, <2>8 DEF ParagraphsAreKept
<1> QED  BY <1>1, PrepInit, PrepNext, WordsInit, WordsNext, PTL DEF Spec
=============================================================================
