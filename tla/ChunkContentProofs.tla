------------------------- MODULE ChunkContentProofs -------------------------
(***************************************************************************)
(* What TLAPS proves of ChunkContent, for any number of overlapping runs   *)
(* and any replies: what is made is valid, what is stored is one whole set *)
(* in order, and the rows evolve as ChunkLog allows.                       *)
(***************************************************************************)
EXTENDS ChunkRefinement, SequenceTheorems, TLAPS

(* What ValidateQuestionSet returns.                                       *)
Returned(set) == \E reply \in QuestionReplies : Accepts(reply) /\ set = Canonical(reply)

Increasing(r) == r["vocab"].id < r["grammar"].id /\ r["grammar"].id < r["comprehension"].id

(* The rows stored are one whole set, with ids in order, or none.          *)
StoredIsWhole == rows # NoRows =>
    /\ \A t \in Types : rows[t] # NoRow
    /\ StoredSet \in Sets
    /\ Increasing(rows)

(* What a run holds was validated, and a breakdown is made, and saved,     *)
(* only beside questions.                                                  *)
GenerationOf(p) ==
    /\ made[p] = <<>> \/ Returned(made[p])
    /\ pc[p] \in {"begin", "rows"} => made[p] # <<>>
    /\ content[p] # NoBreakdown =>
           content[p] \in BreakdownReplies /\ AcceptsBreakdown(content[p])
    /\ pc[p] = "saveBreakdown" => content[p] # NoBreakdown
    /\ pc[p] \in {"breakdown", "saveBreakdown"} => rows # NoRows

(* The row of the k-th question that p's transaction has written: the id   *)
(* of the row it replaces, or one beyond those written before it.          *)
WrittenRow(p, k) ==
    /\ tx[p][Order[k]].question = made[p][k]
    /\ rows # NoRows => tx[p][Order[k]].id = rows[Order[k]].id
    /\ \A j \in 1..(k - 1) :
        /\ tx[p][Order[j]] # NoRow
        /\ rows = NoRows => tx[p][Order[j]].id < tx[p][Order[k]].id

(* Only a run inside SaveChunk has written anything, and it holds the      *)
(* chunk's own row.                                                        *)
TransactionOf(p) ==
    /\ pc[p] # "rows" => tx[p] = NoRows
    /\ pc[p] = "rows" => owner[ChunkRow] = p
    /\ \A k \in 1..3 : tx[p][Order[k]] # NoRow => WrittenRow(p, k)

(* The inductive invariant.                                                *)
ChunkInv ==
    /\ TypeOK
    /\ StoredIsWhole
    /\ \A p \in Runs : GenerationOf(p) /\ TransactionOf(p)

-----------------------------------------------------------------------------
(* A set of three questions of different types has one of each.            *)
LEMMA OneOfEach ==
    ASSUME NEW set \in Seq(Question), OneOfEachType(set), NEW t \in Types
    PROVE  \E i \in DOMAIN set : set[i].type = t
<1>1. DOMAIN set = 1..3
  BY DEF OneOfEachType
<1>2. /\ set[1].type \in Types /\ set[2].type \in Types /\ set[3].type \in Types
      /\ set[1].type # set[2].type /\ set[1].type # set[3].type
      /\ set[2].type # set[3].type
  BY <1>1 DEF OneOfEachType
<1>3. t \in {set[1].type, set[2].type, set[3].type}
  BY <1>2 DEF Types
<1>. QED
  BY <1>1, <1>3

LEMMA OfTypeFacts ==
    ASSUME NEW set \in Seq(Question), OneOfEachType(set), NEW t \in Types
    PROVE  /\ \E i \in DOMAIN set : OfType(set, t) = set[i]
           /\ OfType(set, t).type = t
<1>1. \E i \in DOMAIN set : set[i].type = t
  BY OneOfEach
<1>. QED
  BY <1>1 DEF OfType

LEMMA OrderFacts ==
    /\ \A k \in 1..3 : Order[k] \in Types
    /\ \A t \in Types : \E k \in 1..3 : t = Order[k]
    /\ \A j, k \in 1..3 : j # k => Order[j] # Order[k]
    /\ Order[1] = "vocab" /\ Order[2] = "grammar" /\ Order[3] = "comprehension"
BY DEF Order, Types

(* What is returned has one valid question of each type, in order.         *)
LEMMA ReturnedFacts ==
    ASSUME NEW set, Returned(set)
    PROVE  /\ set \in Seq(Question) /\ DOMAIN set = 1..3
           /\ \A k \in 1..3 : set[k].type = Order[k] /\ ValidQuestion(set[k])
           /\ \E s \in Sets : \A k \in 1..3 : s[Order[k]] = set[k]
           /\ set # <<>>
<1>1. PICK reply \in QuestionReplies : Accepts(reply) /\ set = Canonical(reply)
  BY DEF Returned
<1>2. reply \in Seq(Question) /\ OneOfEachType(reply)
      /\ \A i \in DOMAIN reply : ValidQuestion(reply[i])
  BY <1>1, RepliesAreWellTyped DEF Accepts
<1>3. ASSUME NEW k \in 1..3
      PROVE  /\ set[k] = OfType(reply, Order[k])
             /\ set[k] \in Question /\ set[k].type = Order[k] /\ ValidQuestion(set[k])
  <2>1. Order[k] \in Types
    BY OrderFacts
  <2>2. set[k] = OfType(reply, Order[k])
    BY <1>1 DEF Canonical
  <2>3. \A i \in DOMAIN reply : reply[i] \in Question
    BY <1>2
  <2>. QED
    BY <1>2, <2>1, <2>2, <2>3, OfTypeFacts
<1>4. DOMAIN set = 1..3 /\ set \in [1..3 -> Question]
  BY <1>1, <1>3 DEF Canonical
<1>5. set \in Seq(Question)
  BY <1>4, SeqDef
<1>6. ByType(reply) \in Sets
  BY <1>1 DEF Sets
<1>7. \A k \in 1..3 : ByType(reply)[Order[k]] = set[k]
  BY <1>3, OrderFacts DEF ByType
<1>8. set # <<>>
  <2>1. \A e : e = <<>> => e \in Seq(Question) /\ Len(e) = 0
    OBVIOUS
  <2>2. set = <<>> => Len(set) = 0 /\ DOMAIN set = 1..Len(set)
    BY <2>1
  <2>. QED
    BY <1>4, <2>2
<1>. QED
  BY <1>3, <1>4, <1>5, <1>6, <1>7, <1>8

(* What is returned, the schema accepts and the app can show.              *)
LEMMA ReturnedIsUsable ==
    ASSUME NEW set, Returned(set), NEW k \in 1..3
    PROVE  SchemaHolds(set[k]) /\ Answerable(set[k])
<1>1. /\ set[k] \in Question /\ set[k].type \in Types /\ ValidQuestion(set[k])
  <2>1. set \in Seq(Question) /\ k \in DOMAIN set
    BY ReturnedFacts
  <2>. QED
    BY <2>1, ReturnedFacts, OrderFacts
<1>2. /\ set[k].answer \in Int /\ set[k].options \in Seq(Option)
      /\ FourOptions(set[k]) /\ HighlightFits(set[k])
      /\ 0 <= set[k].answer /\ set[k].answer < Len(set[k].options)
  BY <1>1 DEF ValidQuestion, Question
<1>3. Len(set[k].options) = 4 /\ DOMAIN set[k].options = 1..4
  BY <1>2 DEF FourOptions
<1>4. SchemaHolds(set[k])
  <2>1. set[k].answer \in 0..3
    BY <1>2, <1>3
  <2>2. set[k].type = "comprehension" <=> set[k].highlight = ""
    BY <1>2 DEF HighlightFits, Empty
  <2>. QED
    BY <1>1, <1>3, <2>1, <2>2 DEF SchemaHolds
<1>5. Answerable(set[k])
  <2>1. set[k].answer + 1 \in DOMAIN set[k].options
    BY <1>2, <1>3
  <2>2. \A i \in DOMAIN set[k].options \ {set[k].answer + 1} :
            Trim(set[k].options[i]) # Trim(set[k].options[set[k].answer + 1])
    BY <1>2, <1>3, <2>1 DEF FourOptions
  <2>3. set[k].highlight # "" => set[k].highlight \in Spans
    BY <1>2 DEF HighlightFits, Empty
  <2>. QED
    BY <2>1, <2>2, <2>3 DEF Answerable
<1>. QED
  BY <1>4, <1>5

LEMMA AcceptedIsReadable ==
    ASSUME NEW b \in BreakdownReplies, AcceptsBreakdown(b)
    PROVE  b \in Breakdown /\ b # NoBreakdown /\ Readable(b)
<1>1. b \in Breakdown /\ b.japanese \in Nat /\ b.latin \in Nat
  BY RepliesAreWellTyped DEF Breakdown
<1>2. b # NoBreakdown
  BY DEF AcceptsBreakdown, HasText, NoBreakdown
<1>3. Readable(b)
  BY <1>1 DEF AcceptsBreakdown, LooksNative, Readable
<1>. QED
  BY <1>1, <1>2, <1>3

(* A row is told from no row by its id.                                    *)
LEMMA RowFacts ==
    /\ NoRow \in Row /\ NoRow.id = 0
    /\ \A r \in Row : r.id \in Nat /\ (r = NoRow <=> r.id = 0)
    /\ \A n \in Nat \ {0}, q \in Question : [id |-> n, question |-> q] \in Row
BY DEF Row, NoRow

LEMMA NoRowsFacts ==
    /\ NoRows \in [Types -> Row]
    /\ \A t \in Types : NoRows[t] = NoRow
BY RowFacts DEF NoRows

-----------------------------------------------------------------------------
(* The frame of a step of p: what the other runs hold stays as it is.      *)
Kept(q) ==
    /\ pc'[q] = pc[q] /\ tx'[q] = tx[q]
    /\ made'[q] = made[q] /\ content'[q] = content[q]

LEMMA OtherIsKept ==
    ASSUME ChunkInv, NEW q \in Runs, Kept(q),
           rows' = rows \/ (rows' # NoRows /\ pc[q] # "rows"),
           pc[q] = "rows" => owner'[ChunkRow] = q
    PROVE  GenerationOf(q)' /\ TransactionOf(q)'
<1>1. GenerationOf(q) /\ TransactionOf(q)
  BY DEF ChunkInv
<1>2. GenerationOf(q)'
  BY <1>1 DEF Kept, GenerationOf
<1>3. CASE rows' = rows
  <2>1. \A k \in 1..3 : WrittenRow(q, k) => WrittenRow(q, k)'
    BY <1>3 DEF Kept, WrittenRow
  <2>2. /\ pc'[q] # "rows" => tx'[q] = NoRows
        /\ pc'[q] = "rows" => owner'[ChunkRow] = q
        /\ \A k \in 1..3 : tx'[q][Order[k]] # NoRow => WrittenRow(q, k)'
    BY <1>1, <2>1 DEF Kept, TransactionOf
  <2>. QED
    BY <1>2, <2>2 DEF TransactionOf
<1>4. CASE pc[q] # "rows"
  <2>1. tx[q] = NoRows /\ \A k \in 1..3 : tx[q][Order[k]] = NoRow
    BY <1>1, <1>4, NoRowsFacts, OrderFacts DEF TransactionOf
  <2>2. /\ pc'[q] # "rows" /\ tx'[q] = NoRows
        /\ \A k \in 1..3 : tx'[q][Order[k]] = NoRow
    BY <1>4, <2>1 DEF Kept
  <2>. QED
    BY <1>2, <2>2 DEF TransactionOf
<1>. QED
  BY <1>2, <1>3, <1>4

LEMMA KeptIsEnough ==
    ASSUME ChunkInv, NEW p \in Runs,
           TypeOK', StoredIsWhole', GenerationOf(p)', TransactionOf(p)',
           \A q \in Runs \ {p} :
               /\ Kept(q)
               /\ rows' = rows \/ (rows' # NoRows /\ pc[q] # "rows")
               /\ pc[q] = "rows" => owner'[ChunkRow] = q
    PROVE  ChunkInv'
<1>1. \A q \in Runs \ {p} : GenerationOf(q)' /\ TransactionOf(q)'
  BY OtherIsKept
<1>. QED
  BY <1>1 DEF ChunkInv

LEMMA ChunkFacts ==
    ASSUME ChunkInv, NEW p \in Runs
    PROVE  /\ TypeOK /\ StoredIsWhole /\ GenerationOf(p) /\ TransactionOf(p)
BY DEF ChunkInv

LEMMA SameRows ==
    ASSUME ChunkInv, rows' = rows
    PROVE  StoredIsWhole'
BY DEF ChunkInv, StoredIsWhole, StoredSet, Increasing, Sets, ByType

LEMMA ChunkInvInit == Init => ChunkInv
<1> SUFFICES ASSUME Init PROVE ChunkInv
  OBVIOUS
<1>1. TypeOK
  <2>1. NoBreakdown \in Breakdown
    BY DEF NoBreakdown, Breakdown
  <2>2. <<>> \in Seq(Question)
    OBVIOUS
  <2>. QED
    BY <2>1, <2>2, NoRowsFacts, RowFacts, RetriesAssumption DEF Init, TypeOK, Steps
<1>2. StoredIsWhole
  BY DEF Init, StoredIsWhole
<1>3. ASSUME NEW p \in Runs PROVE GenerationOf(p) /\ TransactionOf(p)
  BY NoRowsFacts, OrderFacts DEF Init, GenerationOf, TransactionOf
<1>. QED
  BY <1>1, <1>2, <1>3 DEF ChunkInv

-----------------------------------------------------------------------------
(* The steps up to a save touch the run's own memory only.                 *)
LEMMA MemoryStep ==
    ASSUME ChunkInv, NEW p \in Runs, UNCHANGED <<store, serial, owner, tx>>,
           pc[p] # "rows", NEW s \in Steps \ {"rows"}, pc' = [pc EXCEPT ![p] = s],
           attempt' \in [Runs -> 0..MaxRetries],
           made' = made \/ \E set : Returned(set) /\ made' = [made EXCEPT ![p] = set],
           \/ content' = content
           \/ \E b \in BreakdownReplies :
                  AcceptsBreakdown(b) /\ content' = [content EXCEPT ![p] = b],
           s = "begin" => made'[p] # <<>>,
           s = "saveBreakdown" => content'[p] # NoBreakdown,
           s \in {"breakdown", "saveBreakdown"} => rows # NoRows
    PROVE  ChunkInv'
<1>1. TypeOK /\ GenerationOf(p) /\ TransactionOf(p)
  BY ChunkFacts
<1>2. /\ made' \in [Runs -> Seq(Question)] /\ \A q \in Runs \ {p} : made'[q] = made[q]
      /\ made'[p] = <<>> \/ Returned(made'[p])
  <2>1. made \in [Runs -> Seq(Question)] /\ (made[p] = <<>> \/ Returned(made[p]))
    BY <1>1 DEF TypeOK, GenerationOf
  <2>2. CASE made' = made
    BY <2>1, <2>2
  <2>3. ASSUME NEW set, Returned(set), made' = [made EXCEPT ![p] = set]
        PROVE  <1>2!:
    <3>1. set \in Seq(Question)
      BY <2>3, ReturnedFacts
    <3>. QED
      BY <2>1, <2>3, <3>1
  <2>. QED
    BY <2>2, <2>3
<1>3. /\ content' \in [Runs -> Breakdown]
      /\ \A q \in Runs \ {p} : content'[q] = content[q]
      /\ content'[p] # NoBreakdown =>
             content'[p] \in BreakdownReplies /\ AcceptsBreakdown(content'[p])
  BY <1>1, AcceptedIsReadable DEF TypeOK, GenerationOf
<1>4. /\ pc' \in [Runs -> Steps] /\ pc'[p] = s
      /\ \A q \in Runs \ {p} : pc'[q] = pc[q]
  BY <1>1 DEF TypeOK
<1>5. TypeOK'
  BY <1>1, <1>2, <1>3, <1>4 DEF TypeOK, store
<1>6. StoredIsWhole'
  BY SameRows DEF store
<1>7. GenerationOf(p)'
  BY <1>1, <1>2, <1>3, <1>4 DEF GenerationOf, store
<1>8. TransactionOf(p)'
  <2>1. tx[p] = NoRows /\ tx'[p] = NoRows
    BY <1>1 DEF TransactionOf
  <2>. QED
    BY <1>4, <2>1, NoRowsFacts, OrderFacts DEF TransactionOf
<1>9. \A q \in Runs \ {p} : Kept(q) /\ (pc[q] = "rows" => owner'[ChunkRow] = q)
  BY <1>2, <1>3, <1>4 DEF Kept, ChunkInv, TransactionOf
<1>. QED
  BY <1>5, <1>6, <1>7, <1>8, <1>9, KeptIsEnough DEF store

LEMMA StartKeeps ==
    ASSUME ChunkInv, NEW p \in Runs, Start(p)
    PROVE  ChunkInv'
<1>1. TypeOK /\ attempt \in [Runs -> 0..MaxRetries] /\ 0 \in 0..MaxRetries
  BY ChunkFacts, RetriesAssumption DEF TypeOK
<1>2. /\ pc[p] # "rows" /\ UNCHANGED <<store, serial, owner, made, content, tx>>
      /\ attempt' \in [Runs -> 0..MaxRetries]
      /\ \E s \in {"questions", "breakdown", "complete"} :
            pc' = [pc EXCEPT ![p] = s] /\ (s = "breakdown" => rows # NoRows)
  BY <1>1 DEF Start, Generate, GoTo
<1>3. PICK s \in {"questions", "breakdown", "complete"} :
          pc' = [pc EXCEPT ![p] = s] /\ (s = "breakdown" => rows # NoRows)
  BY <1>2
<1>. QED
  BY <1>2, <1>3, MemoryStep DEF Steps, Ended

(* An attempt fails: the loop goes on or ends.                             *)
LEMMA FailKeeps ==
    ASSUME ChunkInv, NEW p \in Runs, pc[p] \in {"questions", "breakdown"},
           UNCHANGED <<store, serial, owner, tx, made, content>>, FailAttempt(p)
    PROVE  ChunkInv'
<1>1. /\ attempt \in [Runs -> 0..MaxRetries] /\ pc \in [Runs -> Steps]
      /\ pc[p] = "breakdown" => rows # NoRows
  BY ChunkFacts DEF TypeOK, GenerationOf
<1>2. CASE attempt[p] < MaxRetries
  <2>1. attempt' \in [Runs -> 0..MaxRetries]
    <3>1. attempt[p] \in Int /\ 0 <= attempt[p]
      BY <1>1, RetriesAssumption
    <3>2. attempt[p] + 1 \in 0..MaxRetries
      BY <1>2, <3>1, RetriesAssumption
    <3>. QED
      BY <1>1, <1>2, <3>2 DEF FailAttempt
  <2>2. pc' = [pc EXCEPT ![p] = pc[p]]
    BY <1>1, <1>2 DEF FailAttempt
  <2>. QED
    BY <1>1, <2>1, <2>2, MemoryStep DEF Steps
<1>3. CASE ~ (attempt[p] < MaxRetries)
  <2>1. attempt' \in [Runs -> 0..MaxRetries] /\ pc' = [pc EXCEPT ![p] = "gaveUp"]
    BY <1>1, <1>3 DEF FailAttempt, GoTo
  <2>. QED
    BY <2>1, MemoryStep DEF Steps, Ended
<1>. QED
  BY <1>2, <1>3

LEMMA AcceptQuestionsKeeps ==
    ASSUME ChunkInv, NEW p \in Runs, AcceptQuestions(p)
    PROVE  ChunkInv'
<1>1. PICK set \in QuestionReplies :
          Accepts(set) /\ made' = [made EXCEPT ![p] = Canonical(set)]
  BY DEF AcceptQuestions
<1>2. Returned(Canonical(set))
  BY <1>1 DEF Returned
<1>3. made \in [Runs -> Seq(Question)] /\ attempt \in [Runs -> 0..MaxRetries]
  BY ChunkFacts DEF TypeOK
<1>4. made'[p] # <<>>
  BY <1>1, <1>2, <1>3, ReturnedFacts
<1>. QED
  BY <1>1, <1>2, <1>3, <1>4, MemoryStep DEF AcceptQuestions, Ask, GoTo, Steps

LEMMA AcceptBreakdownKeeps ==
    ASSUME ChunkInv, NEW p \in Runs, AcceptBreakdown(p)
    PROVE  ChunkInv'
<1>1. PICK b \in BreakdownReplies :
          AcceptsBreakdown(b) /\ content' = [content EXCEPT ![p] = b]
  BY DEF AcceptBreakdown
<1>2. content \in [Runs -> Breakdown] /\ attempt \in [Runs -> 0..MaxRetries] /\ rows # NoRows
  BY ChunkFacts DEF AcceptBreakdown, Ask, TypeOK, GenerationOf
<1>3. content'[p] # NoBreakdown
  BY <1>1, <1>2, AcceptedIsReadable
<1>. QED
  BY <1>1, <1>2, <1>3, MemoryStep DEF AcceptBreakdown, Ask, GoTo, Steps

-----------------------------------------------------------------------------
(* SaveChunk.  Of two runs only one is inside it, by the chunk's own row.  *)
LEMMA OneSaves ==
    ASSUME ChunkInv, NEW p \in Runs, NEW q \in Runs \ {p},
           pc[p] = "rows" \/ owner[ChunkRow] \in {NoRun, p}
    PROVE  pc[q] # "rows"
BY RunsAssumption DEF ChunkInv, TransactionOf

LEMMA BeginKeeps ==
    ASSUME ChunkInv, NEW p \in Runs, BeginSave(p)
    PROVE  ChunkInv'
<1>1. TypeOK /\ GenerationOf(p) /\ TransactionOf(p)
  BY ChunkFacts
<1>2. /\ pc[p] = "begin" /\ pc' = [pc EXCEPT ![p] = "rows"]
      /\ owner[ChunkRow] \in {NoRun, p} /\ owner' = [owner EXCEPT ![ChunkRow] = p]
      /\ UNCHANGED <<rows, stored, serial, attempt, made, content, tx>>
  BY DEF BeginSave, Lock, GoTo, store, memoryOf
<1>3. ChunkRow \notin Types /\ ChunkRow \in Keys /\ Types \subseteq Keys
  BY DEF ChunkRow, Types, Keys
<1>4. owner' \in [Keys -> Runs \cup {NoRun}] /\ owner'[ChunkRow] = p
      /\ \A t \in Types : owner'[t] = owner[t]
  BY <1>1, <1>2, <1>3 DEF TypeOK
<1>5. pc' \in [Runs -> Steps] /\ pc'[p] = "rows" /\ \A q \in Runs \ {p} : pc'[q] = pc[q]
  BY <1>1, <1>2 DEF TypeOK, Steps
<1>6. TypeOK'
  BY <1>1, <1>2, <1>4, <1>5 DEF TypeOK
<1>7. tx'[p] = NoRows /\ \A k \in 1..3 : tx'[p][Order[k]] = NoRow
  BY <1>1, <1>2, NoRowsFacts, OrderFacts DEF TransactionOf
<1>8. TransactionOf(p)' /\ GenerationOf(p)'
  BY <1>1, <1>2, <1>4, <1>5, <1>7 DEF TransactionOf, GenerationOf
<1>9. \A q \in Runs \ {p} : Kept(q) /\ pc[q] # "rows"
  BY <1>2, <1>5, OneSaves DEF Kept
<1>. QED
  BY <1>2, <1>6, <1>8, <1>9, SameRows, KeptIsEnough

LEMMA UpsertedFacts ==
    ASSUME TypeOK, StoredIsWhole, NEW q \in Question, q.type \in Types
    PROVE  /\ Upserted(q) \in Row /\ Upserted(q) # NoRow /\ Upserted(q).question = q
           /\ Upserted(q).id \in Nat /\ Upserted(q).id <= serial + 1
           /\ rows # NoRows => Upserted(q).id = rows[q.type].id
           /\ rows = NoRows => Upserted(q).id = serial + 1
<1>1. /\ serial \in Nat /\ rows[q.type] \in Row /\ rows[q.type].id <= serial
  BY DEF TypeOK
<1>2. /\ rows = NoRows => rows[q.type] = NoRow
      /\ rows # NoRows => rows[q.type] # NoRow
  BY NoRowsFacts DEF StoredIsWhole
<1>3. rows[q.type].id \in Nat /\ (rows[q.type] # NoRow => rows[q.type].id # 0)
  BY <1>1, RowFacts
<1>4. /\ Upserted(q).id = IF rows[q.type] = NoRow THEN serial + 1 ELSE rows[q.type].id
      /\ Upserted(q).question = q
      /\ Upserted(q) = [id |-> Upserted(q).id, question |-> q]
  BY DEF Upserted
<1>5. Upserted(q).id \in Nat \ {0} /\ Upserted(q).id <= serial + 1
  <2>1. serial + 1 \in Nat \ {0} /\ rows[q.type].id <= serial + 1
    BY <1>1, <1>3
  <2>. QED
    BY <1>3, <1>4, <2>1
<1>6. Upserted(q) \in Row /\ Upserted(q) # NoRow
  BY <1>4, <1>5, RowFacts
<1>. QED
  BY <1>2, <1>4, <1>5, <1>6

LEMMA SaveRowKeeps ==
    ASSUME ChunkInv, NEW p \in Runs, SaveRow(p)
    PROVE  ChunkInv'
<1>1. TypeOK /\ StoredIsWhole /\ GenerationOf(p) /\ TransactionOf(p)
  BY ChunkFacts
<1>2. /\ pc[p] = "rows" /\ serial' = serial + 1
      /\ UNCHANGED <<rows, stored, pc, attempt, made, content>>
  BY DEF SaveRow, store, memoryOf
<1>3. PICK k \in DOMAIN made[p] :
          /\ IsNext(p, k)
          /\ Lock(p, made[p][k].type)
          /\ tx' = [tx EXCEPT ![p][made[p][k].type] = Upserted(made[p][k])]
  BY DEF SaveRow
<1>4. Returned(made[p]) /\ DOMAIN made[p] = 1..3 /\ k \in 1..3
      /\ made[p] \in Seq(Question)
      /\ \A j \in 1..3 : made[p][j].type = Order[j]
  BY <1>1, <1>2, ReturnedFacts DEF GenerationOf
<1>5. Order[k] \in Types /\ made[p][k] \in Question /\ made[p][k].type = Order[k]
  BY <1>4, OrderFacts
<1> DEFINE u == Upserted(made[p][k])
<1>6. /\ u \in Row /\ u # NoRow /\ u.question = made[p][k]
      /\ u.id \in Nat /\ u.id <= serial + 1
      /\ rows # NoRows => u.id = rows[Order[k]].id
      /\ rows = NoRows => u.id = serial + 1
  BY <1>1, <1>5, UpsertedFacts
<1> HIDE DEF u
<1>7. /\ tx[p][Order[k]] = NoRow
      /\ \A j \in 1..(k - 1) : tx[p][Order[j]] # NoRow
  <2>1. \A j \in 1..3 : tx[p][Order[j]] = NoRow => j \in Unwritten(p)
    BY <1>4 DEF Unwritten
  <2>2. k \in Unwritten(p) /\ \A j \in Unwritten(p) : k <= j
    BY <1>3 DEF IsNext
  <2>3. \A j \in 1..(k - 1) : j \in 1..3 /\ ~ (k <= j)
    BY <1>4
  <2>4. tx[p][Order[k]] = NoRow
    BY <1>4, <2>2 DEF Unwritten
  <2>. QED
    BY <2>1, <2>2, <2>3, <2>4
<1>8. \A j \in 1..3 : k < j => tx[p][Order[j]] = NoRow
  <2>1. ASSUME NEW j \in 1..3, k < j, tx[p][Order[j]] # NoRow PROVE FALSE
    <3>1. WrittenRow(p, j) /\ k \in 1..(j - 1)
      BY <1>1, <1>4, <2>1 DEF TransactionOf
    <3>. QED
      BY <1>7, <3>1 DEF WrittenRow
  <2>. QED
    BY <2>1
<1>9. /\ tx' \in [Runs -> [Types -> Row]]
      /\ tx'[p][Order[k]] = u
      /\ \A t \in Types : t # Order[k] => tx'[p][t] = tx[p][t]
      /\ \A q \in Runs \ {p} : tx'[q] = tx[q]
  <2>1. tx \in [Runs -> [Types -> Row]] /\ tx' = [tx EXCEPT ![p][Order[k]] = u]
    BY <1>1, <1>3, <1>5 DEF TypeOK, u
  <2>. QED
    BY <1>5, <1>6, <2>1
<1>10. /\ owner' \in [Keys -> Runs \cup {NoRun}] /\ owner'[Order[k]] = p
       /\ owner[Order[k]] \in {NoRun, p}
       /\ \A key \in Keys : key # Order[k] => owner'[key] = owner[key]
  <2>1. owner[Order[k]] \in {NoRun, p} /\ owner' = [owner EXCEPT ![Order[k]] = p]
    BY <1>3, <1>5 DEF Lock
  <2>2. Order[k] \in Keys /\ owner \in [Keys -> Runs \cup {NoRun}]
    BY <1>1, <1>5 DEF Keys, TypeOK
  <2>. QED
    BY <2>1, <2>2
<1>11. ChunkRow \in Keys /\ ChunkRow # Order[k] /\ Types \subseteq Keys
  BY <1>5 DEF ChunkRow, Keys, Types
<1>12. /\ serial \in Nat /\ serial' \in Nat
       /\ \A t \in Types : rows[t].id \in Nat /\ rows[t].id <= serial'
       /\ \A q \in Runs, t \in Types :
              tx[q][t].id \in Nat /\ tx[q][t].id <= serial /\ tx[q][t].id <= serial'
  <2>1. /\ serial \in Nat /\ \A t \in Types : rows[t] \in Row /\ rows[t].id <= serial
        /\ \A q \in Runs, t \in Types : tx[q][t] \in Row /\ tx[q][t].id <= serial
    BY <1>1 DEF TypeOK
  <2>2. /\ \A t \in Types : rows[t].id \in Nat
        /\ \A q \in Runs, t \in Types : tx[q][t].id \in Nat
    BY <2>1, RowFacts
  <2>3. \A n \in Nat : n <= serial => n <= serial'
    BY <1>2, <2>1
  <2>. QED
    BY <1>2, <2>1, <2>2, <2>3
<1>13. \A q \in Runs, t \in Types :
           tx'[q][t].id <= serial' /\ (tx'[q][t] # NoRow => owner'[t] = q)
  <2>1. ASSUME NEW t \in Types
        PROVE  tx'[p][t].id <= serial' /\ (tx'[p][t] # NoRow => owner'[t] = p)
    <3>1. CASE t = Order[k]
      BY <1>2, <1>6, <1>9, <1>10, <3>1
    <3>2. CASE t # Order[k]
      BY <1>1, <1>9, <1>10, <1>11, <1>12, <3>2 DEF TypeOK
    <3>. QED
      BY <3>1, <3>2
  <2>2. ASSUME NEW q \in Runs \ {p}, NEW t \in Types
        PROVE  tx'[q][t].id <= serial' /\ (tx'[q][t] # NoRow => owner'[t] = q)
    <3>1. tx'[q][t] # NoRow => owner[t] = q
      BY <1>1, <1>9 DEF TypeOK
    <3>2. owner[t] = q => owner'[t] = q
      BY <1>10, <1>11, RunsAssumption
    <3>. QED
      BY <1>9, <1>12, <3>1, <3>2
  <2>. QED
    BY <2>1, <2>2
<1>14. TypeOK'
  BY <1>1, <1>2, <1>9, <1>10, <1>12, <1>13 DEF TypeOK
<1>15. GenerationOf(p)'
  BY <1>1, <1>2 DEF GenerationOf
<1>16. ASSUME NEW i \in 1..3, tx'[p][Order[i]] # NoRow
       PROVE  WrittenRow(p, i)'
  <2>1. \A j \in 1..3 : j # k => tx'[p][Order[j]] = tx[p][Order[j]]
    BY <1>4, <1>9, OrderFacts
  <2>2. CASE i = k
    <3>1. \A j \in 1..(k - 1) : j \in 1..3 /\ j # k /\ Order[j] \in Types
      BY <1>4, OrderFacts
    <3>2. \A j \in 1..(k - 1) : tx'[p][Order[j]] # NoRow
      BY <1>7, <2>1, <3>1
    <3>3. \A j \in 1..(k - 1) : rows = NoRows => tx'[p][Order[j]].id < u.id
      <4>1. \A n \in Nat : n <= serial => n < serial + 1
        BY <1>12
      <4>2. \A j \in 1..(k - 1) : tx[p][Order[j]].id < serial + 1
        BY <1>12, <3>1, <4>1
      <4>. QED
        BY <1>6, <2>1, <3>1, <4>2
    <3>. QED
      BY <1>2, <1>6, <1>9, <2>2, <3>2, <3>3 DEF WrittenRow
  <2>3. CASE i # k
    <3>1. WrittenRow(p, i) /\ i < k
      BY <1>1, <1>4, <1>8, <1>16, <2>1, <2>3 DEF TransactionOf
    <3>2. \A j \in 1..(i - 1) : j \in 1..3 /\ j # k
      BY <1>4, <3>1
    <3>. QED
      BY <1>2, <2>1, <2>3, <3>1, <3>2 DEF WrittenRow
  <2>. QED
    BY <2>2, <2>3
<1>17. TransactionOf(p)'
  BY <1>1, <1>2, <1>10, <1>11, <1>16 DEF TransactionOf
<1>18. \A q \in Runs \ {p} : Kept(q) /\ pc[q] # "rows"
  BY <1>2, <1>9, OneSaves DEF Kept
<1>. QED
  BY <1>2, <1>14, <1>15, <1>17, <1>18, SameRows, KeptIsEnough

(* A transaction ends: its run's locks and rows are gone, the others' stay. *)
LEMMA TransactionEnds ==
    ASSUME TypeOK, NEW p \in Runs, owner' = Unlocked(p), tx' = [tx EXCEPT ![p] = NoRows]
    PROVE  /\ owner' \in [Keys -> Runs \cup {NoRun}]
           /\ tx' \in [Runs -> [Types -> Row]]
           /\ \A q \in Runs \ {p} : tx'[q] = tx[q] /\ (owner[ChunkRow] = q => owner'[ChunkRow] = q)
           /\ tx'[p] = NoRows /\ \A k \in 1..3 : tx'[p][Order[k]] = NoRow
           /\ \A q \in Runs, t \in Types :
                  /\ tx'[q][t].id \in Nat /\ tx'[q][t].id <= serial
                  /\ tx'[q][t] # NoRow => owner'[t] = q
<1>1. /\ owner \in [Keys -> Runs \cup {NoRun}] /\ tx \in [Runs -> [Types -> Row]]
      /\ serial \in Nat
      /\ \A q \in Runs, t \in Types : tx[q][t].id <= serial /\ (tx[q][t] # NoRow => owner[t] = q)
  BY DEF TypeOK
<1>2. Types \subseteq Keys /\ ChunkRow \in Keys
  BY DEF Keys
<1>3. /\ owner' \in [Keys -> Runs \cup {NoRun}]
      /\ \A key \in Keys : owner'[key] = IF owner[key] = p THEN NoRun ELSE owner[key]
  BY <1>1 DEF Unlocked
<1>4. /\ tx' \in [Runs -> [Types -> Row]] /\ tx'[p] = NoRows
      /\ \A q \in Runs \ {p} : tx'[q] = tx[q]
  BY <1>1, NoRowsFacts
<1>5. \A q \in Runs, t \in Types :
          /\ tx'[q][t].id \in Nat /\ tx'[q][t].id <= serial
          /\ tx'[q][t] # NoRow => owner'[t] = q
  <2>1. ASSUME NEW t \in Types PROVE tx'[p][t] = NoRow /\ tx'[p][t].id = 0 /\ 0 <= serial
    BY <1>1, <1>4, NoRowsFacts, RowFacts
  <2>2. ASSUME NEW q \in Runs \ {p}, NEW t \in Types
        PROVE  /\ tx'[q][t].id \in Nat /\ tx'[q][t].id <= serial
               /\ tx'[q][t] # NoRow => owner'[t] = q
    <3>1. tx[q][t] \in Row
      BY <1>1
    <3>. QED
      BY <1>1, <1>2, <1>3, <1>4, <3>1, RowFacts
  <2>. QED
    BY <2>1, <2>2
<1>6. \A k \in 1..3 : tx'[p][Order[k]] = NoRow
  BY <1>4, NoRowsFacts, OrderFacts
<1>. QED
  BY <1>2, <1>3, <1>4, <1>5, <1>6

(* What a finished transaction has written is a whole set, in order.       *)
LEMMA CommittedIsWhole ==
    ASSUME ChunkInv, NEW p \in Runs, pc[p] = "rows", Unwritten(p) = {}
    PROVE  /\ Committed(p) \in [Types -> Row]
           /\ \A t \in Types : Committed(p)[t] # NoRow /\ Committed(p)[t].id <= serial
           /\ [t \in Types |-> Committed(p)[t].question] \in Sets
           /\ Increasing(Committed(p))
<1>1. TypeOK /\ StoredIsWhole /\ GenerationOf(p) /\ TransactionOf(p)
  BY ChunkFacts
<1>2. Returned(made[p])
  BY <1>1 DEF GenerationOf
<1>3. DOMAIN made[p] = 1..3 /\ \A j \in 1..3 : made[p][j].type = Order[j]
  BY <1>2, ReturnedFacts
<1>4. \A k \in 1..3 : tx[p][Order[k]] # NoRow
  BY <1>3 DEF Unwritten
<1>5. \A t \in Types : tx[p][t] # NoRow /\ tx[p][t] \in Row /\ tx[p][t].id <= serial
  BY <1>1, <1>4, OrderFacts DEF TypeOK
<1>6. Committed(p) = [t \in Types |-> tx[p][t]]
  BY <1>5 DEF Committed
<1>7. \A k \in 1..3 : WrittenRow(p, k)
  BY <1>1, <1>4 DEF TransactionOf
<1>8. [t \in Types |-> Committed(p)[t].question] \in Sets
  <2>1. PICK s \in Sets : \A k \in 1..3 : s[Order[k]] = made[p][k]
    BY <1>2, ReturnedFacts
  <2>2. s = [t \in Types |-> s[t]]
    BY DEF Sets, ByType
  <2>3. \A t \in Types : s[t] = tx[p][t].question
    BY <1>7, <2>1, OrderFacts DEF WrittenRow
  <2>4. [t \in Types |-> Committed(p)[t].question] = [t \in Types |-> s[t]]
    BY <1>6, <2>3
  <2>. QED
    BY <2>2, <2>4
<1>9. Increasing(Committed(p))
  <2>1. /\ WrittenRow(p, 2) /\ WrittenRow(p, 3) /\ WrittenRow(p, 1)
        /\ 1 \in 1..(2 - 1) /\ 2 \in 1..(3 - 1)
    BY <1>7
  <2>2. CASE rows = NoRows
    <3>1. /\ tx[p][Order[1]].id < tx[p][Order[2]].id
          /\ tx[p][Order[2]].id < tx[p][Order[3]].id
      BY <2>1, <2>2 DEF WrittenRow
    <3>. QED
      BY <1>6, <3>1, OrderFacts DEF Increasing, Types
  <2>3. CASE rows # NoRows
    <3>1. \A k \in 1..3 : tx[p][Order[k]].id = rows[Order[k]].id
      BY <1>7, <2>3 DEF WrittenRow
    <3>2. \A t \in Types : tx[p][t].id = rows[t].id
      BY <3>1, OrderFacts
    <3>3. Increasing(rows)
      BY <1>1, <2>3 DEF StoredIsWhole
    <3>. QED
      BY <1>6, <3>2, <3>3 DEF Increasing, Types
  <2>. QED
    BY <2>2, <2>3
<1>10. Committed(p) \in [Types -> Row]
  BY <1>5, <1>6
<1>. QED
  BY <1>5, <1>6, <1>8, <1>9, <1>10

LEMMA CommitKeeps ==
    ASSUME ChunkInv, NEW p \in Runs, Commit(p)
    PROVE  ChunkInv'
<1>1. TypeOK /\ GenerationOf(p)
  BY ChunkFacts
<1>2. /\ pc[p] = "rows" /\ Unwritten(p) = {} /\ rows' = Committed(p)
      /\ owner' = Unlocked(p) /\ tx' = [tx EXCEPT ![p] = NoRows]
      /\ UNCHANGED <<stored, serial, made, content>>
  BY DEF Commit
<1>3. /\ attempt' \in [Runs -> 0..MaxRetries]
      /\ \E s \in {"breakdown", "aborted"} : pc' = [pc EXCEPT ![p] = s]
  <2>1. attempt \in [Runs -> 0..MaxRetries] /\ 0 \in 0..MaxRetries
    BY <1>1, RetriesAssumption DEF TypeOK
  <2>2. Generate(p, "breakdown") \/ (GoTo(p, "aborted") /\ UNCHANGED attempt)
    BY DEF Commit
  <2>3. CASE Generate(p, "breakdown")
    BY <2>1, <2>3 DEF Generate, GoTo
  <2>4. CASE GoTo(p, "aborted") /\ UNCHANGED attempt
    BY <2>1, <2>4 DEF GoTo
  <2>. QED
    BY <2>2, <2>3, <2>4
<1>4. /\ pc' \in [Runs -> Steps] /\ pc'[p] \in {"breakdown", "aborted"}
      /\ \A q \in Runs \ {p} : pc'[q] = pc[q]
  BY <1>1, <1>3 DEF TypeOK, Steps, Ended
<1>5. /\ rows' \in [Types -> Row]
      /\ \A t \in Types : rows'[t] # NoRow /\ rows'[t].id <= serial
      /\ StoredSet' \in Sets /\ Increasing(rows')
  BY <1>2, CommittedIsWhole DEF StoredSet
<1>6. rows' # NoRows
  <2>1. "vocab" \in Types
    BY DEF Types
  <2>. QED
    BY <1>5, <2>1, NoRowsFacts
<1>7. StoredIsWhole'
  <2>1. Increasing(rows)'
    BY <1>5 DEF Increasing
  <2>. QED
    BY <1>5, <2>1 DEF StoredIsWhole
<1>8. TypeOK'
  BY <1>1, <1>2, <1>3, <1>4, <1>5, TransactionEnds DEF TypeOK
<1>9. GenerationOf(p)'
  BY <1>1, <1>2, <1>4, <1>6 DEF GenerationOf
<1>10. TransactionOf(p)'
  <2>1. pc'[p] # "rows" /\ tx'[p] = NoRows /\ \A k \in 1..3 : tx'[p][Order[k]] = NoRow
    BY <1>1, <1>2, <1>4, TransactionEnds
  <2>. QED
    BY <2>1 DEF TransactionOf
<1>11. \A q \in Runs \ {p} : Kept(q) /\ pc[q] # "rows"
  BY <1>1, <1>2, <1>4, OneSaves, TransactionEnds DEF Kept
<1>. QED
  BY <1>6, <1>7, <1>8, <1>9, <1>10, <1>11, KeptIsEnough

LEMMA AbortKeeps ==
    ASSUME ChunkInv, NEW p \in Runs, Abort(p)
    PROVE  ChunkInv'
<1>1. TypeOK /\ GenerationOf(p) /\ \A q \in Runs : TransactionOf(q)
  BY DEF ChunkInv
<1>2. /\ owner' = Unlocked(p) /\ tx' = [tx EXCEPT ![p] = NoRows]
      /\ pc' = [pc EXCEPT ![p] = "aborted"]
      /\ UNCHANGED <<rows, stored, serial, attempt, made, content>>
  BY DEF Abort, GoTo, store, memoryOf
<1>3. /\ pc' \in [Runs -> Steps] /\ pc'[p] = "aborted"
      /\ \A q \in Runs \ {p} : pc'[q] = pc[q]
  BY <1>1, <1>2 DEF TypeOK, Steps, Ended
<1>4. TypeOK'
  BY <1>1, <1>2, <1>3, TransactionEnds DEF TypeOK
<1>5. GenerationOf(p)'
  BY <1>1, <1>2, <1>3 DEF GenerationOf
<1>6. TransactionOf(p)'
  <2>1. tx'[p] = NoRows /\ \A k \in 1..3 : tx'[p][Order[k]] = NoRow
    BY <1>1, <1>2, TransactionEnds
  <2>. QED
    BY <1>3, <2>1 DEF TransactionOf
<1>7. \A q \in Runs \ {p} : Kept(q) /\ (pc[q] = "rows" => owner'[ChunkRow] = q)
  BY <1>1, <1>2, <1>3, TransactionEnds DEF Kept, TransactionOf
<1>. QED
  BY <1>2, <1>4, <1>5, <1>6, <1>7, SameRows, KeptIsEnough

LEMMA SaveBreakdownKeeps ==
    ASSUME ChunkInv, NEW p \in Runs, SaveBreakdown(p)
    PROVE  ChunkInv'
<1>1. TypeOK /\ GenerationOf(p) /\ \A q \in Runs : TransactionOf(q)
  BY DEF ChunkInv
<1>2. /\ pc[p] = "saveBreakdown" /\ stored' = content[p]
      /\ pc' = [pc EXCEPT ![p] = "complete"]
      /\ UNCHANGED <<rows, serial, owner, attempt, made, content, tx>>
  BY DEF SaveBreakdown, GoTo, memoryOf
<1>3. /\ pc' \in [Runs -> Steps] /\ pc'[p] = "complete"
      /\ \A q \in Runs \ {p} : pc'[q] = pc[q]
  BY <1>1, <1>2 DEF TypeOK, Steps, Ended
<1>4. TypeOK'
  BY <1>1, <1>2, <1>3 DEF TypeOK
<1>5. GenerationOf(p)'
  BY <1>1, <1>2, <1>3 DEF GenerationOf
<1>6. TransactionOf(p)'
  <2>1. tx'[p] = NoRows /\ \A k \in 1..3 : tx'[p][Order[k]] = NoRow
    BY <1>1, <1>2, NoRowsFacts, OrderFacts DEF TransactionOf
  <2>. QED
    BY <1>3, <2>1 DEF TransactionOf
<1>7. \A q \in Runs \ {p} : Kept(q) /\ (pc[q] = "rows" => owner'[ChunkRow] = q)
  BY <1>1, <1>2, <1>3 DEF Kept, TransactionOf
<1>. QED
  BY <1>2, <1>4, <1>5, <1>6, <1>7, SameRows, KeptIsEnough

LEMMA ChunkInvStep == ChunkInv /\ [Next]_vars => ChunkInv'
<1> SUFFICES ASSUME ChunkInv, [Next]_vars PROVE ChunkInv'
  OBVIOUS
<1>1. CASE UNCHANGED vars
  <2>1. UNCHANGED <<rows, stored, serial, owner, pc, attempt, made, content, tx>>
    BY <1>1 DEF vars, store, memoryOf
  <2>2. TypeOK'
    BY <2>1 DEF TypeOK, ChunkInv
  <2>3. \A q \in Runs : GenerationOf(q)' /\ TransactionOf(q)'
    BY <2>1, OtherIsKept DEF Kept, ChunkInv, TransactionOf
  <2>. QED
    BY <2>1, <2>2, <2>3, SameRows DEF ChunkInv
<1>2. ASSUME NEW p \in Runs, RejectQuestions(p) \/ RejectBreakdown(p) \/ CallFails(p)
      PROVE  ChunkInv'
  BY <1>2, FailKeeps DEF RejectQuestions, RejectBreakdown, CallFails, Ask
<1>. QED
  BY <1>1, <1>2, StartKeeps, AcceptQuestionsKeeps, AcceptBreakdownKeeps, BeginKeeps,
     SaveRowKeeps, CommitKeeps, SaveBreakdownKeeps, AbortKeeps DEF Next, Work

-----------------------------------------------------------------------------
(* ChunkInv is inductive: whatever overlaps, fails or is killed.           *)
THEOREM ChunkInvariant == Spec => []ChunkInv
BY ChunkInvInit, ChunkInvStep, PTL DEF Spec

(* No id comes from beyond the sequence, and a run writes only the rows it *)
(* has locked, whatever SaveChunks overlap.                                *)
THEOREM ChunkTypeCorrect == Spec => []TypeOK
<1>1. ChunkInv => TypeOK
  BY DEF ChunkInv
<1>. QED
  BY <1>1, ChunkInvariant, PTL

(* Whatever the model replies, what the validators let through satisfies   *)
(* the schema's constraints and can be answered and read in the app.       *)
THEOREM WhatIsMadeIsUsable == Spec => []MadeIsUsable
<1>1. ChunkInv => MadeIsUsable
  <2> SUFFICES ASSUME ChunkInv, NEW p \in Runs
               PROVE  /\ \A k \in DOMAIN made[p] :
                             SchemaHolds(made[p][k]) /\ Answerable(made[p][k])
                      /\ content[p] # NoBreakdown => Readable(content[p])
    BY DEF MadeIsUsable
  <2>1. GenerationOf(p)
    BY ChunkFacts
  <2>2. \A e : e = <<>> => DOMAIN e = {}
    OBVIOUS
  <2>3. ASSUME Returned(made[p]), NEW k \in DOMAIN made[p]
        PROVE  SchemaHolds(made[p][k]) /\ Answerable(made[p][k])
    <3>1. k \in 1..3
      BY <2>3, ReturnedFacts
    <3>. QED
      BY <2>3, <3>1, ReturnedIsUsable
  <2>. QED
    BY <2>1, <2>2, <2>3, AcceptedIsReadable DEF GenerationOf
<1>. QED
  BY <1>1, ChunkInvariant, PTL

(* ListQuestionIDs, ordering by id, lists vocabulary, grammar and          *)
(* comprehension, also after rollbacks and overwriting runs.               *)
THEOREM QuestionsAreShownInOrder == Spec => []ShownInOrder
<1>1. ChunkInv => ShownInOrder
  BY DEF ChunkInv, StoredIsWhole, Increasing, ShownInOrder
<1>. QED
  BY <1>1, ChunkInvariant, PTL

-----------------------------------------------------------------------------
(* The refinement: a commit saves a whole set, SaveBreakdown a breakdown,  *)
(* and no other step touches what readers see.                             *)
LEMMA LogInit == Init => Log!Init
BY DEF Init, Log!Init

LEMMA LogCommit ==
    ASSUME ChunkInv, NEW p \in Runs, Commit(p)
    PROVE  Log!Next
<1>1. ChunkInv' /\ stored' = stored /\ rows' = Committed(p)
  BY CommitKeeps DEF Commit
<1>2. StoredSet' \in Sets /\ rows' # NoRows
  <2>1. \A t \in Types : rows'[t] # NoRow
    BY <1>1, CommittedIsWhole DEF Commit
  <2>2. "vocab" \in Types
    BY DEF Types
  <2>3. rows' # NoRows
    BY <2>1, <2>2, NoRowsFacts
  <2>. QED
    BY <1>1, <2>3 DEF ChunkInv, StoredIsWhole
<1>3. Log!SaveQuestions
  BY <1>1, <1>2 DEF Log!SaveQuestions
<1>. QED
  BY <1>3 DEF Log!Next

LEMMA LogBreakdown ==
    ASSUME ChunkInv, NEW p \in Runs, SaveBreakdown(p)
    PROVE  Log!Next
<1>1. /\ pc[p] = "saveBreakdown" /\ stored' = content[p] /\ rows' = rows
      /\ GenerationOf(p) /\ StoredIsWhole
  BY ChunkFacts DEF SaveBreakdown
<1>2. rows # NoRows /\ StoredSet \in Sets /\ StoredSet # Nothing
  BY <1>1, NothingAssumption DEF GenerationOf, StoredIsWhole
<1>3. /\ stored' # NoBreakdown
      /\ stored' \in {b \in BreakdownReplies : AcceptsBreakdown(b)}
  BY <1>1 DEF GenerationOf
<1>4. StoredSet' = StoredSet
  BY <1>1 DEF StoredSet
<1>5. Log!SaveBreakdown
  BY <1>1, <1>2, <1>3, <1>4 DEF Log!SaveBreakdown
<1>. QED
  BY <1>5 DEF Log!Next

LEMMA LogStep ==
    ASSUME ChunkInv, [Next]_vars
    PROVE  [Log!Next]_(Log!vars)
<1>1. CASE rows' = rows /\ stored' = stored
  BY <1>1 DEF Log!vars, StoredSet
<1>2. ASSUME NEW p \in Runs, Start(p) \/ Work(p) \/ Abort(p)
      PROVE  (rows' = rows /\ stored' = stored) \/ Commit(p) \/ SaveBreakdown(p)
  BY <1>2 DEF Start, Work, Abort, AcceptQuestions, RejectQuestions, CallFails, BeginSave,
     SaveRow, AcceptBreakdown, RejectBreakdown, Ask, store
<1>3. CASE UNCHANGED vars
  BY <1>1, <1>3 DEF vars, store
<1>. QED
  BY <1>1, <1>2, <1>3, LogCommit, LogBreakdown DEF Next

(* Row by row, interrupted and overlapping, SaveChunk and SaveBreakdown do *)
(* to a chunk only what whole saves would.                                 *)
THEOREM ContentImplementsLog == Spec => ImplementsChunkLog
<1>1. ChunkInv /\ [Next]_vars => [Log!Next]_(Log!vars)
  BY LogStep
<1>. QED
  BY <1>1, LogInit, ChunkInvariant, PTL DEF Spec, ImplementsChunkLog, Log!Spec
=============================================================================
