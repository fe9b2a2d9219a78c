--------------------------- MODULE SettingsProofs ---------------------------
(***************************************************************************)
(* What TLAPS proves of Settings, for any languages, catalogs and number   *)
(* of visits, and however many saves overlap: what is stored is one save,  *)
(* what is shown and drawn is what is stored, a save pops the settings     *)
(* only, and the active language is one of those studied.                  *)
(***************************************************************************)
EXTENDS Settings, SequenceTheorems, TLAPS

(* Settings whose list has no language twice.                              *)
Sound == {s \in Record :
    \A i, j \in DOMAIN s.study : i # j => s.study[i] # s.study[j]}

Write == [visit : Visits, key : 1..4, value : {s[Keys[k]] : s \in Sound, k \in 1..4}]

TypeOK ==
    /\ catalog \in Catalogs
    /\ memory \in Sound /\ device \in Sound /\ last \in Sound
    /\ unwritten \in Seq(Write)
    /\ screen \in [Visits -> {"closed", "loading", "form", "leaving"}]
    /\ form \in [Visits -> Sound]
    /\ busy \in [Visits -> BOOLEAN]
    /\ saving \in [Visits -> Sound \cup {None}]
    /\ hurried \in BOOLEAN /\ torn \in BOOLEAN

(* Each save under way has one write on its way, and no other visit has.   *)
OneWriteEach ==
    /\ \A i \in DOMAIN unwritten : LET w == unwritten[i] IN
        InSave(w.visit) /\ w.value = saving[w.visit][Keys[w.key]]
    /\ \A i, j \in DOMAIN unwritten : i # j => unwritten[i].visit # unwritten[j].visit
    /\ \A v \in Visits : InSave(v) => \E i \in DOMAIN unwritten : unwritten[i].visit = v

(* The n-th write belongs to the newest save: no other save is behind it,  *)
(* so that what it has written nobody writes again.                        *)
Newest(n) ==
    LET w == unwritten[n]
    IN  /\ saving[w.visit] = last
        /\ \A j \in 1..4 : j <= w.key => memory[Keys[j]] = last[Keys[j]]
        /\ \A j \in 1..4 : j < w.key => device[Keys[j]] = last[Keys[j]]
        /\ \A i \in DOMAIN unwritten :
            unwritten[i].key >= w.key /\ (unwritten[i].key = w.key => i <= n)

LastIsStored == memory = last /\ device = last /\ theme = last.theme

SavesInOrder == ~torn =>
    IF AllSaved THEN LastIsStored ELSE \E n \in DOMAIN unwritten : Newest(n)

(* One screen at most, and a save that is not left belongs to it.          *)
ScreensOK ==
    /\ \A u, v \in Open : u = v
    /\ \A v \in Open : InSave(v) => screen[v] = "form" /\ busy[v]
    /\ ~hurried => home /\ \A v \in Visits : InSave(v) => v \in Open

LibraryOK ==
    ~hurried /\ Open = {} /\ library # LoadingLibrary => LibraryShows(memory)

EnrolledOK == ~hurried /\ ~torn =>
    ActiveEnrolled(last) /\ \A v \in Open : ActiveEnrolled(form[v])

(* The inductive invariant.                                                *)
SettingsInv ==
    /\ TypeOK
    /\ OneWriteEach
    /\ SavesInOrder
    /\ ScreensOK
    /\ LibraryOK
    /\ EnrolledOK

-----------------------------------------------------------------------------
(* Settings, key by key.                                                   *)
LEMMA KeyFacts ==
    ASSUME NEW r \in Record
    PROVE  /\ r = [native |-> r.native, study |-> r.study, active |-> r.active,
                   theme |-> r.theme]
           /\ DOMAIN r = {Keys[k] : k \in 1..4}
           /\ r["study"] = r.study /\ r["theme"] = r.theme
<1>1. r = [native |-> r.native, study |-> r.study, active |-> r.active, theme |-> r.theme]
  BY DEF Record
<1>2. DOMAIN r = {"native", "study", "active", "theme"}
  BY <1>1
<1>3. {Keys[k] : k \in 1..4} = {"native", "study", "active", "theme"}
  BY DEF Keys
<1>. QED
  BY <1>1, <1>2, <1>3

LEMMA KeyNames ==
    /\ Keys[1] = "native" /\ Keys[2] = "study" /\ Keys[3] = "active" /\ Keys[4] = "theme"
    /\ Len(Keys) = 4
    /\ \A j, k \in 1..4 : j # k => Keys[j] # Keys[k]
BY DEF Keys

Put(r, k, s) == [r EXCEPT ![Keys[k]] = s[Keys[k]]]

LEMMA KeyIsWritten ==
    ASSUME NEW r \in Sound, NEW s \in Sound, NEW k \in 1..4
    PROVE  /\ Put(r, k, s) \in Sound
           /\ \A j \in 1..4 :
                  Put(r, k, s)[Keys[j]] = IF j = k THEN s[Keys[k]] ELSE r[Keys[j]]
<1> DEFINE x == Put(r, k, s)
<1>1. r \in Record /\ s \in Record
  BY DEF Sound
<1>2. \A j \in 1..4 : Keys[j] \in DOMAIN r
  BY <1>1, KeyFacts
<1>3. \A j \in 1..4 : x[Keys[j]] = IF j = k THEN s[Keys[k]] ELSE r[Keys[j]]
  BY <1>2, KeyNames DEF Put
<1> HIDE DEF x
<1>4. x \in Sound
  <2>1. CASE k = 1
    <3>1. x = [r EXCEPT !["native"] = s["native"]]
      BY <2>1, KeyNames DEF Put, x
    <3>. QED
      BY <1>1, <3>1 DEF Sound, Record
  <2>2. CASE k = 2
    <3>1. x = [r EXCEPT !["study"] = s["study"]]
      BY <2>2, KeyNames DEF Put, x
    <3>2. x \in Record /\ x.study = s.study
      BY <1>1, <3>1 DEF Record
    <3>3. \A i, j \in DOMAIN s.study : i # j => s.study[i] # s.study[j]
      BY DEF Sound
    <3>4. \A i, j \in DOMAIN x.study : i # j => x.study[i] # x.study[j]
      BY <3>2, <3>3
    <3>. QED
      BY <3>2, <3>4 DEF Sound
  <2>3. CASE k = 3
    <3>1. x = [r EXCEPT !["active"] = s["active"]]
      BY <2>3, KeyNames DEF Put, x
    <3>. QED
      BY <1>1, <3>1 DEF Sound, Record
  <2>4. CASE k = 4
    <3>1. x = [r EXCEPT !["theme"] = s["theme"]]
      BY <2>4, KeyNames DEF Put, x
    <3>. QED
      BY <1>1, <3>1 DEF Sound, Record
  <2>. QED
    BY <2>1, <2>2, <2>3, <2>4
<1>. QED
  BY <1>3, <1>4 DEF x

(* Settings that agree on every key are the same.                          *)
LEMMA SameKeys ==
    ASSUME NEW r \in Sound, NEW s \in Sound,
           \A j \in 1..4 : r[Keys[j]] = s[Keys[j]]
    PROVE  r = s
<1>1. r \in Record /\ s \in Record
  BY DEF Sound
<1>2. /\ r["native"] = s["native"] /\ r["study"] = s["study"]
      /\ r["active"] = s["active"] /\ r["theme"] = s["theme"]
  BY KeyNames
<1>3. /\ r.native = s.native /\ r.study = s.study
      /\ r.active = s.active /\ r.theme = s.theme
  BY <1>1, <1>2 DEF Record
<1>. QED
  BY <1>1, <1>3 DEF Record

(* What a write on its way writes.                                         *)
LEMMA WriteFacts ==
    ASSUME NEW v \in Visits, NEW k \in 1..4, NEW s \in Sound
    PROVE  [visit |-> v, key |-> k, value |-> s[Keys[k]]] \in Write
BY DEF Write

(* The queue, by the positions in it.                                      *)
LEMMA HeadFacts ==
    ASSUME unwritten \in Seq(Write), unwritten # <<>>
    PROVE  /\ 1 \in DOMAIN unwritten /\ Head(unwritten) = unwritten[1]
           /\ Head(unwritten) \in Write
           /\ Tail(unwritten) \in Seq(Write)
           /\ DOMAIN Tail(unwritten) = 1..(Len(unwritten) - 1)
           /\ DOMAIN unwritten = 1..Len(unwritten) /\ Len(unwritten) \in Nat
           /\ \A i \in 1..(Len(unwritten) - 1) :
                  /\ Tail(unwritten)[i] = unwritten[i + 1]
                  /\ i + 1 \in DOMAIN unwritten
           /\ \A i \in DOMAIN unwritten : i # 1 =>
                  i - 1 \in 1..(Len(unwritten) - 1) /\ (i - 1) + 1 = i
BY HeadTailProperties

LEMMA AppendFacts ==
    ASSUME NEW queue \in Seq(Write), NEW w \in Write
    PROVE  /\ Append(queue, w) \in Seq(Write)
           /\ DOMAIN queue = 1..Len(queue) /\ Len(queue) \in Nat
           /\ DOMAIN Append(queue, w) = 1..(Len(queue) + 1)
           /\ Append(queue, w)[Len(queue) + 1] = w
           /\ \A i \in DOMAIN queue : Append(queue, w)[i] = queue[i]
BY AppendProperties

-----------------------------------------------------------------------------
LEMMA InvFacts ==
    ASSUME SettingsInv
    PROVE  /\ TypeOK /\ OneWriteEach /\ SavesInOrder
           /\ ScreensOK /\ LibraryOK /\ EnrolledOK
BY DEF SettingsInv

LEMMA SaveIsNone ==
    \A s \in Sound : s # None
BY NoneAssumption DEF Sound

(* A step that writes nothing leaves the saves as they are.                *)
LEMMA SavesKept ==
    ASSUME OneWriteEach, SavesInOrder,
           UNCHANGED <<memory, device, unwritten, saving, last, theme, torn>>
    PROVE  OneWriteEach' /\ SavesInOrder'
<1>1. AllSaved' <=> AllSaved
  BY DEF AllSaved, InSave
<1>2. OneWriteEach'
  BY DEF OneWriteEach, InSave
<1>3. \A n : Newest(n)' <=> Newest(n)
  BY DEF Newest
<1>4. LastIsStored' <=> LastIsStored
  BY DEF LastIsStored
<1>. QED
  BY <1>1, <1>2, <1>3, <1>4 DEF SavesInOrder

(* Once a save is cut off, only the writes on their way matter.            *)
LEMMA TornSaves == torn' => SavesInOrder'
BY DEF SavesInOrder

LEMMA BlankIsSound == Blank \in Sound
<1>1. Blank \in Record
  BY DEF Blank, Record, Codes, Themes
<1>2. Blank.study = <<>> /\ DOMAIN <<>> = {}
  BY DEF Blank
<1>. QED
  BY <1>1, <1>2 DEF Sound

LEMMA SettingsInvInit == Init => SettingsInv
<1> SUFFICES ASSUME Init PROVE SettingsInv
  OBVIOUS
<1>1. \A v \in Visits : ~InSave(v) /\ v \notin Open
  BY DEF Init, InSave, Open
<1>2. TypeOK
  <2>1. <<>> \in Seq(Write)
    OBVIOUS
  <2>2. /\ catalog \in Catalogs /\ unwritten \in Seq(Write)
        /\ memory \in Sound /\ device \in Sound /\ last \in Sound
        /\ hurried \in BOOLEAN /\ torn \in BOOLEAN
    BY <2>1, BlankIsSound DEF Init
  <2>3. /\ screen \in [Visits -> {"closed", "loading", "form", "leaving"}]
        /\ form \in [Visits -> Sound] /\ saving \in [Visits -> Sound \cup {None}]
    BY BlankIsSound DEF Init
  <2>4. busy \in [Visits -> BOOLEAN]
    BY Zenon DEF Init
  <2>. QED
    BY <2>2, <2>3, <2>4 DEF TypeOK
<1>3. OneWriteEach
  <2>1. \A e : e = <<>> => DOMAIN e = {}
    OBVIOUS
  <2>2. DOMAIN unwritten = {}
    BY <2>1 DEF Init
  <2>. QED
    BY <1>1, <2>2 DEF OneWriteEach
<1>4. SavesInOrder
  BY <1>1 DEF Init, SavesInOrder, AllSaved, LastIsStored, Blank
<1>5. ScreensOK /\ LibraryOK
  BY <1>1 DEF Init, ScreensOK, LibraryOK, Open
<1>6. EnrolledOK
  BY <1>1 DEF Init, EnrolledOK, ActiveEnrolled, Blank, Open
<1>. QED
  BY <1>2, <1>3, <1>4, <1>5, <1>6 DEF SettingsInv

-----------------------------------------------------------------------------
(* A new save is behind all others.                                        *)
LEMMA SaveBegins ==
    ASSUME SettingsInv, NEW v \in Visits, Save(v)
    PROVE  TypeOK' /\ OneWriteEach' /\ SavesInOrder'
<1> DEFINE w == [visit |-> v, key |-> 1, value |-> form[v][Keys[1]]]
<1> PICK L : L = Len(unwritten)
  OBVIOUS
<1>1. /\ TypeOK /\ OneWriteEach /\ ScreensOK
      /\ form[v] \in Sound /\ form[v] # None /\ w \in Write /\ 1 \in 1..4
  BY InvFacts, SaveIsNone, WriteFacts DEF TypeOK
<1>2. /\ screen[v] = "form" /\ ~busy[v]
      /\ busy' = [busy EXCEPT ![v] = TRUE] /\ saving' = [saving EXCEPT ![v] = form[v]]
      /\ memory' = [memory EXCEPT ![Keys[1]] = form[v][Keys[1]]]
      /\ unwritten' = Append(unwritten, w) /\ last' = form[v]
      /\ UNCHANGED <<catalog, device, screen, form, home, library, theme, hurried, torn>>
  BY DEF Save, WriteKey
<1>3. ~InSave(v)
  BY <1>1, <1>2 DEF ScreensOK, Open
<1>4. /\ saving' \in [Visits -> Sound \cup {None}] /\ saving'[v] = form[v]
      /\ \A u \in Visits \ {v} : saving'[u] = saving[u]
  BY <1>1, <1>2 DEF TypeOK
<1>5. memory' \in Sound /\ memory'[Keys[1]] = last'[Keys[1]]
  <2>1. memory \in Sound /\ form[v] \in Sound /\ 1 \in 1..4
    BY <1>1 DEF TypeOK
  <2>2. memory' = Put(memory, 1, form[v])
    BY <1>2 DEF Put
  <2>3. /\ memory' \in Sound
        /\ \A j \in 1..4 : memory'[Keys[j]] =
               IF j = 1 THEN form[v][Keys[1]] ELSE memory[Keys[j]]
    BY <2>1, <2>2, KeyIsWritten
  <2>. QED
    BY <1>2, <2>3
<1>6. /\ unwritten' \in Seq(Write) /\ L \in Nat
      /\ DOMAIN unwritten = 1..L /\ DOMAIN unwritten' = 1..(L + 1)
      /\ unwritten'[L + 1] = w /\ \A i \in 1..L : unwritten'[i] = unwritten[i]
  BY <1>1, <1>2, AppendFacts DEF TypeOK
<1>7. \A i \in 1..L : unwritten[i] \in Write
  BY <1>1, <1>6, ElementOfSeq DEF TypeOK
<1> HIDE DEF w
<1>8. TypeOK'
  BY <1>1, <1>2, <1>4, <1>5, <1>6 DEF TypeOK
<1>9. /\ w.visit = v /\ w.key = 1 /\ w.value = form[v][Keys[1]]
      /\ \A i \in 1..L : unwritten[i].visit \in Visits /\ unwritten[i].visit # v
                         /\ unwritten[i].key \in 1..4
  <2>1. \A i \in 1..L : unwritten[i].visit \in Visits /\ unwritten[i].key \in 1..4
    BY <1>7 DEF Write
  <2>. QED
    BY <1>1, <1>3, <1>6, <2>1 DEF OneWriteEach, w
<1>10. \A i \in 1..(L + 1) : i = L + 1 \/ i \in 1..L
  BY <1>6
<1>11. OneWriteEach'
  <2>1. \A i \in 1..(L + 1) :
            /\ saving'[unwritten'[i].visit] # None
            /\ unwritten'[i].value = saving'[unwritten'[i].visit][Keys[unwritten'[i].key]]
    BY <1>1, <1>4, <1>6, <1>9, <1>10 DEF OneWriteEach, InSave
  <2>2. \A i, j \in 1..(L + 1) : i # j => unwritten'[i].visit # unwritten'[j].visit
    BY <1>1, <1>6, <1>9, <1>10 DEF OneWriteEach
  <2>3. \A u \in Visits : saving'[u] # None => \E i \in 1..(L + 1) : unwritten'[i].visit = u
    <3>1. \A i \in 1..L : i \in 1..(L + 1)
      BY <1>6
    <3>2. L + 1 \in 1..(L + 1)
      BY <1>6
    <3>. QED
      BY <1>1, <1>4, <1>6, <1>9, <3>1, <3>2 DEF OneWriteEach, InSave
  <2>. QED
    BY <1>6, <2>1, <2>2, <2>3 DEF OneWriteEach, InSave
<1>12. Newest(L + 1)'
  <2>1. /\ \A j \in 1..4 : j <= 1 => j = 1
        /\ \A j \in 1..4 : ~ (j < 1)
    OBVIOUS
  <2>2. \A i \in 1..(L + 1) : unwritten'[i].key >= 1 /\ i <= L + 1
    BY <1>6, <1>9, <1>10
  <2>3. saving'[w.visit] = last'
    BY <1>2, <1>4, <1>9
  <2>. QED
    BY <1>5, <1>6, <1>9, <2>1, <2>2, <2>3 DEF Newest
<1>13. ~AllSaved' /\ L + 1 \in DOMAIN unwritten'
  BY <1>1, <1>4, <1>6 DEF AllSaved, InSave
<1>. QED
  BY <1>8, <1>11, <1>12, <1>13 DEF SavesInOrder

(* The write at the head of the queue is the next of a save under way.     *)
LEMMA HeadWrite ==
    ASSUME TypeOK, OneWriteEach, unwritten # <<>>, NEW w, w = Head(unwritten)
    PROVE  /\ w.visit \in Visits /\ w.key \in 1..4
           /\ 1 \in DOMAIN unwritten /\ w = unwritten[1]
           /\ InSave(w.visit) /\ saving[w.visit] \in Sound
           /\ w.value = saving[w.visit][Keys[w.key]]
           /\ Performed(w) => device' = Put(device, w.key, saving[w.visit])
<1>1. w = unwritten[1] /\ w \in Write /\ 1 \in DOMAIN unwritten
  BY HeadFacts DEF TypeOK
<1>2. w.visit \in Visits /\ w.key \in 1..4
  BY <1>1 DEF Write
<1>3. InSave(w.visit) /\ w.value = saving[w.visit][Keys[w.key]]
  BY <1>1 DEF OneWriteEach
<1>4. saving[w.visit] \in Sound
  BY <1>2, <1>3 DEF TypeOK, InSave
<1>. QED
  BY <1>1, <1>2, <1>3, <1>4 DEF Performed, Put

(* Every write on its way, by its position.                                *)
LEMMA QueueFacts ==
    ASSUME TypeOK, OneWriteEach
    PROVE  /\ Len(unwritten) \in Nat /\ DOMAIN unwritten = 1..Len(unwritten)
           /\ \A i \in DOMAIN unwritten :
                  /\ unwritten[i].visit \in Visits /\ unwritten[i].key \in 1..4
                  /\ saving[unwritten[i].visit] # None
                  /\ unwritten[i].value = saving[unwritten[i].visit][Keys[unwritten[i].key]]
           /\ \A i, j \in DOMAIN unwritten :
                  i # j => unwritten[i].visit # unwritten[j].visit
           /\ \A u \in Visits : saving[u] # None =>
                  \E i \in DOMAIN unwritten : unwritten[i].visit = u
<1>1. /\ Len(unwritten) \in Nat /\ DOMAIN unwritten = 1..Len(unwritten)
      /\ \A i \in DOMAIN unwritten : unwritten[i] \in Write
  BY DEF TypeOK
<1>. QED
  BY <1>1 DEF OneWriteEach, InSave, Write

(* A save goes on with its next key, behind the others.                    *)
LEMMA SaveGoesOn ==
    ASSUME SettingsInv, unwritten # <<>>, NEW w, w = Head(unwritten), w.key < 4,
           Performed(w),
           WriteKey(w.visit, w.key + 1, saving[w.visit], Tail(unwritten)),
           UNCHANGED <<saving, theme, screen, form, busy, catalog, last, hurried, torn>>
    PROVE  TypeOK' /\ OneWriteEach' /\ SavesInOrder'
<1> PICK L : L = Len(unwritten)
  OBVIOUS
<1> PICK s : s = saving[w.visit]
  OBVIOUS
<1> PICK v, k : v = w.visit /\ k = w.key
  OBVIOUS
<1> PICK x : x = [visit |-> v, key |-> k + 1, value |-> s[Keys[k + 1]]]
  OBVIOUS
<1>1. TypeOK /\ OneWriteEach /\ SavesInOrder
  BY InvFacts
<1>2. /\ v \in Visits /\ k \in 1..4 /\ k + 1 \in 1..4
      /\ 1 \in DOMAIN unwritten /\ w = unwritten[1]
      /\ s \in Sound /\ saving[v] = s /\ s # None
      /\ device' = Put(device, k, s)
      /\ memory' = Put(memory, k + 1, s)
      /\ unwritten' = Append(Tail(unwritten), x) /\ x \in Write
  <2>1. k \in 1..4 /\ k < 4
    BY <1>1, HeadWrite
  <2>2. k + 1 \in 1..4
    BY <2>1
  <2>3. /\ v \in Visits /\ 1 \in DOMAIN unwritten /\ w = unwritten[1] /\ s \in Sound
        /\ device' = Put(device, k, s)
    BY <1>1, HeadWrite
  <2>4. x \in Write
    BY <2>2, <2>3, WriteFacts
  <2>5. memory' = Put(memory, k + 1, s) /\ unwritten' = Append(Tail(unwritten), x)
    BY DEF WriteKey, Put
  <2>. QED
    BY <2>1, <2>2, <2>3, <2>4, <2>5, SaveIsNone
<1>3. /\ L \in Nat /\ L >= 1 /\ DOMAIN unwritten = 1..L
      /\ unwritten' \in Seq(Write) /\ DOMAIN unwritten' = 1..L /\ unwritten'[L] = x
      /\ \A i \in 1..(L - 1) : unwritten'[i] = unwritten[i + 1] /\ i + 1 \in 1..L
      /\ \A i \in 1..L : i = L \/ i \in 1..(L - 1)
      /\ \A i \in 1..L : i = 1 \/ (i - 1 \in 1..(L - 1) /\ (i - 1) + 1 = i)
  <2>1. /\ L \in Nat /\ DOMAIN unwritten = 1..L
        /\ Tail(unwritten) \in Seq(Write) /\ DOMAIN Tail(unwritten) = 1..(L - 1)
        /\ \A i \in 1..(L - 1) : Tail(unwritten)[i] = unwritten[i + 1]
    BY <1>1, HeadFacts DEF TypeOK
  <2>2. L >= 1
    BY <1>2, <2>1
  <2>3. Len(Tail(unwritten)) = L - 1
    BY <1>1, <2>1, HeadTailProperties DEF TypeOK
  <2>4. /\ unwritten' \in Seq(Write) /\ DOMAIN unwritten' = 1..((L - 1) + 1)
        /\ unwritten'[(L - 1) + 1] = x
        /\ \A i \in 1..(L - 1) : unwritten'[i] = Tail(unwritten)[i]
    BY <1>2, <2>1, <2>3, AppendFacts
  <2>5. (L - 1) + 1 = L /\ \A i \in 1..(L - 1) : i + 1 \in 1..L
    BY <2>1, <2>2
  <2>6. \A i \in 1..L : i = L \/ i \in 1..(L - 1)
    BY <2>1
  <2>7. \A i \in 1..L : i = 1 \/ (i - 1 \in 1..(L - 1) /\ (i - 1) + 1 = i)
    BY <2>1
  <2>. QED
    BY <2>1, <2>2, <2>4, <2>5, <2>6, <2>7
<1>4. x.visit = v /\ x.key = k + 1 /\ x.value = s[Keys[k + 1]]
  OBVIOUS
<1>5. \A i \in 1..L : /\ unwritten[i].visit \in Visits /\ unwritten[i].key \in 1..4
                      /\ saving[unwritten[i].visit] # None
                      /\ unwritten[i].value = saving[unwritten[i].visit][Keys[unwritten[i].key]]
  BY <1>1, <1>3, QueueFacts
<1>6. /\ memory' \in Sound /\ device' \in Sound
      /\ \A j \in 1..4 : memory'[Keys[j]] = IF j = k + 1 THEN s[Keys[k + 1]] ELSE memory[Keys[j]]
      /\ \A j \in 1..4 : device'[Keys[j]] = IF j = k THEN s[Keys[k]] ELSE device[Keys[j]]
  BY <1>1, <1>2, KeyIsWritten DEF TypeOK
<1>7. TypeOK'
  BY <1>1, <1>3, <1>6 DEF TypeOK
<1>8. OneWriteEach'
  <2>1. ASSUME NEW i \in 1..L
        PROVE  /\ saving[unwritten'[i].visit] # None
               /\ unwritten'[i].value = saving[unwritten'[i].visit][Keys[unwritten'[i].key]]
    <3>1. CASE i = L
      <4>1. unwritten'[i] = x /\ saving[v] = s /\ s # None
        BY <1>2, <1>3, <3>1
      <4>. QED
        BY <1>4, <4>1
    <3>2. CASE i \in 1..(L - 1)
      <4>1. unwritten'[i] = unwritten[i + 1] /\ i + 1 \in 1..L
        BY <1>3, <3>2
      <4>. QED
        BY <1>5, <4>1
    <3>. QED
      BY <1>3, <3>1, <3>2
  <2>2. \A i, j \in 1..L : i # j => unwritten'[i].visit # unwritten'[j].visit
    <3>1. \A i \in 1..(L - 1) : unwritten'[i].visit # v
      <4>1. \A i \in 1..(L - 1) : i + 1 # 1 /\ i + 1 \in 1..L
        BY <1>3
      <4>. QED
        BY <1>1, <1>2, <1>3, <4>1, QueueFacts
    <3>2. \A i, j \in 1..(L - 1) : i # j => unwritten'[i].visit # unwritten'[j].visit
      <4>1. \A i, j \in 1..(L - 1) : i # j => i + 1 # j + 1
        BY <1>3
      <4>. QED
        BY <1>1, <1>3, <4>1, QueueFacts
    <3>. QED
      BY <1>3, <1>4, <3>1, <3>2
  <2>3. \A u \in Visits : saving[u] # None => \E i \in 1..L : unwritten'[i].visit = u
    <3>1. ASSUME NEW u \in Visits, saving[u] # None, u # v
          PROVE  \E i \in 1..L : unwritten'[i].visit = u
      <4>1. PICK i \in 1..L : unwritten[i].visit = u
        BY <1>1, <1>3, <3>1, QueueFacts
      <4>2. i # 1
        BY <1>2, <3>1, <4>1
      <4>3. unwritten'[i - 1].visit = u /\ i - 1 \in 1..L
        BY <1>3, <4>1, <4>2
      <4>. QED
        BY <4>3
    <3>2. unwritten'[L].visit = v /\ L \in 1..L
      BY <1>3, <1>4
    <3>. QED
      BY <3>1, <3>2
  <2>. QED
    BY <1>3, <2>1, <2>2, <2>3 DEF OneWriteEach, InSave
<1>9. ASSUME ~torn' PROVE ~AllSaved' /\ \E n \in DOMAIN unwritten' : Newest(n)'
  <2>1. ~AllSaved /\ ~AllSaved'
    BY <1>2 DEF AllSaved, InSave
  <2>2. PICK n \in 1..L : Newest(n)
    BY <1>1, <1>3, <1>9, <2>1 DEF SavesInOrder
  <2>3. PICK m : m = unwritten[n].key
    OBVIOUS
  <2>4. /\ m \in 1..4 /\ saving[unwritten[n].visit] = last
        /\ \A j \in 1..4 : j <= m => memory[Keys[j]] = last[Keys[j]]
        /\ \A j \in 1..4 : j < m => device[Keys[j]] = last[Keys[j]]
        /\ \A i \in 1..L : unwritten[i].key >= m /\ (unwritten[i].key = m => i <= n)
    BY <1>3, <1>5, <2>2, <2>3 DEF Newest
  <2>5. CASE n = 1
    <3>1. m = k /\ s = last
      BY <1>2, <2>3, <2>4, <2>5
    <3>2. \A j \in 1..4 : j <= k + 1 => memory'[Keys[j]] = last[Keys[j]]
      <4>1. \A j \in 1..4 : j <= k + 1 => j = k + 1 \/ j <= k
        BY <1>2
      <4>. QED
        BY <1>6, <2>4, <3>1, <4>1
    <3>3. \A j \in 1..4 : j < k + 1 => device'[Keys[j]] = last[Keys[j]]
      <4>1. \A j \in 1..4 : j < k + 1 => j = k \/ j < k
        BY <1>2
      <4>. QED
        BY <1>6, <2>4, <3>1, <4>1
    <3>4. \A i \in 1..L : unwritten'[i].key >= k + 1 /\ i <= L
      <4>1. \A i \in 1..(L - 1) : unwritten[i + 1].key \in 1..4 /\ unwritten[i + 1].key >= k
                                  /\ unwritten[i + 1].key # k
        <5>1. \A i \in 1..(L - 1) : ~ (i + 1 <= 1)
          BY <1>3
        <5>. QED
          BY <1>3, <1>5, <2>4, <2>5, <3>1, <5>1
      <4>2. \A i \in 1..(L - 1) : unwritten[i + 1].key >= k + 1
        <5>1. \A y \in 1..4 : y >= k /\ y # k => y >= k + 1
          BY <1>2
        <5>. QED
          BY <4>1, <5>1
      <4>3. unwritten'[L].key >= k + 1
        BY <1>2, <1>3, <1>4
      <4>4. \A i \in 1..L : i <= L
        BY <1>3
      <4>. QED
        BY <1>3, <4>2, <4>3, <4>4
    <3>5. unwritten'[L].visit = v /\ unwritten'[L].key = k + 1 /\ saving'[v] = last'
      BY <1>2, <1>3, <1>4, <3>1
    <3>6. Newest(L)'
      BY <1>3, <3>2, <3>3, <3>4, <3>5 DEF Newest
    <3>7. L \in DOMAIN unwritten'
      BY <1>3
    <3>. QED
      BY <2>1, <3>6, <3>7
  <2>6. CASE n # 1
    <3>1. PICK o : o = n - 1
      OBVIOUS
    <3>2. o \in 1..(L - 1) /\ o + 1 = n /\ unwritten'[o] = unwritten[n] /\ o \in 1..L
      BY <1>3, <2>6, <3>1
    <3>3. k >= m
      BY <1>2, <1>3, <2>4
    <3>4. \A j \in 1..4 : j <= m => memory'[Keys[j]] = last[Keys[j]]
      <4>1. \A j \in 1..4 : j <= m => j # k + 1
        BY <1>2, <2>4, <3>3
      <4>. QED
        BY <1>6, <2>4, <4>1
    <3>5. \A j \in 1..4 : j < m => device'[Keys[j]] = last[Keys[j]]
      <4>1. \A j \in 1..4 : j < m => j # k
        BY <1>2, <2>4, <3>3
      <4>. QED
        BY <1>6, <2>4, <4>1
    <3>6. \A i \in 1..L : unwritten'[i].key >= m /\ (unwritten'[i].key = m => i <= o)
      <4>1. ASSUME NEW i \in 1..(L - 1)
            PROVE  unwritten'[i].key >= m /\ (unwritten'[i].key = m => i <= o)
        <5>1. i + 1 <= n => i <= o
          BY <1>3, <3>2
        <5>. QED
          BY <1>3, <2>4, <5>1
      <4>2. unwritten'[L].key >= m /\ unwritten'[L].key # m
        BY <1>2, <1>3, <1>4, <2>4, <3>3
      <4>. QED
        BY <1>3, <4>1, <4>2
    <3>7. saving'[unwritten'[o].visit] = last' /\ unwritten'[o].key = m /\ last' = last
      BY <2>3, <2>4, <3>2
    <3>8. Newest(o)'
      BY <1>3, <3>4, <3>5, <3>6, <3>7 DEF Newest
    <3>9. o \in DOMAIN unwritten'
      BY <1>3, <3>2
    <3>. QED
      BY <2>1, <3>8, <3>9
  <2>. QED
    BY <2>5, <2>6
<1>. QED
  BY <1>7, <1>8, <1>9 DEF SavesInOrder

(* A save that ends, or is cut off, takes its write with it.               *)
LEMMA SaveLeaves ==
    ASSUME TypeOK, OneWriteEach, unwritten # <<>>, NEW v, v = Head(unwritten).visit,
           unwritten' = Tail(unwritten), saving' = [saving EXCEPT ![v] = None]
    PROVE  /\ unwritten' \in Seq(Write) /\ saving' \in [Visits -> Sound \cup {None}]
           /\ OneWriteEach'
           /\ DOMAIN unwritten' = 1..(Len(unwritten) - 1)
           /\ \A i \in 1..(Len(unwritten) - 1) :
                  /\ unwritten'[i] = unwritten[i + 1] /\ i + 1 \in DOMAIN unwritten
                  /\ unwritten[i + 1].visit # v
                  /\ saving'[unwritten[i + 1].visit] = saving[unwritten[i + 1].visit]
<1> PICK L : L = Len(unwritten)
  OBVIOUS
<1>1. /\ L \in Nat /\ L >= 1 /\ DOMAIN unwritten = 1..L /\ unwritten[1].visit = v
      /\ unwritten' \in Seq(Write) /\ DOMAIN unwritten' = 1..(L - 1)
      /\ \A i \in 1..(L - 1) : unwritten'[i] = unwritten[i + 1] /\ i + 1 \in 1..L
      /\ \A i \in 1..L : i # 1 => i - 1 \in 1..(L - 1) /\ (i - 1) + 1 = i
  <2>1. /\ L \in Nat /\ DOMAIN unwritten = 1..L /\ unwritten[1].visit = v
        /\ unwritten' \in Seq(Write) /\ DOMAIN unwritten' = 1..(L - 1)
        /\ 1 \in 1..L
        /\ \A i \in 1..(L - 1) : unwritten'[i] = unwritten[i + 1] /\ i + 1 \in 1..L
        /\ \A i \in 1..L : i # 1 => i - 1 \in 1..(L - 1) /\ (i - 1) + 1 = i
    BY HeadFacts DEF TypeOK
  <2>. QED
    BY <2>1
<1>2. /\ v \in Visits
      /\ \A i \in 1..L : unwritten[i].visit \in Visits
                         /\ saving[unwritten[i].visit] # None
                         /\ unwritten[i].value = saving[unwritten[i].visit][Keys[unwritten[i].key]]
      /\ \A i, j \in 1..L : i # j => unwritten[i].visit # unwritten[j].visit
      /\ \A u \in Visits : saving[u] # None => \E i \in 1..L : unwritten[i].visit = u
  <2>1. 1 \in 1..L
    BY <1>1
  <2>2. \A i \in 1..L : unwritten[i].visit \in Visits
    BY <1>1, QueueFacts
  <2>3. \A i \in 1..L :
            saving[unwritten[i].visit] # None
            /\ unwritten[i].value = saving[unwritten[i].visit][Keys[unwritten[i].key]]
    BY <1>1, QueueFacts
  <2>4. \A i, j \in 1..L : i # j => unwritten[i].visit # unwritten[j].visit
    BY <1>1, QueueFacts
  <2>5. \A u \in Visits : saving[u] # None => \E i \in 1..L : unwritten[i].visit = u
    BY <1>1, QueueFacts
  <2>6. v \in Visits
    BY <1>1, <2>1, <2>2
  <2>. QED
    BY <2>2, <2>3, <2>4, <2>5, <2>6
<1>3. /\ saving' \in [Visits -> Sound \cup {None}] /\ saving'[v] = None
      /\ \A u \in Visits \ {v} : saving'[u] = saving[u]
  BY <1>2 DEF TypeOK
<1>4. \A i \in 1..(L - 1) : i + 1 # 1 /\ 1 \in 1..L
  BY <1>1
<1>5. \A i \in 1..(L - 1) :
          unwritten[i + 1].visit # v
          /\ saving'[unwritten[i + 1].visit] = saving[unwritten[i + 1].visit]
  BY <1>1, <1>2, <1>3, <1>4
<1>6. OneWriteEach'
  <2>1. \A i \in 1..(L - 1) :
            saving'[unwritten'[i].visit] # None
            /\ unwritten'[i].value = saving'[unwritten'[i].visit][Keys[unwritten'[i].key]]
    BY <1>1, <1>2, <1>5
  <2>2. \A i, j \in 1..(L - 1) : i # j => unwritten'[i].visit # unwritten'[j].visit
    <3>1. \A i, j \in 1..(L - 1) : i # j => i + 1 # j + 1
      BY <1>1
    <3>. QED
      BY <1>1, <1>2, <3>1
  <2>3. ASSUME NEW u \in Visits, saving'[u] # None
        PROVE  \E i \in 1..(L - 1) : unwritten'[i].visit = u
    <3>1. u # v /\ saving[u] # None
      BY <1>3, <2>3
    <3>2. PICK i \in 1..L : unwritten[i].visit = u
      BY <1>2, <3>1
    <3>3. i - 1 \in 1..(L - 1) /\ (i - 1) + 1 = i
      BY <1>1, <3>1, <3>2
    <3>4. unwritten'[i - 1].visit = u
      BY <1>1, <3>2, <3>3
    <3>. QED
      BY <3>3, <3>4
  <2>4. DOMAIN unwritten' = 1..(L - 1)
    BY <1>1
  <2>5. \A u \in Visits : saving'[u] # None => \E i \in DOMAIN unwritten' : unwritten'[i].visit = u
    BY <2>3, <2>4
  <2>6. \A i \in DOMAIN unwritten' : 
            saving'[unwritten'[i].visit] # None
            /\ unwritten'[i].value = saving'[unwritten'[i].visit][Keys[unwritten'[i].key]]
    BY <2>1, <2>4
  <2>7. \A i, j \in DOMAIN unwritten' : i # j => unwritten'[i].visit # unwritten'[j].visit
    BY <2>2, <2>4
  <2>. QED
    BY <2>5, <2>6, <2>7 DEF OneWriteEach, InSave
<1>. QED
  BY <1>1, <1>3, <1>5, <1>6

(* The newest save is the last to end: it leaves what it has written.      *)
LEMMA SaveEnds ==
    ASSUME SettingsInv, unwritten # <<>>, NEW w, w = Head(unwritten), w.key = 4,
           Performed(w), unwritten' = Tail(unwritten), Saved(w.visit),
           theme' = saving[w.visit].theme,
           screen' \in [Visits -> {"closed", "loading", "form", "leaving"}],
           form' \in [Visits -> Sound], busy' \in [Visits -> BOOLEAN],
           UNCHANGED <<memory, catalog, last, hurried, torn>>
    PROVE  TypeOK' /\ OneWriteEach' /\ SavesInOrder'
<1> PICK L : L = Len(unwritten)
  OBVIOUS
<1> PICK s : s = saving[w.visit]
  OBVIOUS
<1>1. TypeOK /\ OneWriteEach /\ SavesInOrder
  BY InvFacts
<1>2. /\ w.visit \in Visits /\ 1 \in DOMAIN unwritten /\ w = unwritten[1]
      /\ s \in Sound /\ saving[w.visit] = s /\ s # None
      /\ device' = Put(device, 4, s)
  BY <1>1, HeadWrite, SaveIsNone
<1>3. /\ unwritten' \in Seq(Write) /\ saving' \in [Visits -> Sound \cup {None}]
      /\ OneWriteEach'
      /\ DOMAIN unwritten' = 1..(L - 1)
      /\ \A i \in 1..(L - 1) :
             /\ unwritten'[i] = unwritten[i + 1] /\ i + 1 \in DOMAIN unwritten
             /\ unwritten[i + 1].visit # w.visit
             /\ saving'[unwritten[i + 1].visit] = saving[unwritten[i + 1].visit]
  BY <1>1, SaveLeaves DEF Saved
<1>4. /\ L \in Nat /\ DOMAIN unwritten = 1..L
      /\ \A i \in 1..L : unwritten[i].visit \in Visits /\ unwritten[i].key \in 1..4
                         /\ saving[unwritten[i].visit] # None
  BY <1>1, QueueFacts
<1>5. /\ device' \in Sound
      /\ \A j \in 1..4 : device'[Keys[j]] = IF j = 4 THEN s[Keys[4]] ELSE device[Keys[j]]
  <2>1. 4 \in 1..4 /\ device \in Sound
    BY <1>1 DEF TypeOK
  <2>. QED
    BY <1>2, <2>1, KeyIsWritten
<1>6. TypeOK'
  BY <1>1, <1>3, <1>5 DEF TypeOK
<1>7. ASSUME ~torn'
      PROVE  IF AllSaved' THEN LastIsStored' ELSE \E n \in DOMAIN unwritten' : Newest(n)'
  <2>1. ~AllSaved
    BY <1>2 DEF AllSaved, InSave
  <2>2. PICK n \in 1..L : Newest(n)
    BY <1>1, <1>4, <1>7, <2>1 DEF SavesInOrder
  <2>3. PICK m : m = unwritten[n].key
    OBVIOUS
  <2>4. /\ m \in 1..4 /\ saving[unwritten[n].visit] = last
        /\ \A j \in 1..4 : j <= m => memory[Keys[j]] = last[Keys[j]]
        /\ \A j \in 1..4 : j < m => device[Keys[j]] = last[Keys[j]]
        /\ \A i \in 1..L : unwritten[i].key >= m /\ (unwritten[i].key = m => i <= n)
    BY <1>4, <2>2, <2>3 DEF Newest
  <2>5. CASE n = 1
    <3>1. m = 4 /\ s = last
      BY <1>2, <2>3, <2>4, <2>5
    <3>2. L = 1
      <4>1. \A y \in 1..4 : y >= 4 => y = 4
        OBVIOUS
      <4>2. \A i \in 1..L : i <= 1
        BY <1>4, <2>4, <2>5, <3>1, <4>1
      <4>3. L \in 1..L
        BY <1>4, <2>2
      <4>. QED
        BY <1>4, <4>2, <4>3
    <3>3. AllSaved'
      <4>1. DOMAIN unwritten' = {}
        BY <1>3, <3>2
      <4>. QED
        BY <1>3, <4>1 DEF OneWriteEach, AllSaved
    <3>4. LastIsStored'
      <4>1. \A j \in 1..4 : j <= 4 /\ (j # 4 => j < 4)
        OBVIOUS
      <4>2. \A j \in 1..4 : memory[Keys[j]] = last[Keys[j]] /\ device'[Keys[j]] = last[Keys[j]]
        BY <1>5, <2>4, <3>1, <4>1
      <4>3. memory = last /\ device' = last
        BY <1>1, <1>5, <4>2, SameKeys DEF TypeOK
      <4>. QED
        BY <3>1, <4>3 DEF LastIsStored
    <3>. QED
      BY <3>3, <3>4
  <2>6. CASE n # 1
    <3>1. PICK o : o = n - 1
      OBVIOUS
    <3>2. o \in 1..(L - 1) /\ o + 1 = n
      BY <1>4, <2>6, <3>1
    <3>3. /\ unwritten'[o] = unwritten[n]
          /\ saving'[unwritten'[o].visit] = last' /\ last' # None
          /\ unwritten'[o].key = m
      BY <1>1, <1>3, <2>3, <2>4, <3>2, SaveIsNone DEF TypeOK
    <3>4. \A j \in 1..4 : j < m => device'[Keys[j]] = last[Keys[j]]
      <4>1. \A j \in 1..4 : j < m => j # 4
        BY <2>4
      <4>. QED
        BY <1>5, <2>4, <4>1
    <3>5. \A i \in 1..(L - 1) : unwritten'[i].key >= m /\ (unwritten'[i].key = m => i <= o)
      <4>1. \A i \in 1..(L - 1) : i + 1 <= n => i <= o
        BY <1>4, <3>2
      <4>. QED
        BY <1>3, <1>4, <2>4, <4>1
    <3>6. Newest(o)'
      BY <1>3, <2>4, <3>3, <3>4, <3>5 DEF Newest
    <3>7. ~AllSaved'
      <4>1. unwritten'[o].visit \in Visits
        BY <1>4, <3>3
      <4>. QED
        BY <3>3, <4>1 DEF AllSaved, InSave
    <3>. QED
      BY <1>3, <3>2, <3>6, <3>7
  <2>. QED
    BY <2>5, <2>6
<1>. QED
  BY <1>3, <1>6, <1>7 DEF SavesInOrder

-----------------------------------------------------------------------------
(* The changes made in a form.                                             *)

Changed(r, study, active) == [r EXCEPT !.study = study, !.active = active]

Distinct(list) == \A i, j \in DOMAIN list : i # j => list[i] # list[j]

LEMMA ChangedIsSound ==
    ASSUME NEW r \in Sound, NEW study \in Seq(Languages), NEW active \in Codes, Distinct(study)
    PROVE  /\ Changed(r, study, active) \in Sound
           /\ ActiveEnrolled(Changed(r, study, active)) <=>
                  (active # None => \E i \in DOMAIN study : study[i] = active)
<1> DEFINE x == Changed(r, study, active)
<1>1. x \in Record /\ x.study = study /\ x.active = active
  BY DEF Sound, Record, Changed
<1> HIDE DEF x
<1>2. x \in Sound
  BY <1>1 DEF Sound, Distinct
<1>3. ActiveEnrolled(x) <=> (active # None => \E i \in DOMAIN study : study[i] = active)
  BY <1>1 DEF ActiveEnrolled, Enrolled
<1>. QED
  BY <1>2, <1>3 DEF x

LEMMA SoundFacts ==
    ASSUME NEW r \in Sound
    PROVE  /\ r.study \in Seq(Languages) /\ Distinct(r.study)
           /\ r.active \in Codes /\ r.native \in Codes /\ r.theme \in Themes
           /\ \A code : code \in Enrolled(r) <=> \E i \in DOMAIN r.study : r.study[i] = code
BY DEF Sound, Record, Distinct, Enrolled

(* A language more at the end of the list.                                 *)
LEMMA AppendedList ==
    ASSUME NEW list \in Seq(Languages), Distinct(list), NEW code \in Languages,
           \A i \in DOMAIN list : list[i] # code
    PROVE  /\ Append(list, code) \in Seq(Languages) /\ Distinct(Append(list, code))
           /\ \A c : (\E i \in DOMAIN list : list[i] = c) \/ c = code =>
                         \E i \in DOMAIN Append(list, code) : Append(list, code)[i] = c
<1> PICK L, more : L = Len(list) /\ more = Append(list, code)
  OBVIOUS
<1>1. /\ L \in Nat /\ DOMAIN list = 1..L /\ more \in Seq(Languages)
      /\ DOMAIN more = 1..(L + 1) /\ more[L + 1] = code
      /\ \A i \in 1..L : more[i] = list[i]
  BY AppendProperties
<1>2. \A i \in 1..(L + 1) : i = L + 1 \/ i \in 1..L
  BY <1>1
<1>3. L + 1 \in 1..(L + 1) /\ \A i \in 1..L : i \in 1..(L + 1)
  BY <1>1
<1>4. Distinct(more)
  BY <1>1, <1>2 DEF Distinct
<1>5. \A c : (\E i \in 1..L : list[i] = c) \/ c = code => \E i \in 1..(L + 1) : more[i] = c
  BY <1>1, <1>3
<1>. QED
  BY <1>1, <1>4, <1>5

(* The list without one of its languages keeps the others.                 *)
LEMMA ShortenedList ==
    ASSUME NEW list \in Seq(Languages), Distinct(list), NEW code \in Languages,
           \E i \in DOMAIN list : list[i] = code
    PROVE  /\ Without(list, code) \in Seq(Languages) /\ Distinct(Without(list, code))
           /\ \A c : (\E i \in DOMAIN list : list[i] = c) /\ c # code =>
                  \E i \in DOMAIN Without(list, code) : Without(list, code)[i] = c
<1> PICK L, less : L = Len(list) /\ less = Without(list, code)
  OBVIOUS
<1> PICK at : at = CHOOSE i \in DOMAIN list : list[i] = code
  OBVIOUS
<1>1. L \in Nat /\ DOMAIN list = 1..L /\ \A i \in 1..L : list[i] \in Languages
  OBVIOUS
<1>2. at \in 1..L /\ list[at] = code
  BY <1>1
<1>3. less = [i \in 1..(L - 1) |-> IF i < at THEN list[i] ELSE list[i + 1]]
  BY DEF Without
<1>4. L - 1 \in Nat /\ \A i \in 1..(L - 1) : i \in 1..L /\ i + 1 \in 1..L
  BY <1>1, <1>2
<1>5. DOMAIN less = 1..(L - 1)
      /\ \A i \in 1..(L - 1) : less[i] = IF i < at THEN list[i] ELSE list[i + 1]
  BY <1>3
<1>6. less \in Seq(Languages)
  <2>1. less \in [1..(L - 1) -> Languages]
    BY <1>1, <1>3, <1>4
  <2>2. PICK m \in Nat : m = L - 1
    BY <1>4
  <2>3. less \in [1..m -> Languages]
    BY <2>1, <2>2
  <2>. QED
    BY <2>2, <2>3, SeqDef
<1>7. Distinct(less)
  <2>1. ASSUME NEW i \in 1..(L - 1), NEW j \in 1..(L - 1), i # j, less[i] = less[j]
        PROVE  FALSE
    <3>1. PICK a, b : /\ a = (IF i < at THEN i ELSE i + 1)
                      /\ b = (IF j < at THEN j ELSE j + 1)
      OBVIOUS
    <3>2. a # b /\ a \in 1..L /\ b \in 1..L
      BY <1>2, <1>4, <2>1, <3>1
    <3>3. less[i] = list[a] /\ less[j] = list[b]
      BY <1>5, <3>1
    <3>. QED
      BY <1>1, <2>1, <3>2, <3>3 DEF Distinct
  <2>. QED
    BY <1>5, <2>1 DEF Distinct
<1>8. ASSUME NEW c, c # code, NEW i \in 1..L, list[i] = c
      PROVE  \E j \in 1..(L - 1) : less[j] = c
  <2>1. i # at
    BY <1>2, <1>8
  <2>2. CASE i < at
    <3>1. i \in 1..(L - 1)
      BY <1>1, <1>2, <2>2
    <3>2. less[i] = c
      BY <1>5, <1>8, <2>2, <3>1
    <3>. QED
      BY <3>1, <3>2
  <2>3. CASE i > at
    <3>1. PICK j : j = i - 1
      OBVIOUS
    <3>2. j \in 1..(L - 1) /\ ~ (j < at) /\ j + 1 = i
      BY <1>1, <1>2, <2>3, <3>1
    <3>3. less[j] = c
      BY <1>5, <1>8, <3>2
    <3>. QED
      BY <3>2, <3>3
  <2>. QED
    BY <1>1, <1>2, <2>1, <2>2, <2>3
<1>. QED
  BY <1>1, <1>5, <1>6, <1>7, <1>8

LEMMA FirstOfList ==
    ASSUME NEW list \in Seq(Languages), list # <<>>
    PROVE  Head(list) \in Languages /\ \E i \in DOMAIN list : list[i] = Head(list)
<1>1. 1 \in DOMAIN list /\ Head(list) = list[1] /\ list[1] \in Languages
  BY HeadTailProperties
<1>. QED
  BY <1>1

(* What a form shows once the reader has changed a setting.                *)
LEMMA FormStaysSound ==
    ASSUME TypeOK, NEW v \in Visits, Form(v)
    PROVE  \E settings \in Sound :
               /\ Edit(v, settings)
               /\ ActiveEnrolled(form[v]) => ActiveEnrolled(settings)
<1> PICK r : r = form[v]
  OBVIOUS
<1>1. r \in Sound /\ \A q \in catalog : q.native \in Languages /\ q.target \in Languages
  BY CatalogsAssumption DEF TypeOK, Pair
<1>2. /\ r.study \in Seq(Languages) /\ Distinct(r.study)
      /\ r.active \in Codes /\ r.native \in Codes /\ r.theme \in Themes
      /\ \A code : code \in Enrolled(r) <=> \E i \in DOMAIN r.study : r.study[i] = code
  BY <1>1, SoundFacts
<1>3. StudyLanguageOptions(v) \subseteq Languages
  BY <1>1 DEF StudyLanguageOptions
<1>4. None \in Codes /\ Languages \subseteq Codes
  BY DEF Codes
<1>5. CASE SetNativeLanguage(v)
  <2>1. PICK q \in catalog :
            Edit(v, [form[v] EXCEPT !.native = q.native, !.study = <<>>, !.active = None])
    BY <1>5 DEF SetNativeLanguage
  <2>2. PICK x : x = [form[v] EXCEPT !.native = q.native, !.study = <<>>, !.active = None]
    OBVIOUS
  <2>3. x \in Record /\ x.study = <<>> /\ x.active = None
    <3>1. q.native \in Codes /\ <<>> \in Seq(Languages)
      BY <1>1, <1>4
    <3>. QED
      BY <1>1, <1>4, <2>2, <3>1 DEF Sound, Record
  <2>4. x \in Sound
    <3>1. \A e : e = <<>> => DOMAIN e = {}
      OBVIOUS
    <3>. QED
      BY <2>3, <3>1 DEF Sound
  <2>5. ActiveEnrolled(x)
    BY <2>3 DEF ActiveEnrolled
  <2>. QED
    BY <2>1, <2>2, <2>4, <2>5
<1>6. CASE Enroll(v)
  <2>1. PICK code \in StudyLanguageOptions(v) \ Enrolled(form[v]) :
            Edit(v, [form[v] EXCEPT !.study = Append(@, code),
                                    !.active = IF @ = None THEN code ELSE @])
    BY <1>6 DEF Enroll
  <2>2. PICK active : active = IF r.active = None THEN code ELSE r.active
    OBVIOUS
  <2>3. code \in Languages /\ active \in Codes
    BY <1>2, <1>3, <1>4, <2>1, <2>2
  <2>4. \A i \in DOMAIN r.study : r.study[i] # code
    BY <1>2, <2>1
  <2>5. PICK more : more = Append(r.study, code)
    OBVIOUS
  <2>6. /\ more \in Seq(Languages) /\ Distinct(more)
        /\ \A c : (\E i \in DOMAIN r.study : r.study[i] = c) \/ c = code =>
                      \E i \in DOMAIN more : more[i] = c
    BY <1>2, <2>3, <2>4, <2>5, AppendedList
  <2>7. Edit(v, Changed(r, more, active))
    BY <2>1, <2>2, <2>5 DEF Changed
  <2>8. /\ Changed(r, more, active) \in Sound
        /\ ActiveEnrolled(Changed(r, more, active)) <=>
               (active # None => \E i \in DOMAIN more : more[i] = active)
    BY <1>1, <2>3, <2>6, ChangedIsSound
  <2>9. ActiveEnrolled(r) => (active # None => \E i \in DOMAIN more : more[i] = active)
    BY <1>2, <2>2, <2>6 DEF ActiveEnrolled
  <2>. QED
    BY <2>7, <2>8, <2>9
<1>7. CASE Unenroll(v)
  <2>1. PICK code \in StudyLanguageOptions(v) \cap Enrolled(form[v]) :
            LET left == Without(form[v].study, code)
            IN  Edit(v, [form[v] EXCEPT
                    !.study = left,
                    !.active = IF @ # code THEN @ ELSE IF left = <<>> THEN None ELSE Head(left)])
    BY <1>7 DEF Unenroll
  <2>2. PICK list, left : list = r.study /\ left = Without(list, code)
    OBVIOUS
  <2>3. PICK active : active = IF r.active # code THEN r.active
                               ELSE IF left = <<>> THEN None ELSE Head(left)
    OBVIOUS
  <2>4. /\ list \in Seq(Languages) /\ Distinct(list) /\ code \in Languages
        /\ \E i \in DOMAIN list : list[i] = code
    BY <1>2, <1>3, <2>1, <2>2
  <2>5. /\ left \in Seq(Languages) /\ Distinct(left)
        /\ \A c : (\E i \in DOMAIN list : list[i] = c) /\ c # code =>
                      \E i \in DOMAIN left : left[i] = c
    <3>1. /\ Without(list, code) \in Seq(Languages) /\ Distinct(Without(list, code))
          /\ \A c : (\E i \in DOMAIN list : list[i] = c) /\ c # code =>
                 \E i \in DOMAIN Without(list, code) : Without(list, code)[i] = c
      BY <2>4, ShortenedList
    <3>. QED
      BY <2>2, <3>1
  <2>6. left # <<>> => Head(left) \in Languages /\ \E i \in DOMAIN left : left[i] = Head(left)
    BY <2>5, FirstOfList
  <2>7. active \in Codes
    BY <1>2, <1>4, <2>3, <2>6
  <2>8. Edit(v, Changed(r, left, active))
    BY <2>1, <2>2, <2>3 DEF Changed
  <2>9. /\ Changed(r, left, active) \in Sound
        /\ ActiveEnrolled(Changed(r, left, active)) <=>
               (active # None => \E i \in DOMAIN left : left[i] = active)
    BY <1>1, <2>5, <2>7, ChangedIsSound
  <2>10. ActiveEnrolled(r) => (active # None => \E i \in DOMAIN left : left[i] = active)
    BY <1>2, <2>2, <2>3, <2>5, <2>6 DEF ActiveEnrolled
  <2>. QED
    BY <2>8, <2>9, <2>10
<1>8. CASE SetActive(v)
  <2>1. PICK code \in StudyLanguageOptions(v) \cap Enrolled(form[v]) :
            Edit(v, [form[v] EXCEPT !.active = code])
    BY <1>8 DEF SetActive
  <2>2. code \in Codes /\ \E i \in DOMAIN r.study : r.study[i] = code
    BY <1>2, <1>3, <1>4, <2>1
  <2>3. [form[v] EXCEPT !.active = code] = Changed(r, r.study, code)
    BY <1>1 DEF Changed, Sound, Record
  <2>4. /\ Changed(r, r.study, code) \in Sound
        /\ ActiveEnrolled(Changed(r, r.study, code))
    BY <1>1, <1>2, <2>2, ChangedIsSound
  <2>. QED
    BY <2>1, <2>3, <2>4
<1>9. CASE SetTheme(v)
  <2>1. PICK mode \in Themes : Edit(v, [form[v] EXCEPT !.theme = mode])
    BY <1>9 DEF SetTheme
  <2>2. PICK x : x = [form[v] EXCEPT !.theme = mode]
    OBVIOUS
  <2>3. x \in Record /\ x.study = r.study /\ x.active = r.active
    BY <1>1, <2>2 DEF Sound, Record
  <2>4. x \in Sound
    BY <1>1, <2>3 DEF Sound
  <2>5. ActiveEnrolled(r) => ActiveEnrolled(x)
    BY <2>3 DEF ActiveEnrolled, Enrolled
  <2>. QED
    BY <2>1, <2>2, <2>4, <2>5
<1>. QED
  BY <1>5, <1>6, <1>7, <1>8, <1>9 DEF Form

-----------------------------------------------------------------------------
(* The screens.                                                            *)

LEMMA InvSplit ==
    ASSUME TypeOK, OneWriteEach, SavesInOrder, ScreensOK, LibraryOK, EnrolledOK
    PROVE  SettingsInv
BY DEF SettingsInv

(* No save is under way once the reader is back, unless he left it.        *)
LEMMA NobodySaves ==
    ASSUME SettingsInv, Open = {}, ~hurried
    PROVE  AllSaved /\ (~torn => LastIsStored)
BY InvFacts DEF ScreensOK, AllSaved, SavesInOrder

LEMMA PopTyped ==
    ASSUME TypeOK, NEW v \in Visits, Pop(v)
    PROVE  /\ screen' \in [Visits -> {"closed", "loading", "form", "leaving"}]
           /\ form' \in [Visits -> Sound] /\ busy' \in [Visits -> BOOLEAN]
           /\ v \notin Open' /\ \A u \in Visits \ {v} :
                  (u \in Open' <=> u \in Open) /\ form'[u] = form[u]
           /\ library' = LoadingLibrary
BY BlankIsSound DEF TypeOK, Pop, Open, Reload

(* With the one screen popped none is open.                                *)
LEMMA PopCloses ==
    ASSUME TypeOK, ScreensOK, NEW v \in Open, Pop(v)
    PROVE  Open' = {}
<1>1. v \in Visits /\ \A u \in Visits : u # v => u \notin Open
  BY DEF ScreensOK, Open
<1>2. Open' \subseteq Visits
  BY DEF Open
<1>. QED
  BY <1>1, <1>2, PopTyped

(* Where a save that ends leaves the screens.                              *)
LEMMA ReturnFacts ==
    ASSUME SettingsInv, NEW v \in Visits, InSave(v), SaveReturns(v), UNCHANGED hurried
    PROVE  /\ screen' \in [Visits -> {"closed", "loading", "form", "leaving"}]
           /\ form' \in [Visits -> Sound] /\ busy' \in [Visits -> BOOLEAN]
           /\ ScreensOK'
           /\ \/ Open' = {} /\ library' = LoadingLibrary
              \/ hurried /\ Open' = Open /\ UNCHANGED <<form, library>>
<1>1. TypeOK /\ ScreensOK
  BY InvFacts
<1>2. /\ saving'[v] = None
      /\ \A u \in Visits : saving'[u] # None => saving[u] # None /\ u # v
  BY <1>1 DEF TypeOK, SaveReturns, Saved
<1>3. CASE \E u \in Open : Pop(u) /\ UNCHANGED home
  <2>1. PICK u \in Open : Pop(u) /\ UNCHANGED home
    BY <1>3
  <2>2. u \in Visits /\ Open' = {}
    BY <1>1, <2>1, PopCloses DEF Open
  <2>3. ~hurried => \A t \in Visits : InSave(t) => t = u
    BY <1>1, <2>1 DEF ScreensOK
  <2>4. ~hurried => v = u
    BY <2>3
  <2>5. ScreensOK'
    BY <1>1, <1>2, <2>1, <2>2, <2>3, <2>4 DEF ScreensOK, InSave
  <2>. QED
    BY <1>1, <2>1, <2>2, <2>5, PopTyped
<1>4. CASE UNCHANGED <<screen, visit, library>> /\ (Open = {} \/ screen[v] = "closed")
  <2>1. v \notin Open
    BY <1>4 DEF Open
  <2>2. hurried
    BY <1>1, <2>1 DEF ScreensOK
  <2>3. Open' = Open /\ UNCHANGED <<form, busy, screen, library>>
    BY <1>4 DEF Open, visit
  <2>4. ScreensOK'
    <3>1. \A u \in Open' : InSave(u)' => screen'[u] = "form" /\ busy'[u]
      <4>1. \A u \in Open : u \in Visits /\ screen'[u] = screen[u] /\ busy'[u] = busy[u]
        BY <2>3 DEF Open
      <4>. QED
        BY <1>1, <1>2, <2>3, <4>1 DEF ScreensOK, InSave
    <3>2. \A t, u \in Open' : t = u
      BY <1>1, <2>3 DEF ScreensOK
    <3>. QED
      BY <2>2, <3>1, <3>2 DEF ScreensOK
  <2>5. /\ screen' \in [Visits -> {"closed", "loading", "form", "leaving"}]
        /\ form' \in [Visits -> Sound] /\ busy' \in [Visits -> BOOLEAN]
    BY <1>1, <2>3 DEF TypeOK
  <2>. QED
    BY <2>2, <2>3, <2>4, <2>5
<1>. QED
  BY <1>3, <1>4 DEF SaveReturns, PopTop

LEMMA PlatformWritesPreserves ==
    ASSUME SettingsInv, PlatformWrites
    PROVE  SettingsInv'
<1> PICK w : w = Head(unwritten)
  OBVIOUS
<1>1. TypeOK /\ OneWriteEach /\ ScreensOK /\ LibraryOK /\ EnrolledOK
  BY InvFacts
<1>2. /\ unwritten # <<>> /\ Performed(w)
      /\ UNCHANGED <<catalog, last, hurried, torn>>
  BY DEF PlatformWrites, rest, history
<1>3. w.visit \in Visits /\ w.key \in 1..4 /\ InSave(w.visit)
  BY <1>1, <1>2, HeadWrite
<1>4. CASE w.key < 4
  <2>1. /\ WriteKey(w.visit, w.key + 1, saving[w.visit], Tail(unwritten))
        /\ UNCHANGED <<saving, theme, screen, visit, home, library>>
    BY <1>4, KeyNames DEF PlatformWrites
  <2>2. UNCHANGED <<form, busy>>
    BY <2>1 DEF visit
  <2>3. TypeOK' /\ OneWriteEach' /\ SavesInOrder'
    BY <1>2, <1>4, <2>1, <2>2, SaveGoesOn
  <2>4. Open' = Open
    BY <2>1 DEF Open
  <2>5. ScreensOK'
    BY <1>1, <1>2, <2>1, <2>2, <2>4 DEF ScreensOK, InSave
  <2>6. LibraryOK'
    BY <1>1, <1>2, <1>3, <2>4 DEF ScreensOK, LibraryOK
  <2>7. EnrolledOK'
    BY <1>1, <1>2, <2>2, <2>4 DEF EnrolledOK
  <2>. QED
    BY <2>3, <2>5, <2>6, <2>7, InvSplit DEF SettingsInv
<1>5. CASE w.key = 4
  <2>1. unwritten' = Tail(unwritten) /\ UNCHANGED memory /\ SaveReturns(w.visit)
    BY <1>5, KeyNames DEF PlatformWrites
  <2>2. /\ screen' \in [Visits -> {"closed", "loading", "form", "leaving"}]
        /\ form' \in [Visits -> Sound] /\ busy' \in [Visits -> BOOLEAN]
        /\ ScreensOK'
        /\ \/ Open' = {} /\ library' = LoadingLibrary
           \/ hurried /\ Open' = Open /\ UNCHANGED <<form, library>>
    BY <1>2, <1>3, <2>1, ReturnFacts
  <2>3. TypeOK' /\ OneWriteEach' /\ SavesInOrder'
    BY <1>2, <1>5, <2>1, <2>2, SaveEnds DEF SaveReturns
  <2>4. LibraryOK'
    BY <1>2, <2>2 DEF LibraryOK
  <2>5. EnrolledOK'
    BY <1>1, <1>2, <2>2 DEF EnrolledOK
  <2>. QED
    BY <2>2, <2>3, <2>4, <2>5 DEF SettingsInv
<1>. QED
  BY <1>3, <1>4, <1>5

LEMMA PlatformWriteFailsPreserves ==
    ASSUME SettingsInv, PlatformWriteFails
    PROVE  SettingsInv'
<1>1. TypeOK /\ OneWriteEach /\ ScreensOK /\ LibraryOK
  BY InvFacts
<1> PICK v : v = Head(unwritten).visit
  OBVIOUS
<1>2. /\ unwritten # <<>> /\ unwritten' = Tail(unwritten)
      /\ saving' = [saving EXCEPT ![v] = None]
      /\ torn' = TRUE
      /\ UNCHANGED <<catalog, memory, device, screen, form, busy, home, library, last, hurried>>
  BY DEF PlatformWriteFails, visit
<1>3. /\ unwritten' \in Seq(Write) /\ saving' \in [Visits -> Sound \cup {None}]
      /\ OneWriteEach'
  BY <1>1, <1>2, SaveLeaves
<1>4. TypeOK'
  BY <1>1, <1>2, <1>3 DEF TypeOK
<1>5. \A u \in Visits : saving'[u] # None => saving[u] # None
  BY <1>1, <1>2 DEF TypeOK
<1>6. Open' = Open
  BY <1>2 DEF Open
<1>7. ScreensOK'
  BY <1>1, <1>2, <1>5, <1>6 DEF ScreensOK, InSave, Open
<1>8. LibraryOK' /\ EnrolledOK'
  BY <1>1, <1>2, <1>6 DEF LibraryOK, EnrolledOK, LibraryShows
<1>. QED
  BY <1>2, <1>3, <1>4, <1>7, <1>8, TornSaves DEF SettingsInv

LEMMA RestartPreserves ==
    ASSUME SettingsInv, Restart
    PROVE  SettingsInv'
<1>1. TypeOK /\ SavesInOrder
  BY InvFacts
<1>2. /\ memory' = device /\ unwritten' = <<>>
      /\ screen' = [v \in Visits |-> "closed"]
      /\ form' = [v \in Visits |-> Blank]
      /\ busy' = [v \in Visits |-> FALSE]
      /\ saving' = [v \in Visits |-> None]
      /\ home' = TRUE /\ library' = LoadingLibrary
      /\ theme' = device.theme
      /\ torn' = (torn \/ ~AllSaved)
      /\ UNCHANGED <<catalog, device, last, hurried>>
  BY DEF Restart
<1>3. Open' = {} /\ AllSaved' /\ \A v \in Visits : saving'[v] = None
  BY <1>2 DEF Open, AllSaved, InSave
<1>4. TypeOK'
  <2>1. busy' \in [Visits -> BOOLEAN]
    BY <1>2, Zenon
  <2>2. unwritten' \in Seq(Write)
    BY <1>2
  <2>3. /\ screen' \in [Visits -> {"closed", "loading", "form", "leaving"}]
        /\ form' \in [Visits -> Sound] /\ saving' \in [Visits -> Sound \cup {None}]
    BY <1>2, BlankIsSound
  <2>4. torn' \in BOOLEAN
    BY <1>2, Zenon
  <2>. QED
    BY <1>1, <1>2, <2>1, <2>2, <2>3, <2>4 DEF TypeOK
<1>5. OneWriteEach'
  <2>1. \A e : e = <<>> => DOMAIN e = {}
    OBVIOUS
  <2>2. DOMAIN unwritten' = {}
    BY <1>2, <2>1
  <2>. QED
    BY <1>3, <2>2 DEF OneWriteEach, InSave
<1>6. SavesInOrder'
  <2>1. ~torn' => AllSaved /\ ~torn
    BY <1>2
  <2>2. ~torn' => LastIsStored
    BY <1>1, <2>1 DEF SavesInOrder
  <2>. QED
    BY <1>2, <1>3, <2>2 DEF SavesInOrder, LastIsStored
<1>7. EnrolledOK'
  <2>1. ~torn' => ~torn
    BY <1>2
  <2>. QED
    BY <1>2, <1>3, <2>1, InvFacts DEF EnrolledOK
<1>8. ScreensOK' /\ LibraryOK'
  BY <1>2, <1>3 DEF ScreensOK, LibraryOK, InSave
<1>. QED
  BY <1>4, <1>5, <1>6, <1>7, <1>8 DEF SettingsInv

LEMMA SavePreserves ==
    ASSUME SettingsInv, NEW v \in Visits, Save(v)
    PROVE  SettingsInv'
<1>1. TypeOK /\ ScreensOK /\ LibraryOK /\ EnrolledOK
  BY InvFacts
<1>2. /\ screen[v] = "form" /\ busy' = [busy EXCEPT ![v] = TRUE]
      /\ saving' = [saving EXCEPT ![v] = form[v]] /\ last' = form[v]
      /\ UNCHANGED <<screen, form, home, hurried, torn>>
  BY DEF Save
<1>3. Open' = Open /\ v \in Open /\ \A u \in Open : u = v
  BY <1>1, <1>2 DEF Open, ScreensOK
<1>4. \A u \in Visits \ {v} : saving'[u] = saving[u]
  BY <1>1, <1>2 DEF TypeOK
<1>5. ScreensOK'
  <2>1. busy'[v] = TRUE
    BY <1>1, <1>2 DEF TypeOK
  <2>. QED
    BY <1>1, <1>2, <1>3, <1>4, <2>1 DEF ScreensOK, InSave
<1>6. LibraryOK' /\ EnrolledOK'
  BY <1>1, <1>2, <1>3 DEF LibraryOK, EnrolledOK
<1>. QED
  BY <1>5, <1>6, SaveBegins DEF SettingsInv

LEMMA BackPreserves ==
    ASSUME SettingsInv, NEW v \in Visits, Back(v)
    PROVE  SettingsInv'
<1>1. TypeOK /\ OneWriteEach /\ SavesInOrder /\ ScreensOK /\ EnrolledOK
  BY InvFacts
<1>2. /\ v \in Open /\ Pop(v) /\ hurried' = (hurried \/ InSave(v))
      /\ UNCHANGED <<catalog, memory, device, unwritten, saving, home, theme, last, torn>>
  BY DEF Back, prefs
<1>3. Open' = {} /\ library' = LoadingLibrary
  BY <1>1, <1>2, PopCloses DEF Pop, Reload
<1>4. OneWriteEach' /\ SavesInOrder'
  BY <1>1, <1>2, SavesKept
<1>5. TypeOK'
  <2>1. hurried' \in BOOLEAN
    BY <1>2 DEF InSave
  <2>. QED
    BY <1>1, <1>2, <2>1, PopTyped DEF TypeOK
<1>6. ScreensOK'
  <2>1. ASSUME ~hurried' PROVE home /\ \A u \in Visits : ~InSave(u)
    <3>1. ~hurried /\ ~InSave(v)
      BY <1>2, <2>1
    <3>. QED
      BY <1>1, <1>2, <3>1 DEF ScreensOK
  <2>. QED
    BY <1>2, <1>3, <2>1 DEF ScreensOK, InSave
<1>7. LibraryOK' /\ EnrolledOK'
  <2>1. ~hurried' => ~hurried
    BY <1>2
  <2>. QED
    BY <1>1, <1>2, <1>3, <2>1 DEF LibraryOK, EnrolledOK
<1>. QED
  BY <1>4, <1>5, <1>6, <1>7 DEF SettingsInv

LEMMA OpenSettingsPreserves ==
    ASSUME SettingsInv, NEW v \in Visits, OpenSettings(v)
    PROVE  SettingsInv'
<1>1. TypeOK /\ OneWriteEach /\ SavesInOrder /\ ScreensOK /\ EnrolledOK
  BY InvFacts
<1>2. /\ home /\ Open = {} /\ ~InSave(v)
      /\ screen' = [screen EXCEPT ![v] = "loading"]
      /\ form' = [form EXCEPT ![v] = memory]
      /\ UNCHANGED <<memory, device, unwritten, busy, saving, home, library, theme,
                     catalog, last, hurried, torn>>
  BY DEF OpenSettings, prefs, rest, history
<1>3. Open' = {v} /\ form'[v] = memory
  BY <1>1, <1>2 DEF TypeOK, Open
<1>4. OneWriteEach' /\ SavesInOrder'
  BY <1>1, <1>2, SavesKept
<1>5. TypeOK'
  BY <1>1, <1>2 DEF TypeOK
<1>6. ScreensOK'
  BY <1>1, <1>2, <1>3 DEF ScreensOK, InSave
<1>7. EnrolledOK'
  BY <1>1, <1>2, <1>3, NobodySaves DEF EnrolledOK, LastIsStored
<1>8. LibraryOK'
  BY <1>3 DEF LibraryOK
<1>. QED
  BY <1>4, <1>5, <1>6, <1>7, <1>8 DEF SettingsInv

LEMMA FormPreserves ==
    ASSUME SettingsInv, NEW v \in Visits, Form(v)
    PROVE  SettingsInv'
<1>1. TypeOK /\ OneWriteEach /\ SavesInOrder /\ ScreensOK /\ LibraryOK /\ EnrolledOK
  BY InvFacts
<1>2. PICK settings \in Sound :
          /\ Edit(v, settings)
          /\ ActiveEnrolled(form[v]) => ActiveEnrolled(settings)
  BY <1>1, FormStaysSound
<1>3. /\ screen[v] = "form" /\ form' = [form EXCEPT ![v] = settings]
      /\ UNCHANGED <<memory, device, unwritten, screen, busy, saving, home, library, theme,
                     catalog, last, hurried, torn>>
  BY <1>2 DEF Edit, prefs, history
<1>4. Open' = Open /\ v \in Open
  BY <1>3 DEF Open
<1>5. OneWriteEach' /\ SavesInOrder'
  BY <1>1, <1>3, SavesKept
<1>6. TypeOK'
  BY <1>1, <1>3 DEF TypeOK
<1>7. ScreensOK'
  BY <1>1, <1>3, <1>4 DEF ScreensOK, InSave
<1>8. EnrolledOK'
  <2>1. form'[v] = settings /\ \A u \in Visits \ {v} : form'[u] = form[u]
    BY <1>1, <1>3 DEF TypeOK
  <2>2. Open \subseteq Visits
    BY DEF Open
  <2>. QED
    BY <1>1, <1>2, <1>3, <1>4, <2>1, <2>2 DEF EnrolledOK
<1>9. LibraryOK'
  BY <1>4 DEF LibraryOK
<1>. QED
  BY <1>5, <1>6, <1>7, <1>8, <1>9 DEF SettingsInv

(* The steps that only show something.                                     *)
LEMMA ShowingPreserves ==
    ASSUME SettingsInv,
           \/ LibraryLoads \/ UNCHANGED vars
           \/ \E v \in Visits : BooksArrive(v) \/ TransitionEnds(v)
    PROVE  SettingsInv'
<1>1. TypeOK /\ OneWriteEach /\ SavesInOrder /\ ScreensOK /\ LibraryOK /\ EnrolledOK
  BY InvFacts
<1>2. UNCHANGED <<memory, device, unwritten, form, busy, saving, home, theme,
                  catalog, last, hurried, torn>>
  BY DEF LibraryLoads, BooksArrive, TransitionEnds, vars, prefs, visit, rest, history
<1>3. \/ UNCHANGED screen
      \/ \E u \in Visits, to \in {"form", "closed"} :
             /\ screen' = [screen EXCEPT ![u] = to]
             /\ screen[u] = IF to = "form" THEN "loading" ELSE "leaving"
  BY DEF LibraryLoads, BooksArrive, TransitionEnds, vars
<1>4. /\ Open' = Open
      /\ screen' \in [Visits -> {"closed", "loading", "form", "leaving"}]
      /\ \A u \in Visits : screen[u] = "form" => screen'[u] = "form"
  BY <1>1, <1>3 DEF TypeOK, Open
<1>5. OneWriteEach' /\ SavesInOrder'
  BY <1>1, <1>2, SavesKept
<1>6. TypeOK'
  BY <1>1, <1>2, <1>4 DEF TypeOK
<1>7. ScreensOK'
  <2>1. Open \subseteq Visits
    BY DEF Open
  <2>. QED
    BY <1>1, <1>2, <1>4, <2>1 DEF ScreensOK, InSave
<1>8. EnrolledOK'
  BY <1>1, <1>2, <1>4 DEF EnrolledOK
<1>9. LibraryOK'
  <2>1. UNCHANGED library \/ library' = Shown(Resolve(memory, catalog))
    BY DEF LibraryLoads, BooksArrive, TransitionEnds, vars
  <2>. QED
    BY <1>1, <1>2, <1>4, <2>1 DEF LibraryOK, LibraryShows
<1>. QED
  BY <1>5, <1>6, <1>7, <1>8, <1>9 DEF SettingsInv
-----------------------------------------------------------------------------
(* The inductive invariant holds in every reachable state.                 *)
THEOREM SettingsInvariant == Spec => []SettingsInv
<1>1. SettingsInv /\ [Next]_vars => SettingsInv'
  <2> SUFFICES ASSUME SettingsInv, [Next]_vars PROVE SettingsInv'
    OBVIOUS
  <2>1. CASE LibraryLoads \/ UNCHANGED vars
    BY <2>1, ShowingPreserves
  <2>2. ASSUME NEW v \in Visits, OpenSettings(v) PROVE SettingsInv'
    BY <2>2, OpenSettingsPreserves
  <2>3. ASSUME NEW v \in Visits, BooksArrive(v) \/ TransitionEnds(v) PROVE SettingsInv'
    BY <2>3, ShowingPreserves
  <2>4. ASSUME NEW v \in Visits, Form(v) PROVE SettingsInv'
    BY <2>4, FormPreserves
  <2>5. ASSUME NEW v \in Visits, Save(v) PROVE SettingsInv'
    BY <2>5, SavePreserves
  <2>6. ASSUME NEW v \in Visits, Back(v) PROVE SettingsInv'
    BY <2>6, BackPreserves
  <2>7. CASE PlatformWrites
    BY <2>7, PlatformWritesPreserves
  <2>8. CASE PlatformWriteFails
    BY <2>8, PlatformWriteFailsPreserves
  <2>9. CASE Restart
    BY <2>9, RestartPreserves
  <2>. QED
    BY <2>1, <2>2, <2>3, <2>4, <2>5, <2>6, <2>7, <2>8, <2>9 DEF Next
<1>. QED
  BY <1>1, SettingsInvInit, PTL DEF Spec

(* When no save is under way and none was cut off, memory and device hold  *)
(* the settings saved last, whatever saves overlapped before.              *)
THEOREM SaveIsWhole == Spec => []SavedIsWhole
<1>1. SettingsInv => SavedIsWhole
  BY InvFacts DEF SavesInOrder, LastIsStored, SavedIsWhole
<1>. QED
  BY <1>1, SettingsInvariant, PTL

(* The app is drawn in the stored theme, and the library shows what is     *)
(* stored once the reader is back from settings he did not hurry from.     *)
THEOREM ShowsWhatIsSaved == Spec => []ShownIsSaved
<1>1. SettingsInv => ShownIsSaved
  <2> SUFFICES ASSUME SettingsInv PROVE ShownIsSaved
    OBVIOUS
  <2>. QED
    BY InvFacts DEF SavesInOrder, LastIsStored, LibraryOK, ShownIsSaved
<1>. QED
  BY <1>1, SettingsInvariant, PTL

(* The pop after a save never takes the home route, unless the reader left *)
(* while the save was under way.                                           *)
THEOREM HomeIsKept == Spec => []HomeStays
<1>1. SettingsInv => HomeStays
  BY InvFacts DEF ScreensOK, HomeStays
<1>. QED
  BY <1>1, SettingsInvariant, PTL

(* The active language is one of those studied, in the form and in what is *)
(* stored.                                                                 *)
THEOREM ActiveStaysEnrolled == Spec => []ActiveIsEnrolled
<1>1. SettingsInv => ActiveIsEnrolled
  <2> SUFFICES ASSUME SettingsInv, ~hurried, ~torn
               PROVE  /\ \A v \in Open : ActiveEnrolled(form[v])
                      /\ AllSaved => ActiveEnrolled(memory) /\ ActiveEnrolled(device)
    BY DEF ActiveIsEnrolled
  <2>1. ActiveEnrolled(last) /\ \A v \in Open : ActiveEnrolled(form[v])
    BY InvFacts DEF EnrolledOK
  <2>2. AllSaved => memory = last /\ device = last
    BY InvFacts DEF SavesInOrder, LastIsStored
  <2>. QED
    BY <2>1, <2>2
<1>. QED
  BY <1>1, SettingsInvariant, PTL
=============================================================================
