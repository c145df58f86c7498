------------------------- MODULE LocalMetadataProofs -------------------------
(***************************************************************************)
(* What holds of the metadata manager for every set of ids, whatever their *)
(* types, prompts and sizes, and whichever saves raise or are cut off.     *)
(***************************************************************************)
EXTENDS LocalMetadata, FiniteSetTheorems, SequenceTheorems, WellFoundedInduction, TLAPS

-----------------------------------------------------------------------------
(* Least elements, and what dict.pop leaves of a sequence.                 *)

Below == OpToRel(<, Nat)

LEMMA MinOfSet ==
  ASSUME NEW S, S \subseteq Nat, S # {}
  PROVE  Min(S) \in S /\ \A y \in S : Min(S) <= y
<1>1. PICK x \in S : \A y \in S : ~ (<<y, x>> \in Below)
  BY NatLessThanWellFounded, WFMin DEF Below
<1>2. ASSUME NEW y \in S PROVE x <= y
  <2>1. ~ (y < x)
    BY <1>1 DEF Below, OpToRel
  <2> QED BY <2>1
<1> QED BY <1>2 DEF Min

LEMMA RemoveAtFacts ==
  ASSUME NEW S, NEW s \in Seq(S), NEW k \in 1..Len(s)
  PROVE  /\ RemoveAt(s, k) \in Seq(S) /\ Len(RemoveAt(s, k)) = Len(s) - 1
         /\ \A i \in 1..(Len(s) - 1) : RemoveAt(s, k)[i] = IF i < k THEN s[i] ELSE s[i + 1]
<1> DEFINE front == SubSeq(s, 1, k - 1)
           back  == SubSeq(s, k + 1, Len(s))
<1>1. \A i \in 1..Len(s) : s[i] \in S
  BY ElementOfSeq
<1>2. front \in Seq(S) /\ Len(front) = k - 1 /\ \A i \in 1..(k - 1) : front[i] = s[i]
  <2>1. \A i \in 1..(k - 1) : s[i] \in S
    BY <1>1
  <2> QED BY <2>1, SubSeqProperties
<1>3. back \in Seq(S) /\ Len(back) = Len(s) - k /\ \A i \in 1..(Len(s) - k) : back[i] = s[k + i]
  <2>1. \A i \in (k + 1)..Len(s) : s[i] \in S
    BY <1>1
  <2>2. k + 1 \in Int /\ Len(s) \in Int
    OBVIOUS
  <2>3. /\ back \in Seq(S) /\ Len(back) = IF k + 1 <= Len(s) THEN Len(s) - (k + 1) + 1 ELSE 0
        /\ \A i \in 1..(Len(s) - (k + 1) + 1) : back[i] = s[k + 1 + i - 1]
    BY <2>1, <2>2, SubSeqProperties
  <2> QED BY <2>3
<1>4. RemoveAt(s, k) = front \o back
  BY DEF RemoveAt
<1> HIDE DEF front, back
<1>5. /\ front \o back \in Seq(S) /\ Len(front \o back) = Len(s) - 1
      /\ \A i \in 1..(Len(s) - 1) :
           (front \o back)[i] = IF i <= k - 1 THEN front[i] ELSE back[i - (k - 1)]
  <2>1. /\ front \o back \in Seq(S) /\ Len(front \o back) = Len(front) + Len(back)
        /\ \A i \in 1..(Len(front) + Len(back)) :
             (front \o back)[i] = IF i <= Len(front) THEN front[i] ELSE back[i - Len(front)]
    BY <1>2, <1>3, ConcatProperties
  <2>2. Len(front) = k - 1 /\ Len(front) + Len(back) = Len(s) - 1
    BY <1>2, <1>3
  <2> QED BY <2>1, <2>2
<1>6. ASSUME NEW i \in 1..(Len(s) - 1)
      PROVE  (front \o back)[i] = IF i < k THEN s[i] ELSE s[i + 1]
  <2>1. ASSUME i < k PROVE (front \o back)[i] = s[i]
    BY <2>1, <1>2, <1>5
  <2>2. ASSUME ~ (i < k) PROVE (front \o back)[i] = s[i + 1]
    <3>1. (front \o back)[i] = back[i - (k - 1)]
      BY <2>2, <1>5
    <3>2. i - (k - 1) \in 1..(Len(s) - k) /\ k + (i - (k - 1)) = i + 1
      BY <2>2
    <3> QED BY <2>2, <3>1, <3>2, <1>3
  <2> QED BY <2>1, <2>2
<1> QED BY <1>4, <1>5, <1>6

LEMMA RemoveAtRange ==
  ASSUME NEW S, NEW s \in Seq(S), NEW k \in 1..Len(s)
  PROVE  /\ \A i \in DOMAIN s : i # k => \E j \in DOMAIN RemoveAt(s, k) : RemoveAt(s, k)[j] = s[i]
         /\ \A j \in DOMAIN RemoveAt(s, k) :
              \E i \in DOMAIN s : i # k /\ RemoveAt(s, k)[j] = s[i]
         /\ \A i, j \in DOMAIN RemoveAt(s, k) : i # j =>
              \E m, n \in DOMAIN s : /\ m # n /\ m # k /\ n # k
                                     /\ RemoveAt(s, k)[i] = s[m] /\ RemoveAt(s, k)[j] = s[n]
<1> DEFINE r == RemoveAt(s, k)
<1>1. /\ r \in Seq(S) /\ Len(r) = Len(s) - 1
      /\ \A i \in 1..(Len(s) - 1) : r[i] = IF i < k THEN s[i] ELSE s[i + 1]
  BY RemoveAtFacts
<1> HIDE DEF r
<1>2. DOMAIN r = 1..(Len(s) - 1) /\ DOMAIN s = 1..Len(s) /\ Len(s) \in Nat
  BY <1>1
<1>3. ASSUME NEW i \in DOMAIN s, i # k PROVE \E j \in DOMAIN r : r[j] = s[i]
  <2>1. CASE i < k
    BY <2>1, <1>1, <1>2
  <2>2. CASE i > k
    <3>1. i - 1 \in 1..(Len(s) - 1) /\ ~ (i - 1 < k) /\ (i - 1) + 1 = i
      BY <2>2, <1>2
    <3> QED BY <3>1, <1>1, <1>2
  <2> QED BY <2>1, <2>2, <1>2, <1>3
<1>4. ASSUME NEW j \in DOMAIN r PROVE \E i \in DOMAIN s : i # k /\ r[j] = s[i]
  <2>1. CASE j < k
    BY <2>1, <1>1, <1>2
  <2>2. CASE ~ (j < k)
    <3>1. j + 1 \in DOMAIN s /\ j + 1 # k /\ r[j] = s[j + 1]
      BY <2>2, <1>1, <1>2
    <3> QED BY <3>1
  <2> QED BY <2>1, <2>2
<1>5. ASSUME NEW i \in DOMAIN r, NEW j \in DOMAIN r, i # j
      PROVE  \E m, n \in DOMAIN s : m # n /\ m # k /\ n # k /\ r[i] = s[m] /\ r[j] = s[n]
  <2> DEFINE At(x) == IF x < k THEN x ELSE x + 1
  <2>1. /\ At(i) \in DOMAIN s /\ At(j) \in DOMAIN s /\ At(i) # At(j) /\ At(i) # k /\ At(j) # k
    BY <1>2, <1>5
  <2>2. r[i] = s[At(i)] /\ r[j] = s[At(j)]
    BY <1>1, <1>2
  <2> QED BY <2>1, <2>2
<1> QED BY <1>3, <1>4, <1>5 DEF r

LEMMA RemoveFirstFacts ==
  ASSUME NEW S, NEW s \in Seq(S), IsInjective(s), NEW c
  PROVE  /\ RemoveFirst(s, c) \in Seq(S) /\ IsInjective(RemoveFirst(s, c))
         /\ Range(RemoveFirst(s, c)) = Range(s) \ {c}
<1> DEFINE I == {i \in 1..Len(s) : s[i] = c}
           k == SelectInSeq(s, LAMBDA v : v = c)
<1>1. DOMAIN s = 1..Len(s)
  OBVIOUS
<1>2. CASE I = {}
  BY <1>1, <1>2 DEF RemoveFirst, Range
<1>3. CASE I # {}
  <2>1. k = Min(I)
    BY <1>3 DEF SelectInSeq
  <2>2. k \in 1..Len(s) /\ s[k] = c
    <3>1. I \subseteq Nat
      OBVIOUS
    <3>2. Min(I) \in I
      BY <3>1, <1>3, MinOfSet
    <3> QED BY <2>1, <3>2
  <2>3. RemoveFirst(s, c) = RemoveAt(s, k)
    BY <1>3 DEF RemoveFirst
  <2> HIDE DEF k
  <2>4. RemoveAt(s, k) \in Seq(S)
    BY <2>2, RemoveAtFacts
  <2>5. IsInjective(RemoveAt(s, k))
    BY <2>2, RemoveAtRange DEF IsInjective
  <2>6. \A i \in DOMAIN s : s[i] # c => s[i] \in Range(RemoveAt(s, k))
    BY <2>2, RemoveAtRange DEF Range
  <2>7. \A j \in DOMAIN RemoveAt(s, k) :
          RemoveAt(s, k)[j] \in Range(s) /\ RemoveAt(s, k)[j] # c
    BY <1>1, <2>2, RemoveAtRange DEF IsInjective, Range
  <2>8. Range(RemoveAt(s, k)) = Range(s) \ {c}
    BY <2>6, <2>7 DEF Range
  <2> QED BY <2>3, <2>4, <2>5, <2>8
<1> QED BY <1>2, <1>3

LEMMA AppendFacts ==
  ASSUME NEW S, NEW s \in Seq(S), IsInjective(s), NEW c \in S, c \notin Range(s)
  PROVE  /\ Append(s, c) \in Seq(S) /\ IsInjective(Append(s, c))
         /\ Range(Append(s, c)) = Range(s) \union {c}
<1>1. /\ Append(s, c) \in Seq(S) /\ Len(Append(s, c)) = Len(s) + 1
      /\ \A i \in 1..Len(s) : Append(s, c)[i] = s[i]
      /\ Append(s, c)[Len(s) + 1] = c
  BY AppendProperties
<1>2. DOMAIN Append(s, c) = DOMAIN s \union {Len(s) + 1} /\ DOMAIN s = 1..Len(s) /\ Len(s) \in Nat
  BY <1>1
<1> QED BY <1>1, <1>2 DEF Range, IsInjective

-----------------------------------------------------------------------------
(* The two maps: an id is once in the bucket of its type, once in the      *)
(* metadata.                                                               *)

IndexOK(x) ==
  /\ x \in [Types -> Seq(Ids)]
  /\ \A ct \in Types : IsInjective(x[ct])
  /\ \A ct \in Types : \A c \in Range(x[ct]) : ct = Entry[c].type

MetaOK(m) ==
  /\ m \in Seq([id : Ids, last : Nat])
  /\ \A i, j \in DOMAIN m : m[i].id = m[j].id => i = j

LEMMA PopFacts ==
  ASSUME NEW m, MetaOK(m), NEW c
  PROVE  MetaOK(Pop(m, c)) /\ MetaIds(Pop(m, c)) = MetaIds(m) \ {c}
<1> DEFINE I == {i \in 1..Len(m) : m[i].id = c}
           k == SelectInSeq(m, LAMBDA e : e.id = c)
           S == [id : Ids, last : Nat]
<1>1. m \in Seq(S) /\ DOMAIN m = 1..Len(m)
  BY DEF MetaOK
<1>2. CASE I = {}
  <2>1. Pop(m, c) = m
    BY <1>2 DEF Pop, RemoveFirstMatch
  <2>2. c \notin MetaIds(m)
    BY <1>1, <1>2 DEF MetaIds
  <2> QED BY <2>1, <2>2
<1>3. CASE I # {}
  <2>1. k = Min(I)
    BY <1>3 DEF SelectInSeq
  <2>2. k \in 1..Len(m) /\ m[k].id = c
    <3>1. I \subseteq Nat
      OBVIOUS
    <3>2. Min(I) \in I
      BY <3>1, <1>3, MinOfSet
    <3> QED BY <2>1, <3>2
  <2>3. Pop(m, c) = RemoveAt(m, k)
    BY <1>3 DEF Pop, RemoveFirstMatch
  <2> HIDE DEF k, S
  <2>4. RemoveAt(m, k) \in Seq(S)
    BY <1>1, <2>2, RemoveAtFacts
  <2>9. /\ \A j \in DOMAIN RemoveAt(m, k) : \E i \in DOMAIN m : i # k /\ RemoveAt(m, k)[j] = m[i]
        /\ \A i, j \in DOMAIN RemoveAt(m, k) : i # j =>
             \E a, b \in DOMAIN m : /\ a # b /\ a # k /\ b # k
                                    /\ RemoveAt(m, k)[i] = m[a] /\ RemoveAt(m, k)[j] = m[b]
    BY <1>1, <2>2, RemoveAtRange, ZenonT(40)
  <2>5. \A i, j \in DOMAIN RemoveAt(m, k) : RemoveAt(m, k)[i].id = RemoveAt(m, k)[j].id => i = j
    <3>1. SUFFICES ASSUME NEW i \in DOMAIN RemoveAt(m, k), NEW j \in DOMAIN RemoveAt(m, k), i # j
                   PROVE  RemoveAt(m, k)[i].id # RemoveAt(m, k)[j].id
      OBVIOUS
    <3>2. PICK a \in DOMAIN m, b \in DOMAIN m :
            a # b /\ RemoveAt(m, k)[i] = m[a] /\ RemoveAt(m, k)[j] = m[b]
      BY <2>9, <3>1
    <3> QED BY <3>2 DEF MetaOK
  <2>6. \A i \in DOMAIN m : m[i].id # c => m[i].id \in MetaIds(RemoveAt(m, k))
    BY <1>1, <2>2, RemoveAtRange DEF MetaIds
  <2>7. \A j \in DOMAIN RemoveAt(m, k) :
          RemoveAt(m, k)[j].id \in MetaIds(m) /\ RemoveAt(m, k)[j].id # c
    <3>1. TAKE j \in DOMAIN RemoveAt(m, k)
    <3>2. PICK i \in DOMAIN m : i # k /\ RemoveAt(m, k)[j] = m[i]
      BY <2>9
    <3>3. k \in DOMAIN m
      BY <1>1, <2>2
    <3> QED BY <2>2, <3>2, <3>3 DEF MetaIds, MetaOK
  <2>8. MetaIds(RemoveAt(m, k)) = MetaIds(m) \ {c}
    BY <2>6, <2>7 DEF MetaIds
  <2> QED BY <2>3, <2>4, <2>5, <2>8 DEF MetaOK, S
<1> QED BY <1>2, <1>3

LEMMA AppendMeta ==
  ASSUME NEW m, MetaOK(m), NEW c \in Ids \ MetaIds(m), NEW t \in Nat
  PROVE  LET e == [id |-> c, last |-> t]
         IN  MetaOK(Append(m, e)) /\ MetaIds(Append(m, e)) = MetaIds(m) \union {c}
<1> DEFINE e == [id |-> c, last |-> t]
           n == Append(m, e)
<1>1. /\ n \in Seq([id : Ids, last : Nat]) /\ Len(n) = Len(m) + 1 /\ Len(m) \in Nat
      /\ \A i \in 1..Len(m) : n[i] = m[i]
      /\ n[Len(m) + 1] = e
  BY AppendProperties DEF MetaOK
<1>2. DOMAIN n = DOMAIN m \union {Len(m) + 1} /\ DOMAIN m = 1..Len(m) /\ DOMAIN n = 1..(Len(m) + 1)
  BY <1>1 DEF MetaOK
<1>3. \A i \in DOMAIN m : n[i].id = m[i].id /\ m[i].id # c
  BY <1>1, <1>2 DEF MetaIds
<1>4. n[Len(m) + 1].id = c
  BY <1>1
<1>5. MetaIds(n) = MetaIds(m) \union {c}
  BY <1>2, <1>3, <1>4 DEF MetaIds
<1>6. \A i, j \in DOMAIN n : n[i].id = n[j].id => i = j
  BY <1>1, <1>2, <1>3, <1>4 DEF MetaOK
<1> QED BY <1>1, <1>5, <1>6 DEF MetaOK

LEMMA TouchedFacts ==
  ASSUME MetaOK(meta), NEW c \in Ids, clock' \in Nat
  PROVE  MetaOK(Touched(c)) /\ MetaIds(Touched(c)) = MetaIds(meta)
<1> DEFINE S == [id : Ids, last : Nat]
           n == Touched(c)
<1>1. meta \in Seq(S) /\ Len(meta) \in Nat /\ DOMAIN meta = 1..Len(meta)
  BY DEF MetaOK
<1>2. \A i \in 1..Len(meta) : meta[i] \in S
  BY <1>1, ElementOfSeq
<1>3. DOMAIN n = 1..Len(meta) /\ \A i \in 1..Len(meta) : n[i] \in S /\ n[i].id = meta[i].id
  BY <1>1, <1>2 DEF Touched
<1>4. n \in Seq(S)
  <2>1. n \in [1..Len(meta) -> S]
    BY <1>1, <1>3 DEF Touched
  <2> HIDE DEF n, S
  <2> QED BY <1>1, <2>1, SeqDef
<1> HIDE DEF n
<1> QED BY <1>1, <1>3, <1>4 DEF MetaOK, MetaIds, n

LEMMA IndexMembers ==
  ASSUME NEW x, NEW c
  PROVE  c \in IndexIds(x) <=> \E ct \in Types : c \in Range(x[ct])
<1>1. c \in (UNION {Range(x[ct]) : ct \in Types}) <=> \E ct \in Types : c \in Range(x[ct])
  <2>1. ASSUME NEW ct \in Types, c \in Range(x[ct]) PROVE c \in (UNION {Range(x[t]) : t \in Types})
    BY <2>1
  <2>2. ASSUME c \in (UNION {Range(x[ct]) : ct \in Types}) PROVE \E ct \in Types : c \in Range(x[ct])
    BY <2>2
  <2> QED BY <2>1, <2>2
<1> QED BY <1>1 DEF IndexIds

LEMMA RemoveFromIndex ==
  ASSUME NEW x, IndexOK(x), NEW c, NEW all \in BOOLEAN, NEW t,
         all \/ (c \in Ids /\ t = Entry[c].type)
  PROVE  LET y == IF all THEN [ct \in Types |-> RemoveFirst(x[ct], c)]
                  ELSE [x EXCEPT ![t] = RemoveFirst(@, c)]
         IN  IndexOK(y) /\ IndexIds(y) = IndexIds(x) \ {c}
<1> DEFINE y == IF all THEN [ct \in Types |-> RemoveFirst(x[ct], c)]
                ELSE [x EXCEPT ![t] = RemoveFirst(@, c)]
<1>1. \A ct \in Types : /\ RemoveFirst(x[ct], c) \in Seq(Ids)
                        /\ IsInjective(RemoveFirst(x[ct], c))
                        /\ Range(RemoveFirst(x[ct], c)) = Range(x[ct]) \ {c}
  BY RemoveFirstFacts DEF IndexOK
<1>2. \A ct \in Types : /\ y[ct] \in Seq(Ids) /\ IsInjective(y[ct])
                        /\ Range(y[ct]) = Range(x[ct]) \ {c}
  BY <1>1 DEF IndexOK
<1>3. y \in [Types -> Seq(Ids)]
  BY <1>2 DEF IndexOK
<1> HIDE DEF y
<1>4. IndexIds(y) = IndexIds(x) \ {c}
  <2>1. ASSUME NEW d PROVE d \in IndexIds(y) <=> d \in IndexIds(x) \ {c}
    <3>1. \A ct \in Types : d \in Range(y[ct]) <=> d \in Range(x[ct]) /\ d # c
      BY <1>2
    <3>2. (\E ct \in Types : d \in Range(y[ct])) <=> (\E ct \in Types : d \in Range(x[ct])) /\ d # c
      BY <3>1, Zenon
    <3> QED BY <3>2, IndexMembers
  <2> QED BY <2>1
<1>5. IndexOK(y)
  BY <1>2, <1>3 DEF IndexOK
<1> QED BY <1>4, <1>5 DEF y

LEMMA AddToIndex ==
  ASSUME NEW x, IndexOK(x), NEW c \in Ids, c \notin IndexIds(x)
  PROVE  LET y == [x EXCEPT ![Entry[c].type] = Append(@, c)]
         IN  IndexOK(y) /\ IndexIds(y) = IndexIds(x) \union {c}
<1> DEFINE t == Entry[c].type
           y == [x EXCEPT ![t] = Append(@, c)]
<1>1. t \in Types /\ x \in [Types -> Seq(Ids)]
  BY DEF Types, IndexOK
<1>2. \A ct \in Types : c \notin Range(x[ct])
  BY DEF IndexIds
<1>3. /\ Append(x[t], c) \in Seq(Ids) /\ IsInjective(Append(x[t], c))
      /\ Range(Append(x[t], c)) = Range(x[t]) \union {c}
  BY <1>1, <1>2, AppendFacts DEF IndexOK
<1>4. /\ y \in [Types -> Seq(Ids)]
      /\ \A ct \in Types : y[ct] = IF ct = t THEN Append(x[t], c) ELSE x[ct]
  BY <1>1, <1>3
<1> HIDE DEF y
<1>5. IndexIds(y) = IndexIds(x) \union {c}
  <2>1. ASSUME NEW d PROVE d \in IndexIds(y) <=> d \in IndexIds(x) \union {c}
    <3>1. \A ct \in Types : d \in Range(y[ct]) <=> d \in Range(x[ct]) \/ (ct = t /\ d = c)
      BY <1>3, <1>4
    <3> QED BY <1>1, <3>1, IndexMembers
  <2> QED BY <2>1
<1>6. IndexOK(y)
  <2>1. \A ct \in Types : IsInjective(y[ct])
    BY <1>3, <1>4 DEF IndexOK
  <2>2. \A ct \in Types : \A d \in Range(y[ct]) : ct = Entry[d].type
    BY <1>3, <1>4 DEF IndexOK
  <2> QED BY <1>4, <2>1, <2>2 DEF IndexOK
<1> QED BY <1>5, <1>6 DEF y

-----------------------------------------------------------------------------
(* The inductive invariant.  A removal or a registration under way has     *)
(* done in memory what it is going to save, and in the index file what it  *)
(* has saved; until it returns nothing is known of its id.                 *)

OpOK ==
  /\ op \in [id : Ids \union {NoId}, goal : {"none", "touched", "live", "gone"},
             todo : {"nothing", "index", "meta"}]
  /\ op.id = NoId => op = NoOp \/ op = Op(NoId, "touched", "meta")
  /\ op.id # NoId =>
       /\ op.goal \in {"live", "gone"} /\ op.todo \in {"index", "meta"}
       /\ status[op.id] = "cut"

TypeInv ==
  /\ flushes \in BOOLEAN /\ dirty \in BOOLEAN /\ behind \in BOOLEAN
  /\ clock \in 0..MaxTime
  /\ IndexOK(index) /\ IndexOK(diskIndex)
  /\ MetaOK(meta) /\ MetaOK(diskMeta)
  /\ status \in [Ids -> {"new", "cut", "live", "gone"}]
  /\ OpOK

StatusOK ==
  \A c \in Ids :
    /\ status[c] = "live" => Known(c, index, meta) /\ Known(c, diskIndex, diskMeta)
    /\ status[c] \in {"gone", "new"} => Unknown(c, index, meta) /\ Unknown(c, diskIndex, diskMeta)

UnderWay ==
  op.id # NoId =>
    /\ op.goal = "live" => /\ Known(op.id, index, meta)
                           /\ op.todo = "meta" => op.id \in IndexIds(diskIndex)
    /\ op.goal = "gone" => /\ Unknown(op.id, index, meta)
                           /\ op.todo = "meta" => op.id \notin IndexIds(diskIndex)

DurInv == TypeInv /\ StatusOK /\ UnderWay

LEMMA Distinct == NoOp.id = NoId /\ \A c \in Ids : c # NoId
  BY MetadataAssumption DEF NoOp, Op

LEMMA InitDur == Init => DurInv /\ CleanMeansSaved
<1> SUFFICES ASSUME Init PROVE DurInv /\ CleanMeansSaved
  OBVIOUS
<1>1. /\ index \in [Types -> Seq(Ids)] /\ \A ct \in Types : index[ct] = <<>>
      /\ meta = <<>> /\ diskIndex = index /\ diskMeta = meta /\ op = NoOp
  BY DEF Init
<1>2. \A ct \in Types : IsInjective(index[ct]) /\ Range(index[ct]) = {}
  BY <1>1 DEF IsInjective, Range
<1>3. IndexOK(index)
  BY <1>1, <1>2 DEF IndexOK
<1>4. MetaOK(meta) /\ MetaIds(meta) = {}
  BY <1>1 DEF MetaOK, MetaIds
<1>5. \A c \in Ids : c \notin IndexIds(index)
  BY <1>2, IndexMembers
<1>6. OpOK
  BY <1>1 DEF OpOK, NoOp, Op
<1>7. TypeInv
  <2>1. IndexOK(diskIndex) /\ MetaOK(diskMeta)
    BY <1>1, <1>3, <1>4
  <2>2. clock \in 0..MaxTime /\ status \in [Ids -> {"new", "cut", "live", "gone"}]
    BY MetadataAssumption DEF Init
  <2>3. flushes \in BOOLEAN /\ dirty \in BOOLEAN /\ behind \in BOOLEAN
    BY DEF Init
  <2> QED BY <1>3, <1>4, <1>6, <2>1, <2>2, <2>3 DEF TypeInv
<1>8. StatusOK
  BY <1>1, <1>4, <1>5 DEF StatusOK, Unknown, Init
<1>9. UnderWay
  BY <1>1, Distinct DEF UnderWay
<1> QED BY <1>1, <1>7, <1>8, <1>9 DEF DurInv, CleanMeansSaved

LEMMA RegisterDur ==
  ASSUME DurInv, NEW c \in Ids, RegisterCache(c)
  PROVE  DurInv'
<1>1. Unknown(c, index, meta) /\ op = NoOp /\ clock' \in 0..MaxTime /\ clock' \in Nat
  BY MetadataAssumption DEF DurInv, TypeInv, StatusOK, RegisterCache, Ticks
<1>2. IndexOK(index') /\ IndexIds(index') = IndexIds(index) \union {c}
  BY <1>1, AddToIndex DEF DurInv, TypeInv, RegisterCache, Unknown
<1>3. MetaOK(meta') /\ MetaIds(meta') = MetaIds(meta) \union {c}
  BY <1>1, AppendMeta DEF DurInv, TypeInv, RegisterCache, Unknown
<1>4. op' = Op(c, "live", "index") /\ status' = [status EXCEPT ![c] = "cut"] /\ status'[c] = "cut"
  BY DEF RegisterCache, DurInv, TypeInv
<1>5. OpOK'
  BY <1>4, Distinct DEF OpOK, Op
<1>6. TypeInv'
  BY <1>1, <1>2, <1>3, <1>4, <1>5 DEF DurInv, TypeInv, RegisterCache, disk
<1>7. StatusOK'
  BY <1>2, <1>3, <1>4 DEF DurInv, TypeInv, StatusOK, Known, Unknown, RegisterCache, disk
<1>8. UnderWay'
  BY <1>2, <1>3, <1>4 DEF UnderWay, Known, Op
<1> QED BY <1>6, <1>7, <1>8 DEF DurInv

LEMMA RemoveDur ==
  ASSUME DurInv, NEW c \in Ids, RemoveCache(c)
  PROVE  DurInv'
<1>1. MetaOK(meta') /\ MetaIds(meta') = MetaIds(meta) \ {c}
  BY PopFacts DEF DurInv, TypeInv, RemoveCache
<1>2. IndexOK(index') /\ IndexIds(index') = IndexIds(index) \ {c}
  <2>1. index' = IF c \notin MetaIds(meta) THEN [ct \in Types |-> RemoveFirst(index[ct], c)]
                 ELSE [index EXCEPT ![Entry[c].type] = RemoveFirst(@, c)]
    BY DEF RemoveCache
  <2>2. IndexOK(index)
    BY DEF DurInv, TypeInv
  <2>3. CASE c \notin MetaIds(meta)
    <3>1. index' = [ct \in Types |-> RemoveFirst(index[ct], c)]
      BY <2>1, <2>3
    <3> QED BY <2>2, <3>1, RemoveFromIndex, TRUE \in BOOLEAN
  <2>4. CASE c \in MetaIds(meta)
    <3>1. index' = [index EXCEPT ![Entry[c].type] = RemoveFirst(@, c)]
      BY <2>1, <2>4
    <3> QED BY <2>2, <3>1, RemoveFromIndex, FALSE \in BOOLEAN
  <2> QED BY <2>3, <2>4
<1>3. op' = Op(c, "gone", "index") /\ status' = [status EXCEPT ![c] = "cut"] /\ status'[c] = "cut"
  BY DEF RemoveCache, DurInv, TypeInv
<1>4. OpOK'
  BY <1>3, Distinct DEF OpOK, Op
<1>5. TypeInv'
  BY <1>1, <1>2, <1>3, <1>4 DEF DurInv, TypeInv, RemoveCache, disk
<1>6. StatusOK'
  BY <1>1, <1>2, <1>3 DEF DurInv, TypeInv, StatusOK, Known, Unknown, RemoveCache, disk
<1>7. UnderWay'
  BY <1>1, <1>2, <1>3 DEF UnderWay, Unknown, Op
<1> QED BY <1>5, <1>6, <1>7 DEF DurInv

LEMMA AccessDur ==
  ASSUME DurInv, NEW c \in Ids, RecordAccess(c)
  PROVE  DurInv'
<1>1. clock' \in 0..MaxTime /\ clock' \in Nat
  BY MetadataAssumption DEF DurInv, TypeInv, RecordAccess, Ticks
<1>2. MetaOK(meta') /\ MetaIds(meta') = MetaIds(meta)
  BY <1>1, TouchedFacts DEF DurInv, TypeInv, RecordAccess
<1>3. op' = NoOp \/ op' = Op(NoId, "touched", "meta")
  BY DEF RecordAccess
<1>4. OpOK' /\ op'.id = NoId
  BY <1>3 DEF OpOK, NoOp, Op
<1>5. TypeInv'
  BY <1>1, <1>2, <1>4 DEF DurInv, TypeInv, RecordAccess, disk
<1>6. StatusOK'
  BY <1>2 DEF DurInv, StatusOK, Known, Unknown, RecordAccess, disk
<1>7. UnderWay'
  BY <1>4 DEF UnderWay
<1> QED BY <1>5, <1>6, <1>7 DEF DurInv

(* Saving the index leaves the metadata to be saved; saving the metadata   *)
(* ends the operation, which returns.                                      *)
LEMMA SaveDur ==
  ASSUME DurInv, SaveIndex \/ SaveMeta
  PROVE  DurInv'
<1>1. CASE SaveIndex
  <2>1. op.id # NoId /\ op' = [op EXCEPT !.todo = "meta"]
    BY <1>1 DEF SaveIndex, DurInv, TypeInv, OpOK, NoOp, Op
  <2>2. op'.id = op.id /\ op'.goal = op.goal /\ op'.todo = "meta"
    BY <2>1 DEF DurInv, TypeInv, OpOK
  <2>3. OpOK'
    BY <1>1, <2>1, <2>2 DEF SaveIndex, DurInv, TypeInv, OpOK
  <2>4. TypeInv'
    BY <1>1, <2>3 DEF SaveIndex, DurInv, TypeInv
  <2>5. StatusOK'
    BY <1>1 DEF SaveIndex, DurInv, StatusOK, Known, Unknown
  <2>6. UnderWay'
    BY <1>1, <2>1, <2>2 DEF SaveIndex, DurInv, UnderWay, Known, Unknown
  <2> QED BY <2>4, <2>5, <2>6 DEF DurInv
<1>2. CASE SaveMeta
  <2>1. OpOK' /\ op'.id = NoId
    BY <1>2 DEF SaveMeta, OpOK, NoOp, Op
  <2>2. /\ status' \in [Ids -> {"new", "cut", "live", "gone"}]
        /\ \A c \in Ids : status'[c] = IF op.id # NoId /\ c = op.id THEN op.goal ELSE status[c]
    BY <1>2 DEF SaveMeta, DurInv, TypeInv, OpOK
  <2>3. TypeInv'
    BY <1>2, <2>1, <2>2 DEF SaveMeta, DurInv, TypeInv
  <2>4. StatusOK'
    BY <1>2, <2>2 DEF SaveMeta, DurInv, TypeInv, OpOK, StatusOK, UnderWay, Known, Unknown
  <2>5. UnderWay'
    BY <2>1 DEF UnderWay
  <2> QED BY <2>3, <2>4, <2>5 DEF DurInv
<1> QED BY <1>1, <1>2

LEMMA OtherDur ==
  ASSUME DurInv, Flush \/ SaveRaises \/ Restart \/ UNCHANGED vars
  PROVE  DurInv'
<1>1. CASE Flush
  <2>1. OpOK' /\ op'.id = NoId
    BY <1>1 DEF Flush, OpOK, Op
  <2> QED BY <1>1, <2>1 DEF Flush, disk, DurInv, TypeInv, StatusOK, UnderWay
<1>2. CASE SaveRaises
  <2>1. OpOK' /\ op'.id = NoId
    BY <1>2 DEF SaveRaises, OpOK, NoOp, Op
  <2> QED BY <1>2, <2>1 DEF SaveRaises, disk, DurInv, TypeInv, StatusOK, UnderWay
<1>3. CASE Restart
  <2>1. OpOK' /\ op'.id = NoId
    BY <1>3 DEF Restart, OpOK, NoOp, Op
  <2> QED BY <1>3, <2>1 DEF Restart, disk, DurInv, TypeInv, StatusOK, UnderWay
<1>4. CASE UNCHANGED vars
  BY <1>4 DEF vars, disk, DurInv, TypeInv, OpOK, StatusOK, UnderWay
<1> QED BY <1>1, <1>2, <1>3, <1>4

LEMMA NextDur == DurInv /\ [Next]_vars => DurInv'
  BY RegisterDur, RemoveDur, AccessDur, SaveDur, OtherDur DEF Next

LEMMA Durability == Spec => []DurInv
  BY InitDur, NextDur, PTL DEF Spec

(* Both maps and both files hold an id once, in the bucket of its type; an *)
(* operation that holds the lock has something left to save.               *)
THEOREM TypeCorrect == Spec => []TypeInv
<1>1. DurInv => TypeInv
  BY DEF DurInv
<1> QED BY <1>1, Durability, PTL

-----------------------------------------------------------------------------
(* An access that is not marked dirty has been saved: whatever changes the *)
(* metadata marks it, or holds the lock until it is saved, or fails.       *)
LEMMA NextClean == DurInv /\ CleanMeansSaved /\ [Next]_vars => CleanMeansSaved'
<1> SUFFICES ASSUME DurInv, CleanMeansSaved, [Next]_vars PROVE CleanMeansSaved'
  OBVIOUS
<1>1. \A c \in Ids : Op(c, "live", "index") # NoOp /\ Op(c, "gone", "index") # NoOp
  BY Distinct DEF Op, NoOp
<1>2. Op(NoId, "touched", "meta") # NoOp
  BY DEF Op, NoOp
<1>3. ASSUME NEW c \in Ids, RegisterCache(c) \/ RemoveCache(c) PROVE CleanMeansSaved'
  BY <1>1, <1>3 DEF RegisterCache, RemoveCache, CleanMeansSaved
<1>4. ASSUME NEW c \in Ids, RecordAccess(c) PROVE CleanMeansSaved'
  BY <1>2, <1>4 DEF RecordAccess, CleanMeansSaved
<1>5. CASE Flush
  BY <1>2, <1>5 DEF Flush, CleanMeansSaved
<1>6. CASE SaveIndex
  <2>1. op' # NoOp
    <3>1. op' = [op EXCEPT !.todo = "meta"] /\ op \in [id : Ids \union {NoId},
            goal : {"none", "touched", "live", "gone"}, todo : {"nothing", "index", "meta"}]
      BY <1>6 DEF SaveIndex, DurInv, TypeInv, OpOK
    <3>2. op'.todo = "meta"
      BY <3>1
    <3> QED BY <3>2 DEF NoOp, Op
  <2> QED BY <2>1 DEF CleanMeansSaved
<1>7. CASE SaveMeta
  BY <1>7 DEF SaveMeta, CleanMeansSaved
<1>8. CASE SaveRaises
  BY <1>8 DEF SaveRaises, CleanMeansSaved
<1>9. CASE Restart
  BY <1>9 DEF Restart, disk, CleanMeansSaved
<1>10. CASE UNCHANGED vars
  BY <1>10 DEF vars, disk, CleanMeansSaved
<1> QED BY <1>3, <1>4, <1>5, <1>6, <1>7, <1>8, <1>9, <1>10 DEF Next

(* When no operation is under way, nothing is marked dirty and the last    *)
(* save of the metadata did not raise, a crash loses no access.            *)
THEOREM CleanMeansSavedHolds == Spec => []CleanMeansSaved
  BY InitDur, NextDur, NextClean, PTL DEF Spec

-----------------------------------------------------------------------------
(* What a scan of one bucket finds.                                        *)
LEMMA ScanFacts ==
  ASSUME IndexOK(index), NEW ct \in Types, NEW p
  PROVE  /\ Scan(ct, p) # NoId =>
              Scan(ct, p) \in Ids /\ Scan(ct, p) \in Range(index[ct]) /\ Entry[Scan(ct, p)].prompt = p
         /\ Scan(ct, p) = NoId => \A c \in Range(index[ct]) : Entry[c].prompt # p
<1> DEFINE s == index[ct]
           I == {i \in 1..Len(s) : Entry[s[i]].prompt = p}
           first == SelectInSeq(s, LAMBDA c : Entry[c].prompt = p)
<1>1. s \in Seq(Ids) /\ DOMAIN s = 1..Len(s)
  BY DEF IndexOK
<1>2. CASE I = {}
  <2>1. first = 0
    BY <1>2 DEF SelectInSeq
  <2> QED BY <1>1, <1>2, <2>1 DEF Scan, Range
<1>3. CASE I # {}
  <2>1. first = Min(I)
    BY <1>3 DEF SelectInSeq
  <2>2. I \subseteq Nat
    OBVIOUS
  <2>3. first \in I
    BY <1>3, <2>1, <2>2, MinOfSet
  <2>4. Scan(ct, p) = s[first]
    BY <2>3 DEF Scan
  <2> HIDE DEF first
  <2>5. s[first] \in Ids /\ s[first] \in Range(s) /\ Entry[s[first]].prompt = p
    BY <1>1, <2>3 DEF Range
  <2>6. s[first] # NoId
    BY <2>5, MetadataAssumption
  <2> QED BY <2>4, <2>5, <2>6
<1> QED BY <1>2, <1>3

LEMMA LookupFacts ==
  ASSUME IndexOK(index), NEW p, NEW c \in LookupPrompt(p)
  PROVE  /\ c # NoId => c \in Ids /\ c \in IndexIds(index)
         /\ c = NoId => \A d \in IndexIds(index) : Entry[d].prompt # p
<1>1. Default \in Types
  BY DEF Types
<1>2. CASE Scan(Default, p) # NoId
  BY <1>1, <1>2, ScanFacts, IndexMembers DEF LookupPrompt
<1>3. CASE Scan(Default, p) = NoId
  <2> DEFINE found == {Scan(ct, p) : ct \in Types} \ {NoId}
  <2>1. c \in IF found = {} THEN {NoId} ELSE found
    BY <1>3 DEF LookupPrompt
  <2>2. CASE c # NoId
    <3>1. PICK ct \in Types : c = Scan(ct, p)
      BY <2>1, <2>2
    <3> QED BY <2>2, <3>1, ScanFacts, IndexMembers
  <2>3. CASE c = NoId
    <3>1. \A ct \in Types : Scan(ct, p) = NoId
      BY <2>1, <2>3
    <3>2. \A ct \in Types : \A d \in Range(index[ct]) : Entry[d].prompt # p
      BY <3>1, ScanFacts
    <3> QED BY <2>3, <3>2, IndexMembers
  <2> QED BY <2>2, <2>3
<1> QED BY <1>2, <1>3

LEMMA DurMeansReturned == DurInv => ReturnedIsDurable
<1> SUFFICES ASSUME DurInv PROVE ReturnedIsDurable
  OBVIOUS
<1>1. \A c \in Ids, ct \in Types : c \in Range(index[ct]) => ct = Entry[c].type
  BY DEF DurInv, TypeInv, IndexOK
<1>2. \A c \in Ids :
        /\ status[c] = "live" => Known(c, index, meta) /\ Known(c, diskIndex, diskMeta)
        /\ status[c] \in {"gone", "new"} => Unknown(c, index, meta) /\ Unknown(c, diskIndex, diskMeta)
  BY DEF DurInv, StatusOK
<1>3. ASSUME NEW p \in Prompts, NEW c \in LookupPrompt(p), c = NoId
      PROVE  \A d \in Ids : status[d] = "live" => Entry[d].prompt # p
  <2>1. \A d \in IndexIds(index) : Entry[d].prompt # p
    BY <1>3, LookupFacts DEF DurInv, TypeInv
  <2> QED BY <1>2, <2>1 DEF Known
<1>4. ASSUME NEW p \in Prompts, NEW c \in LookupPrompt(p), c # NoId
      PROVE  status[c] \in {"live", "cut"}
  <2>1. c \in Ids /\ c \in IndexIds(index)
    BY <1>4, LookupFacts DEF DurInv, TypeInv
  <2>2. status[c] \in {"new", "cut", "live", "gone"}
    BY <2>1 DEF DurInv, TypeInv
  <2> QED BY <1>2, <2>1, <2>2 DEF Unknown
<1> QED BY <1>1, <1>2, <1>3, <1>4 DEF ReturnedIsDurable

(* What a registration or a removal that returned has done is done in the  *)
(* index, in the bucket of its type, and in the metadata, in memory and in *)
(* both files, whichever operations on other ids fail or are cut off; a    *)
(* lookup finds every prompt of a live entry and never a removed one.      *)
THEOREM ReturnedIsDurableHolds == Spec => []ReturnedIsDurable
  BY Durability, DurMeansReturned, PTL

-----------------------------------------------------------------------------
(* Eviction plans.  Total adds up sizes by a fold; that the fold is defined *)
(* and a number follows by the least size of a set for which it is not.    *)

LEMMA FoldDefined ==
  ASSUME NEW S, IsFiniteSet(S), \A c \in S : Size(c) \in Nat
  PROVE  \E g \in [SUBSET S -> Nat] :
           g = [s \in SUBSET S |->
                  IF s = {} THEN 0
                  ELSE Size(CHOOSE x \in s : TRUE) + g[s \ {CHOOSE x \in s : TRUE}]]
<1> DEFINE Chosen(s) == CHOOSE x \in s : TRUE
           Body(g, s) == IF s = {} THEN 0 ELSE Size(Chosen(s)) + g[s \ {Chosen(s)}]
           UpTo(n) == \E g \in [SUBSET S -> Nat] :
                        \A s \in SUBSET S : Cardinality(s) <= n => g[s] = Body(g, s)
           Bad == {n \in Nat : ~UpTo(n)}
<1>1. \A s \in SUBSET S : IsFiniteSet(s) /\ Cardinality(s) \in Nat
  BY FS_Subset, FS_CardinalityType
<1>2. \A s \in SUBSET S : s # {} => /\ Chosen(s) \in s /\ s \ {Chosen(s)} \in SUBSET S
                                    /\ Cardinality(s \ {Chosen(s)}) = Cardinality(s) - 1
  BY <1>1, FS_RemoveElement
<1>3. \A g \in [SUBSET S -> Nat], s \in SUBSET S : Body(g, s) \in Nat
  BY <1>2
<1> HIDE DEF Chosen
<1>4. UpTo(0)
  <2> DEFINE g == [s \in SUBSET S |-> 0]
  <2>1. \A s \in SUBSET S : Cardinality(s) <= 0 => s = {}
    BY <1>1, FS_EmptySet
  <2>2. g \in [SUBSET S -> Nat] /\ \A s \in SUBSET S : Cardinality(s) <= 0 => g[s] = Body(g, s)
    BY <2>1
  <2> QED BY <2>2
<1>5. ASSUME NEW n \in Nat, UpTo(n) PROVE UpTo(n + 1)
  <2>1. PICK g \in [SUBSET S -> Nat] : \A s \in SUBSET S : Cardinality(s) <= n => g[s] = Body(g, s)
    BY <1>5
  <2> DEFINE h == [s \in SUBSET S |-> Body(g, s)]
  <2>2. h \in [SUBSET S -> Nat]
    BY <1>3
  <2>3. ASSUME NEW s \in SUBSET S, Cardinality(s) <= n + 1 PROVE h[s] = Body(h, s)
    <3>1. CASE s = {}
      BY <3>1
    <3>2. CASE s # {}
      <4> DEFINE r == s \ {Chosen(s)}
      <4>1. r \in SUBSET S /\ Cardinality(r) <= n
        BY <1>1, <1>2, <2>3, <3>2
      <4>2. h[r] = g[r]
        BY <2>1, <4>1
      <4> QED BY <3>2, <4>1, <4>2
    <3> QED BY <3>1, <3>2
  <2> HIDE DEF h
  <2> QED BY <2>2, <2>3
<1> HIDE DEF UpTo
<1>6. \A n \in Nat : UpTo(n)
  <2>1. SUFFICES ASSUME Bad # {} PROVE FALSE
    OBVIOUS
  <2>2. Bad \subseteq Nat
    OBVIOUS
  <2>3. Min(Bad) \in Bad /\ \A n \in Bad : Min(Bad) <= n
    <3> HIDE DEF Bad
    <3> QED BY <2>1, <2>2, MinOfSet
  <2>4. Min(Bad) # 0 /\ Min(Bad) - 1 \in Nat
    BY <1>4, <2>3
  <2>5. UpTo(Min(Bad) - 1)
    BY <2>3, <2>4
  <2> QED BY <1>5, <2>3, <2>4, <2>5
<1>7. PICK g \in [SUBSET S -> Nat] :
        \A s \in SUBSET S : Cardinality(s) <= Cardinality(S) => g[s] = Body(g, s)
  BY <1>1, <1>6 DEF UpTo
<1>8. \A s \in SUBSET S : g[s] = Body(g, s)
  BY <1>7, FS_Subset
<1>9. g = [s \in SUBSET S |-> Body(g, s)]
  BY <1>8
<1> QED BY <1>9 DEF Chosen

LEMMA TotalFacts ==
  ASSUME NEW S, IsFiniteSet(S), \A c \in S : Size(c) \in Nat
  PROVE  Total(S) \in Nat /\ (S = {} => Total(S) = 0)
<1> DEFINE Chosen(s) == CHOOSE x \in s : TRUE
           Body(g, s) == IF s = {} THEN 0 ELSE Size(Chosen(s)) + g[s \ {Chosen(s)}]
           g == CHOOSE f : f = [s \in SUBSET S |-> Body(f, s)]
           Bad == {n \in Nat : \E s \in SUBSET S : Cardinality(s) = n /\ g[s] \notin Nat}
<1>1. g = [s \in SUBSET S |-> Body(g, s)]
  <2>1. \E f : f = [s \in SUBSET S |-> Body(f, s)]
    <3>1. PICK h \in [SUBSET S -> Nat] : h = [s \in SUBSET S |-> Body(h, s)]
      BY FoldDefined
    <3> QED BY <3>1
  <2> QED BY <2>1
<1>2. Total(S) = g[S]
  BY DEF Total, MapThenSumSet, MapThenFoldSet
<1> HIDE DEF g
<1>3. \A s \in SUBSET S : g[s] = Body(g, s)
  BY <1>1
<1>4. \A s \in SUBSET S : IsFiniteSet(s) /\ Cardinality(s) \in Nat
  BY FS_Subset, FS_CardinalityType
<1>5. \A s \in SUBSET S : s # {} => /\ Chosen(s) \in S /\ s \ {Chosen(s)} \in SUBSET S
                                    /\ Cardinality(s \ {Chosen(s)}) = Cardinality(s) - 1
  BY <1>4, FS_RemoveElement
<1> HIDE DEF Chosen
<1>6. Bad = {}
  <2>1. SUFFICES ASSUME Bad # {} PROVE FALSE
    OBVIOUS
  <2>2. Bad \subseteq Nat
    OBVIOUS
  <2>3. Min(Bad) \in Bad /\ \A n \in Bad : Min(Bad) <= n
    <3> HIDE DEF Bad
    <3> QED BY <2>1, <2>2, MinOfSet
  <2>4. PICK s \in SUBSET S : Cardinality(s) = Min(Bad) /\ g[s] \notin Nat
    BY <2>3
  <2>5. s # {}
    BY <1>3, <2>4
  <2> DEFINE r == s \ {Chosen(s)}
  <2>6. r \in SUBSET S /\ Cardinality(r) = Min(Bad) - 1 /\ Cardinality(r) \in Nat
    BY <1>4, <1>5, <2>4, <2>5
  <2>7. g[r] \in Nat
    <3>1. Cardinality(r) \notin Bad
      BY <2>3, <2>6
    <3> QED BY <2>6, <3>1
  <2>8. g[s] = Size(Chosen(s)) + g[r]
    BY <1>3, <2>5
  <2> QED BY <1>5, <2>4, <2>5, <2>7, <2>8
<1>7. g[S] \in Nat
  BY <1>4, <1>6
<1>8. S = {} => g[S] = 0
  BY <1>3
<1> QED BY <1>2, <1>7, <1>8

(* Counting the entries before one is a permutation of the places.         *)
LEMMA ByAccessFacts ==
  ASSUME MetaOK(meta)
  PROVE  \E o \in [DOMAIN meta -> DOMAIN meta] :
           /\ ByAccess = [n \in DOMAIN meta |-> meta[o[n]].id]
           /\ \A i \in DOMAIN meta : \E n \in DOMAIN meta : o[n] = i
           /\ \A m, n \in DOMAIN meta : m # n => o[m] # o[n]
           /\ \A m, n \in DOMAIN meta : m < n => meta[o[m]].last <= meta[o[n]].last
<1> DEFINE D == DOMAIN meta
           Before(i, j) == \/ meta[i].last < meta[j].last
                           \/ meta[i].last = meta[j].last /\ i < j
           Ahead(i) == {j \in D : Before(j, i)}
           Place(i) == Cardinality(Ahead(i)) + 1
           place == [i \in D |-> Place(i)]
           o == [n \in D |-> CHOOSE i \in D : Place(i) = n]
<1>1. D = 1..Len(meta) /\ Len(meta) \in Nat
  BY DEF MetaOK
<1>2. IsFiniteSet(D) /\ Cardinality(D) = Len(meta)
  <2>1. /\ IsFiniteSet(1..Len(meta))
        /\ Cardinality(1..Len(meta)) = IF 1 > Len(meta) THEN 0 ELSE Len(meta) - 1 + 1
    BY <1>1, FS_Interval, SMTT(40)
  <2> QED BY <1>1, <2>1
<1>3. \A i \in D : meta[i].last \in Nat
  <2>1. \A i \in D : meta[i] \in [id : Ids, last : Nat]
    BY <1>1, ElementOfSeq DEF MetaOK
  <2> QED BY <2>1
<1>4. \A i \in D : ~Before(i, i)
  BY <1>1, <1>3
<1>5. \A i, j \in D : i # j => Before(i, j) \/ Before(j, i)
  BY <1>1, <1>3
<1>6. \A i, j, k \in D : Before(i, j) /\ Before(j, k) => Before(i, k)
  BY <1>1, <1>3
<1>7. \A i, j \in D : Before(i, j) => meta[i].last <= meta[j].last
  BY <1>3
<1> HIDE DEF Before, D
<1>8. \A i \in D : /\ IsFiniteSet(Ahead(i)) /\ Cardinality(Ahead(i)) \in Nat
                   /\ Cardinality(Ahead(i)) < Cardinality(D)
  <2>1. TAKE i \in D
  <2>2. Ahead(i) \in SUBSET D /\ i \notin Ahead(i)
    BY <1>4
  <2>3. /\ IsFiniteSet(Ahead(i)) /\ Cardinality(Ahead(i)) <= Cardinality(D)
        /\ Cardinality(D) = Cardinality(Ahead(i)) => D = Ahead(i)
    BY <1>2, <2>2, FS_Subset
  <2>4. Cardinality(Ahead(i)) \in Nat /\ Cardinality(D) \in Nat
    BY <1>2, <2>3, FS_CardinalityType
  <2> HIDE DEF Ahead
  <2> QED BY <2>2, <2>3, <2>4
<1>9. \A i \in D : Place(i) \in D
  <2> HIDE DEF Ahead
  <2> QED BY <1>1, <1>2, <1>8 DEF D
<1>10. \A i, j \in D : Before(i, j) => Place(i) < Place(j)
  <2>1. TAKE i, j \in D
  <2>2. HAVE Before(i, j)
  <2>3. Ahead(i) \in SUBSET Ahead(j) /\ i \in Ahead(j) /\ i \notin Ahead(i)
    BY <1>4, <1>6, <2>2
  <2>4. /\ Cardinality(Ahead(i)) <= Cardinality(Ahead(j))
        /\ Cardinality(Ahead(j)) = Cardinality(Ahead(i)) => Ahead(j) = Ahead(i)
    BY <1>8, <2>3, FS_Subset
  <2> HIDE DEF Ahead
  <2> QED BY <1>8, <2>3, <2>4
<1> HIDE DEF Ahead
<1>11. \A i, j \in D : Place(i) \in Int /\ Place(i) = Place(j) => i = j
  <2>1. TAKE i, j \in D
  <2>2. Place(i) \in Int /\ Place(j) \in Int
    BY <1>8
  <2> QED BY <1>5, <1>10, <2>2
<1> HIDE DEF Place
<1>12. place \in Injection(D, D)
  <2>1. \A i \in D : Place(i) \in Int
    BY <1>1, <1>9 DEF D
  <2> QED BY <1>9, <1>11, <2>1 DEF Injection, IsInjective
<1>13. place \in Surjection(D, D)
  BY <1>2, <1>12, FS_Injection
<1>14. \A n \in D : \E i \in D : Place(i) = n
  BY <1>13 DEF Surjection
<1>15. o \in [D -> D] /\ \A n \in D : Place(o[n]) = n
  BY <1>14
<1>16. ByAccess = [n \in D |-> meta[o[n]].id]
  BY DEF ByAccess, D, Place, Ahead, Before
<1> HIDE DEF o
<1>17. \A i \in D : Place(i) \in D /\ o[Place(i)] = i
  <2>1. TAKE i \in D
  <2>2. Place(i) \in D /\ Place(o[Place(i)]) = Place(i) /\ o[Place(i)] \in D
    BY <1>9, <1>15
  <2>3. Place(o[Place(i)]) \in Int
    BY <1>1, <2>2 DEF D
  <2> QED BY <1>11, <2>2, <2>3
<1>18. \A m, n \in D : m < n => meta[o[m]].last <= meta[o[n]].last
  <2>1. TAKE m, n \in D
  <2>2. HAVE m < n
  <2>3. o[m] \in D /\ o[n] \in D /\ Place(o[m]) = m /\ Place(o[n]) = n /\ m \in Int /\ n \in Int
    BY <1>1, <1>15 DEF D
  <2>4. ~Before(o[n], o[m])
    <3>1. ASSUME Before(o[n], o[m]) PROVE FALSE
      <4>1. Place(o[n]) < Place(o[m])
        BY <1>10, <2>3, <3>1, Zenon
      <4> QED BY <2>2, <2>3, <4>1
    <3> QED BY <3>1
  <2>5. Before(o[m], o[n])
    <3>1. o[m] # o[n]
      BY <2>2, <2>3
    <3> QED BY <1>5, <2>3, <2>4, <3>1, Zenon
  <2> QED BY <1>7, <2>3, <2>5
<1>19. \A m, n \in D : m # n => o[m] # o[n]
  BY <1>15
<1>20. \A i \in D : \E n \in D : o[n] = i
  BY <1>17
<1> QED BY <1>15, <1>16, <1>18, <1>19, <1>20 DEF D

LEMMA AccumulateFacts ==
  ASSUME NEW S, NEW ids \in Seq(S), NEW need \in Int, need > 0,
         \A n \in 0..Len(ids) : Total({ids[i] : i \in 1..n}) \in Int
  PROVE  \E k \in 0..Len(ids) :
           /\ Accumulate(ids, need) \in Seq(S) /\ Len(Accumulate(ids, need)) = k
           /\ \A i \in 1..k : Accumulate(ids, need)[i] = ids[i]
           /\ k = Len(ids) \/ Total({ids[i] : i \in 1..k}) >= need
           /\ \A n \in 1..(k - 1) : Total({ids[i] : i \in 1..n}) < need
<1> DEFINE Freed(n) == Total({ids[i] : i \in 1..n})
           enough == {n \in 1..Len(ids) : Freed(n) >= need}
<1>1. \A n \in 1..Len(ids) : Freed(n) \in Int
  OBVIOUS
<1>4. ~ (need <= 0)
  OBVIOUS
<1>2. CASE enough = {}
  <2>1. Accumulate(ids, need) = ids
    BY <1>4, <1>2 DEF Accumulate
  <2>2. \A n \in 1..Len(ids) : Freed(n) < need
    <3>1. TAKE n \in 1..Len(ids)
    <3>2. n \notin enough /\ Freed(n) \in Int
      BY <1>1, <1>2
    <3>3. ~ (Freed(n) >= need)
      BY <3>2
    <3> HIDE DEF Freed
    <3> QED BY <3>2, <3>3
  <2>3. Len(ids) \in Nat
    OBVIOUS
  <2> HIDE DEF Freed
  <2>4. /\ Len(ids) \in 0..Len(ids)
        /\ \A n \in 1..(Len(ids) - 1) : Freed(n) < need
    BY <2>2, <2>3
  <2> QED BY <2>1, <2>4 DEF Freed
<1>3. CASE enough # {}
  <2> DEFINE k == Min(enough)
  <2>1. Accumulate(ids, need) = SubSeq(ids, 1, k)
    BY <1>4, <1>3 DEF Accumulate
  <2>2. enough \subseteq Nat
    OBVIOUS
  <2>3. k \in enough /\ \A n \in enough : k <= n
    <3> HIDE DEF enough
    <3> QED BY <1>3, <2>2, MinOfSet
  <2> HIDE DEF k
  <2>4. k \in 1..Len(ids) /\ Freed(k) >= need /\ k \in Int /\ Len(ids) \in Nat
    BY <2>3
  <2>5. \A n \in 1..(k - 1) : Freed(n) < need
    <3>1. TAKE n \in 1..(k - 1)
    <3>2. n \in 1..Len(ids) /\ n < k
      BY <2>4
    <3>3. n \notin enough
      BY <2>3, <2>4, <3>2
    <3> QED BY <1>1, <3>2, <3>3
  <2>6. \A i \in 1..k : ids[i] \in S
    BY <2>4, ElementOfSeq
  <2>7. /\ SubSeq(ids, 1, k) \in Seq(S) /\ Len(SubSeq(ids, 1, k)) = k
        /\ \A i \in 1..k : SubSeq(ids, 1, k)[i] = ids[i]
    <3>1. /\ SubSeq(ids, 1, k) \in Seq(S)
          /\ Len(SubSeq(ids, 1, k)) = IF 1 <= k THEN k - 1 + 1 ELSE 0
          /\ \A i \in 1..(k - 1 + 1) : SubSeq(ids, 1, k)[i] = ids[1 + i - 1]
      BY <2>4, <2>6, SubSeqProperties
    <3> QED BY <2>4, <3>1
  <2>8. k \in 0..Len(ids)
    BY <2>4
  <2> HIDE DEF Freed
  <2> QED BY <2>1, <2>4, <2>5, <2>7, <2>8 DEF Freed
<1> QED BY <1>2, <1>3

LEMMA MetaFinite ==
  ASSUME MetaOK(meta)
  PROVE  /\ MetaIds(meta) \in SUBSET Ids
         /\ \A T \in SUBSET MetaIds(meta) : Total(T) \in Nat /\ (T = {} => Total(T) = 0)
<1>1. \A i \in DOMAIN meta : meta[i].id \in Ids
  <2>1. \A i \in DOMAIN meta : meta[i] \in [id : Ids, last : Nat]
    <3>1. meta \in Seq([id : Ids, last : Nat]) /\ DOMAIN meta = 1..Len(meta)
      BY DEF MetaOK
    <3> QED BY <3>1, ElementOfSeq
  <2> QED BY <2>1
<1>2. MetaIds(meta) \in SUBSET Ids
  BY <1>1 DEF MetaIds
<1>3. ASSUME NEW T \in SUBSET MetaIds(meta) PROVE Total(T) \in Nat /\ (T = {} => Total(T) = 0)
  <2>1. IsFiniteSet(T)
    BY <1>2, FS_Subset, MetadataAssumption
  <2>2. \A c \in T : Size(c) \in Nat
    BY <1>2, MetadataAssumption DEF Size
  <2> QED BY <2>1, <2>2, TotalFacts
<1> QED BY <1>2, <1>3

LEMMA EveryPlanFits ==
  ASSUME MetaOK(meta), NEW required \in Nat, NEW limit \in Nat
  PROVE  PlanFits(required, limit)
<1> DEFINE D == DOMAIN meta
           all == MetaIds(meta)
           current == Total(all)
           plan == PlanEviction(required, limit)
           victims == Range(plan)
           AccessTime(c) == LET i == CHOOSE j \in DOMAIN meta : meta[j].id = c IN meta[i].last
<1>1. D = 1..Len(meta) /\ Len(meta) \in Nat /\ all = {meta[i].id : i \in D}
  BY DEF MetaOK, MetaIds
<1>2. current \in Nat /\ \A T \in SUBSET all : Total(T) \in Nat /\ (T = {} => Total(T) = 0)
  BY MetaFinite
<1>3. \A i \in D : AccessTime(meta[i].id) = meta[i].last
  <2>1. TAKE i \in D
  <2>2. \A j \in D : meta[j].id = meta[i].id => j = i
    BY DEF MetaOK
  <2>3. (CHOOSE j \in DOMAIN meta : meta[j].id = meta[i].id) = i
    BY <2>2
  <2> QED BY <2>3
<1> SUFFICES
      /\ current - Total(victims) + required <= limit \/ victims = all
      /\ plan # <<>> => Total(victims \ {plan[Len(plan)]}) + limit < current + required
      /\ \A c \in victims, d \in all \ victims : AccessTime(c) <= AccessTime(d)
  BY DEF PlanFits
<1> HIDE DEF current, all, AccessTime
<1>4. CASE current + required <= limit
  <2>1. plan = <<>>
    BY <1>4 DEF PlanEviction, current, all
  <2>2. victims = {}
    BY <2>1 DEF Range
  <2>3. Total(victims) = 0
    BY <1>2, <2>2
  <2> HIDE DEF plan, victims
  <2> QED BY <1>2, <1>4, <2>1, <2>2, <2>3
<1>5. CASE ~ (current + required <= limit)
  <2> DEFINE need == current + required - limit
             ids == ByAccess
             First(n) == {ids[i] : i \in 1..n}
  <2>1. need \in Int /\ need > 0
    BY <1>2, <1>5
  <2>2. plan = Accumulate(ids, need)
    BY <1>5 DEF PlanEviction, LRUEviction, current, all
  <2> HIDE DEF plan, need
  <2>3. PICK o \in [D -> D] :
          /\ ids = [n \in D |-> meta[o[n]].id]
          /\ \A i \in D : \E n \in D : o[n] = i
          /\ \A m, n \in D : m # n => o[m] # o[n]
          /\ \A m, n \in D : m < n => meta[o[m]].last <= meta[o[n]].last
    BY ByAccessFacts
  <2> HIDE DEF ids
  <2>4. /\ ids \in Seq(all) /\ Len(ids) = Len(meta) /\ DOMAIN ids = D
        /\ \A n \in D : ids[n] = meta[o[n]].id /\ ids[n] \in all
    <3>1. \A n \in D : ids[n] = meta[o[n]].id /\ ids[n] \in all
      BY <1>1, <2>3
    <3>2. ids \in [1..Len(meta) -> all]
      BY <1>1, <2>3, <3>1
    <3>3. ids \in Seq(all)
      BY <1>1, <3>2, SeqDef
    <3> QED BY <1>1, <2>3, <3>1, <3>3
  <2>5. \A i \in D : \E n \in D : ids[n] = meta[i].id
    BY <2>3, <2>4
  <2>6. \A m, n \in D : ids[m] = ids[n] => m = n
    <3>1. TAKE m, n \in D
    <3>2. HAVE ids[m] = ids[n]
    <3>3. o[m] = o[n]
      BY <2>3, <2>4, <3>2 DEF MetaOK
    <3> QED BY <2>3, <3>3
  <2>7. \A n \in 0..Len(ids) : First(n) \in SUBSET all /\ Total(First(n)) \in Int
    <3>1. TAKE n \in 0..Len(ids)
    <3>2. First(n) \in SUBSET all
      BY <1>1, <2>4, SMTT(40)
    <3> QED BY <1>2, <3>2
  <2>8. PICK k \in 0..Len(ids) :
          /\ plan \in Seq(all) /\ Len(plan) = k
          /\ \A i \in 1..k : plan[i] = ids[i]
          /\ k = Len(ids) \/ Total(First(k)) >= need
          /\ \A n \in 1..(k - 1) : Total(First(n)) < need
    <3>1. \A n \in 0..Len(ids) : Total({ids[i] : i \in 1..n}) \in Int
      BY <2>7
    <3>2. \E k \in 0..Len(ids) :
            /\ Accumulate(ids, need) \in Seq(all) /\ Len(Accumulate(ids, need)) = k
            /\ \A i \in 1..k : Accumulate(ids, need)[i] = ids[i]
            /\ k = Len(ids) \/ Total({ids[i] : i \in 1..k}) >= need
            /\ \A n \in 1..(k - 1) : Total({ids[i] : i \in 1..n}) < need
      BY <2>1, <2>4, <3>1, AccumulateFacts
    <3> QED BY <2>2, <3>2
  <2>9. k \in Nat /\ DOMAIN plan = 1..k /\ 1..k \subseteq D
    BY <1>1, <2>4, <2>8
  <2>10. victims = First(k)
    BY <2>8, <2>9 DEF Range
  <2>11. current - Total(victims) + required <= limit \/ victims = all
    <3>1. CASE k = Len(ids)
      <4>1. 1..k = D
        BY <1>1, <2>4, <3>1
      <4>2. victims = all
        <5>1. victims = {ids[i] : i \in D}
          BY <2>10, <4>1
        <5>2. \A d \in all : \E n \in D : ids[n] = d
          BY <1>1, <2>5
        <5>3. \A n \in D : ids[n] \in all
          BY <2>4
        <5> HIDE DEF D, victims
        <5> QED BY <5>1, <5>2, <5>3
      <4> QED BY <4>2
    <3>2. CASE Total(First(k)) >= need
      <4>1. Total(victims) >= need /\ Total(victims) \in Int
        BY <2>7, <2>10, <3>2
      <4> HIDE DEF victims
      <4> QED BY <1>2, <4>1 DEF need
    <3> QED BY <2>8, <3>1, <3>2
  <2>12. ASSUME plan # <<>> PROVE Total(victims \ {plan[Len(plan)]}) + limit < current + required
    <3>1. k >= 1
      BY <2>8, <2>9, <2>12, EmptySeq
    <3>2. k \in D /\ plan[Len(plan)] = ids[k]
      BY <2>8, <2>9, <3>1
    <3>3. 1..(k - 1) = (1..k) \ {k}
      BY <2>9, <3>1
    <3>4. victims \ {ids[k]} = First(k - 1)
      BY <2>6, <2>9, <2>10, <3>2, <3>3
    <3>5. Total(First(k - 1)) < need /\ Total(First(k - 1)) \in Int
      <4>1. k - 1 \in 0..Len(ids)
        BY <2>8, <3>1
      <4>2. Total(First(k - 1)) \in Int
        BY <2>7, <4>1
      <4>3. CASE k = 1
        <5>1. First(k - 1) = {}
          BY <4>3
        <5>2. Total(First(k - 1)) = 0
          BY <1>2, <5>1
        <5> QED BY <2>1, <4>2, <5>2
      <4>4. CASE k > 1
        <5>1. k - 1 \in 1..(k - 1)
          BY <2>9, <4>4
        <5> QED BY <2>8, <4>2, <5>1
      <4> QED BY <2>9, <3>1, <4>3, <4>4
    <3>6. Total(victims \ {plan[Len(plan)]}) < need
          /\ Total(victims \ {plan[Len(plan)]}) \in Int
      BY <3>2, <3>4, <3>5
    <3> HIDE DEF victims, First
    <3> QED BY <1>2, <3>6 DEF need
  <2>13. ASSUME NEW c \in victims, NEW d \in all \ victims PROVE AccessTime(c) <= AccessTime(d)
    <3>1. PICK a \in 1..k : c = ids[a]
      BY <2>10
    <3>2. PICK b \in D : d = ids[b]
      BY <1>1, <2>5
    <3>3. b \notin 1..k
      BY <2>10, <3>2
    <3>4. a \in D /\ a < b
      BY <1>1, <2>9, <3>1, <3>3
    <3>5. o[a] \in D /\ o[b] \in D /\ meta[o[a]].last <= meta[o[b]].last
      BY <2>3, <3>2, <3>4
    <3>6. AccessTime(c) = meta[o[a]].last /\ AccessTime(d) = meta[o[b]].last
      BY <1>3, <2>4, <3>1, <3>2, <3>4, <3>5
    <3> QED BY <3>5, <3>6
  <2> QED BY <2>11, <2>12, <2>13
<1> QED BY <1>4, <1>5

(* Every plan, for any write and any limit, frees what is missing or all   *)
(* there is, takes no entry too many, and spares none that was accessed    *)
(* before a victim.                                                        *)
AllPlansFit == \A required, limit \in Nat : PlanFits(required, limit)

THEOREM PlanFitsLRUHolds == Spec => [](PlanFitsLRU /\ AllPlansFit)
<1>1. DurInv => AllPlansFit
  BY EveryPlanFits DEF DurInv, TypeInv, AllPlansFit
<1>2. AllPlansFit => PlanFitsLRU
  BY DEF AllPlansFit, PlanFitsLRU
<1> QED BY <1>1, <1>2, Durability, PTL
=============================================================================
