-------------------------- MODULE FaissStoreProofs --------------------------
(***************************************************************************)
(* Proofs about FaissStore, for every set of points, every bound on the    *)
(* int ids and every configuration of failures.                            *)
(***************************************************************************)
EXTENDS FaissStore, TLAPS

(***************************************************************************)
(* What the metadata holds: a map from points to int ids, and next_id.     *)
(***************************************************************************)
LEMMA MetasShape ==
  ASSUME NEW m, m \in Metas
  PROVE  /\ m = [ids |-> m.ids, next |-> m.next]
         /\ DOMAIN m.ids \subseteq Points
         /\ m.ids \in [DOMAIN m.ids -> 1..MaxId]
         /\ m.next \in 1..(MaxId + 1)
<1>1. PICK f, n : /\ m = [ids |-> f, next |-> n]
                  /\ f \in UNION {[S -> 1..MaxId] : S \in SUBSET Points}
                  /\ n \in 1..(MaxId + 1)
  BY DEF Metas
<1>2. PICK S \in SUBSET Points : f \in [S -> 1..MaxId]
  BY <1>1
<1>3. QED
  BY <1>1, <1>2

LEMMA MetasIntro ==
  ASSUME NEW S \in SUBSET Points, NEW f \in [S -> 1..MaxId], NEW n \in 1..(MaxId + 1)
  PROVE  [ids |-> f, next |-> n] \in Metas
<1>1. f \in UNION {[T -> 1..MaxId] : T \in SUBSET Points}
  OBVIOUS
<1>2. QED
  BY <1>1 DEF Metas

LEMMA EmptyMetaTyped == EmptyMeta \in Metas
<1>1. {} \in SUBSET Points /\ EmptyMap \in [{} -> 1..MaxId]
  BY DEF EmptyMap
<1>2. 1 \in 1..(MaxId + 1)
  BY FaissAssumption
<1>3. QED
  BY <1>1, <1>2, MetasIntro DEF EmptyMeta

(* A file that exists holds one value of its kind.                         *)
LEMMA FileShape ==
  ASSUME NEW S, NEW f \in File(S), f # NoFile
  PROVE  f[1] \in S
  BY DEF File, NoFile

LEMMA FileIntro ==
  ASSUME NEW S, NEW x \in S
  PROVE  <<x>> \in File(S) /\ <<x>> # NoFile /\ <<x>>[1] = x
<1>1. <<x>> \in [1..1 -> S]
  OBVIOUS
<1>2. QED
  BY <1>1 DEF File, NoFile

(***************************************************************************)
(* Every variable keeps its type; the int ids stay within their range.     *)
(***************************************************************************)
THEOREM FaissTypeCorrect == Spec => []TypeOK
<1> USE FaissAssumption
<1>1. Init => TypeOK
  <2> SUFFICES ASSUME Init PROVE TypeOK
    OBVIOUS
  <2>1. meta \in Metas /\ index \in SUBSET Vectors
    BY EmptyMetaTyped DEF Init
  <2>2. \A S : NoFile \in File(S)
    BY DEF File
  <2>3. QED
    BY <2>1, <2>2 DEF Init, TypeOK
<1>2. TypeOK /\ [Next]_vars => TypeOK'
  <2> SUFFICES ASSUME TypeOK, [Next]_vars PROVE TypeOK'
    OBVIOUS
  <2>0. /\ cfg \in Configs /\ loaded \in BOOLEAN
        /\ index \in SUBSET Vectors /\ meta \in Metas
        /\ fileIndex \in File(SUBSET Vectors) /\ fileMeta \in File(Metas)
        /\ step \in {"idle", "write", "half"}
        /\ target \in SUBSET Points /\ acked \in SUBSET Points /\ cut \in SUBSET Points
    BY DEF TypeOK
  <2>1. CASE Load
    <3>1. index' \in SUBSET Vectors
      BY <2>0, <2>1, FileShape DEF Load
    <3>2. meta' \in Metas
      BY <2>0, <2>1, FileShape, EmptyMetaTyped DEF Load
    <3>3. QED
      BY <2>0, <2>1, <3>1, <3>2 DEF Load, TypeOK
  <2>2. CASE LoadMetaFails
    <3>1. index' \in SUBSET Vectors
      BY <2>0, <2>2, FileShape DEF LoadMetaFails
    <3>2. QED
      BY <2>0, <2>2, <3>1, EmptyMetaTyped DEF LoadMetaFails, TypeOK
  <2>3. CASE EnsureCollection
    BY <2>0, <2>3, EmptyMetaTyped DEF EnsureCollection, TypeOK
  <2>4. ASSUME NEW p \in Points, Upsert(p) PROVE TypeOK'
    <3>1. PICK i : /\ i = IF p \in Known THEN meta.ids[p] ELSE meta.next
                   /\ i <= MaxId
                   /\ index' = Without(IF p \in Known THEN {i} ELSE {}) \cup {Entry(i, p)}
                   /\ meta' = [ids |-> [q \in Known \cup {p} |-> IF q = p THEN i ELSE meta.ids[q]],
                               next |-> IF p \in Known THEN meta.next ELSE i + 1]
      BY <2>4 DEF Upsert
    <3>2. Known \subseteq Points /\ meta.ids \in [Known -> 1..MaxId] /\ meta.next \in 1..(MaxId + 1)
      BY <2>0, MetasShape DEF Known
    <3>3. i \in 1..MaxId /\ (p \notin Known => i = meta.next)
      BY <3>1, <3>2
    <3>4. [q \in Known \cup {p} |-> IF q = p THEN i ELSE meta.ids[q]] \in [Known \cup {p} -> 1..MaxId]
      BY <3>2, <3>3
    <3>5. (IF p \in Known THEN meta.next ELSE i + 1) \in 1..(MaxId + 1)
      BY <3>2, <3>3
    <3>6. meta' \in Metas
      BY <3>1, <3>2, <3>4, <3>5, MetasIntro
    <3>7. index' \in SUBSET Vectors
      BY <2>0, <3>1, <3>3 DEF Without, Entry, Vectors
    <3>8. QED
      BY <2>0, <2>4, <3>6, <3>7 DEF Upsert, TypeOK
  <2>5. ASSUME NEW ps \in SUBSET Points, Delete(ps) PROVE TypeOK'
    <3>1. Known \subseteq Points /\ meta.ids \in [Known -> 1..MaxId] /\ meta.next \in 1..(MaxId + 1)
      BY <2>0, MetasShape DEF Known
    <3>2. meta' = [ids |-> [q \in Known \ ps |-> meta.ids[q]], next |-> meta.next]
      BY <2>0, <2>5, MetasShape DEF Delete, Restrict
    <3>3. [q \in Known \ ps |-> meta.ids[q]] \in [Known \ ps -> 1..MaxId]
      BY <3>1
    <3>4. meta' \in Metas
      BY <3>1, <3>2, <3>3, MetasIntro
    <3>5. index' \in SUBSET Vectors
      BY <2>0, <2>5 DEF Delete, Without
    <3>6. QED
      BY <2>0, <2>5, <3>4, <3>5 DEF Delete, TypeOK
  <2>6. CASE ReplaceIndex
    BY <2>0, <2>6, FileIntro DEF ReplaceIndex, TypeOK
  <2>7. CASE ReplaceMeta
    BY <2>0, <2>7, FileIntro DEF ReplaceMeta, TypeOK
  <2>8. CASE SaveFails
    BY <2>0, <2>8 DEF SaveFails, TypeOK
  <2>9. CASE Crash
    <3>1. Unmapped \subseteq Points
      BY <2>0, FileShape DEF Unmapped, Vectors
    <3>2. QED
      BY <2>0, <2>9, <3>1, EmptyMetaTyped DEF Crash, TypeOK
  <2>10. CASE UNCHANGED vars
    BY <2>10 DEF vars, TypeOK
  <2>11. QED
    BY <2>1, <2>2, <2>3, <2>4, <2>5, <2>6, <2>7, <2>8, <2>9, <2>10 DEF Next
<1>3. QED
  BY <1>1, <1>2, PTL DEF Spec

-----------------------------------------------------------------------------
(* What an upsert and a delete make of the metadata, for any int id i that *)
(* is either the point's own or the next one.                              *)
LEMMA UpsertKeepsFresh ==
  ASSUME TypeOK, MetaFresh(meta), NEW p \in Points, Upsert(p)
  PROVE  MetaFresh(meta')
<1>1. PICK i : /\ i = IF p \in Known THEN meta.ids[p] ELSE meta.next
               /\ meta' = [ids |-> [q \in Known \cup {p} |-> IF q = p THEN i ELSE meta.ids[q]],
                           next |-> IF p \in Known THEN meta.next ELSE i + 1]
  BY DEF Upsert
<1>2. meta.ids \in [Known -> 1..MaxId] /\ meta.next \in 1..(MaxId + 1)
  BY MetasShape DEF TypeOK, Known
<1>3. /\ \A q, r \in Known : meta.ids[q] = meta.ids[r] => q = r
      /\ \A q \in Known : meta.ids[q] < meta.next
  BY DEF MetaFresh, Known
<1>4. DOMAIN meta'.ids = Known \cup {p}
  BY <1>1
<1>5. CASE p \in Known
  <2>1. \A q \in Known : meta'.ids[q] = meta.ids[q]
    BY <1>1, <1>5
  <2>2. QED
    BY <1>1, <1>3, <1>4, <1>5, <2>1 DEF MetaFresh
<1>6. CASE p \notin Known
  <2>1. /\ meta'.ids[p] = meta.next
        /\ \A q \in Known : meta'.ids[q] = meta.ids[q]
        /\ meta'.next = meta.next + 1
    BY <1>1, <1>6
  <2>2. \A q \in Known : meta'.ids[q] < meta.next
    BY <1>3, <2>1
  <2>3. \A q \in DOMAIN meta'.ids : meta'.ids[q] < meta'.next
    BY <1>2, <1>4, <2>1, <2>2
  <2>4. \A q, r \in DOMAIN meta'.ids : meta'.ids[q] = meta'.ids[r] => q = r
    BY <1>2, <1>3, <1>4, <2>1, <2>2
  <2>5. QED
    BY <2>3, <2>4 DEF MetaFresh
<1>7. QED
  BY <1>5, <1>6

LEMMA DeleteShrinks ==
  ASSUME TypeOK, NEW ps \in SUBSET Points, Delete(ps)
  PROVE  /\ DOMAIN meta'.ids = Known \ ps
         /\ \A p \in Known \ ps : meta'.ids[p] = meta.ids[p]
         /\ meta'.next = meta.next
  BY MetasShape DEF TypeOK, Delete, Restrict, Known

LEMMA DeleteKeepsFresh ==
  ASSUME TypeOK, MetaFresh(meta), NEW ps \in SUBSET Points, Delete(ps)
  PROVE  MetaFresh(meta')
  BY DeleteShrinks DEF MetaFresh, Known

LEMMA EmptyMetaFresh == MetaFresh(EmptyMeta)
  BY DEF MetaFresh, EmptyMeta, EmptyMap

(***************************************************************************)
(* Two points never share an int id, in memory and in the file, whatever   *)
(* the order of upserts, deletes, failed saves, crashes and reloads.       *)
(***************************************************************************)
THEOREM FreshIdsHold == Spec => []FreshIds
<1>1. Init => FreshIds
  BY EmptyMetaFresh DEF Init, FreshIds
<1>2. TypeOK /\ FreshIds /\ [Next]_vars => FreshIds'
  <2> SUFFICES ASSUME TypeOK, FreshIds, [Next]_vars PROVE FreshIds'
    OBVIOUS
  <2>0. MetaFresh(meta) /\ (fileMeta # NoFile => MetaFresh(fileMeta[1]))
    BY DEF FreshIds
  <2>1. CASE Load
    BY <2>0, <2>1, EmptyMetaFresh DEF Load, FreshIds
  <2>2. CASE LoadMetaFails
    BY <2>0, <2>2, EmptyMetaFresh DEF LoadMetaFails, FreshIds
  <2>3. CASE EnsureCollection
    BY <2>0, <2>3, EmptyMetaFresh DEF EnsureCollection, FreshIds
  <2>4. ASSUME NEW p \in Points, Upsert(p) PROVE FreshIds'
    <3>1. MetaFresh(meta')
      BY <2>0, <2>4, UpsertKeepsFresh
    <3>2. fileMeta' = fileMeta
      BY <2>4 DEF Upsert
    <3>3. QED
      BY <2>0, <3>1, <3>2 DEF FreshIds
  <2>5. ASSUME NEW ps \in SUBSET Points, Delete(ps) PROVE FreshIds'
    <3>1. MetaFresh(meta')
      BY <2>0, <2>5, DeleteKeepsFresh
    <3>2. fileMeta' = fileMeta
      BY <2>5 DEF Delete
    <3>3. QED
      BY <2>0, <3>1, <3>2 DEF FreshIds
  <2>6. CASE ReplaceIndex
    BY <2>0, <2>6 DEF ReplaceIndex, FreshIds
  <2>7. CASE ReplaceMeta
    BY <2>0, <2>7 DEF ReplaceMeta, FreshIds
  <2>8. CASE SaveFails
    BY <2>0, <2>8 DEF SaveFails, FreshIds
  <2>9. CASE Crash
    BY <2>0, <2>9, EmptyMetaFresh DEF Crash, FreshIds
  <2>10. CASE UNCHANGED vars
    BY <2>0, <2>10 DEF vars, FreshIds
  <2>11. QED
    BY <2>1, <2>2, <2>3, <2>4, <2>5, <2>6, <2>7, <2>8, <2>9, <2>10 DEF Next
<1>3. QED
  BY <1>1, <1>2, FaissTypeCorrect, PTL DEF Spec

-----------------------------------------------------------------------------
(* Durable is not inductive: between the two os.replace the files are good *)
(* for an acknowledged point only because memory holds its vector under    *)
(* the id the metadata file has for it, and the upsert under way will be   *)
(* acknowledged only because memory holds the target's.                    *)
DurableInv ==
  /\ step # "idle" => loaded
  /\ step = "idle" => target = {}
  /\ step = "half" => fileIndex = <<index>>
  /\ ~cfg.reads =>
       /\ \A p \in acked : Filed(p)
       /\ loaded => \A p \in acked : Held(p) /\ meta.ids[p] = fileMeta[1].ids[p]
       /\ \A p \in target : Held(p)

(* No other point loses its vector or its id to an upsert.                 *)
LEMMA UpsertKeepsHeld ==
  ASSUME TypeOK, FreshIds, NEW p \in Points, Upsert(p)
  PROVE  /\ Held(p)'
         /\ \A q \in Points : Held(q) => Held(q)' /\ meta'.ids[q] = meta.ids[q]
<1>1. PICK i : /\ i = IF p \in Known THEN meta.ids[p] ELSE meta.next
               /\ index' = Without(IF p \in Known THEN {i} ELSE {}) \cup {Entry(i, p)}
               /\ meta' = [ids |-> [q \in Known \cup {p} |-> IF q = p THEN i ELSE meta.ids[q]],
                           next |-> IF p \in Known THEN meta.next ELSE i + 1]
  BY DEF Upsert
<1>2. \A q, r \in Known : meta.ids[q] = meta.ids[r] => q = r
  BY DEF FreshIds, MetaFresh, Known
<1>3. Known' = Known \cup {p} /\ meta'.ids[p] = i /\ \A q \in Known \ {p} : meta'.ids[q] = meta.ids[q]
  BY <1>1 DEF Known
<1>4. Held(p)'
  BY <1>1, <1>3 DEF Held
<1>5. ASSUME NEW q \in Points, Held(q) PROVE Held(q)' /\ meta'.ids[q] = meta.ids[q]
  <2>1. CASE q = p
    BY <1>1, <1>3, <1>4, <1>5, <2>1 DEF Held
  <2>2. CASE q # p
    <3>1. Entry(meta.ids[q], q) \in index'
      BY <1>1, <1>2, <1>5, <2>2 DEF Held, Without, Entry
    <3>2. QED
      BY <1>3, <1>5, <2>2, <3>1 DEF Held
  <2>3. QED
    BY <2>1, <2>2
<1>6. QED
  BY <1>4, <1>5

(* Nor to the delete of others.                                            *)
LEMMA DeleteKeepsHeld ==
  ASSUME TypeOK, FreshIds, NEW ps \in SUBSET Points, Delete(ps),
         NEW q \in Points \ ps, Held(q)
  PROVE  Held(q)' /\ meta'.ids[q] = meta.ids[q]
<1>1. /\ Known' = Known \ ps
      /\ \A p \in Known \ ps : meta'.ids[p] = meta.ids[p]
  BY DeleteShrinks DEF Known
<1>2. \A p, r \in Known : meta.ids[p] = meta.ids[r] => p = r
  BY DEF FreshIds, MetaFresh, Known
<1>3. index' = {e \in index : e.id \notin {meta.ids[p] : p \in ps \cap Known}}
  BY DEF Delete, Without
<1>4. q \in Known /\ Entry(meta.ids[q], q) \in index /\ Entry(meta.ids[q], q).id = meta.ids[q]
  BY DEF Held, Entry
<1>5. meta.ids[q] \notin {meta.ids[p] : p \in ps \cap Known}
  BY <1>2, <1>4
<1>6. Entry(meta.ids[q], q) \in index'
  BY <1>3, <1>4, <1>5
<1>7. QED
  BY <1>1, <1>4, <1>6 DEF Held

LEMMA DurableInvInductive ==
  ASSUME TypeOK, FreshIds, DurableInv, [Next]_vars
  PROVE  DurableInv'
<1>0. acked \subseteq Points /\ target \subseteq Points /\ step \in {"idle", "write", "half"}
  BY DEF TypeOK
<1>1. CASE Load
  BY <1>1 DEF Load, DurableInv, Filed, Held, Known
<1>2. CASE LoadMetaFails
  BY <1>2 DEF LoadMetaFails, DurableInv
<1>3. CASE EnsureCollection
  BY <1>3 DEF EnsureCollection, DurableInv, Filed
<1>4. ASSUME NEW p \in Points, Upsert(p) PROVE DurableInv'
  <2>1. /\ step' = "write" /\ loaded' /\ loaded /\ target' = {p}
        /\ UNCHANGED <<cfg, acked, fileIndex, fileMeta>>
    BY <1>4 DEF Upsert
  <2>2. ASSUME ~cfg.reads, NEW q \in acked
        PROVE  Filed(q)' /\ Held(q)' /\ meta'.ids[q] = fileMeta'[1].ids[q]
    <3>1. Filed(q) /\ Held(q) /\ meta.ids[q] = fileMeta[1].ids[q] /\ q \in Points
      BY <1>0, <2>1, <2>2 DEF DurableInv
    <3>2. Held(q)' /\ meta'.ids[q] = meta.ids[q]
      BY <1>4, <3>1, UpsertKeepsHeld
    <3>3. QED
      BY <2>1, <3>1, <3>2 DEF Filed
  <2>3. Held(p)'
    BY <1>4, UpsertKeepsHeld
  <2>4. QED
    BY <2>1, <2>2, <2>3 DEF DurableInv
<1>5. ASSUME NEW ps \in SUBSET Points, Delete(ps) PROVE DurableInv'
  <2>1. /\ step' = "write" /\ loaded' /\ loaded /\ target' = {} /\ acked' = acked \ ps
        /\ UNCHANGED <<cfg, fileIndex, fileMeta>>
    BY <1>5 DEF Delete
  <2>2. ASSUME ~cfg.reads, NEW q \in acked \ ps
        PROVE  Filed(q)' /\ Held(q)' /\ meta'.ids[q] = fileMeta'[1].ids[q]
    <3>1. Filed(q) /\ Held(q) /\ meta.ids[q] = fileMeta[1].ids[q] /\ q \in Points \ ps
      BY <1>0, <2>1, <2>2 DEF DurableInv
    <3>2. Held(q)' /\ meta'.ids[q] = meta.ids[q]
      BY <1>5, <3>1, DeleteKeepsHeld
    <3>3. QED
      BY <2>1, <3>1, <3>2 DEF Filed
  <2>3. QED
    BY <2>1, <2>2 DEF DurableInv
<1>6. CASE ReplaceIndex
  <2>1. /\ step = "write" /\ step' = "half" /\ fileIndex' = <<index>> /\ loaded
        /\ UNCHANGED <<cfg, loaded, index, meta, fileMeta, target, acked>>
    BY <1>6 DEF ReplaceIndex, DurableInv
  <2>2. ASSUME ~cfg.reads, NEW q \in acked PROVE Filed(q)'
    <3>1. Filed(q) /\ Held(q) /\ meta.ids[q] = fileMeta[1].ids[q]
      BY <2>1, <2>2 DEF DurableInv
    <3>2. fileIndex'[1] = index /\ fileIndex' # NoFile
      BY <2>1 DEF NoFile
    <3>3. QED
      BY <2>1, <3>1, <3>2 DEF Filed, Held
  <2>3. \A q \in acked \cup target : Held(q) => Held(q)'
    BY <2>1 DEF Held, Known
  <2>4. QED
    BY <2>1, <2>2, <2>3 DEF DurableInv
<1>7. CASE ReplaceMeta
  <2>1. /\ step' = "idle" /\ fileIndex = <<index>> /\ fileMeta' = <<meta>> /\ loaded
        /\ target' = {} /\ acked' = acked \cup target
        /\ UNCHANGED <<cfg, loaded, index, meta, fileIndex>>
    BY <1>7 DEF ReplaceMeta, DurableInv
  <2>2. /\ fileIndex[1] = index /\ fileIndex # NoFile
        /\ fileMeta'[1] = meta /\ fileMeta' # NoFile
    BY <2>1 DEF NoFile
  <2>3. ASSUME ~cfg.reads, NEW q \in acked'
        PROVE  Filed(q)' /\ Held(q)' /\ meta'.ids[q] = fileMeta'[1].ids[q]
    <3>1. Held(q)
      BY <2>1, <2>3 DEF DurableInv
    <3>2. QED
      BY <2>1, <2>2, <3>1 DEF Held, Filed, Known
  <2>4. QED
    BY <2>1, <2>3 DEF DurableInv
<1>8. CASE SaveFails
  <2>1. \A q \in Points : (Held(q) => Held(q)') /\ (Filed(q) => Filed(q)')
    BY <1>8 DEF SaveFails, Held, Filed, Known
  <2>2. QED
    BY <1>0, <1>8, <2>1 DEF SaveFails, DurableInv
<1>9. CASE Crash
  BY <1>9 DEF Crash, DurableInv, Filed
<1>10. CASE UNCHANGED vars
  <2>1. \A q \in Points : (Held(q) => Held(q)') /\ (Filed(q) => Filed(q)')
    BY <1>10 DEF vars, Held, Filed, Known
  <2>2. QED
    BY <1>0, <1>10, <2>1 DEF vars, DurableInv
<1>11. QED
  BY <1>1, <1>2, <1>3, <1>4, <1>5, <1>6, <1>7, <1>8, <1>9, <1>10 DEF Next

(***************************************************************************)
(* A point whose upsert returned stays in both files under one id, through *)
(* every later upsert, delete of other points, failed save and crash, as   *)
(* long as the metadata never fails to load.                               *)
(***************************************************************************)
THEOREM DurableHolds == Spec => []Durable
<1>1. Init => DurableInv
  BY DEF Init, DurableInv
<1>2. TypeOK /\ FreshIds /\ DurableInv /\ [Next]_vars => DurableInv'
  BY DurableInvInductive
<1>3. DurableInv => Durable
  BY DEF DurableInv, Durable, Filed
<1>4. QED
  BY <1>1, <1>2, <1>3, FaissTypeCorrect, FreshIdsHold, PTL DEF Spec

-----------------------------------------------------------------------------
(* A vector is found through its own point, or a crash orphaned it.        *)
Mapped(e, ids) == e.of \in DOMAIN ids /\ ids[e.of] = e.id

FileVectors == IF fileIndex = NoFile THEN {} ELSE fileIndex[1]
FileIds     == IF fileMeta = NoFile THEN EmptyMap ELSE fileMeta[1].ids

(* Before a load, the files are what the load will find.                   *)
StrayInv ==
  ~cfg.reads =>
    /\ loaded  => \A e \in index : Mapped(e, meta.ids) \/ e.of \in cut
    /\ ~loaded => index = {} /\ \A e \in FileVectors : Mapped(e, FileIds) \/ e.of \in cut

LEMMA StrayInvInductive ==
  ASSUME TypeOK, FreshIds, DurableInv, StrayInv, [Next]_vars
  PROVE  StrayInv'
<1> SUFFICES ASSUME ~cfg'.reads PROVE StrayInv'
  BY DEF StrayInv
<1>0. cfg' = cfg
  BY DEF Next, vars, Load, LoadMetaFails, EnsureCollection, Upsert, Delete,
         ReplaceIndex, ReplaceMeta, SaveFails, Crash
<1>1. CASE Load
  BY <1>0, <1>1 DEF Load, StrayInv, FileVectors, FileIds, EmptyMeta
<1>2. CASE LoadMetaFails
  BY <1>0, <1>2 DEF LoadMetaFails
<1>3. CASE EnsureCollection
  BY <1>3 DEF EnsureCollection, StrayInv
<1>4. ASSUME NEW p \in Points, Upsert(p) PROVE StrayInv'
  <2>1. PICK i : /\ i = IF p \in Known THEN meta.ids[p] ELSE meta.next
                 /\ loaded /\ loaded' = loaded /\ cut' = cut
                 /\ index' \subseteq index \cup {Entry(i, p)}
                 /\ meta'.ids = [q \in Known \cup {p} |-> IF q = p THEN i ELSE meta.ids[q]]
    BY <1>4 DEF Upsert, Without
  <2>2. ASSUME NEW e \in index, Mapped(e, meta.ids) PROVE Mapped(e, meta'.ids)
    BY <2>1, <2>2 DEF Mapped, Known
  <2>3. Mapped(Entry(i, p), meta'.ids)
    BY <2>1 DEF Mapped, Entry
  <2>4. QED
    BY <1>0, <2>1, <2>2, <2>3 DEF StrayInv
<1>5. ASSUME NEW ps \in SUBSET Points, Delete(ps) PROVE StrayInv'
  <2>1. /\ loaded /\ loaded' = loaded /\ cut' = cut
        /\ index' = {e \in index : e.id \notin {meta.ids[p] : p \in ps \cap Known}}
    BY <1>5 DEF Delete, Without
  <2>2. /\ DOMAIN meta'.ids = Known \ ps
        /\ \A p \in Known \ ps : meta'.ids[p] = meta.ids[p]
    BY <1>5, DeleteShrinks
  <2>3. ASSUME NEW e \in index', Mapped(e, meta.ids) PROVE Mapped(e, meta'.ids)
    BY <2>1, <2>2, <2>3 DEF Mapped, Known
  <2>4. QED
    BY <1>0, <2>1, <2>3 DEF StrayInv
<1>6. CASE ReplaceIndex \/ ReplaceMeta \/ SaveFails
  <2>1. loaded
    BY <1>6 DEF ReplaceIndex, ReplaceMeta, SaveFails, DurableInv
  <2>2. QED
    BY <1>0, <1>6, <2>1 DEF ReplaceIndex, ReplaceMeta, SaveFails, StrayInv
<1>7. CASE Crash
  <2>1. \A e \in FileVectors : Mapped(e, FileIds) \/ e.of \in Unmapped
    BY DEF FileVectors, FileIds, Mapped, Unmapped
  <2>2. FileVectors' = FileVectors /\ FileIds' = FileIds /\ cut' = cut \cup Unmapped
        /\ ~loaded' /\ index' = {}
    BY <1>7 DEF Crash, FileVectors, FileIds
  <2>3. QED
    BY <2>1, <2>2 DEF StrayInv
<1>8. CASE UNCHANGED vars
  BY <1>8 DEF vars, StrayInv, FileVectors, FileIds
<1>9. QED
  BY <1>1, <1>2, <1>3, <1>4, <1>5, <1>6, <1>7, <1>8 DEF Next

(***************************************************************************)
(* A hit scored on another point's vector can only come from a vector that *)
(* a crash has orphaned, as long as the metadata never fails to load.      *)
(***************************************************************************)
THEOREM StrayVectorsCutHolds == Spec => []StrayVectorsCut
<1>1. Init => StrayInv
  BY DEF Init, StrayInv, FileVectors
<1>2. TypeOK /\ FreshIds /\ DurableInv /\ StrayInv /\ [Next]_vars => StrayInv'
  BY StrayInvInductive
<1>3. FreshIds /\ StrayInv => StrayVectorsCut
  <2> SUFFICES ASSUME FreshIds, StrayInv, ~cfg.reads, NEW h \in Hits
               PROVE  h[2].of = h[1] \/ h[2].of \in cut
    BY DEF StrayVectorsCut
  <2>1. h[2] \in index /\ h[1] \in Known /\ meta.ids[h[1]] = h[2].id
    BY DEF Hits
  <2>2. Mapped(h[2], meta.ids) \/ h[2].of \in cut
    BY <2>1 DEF StrayInv
  <2>3. QED
    BY <2>1, <2>2 DEF FreshIds, MetaFresh, Mapped, Known
<1>4. Init => DurableInv
  BY DEF Init, DurableInv
<1>5. TypeOK /\ FreshIds /\ DurableInv /\ [Next]_vars => DurableInv'
  BY DurableInvInductive
<1>6. QED
  BY <1>1, <1>2, <1>3, <1>4, <1>5, FaissTypeCorrect, FreshIdsHold, PTL DEF Spec

-----------------------------------------------------------------------------
(* What memory knows of the points in the metadata file: a vector of a     *)
(* point under the id the file gives it is there only if memory gives it   *)
(* the same id.  So an index replaced alone revives no point.              *)
Agrees(p) ==
  \/ p \in Known /\ meta.ids[p] = fileMeta[1].ids[p]
  \/ Entry(fileMeta[1].ids[p], p) \notin index

AheadInv ==
  /\ fileMeta # NoFile => fileIndex # NoFile
  /\ ~cfg.reads /\ loaded /\ fileMeta # NoFile =>
       /\ fileMeta[1].next <= meta.next
       /\ \A p \in DOMAIN fileMeta[1].ids : Agrees(p)

LEMMA AheadInvInductive ==
  ASSUME TypeOK, FreshIds, DurableInv, AheadInv, [Next]_vars
  PROVE  AheadInv'
<1>0. /\ meta \in Metas /\ meta.next \in Int /\ cfg' = cfg
      /\ fileMeta # NoFile =>
           /\ fileMeta[1].next \in Int
           /\ \A q \in DOMAIN fileMeta[1].ids : fileMeta[1].ids[q] \in Int /\ fileMeta[1].ids[q] < fileMeta[1].next
  <2>1. cfg' = cfg
    BY DEF Next, vars, Load, LoadMetaFails, EnsureCollection, Upsert, Delete,
           ReplaceIndex, ReplaceMeta, SaveFails, Crash
  <2>2. meta \in Metas /\ meta.next \in 1..(MaxId + 1)
    BY MetasShape DEF TypeOK
  <2>3. ASSUME fileMeta # NoFile
        PROVE  /\ fileMeta[1].next \in 1..(MaxId + 1)
               /\ fileMeta[1].ids \in [DOMAIN fileMeta[1].ids -> 1..MaxId]
    BY <2>3, FileShape, MetasShape DEF TypeOK
  <2>4. QED
    BY <2>1, <2>2, <2>3, FaissAssumption DEF FreshIds, MetaFresh
<1>1. CASE Load
  BY <1>0, <1>1 DEF Load, AheadInv, Agrees, Known
<1>2. CASE LoadMetaFails
  BY <1>0, <1>2 DEF LoadMetaFails, AheadInv
<1>3. CASE EnsureCollection
  BY <1>3 DEF EnsureCollection, AheadInv
<1>4. ASSUME NEW p \in Points, Upsert(p) PROVE AheadInv'
  <2>1. PICK i : /\ i = IF p \in Known THEN meta.ids[p] ELSE meta.next
                 /\ loaded /\ UNCHANGED <<fileIndex, fileMeta, loaded>>
                 /\ index' \subseteq index \cup {Entry(i, p)}
                 /\ meta' = [ids |-> [q \in Known \cup {p} |-> IF q = p THEN i ELSE meta.ids[q]],
                             next |-> IF p \in Known THEN meta.next ELSE i + 1]
    BY <1>4 DEF Upsert, Without
  <2>2. /\ Known' = Known \cup {p} /\ meta'.ids[p] = i
        /\ \A q \in Known : meta'.ids[q] = meta.ids[q]
    BY <2>1 DEF Known
  <2>3. meta.next <= meta'.next
    BY <1>0, <2>1
  <2>4. ASSUME ~cfg.reads, fileMeta # NoFile, NEW q \in DOMAIN fileMeta[1].ids PROVE Agrees(q)'
    <3>1. Agrees(q)
      BY <2>1, <2>4 DEF AheadInv
    <3>2. Entry(i, p) = Entry(fileMeta[1].ids[q], q) => q = p /\ i = fileMeta[1].ids[q]
      BY DEF Entry
    <3>3. QED
      BY <2>1, <2>2, <3>1, <3>2 DEF Agrees
  <2>5. ASSUME ~cfg.reads, fileMeta # NoFile PROVE fileMeta[1].next <= meta'.next
    BY <1>0, <2>1, <2>3, <2>5, SMT DEF AheadInv, Metas
  <2>6. QED
    BY <1>0, <2>1, <2>4, <2>5 DEF AheadInv
<1>5. ASSUME NEW ps \in SUBSET Points, Delete(ps) PROVE AheadInv'
  <2>1. /\ loaded /\ UNCHANGED <<fileIndex, fileMeta, loaded>>
        /\ index' = {e \in index : e.id \notin {meta.ids[p] : p \in ps \cap Known}}
    BY <1>5 DEF Delete, Without
  <2>2. /\ Known' = Known \ ps /\ meta'.next = meta.next
        /\ \A p \in Known \ ps : meta'.ids[p] = meta.ids[p]
    BY <1>5, DeleteShrinks DEF Known
  <2>3. ASSUME ~cfg.reads, fileMeta # NoFile, NEW q \in DOMAIN fileMeta[1].ids PROVE Agrees(q)'
    <3>1. Agrees(q)
      BY <2>1, <2>3 DEF AheadInv
    <3>2. q \in ps \cap Known => Entry(meta.ids[q], q) \notin index'
      BY <2>1 DEF Entry
    <3>3. QED
      BY <2>1, <2>2, <3>1, <3>2 DEF Agrees
  <2>4. QED
    BY <1>0, <2>1, <2>2, <2>3 DEF AheadInv
<1>6. CASE ReplaceIndex
  BY <1>0, <1>6 DEF ReplaceIndex, AheadInv, Agrees, Known, NoFile
<1>7. CASE ReplaceMeta
  <2>1. fileMeta' = <<meta>> /\ meta' = meta /\ fileIndex' = fileIndex /\ fileIndex = <<index>>
    BY <1>7 DEF ReplaceMeta, DurableInv
  <2>2. fileMeta'[1] = meta' /\ fileIndex' # NoFile
    BY <2>1 DEF NoFile
  <2>3. QED
    BY <1>0, <2>1, <2>2 DEF AheadInv, Agrees, Known
<1>8. CASE SaveFails
  BY <1>0, <1>8 DEF SaveFails, AheadInv, Agrees, Known
<1>9. CASE Crash
  BY <1>9 DEF Crash, AheadInv
<1>10. CASE UNCHANGED vars
  BY <1>0, <1>10 DEF vars, AheadInv, Agrees, Known
<1>11. QED
  BY <1>1, <1>2, <1>3, <1>4, <1>5, <1>6, <1>7, <1>8, <1>9, <1>10 DEF Next

(* In memory a call leaves other points as they are, so also as safe.      *)
LEMMA OthersStay ==
  ASSUME loaded, UNCHANGED <<loaded, fileIndex, fileMeta>>, NEW q \in Points,
         Held(q)' <=> Held(q), Held(q) => meta'.ids[q] = meta.ids[q]
  PROVE  (q \in Found' <=> q \in Found) /\ (q \in Safe => q \in Safe')
<1>1. Filed(q)' = Filed(q)
  BY DEF Filed
<1>2. QED
  BY <1>1 DEF Found, Safe, SafePoint

LEMMA UpsertAbstract ==
  ASSUME TypeOK, FreshIds, NEW p \in Points, Upsert(p)
  PROVE  Found' = Found \cup {p} /\ Safe \ {p} \subseteq Safe'
<1>1. PICK i : /\ index' \subseteq index \cup {Entry(i, p)}
               /\ meta'.ids = [q \in Known \cup {p} |-> IF q = p THEN i ELSE meta.ids[q]]
  BY DEF Upsert, Without
<1>2. loaded /\ loaded' /\ UNCHANGED <<loaded, fileIndex, fileMeta>>
  BY DEF Upsert
<1>3. ASSUME NEW q \in Points \ {p}
      PROVE  (Held(q)' <=> Held(q)) /\ (Held(q) => meta'.ids[q] = meta.ids[q])
  <2>1. Held(q) => Held(q)' /\ meta'.ids[q] = meta.ids[q]
    BY UpsertKeepsHeld
  <2>2. ASSUME Held(q)' PROVE Held(q)
    BY <1>1, <1>3, <2>2 DEF Held, Known, Entry
  <2>3. QED
    BY <2>1, <2>2
<1>4. \A q \in Points \ {p} : (q \in Found' <=> q \in Found) /\ (q \in Safe => q \in Safe')
  BY <1>2, <1>3, OthersStay
<1>5. p \in Found'
  BY <1>2, UpsertKeepsHeld DEF Found
<1>6. QED
  BY <1>4, <1>5 DEF Found, Safe

LEMMA DeleteAbstract ==
  ASSUME TypeOK, FreshIds, NEW ps \in SUBSET Points, Delete(ps)
  PROVE  Found' = Found \ ps /\ Safe \ ps \subseteq Safe'
<1>1. loaded /\ loaded' /\ UNCHANGED <<loaded, fileIndex, fileMeta>> /\ index' \subseteq index
  BY DEF Delete, Without
<1>2. Known' = Known \ ps /\ \A p \in Known \ ps : meta'.ids[p] = meta.ids[p]
  BY DeleteShrinks DEF Known
<1>3. ASSUME NEW q \in Points \ ps
      PROVE  (Held(q)' <=> Held(q)) /\ (Held(q) => meta'.ids[q] = meta.ids[q])
  <2>1. Held(q) => Held(q)' /\ meta'.ids[q] = meta.ids[q]
    BY DeleteKeepsHeld
  <2>2. ASSUME Held(q)' PROVE Held(q)
    BY <1>1, <1>2, <2>2 DEF Held
  <2>3. QED
    BY <2>1, <2>2
<1>4. \A q \in Points \ ps : (q \in Found' <=> q \in Found) /\ (q \in Safe => q \in Safe')
  BY <1>1, <1>3, OthersStay
<1>5. \A q \in ps : q \notin Found'
  BY <1>1, <1>2 DEF Found, Held
<1>6. QED
  BY <1>4, <1>5 DEF Found, Safe

(* Every step is one of the abstract store's, or changes nothing of it.    *)
LEMMA StepImplements ==
  ASSUME TypeOK, FreshIds, DurableInv, AheadInv, [Next]_vars
  PROVE  [Abstract!Next]_(Abstract!vars)
<1>0. cfg' = cfg
  BY DEF Next, vars, Load, LoadMetaFails, EnsureCollection, Upsert, Delete,
         ReplaceIndex, ReplaceMeta, SaveFails, Crash
<1> SUFFICES ASSUME ~cfg.reads PROVE Abstract!Step \/ UNCHANGED <<Found, Safe, step # "idle">>
  BY <1>0 DEF Abstract!Next, Abstract!vars
<1>a. Found \subseteq Points /\ Found' \subseteq Points /\ Safe \subseteq Points /\ Safe' \subseteq Points
  BY DEF Found, Safe
<1>1. CASE Load
  <2>1. \A p \in Points : Held(p)' <=> Filed(p)
    BY <1>1 DEF Load, Held, Filed, Known, EmptyMeta, EmptyMap
  <2>2. Found' = Found
    BY <1>1, <2>1 DEF Load, Found
  <2>3. \A p \in Points : Held(p)' => Filed(p)' /\ meta'.ids[p] = fileMeta'[1].ids[p]
    BY <1>1, <2>1 DEF Load, Filed
  <2>4. \A p \in Points : Filed(p)' = Filed(p)
    BY <1>1 DEF Load, Filed
  <2>5. Safe = Points /\ Safe' = Points
    BY <1>1, <2>1, <2>3, <2>4 DEF Load, Safe, SafePoint
  <2>6. QED
    BY <1>1, <2>2, <2>5 DEF Load
<1>2. CASE LoadMetaFails
  BY <1>2 DEF LoadMetaFails
<1>3. CASE EnsureCollection
  <2>1. \A p \in Points : ~Filed(p) /\ ~Filed(p)' /\ ~Held(p)'
    BY <1>3 DEF EnsureCollection, Filed, Held
  <2>2. Found = {} /\ Found' = {} /\ Safe' = Points
    BY <1>3, <2>1 DEF EnsureCollection, Found, Safe, SafePoint
  <2>3. Abstract!Ensure
    BY <1>3, <1>a, <2>2 DEF EnsureCollection, Abstract!Ensure, Abstract!Begin, Abstract!Risks
  <2>4. QED
    BY <2>3 DEF Abstract!Step
<1>4. ASSUME NEW p \in Points, Upsert(p) PROVE Abstract!Step
  <2>1. step = "idle" /\ step' = "write"
    BY <1>4 DEF Upsert
  <2>2. Abstract!Upsert(p)
    BY <1>4, <1>a, <2>1, UpsertAbstract DEF Abstract!Upsert, Abstract!Begin, Abstract!Risks
  <2>3. QED
    BY <2>2 DEF Abstract!Step
<1>5. ASSUME NEW ps \in SUBSET Points, Delete(ps) PROVE Abstract!Step
  <2>1. step = "idle" /\ step' = "write"
    BY <1>5 DEF Delete
  <2>2. Abstract!Delete(ps)
    BY <1>5, <1>a, <2>1, DeleteAbstract DEF Abstract!Delete, Abstract!Begin, Abstract!Risks
  <2>3. QED
    BY <2>2 DEF Abstract!Step
<1>6. CASE ReplaceIndex
  <2>1. /\ step = "write" /\ step' = "half" /\ loaded /\ fileIndex' = <<index>>
        /\ UNCHANGED <<loaded, index, meta, fileMeta>>
    BY <1>6 DEF ReplaceIndex, DurableInv
  <2>2. fileIndex'[1] = index /\ fileIndex' # NoFile
    BY <2>1 DEF NoFile
  <2>3. \A q \in Points : Held(q)' = Held(q)
    BY <2>1 DEF Held, Known
  <2>4. ASSUME NEW q \in Safe PROVE q \in Safe'
    <3>1. CASE Held(q)
      <4>1. Filed(q) /\ meta.ids[q] = fileMeta[1].ids[q]
        BY <2>1, <2>4, <3>1 DEF Safe, SafePoint
      <4>2. Filed(q)'
        BY <2>1, <2>2, <3>1, <4>1 DEF Filed, Held
      <4>3. QED
        BY <1>a, <2>1, <2>3, <3>1, <4>1, <4>2 DEF Safe, SafePoint
    <3>2. CASE ~Held(q)
      <4>1. ~Filed(q)'
        BY <2>1, <2>2, <3>2 DEF Filed, Held, AheadInv, Agrees
      <4>2. QED
        BY <1>a, <2>1, <2>3, <3>2, <4>1 DEF Safe, SafePoint
    <3>3. QED
      BY <3>1, <3>2
  <2>5. Found' = Found
    BY <2>1, <2>3 DEF Found
  <2>6. Abstract!Write
    BY <1>a, <2>1, <2>4, <2>5 DEF Abstract!Write, Abstract!Risks
  <2>7. QED
    BY <2>6 DEF Abstract!Step
<1>7. CASE ReplaceMeta
  <2>1. /\ step = "half" /\ step' = "idle" /\ loaded /\ fileIndex = <<index>> /\ fileMeta' = <<meta>>
        /\ UNCHANGED <<loaded, index, meta, fileIndex>>
    BY <1>7 DEF ReplaceMeta, DurableInv
  <2>2. /\ fileIndex'[1] = index /\ fileIndex' # NoFile
        /\ fileMeta'[1] = meta /\ fileMeta' # NoFile
    BY <2>1 DEF NoFile
  <2>3. \A q \in Points : Held(q)' = Held(q) /\ Filed(q)' = Held(q)
    BY <2>1, <2>2 DEF Held, Filed, Known
  <2>4. Found' = Found /\ Safe' = Points
    BY <2>1, <2>2, <2>3 DEF Found, Safe, SafePoint
  <2>5. Abstract!Return
    BY <2>1, <2>4 DEF Abstract!Return
  <2>6. QED
    BY <2>5 DEF Abstract!Step
<1>8. CASE SaveFails
  <2>1. /\ step # "idle" /\ step' = "idle"
        /\ UNCHANGED <<loaded, index, meta, fileIndex, fileMeta>>
    BY <1>8 DEF SaveFails
  <2>2. \A q \in Points : Held(q)' = Held(q) /\ Filed(q)' = Filed(q)
    BY <2>1 DEF Held, Filed, Known
  <2>3. Found' = Found /\ Safe' = Safe
    BY <2>1, <2>2 DEF Found, Safe, SafePoint
  <2>4. Abstract!Raise
    BY <1>a, <2>1, <2>3 DEF Abstract!Raise, Abstract!Risks
  <2>5. QED
    BY <2>4 DEF Abstract!Step
<1>9. CASE Crash
  <2>1. ~loaded' /\ step' = "idle" /\ UNCHANGED <<fileIndex, fileMeta>>
    BY <1>9 DEF Crash
  <2>2. \A q \in Points : Filed(q)' = Filed(q)
    BY <2>1 DEF Filed
  <2>3. Safe' = Points /\ \A q \in Safe : q \in Found' <=> q \in Found
    BY <2>1, <2>2 DEF Found, Safe, SafePoint
  <2>4. Abstract!Restart
    BY <1>a, <2>1, <2>3 DEF Abstract!Restart
  <2>5. QED
    BY <2>4 DEF Abstract!Step
<1>10. CASE UNCHANGED vars
  <2>1. UNCHANGED <<loaded, index, meta, fileIndex, fileMeta, step>>
    BY <1>10 DEF vars
  <2>2. \A q \in Points : Held(q)' = Held(q) /\ Filed(q)' = Filed(q)
    BY <2>1 DEF Held, Filed, Known
  <2>3. QED
    BY <2>1, <2>2 DEF Found, Safe, SafePoint
<1>11. QED
  BY <1>1, <1>2, <1>3, <1>4, <1>5, <1>6, <1>7, <1>8, <1>9, <1>10 DEF Next

(***************************************************************************)
(* The collection with its two files implements the abstract store: a call *)
(* changes its own points at once, and once a save has returned a restart  *)
(* brings back every point that no later call names, found or not found.   *)
(***************************************************************************)
THEOREM RefinesVectorStore == Spec => ImplementsVectorStore
<1>1. Init => Abstract!Init /\ DurableInv /\ AheadInv
  <2>1. Init => Found = {} /\ Safe = Points
    BY DEF Init, Found, Safe, SafePoint, Filed
  <2>2. QED
    BY <2>1 DEF Init, Abstract!Init, DurableInv, AheadInv
<1>2. TypeOK /\ FreshIds /\ DurableInv /\ [Next]_vars => DurableInv'
  BY DurableInvInductive
<1>3. TypeOK /\ FreshIds /\ DurableInv /\ AheadInv /\ [Next]_vars => AheadInv'
  BY AheadInvInductive
<1>4. TypeOK /\ FreshIds /\ DurableInv /\ AheadInv /\ [Next]_vars => [Abstract!Next]_(Abstract!vars)
  BY StepImplements
<1>5. QED
  BY <1>1, <1>2, <1>3, <1>4, FaissTypeCorrect, FreshIdsHold, PTL
  DEF Spec, ImplementsVectorStore, Abstract!Spec

=============================================================================
