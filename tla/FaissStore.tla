----------------------------- MODULE FaissStore -----------------------------
(***************************************************************************)
(* One collection of cacheseek.backends.vector.faiss.FAISSVectorStore: the *)
(* in-memory index and its metadata, the two files they are saved to, one  *)
(* os.replace after the other, and what a crash, a failed write or a       *)
(* failed read of the metadata leaves behind.  Operations hold one lock,   *)
(* so an operation is its change in memory followed by the steps of its    *)
(* save.                                                                   *)
(*                                                                         *)
(* A vector is known by the point it was computed for.                     *)
(***************************************************************************)
EXTENDS Naturals, FiniteSets, Functions

CONSTANTS Points,   \* cache ids
          MaxId,    \* bound on the int ids handed out
          Configs   \* the failures a run ranges over

ConfigType == [crashes : BOOLEAN, writes : BOOLEAN, reads : BOOLEAN]

ASSUME FaissAssumption == IsFiniteSet(Points) /\ MaxId \in Nat /\ Configs \subseteq ConfigType

VARIABLES cfg,       \* which failures happen: crashes, failed writes, failed metadata reads
          loaded,    \* the collection is in _indices
          index,     \* the vectors in memory: int id and the point each was computed for
          meta,      \* _metadata: id_map and next_id
          fileIndex, \* the .faiss file, <<index>> or NoFile
          fileMeta,  \* the .json file, <<meta>> or NoFile
          step,      \* "idle", "write" (tmp files), "half" (index replaced, metadata not)
          target,    \* the points of the upsert under way
          acked,     \* history: points whose upsert returned, not deleted since
          cut        \* history: points whose vector a crash left without metadata

vars == <<cfg, loaded, index, meta, fileIndex, fileMeta, step, target, acked, cut>>

NoFile == <<>>
EmptyMap  == [p \in {} |-> 0]
EmptyMeta == [ids |-> EmptyMap, next |-> 1]
Known     == DOMAIN meta.ids
Entry(i, p) == [id |-> i, of |-> p]

Init ==
  /\ cfg \in Configs
  /\ loaded = FALSE
  /\ index = {} /\ meta = EmptyMeta
  /\ fileIndex = NoFile /\ fileMeta = NoFile
  /\ step = "idle" /\ target = {}
  /\ acked = {} /\ cut = {}

-----------------------------------------------------------------------------
(* _load_index on first use.  A missing metadata file means none.          *)
Load ==
  /\ step = "idle" /\ ~loaded /\ fileIndex # NoFile
  /\ loaded' = TRUE
  /\ index' = fileIndex[1]
  /\ meta' = IF fileMeta = NoFile THEN EmptyMeta ELSE fileMeta[1]
  /\ UNCHANGED <<cfg, fileIndex, fileMeta, step, target, acked, cut>>

(* The index is cached before the metadata is read: a read that raises     *)
(* leaves the collection loaded, and without metadata.                     *)
LoadMetaFails ==
  /\ cfg.reads
  /\ step = "idle" /\ ~loaded /\ fileIndex # NoFile /\ fileMeta # NoFile
  /\ loaded' = TRUE
  /\ index' = fileIndex[1]
  /\ meta' = EmptyMeta
  /\ UNCHANGED <<cfg, fileIndex, fileMeta, step, target, acked, cut>>

(* ensure_collection, also from within upsert.                             *)
EnsureCollection ==
  /\ step = "idle" /\ ~loaded /\ fileIndex = NoFile
  /\ loaded' = TRUE
  /\ index' = {} /\ meta' = EmptyMeta
  /\ step' = "write"
  /\ UNCHANGED <<cfg, fileIndex, fileMeta, target, acked, cut>>

Without(ids) == {e \in index : e.id \notin ids}

(* Mutant: numbers a new point by the size of the map.                     *)
UpsertCountsIds(p) ==
  LET i == IF p \in Known THEN meta.ids[p] ELSE Cardinality(Known) + 1 IN
  /\ step = "idle" /\ loaded
  /\ i <= MaxId
  /\ index' = Without(IF p \in Known THEN {i} ELSE {}) \cup {Entry(i, p)}
  /\ meta' = [ids |-> [q \in Known \cup {p} |-> IF q = p THEN i ELSE meta.ids[q]],
              next |-> i + 1]
  /\ step' = "write" /\ target' = {p}
  /\ UNCHANGED <<cfg, loaded, fileIndex, fileMeta, acked, cut>>

(* Mutant: forgets to advance next_id.                                     *)
UpsertNoBump(p) ==
  LET i == IF p \in Known THEN meta.ids[p] ELSE meta.next IN
  /\ step = "idle" /\ loaded
  /\ i <= MaxId
  /\ index' = Without(IF p \in Known THEN {i} ELSE {}) \cup {Entry(i, p)}
  /\ meta' = [meta EXCEPT !.ids = [q \in Known \cup {p} |-> IF q = p THEN i ELSE meta.ids[q]]]
  /\ step' = "write" /\ target' = {p}
  /\ UNCHANGED <<cfg, loaded, fileIndex, fileMeta, acked, cut>>

(* upsert: a known point keeps its int id and loses its old vector, a new  *)
(* one takes next_id; what the index already holds under that id stays.    *)
Upsert(p) ==
  LET i == IF p \in Known THEN meta.ids[p] ELSE meta.next IN
  /\ step = "idle" /\ loaded
  /\ i <= MaxId
  /\ index' = Without(IF p \in Known THEN {i} ELSE {}) \cup {Entry(i, p)}
  /\ meta' = [ids |-> [q \in Known \cup {p} |-> IF q = p THEN i ELSE meta.ids[q]],
              next |-> IF p \in Known THEN meta.next ELSE i + 1]
  /\ step' = "write" /\ target' = {p}
  /\ UNCHANGED <<cfg, loaded, fileIndex, fileMeta, acked, cut>>

(* delete: no longer promised from here on, whatever its save does.        *)
Delete(ps) ==
  /\ step = "idle" /\ loaded
  /\ index' = Without({meta.ids[p] : p \in ps \cap Known})
  /\ meta' = [meta EXCEPT !.ids = Restrict(@, Known \ ps)]
  /\ step' = "write" /\ target' = {}
  /\ acked' = acked \ ps
  /\ UNCHANGED <<cfg, loaded, fileIndex, fileMeta, cut>>

-----------------------------------------------------------------------------
(* _save_index: both tmp files, then the index, then the metadata.         *)
ReplaceIndex ==
  /\ step = "write"
  /\ fileIndex' = <<index>>
  /\ step' = "half"
  /\ UNCHANGED <<cfg, loaded, index, meta, fileMeta, target, acked, cut>>

ReplaceMeta ==
  /\ step = "half"
  /\ fileMeta' = <<meta>>
  /\ step' = "idle" /\ target' = {}
  /\ acked' = acked \cup target
  /\ UNCHANGED <<cfg, loaded, index, meta, fileIndex, cut>>

(* A write or a replace raises: the caller sees the error, memory keeps    *)
(* the change.                                                             *)
SaveFails ==
  /\ cfg.writes
  /\ step # "idle"
  /\ step' = "idle" /\ target' = {}
  /\ UNCHANGED <<cfg, loaded, index, meta, fileIndex, fileMeta, acked, cut>>

(* The points whose vectors the two files do not relate to them.           *)
Unmapped ==
  LET ids == IF fileMeta = NoFile THEN EmptyMap ELSE fileMeta[1].ids
      vectors == IF fileIndex = NoFile THEN {} ELSE fileIndex[1]
  IN  {e.of : e \in {v \in vectors : ~(v.of \in DOMAIN ids /\ ids[v.of] = v.id)}}

(* The process dies; the files stay.                                       *)
Crash ==
  /\ cfg.crashes
  /\ loaded' = FALSE /\ index' = {} /\ meta' = EmptyMeta
  /\ step' = "idle" /\ target' = {}
  /\ cut' = cut \cup Unmapped
  /\ UNCHANGED <<cfg, fileIndex, fileMeta, acked>>

Next ==
  \/ Load \/ LoadMetaFails \/ EnsureCollection
  \/ \E p \in Points : Upsert(p)
  \/ \E ps \in SUBSET Points : Delete(ps)
  \/ ReplaceIndex \/ ReplaceMeta \/ SaveFails \/ Crash

Spec == Init /\ [][Next]_vars

-----------------------------------------------------------------------------
(* search: the points whose vectors are found, each with its vectors; an   *)
(* index entry no point maps to is skipped.                                *)
Hits == {h \in Points \X index : h[1] \in Known /\ meta.ids[h[1]] = h[2].id}

Vectors == [id : 1..MaxId, of : Points]
Metas   == [ids : UNION {[S -> 1..MaxId] : S \in SUBSET Points}, next : 1..(MaxId + 1)]
File(S) == {NoFile} \cup [1..1 -> S]

(* Every variable has its type.                                            *)
TypeOK ==
  /\ cfg \in Configs
  /\ loaded \in BOOLEAN
  /\ index \in SUBSET Vectors
  /\ meta \in Metas
  /\ fileIndex \in File(SUBSET Vectors)
  /\ fileMeta \in File(Metas)
  /\ step \in {"idle", "write", "half"}
  /\ target \in SUBSET Points /\ acked \in SUBSET Points /\ cut \in SUBSET Points

(* Two points never share an int id, and next_id is above all of them, in  *)
(* memory and in the file, through deletes, failed saves and crashes.      *)
MetaFresh(m) ==
  /\ \A p, q \in DOMAIN m.ids : m.ids[p] = m.ids[q] => p = q
  /\ \A p \in DOMAIN m.ids : m.ids[p] < m.next
FreshIds == MetaFresh(meta) /\ (fileMeta # NoFile => MetaFresh(fileMeta[1]))

(* Unless the metadata once failed to load: a point whose upsert returned  *)
(* stays in both files under one id, whatever happens to other points.     *)
Durable ==
  ~cfg.reads =>
    \A p \in acked :
      /\ fileIndex # NoFile /\ fileMeta # NoFile
      /\ p \in DOMAIN fileMeta[1].ids
      /\ Entry(fileMeta[1].ids[p], p) \in fileIndex[1]

(* Unless the metadata once failed to load: a hit scored on another        *)
(* point's vector can only come from a vector that a crash has orphaned.   *)
StrayVectorsCut ==
  ~cfg.reads => \A h \in Hits : h[2].of = h[1] \/ h[2].of \in cut

-----------------------------------------------------------------------------
(* A point's vector is in the index under the id the metadata gives it.    *)
Held(p) == p \in Known /\ Entry(meta.ids[p], p) \in index

(* A point is whole in the two files.                                      *)
Filed(p) ==
  /\ fileIndex # NoFile /\ fileMeta # NoFile
  /\ p \in DOMAIN fileMeta[1].ids
  /\ Entry(fileMeta[1].ids[p], p) \in fileIndex[1]

(* What a search can find.                                                 *)
Found == {p \in Points : IF loaded THEN Held(p) ELSE Filed(p)}

(* A restart would find of the point what memory holds of it.              *)
SafePoint(p) ==
  loaded => IF Held(p) THEN Filed(p) /\ meta.ids[p] = fileMeta[1].ids[p] ELSE ~Filed(p)
Safe == {p \in Points : SafePoint(p)}

Abstract == INSTANCE VectorStore WITH
  found <- Found, safe <- Safe, saving <- step # "idle", sound <- ~cfg.reads

(* Unless the metadata once failed to load: a call changes what is found   *)
(* of its own points and of no others; once a save has returned, a restart *)
(* at any step of any later save brings every point back as it was, except *)
(* those of the calls since.                                               *)
ImplementsVectorStore == Abstract!Spec
=============================================================================
