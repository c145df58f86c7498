--------------------------- MODULE LocalMetadata ---------------------------
(***************************************************************************)
(* The metadata manager (backends/metadata/local.py): a prompt index and a *)
(* map of sizes and access times, each saved to a JSON file of its own,    *)
(* and the eviction that is planned on them (service/eviction.py).  Every  *)
(* operation runs under the lock; between the two saves of one operation   *)
(* the process may end, and either save may raise.                         *)
(***************************************************************************)
EXTENDS Naturals, Sequences, FiniteSets, FiniteSetsExt, SequencesExt

CONSTANTS Ids,       \* cache ids; each is fresh (uuid4) when it is registered
          Entry,     \* Entry[c]: the cache_type, prompt and size_mb c is registered with
          Default,   \* the cache_type of approximate reuse
          MaxTime    \* bounds the clock

Types   == {Entry[c].type : c \in Ids} \cup {Default}
Prompts == {Entry[c].prompt : c \in Ids}
NoId == "none"

ASSUME MetadataAssumption ==
  /\ IsFiniteSet(Ids) /\ NoId \notin Ids
  /\ \A c \in Ids : Entry[c].size \in Nat
  /\ MaxTime \in Nat

VARIABLES flushes,    \* flush_on_record_access
          index,      \* index[ct]: the ids of a cache_type, in insertion order
          meta,       \* the metadata, in insertion order: id and last_access_time
          diskIndex,  \* prompt_index.json
          diskMeta,   \* cache_meta.json
          dirty,      \* _meta_dirty
          op,         \* the operation that holds the lock, and what it has still to save
          clock,      \* time.time()
          status,     \* history: what the callers know of c
          behind      \* history: the last save of the metadata raised

disk == <<diskIndex, diskMeta>>
vars == <<flushes, index, meta, diskIndex, diskMeta, dirty, op, clock, status, behind>>

Op(c, goal, todo) == [id |-> c, goal |-> goal, todo |-> todo]
NoOp == Op(NoId, "none", "nothing")

MetaIds(m) == {m[i].id : i \in DOMAIN m}
IndexIds(x) == UNION {Range(x[ct]) : ct \in Types}

(* dict.pop: an id is once in its bucket and once in the metadata.         *)
Pop(m, c) == RemoveFirstMatch(m, LAMBDA e : e.id = c)

Init ==
  /\ flushes \in BOOLEAN
  /\ index = [ct \in Types |-> <<>>] /\ meta = <<>>
  /\ diskIndex = index /\ diskMeta = meta
  /\ dirty = FALSE /\ op = NoOp /\ clock = 0
  /\ status = [c \in Ids |-> "new"]
  /\ behind = FALSE

(* Two calls may read the same time.                                       *)
Ticks == clock' \in {clock, clock + 1} /\ clock' <= MaxTime

-----------------------------------------------------------------------------
RegisterCache(c) ==
  /\ op = NoOp /\ status[c] = "new"
  /\ Ticks
  /\ index' = [index EXCEPT ![Entry[c].type] = Append(@, c)]
  /\ meta' = Append(meta, [id |-> c, last |-> clock'])
  /\ status' = [status EXCEPT ![c] = "cut"]
  /\ op' = Op(c, "live", "index")
  /\ UNCHANGED <<flushes, disk, dirty, behind>>

(* Mutant: the bucket is sought through the metadata only.                 *)
RemoveUnscanned(c) ==
  /\ op = NoOp /\ status[c] # "new"
  /\ meta' = Pop(meta, c)
  /\ index' = IF c \in MetaIds(meta) THEN [index EXCEPT ![Entry[c].type] = RemoveFirst(@, c)] ELSE index
  /\ status' = [status EXCEPT ![c] = "cut"]
  /\ op' = Op(c, "gone", "index")
  /\ UNCHANGED <<flushes, disk, dirty, clock, behind>>

(* An id without metadata is sought in every bucket.                       *)
RemoveCache(c) ==
  /\ op = NoOp /\ status[c] # "new"
  /\ meta' = Pop(meta, c)
  /\ index' = IF c \in MetaIds(meta) THEN [index EXCEPT ![Entry[c].type] = RemoveFirst(@, c)]
              ELSE [ct \in Types |-> RemoveFirst(index[ct], c)]
  /\ status' = [status EXCEPT ![c] = "cut"]
  /\ op' = Op(c, "gone", "index")
  /\ UNCHANGED <<flushes, disk, dirty, clock, behind>>

Touched(c) == [i \in DOMAIN meta |-> IF meta[i].id = c THEN [meta[i] EXCEPT !.last = clock'] ELSE meta[i]]

(* Mutant: a deferred write is forgotten.                                  *)
RecordAccessUnmarked(c) ==
  /\ op = NoOp /\ c \in MetaIds(meta)
  /\ Ticks
  /\ meta' = Touched(c)
  /\ op' = IF flushes THEN Op(NoId, "touched", "meta") ELSE op
  /\ UNCHANGED <<flushes, index, disk, dirty, status, behind>>

(* An unknown id is no access; a known one is saved now or marked.         *)
RecordAccess(c) ==
  /\ op = NoOp /\ c \in MetaIds(meta)
  /\ Ticks
  /\ meta' = Touched(c)
  /\ IF flushes THEN op' = Op(NoId, "touched", "meta") /\ dirty' = dirty
                ELSE op' = op /\ dirty' = TRUE
  /\ UNCHANGED <<flushes, index, disk, status, behind>>

(* flush, and shutdown, which flushes.                                     *)
Flush ==
  /\ op = NoOp /\ dirty
  /\ op' = Op(NoId, "touched", "meta")
  /\ UNCHANGED <<flushes, index, meta, disk, dirty, clock, status, behind>>

-----------------------------------------------------------------------------
SaveIndex ==
  /\ op.todo = "index"
  /\ diskIndex' = index
  /\ op' = [op EXCEPT !.todo = "meta"]
  /\ UNCHANGED <<flushes, index, meta, diskMeta, dirty, clock, status, behind>>

SaveMeta ==
  /\ op.todo = "meta"
  /\ diskMeta' = meta
  /\ dirty' = FALSE /\ behind' = FALSE
  /\ status' = IF op.id = NoId THEN status ELSE [status EXCEPT ![op.id] = op.goal]
  /\ op' = NoOp
  /\ UNCHANGED <<flushes, index, meta, diskIndex, clock>>

(* The operation raises with what it has changed in memory.                *)
SaveRaises ==
  /\ op # NoOp
  /\ op' = NoOp /\ behind' = TRUE
  /\ UNCHANGED <<flushes, index, meta, disk, dirty, clock, status>>

(* The process ends; the next one loads both files.                        *)
Restart ==
  /\ index' = diskIndex /\ meta' = diskMeta
  /\ dirty' = FALSE /\ behind' = FALSE /\ op' = NoOp
  /\ UNCHANGED <<flushes, disk, clock, status>>

Next ==
  \/ \E c \in Ids : RegisterCache(c) \/ RemoveCache(c) \/ RecordAccess(c)
  \/ Flush \/ SaveIndex \/ SaveMeta \/ SaveRaises \/ Restart

Spec == Init /\ [][Next]_vars

-----------------------------------------------------------------------------
(* lookup_prompt: the earliest entry of a prompt, in one bucket, or in the *)
(* default bucket first and then in some other.                            *)
Scan(ct, p) ==
  LET first == SelectInSeq(index[ct], LAMBDA c : Entry[c].prompt = p)
  IN  IF first = 0 THEN NoId ELSE index[ct][first]

LookupPrompt(p) ==
  IF Scan(Default, p) # NoId THEN {Scan(Default, p)}
  ELSE LET found == {Scan(ct, p) : ct \in Types} \ {NoId}
       IN  IF found = {} THEN {NoId} ELSE found

Size(c)  == Entry[c].size
Total(S) == MapThenSumSet(Size, S)

(* Mutant: the victims are taken in the order of insertion.                *)
ByInsertion == [i \in DOMAIN meta |-> meta[i].id]

(* sorted is stable: equal times keep the order of insertion.              *)
ByAccess ==
  LET Before(i, j) == \/ meta[i].last < meta[j].last
                      \/ meta[i].last = meta[j].last /\ i < j
      Place(i) == Cardinality({j \in DOMAIN meta : Before(j, i)}) + 1
  IN  [n \in DOMAIN meta |-> meta[CHOOSE i \in DOMAIN meta : Place(i) = n].id]

(* _accumulate: ids in order until enough is freed.                        *)
Accumulate(ids, need) ==
  LET Freed(n) == Total({ids[i] : i \in 1..n})
      enough == {n \in 1..Len(ids) : Freed(n) >= need}
  IN  IF need <= 0 THEN <<>> ELSE IF enough = {} THEN ids ELSE SubSeq(ids, 1, Min(enough))

LRUEviction(need) == Accumulate(ByAccess, need)

PlanEviction(required, limit) ==
  LET current == Total(MetaIds(meta))
  IN  IF current + required <= limit THEN <<>> ELSE LRUEviction(current + required - limit)

-----------------------------------------------------------------------------
Known(c, x, m) == c \in IndexIds(x) /\ c \in MetaIds(m)
Unknown(c, x, m) == c \notin IndexIds(x) /\ c \notin MetaIds(m)

(* What a registration or a removal that returned has done is done in the  *)
(* index, in the bucket of its type, and in the metadata, in memory and in *)
(* both files: through failed operations on other ids, crashes between the *)
(* two saves, and retries of a removal that failed.  A lookup finds every  *)
(* prompt of a live entry and never a removed one.                         *)
ReturnedIsDurable ==
  /\ \A c \in Ids, ct \in Types : c \in Range(index[ct]) => ct = Entry[c].type
  /\ \A c \in Ids :
       /\ status[c] = "live" => Known(c, index, meta) /\ Known(c, diskIndex, diskMeta)
       /\ status[c] \in {"gone", "new"} => Unknown(c, index, meta) /\ Unknown(c, diskIndex, diskMeta)
  /\ \A p \in Prompts : \A c \in LookupPrompt(p) :
       IF c = NoId THEN \A d \in Ids : status[d] = "live" => Entry[d].prompt # p
       ELSE status[c] \in {"live", "cut"}

(* When no operation is under way, nothing is marked dirty and the last    *)
(* save of the metadata did not raise, a crash loses no access: deferred   *)
(* writes are marked, also across operations that save for other reasons.  *)
CleanMeansSaved == op = NoOp /\ ~dirty /\ ~behind => diskMeta = meta

(* A plan frees what is missing, or everything there is; without its last  *)
(* victim it would not; and no entry is spared that was accessed before a  *)
(* victim, whatever was accessed, reloaded or removed before.              *)
PlanFits(required, limit) ==
  LET plan    == PlanEviction(required, limit)
      victims == Range(plan)
      AccessTime(c) == LET i == CHOOSE j \in DOMAIN meta : meta[j].id = c IN meta[i].last
  IN  /\ Total(MetaIds(meta)) - Total(victims) + required <= limit \/ victims = MetaIds(meta)
      /\ plan # <<>> => Total(victims \ {plan[Len(plan)]}) + limit < Total(MetaIds(meta)) + required
      /\ \A c \in victims, d \in MetaIds(meta) \ victims : AccessTime(c) <= AccessTime(d)

(* So are the plans for every write and limit around the sizes in use.     *)
PlanFitsLRU == \A required \in 0..2, limit \in 0..4 : PlanFits(required, limit)
=============================================================================
