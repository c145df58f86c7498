--------------------------- MODULE ApproxStrategy ---------------------------
(***************************************************************************)
(* VideoBasedApproximateCache: the saves and lookups of one strategy over  *)
(* its three stores.  A save writes latents, one key per step, then the    *)
(* vector, then the metadata; when a call raises it undoes what it wrote,  *)
(* in its own order.  A lookup searches the vectors, picks a step to       *)
(* resume from, reads that step's latents, and evicts the entry when they  *)
(* are gone.  Every call on a store is a step of its own: saves and        *)
(* lookups run on several threads and share no lock.                       *)
(*                                                                         *)
(* A save writes under a fresh cache id; the two are the same here.        *)
(***************************************************************************)
EXTENDS Naturals, FiniteSetsExt

CONSTANTS Saves,         \* saves, and the cache ids they generate
          Lookups,
          Steps,         \* denoise steps that may be snapshotted
          MaxSkipStep,   \* max_skip_step
          Tiers,         \* skip_step_tau_table: skip step -> least score
          Scores,        \* rerank scores at or above the threshold
          Configs        \* what a run ranges over

Stores == {"kv", "vector", "metadata"}

ConfigType == [faults    : SUBSET Stores, \* whose calls may raise
               effects   : BOOLEAN,       \* a call that raises may have taken effect
               loses     : BOOLEAN,       \* the KV store may lose keys
               crashes   : BOOLEAN,
               staircase : BOOLEAN]       \* rerank and staircase_skip_enabled

ASSUME StrategyAssumption ==
  /\ Steps \subseteq Nat \ {0} /\ IsFiniteSet(Steps)
  /\ MaxSkipStep \in Nat \ {0}
  /\ DOMAIN Tiers \subseteq Nat /\ IsFiniteSet(DOMAIN Tiers)
  /\ Scores \subseteq Nat /\ \A k \in DOMAIN Tiers : Tiers[k] \in Nat
  /\ Configs \subseteq ConfigType

VARIABLES cfg,
          kv,     \* keys in the KV store: cache id and step
          vector, \* cache ids in the vector collection
          meta,   \* cache ids in the metadata store
          pc,     \* where each save stands
          steps,  \* the steps of its valid_latents
          got,    \* saved_steps: the steps whose put returned
          todo,   \* the latents still to be removed by the cleanup under way
          err,    \* a call of its cleanup raised
          lk,     \* where each lookup stands
          sel,    \* the cache id, step and score it selected
          lost    \* history: cache ids of which the KV store lost a key

saveVars   == <<pc, steps, got, todo, err>>
lookupVars == <<lk, sel>>
vars == <<cfg, kv, vector, meta, saveVars, lookupVars, lost>>

InCleanup  == {"tidy", "drop", "skip", "rbkv"}
SaveEnded  == {"done", "skipped", "failed", "dead"}
SavePhases == {"idle", "put", "written", "upserted", "rbvector", "rbmeta"} \cup InCleanup \cup SaveEnded
LookupEnded == {"hit", "miss", "raised", "dead"}

Latents(s) == {s} \X steps[s]

Init ==
  /\ cfg \in Configs
  /\ kv = {} /\ vector = {} /\ meta = {}
  /\ pc = [s \in Saves |-> "idle"]
  /\ steps = [s \in Saves |-> {}]
  /\ got = [s \in Saves |-> {}]
  /\ todo = [s \in Saves |-> {}]
  /\ err = [s \in Saves |-> FALSE]
  /\ lk = [l \in Lookups |-> "idle"]
  /\ sel = [l \in Lookups |-> <<>>]
  /\ lost = {}

Goto(s, p) == pc' = [pc EXCEPT ![s] = p]

(* What a store may be after a call on it raised.                          *)
AfterError(store, old, new) ==
  IF store \in cfg.faults THEN {old} \cup (IF cfg.effects THEN {new} ELSE {}) ELSE {}

-----------------------------------------------------------------------------
(* save: a prompt and at least one latent that landed.                     *)
SaveCall(s) ==
  /\ pc[s] = "idle"
  /\ \E S \in (SUBSET Steps) \ {{}} : steps' = [steps EXCEPT ![s] = S]
  /\ Goto(s, "put")
  /\ UNCHANGED <<cfg, kv, vector, meta, got, todo, err, lookupVars, lost>>

NextStep(s) == Min(steps[s] \ got[s])

(* Latents are put in the order of their steps.                            *)
Put(s) ==
  /\ pc[s] = "put"
  /\ kv' = kv \cup {<<s, NextStep(s)>>}
  /\ got' = [got EXCEPT ![s] = @ \cup {NextStep(s)}]
  /\ IF got'[s] = steps[s] THEN Goto(s, "written") ELSE UNCHANGED pc
  /\ UNCHANGED <<cfg, vector, meta, steps, todo, err, lookupVars, lost>>

(* A removal of all of saved_steps begins.                                 *)
Cleanup(s, phase) ==
  /\ Goto(s, phase)
  /\ todo' = [todo EXCEPT ![s] = got[s]]

(* A put that raises is not in saved_steps, and so not removed.            *)
PutFails(s) ==
  /\ pc[s] = "put"
  /\ kv' \in AfterError("kv", kv, kv \cup {<<s, NextStep(s)>>})
  /\ Cleanup(s, "tidy")
  /\ UNCHANGED <<cfg, vector, meta, steps, got, err, lookupVars, lost>>

(* No vector store, no frames or no video encoder: cleaned up outside the  *)
(* try.  No embedding: cleaned up within it.                               *)
SkipSave(s) ==
  /\ pc[s] = "written"
  /\ \E phase \in {"drop", "skip"} : Cleanup(s, phase)
  /\ UNCHANGED <<cfg, kv, vector, meta, steps, got, err, lookupVars, lost>>

(* The encoder or ensure_collection raises.                                *)
EncodeFails(s) ==
  /\ pc[s] = "written" /\ cfg.faults # {}
  /\ Cleanup(s, "rbkv")
  /\ UNCHANGED <<cfg, kv, vector, meta, steps, got, err, lookupVars, lost>>

(* Mutant: does not wait for the latents.                                  *)
UpsertTooSoon(s) ==
  /\ pc[s] \in {"put", "written"}
  /\ vector' = vector \cup {s}
  /\ Goto(s, "upserted")
  /\ UNCHANGED <<cfg, kv, meta, steps, got, todo, err, lookupVars, lost>>

Upsert(s) ==
  /\ pc[s] = "written"
  /\ vector' = vector \cup {s}
  /\ Goto(s, "upserted")
  /\ UNCHANGED <<cfg, kv, meta, steps, got, todo, err, lookupVars, lost>>

(* vector_written is still False: the rollback leaves the vector alone.    *)
UpsertFails(s) ==
  /\ pc[s] = "written"
  /\ vector' \in AfterError("vector", vector, vector \cup {s})
  /\ Cleanup(s, "rbkv")
  /\ UNCHANGED <<cfg, kv, meta, steps, got, err, lookupVars, lost>>

Register(s) ==
  /\ pc[s] = "upserted"
  /\ meta' = meta \cup {s}
  /\ Goto(s, "done")
  /\ UNCHANGED <<cfg, kv, vector, steps, got, todo, err, lookupVars, lost>>

(* Mutant: rolls back the latents only.                                    *)
RegisterFailsKeepsVector(s) ==
  /\ pc[s] = "upserted"
  /\ meta' \in AfterError("metadata", meta, meta \cup {s})
  /\ Cleanup(s, "rbkv")
  /\ UNCHANGED <<cfg, kv, vector, steps, got, err, lookupVars, lost>>

RegisterFails(s) ==
  /\ pc[s] = "upserted"
  /\ meta' \in AfterError("metadata", meta, meta \cup {s})
  /\ Goto(s, "rbvector")
  /\ UNCHANGED <<cfg, kv, vector, steps, got, todo, err, lookupVars, lost>>

-----------------------------------------------------------------------------
(* _rollback_cache_entry: vector, metadata, latents; an error in one does  *)
(* not keep it from the others.                                            *)
RollbackVector(s) ==
  /\ pc[s] = "rbvector"
  /\ \/ vector' = vector \ {s} /\ UNCHANGED err
     \/ vector' \in AfterError("vector", vector, vector \ {s}) /\ err' = [err EXCEPT ![s] = TRUE]
  /\ Goto(s, "rbmeta")
  /\ UNCHANGED <<cfg, kv, meta, steps, got, todo, lookupVars, lost>>

RollbackMeta(s) ==
  /\ pc[s] = "rbmeta"
  /\ \/ meta' = meta \ {s} /\ UNCHANGED err
     \/ meta' \in AfterError("metadata", meta, meta \ {s}) /\ err' = [err EXCEPT ![s] = TRUE]
  /\ Cleanup(s, "rbkv")
  /\ UNCHANGED <<cfg, kv, vector, steps, got, lookupVars, lost>>

(* _remove_saved_latents tries every step.                                 *)
RemoveLatent(s) ==
  LET k == Min(todo[s]) IN
  /\ pc[s] \in InCleanup /\ todo[s] # {}
  /\ \/ kv' = kv \ {<<s, k>>} /\ UNCHANGED err
     \/ kv' \in AfterError("kv", kv, kv \ {<<s, k>>}) /\ err' = [err EXCEPT ![s] = TRUE]
  /\ todo' = [todo EXCEPT ![s] = @ \ {k}]
  /\ UNCHANGED <<cfg, vector, meta, pc, steps, got, lookupVars, lost>>

(* The save returns or raises.                                             *)
CleanupEnds(s) ==
  /\ pc[s] \in InCleanup /\ todo[s] = {}
  /\ pc[s] = "skip" => ~err[s]
  /\ Goto(s, IF pc[s] \in {"drop", "skip"} THEN "skipped" ELSE "failed")
  /\ UNCHANGED <<cfg, kv, vector, meta, steps, got, todo, err, lookupVars, lost>>

(* A cleanup within the try raises, and the rollback cleans up once more.  *)
CleanupRetried(s) ==
  /\ pc[s] = "skip" /\ todo[s] = {} /\ err[s]
  /\ Cleanup(s, "rbkv")
  /\ err' = [err EXCEPT ![s] = FALSE]
  /\ UNCHANGED <<cfg, kv, vector, meta, steps, got, lookupVars, lost>>

-----------------------------------------------------------------------------
(* _select_k_by_score and _determine_skip_step: the steps a donor may be   *)
(* resumed from.                                                           *)
Qualifying(score) == {k \in DOMAIN Tiers : score >= Tiers[k]}

(* Mutant: the lowest qualifying tier, as a first match in table order.    *)
CapFirstTier(score) ==
  IF cfg.staircase /\ Qualifying(score) # {}
  THEN Min({MaxSkipStep, Min(Qualifying(score))})
  ELSE MaxSkipStep

Cap(score) ==
  IF cfg.staircase /\ Qualifying(score) # {}
  THEN Min({MaxSkipStep, Max(Qualifying(score))})
  ELSE MaxSkipStep

InReach(s, score) == {k \in got[s] : k <= Cap(score)}

(* Without the staircase the score decides nothing.                        *)
Relevant == IF cfg.staircase THEN Scores ELSE {0}

At(l, p) == lk' = [lk EXCEPT ![l] = p]

(* Mutant: a skip step of 0 is not a miss.                                 *)
SearchZero(l) ==
  /\ lk[l] = "idle"
  /\ \E s \in vector, score \in Relevant :
       sel' = [sel EXCEPT ![l] = [id |-> s, step |-> Max(InReach(s, score) \cup {0}), score |-> score]]
  /\ At(l, "found")
  /\ UNCHANGED <<cfg, kv, vector, meta, saveVars, lost>>

(* lookup: the best candidate passed its threshold, with this score.       *)
Search(l) ==
  /\ lk[l] = "idle"
  /\ \E s \in vector, score \in Relevant :
       /\ InReach(s, score) # {}
       /\ sel' = [sel EXCEPT ![l] = [id |-> s, step |-> Max(InReach(s, score)), score |-> score]]
  /\ At(l, "found")
  /\ UNCHANGED <<cfg, kv, vector, meta, saveVars, lost>>

(* Nothing found, below the threshold, or no step in reach; a search or a  *)
(* reranker that raises is a miss to the caller too.                       *)
SearchMisses(l) ==
  /\ lk[l] = "idle"
  /\ At(l, "miss")
  /\ UNCHANGED <<cfg, kv, vector, meta, saveVars, sel, lost>>

Selected(l) == <<sel[l].id, sel[l].step>>

LoadHit(l) ==
  /\ lk[l] = "found" /\ Selected(l) \in kv
  /\ At(l, "loaded")
  /\ UNCHANGED <<cfg, kv, vector, meta, saveVars, sel, lost>>

(* Mutant: a read that raises is taken for a missing key.                  *)
LoadMissOrError(l) ==
  /\ lk[l] = "found" /\ (Selected(l) \notin kv \/ "kv" \in cfg.faults)
  /\ At(l, "evictvector")
  /\ UNCHANGED <<cfg, kv, vector, meta, saveVars, sel, lost>>

LoadMiss(l) ==
  /\ lk[l] = "found" /\ Selected(l) \notin kv
  /\ At(l, "evictvector")
  /\ UNCHANGED <<cfg, kv, vector, meta, saveVars, sel, lost>>

(* get raises, and so does lookup: the entry is kept.                      *)
LoadFails(l) ==
  /\ lk[l] = "found" /\ "kv" \in cfg.faults
  /\ At(l, "raised")
  /\ UNCHANGED <<cfg, kv, vector, meta, saveVars, sel, lost>>

(* _lazy_evict_stale_entry: the vector, then the metadata, errors ignored. *)
EvictVector(l) ==
  /\ lk[l] = "evictvector"
  /\ vector' \in {vector \ {sel[l].id}} \cup AfterError("vector", vector, vector \ {sel[l].id})
  /\ At(l, "evictmeta")
  /\ UNCHANGED <<cfg, kv, meta, saveVars, sel, lost>>

EvictMeta(l) ==
  /\ lk[l] = "evictmeta"
  /\ meta' \in {meta \ {sel[l].id}} \cup AfterError("metadata", meta, meta \ {sel[l].id})
  /\ At(l, "miss")
  /\ UNCHANGED <<cfg, kv, vector, saveVars, sel, lost>>

(* record_access is outside every try: what it raises takes the hit away.  *)
RecordAccess(l) ==
  /\ lk[l] = "loaded"
  /\ At(l, "hit") \/ ("metadata" \in cfg.faults /\ At(l, "raised"))
  /\ UNCHANGED <<cfg, kv, vector, meta, saveVars, sel, lost>>

-----------------------------------------------------------------------------
(* The KV store drops a key by itself, as when its memory pool is flushed. *)
Lose(s, k) ==
  /\ cfg.loses
  /\ <<s, k>> \in kv
  /\ kv' = kv \ {<<s, k>>}
  /\ lost' = lost \cup {s}
  /\ UNCHANGED <<cfg, vector, meta, saveVars, lookupVars>>

(* The process dies; the stores keep what they have.                       *)
Crash ==
  /\ cfg.crashes
  /\ pc' = [s \in Saves |-> IF pc[s] \in {"idle"} \cup SaveEnded THEN pc[s] ELSE "dead"]
  /\ lk' = [l \in Lookups |-> IF lk[l] \in {"idle"} \cup LookupEnded THEN lk[l] ELSE "dead"]
  /\ pc' # pc \/ lk' # lk
  /\ UNCHANGED <<cfg, kv, vector, meta, steps, got, todo, err, sel, lost>>

SaveStep(s) ==
  \/ SaveCall(s) \/ Put(s) \/ PutFails(s) \/ SkipSave(s) \/ EncodeFails(s)
  \/ Upsert(s) \/ UpsertFails(s) \/ Register(s) \/ RegisterFails(s)
  \/ RollbackVector(s) \/ RollbackMeta(s)
  \/ RemoveLatent(s) \/ CleanupEnds(s) \/ CleanupRetried(s)

LookupStep(l) ==
  \/ Search(l) \/ SearchMisses(l) \/ LoadHit(l) \/ LoadMiss(l) \/ LoadFails(l)
  \/ EvictVector(l) \/ EvictMeta(l) \/ RecordAccess(l)

Next ==
  \/ \E s \in Saves : SaveStep(s)
  \/ \E l \in Lookups : LookupStep(l)
  \/ \E s \in Saves, k \in Steps : Lose(s, k)
  \/ Crash

Spec == Init /\ [][Next]_vars

-----------------------------------------------------------------------------
Selection == [id : Saves, step : Steps, score : Scores \cup {0}]

(* Every variable has its type.                                            *)
TypeOK ==
  /\ cfg \in Configs
  /\ kv \subseteq Saves \X Steps
  /\ vector \subseteq Saves /\ meta \subseteq Saves /\ lost \subseteq Saves
  /\ pc \in [Saves -> SavePhases]
  /\ steps \in [Saves -> SUBSET Steps]
  /\ got \in [Saves -> SUBSET Steps]
  /\ todo \in [Saves -> SUBSET Steps]
  /\ err \in [Saves -> BOOLEAN]
  /\ lk \in [Lookups -> {"idle", "found", "loaded", "evictvector", "evictmeta"} \cup LookupEnded]
  /\ sel \in [Lookups -> {<<>>} \cup Selection]

(* Nothing is left of a save that was given up and cleaned up after.       *)
NoTrace(s) == s \notin vector /\ s \notin meta /\ Latents(s) \cap kv = {}
GivenUp(s) == pc[s] \in {"skipped", "failed"} /\ ~err[s]

(* Where a call that raises had no effect, a save that fails or skips      *)
(* leaves nothing behind, whatever lookups do meanwhile, unless it said    *)
(* that its cleanup failed too.                                            *)
CleanFailure == ~cfg.effects => \A s \in Saves : GivenUp(s) => NoTrace(s)

(* An entry whose save returned stays whole in all three stores unless the *)
(* KV store loses a key: no lookup, rollback or crash takes it away.       *)
SavedIntact ==
  \A s \in Saves :
    pc[s] = "done" /\ s \notin lost => s \in vector /\ s \in meta /\ Latents(s) \subseteq kv

(* At every moment, also where a crash cuts a save or its rollback short,  *)
(* a vector has all its latents, so that no search finds an entry that     *)
(* cannot be loaded; only a lost key or a rollback that could not delete   *)
(* the vector makes one.                                                   *)
VectorBacked ==
  ~cfg.effects =>
    \A s \in vector : s \in lost \/ err[s] \/ (steps[s] # {} /\ Latents(s) \subseteq kv)

(* A lookup resumes from the deepest saved step that max_skip_step and,    *)
(* when the score reaches a tier, some reached tier allow.                 *)
DeepestAllowed ==
  \A l \in Lookups : lk[l] # "idle" /\ sel[l] # <<>> =>
    LET Reached == {t \in DOMAIN Tiers : Tiers[t] <= sel[l].score}
        Allowed(k) == /\ k <= MaxSkipStep
                      /\ cfg.staircase /\ Reached # {} => \E t \in Reached : k <= t
    IN  /\ sel[l].step \in steps[sel[l].id] /\ Allowed(sel[l].step)
        /\ \A k \in steps[sel[l].id] : Allowed(k) => k <= sel[l].step

-----------------------------------------------------------------------------
(* A claim of the docstrings that the code does not keep: "Saves are       *)
(* all-or-nothing" (strategy.py:202-203), so that a save that raised       *)
(* without an error of its rollback leaves nothing behind.                 *)
AllOrNothing == \A s \in Saves : GivenUp(s) => NoTrace(s)
=============================================================================
