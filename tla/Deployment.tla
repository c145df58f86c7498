----------------------------- MODULE Deployment -----------------------------
(***************************************************************************)
(* A deployment from its launch to its requests: several processes on one  *)
(* host, each started by                                                   *)
(* examples/approximate_reuse/service/start_wan22_service.py or with a     *)
(* pipeline file of its own, each building its service with                *)
(* adapters/telefuser/cache_factory.py and its backends with               *)
(* service/connection.py, then serving requests: look the prompt up in     *)
(* Qdrant, read the hit's latents, hand the pipeline its latent_data,      *)
(* generate, save.                                                         *)
(*                                                                         *)
(* The launcher writes the pipeline file at one fixed path whatever the    *)
(* preset, and TeleFuser reads it later: two launches can cross.           *)
(*                                                                         *)
(* The key-value store is the local one, reduced to what a process finds   *)
(* in its index (seen) and what the index on disk lists (disk): each       *)
(* process saves its own whole index.  LocalFileKV has its detail, as      *)
(* ApproxStrategy has that of lookup and save and CacheService that of the *)
(* queue between them: here a request's save follows it in its thread.     *)
(***************************************************************************)
EXTENDS QdrantStore, TeleFuserAdapter

CONSTANTS Configs,      \* names of configurations
          Config,       \* what each sets: a record
          PresetsOf,    \* the presets a process is launched with
          OwnFiles,     \* the configurations it is started with otherwise
          Default,      \* CacheConfig()'s configuration: FAISS, no Qdrant
          MaxLaunches   \* bound: launches

ASSUME DeploymentAssumption ==
    /\ PresetsOf \in [Procs -> SUBSET Configs]
    /\ OwnFiles \in [Procs -> SUBSET Configs]
    /\ Default \in Configs
    /\ "empty" \notin Configs /\ MaxLaunches \in Nat
    /\ \A c \in Configs : Config[c].collection \in Colls /\ Config[c].dim \in 1..MaxDim
    /\ \A c \in Configs : Config[c].vector \in {"qdrant", "faiss"}

VARIABLES
    file,       \* the generated pipeline file
    phase,      \* how far each process's life got
    chosen,     \* the preset it was launched with
    cfg,        \* the configuration its factory loaded
    overtaken,  \* another launcher ever wrote the file between its write and load
    seen,       \* the ids its key-value store finds latents for
    disk,       \* per directory, the ids the saved index lists
    req,        \* the request each thread works on
    acked,      \* saves that returned: id -> who made it and in what collection
    rebuilt,    \* a process built a second client in this life
    launches

dvars == <<file, phase, chosen, cfg, overtaken, launches>>
vars == <<qvars, dvars, seen, disk, req, acked, rebuilt>>

None == "none"
Dirs == {Config[c].dir : c \in Configs}

Of(p) == Config[cfg[p]]
Coll(p) == IF Of(p).url THEN Of(p).collection ELSE "memory"

-----------------------------------------------------------------------------
(* Launching: _resolve_preset and _start. *)

\* Writing overtakes every launch that wrote and has not loaded.
Overtake(p) ==
    overtaken' = [q \in Procs |-> overtaken[q] \/
                    (q # p /\ phase[q] \in {"emptied", "written", "imported"})]

\* A launch with a preset, up to its first effect: _validate_for_runtime
\* refuses Qdrant without a URL, then _write_generated_ppl opens the file,
\* which empties it.
Launch(p, c) ==
    /\ phase[p] = "down"
    /\ c \in PresetsOf[p]
    /\ Config[c].vector = "qdrant" => Config[c].url
    /\ launches < MaxLaunches
    /\ launches' = launches + 1
    /\ file' = "empty"
    /\ phase' = [phase EXCEPT ![p] = "emptied"]
    /\ chosen' = [chosen EXCEPT ![p] = c]
    /\ Overtake(p)
    /\ UNCHANGED <<qvars, cfg, seen, disk, req, acked, rebuilt>>

\* ... and then fills it.
FillFile(p) ==
    /\ phase[p] = "emptied"
    /\ file' = chosen[p]
    /\ phase' = [phase EXCEPT ![p] = "written"]
    /\ Overtake(p)
    /\ UNCHANGED <<qvars, chosen, cfg, launches, seen, disk, req, acked, rebuilt>>

\* run_server (TeleFuser) imports the pipeline from the file; there is none
\* in an empty one and the launch fails.
ImportPipeline(p) ==
    /\ phase[p] = "written"
    /\ phase' = [phase EXCEPT ![p] = IF file = "empty" THEN "down" ELSE "imported"]
    /\ UNCHANGED <<qvars, file, chosen, cfg, overtaken, launches, seen, disk, req, acked, rebuilt>>

\* Started with a pipeline file nobody else writes.
StartOwn(p, c) ==
    /\ phase[p] = "down"
    /\ c \in OwnFiles[p]
    /\ launches < MaxLaunches
    /\ launches' = launches + 1
    /\ phase' = [phase EXCEPT ![p] = "own"]
    /\ chosen' = [chosen EXCEPT ![p] = c]
    /\ UNCHANGED <<qvars, file, cfg, overtaken, seen, disk, req, acked, rebuilt>>

-----------------------------------------------------------------------------
(* The factory. *)

\* Mutant: the file's dict is not taken for a configuration.
LoadedDefaults(p) == IF phase[p] = "own" THEN chosen[p] ELSE Default

\* CACHE_CONFIG from the pipeline file, the defaults when it has none.
LoadedConfig(p) ==
    IF phase[p] = "own" THEN chosen[p]
    ELSE IF file = "empty" THEN Default ELSE file

\* Mutant: the local store starts from an empty index.
CreateUnread(p) ==
    /\ phase[p] \in {"imported", "own"}
    /\ cfg' = [cfg EXCEPT ![p] = LoadedConfig(p)]
    /\ phase' = [phase EXCEPT ![p] = "serving"]
    /\ UNCHANGED <<qvars, file, chosen, overtaken, launches, seen, disk, req, acked, rebuilt>>

\* create_cache_service: the configuration, the stores (the local one reads
\* its index), the strategy and the adapter.
CreateService(p) ==
    /\ phase[p] \in {"imported", "own"}
    /\ cfg' = [cfg EXCEPT ![p] = LoadedConfig(p)]
    /\ phase' = [phase EXCEPT ![p] = "serving"]
    /\ seen' = [seen EXCEPT ![p] = disk[Config[LoadedConfig(p)].dir]]
    /\ UNCHANGED <<qvars, file, chosen, overtaken, launches, disk, req, acked, rebuilt>>

\* A backend or an encoder cannot be built: there is no service, by a None or
\* by an error, and the process has no more part in this model.
CreateFails(p) ==
    /\ phase[p] \in {"imported", "own"}
    /\ phase' = [phase EXCEPT ![p] = "down"]
    /\ UNCHANGED <<qvars, file, chosen, cfg, overtaken, launches, seen, disk, req, acked, rebuilt>>

\* Mutant: an empty key_steps is handed on as it is.
EmptySteps(p) == DefaultSteps(TRUE, Of(p).steps)

\* The steps the adapter falls back to: key_steps, or None when it is empty.
AdapterSteps(p) ==
    DefaultSteps(Of(p).steps # {}, Of(p).steps)

\* service.shutdown closes the connection manager's stores; the strategy
\* keeps its handles, and a request under way can still use them.
Shutdown(p) ==
    /\ phase[p] = "serving"
    /\ phase' = [phase EXCEPT ![p] = "closed"]
    /\ Close(p)
    /\ UNCHANGED <<file, chosen, cfg, overtaken, launches, seen, disk, req, acked, rebuilt>>

NoRequest == [at |-> "none", id |-> NoId, saved |-> {}, miss |-> FALSE, failed |-> FALSE]

\* The process exits or dies, at any point; an in-memory Qdrant dies with it.
Exit(p) ==
    /\ phase[p] # "down"
    /\ phase' = [phase EXCEPT ![p] = "down"]
    /\ StoreGone(p)
    /\ cfg' = [cfg EXCEPT ![p] = None]
    /\ seen' = [seen EXCEPT ![p] = {}]
    /\ req' = [t \in Threads |-> IF Home[t] = p THEN NoRequest ELSE req[t]]
    /\ rebuilt' = [rebuilt EXCEPT ![p] = FALSE]
    /\ acked' = [i \in {j \in DOMAIN acked : acked[j] # [by |-> p, coll |-> "memory"]} |-> acked[i]]
    /\ UNCHANGED <<file, chosen, overtaken, launches, disk>>

-----------------------------------------------------------------------------
(* A request. *)

rest == <<dvars, disk, seen, acked, rebuilt>>

\* Ids anything still knows: a new one is fresh (uuid4).
Used == {req[t].id : t \in Threads} \union {call[t].id : t \in Threads}
        \union DOMAIN acked \union (UNION {seen[p] : p \in Procs})
        \union (UNION {disk[d] : d \in Dirs}) \union (UNION {db[pl].points : pl \in Place})

\* Strategy.lookup: without an encoder there is nothing to search with.  The
\* id is the one a save would generate.
Request(t, id) ==
    LET p == Home[t] IN
    /\ phase[p] = "serving" /\ Of(p).vector = "qdrant"
    /\ req[t].at \in {"none", "done"}
    /\ id \in Ids \ Used
    /\ IF Of(p).encoder
         THEN /\ req' = [req EXCEPT ![t] = [NoRequest EXCEPT !.at = "lookup", !.id = id]]
              /\ Begin(t, "search", Coll(p), Of(p).dim, NoId)
         ELSE /\ req' = [req EXCEPT ![t] = [NoRequest EXCEPT !.at = "generate", !.id = id,
                                                            !.miss = TRUE, !.saved = AdapterSteps(p)]]
              /\ UNCHANGED qvars
    /\ UNCHANGED rest

\* The lookup's result reaches the pipeline through apply_resume.
Resume(t, result) ==
    LET data == ApplyResume(result, AdapterSteps(Home[t])) IN
    req' = [req EXCEPT ![t].at = "generate", ![t].miss = ~data.hit, ![t].saved = data.saved]

\* The search missed or raised: a miss.
LookupMiss(t) ==
    /\ req[t].at = "lookup" /\ Returned(t)
    /\ Raised(t) \/ call[t].id = NoId
    /\ Resume(t, Miss)
    /\ Taken(t)
    /\ UNCHANGED rest

\* It found an entry whose latents the key-value store has.
LookupHit(t) ==
    /\ req[t].at = "lookup" /\ Returned(t) /\ ~Raised(t)
    /\ call[t].id \in seen[Home[t]]
    /\ \E k \in AdapterSteps(Home[t]) : Resume(t, HitSkipStep(k, [s \in {k} |-> call[t].id]))
    /\ Taken(t)
    /\ UNCHANGED rest

\* It found one whose latents are gone: _lazy_evict_stale_entry.
LookupStale(t) ==
    /\ req[t].at = "lookup" /\ Returned(t) /\ ~Raised(t)
    /\ call[t].id \in Ids \ seen[Home[t]]
    /\ Begin(t, "delete", call[t].coll, call[t].d, call[t].id)
    /\ req' = [req EXCEPT ![t].at = "evict"]
    /\ UNCHANGED rest

\* The eviction's outcome does not matter: a miss.
Evicted(t) ==
    /\ req[t].at = "evict" /\ Returned(t)
    /\ Resume(t, Miss)
    /\ Taken(t)
    /\ UNCHANGED rest

\* The pipeline (TeleFuser) snapshots the steps it was asked for, none of
\* those a hit let it skip: after a hit perhaps none at all.  Strategy.save
\* skips when nothing was snapshotted, else puts the latents; without an
\* encoder it removes them again.
Generate(t, snapshots) ==
    LET p == Home[t]
        outputs == OnResponse(snapshots)
    IN
    /\ req[t].at = "generate"
    /\ snapshots = req[t].saved \/ (~req[t].miss /\ snapshots = {})
    /\ IF outputs.steps = {} \/ ~Of(p).encoder
         THEN /\ req' = [req EXCEPT ![t].at = "done", ![t].saved = {}]
              /\ UNCHANGED <<qvars, seen, disk>>
         ELSE /\ req' = [req EXCEPT ![t].at = "ensure"]
              /\ seen' = [seen EXCEPT ![p] = @ \union {req[t].id}]
              /\ disk' = [disk EXCEPT ![Of(p).dir] = seen'[p]]
              /\ Begin(t, "ensure", Coll(p), Of(p).dim, NoId)
    /\ UNCHANGED <<dvars, acked, rebuilt>>

SaveEnsured(t) ==
    /\ req[t].at = "ensure" /\ Returned(t) /\ ~Raised(t)
    /\ req' = [req EXCEPT ![t].at = "upsert"]
    /\ Begin(t, "upsert", call[t].coll, call[t].d, req[t].id)
    /\ UNCHANGED rest

SaveDone(t) ==
    /\ req[t].at = "upsert" /\ Returned(t) /\ ~Raised(t)
    /\ req' = [req EXCEPT ![t].at = "done", ![t].saved = {}]
    /\ acked' = [i \in DOMAIN acked \union {req[t].id} |->
                    IF i = req[t].id THEN [by |-> Home[t], coll |-> call[t].coll]
                    ELSE acked[i]]
    /\ Taken(t)
    /\ UNCHANGED <<dvars, disk, seen, rebuilt>>

\* ensure or upsert raised: the latents are rolled back, the vector is not
\* (it was never known to be written).
SaveFails(t) ==
    LET p == Home[t] IN
    /\ req[t].at \in {"ensure", "upsert"} /\ Raised(t)
    /\ req' = [req EXCEPT ![t].at = "done", ![t].saved = {}, ![t].failed = TRUE]
    /\ seen' = [seen EXCEPT ![p] = @ \ {req[t].id}]
    /\ disk' = [disk EXCEPT ![Of(p).dir] = seen'[p]]
    /\ Taken(t)
    /\ UNCHANGED <<dvars, acked, rebuilt>>

\* A step inside a store call.
InStore(t) ==
    /\ StoreStep(t)
    /\ rebuilt' = [p \in Procs |-> rebuilt[p] \/ opened'[p] > 1]
    /\ UNCHANGED <<dvars, disk, seen, acked, req>>

RequestStep(t) ==
    \/ \E id \in Ids : Request(t, id)
    \/ LookupMiss(t) \/ LookupHit(t) \/ LookupStale(t) \/ Evicted(t)
    \/ \E s \in SUBSET req[t].saved : Generate(t, s)
    \/ SaveEnsured(t) \/ SaveDone(t) \/ SaveFails(t)
    \/ InStore(t)

LaunchStep(p) ==
    \/ \E c \in Configs : Launch(p, c) \/ StartOwn(p, c)
    \/ FillFile(p) \/ ImportPipeline(p)
    \/ CreateService(p) \/ CreateFails(p) \/ Shutdown(p) \/ Exit(p)

Init ==
    /\ StoreInit
    /\ file = None
    /\ phase = [p \in Procs |-> "down"]
    /\ chosen = [p \in Procs |-> None]
    /\ cfg = [p \in Procs |-> None]
    /\ overtaken = [p \in Procs |-> FALSE]
    /\ seen = [p \in Procs |-> {}]
    /\ disk = [d \in Dirs |-> {}]
    /\ req = [t \in Threads |-> NoRequest]
    /\ acked = <<>>
    /\ rebuilt = [p \in Procs |-> FALSE]
    /\ launches = 0

Next == (\E p \in Procs : LaunchStep(p)) \/ (\E t \in Threads : RequestStep(t))

Spec == Init /\ [][Next]_vars

-----------------------------------------------------------------------------
(* Properties. *)

TypeOK ==
    /\ StoreTypeOK
    /\ file \in Configs \union {None, "empty"}
    /\ phase \in [Procs -> {"down", "emptied", "written", "imported",
                           "own", "serving", "closed"}]
    /\ chosen \in [Procs -> Configs \union {None}]
    /\ cfg \in [Procs -> Configs \union {None}]
    /\ overtaken \in [Procs -> BOOLEAN]
    /\ seen \in [Procs -> SUBSET Ids]
    /\ disk \in [Dirs -> SUBSET Ids]
    /\ DOMAIN acked \subseteq Ids
    /\ rebuilt \in [Procs -> BOOLEAN]
    /\ launches \in 0..MaxLaunches

\* A process that serves runs the preset it was launched with, unless another
\* launcher wrote the shared pipeline file between its write and its load
\* (start_wan22_service.py: _write_generated_ppl and run_server).
OwnConfig ==
    \A p \in Procs : phase[p] \in {"serving", "closed"} => cfg[p] = chosen[p] \/ overtaken[p]

\* What a process may run, and a deployment in which no two processes share a
\* latent_cache_dir, nor a collection unless their vectors cannot meet.  The
\* launcher's PRESETS have directories and collections of their own: each run
\* by one process, they are like that.
ConfigsOf(p) == PresetsOf[p] \union OwnFiles[p]

Apart ==
    \A p, q \in Procs : \A c \in ConfigsOf(p), d \in ConfigsOf(q) :
      /\ Config[c].dir = Config[d].dir => p = q
      /\ Config[c].url /\ Config[d].url /\ Config[c].collection = Config[d].collection
         /\ Config[c].dim = Config[d].dim => p = q /\ Config[c].dir = Config[d].dir

\* An entry whose save returned can be found by a search: its point is where
\* the process that saved it looks.  Nothing but a crossed launch, after which
\* two processes share a collection and not their latents, makes a lookup
\* evict it.  An in-memory Qdrant keeps it until another client replaces it
\* or the store is closed.
Findable ==
    \A id \in DOMAIN acked :
      LET p == acked[id].by IN
      IF acked[id].coll = "memory"
        THEN rebuilt[p] \/ client[p] = 0 \/ id \in db[<<p, client[p]>>].points
        ELSE (\E q \in Procs : overtaken[q]) \/ id \in db[<<"server", acked[id].coll>>].points

\* The dimension a serving process checks its vectors against is the server's,
\* as long as no request failed: the loser of two creations learns nothing from
\* its own attempt (ensure_collection).
DimsTrue ==
    \A p \in Procs : dim[p] # 0 /\ faults = 0 /\ phase[p] = "serving" /\ Coll(p) # "memory"
                       => dim[p] = db[<<"server", Coll(p)>>].size

\* A request that missed is saved, unless its save raised: the miss tells the
\* pipeline which steps to snapshot, and those come back to be saved
\* (_miss_dict: "saved_steps MUST stay non-empty even on miss").
MissIsSaved ==
    \A t \in Threads : req[t].at = "done" /\ req[t].miss /\ Of(Home[t]).encoder
                         => req[t].failed \/ req[t].id \in DOMAIN acked
=============================================================================
