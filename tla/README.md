# CacheSeek in TLA+

A verification project for CacheSeek (`src/`), a cache for video and world-model
generation. Modules are in TLA+, checked with TLC on small instances; the
theorems are proved with TLAPS for all values of the constants.

## The system

| part | state | operations | hard behaviour |
|---|---|---|---|
| `service/lifecycle.py` CacheService | bounded save queue, pending counter and event (the *vector-update barrier*), worker thread, stop flag | `save`, `lookup`, worker loop, `shutdown`, inline save with fallback thread | client coroutines, worker, `shutdown()` and one-shot threads interleave; two 30 s joins and a lookup timeout give up on running work; drop, sync and block policies |
| `reuse/exact_prefix/{trie,manager,strategy,types}.py` | forest of action tries, a blob handle with `ready`, `ref_count` and `pinned` per node | lookup, materialize, ingest, evict, snapshot, load | lock-free reads against commits, handle replacement, eviction in two steps, restart |
| `stores/tier.py` | tensors, specs, `:spec` sidecars, bounded put queue | `put_async`, worker, `get_layer`, `free`, `flush` | puts land late, half-way, or not at all |
| `reuse/exact_prefix/telefuser_lingbot.py` | per-session cursor | runtime created, chunk finalized, flush snapshot, ring seeding | cursor, chunk index and action chain must stay aligned across hits and fallbacks |
| `backends/vector/faiss.py` | index and metadata in memory and in two files | load, ensure, upsert, delete, search, save | crash or failure between the two files |
| `reuse/approximate/strategy.py` | none of its own; KV, vector and metadata stores | lookup with rerank and lazy eviction, save with rollback | several stores, one step of several failing, lookups during saves |
| `backends/metadata/local.py`, `service/eviction.py` | prompt, video and access maps in JSON files | register, remove, lookup, record access, plan eviction | several maps saved one after the other |
| `stores/local_file.py` | entries and their index file | put, get, remove, load | crash between entry and index |
| `stores/fluxon.py` | none; the pool is another process | put, get, remove, tensor forms | a result that says failed of something done, a key that goes away between two results |
| `backends/vector/qdrant.py` | the client, cached dimensions | search, upsert, delete, ensure collection, close | built twice, collections created twice, lost answers |
| `service/connection.py` | lazily built backends | properties, shutdown | shutdown under requests, first use from several threads |
| `adapters/telefuser` | the default steps | turns a hit or miss into engine arguments, builds the service | a miss must say which steps to snapshot |
| `examples/approximate_reuse/service/start_wan22_service.py` | one generated pipeline file | launch a preset | two launches crossing in the file |
| encoders, rerankers | external models | | |

The strategies are called by the service; the approximate strategy calls the
vector, KV and metadata stores; the exact-prefix binding calls its manager, the
manager the forest and the tier store, and the tier store's worker calls back
into the node's handle (`on_ready`).

What makes each part correct: a lookup admitted by the barrier sees every save
accepted before it, no exit from `save` keeps or doubles its slot, and `shutdown`
neither drops promised saves nor closes strategies under its own or the worker's
save; a trie node is visible only once written, stays readable while it is used,
and is hung under the actions that produced it; what FAISS acknowledged survives
crashes and is found by its own vector; a save of the approximate strategy is
all or nothing, and a hit can be loaded.

## Modules

- **CacheService** models `lifecycle.py`. `ph[s]` is how far the `save()` call of
  slot `s` has come: reserved (`put`), `queued`, inside `Strategy.save` (`run`,
  or `thread` on the fallback thread), written (`ran`), or given up by the
  30 s join while still running (`stray`). `pending` and `idle` are the counter
  and the event; `worker` and `shut` are program counters of the worker loop and
  of `shutdown()`; `lk` of the lookups. One action per step at which another
  thread can get in. `Strategy.save` and `.lookup` start, may suspend, and
  return. `put_nowait` is one step after the reservation. The constructor
  arguments are the record `cfg`. `owed` and `promised` are history.
- **SaveBarrier** states what the barrier promises with a set of outstanding
  saves and no counter, event or lock. CacheService implements it
  (`ImplementsBarrier`).
- **CacheServiceProofs**, **FaissStoreProofs**, **RingKVProofs**,
  **ApproxStrategyProofs**, **WorldKVProofs**, **StoresProofs**,
  **LocalMetadataProofs** and **DeploymentProofs** hold the theorems about the
  module each is named after.
- **WorldKV** models trie, manager, tier store and binding together. A node is
  its key: root hash and actions. `blob[n]` is the handle on the node; a put
  `job` knows whether its handle is still the node's (`current`), which is all
  that `on_ready` can tell. `kv[n]` is what the layer keys hold: `absent`,
  `partial` (first write not complete), `whole`, or `torn` (overwritten in place
  and not complete). A write begins and ends in two steps, carried by the worker
  or, with a synchronous store, by the session; the in-memory store keeps the
  payload and then calls `on_ready`, two steps as well. `materialize` is check, hold,
  reads in any order (each node's last layer read decides, and the layers
  interleave), release. Lookup and taking a snapshot are one step each:
  materialize checks its window again, and the file is replaced at once.
  `Restart` is the end of the process, clean or not (the put worker is a daemon
  thread), and the load by the first binding of the next one. `evict_blob` is
  its check, the `free` of the tensors (a no-op for the tensor store) and, only
  then, the clearing of the handle that the node has by that time: nothing is
  locked, and lookups, ingests and puts come in between. Nothing in `cacheseek/`
  calls it, so anybody may; the bound is one call at a time.
- **FaissStore** models one collection of `faiss.py`. Operations hold one lock,
  so an operation is a change in memory followed by the two `os.replace` steps;
  a crash or an error may come at each. A vector is known by the point it was
  computed for. The payload map has the domain of `id_map` and is left out;
  vector arithmetic is not modelled: a search may return any entry.
- **VectorStore** states what the caller of such a store may rely on, without
  files or int ids: which points are found, and which are *safe*, that is, would
  be as they are now after a restart. A call changes its own points at once and
  puts them at risk; a save that returns makes all points safe, one that fails
  leaves the others as safe as they were. FaissStore implements it
  (`ImplementsVectorStore`) as long as no metadata read fails.
- **ApproxStrategy** models the saves and lookups of the approximate strategy.
  `kv`, `vector` and `meta` are what the three stores hold; a store here is
  one that answers a call in one step, or raises and either did nothing or
  (`cfg.effects`) did it all, as FAISS does when its save fails after the change
  in memory. `pc[s]` is where a save stands; its cleanup phases are the four ways
  the code removes latents: after a put that raised (`tidy`), on an early return
  before the `try` (`drop`) and within it (`skip`, whose own failure leads to a
  second cleanup), and in the rollback (`rbkv`, after `rbvector` and `rbmeta`).
  `err[s]` says that a call of the cleanup raised, which the save reports. A
  lookup keeps the entry, step and score it selected across its read. Which
  candidate scores best is left open: any entry may. The audit calls change
  nothing and are left out, and so are the access counts.
- **RingKV** models the engine side of `telefuser_lingbot.py`: what WorldKV calls
  reading a window. A frame of KV is its number when it is that of a cold run, and
  `Wrong` otherwise; the engine (external) computes a right chunk exactly when
  ring, end indices and generator position are those of a cold run (`AsCold`). So a
  wrong seed, slice or draw count shows up in what is computed and stored next.
  `Resume` is seeding, end indices, latents and RNG burn; `Finalize` the slice and
  the put of latent and blob. Sessions replay one chain of actions.
- **KVStore** states what callers may rely on of `stores/base.py`: a key is *firm*
  between mutations, and holds what the last one left also after a restart;
  while a mutation is under way and after one that raised it may hold anything
  that was ever put there. **KVCalls** is the calls in progress, **LocalFileKV** and
  **FluxonKV** the two stores, **Stores** the store `kv_type` selects. In LocalFileKV
  each disk step (`os.replace` of the entry, `unlink`, `os.replace` of the index) is an
  action, may raise, and may be the last of the process; `get` reads outside the
  lock. In FluxonKV each consumed Result is an action.
- **LocalMetadata** models `backends/metadata/local.py` and the LRU plan of
  `service/eviction.py`: operations under the lock, each followed by the save of one
  or two files. `status[c]` is history: what the callers know of `c` (`cut` while an
  operation is under way or after it raised).
- **QdrantStore** models `qdrant.py` by round trip: a call (`call[t]`) gets the
  client, perhaps builds it, and then asks. `db` is the server and each in-memory
  client. **TeleFuserAdapter** gives the adapter as functions. **Deployment** puts
  launcher, factory, connection manager, adapter, strategy and Qdrant together:
  `phase[p]` is how far process `p` is from launch to close, `file` the shared
  pipeline file, `req[t]` the request of a thread. Strategy, key-value store and
  save queue appear reduced to what Qdrant and the configuration meet;
  ApproxStrategy, LocalFileKV and CacheService have their detail.
- The **MC** modules give the constants their values.

## Runs

| run | shows | bounds |
|---|---|---|
| `service` | `TypeOK`, `BarrierCounts`, `HotReads`, `OneDriver`, `FlushedBeforeClose`, `TakenOnce`, `ImplementsBarrier` | 3 saves (one driven, one queued, one meeting a full queue), 1 lookup, 2 strategies, queue of 1, all policies and modes |
| `service_live` | `QueuedSaveRuns`, `LookupReturns`, `ShutdownReturns` | the same with 1 strategy and 5 configurations |
| `worldkv` | `TypeOK`, `PublishedWritten`, `SerialHitsSound`, `CursorAligned`, `RefsBalanced` | 2 sessions, queue of 1, window and sink of one chunk; in turn: a 3-chunk request (its window has a gap) and a fork, below and above `break_even_k`; at once: one request of 2 chunks, with evictions or restarts; puts fail |
| `worldkv_live` | `SessionEnds` | the same, at once, synchronous and asynchronous stores |
| `faiss` | `FreshIds`, `Durable`, `StrayVectorsCut`, `ImplementsVectorStore` | 3 points, 3 int ids: enough for an id to be orphaned, reassigned, and used again |
| `approx` | `TypeOK`, `CleanFailure`, `SavedIntact`, `VectorBacked`, `DeepestAllowed` | 2 saves, 2 lookups, 2 steps: a lookup can search, read and evict across every step of another's save, rollback or eviction, and a cleanup can fail half way; tiers below and above `max_skip_step`, scores below, between and above them |
| `ring` | `TypeOK`, `RingExact`, `ReplayExact`, `WindowSuffices` | 2 sessions, 4 chunks, 7 geometries: full length, rolled at and inside a chunk, no sink, sinks that are no whole number of chunks, no draws, a manager configured for another ring; at 4 chunks every rolling ring has rolled twice |
| `stores` | `TypeOK`, `ImplementsKVStore`, `CallReturns` | 2 threads, 2 keys (the second so that the index is saved for the sake of another key), bytes and a tensor; any step may raise, restarts at any point |
| `metadata` | `ReturnedIsDurable`, `CleanMeansSaved`, `PlanFitsLRU` | 3 ids, two of one prompt in two buckets, unlike sizes; times 0 and 1, so that ties occur |
| `deploy` | `TypeOK`, `OwnConfig`, `Findable`, `DimsTrue`, `MissIsSaved` | 2 processes, 3 threads, 2 launches, 2 cache ids, 2 clients for a process, 1 failing request; presets that share a collection, with unlike dimensions and directories |
| `worldkv_reload`, `approx_rollback` | a violation each, below | the smallest deployment |

In `deploy` launches, clients and failures are bounded (`MaxLaunches`, `MaxClients`, `MaxFaults`) and ids are
used once, so it stops, and deadlock is not checked; two processes and two launches are the
least in which launches cross, one of them relaunched or both up. `MaxTime` caps the clock of `metadata`.
In `approx` each save and lookup happens once and the system then stops, so
deadlock is not checked there; elsewhere slots are reused, and runs are unbounded in time;
the bounds limit how many are under way at once. `MaxId` caps the int ids FAISS
hands out. `late`, `overlap`, `evicts`, `restarts`, `crashes`, `writes`, `reads`,
`faults`, `effects` and `loses` are the environment's switches in the configuration records.

**Fairness.** The service: every thread that can take a step does (clients
inside `save`, the worker, `shutdown`, strategy calls return, a waiting lookup
polls); no call and no join timeout is ever owed. A lookup's own timeout is fair
because its loop tests the clock at every poll. WorldKV: sessions and the worker
run; `Enqueue` is strongly fair because `queue.Queue.put` wakes its waiters in
turn. The stores: a thread inside a call goes on, and wins the lock when it is free again
and again (an `RLock` held for a few file operations); the Fluxon pool answers, for
`wait()` has no timeout and a pool that never answers blocks its caller for good.
Calls, failures and restarts are never owed.

Conditions in the properties are the code's own exits: the fallback thread that
outlived its join (`stray`), the worker that outlived its join (`orphaned`), the
lookup that timed out (`stale`), a `save()` that begins after `shutdown()`.
`SerialHitsSound` is about sessions in turn; with sessions at once, evictions or
restarts it is false, and the runs below show how. What the conditions except is
what the code does and no property denies: strategies closed under an orphaned or an
inline save, a client that waits for ever in a full queue after the worker's exit, a
lookup without timeout under saves that never pause, entries of an in-memory client
that was replaced, and a launch overtaken by another. The hazards in `PROJECT.json`
say so at each line.

## Where the code and its comments part

- `worldkv_reload`: a session below `break_even_k` runs cold and ingests a node
  that the snapshot calls ready. If the process ends during that rewrite, the
  next one loads the node as ready with torn tensors (`trie.py:183-184`).
- `approx_rollback`: an upsert that raises after it changed the index is not
  rolled back (`strategy.py:645`), although saves are called all-or-nothing
  (`strategy.py:202-204`). The vector of the failed save stays searchable until
  a lookup selects it, finds no latents and evicts it.

Seen and not run:

- Exact prefix: two sessions put handles `h1`, then `h2` on one node and enqueue
  in the other order: `h2`'s job publishes the node, then `h1`'s overwrites its
  files in place, although in-flight writes are said to be invisible to readers
  (`tier.py:127-129`). `ingest` unpublishes a published node until it is rewritten
  (`manager.py:193`, against "first wins", `trie.py:112-113`). `evict_blob` can drop a
  blob that a materialization has checked and not yet referenced
  (`manager.py:147`, `216`), and it frees the tensors before it clears the handle
  (`manager.py:218-219`), so that with the in-memory store a lookup in between takes
  the node for published, and reading it fails (`PublishedWritten` excepts that
  node, as `Dropping`, and no other).
- FAISS: after a crash between the two `os.replace` calls the old metadata gives
  the orphan's int id to the next new point, which is then found by the orphan's
  vector; the comment (`faiss.py:333-336`) calls the orphan harmless
  (`StrayVectorsCut` says exactly when this happens). After one failed metadata
  read the store goes on with empty metadata and saves it (`faiss.py:244`).
- Approximate reuse: a score below every tier falls back to `max_skip_step`, the
  deepest skip (`strategy.py:831-835`, against "low -> shallow", line 848); with
  `video_similarity_threshold=None` ("disables the floor", `config.py:146`) the
  comparison raises, and every lookup without a rerank score is a miss; a lazy
  eviction leaves the entry's other steps in the KV store; `enable_latent_cache`
  (`service/config.py:27`) is not read by the service.
- Stores: a put that raised after its index entry can expose an older, unfinished
  put's file; a remove that raised and is retried finds no index entry, does
  nothing, and the key is back after a restart (`local_file.py:68-73`). KVStore leaves
  both open. Two processes on one directory overwrite each other's index; the
  docstring (`local_file.py:20-22`) asks callers for a FileLock, and none takes one.
- Metadata: a `record_access` whose immediate save raised is not marked dirty, so
  `flush` does not retry it (`CleanMeansSaved` excepts it); a crash between the two
  saves can leave an index entry without metadata, which no plan evicts.
  `lookup_prompt`, `plan_eviction` and the policies have no callers, and `created_at`, by
  which FIFO sorts, is never written.
- Deployment: an empty pipeline file, met between another launch's two steps, makes the factory go on with
  the default configuration; deployments that share a Qdrant collection and not
  their latents evict each other's entries (`Findable` excepts both); a stray call after
  close opens a client again; `save_queue_size or 8` and its like turn a configured
  0 into the default (`cache_factory.py:249-254`); `create_cache_service` is said to
  return None when any wiring step fails (lines 128-130) and lets ValueError and
  RuntimeError pass; a hit whose step has no latent is called a miss
  (`adapter.py:234`) and still says `hit: True` (line 198).

## Proofs

**CacheServiceProofs** assumes only `ServiceAssumption`: the set of saves is
finite, there is a strategy, the queue bound is a natural number.

- `TypeCorrect`: `TypeOK` is inductive by itself.
- `BarrierCorrect`: `BarrierCounts` needs `QueueInv` (the queue holds exactly the
  queued slots, each once), for otherwise taking an item could move a save that
  is not in flight. `ReserveCounts` and `ReleaseCounts` do the counting once for
  all actions that reserve or release.
- `HotReadsHold`: a waiting or admitted lookup is owed only saves that are in
  flight or stray; the event is set only when none is in flight.
- `DriversCorrect`: `DriverInv` ties each driven slot to the program counter of
  its driver, so that two queued saves cannot be driven at once and none is while
  strategies are closed.
- `FlushCorrect`: the promised saves are queued, driven by worker or flush, or
  stray; the flush ends with an empty queue.
- `TakenOnceHolds`, `Refinement`: from these invariants, action by action.

**FaissStoreProofs** assumes `FaissAssumption`.

- `FaissTypeCorrect`, `FreshIdsHold`: the metadata in memory and in the file both
  have unique ids below `next_id`; every step copies one to the other or extends it.
- `StrayVectorsCutHolds`: `StrayInv` says every vector in memory, and before a
  load every vector in the file, is the one its point maps to or was orphaned by
  a crash; with unique ids (`FreshIds`) a hit then finds its own vector or a cut one.
- `DurableHolds`: `DurableInv` adds what memory must know of acknowledged points
  while a save is half done, so that a crash or a failure at any step leaves both
  files with them.
- `RefinesVectorStore`: every step is one of `VectorStore` or a stutter. Its hard
  step is the first `os.replace`, which puts a new index beside an old metadata
  file: `AheadInv` says that memory holds a vector of a point under the id the
  file gives it only if it gives it that id too, so the mixed files revive no
  deleted point. This rests on `next_id` in memory never being behind the file's.

**RingKVProofs** assumes `RingAssumption`: chunks and the buffer are not empty,
sink and one chunk fit the buffer, and a session configured with a full window
has no more than `FullWindow` chunks. The number of sessions, the geometry and
the length of the videos are arbitrary.

- `RingIsExact`: `AppendExact` shows that appending a chunk to a cold ring gives
  the cold ring of one more chunk, in three cases (the frames fit, they make the
  window roll, it has rolled before), and `SeedExact` that seeding gives the cold
  ring of the chunks resumed from. Both need the position of a frame in its
  chunk, by `DivMod`.
- `WindowIsEnough`: `RecentChunks` and `SinkChunks` bound the chunk of a frame
  the ring needs by the window's rounded-up quotients.
- `ReplayIsExact`: `SessionInv` adds that a session between lookup and seeding
  has a fresh runtime, and that the latents it will skip stay the cold ones
  although blobs are evicted meanwhile.

**ApproxStrategyProofs** assumes `StrategyAssumption`.

- `SavedIntactHolds`, `CleanFailureHolds`, `VectorBackedHolds`: `SaveInv` says for
  each program counter of a save which of its latents, vector and metadata are
  there; what a lookup may evict of a published entry is only what was lost or
  given up. `Progress` says how far one step may change a save.
- `DeepestAllowedHolds`: `MinOfSet` and `MaxOfSet` give the extrema of finite sets
  of steps; with them `LookupInv` fixes the step a lookup loads.

**WorldKVProofs** assumes `WorldAssumption`: a plan has a root and at least one
action, and a deployment with a snapshot keeps its tensors in files.

- `CursorAlignedHolds`: `SessionOK` ties cursor and chunk to the plan; `MatchFacts`
  says what the deepest published prefix is, `ChildFacts` that ingest hangs the
  node at the next prefix.
- `PublishedWrittenHolds`: `PubInv` covers handles, the snapshot and, in memory, what
  a session has stored and not yet published: whoever publishes has written, and
  nothing makes written keys absent but the `free` of an eviction. From there to
  the end of that eviction its node is excepted (`Dropping`); the end takes the
  handle off and makes the jobs of the node stale, so no put under way can publish
  what has been freed.
- `RefsBalancedHolds`: `Balanced`, the number of holders of each node, with
  `BalanceKept` for the steps that leave the holders alone.

- `SerialHitsSoundHolds`: in a quiet deployment puts of a node are carried out in
  the order worker, queue, session, and a put that will publish is the last of
  its node (`LastOfNode`); so a ready node is whole, can be located, and no put
  that could tear it is under way (`ReadySound`), whatever failed before.

**StoresProofs** assumes `CallsAssumption`, `ThreadsAssumption` and
`MenuAssumption`: threads, keys and values are sets of any size, and the names of
no thread and no value are none of them.

- `StoresRefine`: every step of either store is one step of `KVStore` or a stutter.
  `LockInv` ties index and file of a key to how far the mutation that holds the
  lock has come, which is what lets a write take effect in one abstract step;
  `SeenInv` says a reader has seen, since its call began, the value it is going
  to answer; `TriedInv` that nothing is stored that nobody tried to put.

**LocalMetadataProofs** assumes `MetadataAssumption`: the set of ids is finite,
"none" is not one of them, sizes and the bound of the clock are natural numbers.

- `ReturnedIsDurableHolds`: `DurInv` is inductive. Besides types it says that the
  operation that holds the lock has done in memory what it is going to save, and in
  the index file what it has saved (`UnderWay`), and that nothing is known of its
  id until it returns; without this the save of the metadata, at which the
  operation returns, could not be related to the save of the index before it.
  `PopFacts`, `RemoveFromIndex` and `AddToIndex` say what the operations leave of
  the two maps, `LookupFacts` what a lookup finds in them.
- `CleanMeansSavedHolds`: from the type of the operation under way.
- `PlanFitsLRUHolds`: for every write and limit, not only those of the run.
  `FoldDefined` and `TotalFacts` show that the sum of sizes is a number, by the least
  set for which it is not; `ByAccessFacts` that ranking by access is a permutation,
  by counting; `AccumulateFacts` where the walk over it stops.

**DeploymentProofs** assumes `DeploymentAssumption`, `QdrantAssumption` and
`AdapterAssumption` (the built-in steps are not empty; the names of collections, of
processes and of the server differ). The number of processes, presets, launches,
threads and ids is arbitrary.

- `OwnConfigHolds`: `LaunchOK` says what the pipeline file holds at each point of a
  launch that was not overtaken.
- `MissIsSavedHolds`: `RequestOK` says that a request that missed has steps to save
  until it is saved; requests have ids of their own (`Distinct`) and live in
  serving processes only, so neither another save nor a new configuration
  changes what is said of them.
- `TypeCorrect`: `StoreInv` ties a thread's call to its process: the client it
  holds is one that was built, a call waits only where its kind of call can, and
  the process of a call is serving or being closed.
- `DimsTrueHolds`: `DimInv` follows a dimension from the probe or the creation that
  learns it to the cache: what a call is about to cache is what the server
  holds, and a collection, once created, keeps its dimension.
- `FindableHolds`: `FindInv` says of every point on a server or in an in-memory
  client whose save it is, of every lookup that the point it found is its own
  process's (`FoundOK`), and of every deletion that its entry is
  nobody's, neither acknowledged nor being saved (`DeleteOK`). It assumes `Apart`: no two
  processes share a directory, nor a collection of one dimension unless they share the
  directory too. The launcher's presets, each run by one process, are like that; the
  run checks `Apart` of its presets. Without it two launched processes evict each
  other's entries (Deployment, above). An in-memory Qdrant keeps points until another
  client replaces it or the store is closed.

Model-checked only: all liveness (out of this prover's reach). Every safety
property of the passing runs is proved.

## Not modelled

Encoders and rerankers (external models; a flag says whether there is one),
plain data of queries, results and outputs, log sinks and the audit log, vendored models,
benchmarks, scripts and the other examples. `TensorStoreTierStore.flush`, the merge of a
snapshot into a non-empty forest, two snapshot writers sharing one `.tmp` file,
several namespaces in one forest, and two calls of `evict_blob` at once are left out of
WorldKV; an operation that the Fluxon pool carries out after a later call is left out of
FluxonKV; the calibration of
`break_even_k` is not modelled, its result is a constant. Of Qdrant, `delete_collection`
and `get_vector_size` have no callers, and the id map is never needed, for `upsert`
writes the id into the payload. Of the connection manager, the double-checked
locks and `health_check`; of the factory, the log sink and the command line's
overrides; of the metadata manager, the hit-pair and score logs.

What could follow: an abstract prefix cache that WorldKV implements, and
Deployment with two saves of one request in CacheService's queue.
