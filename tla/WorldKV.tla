------------------------------ MODULE WorldKV ------------------------------
(***************************************************************************)
(* Exact-prefix reuse: the action trie (trie.py), the manager that looks   *)
(* up, materializes, ingests and evicts (manager.py), the tier store that  *)
(* writes chunk KV inline or through one worker thread (tier.py), and the  *)
(* per-session binding that drives them (telefuser_lingbot.py), with the   *)
(* snapshot that carries the trie to the next process.                     *)
(*                                                                         *)
(* A node is its key: the root hash of the world followed by the actions   *)
(* that lead to it.  A tensor is what its keys hold as a whole: nothing, a *)
(* first write not yet complete, all of it, or an overwrite not complete.  *)
(***************************************************************************)
EXTENDS Naturals, Sequences, FiniteSets

CONSTANTS Sessions,       \* binding instances; a slot is reused once its session is over
          Plans,          \* the requests: a root hash followed by one action per chunk
          Window, Sink,   \* window_chunks and sink_chunks
          MaxPending,     \* max_pending_chunks, the bound of the put queue
          Configs         \* the deployments a run ranges over

(* store is the KVTierStore; breakEven is break_even_k; plans are the      *)
(* requests that come in; overlap says that sessions run concurrently,  *)
(* evicts that somebody calls evict_blob, restarts that there is a snapshot *)
(* path and the process may die, faults that the tensor store may raise.   *)
ConfigType == [store : {"memory", "sync", "async"}, breakEven : Nat, plans : SUBSET Plans,
               overlap : BOOLEAN, evicts : BOOLEAN, restarts : BOOLEAN, faults : BOOLEAN]

(* A plan is a sequence of at least one action under its root.  Tensors in *)
(* memory outlive no process, so that a snapshot of them is no deployment. *)
ASSUME WorldAssumption ==
  /\ IsFiniteSet(Sessions) /\ "worker" \notin Sessions
  /\ Window \in Nat \ {0} /\ Sink \in Nat /\ MaxPending \in Nat \ {0}
  /\ \A p \in Plans : p \in Seq({p[i] : i \in DOMAIN p}) /\ Len(p) >= 2
  /\ Configs \subseteq ConfigType
  /\ \A g \in Configs : g.restarts => g.store # "memory"

Prefix(p, k) == SubSeq(p, 1, k)
Roots   == {Prefix(p, 1) : p \in Plans}
Nodes   == UNION {{Prefix(p, k) : k \in 2..Len(p)} : p \in Plans}
Depth(n) == Len(n) - 2
Writers == Sessions \cup {"worker"}

VARIABLES cfg,      \* the deployment
          trie,     \* the nodes that exist
          pinned,   \* the nodes that are pinned
          blob,     \* blob[n]: "none", "unready" or "ready", the handle on the node
          refs,     \* refs[n]: ref_count
          kv,       \* kv[n]: what the tensor store holds under n's layer keys
          spec,     \* nodes whose (shape, dtype) this process knows
          sidecar,  \* nodes whose :spec sidecar is stored
          snap,     \* the snapshot file
          queue,    \* the worker's queue of put jobs
          job,      \* job[w]: the put writer w carries: a session, or the worker
          writing,  \* the writers in the middle of a put
          ph,       \* ph[s]: how far session s has come
          plan,     \* plan[s]: its request
          parent,   \* parent[s]: its trie cursor, _parent
          chunk,    \* chunk[s]: the chunk the engine finalizes next
          unread,   \* unread[s]: nodes materialize has still to read
          victim    \* the call of evict_blob under way: its node, and whether it has freed

trieVars    == <<trie, pinned>>
storeVars   == <<kv, spec, sidecar>>
putVars     == <<queue, job, writing>>
sessionVars == <<ph, plan, parent, chunk, unread>>
vars == <<cfg, trie, pinned, blob, refs, kv, spec, sidecar, snap, queue, job, writing,
          ph, plan, parent, chunk, unread, victim>>

NoNode == <<>>
NoPlan == <<>>
NoVictim == [node |-> NoNode, freed |-> FALSE]
(* A put job; current says that its handle is still the node's blob.       *)
Job(n, c) == [node |-> n, current |-> c]
NoJob == Job(NoNode, FALSE)
Jobs  == [node : Nodes \cup {NoNode}, current : BOOLEAN]

HasKV(n) == n \in trie /\ blob[n] = "ready"

(* The deepest published node of a request, or its root.                   *)
Match(p) ==
  LET lengths == {k \in 1..Len(p) : \A i \in 2..k : HasKV(Prefix(p, i))}
  IN  Prefix(p, CHOOSE k \in lengths : \A i \in lengths : i <= k)

(* sink + up to Window ancestors of n.                                     *)
WindowPath(n) ==
  {Prefix(n, k) : k \in {i \in 2..Len(n) : Len(n) - i < Window \/ i - 2 < Sink}}

Init ==
  /\ cfg \in Configs
  /\ trie = {} /\ pinned = {}
  /\ blob = [n \in Nodes |-> "none"]
  /\ refs = [n \in Nodes |-> 0]
  /\ kv = [n \in Nodes |-> "absent"]
  /\ spec = {} /\ sidecar = {}
  /\ snap = [nodes |-> {}, ready |-> {}, pinned |-> {}]
  /\ queue = <<>>
  /\ job = [w \in Writers |-> NoJob]
  /\ writing = {}
  /\ ph = [s \in Sessions |-> "off"]
  /\ plan = [s \in Sessions |-> NoPlan]
  /\ parent = [s \in Sessions |-> NoNode]
  /\ chunk = [s \in Sessions |-> 0]
  /\ unread = [s \in Sessions |-> {}]
  /\ victim = NoVictim

-----------------------------------------------------------------------------
(* The session is over, or lost to an exception: its binding is gone.      *)
Gone(s) ==
  /\ ph' = [ph EXCEPT ![s] = "off"]
  /\ plan' = [plan EXCEPT ![s] = NoPlan]
  /\ parent' = [parent EXCEPT ![s] = NoNode]
  /\ chunk' = [chunk EXCEPT ![s] = 0]
  /\ unread' = [unread EXCEPT ![s] = {}]

(* on_runtime_created.  The lookup descends published nodes only; a match  *)
(* below break_even_k is a miss.  A miss starts cold at the root.          *)
StartsCold(s, p) ==
  /\ parent' = [parent EXCEPT ![s] = Prefix(p, 1)]
  /\ chunk' = [chunk EXCEPT ![s] = 0]
  /\ ph' = [ph EXCEPT ![s] = "run"]

StartSession(s, p) ==
  LET k == Len(Match(p)) - 1 IN
  /\ ph[s] = "off" /\ p \in cfg.plans
  /\ cfg.overlap \/ \A t \in Sessions : ph[t] = "off"
  /\ plan' = [plan EXCEPT ![s] = p]
  /\ IF k = 0 \/ k < cfg.breakEven
     THEN StartsCold(s, p)
     ELSE /\ parent' = [parent EXCEPT ![s] = Match(p)]
          /\ chunk' = [chunk EXCEPT ![s] = k]
          /\ ph' = [ph EXCEPT ![s] = "hit"]
  /\ UNCHANGED <<cfg, trieVars, blob, refs, storeVars, snap, putVars, unread, victim>>

(* Mutant: a cold start that keeps the cursor on the hit.                  *)
IncompleteKeepsCursor(s) ==
  /\ ph[s] = "hit"
  /\ \E n \in WindowPath(parent[s]) : ~HasKV(n)
  /\ chunk' = [chunk EXCEPT ![s] = 0]
  /\ ph' = [ph EXCEPT ![s] = "run"]
  /\ UNCHANGED <<cfg, trieVars, blob, refs, storeVars, snap, putVars, plan, parent, unread, victim>>

(* materialize finds the window incomplete: the session falls back.        *)
WindowIncomplete(s) ==
  /\ ph[s] = "hit"
  /\ \E n \in WindowPath(parent[s]) : ~HasKV(n)
  /\ StartsCold(s, plan[s])
  /\ UNCHANGED <<cfg, trieVars, blob, refs, storeVars, snap, putVars, plan, unread, victim>>

(* ... or complete; the references are taken after this check, not with it.*)
WindowComplete(s) ==
  /\ ph[s] = "hit"
  /\ \A n \in WindowPath(parent[s]) : HasKV(n)
  /\ ph' = [ph EXCEPT ![s] = "checked"]
  /\ UNCHANGED <<cfg, trieVars, blob, refs, storeVars, snap, putVars, plan, parent, chunk,
                 unread, victim>>

Hold(s) ==
  /\ ph[s] = "checked"
  /\ refs' = [n \in Nodes |-> IF n \in WindowPath(parent[s]) THEN refs[n] + 1 ELSE refs[n]]
  /\ unread' = [unread EXCEPT ![s] = WindowPath(parent[s])]
  /\ ph' = [ph EXCEPT ![s] = "read"]
  /\ UNCHANGED <<cfg, trieVars, blob, storeVars, snap, putVars, plan, parent, chunk, victim>>

Unhold(s) == refs' = [n \in Nodes |-> IF n \in WindowPath(parent[s]) THEN refs[n] - 1 ELSE refs[n]]

Located(n)  == cfg.store = "memory" \/ n \in spec \cup sidecar
Readable(n) == blob[n] # "none" /\ kv[n] \in {"whole", "torn"} /\ Located(n)
Broken(n)   == blob[n] = "none" \/ kv[n] # "whole" \/ ~Located(n)

(* get_layer and seed_layer; a read that meets an overwrite may be lucky.  *)
ReadNode(s, n) ==
  /\ ph[s] = "read"
  /\ n \in unread[s]
  /\ Readable(n)
  /\ unread' = [unread EXCEPT ![s] = @ \ {n}]
  /\ spec' = IF cfg.store = "memory" THEN spec ELSE spec \cup {n}
  /\ UNCHANGED <<cfg, trieVars, blob, refs, kv, sidecar, snap, putVars, ph, plan, parent, chunk,
                 victim>>

(* Mutant: the references are released on success only.                    *)
ReadFailsHolding(s, n) ==
  /\ ph[s] = "read"
  /\ n \in unread[s]
  /\ Broken(n)
  /\ Gone(s)
  /\ UNCHANGED <<cfg, trieVars, blob, refs, storeVars, snap, putVars, victim>>

(* The blob is gone, its keys are missing, or its bytes are short: the     *)
(* read raises, the references are released, the session is lost.          *)
ReadFails(s, n) ==
  /\ ph[s] = "read"
  /\ n \in unread[s]
  /\ Broken(n)
  /\ Unhold(s)
  /\ Gone(s)
  /\ UNCHANGED <<cfg, trieVars, blob, storeVars, snap, putVars, victim>>

Seeded(s) ==
  /\ ph[s] = "read"
  /\ unread[s] = {}
  /\ Unhold(s)
  /\ ph' = [ph EXCEPT ![s] = "run"]
  /\ UNCHANGED <<cfg, trieVars, blob, storeVars, snap, putVars, plan, parent, chunk, unread,
                 victim>>

-----------------------------------------------------------------------------
(* on_chunk_finalized and ingest.  The node hangs under the cursor; the    *)
(* store is addressed by the key of the action chain.                      *)
Child(s)    == Append(parent[s], plan[s][chunk[s] + 2])
ChainKey(s) == Prefix(plan[s], chunk[s] + 2)

Stale(j, n) == [j EXCEPT !.current = @ /\ j.node # n]

Commit(n) ==
  /\ trie' = trie \cup {n}
  /\ pinned' = IF Depth(n) < Sink THEN pinned \cup {n} ELSE pinned

(* Every ingest puts a new, unready handle on the node, also on one that   *)
(* was published; a put that carries an older handle publishes nothing.    *)
Ingest(s) ==
  /\ ph[s] = "run"
  /\ chunk[s] < Len(plan[s]) - 1
  /\ Commit(Child(s))
  /\ blob' = [blob EXCEPT ![Child(s)] = "unready"]
  /\ queue' = [i \in DOMAIN queue |-> Stale(queue[i], Child(s))]
  /\ job' = [w \in Writers |-> IF w = s THEN Job(Child(s), TRUE) ELSE Stale(job[w], Child(s))]
  /\ ph' = [ph EXCEPT ![s] = "put"]
  /\ UNCHANGED <<cfg, refs, storeVars, snap, writing, plan, parent, chunk, unread, victim>>

(* put_skeleton raises: the node is there, its blob is as it was.          *)
SkeletonFails(s) ==
  /\ cfg.faults /\ cfg.store # "memory"
  /\ ph[s] = "run"
  /\ chunk[s] < Len(plan[s]) - 1
  /\ Commit(Child(s))
  /\ Gone(s)
  /\ UNCHANGED <<cfg, blob, refs, storeVars, snap, putVars, victim>>

(* ingest returned: the cursor moves to the node.                          *)
Advance(s) ==
  /\ parent' = [parent EXCEPT ![s] = Child(s)]
  /\ chunk' = [chunk EXCEPT ![s] = @ + 1]
  /\ ph' = [ph EXCEPT ![s] = "run"]

(* Mutant: publishes through whatever handle the node has now.             *)
PublishAny(j) == blob' = IF blob[j.node] # "none" THEN [blob EXCEPT ![j.node] = "ready"] ELSE blob

Publish(j) == blob' = IF j.current THEN [blob EXCEPT ![j.node] = "ready"] ELSE blob

(* The in-memory store keeps the payload, then calls on_ready; nothing is  *)
(* locked in between.                                                      *)
StoreInMemory(s) ==
  /\ cfg.store = "memory" /\ ph[s] = "put" /\ s \notin writing
  /\ writing' = writing \cup {s}
  /\ kv' = [kv EXCEPT ![job[s].node] = "whole"]
  /\ UNCHANGED <<cfg, trieVars, blob, refs, spec, sidecar, snap, queue, job, sessionVars, victim>>

ReadyInMemory(s) ==
  /\ cfg.store = "memory" /\ s \in writing
  /\ Publish(job[s])
  /\ job' = [job EXCEPT ![s] = NoJob]
  /\ writing' = writing \ {s}
  /\ Advance(s)
  /\ UNCHANGED <<cfg, trieVars, refs, storeVars, snap, queue, plan, unread, victim>>

(* Mutant: one job too many in the queue.                                  *)
EnqueueOffByOne(s) ==
  /\ cfg.store = "async" /\ ph[s] = "put"
  /\ Len(queue) <= MaxPending
  /\ queue' = Append(queue, job[s])
  /\ job' = [job EXCEPT ![s] = NoJob]
  /\ Advance(s)
  /\ UNCHANGED <<cfg, trieVars, blob, refs, storeVars, snap, writing, plan, unread, victim>>

(* Asynchronous: wait for room, hand the job over.                         *)
Enqueue(s) ==
  /\ cfg.store = "async" /\ ph[s] = "put"
  /\ Len(queue) < MaxPending
  /\ queue' = Append(queue, job[s])
  /\ job' = [job EXCEPT ![s] = NoJob]
  /\ Advance(s)
  /\ UNCHANGED <<cfg, trieVars, blob, refs, storeVars, snap, writing, plan, unread, victim>>

WorkerTakes ==
  /\ queue # <<>> /\ job["worker"] = NoJob
  /\ job' = [job EXCEPT !["worker"] = Head(queue)]
  /\ queue' = Tail(queue)
  /\ UNCHANGED <<cfg, trieVars, blob, refs, storeVars, snap, writing, sessionVars, victim>>

(* Who runs _do_put_payload: the worker, or without one the session.       *)
MayWrite(w) == job[w].node # NoNode /\ (w = "worker" \/ cfg.store = "sync")
Others(w)   == {v \in writing \ {w} : job[v].node = job[w].node}

BeginWrite(w) ==
  /\ MayWrite(w) /\ w \notin writing
  /\ writing' = writing \cup {w}
  /\ spec' = spec \cup {job[w].node}
  /\ kv' = [kv EXCEPT ![job[w].node] = IF @ \in {"whole", "torn"} THEN "torn" ELSE "partial"]
  /\ UNCHANGED <<cfg, trieVars, blob, refs, sidecar, snap, queue, job, sessionVars, victim>>

(* The writer is through with its job, well or not.                        *)
PutOver(w) ==
  /\ job' = [job EXCEPT ![w] = NoJob]
  /\ writing' = writing \ {w}

EndWrite(w) ==
  /\ cfg.store # "memory" /\ w \in writing
  /\ kv' = [kv EXCEPT ![job[w].node] = IF Others(w) = {} THEN "whole" ELSE "torn"]
  /\ \/ sidecar' = sidecar \cup {job[w].node}
     \/ (cfg.faults /\ sidecar' = sidecar)    \* the sidecar's own error is suppressed
  /\ Publish(job[w])
  /\ PutOver(w)
  /\ IF w = "worker" THEN UNCHANGED <<ph, parent, chunk>> ELSE Advance(w)
  /\ UNCHANGED <<cfg, trieVars, refs, spec, snap, queue, plan, unread, victim>>

(* Mutant: an exception leaves the worker's loop for good.                 *)
WriteFailsFatally(w) ==
  /\ cfg.faults /\ cfg.store # "memory"
  /\ w \in writing
  /\ IF w = "worker"
     THEN writing' = writing \ {w} /\ job' = [job EXCEPT ![w] = Job(NoNode, TRUE)]
     ELSE PutOver(w)
  /\ IF w = "worker" THEN UNCHANGED sessionVars ELSE Gone(w)
  /\ UNCHANGED <<cfg, trieVars, blob, refs, storeVars, snap, queue, victim>>

(* The worker logs and goes on; inline, the session is lost.               *)
WriteFails(w) ==
  /\ cfg.faults /\ cfg.store # "memory"
  /\ w \in writing
  /\ PutOver(w)
  /\ IF w = "worker" THEN UNCHANGED sessionVars ELSE Gone(w)
  /\ UNCHANGED <<cfg, trieVars, blob, refs, storeVars, snap, queue, victim>>

EndSession(s) ==
  /\ ph[s] = "run" /\ chunk[s] = Len(plan[s]) - 1
  /\ Gone(s)
  /\ UNCHANGED <<cfg, trieVars, blob, refs, storeVars, snap, putVars, victim>>

(* evict_blob, one call at a time, decides, frees the tensors, and only    *)
(* then takes the handle off the node, whichever handle that is by now.    *)
EvictCheck(n) ==
  /\ cfg.evicts
  /\ victim = NoVictim
  /\ n \in trie \ pinned /\ refs[n] = 0 /\ blob[n] # "none"
  /\ victim' = [node |-> n, freed |-> FALSE]
  /\ UNCHANGED <<cfg, trieVars, blob, refs, storeVars, snap, putVars, sessionVars>>

(* The in-memory store forgets the tensors; the other's free is a no-op.   *)
EvictFree ==
  /\ victim # NoVictim /\ ~victim.freed
  /\ kv' = IF cfg.store = "memory" THEN [kv EXCEPT ![victim.node] = "absent"] ELSE kv
  /\ victim' = [victim EXCEPT !.freed = TRUE]
  /\ UNCHANGED <<cfg, trieVars, blob, refs, spec, sidecar, snap, putVars, sessionVars>>

EvictClear ==
  /\ victim.freed
  /\ blob' = [blob EXCEPT ![victim.node] = "none"]
  /\ queue' = [i \in DOMAIN queue |-> Stale(queue[i], victim.node)]
  /\ job' = [w \in Writers |-> Stale(job[w], victim.node)]
  /\ victim' = NoVictim
  /\ UNCHANGED <<cfg, trieVars, refs, storeVars, snap, writing, sessionVars>>

(* Mutant: records every handle, published or not.                         *)
SnapshotUnready(s) ==
  /\ cfg.restarts
  /\ ph[s] = "run"
  /\ snap' = [nodes |-> trie, ready |-> {n \in trie : blob[n] # "none"}, pinned |-> pinned]
  /\ UNCHANGED <<cfg, trieVars, blob, refs, storeVars, putVars, sessionVars, victim>>

(* flush_snapshot, after a chunk or at the end of the session.             *)
FlushSnapshot(s) ==
  /\ cfg.restarts
  /\ ph[s] = "run"
  /\ snap' = [nodes |-> trie, ready |-> {n \in trie : HasKV(n)}, pinned |-> pinned]
  /\ UNCHANGED <<cfg, trieVars, blob, refs, storeVars, putVars, sessionVars, victim>>

(* The process dies and the next one's first binding loads the snapshot:   *)
(* threads, queue, references and known specs are gone, files stay.        *)
Restart ==
  /\ cfg.restarts
  /\ trie' = snap.nodes /\ pinned' = snap.pinned
  /\ blob' = [n \in Nodes |-> IF n \in snap.ready THEN "ready" ELSE "none"]
  /\ refs' = [n \in Nodes |-> 0]
  /\ spec' = {}
  /\ queue' = <<>>
  /\ job' = [w \in Writers |-> NoJob]
  /\ writing' = {}
  /\ ph' = [s \in Sessions |-> "off"]
  /\ plan' = [s \in Sessions |-> NoPlan]
  /\ parent' = [s \in Sessions |-> NoNode]
  /\ chunk' = [s \in Sessions |-> 0]
  /\ unread' = [s \in Sessions |-> {}]
  /\ victim' = NoVictim
  /\ UNCHANGED <<cfg, kv, sidecar, snap>>

WriterStep(w) == BeginWrite(w) \/ EndWrite(w) \/ WriteFails(w)
SessionStep(s) ==
  \/ WindowIncomplete(s) \/ WindowComplete(s) \/ Hold(s) \/ Seeded(s)
  \/ \E n \in Nodes : ReadNode(s, n) \/ ReadFails(s, n)
  \/ Ingest(s) \/ SkeletonFails(s) \/ StoreInMemory(s) \/ ReadyInMemory(s) \/ EndSession(s)

Next ==
  \/ \E s \in Sessions : (\E p \in Plans : StartSession(s, p)) \/ SessionStep(s) \/ Enqueue(s)
                         \/ FlushSnapshot(s)
  \/ \E w \in Writers : WriterStep(w)
  \/ WorkerTakes
  \/ \E n \in Nodes : EvictCheck(n)
  \/ EvictFree \/ EvictClear
  \/ Restart

Spec == Init /\ [][Next]_vars

(* The session's thread and the worker run; waiters of a full queue are    *)
(* woken in turn.  Requests, evictions, snapshots and crashes just happen. *)
Fairness ==
  /\ \A s \in Sessions : WF_vars(SessionStep(s)) /\ SF_vars(Enqueue(s))
  /\ \A w \in Writers : WF_vars(WriterStep(w))
  /\ WF_vars(WorkerTakes)
FairSpec == Spec /\ Fairness

-----------------------------------------------------------------------------
(* Every variable has its type.                                            *)
TypeOK ==
  /\ cfg \in Configs
  /\ trie \subseteq Nodes /\ pinned \subseteq trie
  /\ blob \in [Nodes -> {"none", "unready", "ready"}]
  /\ refs \in [Nodes -> 0..Cardinality(Sessions)]
  /\ kv \in [Nodes -> {"absent", "partial", "whole", "torn"}]
  /\ spec \subseteq Nodes /\ sidecar \subseteq Nodes
  /\ snap \in [nodes : SUBSET Nodes, ready : SUBSET Nodes, pinned : SUBSET Nodes]
  /\ queue \in Seq(Jobs) /\ Len(queue) <= MaxPending
  /\ job \in [Writers -> Jobs]
  /\ writing \subseteq Writers
  /\ ph \in [Sessions -> {"off", "hit", "checked", "read", "run", "put"}]
  /\ plan \in [Sessions -> Plans \cup {NoPlan}]
  /\ parent \in [Sessions -> Nodes \cup Roots \cup {NoNode}]
  /\ chunk \in [Sessions -> Nat]
  /\ unread \in [Sessions -> SUBSET Nodes]
  /\ victim \in [node : Nodes, freed : BOOLEAN] \cup {NoVictim}

(* The cursor of a running session is the node of the chunk before the one *)
(* the engine finalizes next, so that a chunk is hung under the actions    *)
(* that produced it: after hits, fallbacks, and ingests of shared nodes.   *)
CursorAligned ==
  \A s \in Sessions : ph[s] \in {"hit", "checked", "read", "run", "put"} =>
    parent[s] = Prefix(plan[s], chunk[s] + 1)

(* evict_blob has freed the tensors of n, and n still has its handle.      *)
Dropping(n) == cfg.store = "memory" /\ victim = [node |-> n, freed |-> TRUE]

(* A reader sees a node only if some put of its tensors was complete, over *)
(* superseded handles, failed puts, evictions and restarts.  An eviction   *)
(* from memory breaks this of its node until it ends, and of no other, nor *)
(* does it leave behind a handle that a put publishes after the free.      *)
PublishedWritten == \A n \in Nodes : HasKV(n) => kv[n] \in {"whole", "torn"} \/ Dropping(n)

(* ref_count is the number of materializations under way, whatever their   *)
(* outcome: a failed read leaks no reference.                              *)
RefsBalanced ==
  \A n \in Nodes :
    refs[n] = Cardinality({s \in Sessions : ph[s] = "read" /\ n \in WindowPath(parent[s])})

(* One session at a time, no eviction, no restart: what is published is    *)
(* whole, although the worker lags behind and puts may fail, and a hit     *)
(* never breaks while it is being materialized.                            *)
SerialHitsSound ==
  ~cfg.overlap /\ ~cfg.evicts /\ ~cfg.restarts =>
    /\ \A n \in Nodes : HasKV(n) => kv[n] = "whole"
    /\ \A s \in Sessions : ph[s] = "read" => \A n \in unread[s] : ~Broken(n)

(* A session that started is over at some point: the worker survives       *)
(* failing puts, so a full queue holds nobody up for ever.                 *)
SessionEnds == \A s \in Sessions : ph[s] # "off" ~> ph[s] = "off"

-----------------------------------------------------------------------------
(* A claim of the sources that the code does not keep; see README.         *)

(* trie.py:183-184, after load_snapshot "a new process can hit on lookup   *)
(* and materialize from the persistent store".                             *)
LoadedReadable ==
  (\A s \in Sessions : ph[s] = "off") /\ writing = {} =>
    \A n \in Nodes : HasKV(n) => kv[n] = "whole" /\ Located(n)
=============================================================================
