---------------------------- MODULE CacheService ----------------------------
(***************************************************************************)
(* The write-behind lifecycle of cacheseek.service.lifecycle.CacheService: *)
(* save() reserves a slot of the vector-update barrier and hands the save  *)
(* to a bounded queue; one worker thread drains the queue; lookup() waits  *)
(* for the barrier before it consults the strategies; shutdown() stops the *)
(* worker, drains what is left and closes the strategies.                  *)
(*                                                                         *)
(* What Strategy.save and Strategy.lookup do with their stores is left to  *)
(* other modules: here a strategy call starts, may suspend, and returns.   *)
(***************************************************************************)
EXTENDS Naturals, Sequences, FiniteSets

CONSTANTS Saves,          \* save() call slots; a slot is reused once its call is settled
          Lookups,        \* concurrent lookup() callers
          NumStrategies,  \* len(self._strategies)
          QueueSize,      \* max_queue_size; 0 is queue.Queue's "unbounded"
          Configs         \* the constructor arguments a run ranges over

(* The constructor arguments.  timed says vector_wait_timeout_s > 0; yields *)
(* that Strategy.save has a real await; late that callers may still call    *)
(* save() once shutdown() has begun.                                        *)
ConfigType == [mode : STRING, onFull : STRING, async : BOOLEAN, flush : BOOLEAN,
               timed : BOOLEAN, yields : BOOLEAN, late : BOOLEAN]

ASSUME ServiceAssumption ==
  /\ IsFiniteSet(Saves)
  /\ NumStrategies \in Nat \ {0}
  /\ QueueSize \in Nat
  /\ Configs \subseteq ConfigType

VARIABLES cfg,       \* the configuration, fixed by the constructor
          ph,        \* ph[s]: how far the save() call of slot s has come
          by,        \* by[s]: the thread that drives the save: its client, the worker, shutdown()
          queue,     \* _save_queue, slots in FIFO order
          pending,   \* _pending_vector_updates
          idle,      \* _vector_update_idle.is_set()
          worker,    \* the save worker: "check", "get", "run", "exited"
          shut,      \* shutdown(): "up", "join", "flush", "run", "close", "down"
          orphaned,  \* shutdown() gave up on a worker that was still alive
          lk,        \* lk[l]: how far lookup l has come, or its last result
          at,        \* at[l]: the strategy lookup l consults next
          owed,      \* history: saves accepted before lookup l and still unwritten
          promised   \* history: saves handed to the queue before shutdown(), still unwritten

serviceVars == <<ph, by, queue, pending, idle, worker, shut, orphaned, promised>>
lookupVars  == <<lk, at>>
vars == <<cfg, ph, by, queue, pending, idle, worker, shut, orphaned, lk, at, owed, promised>>

Phases == {"idle", "put", "queued", "run", "thread", "ran", "stray"}

-----------------------------------------------------------------------------
(* An unknown cache_mode means read_write, an unknown on_full means drop.  *)
NormalizeCacheMode(v) == IF v \in {"read_write", "read_only", "write_only"} THEN v ELSE "read_write"
NormalizeOnFull(v) == IF v \in {"drop", "downgrade", "block", "sync"} THEN v ELSE "drop"
Mode   == NormalizeCacheMode(cfg.mode)
OnFull == NormalizeOnFull(cfg.onFull)

(* The worker thread exists only with async_save.                          *)
Init ==
  /\ cfg \in Configs
  /\ ph = [s \in Saves |-> "idle"]
  /\ by = [s \in Saves |-> "client"]
  /\ queue = <<>>
  /\ pending = 0
  /\ idle = TRUE
  /\ worker = IF cfg.async THEN "check" ELSE "exited"
  /\ shut = "up"
  /\ orphaned = FALSE
  /\ lk = [l \in Lookups |-> "idle"]
  /\ at = [l \in Lookups |-> 1]
  /\ owed = [l \in Lookups |-> {}]
  /\ promised = {}

InFlight   == {s \in Saves : ph[s] \in {"put", "queued", "run", "thread", "ran"}}
Unwritten  == {s \in Saves : ph[s] \in {"put", "queued", "run", "thread", "stray"}}

Reserve == /\ pending' = pending + 1
           /\ idle' = FALSE

(* Mutant: sets the event at every release, not only at the last one.      *)
ReleaseAlwaysSets == /\ pending' = IF pending > 0 THEN pending - 1 ELSE 0
                     /\ idle' = TRUE

Release == /\ pending' = IF pending > 0 THEN pending - 1 ELSE 0
           /\ idle' = (idle \/ pending' = 0)

(* Strategy.save of s is over: nobody waits for its write any more.        *)
Written(s) == /\ owed' = [l \in Lookups |-> owed[l] \ {s}]
              /\ promised' = promised \ {s}

(* Mutant: lets one item too many in.                                      *)
QueueFullOffByOne == QueueSize > 0 /\ Len(queue) > QueueSize

QueueFull == QueueSize > 0 /\ Len(queue) >= QueueSize

-----------------------------------------------------------------------------
(* save().  Under read_only it returns at once and changes nothing.        *)

SaveCall(s) ==
  /\ Mode # "read_only"
  /\ ph[s] = "idle"
  /\ cfg.late \/ shut = "up"
  /\ Reserve
  /\ ph' = [ph EXCEPT ![s] = IF cfg.async THEN "put" ELSE "run"]
  /\ UNCHANGED <<cfg, by, queue, worker, shut, orphaned, lookupVars, owed, promised>>

(* put / put_nowait: the blocking policy waits for room, which is this     *)
(* action not being enabled.                                               *)
Enqueue(s) ==
  /\ ph[s] = "put"
  /\ ~QueueFull
  /\ queue' = Append(queue, s)
  /\ ph' = [ph EXCEPT ![s] = "queued"]
  /\ UNCHANGED <<cfg, by, pending, idle, worker, shut, orphaned, lookupVars, owed, promised>>

(* Mutant: a dropped save keeps its slot.                                  *)
DropKeepsSlot(s) ==
  /\ ph[s] = "put"
  /\ QueueFull
  /\ OnFull \in {"drop", "downgrade"}
  /\ ph' = [ph EXCEPT ![s] = "idle"]
  /\ Written(s)
  /\ UNCHANGED <<cfg, by, queue, pending, idle, worker, shut, orphaned, lookupVars>>

DropOnFull(s) ==
  /\ ph[s] = "put"
  /\ QueueFull
  /\ OnFull \in {"drop", "downgrade"}
  /\ Release
  /\ ph' = [ph EXCEPT ![s] = "idle"]
  /\ Written(s)
  /\ UNCHANGED <<cfg, by, queue, worker, shut, orphaned, lookupVars>>

SyncOnFull(s) ==
  /\ ph[s] = "put"
  /\ QueueFull
  /\ OnFull = "sync"
  /\ ph' = [ph EXCEPT ![s] = "run"]
  /\ UNCHANGED <<cfg, by, queue, pending, idle, worker, shut, orphaned, lookupVars, owed, promised>>

-----------------------------------------------------------------------------
(* _safe_strategy_save and _run_save_inline, whoever drives them.          *)

(* strat.save returned, or raised and the error was swallowed.             *)
StrategySaveReturns(s) ==
  /\ ph[s] = "run"
  /\ ph' = [ph EXCEPT ![s] = "ran"]
  /\ Written(s)
  /\ UNCHANGED <<cfg, by, queue, pending, idle, worker, shut, orphaned, lookupVars>>

(* Only the worker and a synchronous service own an event loop: any other  *)
(* driver closes the suspended coroutine and starts over on a new thread.  *)
CoroutineYields(s) ==
  /\ ph[s] = "run"
  /\ cfg.yields
  /\ cfg.async
  /\ by[s] # "worker"
  /\ ph' = [ph EXCEPT ![s] = "thread"]
  /\ UNCHANGED <<cfg, by, queue, pending, idle, worker, shut, orphaned, lookupVars, owed, promised>>

FallbackThreadReturns(s) ==
  /\ ph[s] = "thread"
  /\ ph' = [ph EXCEPT ![s] = "ran"]
  /\ Written(s)
  /\ UNCHANGED <<cfg, by, queue, pending, idle, worker, shut, orphaned, lookupVars>>

(* The driver goes on: the worker to its loop test, shutdown() to the next *)
(* queued item, a client out of save().                                    *)
DriverContinues(s) ==
  /\ worker' = IF by[s] = "worker" THEN "check" ELSE worker
  /\ shut' = IF by[s] = "shutdown" THEN "flush" ELSE shut
  /\ by' = [by EXCEPT ![s] = "client"]

(* thread.join(timeout=30) expired: the barrier opens all the same.        *)
FallbackJoinTimeout(s) ==
  /\ ph[s] = "thread"
  /\ ph' = [ph EXCEPT ![s] = "stray"]
  /\ Release
  /\ DriverContinues(s)
  /\ UNCHANGED <<cfg, queue, orphaned, lookupVars, owed, promised>>

StrayReturns(s) ==
  /\ ph[s] = "stray"
  /\ ph' = [ph EXCEPT ![s] = "idle"]
  /\ Written(s)
  /\ UNCHANGED <<cfg, by, queue, pending, idle, worker, shut, orphaned, lookupVars>>

(* The finally clause of whoever drove the save.                           *)
ReleaseSlot(s) ==
  /\ ph[s] = "ran"
  /\ ph' = [ph EXCEPT ![s] = "idle"]
  /\ Release
  /\ DriverContinues(s)
  /\ UNCHANGED <<cfg, queue, orphaned, lookupVars, owed, promised>>

-----------------------------------------------------------------------------
(* _save_worker_loop: test the stop event, wait up to 0.5 s for an item.   *)

Stopped == shut # "up"

(* Mutant: the worker loops for ever.                                      *)
WorkerNeverStops ==
  /\ worker = "check"
  /\ worker' = "get"
  /\ UNCHANGED <<cfg, ph, by, queue, pending, idle, shut, orphaned, lookupVars, owed, promised>>

WorkerCheck ==
  /\ worker = "check"
  /\ worker' = IF Stopped THEN "exited" ELSE "get"
  /\ UNCHANGED <<cfg, ph, by, queue, pending, idle, shut, orphaned, lookupVars, owed, promised>>

(* Mutant: break instead of continue when the queue is empty.              *)
WorkerGivesUp ==
  /\ worker = "get"
  /\ queue = <<>>
  /\ worker' = "exited"
  /\ UNCHANGED <<cfg, ph, by, queue, pending, idle, shut, orphaned, lookupVars, owed, promised>>

WorkerGetTimeout ==
  /\ worker = "get"
  /\ queue = <<>>
  /\ worker' = "check"
  /\ UNCHANGED <<cfg, ph, by, queue, pending, idle, shut, orphaned, lookupVars, owed, promised>>

(* Mutant: reads the head without removing it.                             *)
PeekItem(d) ==
  /\ queue # <<>>
  /\ queue' = queue
  /\ ph' = [ph EXCEPT ![Head(queue)] = "run"]
  /\ by' = [by EXCEPT ![Head(queue)] = d]

(* Queue.get / get_nowait by driver d.                                     *)
TakeItem(d) ==
  /\ queue # <<>>
  /\ queue' = Tail(queue)
  /\ ph' = [ph EXCEPT ![Head(queue)] = "run"]
  /\ by' = [by EXCEPT ![Head(queue)] = d]

WorkerGet ==
  /\ worker = "get"
  /\ TakeItem("worker")
  /\ worker' = "run"
  /\ UNCHANGED <<cfg, pending, idle, shut, orphaned, lookupVars, owed, promised>>

-----------------------------------------------------------------------------
(* shutdown(), called once.                                                *)

ShutdownCall ==
  /\ shut = "up"
  /\ shut' = IF cfg.async THEN "join" ELSE "close"
  /\ promised' = {s \in Saves : ph[s] = "queued" \/ (ph[s] = "run" /\ by[s] = "worker")}
  /\ UNCHANGED <<cfg, ph, by, queue, pending, idle, worker, orphaned, lookupVars, owed>>

(* Mutant: flushes without asking whether the worker is still alive.       *)
JoinUnchecked ==
  /\ shut = "join"
  /\ shut' = IF cfg.flush THEN "flush" ELSE "close"
  /\ UNCHANGED <<cfg, ph, by, queue, pending, idle, worker, orphaned, lookupVars, owed, promised>>

JoinWorker ==
  /\ shut = "join"
  /\ worker = "exited"
  /\ shut' = IF cfg.flush THEN "flush" ELSE "close"
  /\ UNCHANGED <<cfg, ph, by, queue, pending, idle, worker, orphaned, lookupVars, owed, promised>>

(* join(timeout=30) expired: no flush, but the strategies are closed.      *)
JoinTimeout ==
  /\ shut = "join"
  /\ worker # "exited"
  /\ shut' = "close"
  /\ orphaned' = TRUE
  /\ UNCHANGED <<cfg, ph, by, queue, pending, idle, worker, lookupVars, owed, promised>>

FlushTake ==
  /\ shut = "flush"
  /\ TakeItem("shutdown")
  /\ shut' = "run"
  /\ UNCHANGED <<cfg, pending, idle, worker, orphaned, lookupVars, owed, promised>>

(* Mutant: leaves the flush loop with items in the queue.                  *)
FlushStopsEarly ==
  /\ shut = "flush"
  /\ shut' = "close"
  /\ UNCHANGED <<cfg, ph, by, queue, pending, idle, worker, orphaned, lookupVars, owed, promised>>

FlushDone ==
  /\ shut = "flush"
  /\ queue = <<>>
  /\ shut' = "close"
  /\ UNCHANGED <<cfg, ph, by, queue, pending, idle, worker, orphaned, lookupVars, owed, promised>>

CloseStrategies ==
  /\ shut = "close"
  /\ shut' = "down"
  /\ UNCHANGED <<cfg, ph, by, queue, pending, idle, worker, orphaned, lookupVars, owed, promised>>

-----------------------------------------------------------------------------
(* lookup()                                                                *)

(* Mutant: does not wait at the barrier.                                   *)
LookupNoBarrier(l) ==
  /\ lk[l] \in {"idle", "hit", "miss"}
  /\ Mode # "write_only"
  /\ lk' = [lk EXCEPT ![l] = "search"]
  /\ owed' = [owed EXCEPT ![l] = Unwritten]
  /\ UNCHANGED <<cfg, serviceVars, at>>

LookupCall(l) ==
  /\ lk[l] \in {"idle", "hit", "miss"}
  /\ Mode # "write_only"
  /\ lk' = [lk EXCEPT ![l] = IF idle THEN "search" ELSE "wait"]
  /\ owed' = [owed EXCEPT ![l] = Unwritten]
  /\ UNCHANGED <<cfg, serviceVars, at>>

LookupBypassed(l) ==
  /\ lk[l] \in {"idle", "hit", "miss"}
  /\ Mode = "write_only"
  /\ lk' = [lk EXCEPT ![l] = "miss"]
  /\ UNCHANGED <<cfg, serviceVars, at, owed>>

(* _wait_vector_updates_done polls the event ...                           *)
BarrierOpens(l) ==
  /\ lk[l] = "wait"
  /\ idle
  /\ lk' = [lk EXCEPT ![l] = "search"]
  /\ UNCHANGED <<cfg, serviceVars, at, owed>>

(* Mutant: tests the clock only while the event is set.                    *)
BarrierTimeoutLost(l) ==
  /\ lk[l] = "wait"
  /\ idle
  /\ cfg.timed
  /\ lk' = [lk EXCEPT ![l] = "stale"]
  /\ UNCHANGED <<cfg, serviceVars, at, owed>>

(* ... and gives up after vector_wait_timeout_s, if that is positive.      *)
BarrierTimeout(l) ==
  /\ lk[l] = "wait"
  /\ ~idle
  /\ cfg.timed
  /\ lk' = [lk EXCEPT ![l] = "stale"]
  /\ UNCHANGED <<cfg, serviceVars, at, owed>>

LookupEnds(l, result) ==
  /\ lk' = [lk EXCEPT ![l] = result]
  /\ at' = [at EXCEPT ![l] = 1]
  /\ owed' = [owed EXCEPT ![l] = {}]
  /\ UNCHANGED <<cfg, serviceVars>>

StrategyHit(l) ==
  /\ lk[l] \in {"search", "stale"}
  /\ LookupEnds(l, "hit")

(* A miss, or an exception, which is logged and counts as a miss.          *)
StrategyMiss(l) ==
  /\ lk[l] \in {"search", "stale"}
  /\ \/ /\ at[l] < NumStrategies
        /\ at' = [at EXCEPT ![l] = at[l] + 1]
        /\ UNCHANGED <<cfg, serviceVars, lk, owed>>
     \/ /\ at[l] = NumStrategies
        /\ LookupEnds(l, "miss")

-----------------------------------------------------------------------------
ClientStep(s) == Enqueue(s) \/ DropOnFull(s) \/ SyncOnFull(s)
SaveStep(s) == StrategySaveReturns(s) \/ FallbackThreadReturns(s) \/ StrayReturns(s) \/ ReleaseSlot(s)
WorkerStep == WorkerCheck \/ WorkerGetTimeout \/ WorkerGet
ShutdownStep == JoinWorker \/ FlushTake \/ FlushDone \/ CloseStrategies
LookupStep(l) == BarrierOpens(l) \/ BarrierTimeout(l) \/ StrategyHit(l) \/ StrategyMiss(l)

Next ==
  \/ \E s \in Saves : \/ SaveCall(s)
                      \/ ClientStep(s)
                      \/ SaveStep(s)
                      \/ CoroutineYields(s)
                      \/ FallbackJoinTimeout(s)
  \/ WorkerStep
  \/ ShutdownCall
  \/ ShutdownStep
  \/ JoinTimeout
  \/ \E l \in Lookups : LookupCall(l) \/ LookupBypassed(l) \/ LookupStep(l)

Spec == Init /\ [][Next]_vars

(* Threads that can run do run; strategy calls return; nobody is obliged   *)
(* to call anything, and no timeout but the barrier's is ever needed.      *)
Fairness ==
  /\ \A s \in Saves : WF_vars(ClientStep(s)) /\ WF_vars(SaveStep(s))
  /\ WF_vars(WorkerStep)
  /\ WF_vars(ShutdownStep)
  /\ \A l \in Lookups : WF_vars(LookupStep(l))

FairSpec == Spec /\ Fairness

-----------------------------------------------------------------------------
(* Properties.                                                             *)

Queued == {s \in Saves : ph[s] = "queued"}
Driven == {s \in Saves : ph[s] \in {"run", "thread", "ran"}}

(* Every variable keeps its type, and queue.Queue its maxsize.             *)
TypeOK ==
  /\ cfg \in Configs
  /\ ph \in [Saves -> Phases]
  /\ by \in [Saves -> {"client", "worker", "shutdown"}]
  /\ queue \in Seq(Saves)
  /\ QueueSize > 0 => Len(queue) <= QueueSize
  /\ pending \in Nat
  /\ idle \in BOOLEAN
  /\ worker \in {"check", "get", "run", "exited"}
  /\ shut \in {"up", "join", "flush", "run", "close", "down"}
  /\ orphaned \in BOOLEAN
  /\ lk \in [Lookups -> {"idle", "wait", "search", "stale", "hit", "miss"}]
  /\ at \in [Lookups -> 1..NumStrategies]
  /\ owed \in [Lookups -> SUBSET Saves]
  /\ promised \in SUBSET Saves

(* The barrier counts exactly the saves that are reserved and not yet      *)
(* released, on every path a save can take (worker, drop, sync, fallback   *)
(* thread, flush), and its event is set exactly when there is none.        *)
BarrierCounts ==
  /\ pending = Cardinality(InFlight)
  /\ idle <=> (InFlight = {})

(* A lookup that did not time out consults the strategies only once every  *)
(* save accepted before the lookup has been written, unless the fallback   *)
(* thread's 30 s join gave up on it (lifecycle.py 88-90, 200-203).         *)
HotReads ==
  \A l \in Lookups : lk[l] = "search" => \A s \in owed[l] : ph[s] = "stray"

(* Saves that went through the queue are driven one at a time: the worker  *)
(* and the flush of shutdown() never save at the same time, and neither is *)
(* inside Strategy.save once the strategies are being closed, unless the   *)
(* worker outlived its join.                                               *)
OneDriver ==
  /\ \A s, t \in Driven : by[s] # "client" /\ by[t] # "client" => s = t
  /\ shut \in {"close", "down"} /\ ~orphaned => \A s \in Driven : by[s] = "client"

(* With flush_on_shutdown, when shutdown() gets to closing the strategies, *)
(* every save handed to the queue before shutdown() was called is written, *)
(* unless the worker outlived its join.                                    *)
FlushedBeforeClose ==
  shut \in {"close", "down"} /\ cfg.async /\ cfg.flush /\ ~orphaned
    => \A s \in promised : ph[s] = "stray"

(* A save is taken from the queue at most once per save() call, and only   *)
(* by the worker before it saw the stop event, or by the flush after the   *)
(* worker is gone.                                                         *)
TakesQueued ==
  \A s \in Saves : ph'[s] = "run" /\ by'[s] # "client" /\ ph[s] # "run"
    => /\ ph[s] = "queued"
       /\ by'[s] = "worker" <=> worker # "exited"

TakenOnce == [][TakesQueued]_vars

(* An accepted save does not rot in the queue, whatever other callers do,  *)
(* as long as shutdown() does not cut it short: by not flushing, by giving *)
(* up on the worker, or by having begun before the save was queued.        *)
QueuedSaveRuns ==
  \A s \in Saves : (ph[s] = "queued" /\ shut = "up")
                     ~> (ph[s] # "queued" \/ (shut # "up" /\ (~cfg.flush \/ orphaned)))

(* lookup() returns however much is being saved and whenever shutdown()    *)
(* happens, thanks to vector_wait_timeout_s alone (lifecycle.py 324-331).  *)
LookupReturns ==
  \A l \in Lookups : (lk[l] = "wait" /\ cfg.timed) ~> (lk[l] \in {"hit", "miss"})

(* shutdown() returns if callers stop saving once it has begun.            *)
ShutdownReturns == (shut = "join" /\ ~cfg.late) ~> (shut = "down")

(* The counter, the event and the lock implement the set-valued barrier.   *)
Barrier == INSTANCE SaveBarrier WITH
  Readers <- Lookups,
  outstanding <- InFlight,
  reader <- [l \in Lookups |-> CASE lk[l] = "wait" -> "waiting"
                                 [] lk[l] = "search" -> "admitted"
                                 [] lk[l] = "stale" -> "gaveUp"
                                 [] OTHER -> "out"]

ImplementsBarrier == Barrier!Spec

=============================================================================
