------------------------- MODULE CacheServiceProofs -------------------------
(***************************************************************************)
(* Proofs about CacheService, for every set of saves and lookups, every    *)
(* queue size and every configuration.                                     *)
(***************************************************************************)
EXTENDS CacheService, FiniteSetTheorems, TLAPS

(***************************************************************************)
(* Every variable keeps its type, and the save queue never grows beyond    *)
(* its maxsize.                                                            *)
(***************************************************************************)
THEOREM TypeCorrect == Spec => []TypeOK
<1> USE ServiceAssumption
<1>1. Init => TypeOK
  <2> SUFFICES ASSUME Init PROVE TypeOK
    OBVIOUS
  <2>1. worker \in {"check", "exited"}
    BY DEF Init
  <2>2. queue \in Seq(Saves) /\ Len(queue) = 0
    BY DEF Init
  <2>3. 1 \in 1..NumStrategies
    OBVIOUS
  <2>4. /\ at \in [Lookups -> 1..NumStrategies]
        /\ owed \in [Lookups -> SUBSET Saves]
        /\ lk \in [Lookups -> {"idle", "wait", "search", "stale", "hit", "miss"}]
    BY <2>3 DEF Init
  <2>5. /\ ph \in [Saves -> Phases]
        /\ by \in [Saves -> {"client", "worker", "shutdown"}]
        /\ promised \in SUBSET Saves
    BY DEF Init, Phases
  <2>6. /\ cfg \in Configs
        /\ pending \in Nat
        /\ idle \in BOOLEAN
        /\ orphaned \in BOOLEAN
        /\ shut \in {"up", "join", "flush", "run", "close", "down"}
    BY DEF Init
  <2>7. QED
    BY <2>1, <2>2, <2>4, <2>5, <2>6 DEF TypeOK
<1>2. TypeOK /\ [Next]_vars => TypeOK'
  <2> SUFFICES ASSUME TypeOK, [Next]_vars PROVE TypeOK'
    OBVIOUS
  <2> USE DEF TypeOK, Phases
  <2>1. ASSUME NEW s \in Saves, SaveCall(s) PROVE TypeOK'
    <3>1. \E p \in {"put", "run"} : ph' = [ph EXCEPT ![s] = p]
      BY <2>1 DEF SaveCall
    <3>2. pending' = pending + 1 /\ idle' \in BOOLEAN
      BY <2>1 DEF SaveCall, Reserve
    <3>3. UNCHANGED <<cfg, by, queue, worker, shut, orphaned, lk, at, owed, promised>>
      BY <2>1 DEF SaveCall, Reserve, lookupVars
    <3>4. ph' \in [Saves -> Phases]
      BY <3>1
    <3>5. pending' \in Nat
      BY <3>2
    <3>6. QED
      BY <3>2, <3>3, <3>4, <3>5
  <2>2. ASSUME NEW s \in Saves, Enqueue(s) PROVE TypeOK'
    BY <2>2 DEF Enqueue, QueueFull, lookupVars
  <2>3. ASSUME NEW s \in Saves, DropOnFull(s) PROVE TypeOK'
    BY <2>3 DEF DropOnFull, Release, Written, lookupVars
  <2>4. ASSUME NEW s \in Saves, SyncOnFull(s) PROVE TypeOK'
    BY <2>4 DEF SyncOnFull, lookupVars
  <2>5. ASSUME NEW s \in Saves, StrategySaveReturns(s) PROVE TypeOK'
    BY <2>5 DEF StrategySaveReturns, Written, lookupVars
  <2>6. ASSUME NEW s \in Saves, CoroutineYields(s) PROVE TypeOK'
    BY <2>6 DEF CoroutineYields, lookupVars
  <2>7. ASSUME NEW s \in Saves, FallbackThreadReturns(s) PROVE TypeOK'
    BY <2>7 DEF FallbackThreadReturns, Written, lookupVars
  <2>8. ASSUME NEW s \in Saves, FallbackJoinTimeout(s) PROVE TypeOK'
    BY <2>8 DEF FallbackJoinTimeout, Release, DriverContinues, lookupVars
  <2>9. ASSUME NEW s \in Saves, StrayReturns(s) PROVE TypeOK'
    BY <2>9 DEF StrayReturns, Written, lookupVars
  <2>10. ASSUME NEW s \in Saves, ReleaseSlot(s) PROVE TypeOK'
    BY <2>10 DEF ReleaseSlot, Release, DriverContinues, lookupVars
  <2>11. CASE WorkerCheck
    BY <2>11 DEF WorkerCheck, lookupVars
  <2>12. CASE WorkerGetTimeout
    BY <2>12 DEF WorkerGetTimeout, lookupVars
  <2>13. CASE WorkerGet
    BY <2>13 DEF WorkerGet, TakeItem, lookupVars
  <2>14. CASE ShutdownCall
    BY <2>14 DEF ShutdownCall, lookupVars
  <2>15. CASE JoinWorker
    BY <2>15 DEF JoinWorker, lookupVars
  <2>16. CASE JoinTimeout
    BY <2>16 DEF JoinTimeout, lookupVars
  <2>17. CASE FlushTake
    BY <2>17 DEF FlushTake, TakeItem, lookupVars
  <2>18. CASE FlushDone
    BY <2>18 DEF FlushDone, lookupVars
  <2>19. CASE CloseStrategies
    BY <2>19 DEF CloseStrategies, lookupVars
  <2>20. ASSUME NEW l \in Lookups, LookupCall(l) PROVE TypeOK'
    BY <2>20 DEF LookupCall, Unwritten, serviceVars
  <2>21. ASSUME NEW l \in Lookups, LookupBypassed(l) PROVE TypeOK'
    BY <2>21 DEF LookupBypassed, serviceVars
  <2>22. ASSUME NEW l \in Lookups, LookupStep(l) PROVE TypeOK'
    <3>1. CASE BarrierOpens(l)
      BY <3>1 DEF BarrierOpens, serviceVars
    <3>2. CASE BarrierTimeout(l)
      BY <3>2 DEF BarrierTimeout, serviceVars
    <3>3. CASE StrategyHit(l)
      BY <3>3 DEF StrategyHit, LookupEnds, serviceVars
    <3>4. CASE StrategyMiss(l)
      <4>1. /\ at' \in [Lookups -> 1..NumStrategies]
            /\ lk' \in [Lookups -> {"idle", "wait", "search", "stale", "hit", "miss"}]
            /\ owed' \in [Lookups -> SUBSET Saves]
        <5>1. CASE at[l] < NumStrategies
          <6>1. at' = [at EXCEPT ![l] = at[l] + 1] /\ UNCHANGED <<lk, owed>>
            BY <3>4, <5>1 DEF StrategyMiss, LookupEnds, serviceVars
          <6>2. at[l] + 1 \in 1..NumStrategies
            BY <5>1
          <6>3. QED
            BY <6>1, <6>2
        <5>2. CASE ~(at[l] < NumStrategies)
          <6>1. LookupEnds(l, "miss")
            BY <3>4, <5>2, Zenon DEF StrategyMiss
          <6>2. QED
            BY <6>1 DEF LookupEnds
        <5>3. QED
          BY <5>1, <5>2
      <4>2. UNCHANGED <<cfg, ph, by, queue, pending, idle, worker, shut, orphaned, promised>>
        BY <3>4 DEF StrategyMiss, LookupEnds, serviceVars
      <4>3. QED
        BY <4>1, <4>2
    <3>5. QED
      BY <2>22, <3>1, <3>2, <3>3, <3>4 DEF LookupStep
  <2>23. CASE UNCHANGED vars
    BY <2>23 DEF vars
  <2>24. QED
    BY <2>1, <2>2, <2>3, <2>4, <2>5, <2>6, <2>7, <2>8, <2>9, <2>10, <2>11, <2>12, <2>13,
       <2>14, <2>15, <2>16, <2>17, <2>18, <2>19, <2>20, <2>21, <2>22, <2>23
    DEF Next, ClientStep, SaveStep, WorkerStep, ShutdownStep
<1>3. QED
  BY <1>1, <1>2, PTL DEF Spec

-----------------------------------------------------------------------------
(***************************************************************************)
(* The queue holds exactly the slots whose save is queued, each once.      *)
(***************************************************************************)
QueueInv ==
  /\ \A i \in 1..Len(queue) : ph[queue[i]] = "queued"
  /\ \A i, j \in 1..Len(queue) : queue[i] = queue[j] => i = j
  /\ \A s \in Saves : ph[s] = "queued" => \E i \in 1..Len(queue) : queue[i] = s

(* Taking the head of the queue starts a queued save and no other.         *)
LEMMA TakeItemFacts ==
  ASSUME TypeOK, QueueInv, NEW d, TakeItem(d)
  PROVE  /\ Head(queue) \in Saves
         /\ ph[Head(queue)] = "queued"
         /\ ph' = [ph EXCEPT ![Head(queue)] = "run"]
         /\ by' = [by EXCEPT ![Head(queue)] = d]
         /\ QueueInv'
<1>1. /\ queue \in Seq(Saves)
      /\ Len(queue) \in Nat
      /\ Len(queue) > 0
      /\ Head(queue) = queue[1]
      /\ Len(queue') = Len(queue) - 1
      /\ \A i \in 1..Len(queue') : queue'[i] = queue[i + 1]
  BY DEF TakeItem, TypeOK
<1>2. Head(queue) \in Saves /\ ph[Head(queue)] = "queued"
  BY <1>1 DEF QueueInv
<1>3. /\ ph' = [ph EXCEPT ![Head(queue)] = "run"]
      /\ by' = [by EXCEPT ![Head(queue)] = d]
      /\ ph \in [Saves -> Phases]
  BY DEF TakeItem, TypeOK
<1>4. \A i \in 1..Len(queue') : /\ i + 1 \in 1..Len(queue)
                                /\ queue[i + 1] \in Saves
                                /\ queue[i + 1] # queue[1]
  BY <1>1 DEF QueueInv
<1>5. \A i \in 1..Len(queue') : ph'[queue'[i]] = "queued"
  BY <1>1, <1>2, <1>3, <1>4 DEF QueueInv
<1>6. \A i, j \in 1..Len(queue') : queue'[i] = queue'[j] => i = j
  BY <1>1, <1>4 DEF QueueInv
<1>7. ASSUME NEW s \in Saves, ph'[s] = "queued"
      PROVE  \E i \in 1..Len(queue') : queue'[i] = s
  <2>1. ph[s] = "queued" /\ s # queue[1]
    BY <1>1, <1>2, <1>3, <1>7
  <2>2. PICK j \in 1..Len(queue) : queue[j] = s
    BY <2>1 DEF QueueInv
  <2>3. j - 1 \in 1..Len(queue') /\ queue'[j - 1] = s
    BY <1>1, <2>1, <2>2
  <2>4. QED
    BY <2>3
<1>8. QED
  BY <1>2, <1>3, <1>5, <1>6, <1>7 DEF QueueInv

LEMMA QueueStep == TypeOK /\ QueueInv /\ [Next]_vars => QueueInv'
<1> SUFFICES ASSUME TypeOK, QueueInv, [Next]_vars PROVE QueueInv'
  OBVIOUS
<1>1. ASSUME UNCHANGED queue,
             \A s \in Saves : ph'[s] = "queued" <=> ph[s] = "queued"
      PROVE  QueueInv'
  <2>1. \A i \in 1..Len(queue) : queue[i] \in Saves
    BY DEF TypeOK
  <2>2. QED
    BY <1>1, <2>1 DEF QueueInv
<1>2. ASSUME UNCHANGED queue, NEW s \in Saves, NEW p \in Phases,
             ph[s] # "queued", p # "queued", ph' = [ph EXCEPT ![s] = p]
      PROVE  QueueInv'
  BY <1>1, <1>2 DEF TypeOK
<1>3. ASSUME NEW s \in Saves, SaveCall(s) PROVE QueueInv'
  <2>1. \E p \in {"put", "run"} : ph' = [ph EXCEPT ![s] = p]
    BY <1>3 DEF SaveCall
  <2>2. ph[s] = "idle" /\ UNCHANGED queue
    BY <1>3 DEF SaveCall
  <2>3. QED
    BY <1>2, <2>1, <2>2 DEF Phases
<1>4. ASSUME NEW s \in Saves, Enqueue(s) PROVE QueueInv'
  <2>1. /\ Len(queue) \in Nat
        /\ Len(queue') = Len(queue) + 1
        /\ queue'[Len(queue) + 1] = s
        /\ \A i \in 1..Len(queue) : queue'[i] = queue[i] /\ queue[i] \in Saves
    BY <1>4 DEF Enqueue, TypeOK
  <2>2. ph[s] = "put" /\ ph' = [ph EXCEPT ![s] = "queued"] /\ ph \in [Saves -> Phases]
    BY <1>4 DEF Enqueue, TypeOK
  <2>3. \A i \in 1..Len(queue') : i \in 1..Len(queue) \/ i = Len(queue) + 1
    BY <2>1
  <2>4. \A i \in 1..Len(queue) : queue[i] # s
    BY <2>2 DEF QueueInv
  <2>5. \A i \in 1..Len(queue') : ph'[queue'[i]] = "queued"
    BY <2>1, <2>2, <2>3, <2>4 DEF QueueInv
  <2>6. \A i, j \in 1..Len(queue') : queue'[i] = queue'[j] => i = j
    BY <2>1, <2>3, <2>4 DEF QueueInv
  <2>7. ASSUME NEW t \in Saves, ph'[t] = "queued"
        PROVE  \E i \in 1..Len(queue') : queue'[i] = t
    <3>1. CASE t = s
      BY <2>1, <3>1
    <3>2. CASE t # s
      <4>1. PICK i \in 1..Len(queue) : queue[i] = t
        BY <2>2, <2>7, <3>2 DEF QueueInv
      <4>2. i \in 1..Len(queue') /\ queue'[i] = t
        BY <2>1, <4>1
      <4>3. QED
        BY <4>2
    <3>3. QED
      BY <3>1, <3>2
  <2>8. QED
    BY <2>5, <2>6, <2>7 DEF QueueInv
<1>5. ASSUME NEW s \in Saves, ClientStep(s), ~Enqueue(s) PROVE QueueInv'
  BY <1>2, <1>5 DEF ClientStep, DropOnFull, SyncOnFull, Phases
<1>6. ASSUME NEW s \in Saves, SaveStep(s) PROVE QueueInv'
  BY <1>2, <1>6 DEF SaveStep, StrategySaveReturns, FallbackThreadReturns, StrayReturns,
                    ReleaseSlot, Phases
<1>7. ASSUME NEW s \in Saves, CoroutineYields(s) \/ FallbackJoinTimeout(s) PROVE QueueInv'
  BY <1>2, <1>7 DEF CoroutineYields, FallbackJoinTimeout, Phases
<1>8. CASE WorkerStep
  BY <1>1, <1>8, TakeItemFacts DEF WorkerStep, WorkerCheck, WorkerGetTimeout, WorkerGet
<1>9. CASE ShutdownStep
  BY <1>1, <1>9, TakeItemFacts DEF ShutdownStep, JoinWorker, FlushTake, FlushDone, CloseStrategies
<1>10. CASE ShutdownCall \/ JoinTimeout
  BY <1>1, <1>10 DEF ShutdownCall, JoinTimeout
<1>11. ASSUME NEW l \in Lookups, LookupCall(l) \/ LookupBypassed(l) \/ LookupStep(l)
       PROVE  QueueInv'
  <2>1. UNCHANGED serviceVars
    BY <1>11 DEF LookupCall, LookupBypassed, LookupStep, BarrierOpens, BarrierTimeout,
                 StrategyHit, StrategyMiss, LookupEnds
  <2>2. QED
    BY <1>1, <2>1 DEF serviceVars
<1>12. CASE UNCHANGED vars
  BY <1>1, <1>12 DEF vars
<1>13. QED
  BY <1>3, <1>4, <1>5, <1>6, <1>7, <1>8, <1>9, <1>10, <1>11, <1>12 DEF Next

-----------------------------------------------------------------------------
(***************************************************************************)
(* The counter and the event of the barrier describe the set of saves in   *)
(* flight: a step leaves all three alone, reserves one slot, or releases   *)
(* the slot of one save that holds one.                                    *)
(***************************************************************************)
LEMMA InFlightFinite == IsFiniteSet(InFlight) /\ Cardinality(InFlight) \in Nat
  BY ServiceAssumption, FS_Subset, FS_CardinalityType DEF InFlight

LEMMA ReserveCounts ==
  ASSUME BarrierCounts, NEW s \in Saves, s \notin InFlight,
         Reserve, InFlight' = InFlight \cup {s}
  PROVE  BarrierCounts'
<1>1. Cardinality(InFlight') = Cardinality(InFlight) + 1
  BY InFlightFinite, FS_AddElement
<1>2. pending' = Cardinality(InFlight)'
  BY <1>1 DEF BarrierCounts, Reserve
<1>3. ~idle' /\ InFlight' # {}
  BY DEF Reserve
<1>4. QED
  BY <1>2, <1>3 DEF BarrierCounts

LEMMA ReleaseCounts ==
  ASSUME BarrierCounts, NEW s \in Saves, s \in InFlight,
         Release, InFlight' = InFlight \ {s}
  PROVE  BarrierCounts'
<1>1. /\ Cardinality(InFlight') = Cardinality(InFlight) - 1
      /\ IsFiniteSet(InFlight')
      /\ Cardinality(InFlight') \in Nat
  BY InFlightFinite, FS_RemoveElement, FS_CardinalityType
<1>2. pending' = Cardinality(InFlight)'
  BY <1>1, InFlightFinite DEF BarrierCounts, Release
<1>3. pending' = 0 <=> InFlight' = {}
  BY <1>1, <1>2, FS_EmptySet
<1>4. idle' <=> pending' = 0
  BY DEF BarrierCounts, Release
<1>5. QED
  BY <1>2, <1>3, <1>4 DEF BarrierCounts

LEMMA BarrierStep == TypeOK /\ QueueInv /\ BarrierCounts /\ [Next]_vars => BarrierCounts'
<1> SUFFICES ASSUME TypeOK, QueueInv, BarrierCounts, [Next]_vars PROVE BarrierCounts'
  OBVIOUS
<1>1. ASSUME UNCHANGED <<pending, idle>>, InFlight' = InFlight PROVE BarrierCounts'
  BY <1>1 DEF BarrierCounts
<1>2. ASSUME NEW s \in Saves, NEW p \in Phases, ph' = [ph EXCEPT ![s] = p]
      PROVE  InFlight' = IF p \in {"idle", "stray"} THEN InFlight \ {s} ELSE InFlight \cup {s}
  BY <1>2 DEF TypeOK, InFlight, Phases
<1>3. ASSUME NEW s \in Saves, SaveCall(s) PROVE BarrierCounts'
  <2>1. PICK p \in {"put", "run"} : ph' = [ph EXCEPT ![s] = p]
    BY <1>3 DEF SaveCall
  <2>2. InFlight' = InFlight \cup {s}
    BY <1>2, <2>1 DEF Phases
  <2>3. s \notin InFlight /\ Reserve
    BY <1>3 DEF SaveCall, InFlight
  <2>4. QED
    BY <2>2, <2>3, ReserveCounts
<1>4. ASSUME NEW s \in Saves, NEW p \in {"idle", "stray"}, s \in InFlight, Release,
             ph' = [ph EXCEPT ![s] = p]
      PROVE  BarrierCounts'
  BY <1>2, <1>4, ReleaseCounts DEF Phases
<1>5. ASSUME NEW s \in Saves, NEW p \in Phases, UNCHANGED <<pending, idle>>,
             ph' = [ph EXCEPT ![s] = p], s \in InFlight, p \notin {"idle", "stray"}
      PROVE  BarrierCounts'
  <2>1. InFlight' = InFlight \cup {s}
    BY <1>2, <1>5
  <2>2. InFlight' = InFlight
    BY <2>1, <1>5
  <2>3. QED
    BY <1>1, <1>5, <2>2
<1>6. ASSUME NEW s \in Saves, ClientStep(s) PROVE BarrierCounts'
  <2>1. CASE DropOnFull(s)
    BY <1>4, <2>1 DEF DropOnFull, InFlight
  <2>2. CASE Enqueue(s)
    BY <1>5, <2>2 DEF Enqueue, InFlight, Phases
  <2>3. CASE SyncOnFull(s)
    BY <1>5, <2>3 DEF SyncOnFull, InFlight, Phases
  <2>4. QED
    BY <1>6, <2>1, <2>2, <2>3 DEF ClientStep
<1>7. ASSUME NEW s \in Saves, SaveStep(s) PROVE BarrierCounts'
  <2>1. CASE StrategySaveReturns(s)
    BY <1>5, <2>1 DEF StrategySaveReturns, InFlight, Phases
  <2>2. CASE FallbackThreadReturns(s)
    BY <1>5, <2>2 DEF FallbackThreadReturns, InFlight, Phases
  <2>3. CASE StrayReturns(s)
    <3>1. s \notin InFlight /\ InFlight' = InFlight \ {s}
      BY <1>2, <2>3 DEF StrayReturns, InFlight, Phases
    <3>2. QED
      BY <1>1, <2>3, <3>1 DEF StrayReturns
  <2>4. CASE ReleaseSlot(s)
    BY <1>4, <2>4 DEF ReleaseSlot, InFlight
  <2>5. QED
    BY <1>7, <2>1, <2>2, <2>3, <2>4 DEF SaveStep
<1>8. ASSUME NEW s \in Saves, CoroutineYields(s) PROVE BarrierCounts'
  BY <1>5, <1>8 DEF CoroutineYields, InFlight, Phases
<1>9. ASSUME NEW s \in Saves, FallbackJoinTimeout(s) PROVE BarrierCounts'
  BY <1>4, <1>9 DEF FallbackJoinTimeout, InFlight
<1>10. ASSUME NEW d, TakeItem(d), UNCHANGED <<pending, idle>> PROVE BarrierCounts'
  <2>1. Head(queue) \in Saves /\ ph[Head(queue)] = "queued"
    BY <1>10, TakeItemFacts
  <2>2. ph' = [ph EXCEPT ![Head(queue)] = "run"]
    BY <1>10 DEF TakeItem
  <2>3. QED
    BY <1>5, <1>10, <2>1, <2>2 DEF InFlight, Phases
<1>11. ASSUME UNCHANGED <<ph, pending, idle>> PROVE BarrierCounts'
  BY <1>1, <1>11 DEF InFlight
<1>12. CASE WorkerStep
  BY <1>10, <1>11, <1>12 DEF WorkerStep, WorkerCheck, WorkerGetTimeout, WorkerGet
<1>13. CASE ShutdownStep
  BY <1>10, <1>11, <1>13 DEF ShutdownStep, JoinWorker, FlushTake, FlushDone, CloseStrategies
<1>14. CASE ShutdownCall \/ JoinTimeout
  BY <1>11, <1>14 DEF ShutdownCall, JoinTimeout
<1>15. ASSUME NEW l \in Lookups, LookupCall(l) \/ LookupBypassed(l) \/ LookupStep(l)
       PROVE  BarrierCounts'
  <2>1. UNCHANGED serviceVars
    BY <1>15 DEF LookupCall, LookupBypassed, LookupStep, BarrierOpens, BarrierTimeout,
                 StrategyHit, StrategyMiss, LookupEnds
  <2>2. QED
    BY <1>11, <2>1 DEF serviceVars
<1>16. CASE UNCHANGED vars
  BY <1>11, <1>16 DEF vars
<1>17. QED
  BY <1>3, <1>6, <1>7, <1>8, <1>9, <1>12, <1>13, <1>14, <1>15, <1>16 DEF Next

(***************************************************************************)
(* The barrier counts exactly the saves in flight, and its event is set    *)
(* exactly when there is none (lifecycle.py 313-322).                      *)
(***************************************************************************)
THEOREM BarrierCorrect == Spec => [](QueueInv /\ BarrierCounts)
<1>1. Init => QueueInv
  BY DEF Init, QueueInv
<1>2. Init => BarrierCounts
  <2> SUFFICES ASSUME Init PROVE BarrierCounts
    OBVIOUS
  <2>1. InFlight = {}
    BY DEF Init, InFlight
  <2>2. pending = Cardinality(InFlight)
    BY <2>1, FS_EmptySet DEF Init
  <2>3. idle
    BY DEF Init
  <2>4. QED
    BY <2>1, <2>2, <2>3 DEF BarrierCounts
<1>3. QED
  BY <1>1, <1>2, QueueStep, BarrierStep, TypeCorrect, PTL DEF Spec

-----------------------------------------------------------------------------
(***************************************************************************)
(* What a lookup is owed is unwritten; once it was admitted in time, only  *)
(* abandoned fallback threads are left to write it.                        *)
(***************************************************************************)
OwedInv == /\ \A l \in Lookups : owed[l] \subseteq Unwritten
           /\ HotReads

LEMMA OwedStep == TypeOK /\ QueueInv /\ BarrierCounts /\ OwedInv /\ [Next]_vars => OwedInv'
<1> SUFFICES ASSUME TypeOK, QueueInv, BarrierCounts, OwedInv, [Next]_vars PROVE OwedInv'
  OBVIOUS
<1> USE DEF OwedInv, HotReads
<1>1. ASSUME UNCHANGED <<lk, owed>>, NEW s \in Saves, NEW p \in Phases,
             ph' = [ph EXCEPT ![s] = p], ph[s] # "stray",
             s \in Unwritten => p \in {"put", "queued", "run", "thread", "stray"}
      PROVE  OwedInv'
  <2>1. Unwritten \subseteq Unwritten'
    BY <1>1 DEF TypeOK, Unwritten
  <2>2. \A t \in Saves : ph[t] = "stray" => ph'[t] = "stray"
    BY <1>1 DEF TypeOK
  <2>3. owed \in [Lookups -> SUBSET Saves]
    BY DEF TypeOK
  <2>4. QED
    BY <1>1, <2>1, <2>2, <2>3
<1>2. ASSUME UNCHANGED lk, NEW s \in Saves, NEW p \in Phases, ph' = [ph EXCEPT ![s] = p], Written(s)
      PROVE  OwedInv'
  <2>1. \A t \in Saves : t # s => ph'[t] = ph[t]
    BY <1>2 DEF TypeOK
  <2>2. owed \in [Lookups -> SUBSET Saves] /\ owed' = [l \in Lookups |-> owed[l] \ {s}]
    BY <1>2 DEF TypeOK, Written
  <2>3. \A l \in Lookups : \A t \in owed'[l] : t \in owed[l] /\ t # s /\ t \in Saves
    BY <2>2
  <2>4. \A l \in Lookups : owed'[l] \subseteq Unwritten'
    BY <2>1, <2>3 DEF Unwritten
  <2>5. QED
    BY <1>2, <2>1, <2>3, <2>4
<1>3. ASSUME UNCHANGED <<ph, lk, owed>> PROVE OwedInv'
  BY <1>3 DEF Unwritten
<1>4. ASSUME NEW s \in Saves, SaveCall(s) PROVE OwedInv'
  <2>1. PICK p \in {"put", "run"} : ph' = [ph EXCEPT ![s] = p]
    BY <1>4 DEF SaveCall
  <2>2. ph[s] = "idle" /\ UNCHANGED <<lk, owed>>
    BY <1>4 DEF SaveCall, lookupVars
  <2>3. QED
    BY <1>1, <2>1, <2>2 DEF Phases
<1>5. ASSUME NEW s \in Saves, ClientStep(s) PROVE OwedInv'
  <2>1. CASE DropOnFull(s)
    BY <1>2, <2>1 DEF DropOnFull, lookupVars, Phases
  <2>2. CASE Enqueue(s)
    BY <1>1, <2>2 DEF Enqueue, lookupVars, Phases
  <2>3. CASE SyncOnFull(s)
    BY <1>1, <2>3 DEF SyncOnFull, lookupVars, Phases
  <2>4. QED
    BY <1>5, <2>1, <2>2, <2>3 DEF ClientStep
<1>6. ASSUME NEW s \in Saves, SaveStep(s) PROVE OwedInv'
  <2>1. CASE StrategySaveReturns(s) \/ FallbackThreadReturns(s) \/ StrayReturns(s)
    BY <1>2, <2>1 DEF StrategySaveReturns, FallbackThreadReturns, StrayReturns, lookupVars, Phases
  <2>2. CASE ReleaseSlot(s)
    <3>1. /\ ph' = [ph EXCEPT ![s] = "idle"]
          /\ ph[s] = "ran"
          /\ UNCHANGED <<lk, owed>>
      BY <2>2 DEF ReleaseSlot, lookupVars
    <3>2. s \notin Unwritten
      BY <3>1 DEF Unwritten
    <3>3. QED
      BY <1>1, <3>1, <3>2 DEF Phases
  <2>3. QED
    BY <1>6, <2>1, <2>2 DEF SaveStep
<1>7. ASSUME NEW s \in Saves, CoroutineYields(s) \/ FallbackJoinTimeout(s) PROVE OwedInv'
  BY <1>1, <1>7 DEF CoroutineYields, FallbackJoinTimeout, lookupVars, Phases
<1>8. ASSUME NEW d, TakeItem(d), UNCHANGED <<lk, owed>> PROVE OwedInv'
  BY <1>1, <1>8, TakeItemFacts DEF Phases
<1>9. CASE WorkerStep
  BY <1>3, <1>8, <1>9 DEF WorkerStep, WorkerCheck, WorkerGetTimeout, WorkerGet, lookupVars
<1>10. CASE ShutdownStep
  BY <1>3, <1>8, <1>10 DEF ShutdownStep, JoinWorker, FlushTake, FlushDone, CloseStrategies, lookupVars
<1>11. CASE ShutdownCall \/ JoinTimeout
  BY <1>3, <1>11 DEF ShutdownCall, JoinTimeout, lookupVars
<1>12. idle => \A s \in Unwritten : ph[s] = "stray"
  BY DEF BarrierCounts, Unwritten, InFlight
<1>13. ASSUME NEW l \in Lookups, LookupCall(l) PROVE OwedInv'
  <2>1. /\ lk' = [lk EXCEPT ![l] = IF idle THEN "search" ELSE "wait"]
        /\ owed' = [owed EXCEPT ![l] = Unwritten]
        /\ UNCHANGED ph
        /\ Unwritten' = Unwritten
    BY <1>13 DEF LookupCall, serviceVars, Unwritten
  <2>2. \A k \in Lookups : k # l => lk'[k] = lk[k] /\ owed'[k] = owed[k]
    BY <2>1 DEF TypeOK
  <2>3. owed'[l] = Unwritten /\ (lk'[l] = "search" => idle)
    BY <2>1 DEF TypeOK
  <2>4. QED
    BY <1>12, <2>1, <2>2, <2>3
<1>14. ASSUME NEW l \in Lookups, LookupBypassed(l) \/ BarrierTimeout(l) PROVE OwedInv'
  <2>1. UNCHANGED <<ph, owed>> /\ \E r \in {"miss", "stale"} : lk' = [lk EXCEPT ![l] = r]
    BY <1>14 DEF LookupBypassed, BarrierTimeout, serviceVars
  <2>2. Unwritten' = Unwritten
    BY <2>1 DEF Unwritten
  <2>3. QED
    BY <2>1, <2>2 DEF TypeOK
<1>15. ASSUME NEW l \in Lookups, BarrierOpens(l) PROVE OwedInv'
  <2>1. UNCHANGED <<ph, owed>> /\ lk' = [lk EXCEPT ![l] = "search"] /\ idle
    BY <1>15 DEF BarrierOpens, serviceVars
  <2>2. Unwritten' = Unwritten
    BY <2>1 DEF Unwritten
  <2>3. QED
    BY <1>12, <2>1, <2>2 DEF TypeOK
<1>16. ASSUME NEW l \in Lookups, NEW r \in {"hit", "miss"}, LookupEnds(l, r) PROVE OwedInv'
  <2>1. /\ UNCHANGED ph
        /\ owed' = [owed EXCEPT ![l] = {}]
        /\ lk' = [lk EXCEPT ![l] = r]
    BY <1>16 DEF LookupEnds, serviceVars
  <2>2. Unwritten' = Unwritten
    BY <2>1 DEF Unwritten
  <2>3. QED
    BY <2>1, <2>2 DEF TypeOK
<1>17. ASSUME NEW l \in Lookups, StrategyHit(l) \/ StrategyMiss(l) PROVE OwedInv'
  BY <1>3, <1>16, <1>17 DEF StrategyHit, StrategyMiss, serviceVars
<1>18. CASE UNCHANGED vars
  BY <1>3, <1>18 DEF vars
<1>19. QED
  BY <1>4, <1>5, <1>6, <1>7, <1>9, <1>10, <1>11, <1>13, <1>14, <1>15, <1>17, <1>18
  DEF Next, LookupStep

(***************************************************************************)
(* A lookup that did not time out sees every save accepted before it:      *)
(* lifecycle.py 88-90 and 200-203, for any number of saves and lookups.    *)
(***************************************************************************)
THEOREM HotReadsHold == Spec => []HotReads
<1>1. Init => OwedInv
  BY DEF Init, OwedInv, HotReads
<1>2. OwedInv => HotReads
  BY DEF OwedInv
<1>3. QED
  BY <1>1, <1>2, OwedStep, BarrierCorrect, TypeCorrect, PTL DEF Spec

-----------------------------------------------------------------------------
(***************************************************************************)
(* Who drives a save: the worker and shutdown() one each, and never both,  *)
(* because shutdown() flushes only after the worker is gone.               *)
(***************************************************************************)
DriverInv ==
  /\ \A s \in Saves : by[s] # "client" => s \in Driven
  /\ \A s \in Saves : by[s] = "worker" => worker = "run"
  /\ \A s \in Saves : by[s] = "shutdown" => shut = "run"
  /\ \A s, t \in Saves : by[s] # "client" /\ by[s] = by[t] => s = t
  /\ shut \in {"flush", "run"} => worker = "exited"
  /\ shut \in {"close", "down"} /\ ~orphaned => worker = "exited"
  /\ ~cfg.async => worker = "exited"

LEMMA DriverStep == TypeOK /\ QueueInv /\ DriverInv /\ [Next]_vars => DriverInv'
<1> SUFFICES ASSUME TypeOK, QueueInv, DriverInv, [Next]_vars PROVE DriverInv'
  OBVIOUS
<1> USE DEF DriverInv
<1>1. ASSUME UNCHANGED <<cfg, by, worker, shut, orphaned>>, NEW s \in Saves, NEW p \in Phases,
             ph' = [ph EXCEPT ![s] = p], by[s] # "client" => p \in {"run", "thread", "ran"}
      PROVE  DriverInv'
  BY <1>1 DEF Driven, TypeOK
<1>2. ASSUME UNCHANGED <<cfg, ph, by>>, Driven' = Driven,
             \/ worker' \in {"get", "check", "exited"} /\ worker \in {"get", "check"}
                  /\ UNCHANGED <<shut, orphaned>>
             \/ UNCHANGED worker /\ shut # "run" /\ shut' # "run"
                  /\ (shut' = "flush" => worker = "exited")
                  /\ (shut' \in {"close", "down"} /\ ~orphaned' => worker = "exited")
      PROVE  DriverInv'
  BY <1>2 DEF TypeOK
<1>3. ASSUME NEW s \in Saves, SaveCall(s) PROVE DriverInv'
  <2>1. PICK p \in {"put", "run"} : ph' = [ph EXCEPT ![s] = p]
    BY <1>3 DEF SaveCall
  <2>2. ph[s] = "idle" /\ UNCHANGED <<cfg, by, worker, shut, orphaned>>
    BY <1>3 DEF SaveCall
  <2>3. by[s] = "client"
    BY <2>2 DEF Driven
  <2>4. QED
    BY <1>1, <2>1, <2>2, <2>3 DEF Phases
<1>4. ASSUME NEW s \in Saves, ClientStep(s) PROVE DriverInv'
  <2>1. ph[s] = "put" /\ UNCHANGED <<cfg, by, worker, shut, orphaned>>
    BY <1>4 DEF ClientStep, Enqueue, DropOnFull, SyncOnFull
  <2>2. \E p \in Phases : ph' = [ph EXCEPT ![s] = p]
    BY <1>4 DEF ClientStep, Enqueue, DropOnFull, SyncOnFull, Phases
  <2>3. by[s] = "client"
    BY <2>1 DEF Driven
  <2>4. QED
    BY <1>1, <2>1, <2>2, <2>3
<1>5. ASSUME NEW s \in Saves, StrategySaveReturns(s) \/ CoroutineYields(s) \/ FallbackThreadReturns(s)
      PROVE  DriverInv'
  BY <1>1, <1>5 DEF StrategySaveReturns, CoroutineYields, FallbackThreadReturns, Phases
<1>6. ASSUME NEW s \in Saves, StrayReturns(s) PROVE DriverInv'
  <2>1. by[s] = "client"
    BY <1>6 DEF StrayReturns, Driven
  <2>2. QED
    BY <1>1, <1>6, <2>1 DEF StrayReturns, Phases
<1>7. ASSUME NEW s \in Saves, NEW p \in Phases, ph' = [ph EXCEPT ![s] = p], DriverContinues(s),
             UNCHANGED <<cfg, orphaned>>
      PROVE  DriverInv'
  <2>1. \A t \in Saves : t # s => by'[t] = by[t] /\ (t \in Driven => t \in Driven')
    BY <1>7 DEF TypeOK, DriverContinues, Driven
  <2>2. by'[s] = "client" /\ (\A t \in Saves : by'[t] # "client" => t # s)
    BY <1>7 DEF TypeOK, DriverContinues
  <2>3. \A t \in Saves : by'[t] = "worker" => worker' = "run"
    BY <1>7, <2>1, <2>2 DEF DriverContinues
  <2>4. \A t \in Saves : by'[t] = "shutdown" => shut' = "run"
    BY <1>7, <2>1, <2>2 DEF DriverContinues
  <2>5. /\ shut' \in {"flush", "run"} => worker' = "exited"
        /\ shut' \in {"close", "down"} /\ ~orphaned' => worker' = "exited"
        /\ ~cfg'.async => worker' = "exited"
    BY <1>7 DEF DriverContinues
  <2>6. QED
    BY <2>1, <2>2, <2>3, <2>4, <2>5
<1>8. ASSUME NEW s \in Saves, FallbackJoinTimeout(s) \/ ReleaseSlot(s) PROVE DriverInv'
  BY <1>7, <1>8 DEF FallbackJoinTimeout, ReleaseSlot, Phases
<1>9. ASSUME UNCHANGED <<cfg, ph, by, worker, shut, orphaned>> PROVE DriverInv'
  BY <1>9 DEF Driven
<1>10. CASE WorkerCheck \/ WorkerGetTimeout
  BY <1>2, <1>10 DEF WorkerCheck, WorkerGetTimeout, Driven
<1>11. CASE WorkerGet
  BY <1>11, TakeItemFacts DEF WorkerGet, TypeOK, Driven
<1>12. CASE FlushTake
  BY <1>12, TakeItemFacts DEF FlushTake, TypeOK, Driven
<1>13. CASE ShutdownCall
  BY <1>2, <1>13 DEF ShutdownCall, Driven
<1>14. CASE JoinWorker \/ JoinTimeout \/ FlushDone \/ CloseStrategies
  BY <1>2, <1>14 DEF JoinWorker, JoinTimeout, FlushDone, CloseStrategies, Driven
<1>15. ASSUME NEW l \in Lookups, LookupCall(l) \/ LookupBypassed(l) \/ LookupStep(l)
       PROVE  DriverInv'
  <2>1. UNCHANGED <<cfg, serviceVars>>
    BY <1>15 DEF LookupCall, LookupBypassed, LookupStep, BarrierOpens, BarrierTimeout,
                 StrategyHit, StrategyMiss, LookupEnds
  <2>2. QED
    BY <1>9, <2>1 DEF serviceVars
<1>16. CASE UNCHANGED vars
  BY <1>9, <1>16 DEF vars
<1>17. QED
  BY <1>3, <1>4, <1>5, <1>6, <1>8, <1>10, <1>11, <1>12, <1>13, <1>14, <1>15, <1>16
  DEF Next, SaveStep, WorkerStep, ShutdownStep

(***************************************************************************)
(* The worker and the flush never save at the same time, and nobody but a  *)
(* client is inside Strategy.save once the strategies are being closed and *)
(* the worker was joined (lifecycle.py 284-311).                           *)
(***************************************************************************)
THEOREM DriversCorrect == Spec => [](DriverInv /\ OneDriver)
<1>1. Init => DriverInv
  BY DEF Init, DriverInv
<1>2. TypeOK /\ DriverInv => OneDriver
  <2> SUFFICES ASSUME TypeOK, DriverInv PROVE OneDriver
    OBVIOUS
  <2>1. \A s \in Driven : s \in Saves /\ by[s] \in {"client", "worker", "shutdown"}
    BY DEF Driven, TypeOK
  <2>2. \A s, t \in Driven : by[s] # "client" /\ by[t] # "client" => s = t
    BY <2>1 DEF DriverInv
  <2>3. shut \in {"close", "down"} /\ ~orphaned => \A s \in Driven : by[s] = "client"
    BY <2>1 DEF DriverInv
  <2>4. QED
    BY <2>2, <2>3 DEF OneDriver
<1>3. QED
  BY <1>1, <1>2, DriverStep, BarrierCorrect, TypeCorrect, PTL DEF Spec

-----------------------------------------------------------------------------
(***************************************************************************)
(* A save handed to the queue before shutdown() stays in the hands of the  *)
(* queue, the worker or the flush until it is written; when the flush has  *)
(* found the queue empty there is none left.                               *)
(***************************************************************************)
Held(s) == \/ ph[s] \in {"queued", "stray"}
           \/ ph[s] \in {"run", "thread"} /\ by[s] # "client"

FlushInv == /\ \A s \in promised : Held(s)
            /\ FlushedBeforeClose

LEMMA FlushStep == TypeOK /\ QueueInv /\ DriverInv /\ FlushInv /\ [Next]_vars => FlushInv'
<1> SUFFICES ASSUME TypeOK, QueueInv, DriverInv, FlushInv, [Next]_vars PROVE FlushInv'
  OBVIOUS
<1> USE DEF FlushInv, FlushedBeforeClose, Held
<1> DEFINE Closed == shut \in {"close", "down"} /\ cfg.async /\ cfg.flush /\ ~orphaned
<1>0. ASSUME \A s \in promised' : Held(s)', Closed' => \A s \in promised' : ph'[s] = "stray"
      PROVE  FlushInv'
  BY <1>0, Zenon
<1>1. ASSUME UNCHANGED <<cfg, shut, orphaned, promised>>, NEW s \in Saves,
             NEW p \in Phases, ph' = [ph EXCEPT ![s] = p],
             \A t \in Saves : t # s => by'[t] = by[t],
             s \notin promised \/ (ph[s] # "stray" /\ p \in {"run", "thread"} /\ by'[s] # "client")
      PROVE  FlushInv'
  BY <1>1 DEF TypeOK
<1>2. ASSUME NEW s \in Saves, NEW p \in Phases, ph' = [ph EXCEPT ![s] = p], Written(s),
             UNCHANGED <<cfg, by, shut, orphaned>>
      PROVE  FlushInv'
  BY <1>2 DEF TypeOK, Written
<1>3. ASSUME NEW s \in Saves, SaveCall(s) PROVE FlushInv'
  <2>1. PICK p \in {"put", "run"} : ph' = [ph EXCEPT ![s] = p]
    BY <1>3 DEF SaveCall
  <2>2. ph[s] = "idle" /\ UNCHANGED <<cfg, by, shut, orphaned, promised>>
    BY <1>3 DEF SaveCall
  <2>3. QED
    BY <1>1, <2>1, <2>2 DEF Phases
<1>4. ASSUME NEW s \in Saves, ClientStep(s) PROVE FlushInv'
  <2>1. CASE DropOnFull(s)
    BY <1>2, <2>1 DEF DropOnFull, Phases
  <2>2. CASE Enqueue(s) \/ SyncOnFull(s)
    BY <1>1, <2>2 DEF Enqueue, SyncOnFull, Phases
  <2>3. QED
    BY <1>4, <2>1, <2>2 DEF ClientStep
<1>5. ASSUME NEW s \in Saves, StrategySaveReturns(s) \/ FallbackThreadReturns(s) \/ StrayReturns(s)
      PROVE  FlushInv'
  BY <1>2, <1>5 DEF StrategySaveReturns, FallbackThreadReturns, StrayReturns, Phases
<1>6. ASSUME NEW s \in Saves, CoroutineYields(s) PROVE FlushInv'
  BY <1>1, <1>6 DEF CoroutineYields, Phases
<1>7. ASSUME NEW s \in Saves, ReleaseSlot(s) \/ FallbackJoinTimeout(s) PROVE FlushInv'
  <2>1. /\ ph[s] \in {"ran", "thread"}
        /\ \E p \in {"idle", "stray"} : ph' = [ph EXCEPT ![s] = p] /\ (ph[s] = "thread" => p = "stray")
        /\ DriverContinues(s)
        /\ UNCHANGED <<cfg, orphaned, promised>>
    BY <1>7 DEF ReleaseSlot, FallbackJoinTimeout
  <2>2. ph[s] = "ran" => s \notin promised
    OBVIOUS
  <2>3. \A t \in Saves : t # s => ph'[t] = ph[t] /\ by'[t] = by[t]
    BY <2>1 DEF DriverContinues, TypeOK
  <2>4. s \in promised => ph'[s] = "stray"
    BY <2>1, <2>2 DEF TypeOK
  <2>5. shut' \in {"close", "down"} => shut = shut'
    BY <2>1 DEF DriverContinues
  <2>6. ASSUME NEW t \in promised'
        PROVE  Held(t)'
    <3>1. t \in promised /\ t \in Saves
      BY <2>1 DEF TypeOK
    <3>2. CASE t = s
      BY <2>4, <3>1, <3>2
    <3>3. CASE t # s
      BY <2>3, <3>1, <3>3
    <3>4. QED
      BY <3>2, <3>3
  <2>7. Closed' => Closed
    BY <2>1, <2>5
  <2>8. Closed' => \A t \in promised' : ph'[t] = "stray"
    BY <2>1, <2>3, <2>4, <2>7 DEF TypeOK
  <2>9. QED
    BY <1>0, <2>6, <2>8, Zenon
<1>8. ASSUME UNCHANGED <<cfg, ph, by, shut, orphaned, promised>> PROVE FlushInv'
  BY <1>8
<1>9. ASSUME NEW d \in {"worker", "shutdown"}, TakeItem(d), UNCHANGED <<cfg, orphaned, promised>>,
             shut' = shut \/ shut' = "run"
      PROVE  FlushInv'
  <2>1. /\ Head(queue) \in Saves
        /\ ph[Head(queue)] = "queued"
        /\ ph' = [ph EXCEPT ![Head(queue)] = "run"]
        /\ by' = [by EXCEPT ![Head(queue)] = d]
    BY <1>9, TakeItemFacts
  <2>2. QED
    BY <1>9, <2>1 DEF TypeOK
<1>10. CASE WorkerStep
  BY <1>8, <1>9, <1>10 DEF WorkerStep, WorkerCheck, WorkerGetTimeout, WorkerGet
<1>11. CASE FlushTake
  BY <1>9, <1>11 DEF FlushTake
<1>12. ASSUME UNCHANGED <<cfg, ph, by, promised>>, ~Closed' \/ (Closed /\ UNCHANGED <<queue>>)
       PROVE  FlushInv'
  BY <1>12
<1>13. CASE JoinWorker \/ JoinTimeout \/ CloseStrategies
  BY <1>12, <1>13 DEF JoinWorker, JoinTimeout, CloseStrategies
<1>14. CASE FlushDone
  <2>1. shut = "flush" /\ queue = <<>> /\ UNCHANGED <<cfg, ph, by, promised>>
    BY <1>14 DEF FlushDone
  <2>2. \A s \in Saves : ph[s] # "queued"
    BY <2>1 DEF QueueInv
  <2>3. \A s \in Saves : by[s] = "client"
    BY <2>1 DEF DriverInv, TypeOK
  <2>4. \A s \in promised : ph[s] = "stray"
    BY <2>2, <2>3 DEF TypeOK
  <2>5. QED
    BY <2>1, <2>4
<1>15. CASE ShutdownCall
  <2>1. /\ promised' = {s \in Saves : ph[s] = "queued" \/ (ph[s] = "run" /\ by[s] = "worker")}
        /\ UNCHANGED <<cfg, ph, by>>
    BY <1>15 DEF ShutdownCall
  <2>2. ASSUME NEW t \in promised'
        PROVE  Held(t)'
    <3>1. ph[t] = "queued" \/ (ph[t] = "run" /\ by[t] = "worker")
      BY <2>1
    <3>2. ph'[t] = ph[t] /\ by'[t] = by[t]
      BY <2>1
    <3>3. QED
      BY <3>1, <3>2
  <2>3. ASSUME cfg'.async PROVE shut' = "join"
    BY <1>15, <2>1, <2>3 DEF ShutdownCall
  <2>4. ~Closed'
    BY <2>3
  <2>5. QED
    BY <1>0, <2>2, <2>4, Zenon
<1>16. ASSUME NEW l \in Lookups, LookupCall(l) \/ LookupBypassed(l) \/ LookupStep(l)
       PROVE  FlushInv'
  <2>1. UNCHANGED <<cfg, serviceVars>>
    BY <1>16 DEF LookupCall, LookupBypassed, LookupStep, BarrierOpens, BarrierTimeout,
                 StrategyHit, StrategyMiss, LookupEnds
  <2>2. QED
    BY <1>8, <2>1 DEF serviceVars
<1>17. CASE UNCHANGED vars
  BY <1>8, <1>17 DEF vars
<1>18. QED
  BY <1>3, <1>4, <1>5, <1>6, <1>7, <1>10, <1>11, <1>13, <1>14, <1>15, <1>16, <1>17
  DEF Next, SaveStep, ShutdownStep

(***************************************************************************)
(* With flush_on_shutdown, no save that was queued before shutdown() is    *)
(* left unwritten when the strategies are closed, unless the worker        *)
(* outlived its join.                                                      *)
(***************************************************************************)
THEOREM FlushCorrect == Spec => []FlushedBeforeClose
<1>1. Init => FlushInv
  BY DEF Init, FlushInv, FlushedBeforeClose, Held
<1>2. FlushInv => FlushedBeforeClose
  BY DEF FlushInv
<1>3. QED
  BY <1>1, <1>2, FlushStep, DriversCorrect, BarrierCorrect, TypeCorrect, PTL DEF Spec

(***************************************************************************)
(* Whoever takes a save takes it from the queue: the worker while it       *)
(* lives, the flush once it is gone.  With one slot per save() call, no    *)
(* save is taken twice.                                                    *)
(***************************************************************************)
THEOREM TakenOnceHolds == Spec => TakenOnce
<1>1. TypeOK /\ QueueInv /\ DriverInv /\ [Next]_vars => TakesQueued
  <2> SUFFICES ASSUME TypeOK, QueueInv, DriverInv, [Next]_vars, NEW s \in Saves,
                      ph'[s] = "run", by'[s] # "client", ph[s] # "run"
               PROVE  ph[s] = "queued" /\ (by'[s] = "worker" <=> worker # "exited")
    BY DEF TakesQueued
  <2>1. ph[s] \notin {"idle", "put"} \/ by[s] = "client"
    BY DEF DriverInv, Driven
  <2>2. ASSUME NEW t \in Saves, NEW p \in Phases \ {"run"}, ph' = [ph EXCEPT ![t] = p] PROVE FALSE
    BY <2>2 DEF TypeOK
  <2>3. ASSUME NEW t \in Saves, SaveCall(t) PROVE FALSE
    <3>1. PICK p \in {"put", "run"} : ph' = [ph EXCEPT ![t] = p]
      BY <2>3 DEF SaveCall
    <3>2. ph[t] = "idle" /\ UNCHANGED by
      BY <2>3 DEF SaveCall
    <3>3. QED
      BY <2>1, <3>1, <3>2 DEF TypeOK
  <2>4. ASSUME NEW t \in Saves, ClientStep(t) PROVE FALSE
    BY <2>1, <2>4 DEF ClientStep, Enqueue, DropOnFull, SyncOnFull, TypeOK
  <2>5. ASSUME NEW t \in Saves, SaveStep(t) \/ CoroutineYields(t) \/ FallbackJoinTimeout(t) PROVE FALSE
    BY <2>2, <2>5 DEF SaveStep, StrategySaveReturns, FallbackThreadReturns, StrayReturns, ReleaseSlot,
                      CoroutineYields, FallbackJoinTimeout, Phases
  <2>6. ASSUME NEW d, TakeItem(d)
        PROVE  ph[s] = "queued" /\ by'[s] = d
    BY <2>6, TakeItemFacts DEF TypeOK
  <2>7. CASE WorkerGet
    BY <2>6, <2>7 DEF WorkerGet
  <2>8. CASE FlushTake
    BY <2>6, <2>8 DEF FlushTake, DriverInv
  <2>9. ASSUME UNCHANGED ph PROVE FALSE
    BY <2>9
  <2>10. ASSUME NEW l \in Lookups, LookupCall(l) \/ LookupBypassed(l) \/ LookupStep(l) PROVE FALSE
    <3>1. UNCHANGED serviceVars
      BY <2>10 DEF LookupCall, LookupBypassed, LookupStep, BarrierOpens, BarrierTimeout,
                   StrategyHit, StrategyMiss, LookupEnds
    <3>2. QED
      BY <2>9, <3>1 DEF serviceVars
  <2>11. QED
    BY <2>3, <2>4, <2>5, <2>7, <2>8, <2>9, <2>10
    DEF Next, WorkerStep, WorkerCheck, WorkerGetTimeout, ShutdownStep, JoinWorker, FlushDone,
        CloseStrategies, ShutdownCall, JoinTimeout, vars
<1>2. QED
  BY <1>1, TypeCorrect, BarrierCorrect, DriversCorrect, PTL DEF Spec, TakenOnce

-----------------------------------------------------------------------------
(***************************************************************************)
(* The counter, the event and the lock of the barrier implement the        *)
(* set-valued barrier of SaveBarrier: every step of the service is one of  *)
(* its steps or leaves it alone.                                           *)
(***************************************************************************)
THEOREM Refinement == Spec => ImplementsBarrier
<1> DEFINE Out(f, l) == CASE f[l] = "wait" -> "waiting"
                          [] f[l] = "search" -> "admitted"
                          [] f[l] = "stale" -> "gaveUp"
                          [] OTHER -> "out"
           Readers == [l \in Lookups |-> Out(lk, l)]
<1>1. Init => Barrier!Init
  BY DEF Init, Barrier!Init, InFlight
<1>2. TypeOK /\ QueueInv /\ BarrierCounts /\ [Next]_vars => [Barrier!Next]_(Barrier!barrierVars)
  <2> SUFFICES ASSUME TypeOK, QueueInv, BarrierCounts, [Next]_vars
               PROVE  Barrier!Next \/ (InFlight' = InFlight /\ Readers' = Readers)
    BY DEF Barrier!barrierVars
  <2>1. ASSUME NEW s \in Saves, NEW p \in Phases, UNCHANGED lk, ph' = [ph EXCEPT ![s] = p]
        PROVE  Barrier!Next \/ (InFlight' = InFlight /\ Readers' = Readers)
    <3>1. Readers' = Readers
      BY <2>1
    <3>2. InFlight' = InFlight \cup {s} \/ InFlight' = InFlight \ {s}
      BY <2>1 DEF TypeOK, InFlight, Phases
    <3>3. CASE InFlight' = InFlight \cup {s} /\ s \notin InFlight
      <4>1. Barrier!Accept(s)
        BY <3>1, <3>3 DEF Barrier!Accept
      <4>2. QED
        BY <4>1 DEF Barrier!Next
    <3>4. CASE InFlight' = InFlight \ {s} /\ s \in InFlight
      <4>1. Barrier!Settle(s)
        BY <3>1, <3>4 DEF Barrier!Settle
      <4>2. QED
        BY <4>1 DEF Barrier!Next
    <3>5. QED
      BY <3>1, <3>2, <3>3, <3>4
  <2>2. ASSUME UNCHANGED <<ph, lk>>
        PROVE  Barrier!Next \/ (InFlight' = InFlight /\ Readers' = Readers)
    BY <2>2 DEF InFlight
  <2>3. ASSUME NEW s \in Saves, SaveCall(s)
        PROVE  Barrier!Next \/ (InFlight' = InFlight /\ Readers' = Readers)
    <3>1. PICK p \in {"put", "run"} : ph' = [ph EXCEPT ![s] = p]
      BY <2>3 DEF SaveCall
    <3>2. UNCHANGED lk
      BY <2>3 DEF SaveCall, lookupVars
    <3>3. QED
      BY <2>1, <3>1, <3>2 DEF Phases
  <2>4. ASSUME NEW s \in Saves,
               ClientStep(s) \/ SaveStep(s) \/ CoroutineYields(s) \/ FallbackJoinTimeout(s)
        PROVE  Barrier!Next \/ (InFlight' = InFlight /\ Readers' = Readers)
    <3>1. UNCHANGED lk
      BY <2>4 DEF ClientStep, SaveStep, Enqueue, DropOnFull, SyncOnFull, StrategySaveReturns,
                  FallbackThreadReturns, StrayReturns, ReleaseSlot, CoroutineYields,
                  FallbackJoinTimeout, lookupVars
    <3>2. \E p \in Phases : ph' = [ph EXCEPT ![s] = p]
      BY <2>4 DEF ClientStep, SaveStep, Enqueue, DropOnFull, SyncOnFull, StrategySaveReturns,
                  FallbackThreadReturns, StrayReturns, ReleaseSlot, CoroutineYields,
                  FallbackJoinTimeout, Phases
    <3>3. QED
      BY <2>1, <3>1, <3>2
  <2>5. ASSUME NEW d, TakeItem(d), UNCHANGED lk
        PROVE  Barrier!Next \/ (InFlight' = InFlight /\ Readers' = Readers)
    BY <2>1, <2>5, TakeItemFacts DEF Phases
  <2>6. CASE WorkerStep \/ ShutdownStep \/ ShutdownCall \/ JoinTimeout
    BY <2>2, <2>5, <2>6 DEF WorkerStep, WorkerCheck, WorkerGetTimeout, WorkerGet, ShutdownStep,
       JoinWorker, FlushTake, FlushDone, CloseStrategies, ShutdownCall, JoinTimeout, lookupVars
  <2>7. ASSUME NEW l \in Lookups, NEW a, lk' = [lk EXCEPT ![l] = a], UNCHANGED ph
        PROVE  /\ InFlight' = InFlight
               /\ Readers' = [Readers EXCEPT ![l] = Out(lk', l)]
               /\ Readers[l] = Out(lk, l)
               /\ lk'[l] = a
    BY <2>7 DEF TypeOK, InFlight
  <2>8. idle <=> InFlight = {}
    BY DEF BarrierCounts
  <2>9. ASSUME NEW l \in Lookups, LookupCall(l) PROVE Barrier!Next
    <3>1. CASE idle
      <4>1. lk' = [lk EXCEPT ![l] = "search"] /\ UNCHANGED ph /\ lk[l] \in {"idle", "hit", "miss"}
        BY <2>9, <3>1 DEF LookupCall, serviceVars
      <4>2. Barrier!Enter(l)
        BY <2>7, <2>8, <3>1, <4>1 DEF Barrier!Enter, Barrier!Move
      <4>3. QED
        BY <4>2 DEF Barrier!Next
    <3>2. CASE ~idle
      <4>1. lk' = [lk EXCEPT ![l] = "wait"] /\ UNCHANGED ph /\ lk[l] \in {"idle", "hit", "miss"}
        BY <2>9, <3>2 DEF LookupCall, serviceVars
      <4>2. Barrier!Arrive(l)
        BY <2>7, <2>8, <3>2, <4>1 DEF Barrier!Arrive, Barrier!Move
      <4>3. QED
        BY <4>2 DEF Barrier!Next
    <3>3. QED
      BY <3>1, <3>2
  <2>10. ASSUME NEW l \in Lookups, LookupBypassed(l)
         PROVE  InFlight' = InFlight /\ Readers' = Readers
    <3>1. lk' = [lk EXCEPT ![l] = "miss"] /\ UNCHANGED ph /\ lk[l] \in {"idle", "hit", "miss"}
      BY <2>10 DEF LookupBypassed, serviceVars
    <3>2. /\ InFlight' = InFlight
          /\ Readers' = [Readers EXCEPT ![l] = Out(lk', l)]
      BY <2>7, <3>1
    <3>3. Readers[l] = "out"
      BY <2>7, <3>1
    <3>4. Out(lk', l) = "out"
      BY <2>7, <3>1
    <3>5. [Readers EXCEPT ![l] = Readers[l]] = Readers
      OBVIOUS
    <3>6. QED
      BY <3>2, <3>3, <3>4, <3>5
  <2>11. ASSUME NEW l \in Lookups, BarrierOpens(l) PROVE Barrier!Next
    <3>1. lk' = [lk EXCEPT ![l] = "search"] /\ UNCHANGED ph /\ lk[l] = "wait" /\ idle
      BY <2>11 DEF BarrierOpens, serviceVars
    <3>2. Barrier!Enter(l)
      BY <2>7, <2>8, <3>1 DEF Barrier!Enter, Barrier!Move
    <3>3. QED
      BY <3>2 DEF Barrier!Next
  <2>12. ASSUME NEW l \in Lookups, BarrierTimeout(l) PROVE Barrier!Next
    <3>1. lk' = [lk EXCEPT ![l] = "stale"] /\ UNCHANGED ph /\ lk[l] = "wait" /\ ~idle
      BY <2>12 DEF BarrierTimeout, serviceVars
    <3>2. Barrier!GiveUp(l)
      BY <2>7, <2>8, <3>1 DEF Barrier!GiveUp, Barrier!Move
    <3>3. QED
      BY <3>2 DEF Barrier!Next
  <2>13. ASSUME NEW l \in Lookups, NEW r \in {"hit", "miss"}, LookupEnds(l, r),
                lk[l] \in {"search", "stale"}
         PROVE  Barrier!Next
    <3>1. lk' = [lk EXCEPT ![l] = r] /\ UNCHANGED ph
      BY <2>13 DEF LookupEnds, serviceVars
    <3>2. Barrier!Leave(l)
      BY <2>7, <2>13, <3>1 DEF Barrier!Leave, Barrier!Move
    <3>3. QED
      BY <3>2 DEF Barrier!Next
  <2>14. ASSUME NEW l \in Lookups, StrategyHit(l) \/ StrategyMiss(l)
         PROVE  Barrier!Next \/ (InFlight' = InFlight /\ Readers' = Readers)
    BY <2>2, <2>13, <2>14 DEF StrategyHit, StrategyMiss, serviceVars
  <2>15. CASE UNCHANGED vars
    BY <2>2, <2>15 DEF vars
  <2>16. QED
    BY <2>3, <2>4, <2>6, <2>9, <2>10, <2>11, <2>12, <2>14, <2>15 DEF Next, LookupStep
<1>3. QED
  BY <1>1, <1>2, TypeCorrect, BarrierCorrect, PTL DEF Spec, ImplementsBarrier, Barrier!Spec

=============================================================================
