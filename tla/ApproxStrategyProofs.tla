------------------------ MODULE ApproxStrategyProofs ------------------------
(***************************************************************************)
(* That the saves and lookups of the approximate strategy leave whole      *)
(* entries or none, for every number of saves, lookups and steps, every    *)
(* tier table, and every pattern of failing calls.                         *)
(***************************************************************************)
EXTENDS ApproxStrategy, FiniteSetTheorems, WellFoundedInduction, TLAPS

-----------------------------------------------------------------------------
(* The least and the greatest of a set of steps.                           *)

Below == OpToRel(<, Nat)

LEMMA MinOfSet ==
  ASSUME NEW S, S \subseteq Nat, S # {}
  PROVE  Min(S) \in S /\ \A y \in S : Min(S) <= y
<1>1. PICK x \in S : \A y \in S : ~ (<<y, x>> \in Below)
  BY NatLessThanWellFounded, WFMin DEF Below
<1>2. ASSUME NEW y \in S PROVE x <= y
  <2>1. ~ (y < x)
    BY <1>1 DEF Below, OpToRel
  <2> QED BY <2>1
<1> QED BY <1>2 DEF Min

LEMMA MaxOfSet ==
  ASSUME NEW S, S \subseteq Nat, IsFiniteSet(S), S # {}
  PROVE  Max(S) \in S /\ \A y \in S : Max(S) >= y
<1> DEFINE Topless(T) == T # {} /\ \A x \in T : \E y \in T : ~ (x >= y)
           Sizes == {Cardinality(T) : T \in {U \in SUBSET S : Topless(U)}}
<1>1. \A T \in SUBSET S : IsFiniteSet(T) /\ Cardinality(T) \in Nat
  BY FS_Subset, FS_CardinalityType
<1>2. Sizes = {}
  <2> SUFFICES ASSUME Sizes # {} PROVE FALSE
    OBVIOUS
  <2>1. Sizes \subseteq Nat
    BY <1>1
  <2>2. Min(Sizes) \in Sizes /\ \A n \in Sizes : Min(Sizes) <= n
    <3> HIDE DEF Sizes
    <3> QED BY <2>1, MinOfSet
  <2>3. PICK T \in SUBSET S : Topless(T) /\ Cardinality(T) = Min(Sizes)
    BY <2>2
  <2>4. PICK x \in T : TRUE
    BY <2>3
  <2> DEFINE R == T \ {x}
  <2>5. R \in SUBSET S /\ Cardinality(R) = Cardinality(T) - 1 /\ Cardinality(T) \in Nat
    BY <1>1, <2>4, FS_RemoveElement
  <2>6. ~Topless(R)
    <3>1. SUFFICES ASSUME Topless(R) PROVE FALSE
      OBVIOUS
    <3>2. Cardinality(R) \in Sizes
      BY <2>5, <3>1
    <3> HIDE DEF Sizes, R
    <3> QED BY <1>1, <2>2, <2>3, <2>5, <3>2
  <2>7. CASE R = {}
    BY <2>3, <2>4, <2>7
  <2>8. CASE R # {}
    <3>1. PICK y \in R : \A z \in R : y >= z
      BY <2>6, <2>8
    <3>2. x \in Nat /\ y \in Nat /\ T \subseteq Nat /\ y \in T /\ \A z \in T : z = x \/ z \in R
      BY <2>4, <3>1
    <3> QED BY <2>3, <2>4, <3>1, <3>2
  <2> QED BY <2>7, <2>8
<1>3. ~Topless(S)
  BY <1>2
<1> QED BY <1>3 DEF Max

-----------------------------------------------------------------------------
(* The inductive invariant.                                                *)

(* Where a save can be when its vector may be in the collection.           *)
Doomed    == {"rbvector", "rbmeta", "rbkv", "failed", "dead"}
Published == {"upserted", "done"} \cup Doomed

InKV(s, k) == <<s, k>> \in kv

(* What holds of a save however its calls fail ...                         *)
SaveAlways(s) ==
  /\ got[s] \subseteq steps[s]
  /\ pc[s] = "idle" => got[s] = {} /\ \A k \in Steps : ~InKV(s, k)
  /\ pc[s] = "put" => got[s] # steps[s]
  /\ pc[s] \in {"written", "upserted", "done", "rbvector", "rbmeta"} => got[s] = steps[s] /\ steps[s] # {}
  /\ pc[s] \in {"put", "written", "upserted", "done", "rbvector"} =>
       s \in lost \/ \A k \in got[s] : InKV(s, k)
  /\ s \in vector => pc[s] \in Published /\ got[s] = steps[s] /\ steps[s] # {}
  /\ pc[s] \in {"upserted", "done"} => s \in lost \/ s \in vector
  /\ pc[s] = "done" => s \in lost \/ s \in meta

(* ... and of one whose failing calls have no effect: the latents it has   *)
(* to remove are those it knows of, and what is left of it after that is   *)
(* what it could not remove.                                               *)
SaveClean(s) ==
  /\ s \in meta => pc[s] = "done"
  /\ \A k \in Steps : InKV(s, k) => k \in got[s]
  /\ s \in vector /\ pc[s] \in {"rbmeta", "rbkv", "failed"} => err[s]
  /\ pc[s] \in InCleanup /\ ~err[s] => \A k \in Steps : InKV(s, k) => k \in todo[s]
  /\ pc[s] \in {"skipped", "failed"} /\ ~err[s] => \A k \in Steps : ~InKV(s, k)
  /\ s \in vector => s \in lost \/ err[s] \/ \A k \in steps[s] : InKV(s, k)

SaveInv(s) == SaveAlways(s) /\ (~cfg.effects => SaveClean(s))

(* What a lookup selected is an entry that is, or was, in the collection;  *)
(* one it evicts has lost a key or is being rolled back.                   *)
LookupInv(l) ==
  /\ sel[l] # <<>> =>
       /\ pc[sel[l].id] \in Published
       /\ got[sel[l].id] = steps[sel[l].id]
       /\ InReach(sel[l].id, sel[l].score) # {}
       /\ sel[l].step = Max(InReach(sel[l].id, sel[l].score))
  /\ lk[l] = "idle" => sel[l] = <<>>
  /\ lk[l] \in {"found", "loaded", "evictvector", "evictmeta"} => sel[l] # <<>>
  /\ lk[l] \in {"evictvector", "evictmeta"} => sel[l].id \in lost \/ pc[sel[l].id] \in Doomed

IInv ==
  /\ TypeOK
  /\ \A s \in Saves : SaveInv(s)
  /\ \A l \in Lookups : LookupInv(l)

(* What a step may not do to a save.                                       *)
Progress ==
  \A s \in Saves :
    /\ pc[s] \in Doomed => pc'[s] \in Doomed
    /\ pc[s] \in Published => pc'[s] \in Published /\ got'[s] = got[s] /\ steps'[s] = steps[s]

Untouched(s) ==
  /\ pc'[s] = pc[s] /\ steps'[s] = steps[s] /\ got'[s] = got[s]
  /\ todo'[s] = todo[s] /\ err'[s] = err[s]
  /\ s \in vector' <=> s \in vector
  /\ s \in meta' <=> s \in meta
  /\ \A k \in Steps : InKV(s, k)' <=> InKV(s, k)
  /\ s \in lost' <=> s \in lost

LEMMA UntouchedInv ==
  ASSUME cfg' = cfg, TypeOK, NEW s \in Saves, SaveInv(s), Untouched(s)
  PROVE  SaveInv(s)'
<1>1. SaveAlways(s)'
  BY DEF TypeOK, SaveInv, SaveAlways, Untouched
<1>2. ~cfg.effects => SaveClean(s)'
  BY DEF TypeOK, SaveInv, SaveClean, Untouched
<1> QED BY <1>1, <1>2 DEF SaveInv

LEMMA LookupStable ==
  ASSUME TypeOK, UNCHANGED <<cfg, sel>>, Progress, lost \subseteq lost',
         NEW l \in Lookups, LookupInv(l), lk'[l] = lk[l] \/ lk'[l] = "dead"
  PROVE  LookupInv(l)'
<1>1. sel[l] # <<>> => sel[l].id \in Saves
  BY DEF TypeOK, Selection
<1>2. sel[l] # <<>> => InReach(sel[l].id, sel[l].score)' = InReach(sel[l].id, sel[l].score)
  BY <1>1 DEF InReach, Cap, Qualifying, Progress, LookupInv
<1> QED BY <1>1, <1>2 DEF LookupInv, Progress

LEMMA NextStepType ==
  ASSUME IInv, NEW s \in Saves, pc[s] = "put"
  PROVE  NextStep(s) \in steps[s] \ got[s] /\ NextStep(s) \in Steps
<1>1. steps[s] \ got[s] \subseteq Nat /\ steps[s] \ got[s] # {} /\ steps[s] \subseteq Steps
  BY StrategyAssumption DEF IInv, TypeOK, SaveInv, SaveAlways
<1> QED BY <1>1, MinOfSet DEF NextStep

LEMMA InitInv == Init => IInv
<1> SUFFICES ASSUME Init PROVE IInv
  OBVIOUS
<1>1. TypeOK
  BY DEF Init, TypeOK, SavePhases, LookupEnded
<1>2. ASSUME NEW s \in Saves PROVE SaveInv(s)
  BY DEF Init, SaveInv, SaveAlways, SaveClean, InKV, InCleanup
<1>3. ASSUME NEW l \in Lookups PROVE LookupInv(l)
  BY DEF Init, LookupInv
<1> QED BY <1>1, <1>2, <1>3 DEF IInv

-----------------------------------------------------------------------------
(* One lemma per operation of a save.                                      *)

SaveStepInv(s) ==
  /\ TypeOK' /\ cfg' = cfg /\ UNCHANGED <<lookupVars, lost>>
  /\ SaveInv(s)'
  /\ \A t \in Saves \ {s} : Untouched(t)
  /\ Progress

LEMMA SaveCallStep ==
  ASSUME IInv, NEW s \in Saves, SaveCall(s)
  PROVE  SaveStepInv(s)
<1>0. TypeOK /\ SaveInv(s) /\ cfg' = cfg /\ UNCHANGED <<lookupVars, lost>>
  BY DEF IInv, SaveCall
<1> USE <1>0
<1>1. TypeOK'
  BY StrategyAssumption DEF TypeOK, SaveCall, Goto, lookupVars, SavePhases, InCleanup, SaveEnded
<1>2. SaveAlways(s)'
  BY StrategyAssumption DEF TypeOK, SaveInv, SaveAlways, InKV, Published, Doomed, SaveCall, Goto, lookupVars, InCleanup
<1>3. ~cfg.effects => SaveClean(s)'
  BY StrategyAssumption DEF TypeOK, SaveInv, SaveAlways, SaveClean, InKV, Published, Doomed, SaveCall, Goto, lookupVars, InCleanup
<1>4. \A t \in Saves \ {s} : Untouched(t)
  BY StrategyAssumption DEF TypeOK, Untouched, InKV, SaveCall, Goto, lookupVars
<1>5. Progress
  BY StrategyAssumption DEF TypeOK, Progress, Published, Doomed, SaveCall, Goto, lookupVars, InCleanup
<1> QED BY <1>1, <1>2, <1>3, <1>4, <1>5 DEF SaveInv, SaveStepInv

LEMMA PutStep ==
  ASSUME IInv, NEW s \in Saves, Put(s)
  PROVE  SaveStepInv(s)
<1>0. TypeOK /\ SaveInv(s) /\ cfg' = cfg /\ UNCHANGED <<lookupVars, lost>>
  BY DEF IInv, Put
<1> USE <1>0
<1>1. TypeOK'
  BY NextStepType, StrategyAssumption DEF TypeOK, Put, Goto, lookupVars, SavePhases, InCleanup, SaveEnded
<1>2. SaveAlways(s)'
  BY NextStepType, StrategyAssumption DEF TypeOK, SaveInv, SaveAlways, InKV, Published, Doomed, Put, Goto, lookupVars, InCleanup
<1>3. ~cfg.effects => SaveClean(s)'
  BY NextStepType, StrategyAssumption DEF TypeOK, SaveInv, SaveAlways, SaveClean, InKV, Published, Doomed, Put, Goto, lookupVars, InCleanup
<1>4. \A t \in Saves \ {s} : Untouched(t)
  BY NextStepType, StrategyAssumption DEF TypeOK, Untouched, InKV, Put, Goto, lookupVars
<1>5. Progress
  BY NextStepType, StrategyAssumption DEF TypeOK, Progress, Published, Doomed, Put, Goto, lookupVars, InCleanup
<1> QED BY <1>1, <1>2, <1>3, <1>4, <1>5 DEF SaveInv, SaveStepInv

LEMMA PutFailsStep ==
  ASSUME IInv, NEW s \in Saves, PutFails(s)
  PROVE  SaveStepInv(s)
<1>0. TypeOK /\ SaveInv(s) /\ cfg' = cfg /\ UNCHANGED <<lookupVars, lost>>
  BY DEF IInv, PutFails
<1> USE <1>0
<1>1. TypeOK'
  BY NextStepType, StrategyAssumption DEF TypeOK, PutFails, Cleanup, AfterError, Goto, lookupVars, SavePhases, InCleanup, SaveEnded
<1>2. SaveAlways(s)'
  BY NextStepType, StrategyAssumption DEF TypeOK, SaveInv, SaveAlways, InKV, Published, Doomed, PutFails, Cleanup, AfterError, Goto, lookupVars, InCleanup
<1>3. ~cfg.effects => SaveClean(s)'
  BY NextStepType, StrategyAssumption DEF TypeOK, SaveInv, SaveAlways, SaveClean, InKV, Published, Doomed, PutFails, Cleanup, AfterError, Goto, lookupVars, InCleanup
<1>4. \A t \in Saves \ {s} : Untouched(t)
  BY NextStepType, StrategyAssumption DEF TypeOK, Untouched, InKV, PutFails, Cleanup, AfterError, Goto, lookupVars
<1>5. Progress
  BY NextStepType, StrategyAssumption DEF TypeOK, Progress, Published, Doomed, PutFails, Cleanup, AfterError, Goto, lookupVars, InCleanup
<1> QED BY <1>1, <1>2, <1>3, <1>4, <1>5 DEF SaveInv, SaveStepInv

LEMMA SkipSaveStep ==
  ASSUME IInv, NEW s \in Saves, SkipSave(s)
  PROVE  SaveStepInv(s)
<1>0. TypeOK /\ SaveInv(s) /\ cfg' = cfg /\ UNCHANGED <<lookupVars, lost>>
  BY DEF IInv, SkipSave
<1> USE <1>0
<1>1. TypeOK'
  BY StrategyAssumption DEF TypeOK, SkipSave, Cleanup, Goto, lookupVars, SavePhases, InCleanup, SaveEnded
<1>2. SaveAlways(s)'
  BY StrategyAssumption DEF TypeOK, SaveInv, SaveAlways, InKV, Published, Doomed, SkipSave, Cleanup, Goto, lookupVars, InCleanup
<1>3. ~cfg.effects => SaveClean(s)'
  BY StrategyAssumption DEF TypeOK, SaveInv, SaveAlways, SaveClean, InKV, Published, Doomed, SkipSave, Cleanup, Goto, lookupVars, InCleanup
<1>4. \A t \in Saves \ {s} : Untouched(t)
  BY StrategyAssumption DEF TypeOK, Untouched, InKV, SkipSave, Cleanup, Goto, lookupVars
<1>5. Progress
  BY StrategyAssumption DEF TypeOK, Progress, Published, Doomed, SkipSave, Cleanup, Goto, lookupVars, InCleanup
<1> QED BY <1>1, <1>2, <1>3, <1>4, <1>5 DEF SaveInv, SaveStepInv

LEMMA EncodeFailsStep ==
  ASSUME IInv, NEW s \in Saves, EncodeFails(s)
  PROVE  SaveStepInv(s)
<1>0. TypeOK /\ SaveInv(s) /\ cfg' = cfg /\ UNCHANGED <<lookupVars, lost>>
  BY DEF IInv, EncodeFails
<1> USE <1>0
<1>1. TypeOK'
  BY StrategyAssumption DEF TypeOK, EncodeFails, Cleanup, Goto, lookupVars, SavePhases, InCleanup, SaveEnded
<1>2. SaveAlways(s)'
  BY StrategyAssumption DEF TypeOK, SaveInv, SaveAlways, InKV, Published, Doomed, EncodeFails, Cleanup, Goto, lookupVars, InCleanup
<1>3. ~cfg.effects => SaveClean(s)'
  BY StrategyAssumption DEF TypeOK, SaveInv, SaveAlways, SaveClean, InKV, Published, Doomed, EncodeFails, Cleanup, Goto, lookupVars, InCleanup
<1>4. \A t \in Saves \ {s} : Untouched(t)
  BY StrategyAssumption DEF TypeOK, Untouched, InKV, EncodeFails, Cleanup, Goto, lookupVars
<1>5. Progress
  BY StrategyAssumption DEF TypeOK, Progress, Published, Doomed, EncodeFails, Cleanup, Goto, lookupVars, InCleanup
<1> QED BY <1>1, <1>2, <1>3, <1>4, <1>5 DEF SaveInv, SaveStepInv

LEMMA UpsertStep ==
  ASSUME IInv, NEW s \in Saves, Upsert(s)
  PROVE  SaveStepInv(s)
<1>0. TypeOK /\ SaveInv(s) /\ cfg' = cfg /\ UNCHANGED <<lookupVars, lost>>
  BY DEF IInv, Upsert
<1> USE <1>0
<1>1. TypeOK'
  BY StrategyAssumption DEF TypeOK, Upsert, Goto, lookupVars, SavePhases, InCleanup, SaveEnded
<1>2. SaveAlways(s)'
  BY StrategyAssumption DEF TypeOK, SaveInv, SaveAlways, InKV, Published, Doomed, Upsert, Goto, lookupVars, InCleanup
<1>3. ~cfg.effects => SaveClean(s)'
  BY StrategyAssumption DEF TypeOK, SaveInv, SaveAlways, SaveClean, InKV, Published, Doomed, Upsert, Goto, lookupVars, InCleanup
<1>4. \A t \in Saves \ {s} : Untouched(t)
  BY StrategyAssumption DEF TypeOK, Untouched, InKV, Upsert, Goto, lookupVars
<1>5. Progress
  BY StrategyAssumption DEF TypeOK, Progress, Published, Doomed, Upsert, Goto, lookupVars, InCleanup
<1> QED BY <1>1, <1>2, <1>3, <1>4, <1>5 DEF SaveInv, SaveStepInv

LEMMA UpsertFailsStep ==
  ASSUME IInv, NEW s \in Saves, UpsertFails(s)
  PROVE  SaveStepInv(s)
<1>0. TypeOK /\ SaveInv(s) /\ cfg' = cfg /\ UNCHANGED <<lookupVars, lost>>
  BY DEF IInv, UpsertFails
<1> USE <1>0
<1>1. TypeOK'
  BY StrategyAssumption DEF TypeOK, UpsertFails, Cleanup, AfterError, Goto, lookupVars, SavePhases, InCleanup, SaveEnded
<1>2. SaveAlways(s)'
  BY StrategyAssumption DEF TypeOK, SaveInv, SaveAlways, InKV, Published, Doomed, UpsertFails, Cleanup, AfterError, Goto, lookupVars, InCleanup
<1>3. ~cfg.effects => SaveClean(s)'
  BY StrategyAssumption DEF TypeOK, SaveInv, SaveAlways, SaveClean, InKV, Published, Doomed, UpsertFails, Cleanup, AfterError, Goto, lookupVars, InCleanup
<1>4. \A t \in Saves \ {s} : Untouched(t)
  BY StrategyAssumption DEF TypeOK, Untouched, InKV, UpsertFails, Cleanup, AfterError, Goto, lookupVars
<1>5. Progress
  BY StrategyAssumption DEF TypeOK, Progress, Published, Doomed, UpsertFails, Cleanup, AfterError, Goto, lookupVars, InCleanup
<1> QED BY <1>1, <1>2, <1>3, <1>4, <1>5 DEF SaveInv, SaveStepInv

LEMMA RegisterStep ==
  ASSUME IInv, NEW s \in Saves, Register(s)
  PROVE  SaveStepInv(s)
<1>0. TypeOK /\ SaveInv(s) /\ cfg' = cfg /\ UNCHANGED <<lookupVars, lost>>
  BY DEF IInv, Register
<1> USE <1>0
<1>1. TypeOK'
  BY StrategyAssumption DEF TypeOK, Register, Goto, lookupVars, SavePhases, InCleanup, SaveEnded
<1>2. SaveAlways(s)'
  BY StrategyAssumption DEF TypeOK, SaveInv, SaveAlways, InKV, Published, Doomed, Register, Goto, lookupVars, InCleanup
<1>3. ~cfg.effects => SaveClean(s)'
  BY StrategyAssumption DEF TypeOK, SaveInv, SaveAlways, SaveClean, InKV, Published, Doomed, Register, Goto, lookupVars, InCleanup
<1>4. \A t \in Saves \ {s} : Untouched(t)
  BY StrategyAssumption DEF TypeOK, Untouched, InKV, Register, Goto, lookupVars
<1>5. Progress
  BY StrategyAssumption DEF TypeOK, Progress, Published, Doomed, Register, Goto, lookupVars, InCleanup
<1> QED BY <1>1, <1>2, <1>3, <1>4, <1>5 DEF SaveInv, SaveStepInv

LEMMA RegisterFailsStep ==
  ASSUME IInv, NEW s \in Saves, RegisterFails(s)
  PROVE  SaveStepInv(s)
<1>0. TypeOK /\ SaveInv(s) /\ cfg' = cfg /\ UNCHANGED <<lookupVars, lost>>
  BY DEF IInv, RegisterFails
<1> USE <1>0
<1>1. TypeOK'
  BY StrategyAssumption DEF TypeOK, RegisterFails, AfterError, Goto, lookupVars, SavePhases, InCleanup, SaveEnded
<1>2. SaveAlways(s)'
  BY StrategyAssumption DEF TypeOK, SaveInv, SaveAlways, InKV, Published, Doomed, RegisterFails, AfterError, Goto, lookupVars, InCleanup
<1>3. ~cfg.effects => SaveClean(s)'
  BY StrategyAssumption DEF TypeOK, SaveInv, SaveAlways, SaveClean, InKV, Published, Doomed, RegisterFails, AfterError, Goto, lookupVars, InCleanup
<1>4. \A t \in Saves \ {s} : Untouched(t)
  BY StrategyAssumption DEF TypeOK, Untouched, InKV, RegisterFails, AfterError, Goto, lookupVars
<1>5. Progress
  BY StrategyAssumption DEF TypeOK, Progress, Published, Doomed, RegisterFails, AfterError, Goto, lookupVars, InCleanup
<1> QED BY <1>1, <1>2, <1>3, <1>4, <1>5 DEF SaveInv, SaveStepInv

LEMMA RollbackVectorStep ==
  ASSUME IInv, NEW s \in Saves, RollbackVector(s)
  PROVE  SaveStepInv(s)
<1>0. TypeOK /\ SaveInv(s) /\ cfg' = cfg /\ UNCHANGED <<lookupVars, lost>>
  BY DEF IInv, RollbackVector
<1> USE <1>0
<1>1. TypeOK'
  BY StrategyAssumption DEF TypeOK, RollbackVector, AfterError, Goto, lookupVars, SavePhases, InCleanup, SaveEnded
<1>2. SaveAlways(s)'
  BY StrategyAssumption DEF TypeOK, SaveInv, SaveAlways, InKV, Published, Doomed, RollbackVector, AfterError, Goto, lookupVars, InCleanup
<1>3. ~cfg.effects => SaveClean(s)'
  BY StrategyAssumption DEF TypeOK, SaveInv, SaveAlways, SaveClean, InKV, Published, Doomed, RollbackVector, AfterError, Goto, lookupVars, InCleanup
<1>4. \A t \in Saves \ {s} : Untouched(t)
  BY StrategyAssumption DEF TypeOK, Untouched, InKV, RollbackVector, AfterError, Goto, lookupVars
<1>5. Progress
  BY StrategyAssumption DEF TypeOK, Progress, Published, Doomed, RollbackVector, AfterError, Goto, lookupVars, InCleanup
<1> QED BY <1>1, <1>2, <1>3, <1>4, <1>5 DEF SaveInv, SaveStepInv

LEMMA RollbackMetaStep ==
  ASSUME IInv, NEW s \in Saves, RollbackMeta(s)
  PROVE  SaveStepInv(s)
<1>0. TypeOK /\ SaveInv(s) /\ cfg' = cfg /\ UNCHANGED <<lookupVars, lost>>
  BY DEF IInv, RollbackMeta
<1> USE <1>0
<1>1. TypeOK'
  BY StrategyAssumption DEF TypeOK, RollbackMeta, Cleanup, AfterError, Goto, lookupVars, SavePhases, InCleanup, SaveEnded
<1>2. SaveAlways(s)'
  BY StrategyAssumption DEF TypeOK, SaveInv, SaveAlways, InKV, Published, Doomed, RollbackMeta, Cleanup, AfterError, Goto, lookupVars, InCleanup
<1>3. ~cfg.effects => SaveClean(s)'
  BY StrategyAssumption DEF TypeOK, SaveInv, SaveAlways, SaveClean, InKV, Published, Doomed, RollbackMeta, Cleanup, AfterError, Goto, lookupVars, InCleanup
<1>4. \A t \in Saves \ {s} : Untouched(t)
  BY StrategyAssumption DEF TypeOK, Untouched, InKV, RollbackMeta, Cleanup, AfterError, Goto, lookupVars
<1>5. Progress
  BY StrategyAssumption DEF TypeOK, Progress, Published, Doomed, RollbackMeta, Cleanup, AfterError, Goto, lookupVars, InCleanup
<1> QED BY <1>1, <1>2, <1>3, <1>4, <1>5 DEF SaveInv, SaveStepInv

LEMMA RemoveLatentStep ==
  ASSUME IInv, NEW s \in Saves, RemoveLatent(s)
  PROVE  SaveStepInv(s)
<1>0. TypeOK /\ SaveInv(s) /\ cfg' = cfg /\ UNCHANGED <<lookupVars, lost>>
  BY DEF IInv, RemoveLatent
<1> USE <1>0
<1>1. TypeOK'
  BY StrategyAssumption DEF TypeOK, RemoveLatent, AfterError, Goto, lookupVars, SavePhases, InCleanup, SaveEnded
<1>2. SaveAlways(s)'
  BY StrategyAssumption DEF TypeOK, SaveInv, SaveAlways, InKV, Published, Doomed, RemoveLatent, AfterError, Goto, lookupVars, InCleanup
<1>3. ~cfg.effects => SaveClean(s)'
  BY StrategyAssumption DEF TypeOK, SaveInv, SaveAlways, SaveClean, InKV, Published, Doomed, RemoveLatent, AfterError, Goto, lookupVars, InCleanup
<1>4. \A t \in Saves \ {s} : Untouched(t)
  BY StrategyAssumption DEF TypeOK, Untouched, InKV, RemoveLatent, AfterError, Goto, lookupVars
<1>5. Progress
  BY StrategyAssumption DEF TypeOK, Progress, Published, Doomed, RemoveLatent, AfterError, Goto, lookupVars, InCleanup
<1> QED BY <1>1, <1>2, <1>3, <1>4, <1>5 DEF SaveInv, SaveStepInv

LEMMA CleanupEndsStep ==
  ASSUME IInv, NEW s \in Saves, CleanupEnds(s)
  PROVE  SaveStepInv(s)
<1>0. TypeOK /\ SaveInv(s) /\ cfg' = cfg /\ UNCHANGED <<lookupVars, lost>>
  BY DEF IInv, CleanupEnds
<1> USE <1>0
<1>1. TypeOK'
  BY StrategyAssumption DEF TypeOK, CleanupEnds, Goto, lookupVars, SavePhases, InCleanup, SaveEnded
<1>2. SaveAlways(s)'
  BY StrategyAssumption DEF TypeOK, SaveInv, SaveAlways, InKV, Published, Doomed, CleanupEnds, Goto, lookupVars, InCleanup
<1>3. ~cfg.effects => SaveClean(s)'
  BY StrategyAssumption DEF TypeOK, SaveInv, SaveAlways, SaveClean, InKV, Published, Doomed, CleanupEnds, Goto, lookupVars, InCleanup
<1>4. \A t \in Saves \ {s} : Untouched(t)
  BY StrategyAssumption DEF TypeOK, Untouched, InKV, CleanupEnds, Goto, lookupVars
<1>5. Progress
  BY StrategyAssumption DEF TypeOK, Progress, Published, Doomed, CleanupEnds, Goto, lookupVars, InCleanup
<1> QED BY <1>1, <1>2, <1>3, <1>4, <1>5 DEF SaveInv, SaveStepInv

LEMMA CleanupRetriedStep ==
  ASSUME IInv, NEW s \in Saves, CleanupRetried(s)
  PROVE  SaveStepInv(s)
<1>0. TypeOK /\ SaveInv(s) /\ cfg' = cfg /\ UNCHANGED <<lookupVars, lost>>
  BY DEF IInv, CleanupRetried
<1> USE <1>0
<1>1. TypeOK'
  BY StrategyAssumption DEF TypeOK, CleanupRetried, Cleanup, Goto, lookupVars, SavePhases, InCleanup, SaveEnded
<1>2. SaveAlways(s)'
  BY StrategyAssumption DEF TypeOK, SaveInv, SaveAlways, InKV, Published, Doomed, CleanupRetried, Cleanup, Goto, lookupVars, InCleanup
<1>3. ~cfg.effects => SaveClean(s)'
  BY StrategyAssumption DEF TypeOK, SaveInv, SaveAlways, SaveClean, InKV, Published, Doomed, CleanupRetried, Cleanup, Goto, lookupVars, InCleanup
<1>4. \A t \in Saves \ {s} : Untouched(t)
  BY StrategyAssumption DEF TypeOK, Untouched, InKV, CleanupRetried, Cleanup, Goto, lookupVars
<1>5. Progress
  BY StrategyAssumption DEF TypeOK, Progress, Published, Doomed, CleanupRetried, Cleanup, Goto, lookupVars, InCleanup
<1> QED BY <1>1, <1>2, <1>3, <1>4, <1>5 DEF SaveInv, SaveStepInv

LEMMA SaveInvariant ==
  ASSUME IInv, NEW s \in Saves, SaveStep(s)
  PROVE  IInv'
<1>1. SaveStepInv(s)
  BY SaveCallStep, PutStep, PutFailsStep, SkipSaveStep, EncodeFailsStep, UpsertStep,
     UpsertFailsStep, RegisterStep, RegisterFailsStep, RollbackVectorStep, RollbackMetaStep,
     RemoveLatentStep, CleanupEndsStep, CleanupRetriedStep DEF SaveStep
<1>2. \A t \in Saves : SaveInv(t)'
  BY <1>1, UntouchedInv DEF SaveStepInv, IInv
<1>3. \A l \in Lookups : LookupInv(l)'
  BY <1>1, LookupStable DEF SaveStepInv, IInv, lookupVars
<1> QED BY <1>1, <1>2, <1>3 DEF SaveStepInv, IInv

-----------------------------------------------------------------------------
(* Lookups.                                                                *)

(* A lookup changes no save, but may take its vector or metadata away.     *)
LookupFrame ==
  /\ UNCHANGED <<cfg, kv, saveVars, lost>>
  /\ vector' \subseteq vector /\ meta' \subseteq meta

LEMMA LookupFrameInv ==
  ASSUME IInv, LookupFrame, NEW s \in Saves,
         s \in vector /\ pc[s] \in {"upserted", "done"} => s \in lost \/ s \in vector',
         s \in meta /\ pc[s] = "done" => s \in lost \/ s \in meta'
  PROVE  SaveInv(s)'
<1>1. SaveInv(s)
  BY DEF IInv
<1>2. SaveAlways(s)'
  BY <1>1 DEF SaveInv, SaveAlways, LookupFrame, saveVars, InKV
<1>3. ~cfg.effects => SaveClean(s)'
  BY <1>1 DEF SaveInv, SaveClean, LookupFrame, saveVars, InKV
<1> QED BY <1>2, <1>3 DEF SaveInv, LookupFrame

LEMMA LookupFrameProgress == IInv /\ LookupFrame => Progress
  BY DEF LookupFrame, saveVars, Progress

(* The lookups a step of l leaves alone.                                   *)
LEMMA OtherLookups ==
  ASSUME IInv, LookupFrame, NEW l \in Lookups, NEW t \in Lookups, t # l,
         lk'[t] = lk[t], sel'[t] = sel[t]
  PROVE  LookupInv(t)'
<1>1. InReach(sel[t].id, sel[t].score)' = InReach(sel[t].id, sel[t].score)
  BY DEF InReach, Cap, Qualifying, LookupFrame, saveVars
<1> QED BY <1>1 DEF IInv, LookupInv, LookupFrame, saveVars

LEMMA ReachFacts ==
  ASSUME TypeOK, NEW s \in Saves, NEW score, InReach(s, score) # {}
  PROVE  /\ Max(InReach(s, score)) \in InReach(s, score)
         /\ \A k \in InReach(s, score) : Max(InReach(s, score)) >= k
         /\ InReach(s, score) \subseteq Steps
<1>1. InReach(s, score) \subseteq Steps
  BY DEF InReach, TypeOK
<1>2. IsFiniteSet(InReach(s, score)) /\ InReach(s, score) \subseteq Nat
  BY <1>1, StrategyAssumption, FS_Subset
<1> QED BY <1>1, <1>2, MaxOfSet

LEMMA SearchStep ==
  ASSUME IInv, NEW l \in Lookups, Search(l)
  PROVE  IInv'
<1>0. TypeOK /\ LookupFrame /\ vector' = vector /\ meta' = meta /\ lk' = [lk EXCEPT ![l] = "found"]
  BY DEF IInv, Search, LookupFrame, At
<1>1. PICK s \in vector, score \in Relevant :
        /\ InReach(s, score) # {}
        /\ sel' = [sel EXCEPT ![l] = [id |-> s, step |-> Max(InReach(s, score)), score |-> score]]
  BY DEF Search
<1>2. s \in Saves /\ score \in Scores \cup {0}
  BY <1>0, <1>1 DEF TypeOK, Relevant
<1>3. Max(InReach(s, score)) \in Steps
  BY <1>0, <1>1, <1>2, ReachFacts
<1>4. TypeOK'
  <2>1. [id |-> s, step |-> Max(InReach(s, score)), score |-> score] \in Selection
    BY <1>2, <1>3 DEF Selection
  <2> QED BY <1>0, <1>1, <2>1 DEF TypeOK, LookupFrame, saveVars, LookupEnded, SavePhases
<1>5. \A t \in Saves : SaveInv(t)'
  BY <1>0, LookupFrameInv
<1>6. LookupInv(l)'
  <2>1. sel'[l] = [id |-> s, step |-> Max(InReach(s, score)), score |-> score] /\ lk'[l] = "found"
    BY <1>0, <1>1 DEF TypeOK
  <2>2. pc[s] \in Published /\ got[s] = steps[s]
    BY <1>1, <1>2 DEF IInv, SaveInv, SaveAlways
  <2>3. sel'[l].id = s /\ sel'[l].score = score /\ sel'[l].step = Max(InReach(s, score))
        /\ sel'[l] # <<>>
    BY <2>1
  <2>4. InReach(sel[l].id, sel[l].score)' = InReach(s, score)
    BY <1>0, <2>3 DEF InReach, Cap, Qualifying, LookupFrame, saveVars
  <2>5. pc'[s] \in Published /\ got'[s] = steps'[s]
    BY <1>0, <2>2 DEF LookupFrame, saveVars
  <2> QED BY <1>1, <2>1, <2>3, <2>4, <2>5 DEF LookupInv
<1>7. \A t \in Lookups \ {l} : LookupInv(t)'
  BY <1>0, <1>1, OtherLookups DEF TypeOK
<1> QED BY <1>4, <1>5, <1>6, <1>7 DEF IInv

(* The steps of a lookup that only move it on.                             *)
LEMMA LookupMovesStep ==
  ASSUME IInv, NEW l \in Lookups,
         SearchMisses(l) \/ LoadHit(l) \/ LoadFails(l) \/ RecordAccess(l)
  PROVE  IInv'
<1>0. /\ TypeOK /\ LookupFrame /\ vector' = vector /\ meta' = meta /\ sel' = sel
      /\ \E p \in {"loaded", "hit", "miss", "raised"} :
           lk' = [lk EXCEPT ![l] = p] /\ (p = "loaded" => lk[l] = "found")
  BY DEF IInv, SearchMisses, LoadHit, LoadFails, RecordAccess, LookupFrame, At
<1>1. TypeOK'
  BY <1>0 DEF TypeOK, LookupFrame, saveVars, LookupEnded, SavePhases
<1>2. \A t \in Saves : SaveInv(t)'
  BY <1>0, LookupFrameInv
<1>3. \A t \in Lookups : InReach(sel[t].id, sel[t].score)' = InReach(sel[t].id, sel[t].score)
  BY <1>0 DEF InReach, Cap, Qualifying, LookupFrame, saveVars
<1>4. LookupInv(l)'
  BY <1>0, <1>3 DEF IInv, TypeOK, LookupInv, LookupFrame, saveVars
<1>5. \A t \in Lookups \ {l} : LookupInv(t)'
  BY <1>0, OtherLookups DEF TypeOK
<1> QED BY <1>1, <1>2, <1>4, <1>5 DEF IInv

(* The latents it selected are not there: a key was lost, or the entry is  *)
(* being rolled back.                                                      *)
LEMMA LoadMissStep ==
  ASSUME IInv, NEW l \in Lookups, LoadMiss(l)
  PROVE  IInv'
<1>0. /\ TypeOK /\ LookupFrame /\ vector' = vector /\ meta' = meta /\ sel' = sel
      /\ lk' = [lk EXCEPT ![l] = "evictvector"] /\ lk[l] = "found"
  BY DEF IInv, LoadMiss, LookupFrame, At
<1>1. TypeOK'
  BY <1>0 DEF TypeOK, LookupFrame, saveVars, LookupEnded, SavePhases
<1>2. \A t \in Saves : SaveInv(t)'
  BY <1>0, LookupFrameInv
<1>3. \A t \in Lookups : InReach(sel[t].id, sel[t].score)' = InReach(sel[t].id, sel[t].score)
  BY <1>0 DEF InReach, Cap, Qualifying, LookupFrame, saveVars
<1>4. sel[l] # <<>> /\ LookupInv(l) /\ sel[l].id \in Saves
  BY <1>0 DEF IInv, LookupInv, TypeOK, Selection
<1>5. sel[l].id \in lost \/ pc[sel[l].id] \in Doomed
  <2>1. sel[l].step \in got[sel[l].id] /\ sel[l].step \in Steps
    BY <1>0, <1>4, ReachFacts DEF LookupInv, InReach
  <2>2. ~InKV(sel[l].id, sel[l].step)
    BY DEF LoadMiss, Selected, InKV
  <2>3. SaveAlways(sel[l].id)
    BY <1>4 DEF IInv, SaveInv
  <2> QED BY <1>4, <2>1, <2>2, <2>3 DEF LookupInv, SaveAlways, Published
<1>6. LookupInv(l)'
  BY <1>0, <1>3, <1>4, <1>5 DEF TypeOK, LookupInv, LookupFrame, saveVars
<1>7. \A t \in Lookups \ {l} : LookupInv(t)'
  BY <1>0, OtherLookups DEF TypeOK
<1> QED BY <1>1, <1>2, <1>6, <1>7 DEF IInv

LEMMA EvictStep ==
  ASSUME IInv, NEW l \in Lookups, EvictVector(l) \/ EvictMeta(l)
  PROVE  IInv'
<1> DEFINE i == sel[l].id
<1>0. /\ TypeOK /\ LookupFrame /\ sel' = sel
      /\ vector' \in {vector, vector \ {i}} /\ meta' \in {meta, meta \ {i}}
      /\ lk[l] \in {"evictvector", "evictmeta"}
      /\ \/ lk[l] = "evictvector" /\ lk' = [lk EXCEPT ![l] = "evictmeta"]
         \/ lk' = [lk EXCEPT ![l] = "miss"]
  BY DEF IInv, EvictVector, EvictMeta, LookupFrame, At, AfterError
<1>1. TypeOK'
  BY <1>0 DEF TypeOK, LookupFrame, saveVars, LookupEnded, SavePhases
<1>2. LookupInv(l) /\ i \in Saves /\ (i \in lost \/ pc[i] \in Doomed)
  BY <1>0 DEF IInv, LookupInv, TypeOK, Selection
<1>3. \A t \in Saves : SaveInv(t)'
  <2> TAKE t \in Saves
  <2>1. /\ t \in vector /\ pc[t] \in {"upserted", "done"} => t \in lost \/ t \in vector'
        /\ t \in meta /\ pc[t] = "done" => t \in lost \/ t \in meta'
    BY <1>0, <1>2 DEF Doomed
  <2> QED BY <1>0, <2>1, LookupFrameInv
<1>4. \A t \in Lookups : InReach(sel[t].id, sel[t].score)' = InReach(sel[t].id, sel[t].score)
  BY <1>0 DEF InReach, Cap, Qualifying, LookupFrame, saveVars
<1>5. LookupInv(l)'
  BY <1>0, <1>2, <1>4 DEF TypeOK, LookupInv, LookupFrame, saveVars
<1>6. \A t \in Lookups \ {l} : LookupInv(t)'
  BY <1>0, OtherLookups DEF TypeOK
<1> QED BY <1>1, <1>3, <1>5, <1>6 DEF IInv

-----------------------------------------------------------------------------
(* The environment.                                                        *)

LEMMA LoseStep ==
  ASSUME IInv, NEW s \in Saves, NEW k \in Steps, Lose(s, k)
  PROVE  IInv'
<1>0. TypeOK /\ UNCHANGED <<cfg, vector, meta, saveVars, lookupVars>> /\ lost \subseteq lost'
      /\ kv' \subseteq kv /\ s \in lost'
  BY DEF IInv, Lose
<1>1. TypeOK'
  BY <1>0 DEF TypeOK, Lose, saveVars, lookupVars
<1>2. ASSUME NEW t \in Saves PROVE SaveInv(t)'
  <2>0. SaveInv(t)
    BY DEF IInv
  <2>1. t # s => \A j \in Steps : InKV(t, j)' <=> InKV(t, j)
    BY DEF Lose, InKV
  <2>2. SaveAlways(t)'
    BY <1>0, <2>0, <2>1 DEF SaveInv, SaveAlways, saveVars, InKV, TypeOK
  <2>3. ~cfg.effects => SaveClean(t)'
    BY <1>0, <2>0, <2>1 DEF SaveInv, SaveClean, saveVars, InKV, TypeOK
  <2> QED BY <1>0, <2>2, <2>3 DEF SaveInv
<1>3. Progress
  BY <1>0 DEF Progress, saveVars
<1>4. \A l \in Lookups : LookupInv(l)'
  BY <1>0, <1>3, LookupStable DEF IInv, lookupVars
<1> QED BY <1>1, <1>2, <1>4 DEF IInv

LEMMA CrashStep ==
  ASSUME IInv, Crash
  PROVE  IInv'
<1>0. TypeOK /\ UNCHANGED <<cfg, kv, vector, meta, steps, got, todo, err, sel, lost>>
  BY DEF IInv, Crash
<1>1. \A s \in Saves : pc'[s] = pc[s] \/ (pc'[s] = "dead" /\ pc[s] \notin {"idle"} \cup SaveEnded)
  BY DEF Crash
<1>2. \A l \in Lookups : lk'[l] = lk[l] \/ lk'[l] = "dead"
  BY DEF Crash
<1>3. TypeOK'
  BY <1>0, <1>1, <1>2 DEF TypeOK, Crash, SavePhases, SaveEnded, LookupEnded
<1>4. ASSUME NEW s \in Saves PROVE SaveInv(s)'
  <2>0. SaveInv(s)
    BY DEF IInv
  <2>1. SaveAlways(s)'
    BY <1>0, <1>1, <2>0 DEF SaveInv, SaveAlways, InKV, Published, Doomed
  <2>2. ~cfg.effects => SaveClean(s)'
    BY <1>0, <1>1, <2>0 DEF SaveInv, SaveClean, InKV, InCleanup, SaveEnded
  <2> QED BY <1>0, <2>1, <2>2 DEF SaveInv
<1>5. Progress
  BY <1>0, <1>1 DEF Progress, Published, Doomed
<1>6. \A l \in Lookups : LookupInv(l)'
  BY <1>0, <1>2, <1>5, LookupStable DEF IInv
<1> QED BY <1>3, <1>4, <1>6 DEF IInv

LEMMA NextInv == IInv /\ [Next]_vars => IInv'
<1> SUFFICES ASSUME IInv, [Next]_vars PROVE IInv'
  OBVIOUS
<1>1. ASSUME NEW s \in Saves, SaveStep(s) PROVE IInv'
  BY <1>1, SaveInvariant
<1>2. ASSUME NEW l \in Lookups, LookupStep(l) PROVE IInv'
  BY <1>2, SearchStep, LookupMovesStep, LoadMissStep, EvictStep DEF LookupStep
<1>3. ASSUME NEW s \in Saves, NEW k \in Steps, Lose(s, k) PROVE IInv'
  BY <1>3, LoseStep
<1>4. CASE Crash
  BY <1>4, CrashStep
<1>5. CASE UNCHANGED vars
  <2>1. TypeOK' /\ TypeOK
    BY <1>5 DEF IInv, vars, saveVars, lookupVars, TypeOK
  <2>2. LookupFrame /\ vector' = vector /\ meta' = meta /\ UNCHANGED <<lk, sel>>
    BY <1>5 DEF vars, LookupFrame, lookupVars
  <2>3. \A s \in Saves : SaveInv(s)'
    BY <2>2, LookupFrameInv
  <2>4. \A l \in Lookups : LookupInv(l)'
    <3>1. Progress /\ lost \subseteq lost' /\ UNCHANGED <<cfg, sel>>
      BY <2>2, LookupFrameProgress DEF LookupFrame
    <3> QED BY <2>1, <2>2, <3>1, LookupStable DEF IInv
  <2> QED BY <2>1, <2>3, <2>4 DEF IInv
<1> QED BY <1>1, <1>2, <1>3, <1>4, <1>5 DEF Next

-----------------------------------------------------------------------------

LEMMA Invariance == Spec => []IInv
  BY InitInv, NextInv, PTL DEF Spec

(* The variables keep their types; a selection is of a saved step.         *)
THEOREM TypeCorrect == Spec => []TypeOK
<1>1. IInv => TypeOK
  BY DEF IInv
<1> QED BY <1>1, Invariance, PTL

LEMMA LatentsOf ==
  ASSUME TypeOK, NEW s \in Saves
  PROVE  /\ Latents(s) \subseteq kv <=> \A k \in steps[s] : InKV(s, k)
         /\ Latents(s) \cap kv = {} <=> \A k \in steps[s] : ~InKV(s, k)
         /\ steps[s] \subseteq Steps
  BY DEF TypeOK, Latents, InKV

(* save returns only when latents, vector and metadata are there, and no   *)
(* eviction or rollback of another takes an intact entry away.             *)
THEOREM SavedIntactHolds == Spec => []SavedIntact
<1>1. IInv => SavedIntact
  BY LatentsOf DEF IInv, SaveInv, SaveAlways, SavedIntact
<1> QED BY <1>1, Invariance, PTL

(* A save that gave up, its cleanup in order, left nothing behind, when    *)
(* the calls that failed did nothing.                                      *)
THEOREM CleanFailureHolds == Spec => []CleanFailure
<1>1. IInv => CleanFailure
  <2> SUFFICES ASSUME IInv, ~cfg.effects, NEW s \in Saves, GivenUp(s) PROVE NoTrace(s)
    BY DEF CleanFailure
  <2>1. SaveAlways(s) /\ SaveClean(s) /\ TypeOK
    BY DEF IInv, SaveInv
  <2> QED BY <2>1, LatentsOf DEF GivenUp, NoTrace, SaveAlways, SaveClean, Published, Doomed
<1> QED BY <1>1, Invariance, PTL

(* No search finds a vector whose latents cannot be loaded, at any moment  *)
(* of a save, its rollback or a crash in the middle of either.             *)
THEOREM VectorBackedHolds == Spec => []VectorBacked
<1>1. IInv => VectorBacked
  <2> SUFFICES ASSUME IInv, ~cfg.effects, NEW s \in vector
               PROVE  s \in lost \/ err[s] \/ (steps[s] # {} /\ Latents(s) \subseteq kv)
    BY DEF VectorBacked
  <2>1. s \in Saves /\ TypeOK
    BY DEF IInv, TypeOK
  <2>2. SaveAlways(s) /\ SaveClean(s)
    BY <2>1 DEF IInv, SaveInv
  <2> QED BY <2>1, <2>2, LatentsOf DEF SaveAlways, SaveClean
<1> QED BY <1>1, Invariance, PTL

(* What the cap of a score lets through: every step up to max_skip_step    *)
(* and, when the score reaches a tier, up to some tier it reaches.         *)
LEMMA CapFacts ==
  ASSUME NEW score \in Scores \cup {0}, NEW k \in Nat
  PROVE  k <= Cap(score) <=> /\ k <= MaxSkipStep
                             /\ cfg.staircase /\ Qualifying(score) # {} =>
                                  \E t \in Qualifying(score) : k <= t
<1> DEFINE Q == Qualifying(score)
<1>1. MaxSkipStep \in Nat /\ Q \subseteq Nat /\ IsFiniteSet(Q)
  BY StrategyAssumption, FS_Subset DEF Qualifying
<1>2. CASE cfg.staircase /\ Q # {}
  <2> HIDE DEF Q
  <2>1. Max(Q) \in Q /\ \A t \in Q : Max(Q) >= t
    BY <1>1, <1>2, MaxOfSet
  <2>2. Max(Q) \in Nat
    BY <1>1, <2>1
  <2>3. /\ Min({MaxSkipStep, Max(Q)}) \in {MaxSkipStep, Max(Q)}
        /\ \A y \in {MaxSkipStep, Max(Q)} : Min({MaxSkipStep, Max(Q)}) <= y
    BY <1>1, <2>2, MinOfSet
  <2>4. Cap(score) = Min({MaxSkipStep, Max(Q)})
    BY <1>2 DEF Cap, Q
  <2>5. k <= Cap(score) <=> k <= MaxSkipStep /\ k <= Max(Q)
    BY <1>1, <2>2, <2>3, <2>4
  <2>6. k <= Max(Q) <=> \E t \in Q : k <= t
    BY <1>1, <2>1, <2>2
  <2> QED BY <1>2, <2>5, <2>6 DEF Q
<1>3. CASE ~(cfg.staircase /\ Q # {})
  BY <1>3 DEF Cap
<1> QED BY <1>2, <1>3

(* The staircase resumes from the deepest saved step that it may.          *)
THEOREM DeepestAllowedHolds == Spec => []DeepestAllowed
<1>1. IInv => DeepestAllowed
  <2> SUFFICES ASSUME IInv, NEW l \in Lookups, sel[l] # <<>>
      PROVE  LET Reached == {t \in DOMAIN Tiers : Tiers[t] <= sel[l].score}
                 Allowed(k) == /\ k <= MaxSkipStep
                               /\ cfg.staircase /\ Reached # {} => \E t \in Reached : k <= t
             IN  /\ sel[l].step \in steps[sel[l].id] /\ Allowed(sel[l].step)
                 /\ \A k \in steps[sel[l].id] : Allowed(k) => k <= sel[l].step
    BY DEF DeepestAllowed
  <2> DEFINE s == sel[l].id
             score == sel[l].score
             R == InReach(s, score)
  <2>1. s \in Saves /\ score \in Scores \cup {0} /\ TypeOK /\ LookupInv(l)
    BY DEF IInv, TypeOK, Selection
  <2>2. /\ sel[l].step \in R
        /\ \A k \in R : sel[l].step >= k
    BY <2>1, ReachFacts DEF LookupInv
  <2>3. R = {k \in steps[s] : k <= Cap(score)} /\ steps[s] \subseteq Nat
    BY <2>1, StrategyAssumption DEF LookupInv, InReach, TypeOK
  <2>4. {t \in DOMAIN Tiers : Tiers[t] <= score} = Qualifying(score)
    BY <2>1, StrategyAssumption DEF Qualifying
  <2>5. \A k \in steps[s] :
          k <= Cap(score) <=> /\ k <= MaxSkipStep
                              /\ cfg.staircase /\ Qualifying(score) # {} =>
                                   \E t \in Qualifying(score) : k <= t
    BY <2>1, <2>3, CapFacts
  <2> HIDE DEF s, score, R
  <2>6. \A k \in R : sel[l].step \in Nat /\ k <= sel[l].step
    BY <2>2, <2>3
  <2> QED BY <2>2, <2>3, <2>4, <2>5, <2>6 DEF s, score
<1> QED BY <1>1, Invariance, PTL
=============================================================================
