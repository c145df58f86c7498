---------------------------- MODULE WorldKVProofs ----------------------------
(***************************************************************************)
(* What holds of exact-prefix reuse for every number of sessions, every    *)
(* set of requests, window, sink and queue bound.                          *)
(***************************************************************************)
EXTENDS WorldKV, FiniteSetTheorems, SequenceTheorems, WellFoundedInduction, TLAPS

-----------------------------------------------------------------------------
(* Requests, prefixes and the longest match.                               *)

LEMMA PlanFacts ==
  ASSUME NEW p \in Plans
  PROVE  /\ p \in Seq({p[i] : i \in DOMAIN p}) /\ DOMAIN p = 1..Len(p)
         /\ Len(p) \in Nat /\ Len(p) >= 2
  BY WorldAssumption

LEMMA PrefixFacts ==
  ASSUME NEW p \in Plans, NEW k \in 1..Len(p)
  PROVE  /\ Prefix(p, k) \in Seq({p[i] : i \in DOMAIN p})
         /\ Len(Prefix(p, k)) = k /\ Prefix(p, k) # NoNode
         /\ \A i \in 1..k : Prefix(p, k)[i] = p[i]
         /\ k >= 2 => Prefix(p, k) \in Nodes
         /\ k = 1 => Prefix(p, k) \in Roots
<1> DEFINE S == {p[i] : i \in DOMAIN p}
<1>1. \A i \in 1..k : p[i] \in S
  BY PlanFacts
<1>2. /\ SubSeq(p, 1, k) \in Seq(S) /\ Len(SubSeq(p, 1, k)) = k
      /\ \A i \in 1..k : SubSeq(p, 1, k)[i] = p[i]
  <2> HIDE DEF S
  <2> QED BY <1>1, SubSeqProperties
<1>3. /\ k >= 2 => Prefix(p, k) \in Nodes
      /\ k = 1 => Prefix(p, k) \in Roots
  BY DEF Nodes, Roots
<1>4. Prefix(p, k) # NoNode
  BY <1>2 DEF Prefix, NoNode
<1> QED BY <1>2, <1>3, <1>4 DEF Prefix

LEMMA PrefixExtends ==
  ASSUME NEW p \in Plans, NEW k \in 1..(Len(p) - 1)
  PROVE  Append(Prefix(p, k), p[k + 1]) = Prefix(p, k + 1)
<1> DEFINE S == {p[i] : i \in DOMAIN p}
<1>1. k \in 1..Len(p) /\ k + 1 \in 1..Len(p) /\ p[k + 1] \in S
  BY PlanFacts
<1>2. /\ Prefix(p, k) \in Seq(S) /\ Len(Prefix(p, k)) = k
      /\ \A i \in 1..k : Prefix(p, k)[i] = p[i]
      /\ Prefix(p, k + 1) \in Seq(S) /\ Len(Prefix(p, k + 1)) = k + 1
      /\ \A i \in 1..(k + 1) : Prefix(p, k + 1)[i] = p[i]
  BY <1>1, PrefixFacts
<1> HIDE DEF S
<1>3. /\ Append(Prefix(p, k), p[k + 1]) \in Seq(S)
      /\ Len(Append(Prefix(p, k), p[k + 1])) = k + 1
      /\ \A i \in 1..(k + 1) : Append(Prefix(p, k), p[k + 1])[i] = p[i]
  BY <1>1, <1>2, AppendProperties
<1> QED BY <1>2, <1>3, SeqEqual

LEMMA PrefixOfPrefix ==
  ASSUME NEW p \in Plans, NEW k \in 1..Len(p), NEW j \in 1..k
  PROVE  Prefix(Prefix(p, k), j) = Prefix(p, j)
  BY PlanFacts, SubSeqOfSubSeq DEF Prefix

LEMMA WindowInNodes ==
  ASSUME NEW p \in Plans, NEW k \in 1..Len(p)
  PROVE  WindowPath(Prefix(p, k)) \subseteq Nodes
<1> SUFFICES ASSUME NEW i \in 2..k PROVE Prefix(Prefix(p, k), i) \in Nodes
  BY PrefixFacts DEF WindowPath
<1>1. i \in 1..k /\ i \in 1..Len(p) /\ i >= 2
  BY PlanFacts
<1> QED BY <1>1, PrefixOfPrefix, PrefixFacts

(* There is a longest match: the distances from the end of the request are *)
(* naturals, and one of them is least.                                     *)
LEMMA MatchFacts ==
  ASSUME NEW p \in Plans
  PROVE  \E k \in 1..Len(p) : Match(p) = Prefix(p, k) /\ Len(Match(p)) = k
<1> DEFINE lengths == {k \in 1..Len(p) : \A i \in 2..k : HasKV(Prefix(p, i))}
           left == {Len(p) - k : k \in lengths}
           less == OpToRel(<, Nat)
<1>1. 1 \in lengths /\ Len(p) \in Nat /\ lengths \subseteq 1..Len(p)
  <2>1. Len(p) \in Nat /\ 1 \in 1..Len(p)
    BY PlanFacts
  <2>2. 2..1 = {}
    OBVIOUS
  <2> QED BY <2>1, <2>2
<1>2. left \subseteq Nat /\ left # {}
  <2> HIDE DEF lengths
  <2> QED BY <1>1
<1>3. PICK d \in left : \A e \in left : ~ (<<e, d>> \in less)
  <2> HIDE DEF left
  <2> QED BY <1>2, NatLessThanWellFounded, WFMin
<1>4. \A e \in left : d <= e
  <2> TAKE e \in left
  <2>1. ~ (e < d)
    BY <1>2, <1>3 DEF OpToRel
  <2> QED BY <1>2, <2>1
<1>5. \E k \in lengths : \A i \in lengths : i <= k
  <2> HIDE DEF lengths
  <2>1. PICK k \in lengths : d = Len(p) - k
    OBVIOUS
  <2>2. \A i \in lengths : Len(p) - k <= Len(p) - i
    BY <1>4, <2>1
  <2> QED BY <1>1, <2>2
<1>6. (CHOOSE k \in lengths : \A i \in lengths : i <= k) \in lengths
  <2> HIDE DEF lengths
  <2> QED BY <1>5
<1>7. PICK k \in 1..Len(p) : Match(p) = Prefix(p, k)
  BY <1>6 DEF Match
<1> QED BY <1>7, PrefixFacts

-----------------------------------------------------------------------------
(* The inductive invariant.                                                *)

(* TypeOK, but for the bound of the references, which follows from their   *)
(* balance.                                                                *)
TypeRest ==
  /\ cfg \in Configs
  /\ trie \subseteq Nodes /\ pinned \subseteq trie
  /\ blob \in [Nodes -> {"none", "unready", "ready"}]
  /\ refs = [n \in Nodes |-> refs[n]]
  /\ kv \in [Nodes -> {"absent", "partial", "whole", "torn"}]
  /\ spec \subseteq Nodes /\ sidecar \subseteq Nodes
  /\ snap \in [nodes : SUBSET Nodes, ready : SUBSET Nodes, pinned : SUBSET Nodes]
  /\ snap.pinned \subseteq snap.nodes
  /\ queue \in Seq(Jobs) /\ Len(queue) <= MaxPending
  /\ job \in [Writers -> Jobs]
  /\ writing \subseteq Writers
  /\ ph \in [Sessions -> {"off", "hit", "checked", "read", "run", "put"}]
  /\ plan \in [Sessions -> Plans \cup {NoPlan}]
  /\ parent \in [Sessions -> Nodes \cup Roots \cup {NoNode}]
  /\ chunk \in [Sessions -> Nat]
  /\ unread \in [Sessions -> SUBSET Nodes]
  /\ victim \in [node : Nodes, freed : BOOLEAN] \cup {NoVictim}

(* The cursor and the chunk count advance together.                        *)
SessionOK(s) ==
  /\ ph[s] # "off" => /\ plan[s] \in Plans
                      /\ chunk[s] \in 0..(Len(plan[s]) - 1)
                      /\ parent[s] = Prefix(plan[s], chunk[s] + 1)
  /\ ph[s] = "put" => chunk[s] < Len(plan[s]) - 1

(* Who carries a job, and who may be writing one.                          *)
WritersOK ==
  /\ \A s \in Sessions : job[s].node # NoNode <=> ph[s] = "put"
  /\ \A w \in writing : job[w].node # NoNode /\ (w \in Sessions => cfg.store # "async")

(* A node is ready, in memory or in the snapshot, once its tensors have    *)
(* been complete, and tensors once complete are at worst overwritten, or   *)
(* freed by the eviction that takes the handle next.  In memory a session  *)
(* has stored what it is about to publish.                                 *)
Written(n) == kv[n] \in {"whole", "torn"} \/ Dropping(n)

PubInv ==
  /\ \A n \in Nodes : blob[n] = "ready" => Written(n)
  /\ \A n \in snap.ready : kv[n] \in {"whole", "torn"}
  /\ cfg.store = "memory" =>
       /\ snap.ready = {}
       /\ \A s \in Sessions : s \in writing /\ job[s].current => Written(job[s].node)

Holders(n) == {s \in Sessions : ph[s] = "read" /\ n \in WindowPath(parent[s])}
Balanced   == \A n \in Nodes : refs[n] = Cardinality(Holders(n))

IInv ==
  /\ TypeRest
  /\ \A s \in Sessions : SessionOK(s)
  /\ WritersOK
  /\ PubInv
  /\ Balanced

LEMMA HoldersFinite ==
  \A n : IsFiniteSet(Holders(n)) /\ Cardinality(Holders(n)) \in 0..Cardinality(Sessions)
<1> TAKE n
<1>1. Holders(n) \in SUBSET Sessions
  BY DEF Holders
<1>2. IsFiniteSet(Sessions) /\ Cardinality(Sessions) \in Nat
  BY WorldAssumption, FS_CardinalityType
<1> QED BY <1>1, <1>2, FS_Subset, FS_CardinalityType

LEMMA IInvType == IInv => TypeOK /\ CursorAligned /\ PublishedWritten /\ RefsBalanced
<1> SUFFICES ASSUME IInv PROVE TypeOK /\ CursorAligned /\ PublishedWritten /\ RefsBalanced
  OBVIOUS
<1>1. refs \in [Nodes -> 0..Cardinality(Sessions)]
  BY HoldersFinite DEF IInv, TypeRest, Balanced
<1>2. TypeOK
  BY <1>1 DEF IInv, TypeRest, TypeOK
<1>3. CursorAligned
  BY DEF IInv, SessionOK, CursorAligned
<1>4. PublishedWritten
  BY DEF IInv, PubInv, Written, PublishedWritten, HasKV
<1>5. RefsBalanced
  BY DEF IInv, Balanced, Holders, RefsBalanced
<1> QED BY <1>2, <1>3, <1>4, <1>5

(* Nothing changed that a materialization holds.                           *)
LEMMA BalanceKept ==
  ASSUME Balanced, refs' = refs,
         \A s \in Sessions : /\ ph'[s] = "read" <=> ph[s] = "read"
                             /\ ph[s] = "read" => parent'[s] = parent[s]
  PROVE  Balanced'
<1>1. \A n \in Nodes : Holders(n)' = Holders(n)
  BY DEF Holders, WindowPath, Prefix
<1> QED BY <1>1 DEF Balanced

LEMMA JobFacts ==
  /\ NoJob \in Jobs /\ NoJob.node = NoNode
  /\ \A n \in Nodes \cup {NoNode}, c \in BOOLEAN : Job(n, c) \in Jobs /\ Job(n, c).node = n
  BY DEF NoJob, Job, Jobs

LEMMA StaleFacts ==
  ASSUME NEW j \in Jobs, NEW n
  PROVE  /\ Stale(j, n) \in Jobs /\ Stale(j, n).node = j.node
         /\ Stale(j, n).current <=> j.current /\ j.node # n
  BY DEF Jobs, Stale

LEMMA StaleQueue ==
  ASSUME NEW q \in Seq(Jobs), NEW n
  PROVE  /\ [i \in DOMAIN q |-> Stale(q[i], n)] \in Seq(Jobs)
         /\ Len([i \in DOMAIN q |-> Stale(q[i], n)]) = Len(q)
<1> DEFINE r == [i \in DOMAIN q |-> Stale(q[i], n)]
<1>1. \A i \in DOMAIN q : q[i] \in Jobs /\ Stale(q[i], n) \in Jobs
  BY StaleFacts
<1>2. DOMAIN q = 1..Len(q) /\ Len(q) \in Nat
  OBVIOUS
<1>3. DOMAIN r = 1..Len(q)
  BY <1>2
<1>4. r \in [1..Len(q) -> Jobs]
  BY <1>1, <1>2
<1> HIDE DEF r
<1>5. r \in Seq(Jobs) /\ Len(r) = Len(q)
  BY <1>2, <1>3, <1>4
<1> QED BY <1>5 DEF r

(* The chunk an engine is about to finalize.                               *)
LEMMA ChildFacts ==
  ASSUME IInv, NEW s \in Sessions, ph[s] # "off", chunk[s] < Len(plan[s]) - 1
  PROVE  /\ Child(s) = Prefix(plan[s], chunk[s] + 2) /\ Child(s) \in Nodes
         /\ chunk[s] + 1 \in 0..(Len(plan[s]) - 1) /\ Child(s) # NoNode
<1>1. /\ plan[s] \in Plans /\ chunk[s] \in 0..(Len(plan[s]) - 1)
      /\ parent[s] = Prefix(plan[s], chunk[s] + 1) /\ Len(plan[s]) \in Nat
  BY PlanFacts DEF IInv, SessionOK
<1>2. chunk[s] + 1 \in 1..(Len(plan[s]) - 1) /\ (chunk[s] + 1) + 1 = chunk[s] + 2
      /\ chunk[s] + 2 \in 1..Len(plan[s]) /\ chunk[s] + 2 >= 2
  BY <1>1
<1>3. Child(s) = Prefix(plan[s], chunk[s] + 2)
  BY <1>1, <1>2, PrefixExtends DEF Child
<1>4. Prefix(plan[s], chunk[s] + 2) \in Nodes /\ Prefix(plan[s], chunk[s] + 2) # NoNode
  <2> DEFINE k == chunk[s] + 2
  <2>1. k \in 1..Len(plan[s]) /\ k >= 2
    BY <1>2
  <2> HIDE DEF k
  <2>2. Prefix(plan[s], k) \in Nodes /\ Prefix(plan[s], k) # NoNode
    BY <1>1, <2>1, PrefixFacts
  <2> QED BY <2>2 DEF k
<1>5. chunk[s] + 1 \in 0..(Len(plan[s]) - 1)
  BY <1>1
<1> QED BY <1>3, <1>4, <1>5

LEMMA InitInv == Init => IInv
<1> SUFFICES ASSUME Init PROVE IInv
  OBVIOUS
<1>1. TypeRest
  <2>1. <<>> \in Seq(Jobs) /\ Len(<<>>) = 0
    OBVIOUS
  <2> QED BY <2>1, JobFacts, WorldAssumption DEF Init, TypeRest
<1>2. \A s \in Sessions : SessionOK(s)
  BY DEF Init, SessionOK
<1>3. WritersOK
  BY JobFacts DEF Init, WritersOK, Writers
<1>4. PubInv
  BY DEF Init, PubInv
<1>5. Balanced
  <2>1. \A n \in Nodes : Holders(n) = {}
    BY DEF Init, Holders
  <2> QED BY <2>1, FS_EmptySet DEF Init, Balanced
<1> QED BY <1>1, <1>2, <1>3, <1>4, <1>5 DEF IInv

-----------------------------------------------------------------------------
(* One lemma per operation.                                                *)

LEMMA StartSessionStep ==
  ASSUME IInv, NEW s \in Sessions, NEW p \in Plans, StartSession(s, p)
  PROVE  IInv'
<1>0. TypeRest /\ (\A t \in Sessions : SessionOK(t)) /\ WritersOK /\ PubInv /\ Balanced
  BY DEF IInv
<1> USE <1>0
<1>1. Prefix(p, 1) \in Roots /\ 0 \in 0..(Len(p) - 1) /\ Len(p) \in Nat
  <2>1. Len(p) \in Nat /\ 1 \in 1..Len(p) /\ 0 \in 0..(Len(p) - 1)
    BY PlanFacts
  <2> QED BY <2>1, PrefixFacts
<1>2. PICK m \in 1..Len(p) : Match(p) = Prefix(p, m) /\ Len(Match(p)) = m
  BY MatchFacts
<1>3. Match(p) \in Nodes \cup Roots /\ m - 1 \in 0..(Len(p) - 1) /\ (m - 1) + 1 = m
  <2>1. m = 1 \/ m >= 2
    BY <1>1
  <2>2. Match(p) \in Nodes \cup Roots
    BY <1>2, <2>1, PrefixFacts
  <2> QED BY <1>1, <2>2
<1>4. \E c \in {0, m - 1} :
        /\ parent' = [parent EXCEPT ![s] = IF c = m - 1 THEN Match(p) ELSE Prefix(p, 1)]
        /\ chunk' = [chunk EXCEPT ![s] = c]
        /\ ph' \in {[ph EXCEPT ![s] = "run"], [ph EXCEPT ![s] = "hit"]}
  <2>1. CASE m - 1 = 0 \/ m - 1 < cfg.breakEven
    <3>1. m - 1 = 0 => Match(p) = Prefix(p, 1)
      BY <1>1, <1>2
    <3> QED BY <1>2, <2>1, <3>1 DEF StartSession, StartsCold
  <2>2. CASE ~(m - 1 = 0 \/ m - 1 < cfg.breakEven)
    BY <1>2, <2>2 DEF StartSession
  <2> QED BY <2>1, <2>2
<1>5. PICK c \in {0, m - 1} :
        /\ parent' = [parent EXCEPT ![s] = IF c = m - 1 THEN Match(p) ELSE Prefix(p, 1)]
        /\ chunk' = [chunk EXCEPT ![s] = c]
        /\ ph' \in {[ph EXCEPT ![s] = "run"], [ph EXCEPT ![s] = "hit"]}
  BY <1>4
<1>6. c \in 0..(Len(p) - 1) /\ c \in Nat
      /\ (IF c = m - 1 THEN Match(p) ELSE Prefix(p, 1)) = Prefix(p, c + 1)
      /\ Prefix(p, c + 1) \in Nodes \cup Roots
  BY <1>1, <1>2, <1>3
<1>7. /\ ph' \in [Sessions -> {"off", "hit", "checked", "read", "run", "put"}]
      /\ plan' \in [Sessions -> Plans \cup {NoPlan}]
      /\ parent' \in [Sessions -> Nodes \cup Roots \cup {NoNode}]
      /\ chunk' \in [Sessions -> Nat]
  <2>1. parent' = [parent EXCEPT ![s] = Prefix(p, c + 1)]
    BY <1>5, <1>6
  <2>2. parent' \in [Sessions -> Nodes \cup Roots \cup {NoNode}]
    BY <1>6, <2>1 DEF TypeRest
  <2>3. /\ ph' \in [Sessions -> {"off", "hit", "checked", "read", "run", "put"}]
        /\ chunk' \in [Sessions -> Nat]
    BY <1>5, <1>6 DEF TypeRest
  <2>4. plan' \in [Sessions -> Plans \cup {NoPlan}]
    BY DEF StartSession, TypeRest
  <2> QED BY <2>2, <2>3, <2>4
<1>8. /\ plan'[s] = p /\ chunk'[s] = c /\ parent'[s] = Prefix(p, c + 1) /\ ph'[s] \in {"run", "hit"}
      /\ \A t \in Sessions \ {s} : /\ plan'[t] = plan[t] /\ chunk'[t] = chunk[t]
                                   /\ parent'[t] = parent[t] /\ ph'[t] = ph[t]
  BY <1>5, <1>6 DEF StartSession, TypeRest
<1>11. TypeRest'
  BY <1>7 DEF TypeRest, StartSession, StartsCold, trieVars, storeVars, putVars, sessionVars
<1>12. \A t \in Sessions : SessionOK(t)'
  BY <1>6, <1>8 DEF SessionOK
<1>13. WritersOK'
  BY DEF TypeRest, WritersOK, StartSession, StartsCold, trieVars, storeVars, putVars, sessionVars
<1>14. PubInv'
  BY DEF TypeRest, PubInv, Written, Dropping, StartSession, StartsCold, trieVars, storeVars, putVars, sessionVars
<1>15. Balanced'
  BY <1>8 , BalanceKept DEF TypeRest, StartSession, StartsCold, trieVars, storeVars, putVars, sessionVars
<1> QED BY <1>11, <1>12, <1>13, <1>14, <1>15 DEF IInv

LEMMA WindowIncompleteStep ==
  ASSUME IInv, NEW s \in Sessions, WindowIncomplete(s)
  PROVE  IInv'
<1>0. TypeRest /\ (\A t \in Sessions : SessionOK(t)) /\ WritersOK /\ PubInv /\ Balanced
  BY DEF IInv
<1> USE <1>0
<1>1. plan[s] \in Plans /\ Prefix(plan[s], 1) \in Roots /\ 0 \in 0..(Len(plan[s]) - 1)
  <2>1. plan[s] \in Plans /\ Len(plan[s]) \in Nat /\ Len(plan[s]) >= 2
    BY PlanFacts DEF SessionOK, WindowIncomplete
  <2>2. 1 \in 1..Len(plan[s]) /\ 0 \in 0..(Len(plan[s]) - 1)
    BY <2>1
  <2> QED BY <2>1, <2>2, PrefixFacts
<1>11. TypeRest'
  BY <1>1 DEF TypeRest, WindowIncomplete, StartsCold, trieVars, storeVars, putVars, sessionVars
<1>12. \A t \in Sessions : SessionOK(t)'
  BY <1>1 DEF TypeRest, SessionOK, WindowIncomplete, StartsCold, trieVars, storeVars, putVars, sessionVars
<1>13. WritersOK'
  BY DEF TypeRest, WritersOK, WindowIncomplete, StartsCold, trieVars, storeVars, putVars, sessionVars
<1>14. PubInv'
  BY DEF TypeRest, PubInv, Written, Dropping, WindowIncomplete, StartsCold, trieVars, storeVars, putVars, sessionVars
<1>15. Balanced'
  BY BalanceKept DEF TypeRest, WindowIncomplete, StartsCold, trieVars, storeVars, putVars, sessionVars
<1> QED BY <1>11, <1>12, <1>13, <1>14, <1>15 DEF IInv

LEMMA WindowCompleteStep ==
  ASSUME IInv, NEW s \in Sessions, WindowComplete(s)
  PROVE  IInv'
<1>0. TypeRest /\ (\A t \in Sessions : SessionOK(t)) /\ WritersOK /\ PubInv /\ Balanced
  BY DEF IInv
<1> USE <1>0
<1>11. TypeRest'
  BY DEF TypeRest, WindowComplete, trieVars, storeVars, putVars, sessionVars
<1>12. \A t \in Sessions : SessionOK(t)'
  BY DEF TypeRest, SessionOK, WindowComplete, trieVars, storeVars, putVars, sessionVars
<1>13. WritersOK'
  BY DEF TypeRest, WritersOK, WindowComplete, trieVars, storeVars, putVars, sessionVars
<1>14. PubInv'
  BY DEF TypeRest, PubInv, Written, Dropping, WindowComplete, trieVars, storeVars, putVars, sessionVars
<1>15. Balanced'
  BY BalanceKept DEF TypeRest, WindowComplete, trieVars, storeVars, putVars, sessionVars
<1> QED BY <1>11, <1>12, <1>13, <1>14, <1>15 DEF IInv

LEMMA HoldStep ==
  ASSUME IInv, NEW s \in Sessions, Hold(s)
  PROVE  IInv'
<1>0. TypeRest /\ (\A t \in Sessions : SessionOK(t)) /\ WritersOK /\ PubInv /\ Balanced
  BY DEF IInv
<1> USE <1>0
<1>1. WindowPath(parent[s]) \subseteq Nodes
  <2>1. plan[s] \in Plans /\ chunk[s] + 1 \in 1..Len(plan[s]) /\ parent[s] = Prefix(plan[s], chunk[s] + 1)
    BY PlanFacts DEF SessionOK, Hold
  <2> QED BY <2>1, WindowInNodes
<1>11. TypeRest'
  BY <1>1 DEF TypeRest, Hold, trieVars, storeVars, putVars, sessionVars
<1>12. \A t \in Sessions : SessionOK(t)'
  BY DEF TypeRest, SessionOK, Hold, trieVars, storeVars, putVars, sessionVars
<1>13. WritersOK'
  BY DEF TypeRest, WritersOK, Hold, trieVars, storeVars, putVars, sessionVars
<1>14. PubInv'
  BY DEF TypeRest, PubInv, Written, Dropping, Hold, trieVars, storeVars, putVars, sessionVars
<1>15. Balanced'
  <2> SUFFICES ASSUME NEW n \in Nodes PROVE refs'[n] = Cardinality(Holders(n)')
    BY DEF Balanced
  <2>1. /\ ph[s] = "checked" /\ ph' = [ph EXCEPT ![s] = "read"] /\ parent' = parent
        /\ refs'[n] = IF n \in WindowPath(parent[s]) THEN refs[n] + 1 ELSE refs[n]
    BY DEF Hold
  <2>2. Holders(n)' = IF n \in WindowPath(parent[s]) THEN Holders(n) \cup {s} ELSE Holders(n)
    BY <2>1 DEF TypeRest, Holders
  <2>3. s \notin Holders(n)
    BY <2>1 DEF Holders
  <2>4. Cardinality(Holders(n) \cup {s}) = Cardinality(Holders(n)) + 1
    BY <2>3, HoldersFinite, FS_AddElement
  <2> QED BY <2>1, <2>2, <2>4 DEF Balanced
<1> QED BY <1>11, <1>12, <1>13, <1>14, <1>15 DEF IInv

LEMMA ReadNodeStep ==
  ASSUME IInv, NEW s \in Sessions, NEW n \in Nodes, ReadNode(s, n)
  PROVE  IInv'
<1>0. TypeRest /\ (\A t \in Sessions : SessionOK(t)) /\ WritersOK /\ PubInv /\ Balanced
  BY DEF IInv
<1> USE <1>0
<1>11. TypeRest'
  BY DEF TypeRest, ReadNode, trieVars, storeVars, putVars, sessionVars
<1>12. \A t \in Sessions : SessionOK(t)'
  BY DEF TypeRest, SessionOK, ReadNode, trieVars, storeVars, putVars, sessionVars
<1>13. WritersOK'
  BY DEF TypeRest, WritersOK, ReadNode, trieVars, storeVars, putVars, sessionVars
<1>14. PubInv'
  BY DEF TypeRest, PubInv, Written, Dropping, ReadNode, trieVars, storeVars, putVars, sessionVars
<1>15. Balanced'
  BY BalanceKept DEF TypeRest, ReadNode, trieVars, storeVars, putVars, sessionVars
<1> QED BY <1>11, <1>12, <1>13, <1>14, <1>15 DEF IInv

LEMMA ReadFailsStep ==
  ASSUME IInv, NEW s \in Sessions, NEW m \in Nodes, ReadFails(s, m)
  PROVE  IInv'
<1>0. TypeRest /\ (\A t \in Sessions : SessionOK(t)) /\ WritersOK /\ PubInv /\ Balanced
  BY DEF IInv
<1> USE <1>0
<1>11. TypeRest'
  BY DEF TypeRest, ReadFails, Unhold, Gone, trieVars, storeVars, putVars, sessionVars
<1>12. \A t \in Sessions : SessionOK(t)'
  BY DEF TypeRest, SessionOK, ReadFails, Unhold, Gone, trieVars, storeVars, putVars, sessionVars
<1>13. WritersOK'
  BY DEF TypeRest, WritersOK, ReadFails, Unhold, Gone, trieVars, storeVars, putVars, sessionVars
<1>14. PubInv'
  BY DEF TypeRest, PubInv, Written, Dropping, ReadFails, Unhold, Gone, trieVars, storeVars, putVars, sessionVars
<1>15. Balanced'
  <2> SUFFICES ASSUME NEW n \in Nodes PROVE refs'[n] = Cardinality(Holders(n)')
    BY DEF Balanced
  <2>1. /\ ph[s] = "read" /\ ph' = [ph EXCEPT ![s] = "off"]
        /\ \A t \in Sessions \ {s} : parent'[t] = parent[t]
        /\ refs'[n] = IF n \in WindowPath(parent[s]) THEN refs[n] - 1 ELSE refs[n]
    BY DEF ReadFails, Unhold, Gone, TypeRest
  <2>2. Holders(n)' = Holders(n) \ {s}
    BY <2>1 DEF TypeRest, Holders
  <2>3. s \in Holders(n) <=> n \in WindowPath(parent[s])
    BY <2>1 DEF Holders
  <2>4. Cardinality(Holders(n) \ {s}) =
          IF s \in Holders(n) THEN Cardinality(Holders(n)) - 1 ELSE Cardinality(Holders(n))
    BY HoldersFinite, FS_RemoveElement
  <2> QED BY <2>1, <2>2, <2>3, <2>4 DEF Balanced
<1> QED BY <1>11, <1>12, <1>13, <1>14, <1>15 DEF IInv

LEMMA SeededStep ==
  ASSUME IInv, NEW s \in Sessions, Seeded(s)
  PROVE  IInv'
<1>0. TypeRest /\ (\A t \in Sessions : SessionOK(t)) /\ WritersOK /\ PubInv /\ Balanced
  BY DEF IInv
<1> USE <1>0
<1>11. TypeRest'
  BY DEF TypeRest, Seeded, Unhold, trieVars, storeVars, putVars, sessionVars
<1>12. \A t \in Sessions : SessionOK(t)'
  BY DEF TypeRest, SessionOK, Seeded, Unhold, trieVars, storeVars, putVars, sessionVars
<1>13. WritersOK'
  BY DEF TypeRest, WritersOK, Seeded, Unhold, trieVars, storeVars, putVars, sessionVars
<1>14. PubInv'
  BY DEF TypeRest, PubInv, Written, Dropping, Seeded, Unhold, trieVars, storeVars, putVars, sessionVars
<1>15. Balanced'
  <2> SUFFICES ASSUME NEW n \in Nodes PROVE refs'[n] = Cardinality(Holders(n)')
    BY DEF Balanced
  <2>1. /\ ph[s] = "read" /\ ph' = [ph EXCEPT ![s] = "run"]
        /\ \A t \in Sessions \ {s} : parent'[t] = parent[t]
        /\ refs'[n] = IF n \in WindowPath(parent[s]) THEN refs[n] - 1 ELSE refs[n]
    BY DEF Seeded, Unhold, Gone, TypeRest
  <2>2. Holders(n)' = Holders(n) \ {s}
    BY <2>1 DEF TypeRest, Holders
  <2>3. s \in Holders(n) <=> n \in WindowPath(parent[s])
    BY <2>1 DEF Holders
  <2>4. Cardinality(Holders(n) \ {s}) =
          IF s \in Holders(n) THEN Cardinality(Holders(n)) - 1 ELSE Cardinality(Holders(n))
    BY HoldersFinite, FS_RemoveElement
  <2> QED BY <2>1, <2>2, <2>3, <2>4 DEF Balanced
<1> QED BY <1>11, <1>12, <1>13, <1>14, <1>15 DEF IInv

LEMMA IngestStep ==
  ASSUME IInv, NEW s \in Sessions, Ingest(s)
  PROVE  IInv'
<1>0. TypeRest /\ (\A t \in Sessions : SessionOK(t)) /\ WritersOK /\ PubInv /\ Balanced
  BY DEF IInv
<1> USE <1>0
<1>1. Child(s) \in Nodes /\ Child(s) # NoNode
  BY ChildFacts DEF Ingest
<1>2. queue' \in Seq(Jobs) /\ Len(queue') = Len(queue)
  <2>1. queue' = [i \in DOMAIN queue |-> Stale(queue[i], Child(s))] /\ queue \in Seq(Jobs)
    BY DEF Ingest, TypeRest
  <2> QED BY <2>1, StaleQueue
<1>3. /\ job' \in [Writers -> Jobs]
      /\ \A w \in Writers \ {s} : job'[w].node = job[w].node
      /\ s \in Writers /\ job'[s].node = Child(s)
  BY <1>1, JobFacts, StaleFacts DEF Ingest, TypeRest, Writers
<1>4. Sessions \subseteq Writers /\ s \notin writing
  BY DEF Writers, WritersOK, Ingest
<1>11. TypeRest'
  BY <1>1, <1>2, <1>3 DEF TypeRest, Ingest, Commit, trieVars, storeVars, putVars, sessionVars
<1>12. \A t \in Sessions : SessionOK(t)'
  BY DEF TypeRest, SessionOK, Ingest, Commit, trieVars, storeVars, putVars, sessionVars
<1>13. WritersOK'
  <2>1. ph' = [ph EXCEPT ![s] = "put"] /\ UNCHANGED <<cfg, writing>> /\ writing \subseteq Writers
    BY DEF Ingest, TypeRest
  <2> QED BY <1>1, <1>3, <1>4, <2>1 DEF TypeRest, WritersOK
<1>14. PubInv'
  <2>1. UNCHANGED <<cfg, kv, snap, writing, victim>> /\ blob' = [blob EXCEPT ![Child(s)] = "unready"]
    BY DEF Ingest, storeVars
  <2>2. \A m : Written(m)' <=> Written(m)
    BY <2>1 DEF Written, Dropping
  <2>3. \A t \in Sessions \ {s} : job'[t].current => job[t].current
    BY <1>4, StaleFacts DEF Ingest, TypeRest
  <2> QED BY <1>1, <1>3, <1>4, <2>1, <2>2, <2>3 DEF TypeRest, PubInv
<1>15. Balanced'
  BY BalanceKept DEF TypeRest, Ingest, Commit, trieVars, storeVars, putVars, sessionVars
<1> QED BY <1>11, <1>12, <1>13, <1>14, <1>15 DEF IInv

LEMMA SkeletonFailsStep ==
  ASSUME IInv, NEW s \in Sessions, SkeletonFails(s)
  PROVE  IInv'
<1>0. TypeRest /\ (\A t \in Sessions : SessionOK(t)) /\ WritersOK /\ PubInv /\ Balanced
  BY DEF IInv
<1> USE <1>0
<1>1. Child(s) \in Nodes
  BY ChildFacts DEF SkeletonFails
<1>11. TypeRest'
  BY <1>1 DEF TypeRest, SkeletonFails, Commit, Gone, trieVars, storeVars, putVars, sessionVars
<1>12. \A t \in Sessions : SessionOK(t)'
  BY DEF TypeRest, SessionOK, SkeletonFails, Commit, Gone, trieVars, storeVars, putVars, sessionVars
<1>13. WritersOK'
  BY DEF TypeRest, WritersOK, SkeletonFails, Commit, Gone, trieVars, storeVars, putVars, sessionVars
<1>14. PubInv'
  BY DEF TypeRest, PubInv, Written, Dropping, SkeletonFails, Commit, Gone, trieVars, storeVars, putVars, sessionVars
<1>15. Balanced'
  BY BalanceKept DEF TypeRest, SkeletonFails, Commit, Gone, trieVars, storeVars, putVars, sessionVars
<1> QED BY <1>11, <1>12, <1>13, <1>14, <1>15 DEF IInv

LEMMA StoreInMemoryStep ==
  ASSUME IInv, NEW s \in Sessions, StoreInMemory(s)
  PROVE  IInv'
<1>0. TypeRest /\ (\A t \in Sessions : SessionOK(t)) /\ WritersOK /\ PubInv /\ Balanced
  BY DEF IInv
<1> USE <1>0
<1>1. s \in Writers /\ job[s].node \in Nodes
  BY DEF StoreInMemory, WritersOK, TypeRest, Jobs, Writers
<1>11. TypeRest'
  BY <1>1 DEF TypeRest, StoreInMemory, trieVars, storeVars, putVars, sessionVars
<1>12. \A t \in Sessions : SessionOK(t)'
  BY DEF TypeRest, SessionOK, StoreInMemory, trieVars, storeVars, putVars, sessionVars
<1>13. WritersOK'
  BY <1>1 DEF TypeRest, WritersOK, StoreInMemory, trieVars, storeVars, putVars, sessionVars
<1>14. PubInv'
  BY <1>1 DEF TypeRest, PubInv, Written, Dropping, StoreInMemory, trieVars, storeVars, putVars, sessionVars
<1>15. Balanced'
  BY BalanceKept DEF TypeRest, StoreInMemory, trieVars, storeVars, putVars, sessionVars
<1> QED BY <1>11, <1>12, <1>13, <1>14, <1>15 DEF IInv

LEMMA ReadyInMemoryStep ==
  ASSUME IInv, NEW s \in Sessions, ReadyInMemory(s)
  PROVE  IInv'
<1>0. TypeRest /\ (\A t \in Sessions : SessionOK(t)) /\ WritersOK /\ PubInv /\ Balanced
  BY DEF IInv
<1> USE <1>0
<1>1. /\ chunk[s] < Len(plan[s]) - 1 /\ ph[s] = "put"
      /\ Child(s) \in Nodes /\ Child(s) = Prefix(plan[s], chunk[s] + 2)
      /\ chunk[s] + 1 \in 0..(Len(plan[s]) - 1) /\ (chunk[s] + 1) + 1 = chunk[s] + 2
      /\ chunk[s] \in Nat /\ job[s] \in Jobs /\ job[s].node \in Nodes /\ s \in Writers
  BY ChildFacts DEF SessionOK, WritersOK, Jobs, TypeRest, Writers, ReadyInMemory
<1>2. /\ kv' \in [Nodes -> {"absent", "partial", "whole", "torn"}]
      /\ blob' \in [Nodes -> {"none", "unready", "ready"}]
  BY <1>1 DEF ReadyInMemory, Publish, storeVars, TypeRest
<1>3. job' \in [Writers -> Jobs]
  BY JobFacts DEF ReadyInMemory, TypeRest
<1>4. /\ parent' \in [Sessions -> Nodes \cup Roots \cup {NoNode}]
      /\ chunk' \in [Sessions -> Nat]
      /\ ph' \in [Sessions -> {"off", "hit", "checked", "read", "run", "put"}]
  BY <1>1 DEF ReadyInMemory, Advance, TypeRest
<1>11. TypeRest'
  BY <1>2, <1>3, <1>4 DEF TypeRest, ReadyInMemory, Advance, Publish, trieVars, storeVars, putVars, sessionVars
<1>12. \A t \in Sessions : SessionOK(t)'
  BY <1>1 DEF TypeRest, SessionOK, ReadyInMemory, Advance, Publish, trieVars, storeVars, putVars, sessionVars
<1>13. WritersOK'
  BY <1>1, JobFacts DEF TypeRest, WritersOK, ReadyInMemory, Advance, Publish, trieVars, storeVars, putVars, sessionVars
<1>14. PubInv'
  BY <1>1 DEF TypeRest, PubInv, Written, Dropping, ReadyInMemory, Advance, Publish, trieVars, storeVars, putVars, sessionVars
<1>15. Balanced'
  BY <1>1, BalanceKept DEF TypeRest, ReadyInMemory, Advance, Publish, trieVars, storeVars, putVars, sessionVars
<1> QED BY <1>11, <1>12, <1>13, <1>14, <1>15 DEF IInv

LEMMA EnqueueStep ==
  ASSUME IInv, NEW s \in Sessions, Enqueue(s)
  PROVE  IInv'
<1>0. TypeRest /\ (\A t \in Sessions : SessionOK(t)) /\ WritersOK /\ PubInv /\ Balanced
  BY DEF IInv
<1> USE <1>0
<1>1. /\ chunk[s] < Len(plan[s]) - 1 /\ ph[s] = "put"
      /\ Child(s) \in Nodes /\ Child(s) = Prefix(plan[s], chunk[s] + 2)
      /\ chunk[s] + 1 \in 0..(Len(plan[s]) - 1) /\ (chunk[s] + 1) + 1 = chunk[s] + 2
      /\ chunk[s] \in Nat /\ job[s] \in Jobs /\ s \in Writers
  BY ChildFacts DEF SessionOK, TypeRest, Writers, Enqueue
<1>2. queue' \in Seq(Jobs) /\ Len(queue') = Len(queue) + 1
  BY <1>1, AppendProperties DEF Enqueue, TypeRest
<1>3. Len(queue') <= MaxPending
  <2>1. Len(queue) \in Nat /\ MaxPending \in Nat /\ Len(queue) < MaxPending
    BY WorldAssumption DEF TypeRest, Enqueue
  <2> QED BY <1>2, <2>1
<1>11. TypeRest'
  BY <1>1, <1>2, <1>3, JobFacts DEF TypeRest, Enqueue, Advance, trieVars, storeVars, putVars, sessionVars
<1>12. \A t \in Sessions : SessionOK(t)'
  BY <1>1 DEF TypeRest, SessionOK, Enqueue, Advance, trieVars, storeVars, putVars, sessionVars
<1>13. WritersOK'
  BY <1>1, JobFacts DEF TypeRest, WritersOK, Enqueue, Advance, trieVars, storeVars, putVars, sessionVars
<1>14. PubInv'
  BY DEF TypeRest, PubInv, Written, Dropping, Enqueue, Advance, trieVars, storeVars, putVars, sessionVars
<1>15. Balanced'
  BY BalanceKept DEF TypeRest, Enqueue, Advance, trieVars, storeVars, putVars, sessionVars
<1> QED BY <1>11, <1>12, <1>13, <1>14, <1>15 DEF IInv

LEMMA WorkerTakesStep ==
  ASSUME IInv, WorkerTakes
  PROVE  IInv'
<1>0. TypeRest /\ (\A t \in Sessions : SessionOK(t)) /\ WritersOK /\ PubInv /\ Balanced
  BY DEF IInv
<1> USE <1>0
<1>1. /\ Head(queue) \in Jobs /\ Tail(queue) \in Seq(Jobs) /\ Len(Tail(queue)) <= MaxPending
  <2>1. queue \in Seq(Jobs) /\ queue # <<>> /\ Len(queue) \in Nat /\ MaxPending \in Nat
    BY WorldAssumption DEF WorkerTakes, TypeRest
  <2> QED BY <2>1, HeadTailProperties DEF TypeRest
<1>2. "worker" \notin Sessions /\ "worker" \in Writers /\ Sessions \subseteq Writers
  BY WorldAssumption DEF Writers
<1>11. TypeRest'
  BY <1>1, <1>2 DEF TypeRest, WorkerTakes, trieVars, storeVars, putVars, sessionVars
<1>12. \A t \in Sessions : SessionOK(t)'
  BY DEF TypeRest, SessionOK, WorkerTakes, trieVars, storeVars, putVars, sessionVars
<1>13. WritersOK'
  BY <1>2, JobFacts DEF TypeRest, WritersOK, WorkerTakes, trieVars, storeVars, putVars, sessionVars
<1>14. PubInv'
  BY <1>2 DEF TypeRest, PubInv, Written, Dropping, WorkerTakes, trieVars, storeVars, putVars, sessionVars
<1>15. Balanced'
  BY BalanceKept DEF TypeRest, WorkerTakes, trieVars, storeVars, putVars, sessionVars
<1> QED BY <1>11, <1>12, <1>13, <1>14, <1>15 DEF IInv

LEMMA BeginWriteStep ==
  ASSUME IInv, NEW w \in Writers, BeginWrite(w)
  PROVE  IInv'
<1>0. TypeRest /\ (\A t \in Sessions : SessionOK(t)) /\ WritersOK /\ PubInv /\ Balanced
  BY DEF IInv
<1> USE <1>0
<1>1. job[w].node \in Nodes
  BY DEF BeginWrite, MayWrite, TypeRest, Jobs
<1>2. "worker" \notin Sessions /\ (w \in Sessions => cfg.store # "memory")
  BY WorldAssumption DEF BeginWrite, MayWrite
<1>11. TypeRest'
  BY <1>1 DEF TypeRest, BeginWrite, MayWrite, trieVars, storeVars, putVars, sessionVars
<1>12. \A t \in Sessions : SessionOK(t)'
  BY DEF TypeRest, SessionOK, BeginWrite, MayWrite, trieVars, storeVars, putVars, sessionVars
<1>13. WritersOK'
  BY <1>2 DEF TypeRest, WritersOK, BeginWrite, MayWrite, trieVars, storeVars, putVars, sessionVars
<1>14. PubInv'
  <2>1. /\ UNCHANGED <<cfg, blob, snap, job, victim>> /\ writing' = writing \cup {w}
        /\ \A n \in Nodes : kv[n] \in {"whole", "torn"} => kv'[n] \in {"whole", "torn"}
    BY DEF BeginWrite, TypeRest
  <2>2. \A n \in Nodes : Written(n) => Written(n)'
    BY <2>1 DEF Written, Dropping
  <2>3. /\ \A s \in Sessions : s \in writing => job[s].node \in Nodes
        /\ snap.ready \subseteq Nodes
    BY DEF TypeRest, WritersOK, Jobs, Writers
  <2>4. cfg.store = "memory" => \A s \in Sessions : s \in writing' => s \in writing
    BY <1>2, <2>1
  <2> QED BY <2>1, <2>2, <2>3, <2>4 DEF PubInv
<1>15. Balanced'
  BY BalanceKept DEF TypeRest, BeginWrite, MayWrite, trieVars, storeVars, putVars, sessionVars
<1> QED BY <1>11, <1>12, <1>13, <1>14, <1>15 DEF IInv

LEMMA EndWriteStep ==
  ASSUME IInv, NEW w \in Writers, EndWrite(w)
  PROVE  IInv'
<1>0. TypeRest /\ (\A t \in Sessions : SessionOK(t)) /\ WritersOK /\ PubInv /\ Balanced
  BY DEF IInv
<1> USE <1>0
<1>1. job[w] \in Jobs /\ job[w].node \in Nodes
  BY DEF EndWrite, WritersOK, TypeRest, Jobs
<1>2. w # "worker" => /\ w \in Sessions /\ ph[w] = "put"
                      /\ Child(w) \in Nodes /\ Child(w) = Prefix(plan[w], chunk[w] + 2)
                      /\ chunk[w] + 1 \in 0..(Len(plan[w]) - 1) /\ (chunk[w] + 1) + 1 = chunk[w] + 2
                      /\ chunk[w] \in Nat
  BY ChildFacts DEF EndWrite, WritersOK, SessionOK, TypeRest, Writers
<1>3. "worker" \notin Sessions /\ Sessions \subseteq Writers
  BY WorldAssumption DEF Writers
<1>4. /\ kv' \in [Nodes -> {"absent", "partial", "whole", "torn"}]
      /\ blob' \in [Nodes -> {"none", "unready", "ready"}]
      /\ sidecar' \subseteq Nodes
  BY <1>1 DEF EndWrite, Publish, TypeRest
<1>5. job' \in [Writers -> Jobs] /\ writing' \subseteq Writers
  BY JobFacts DEF EndWrite, PutOver, TypeRest
<1>6. plan' = plan /\ (UNCHANGED <<ph, parent, chunk>> \/ (w # "worker" /\ Advance(w)))
  BY DEF EndWrite
<1>7. /\ parent' \in [Sessions -> Nodes \cup Roots \cup {NoNode}]
      /\ chunk' \in [Sessions -> Nat]
      /\ ph' \in [Sessions -> {"off", "hit", "checked", "read", "run", "put"}]
  <2>1. CASE UNCHANGED <<ph, parent, chunk>>
    BY <2>1 DEF TypeRest
  <2>2. CASE w # "worker" /\ Advance(w)
    <3>1. /\ parent' = [parent EXCEPT ![w] = Child(w)]
          /\ chunk' = [chunk EXCEPT ![w] = chunk[w] + 1]
          /\ ph' = [ph EXCEPT ![w] = "run"]
      BY <2>2 DEF Advance
    <3>2. Child(w) \in Nodes /\ chunk[w] + 1 \in Nat
      BY <1>2, <2>2
    <3> QED BY <3>1, <3>2 DEF TypeRest
  <2> QED BY <1>6, <2>1, <2>2
<1>11. TypeRest'
  BY <1>4, <1>5, <1>7 DEF TypeRest, EndWrite, PutOver, Publish, Advance, trieVars, storeVars, putVars, sessionVars
<1>12. \A t \in Sessions : SessionOK(t)'
  BY <1>2, <1>6 DEF TypeRest, SessionOK, Advance
<1>13. WritersOK'
  BY <1>2, <1>3, JobFacts DEF TypeRest, WritersOK, EndWrite, PutOver, Publish, Advance, trieVars, storeVars, putVars, sessionVars
<1>14. PubInv'
  BY <1>1 DEF TypeRest, PubInv, Written, Dropping, EndWrite, PutOver, Publish, Advance, trieVars, storeVars, putVars, sessionVars
<1>15. Balanced'
  BY <1>2, <1>3 , BalanceKept DEF TypeRest, EndWrite, PutOver, Publish, Advance, trieVars, storeVars, putVars, sessionVars
<1> QED BY <1>11, <1>12, <1>13, <1>14, <1>15 DEF IInv

LEMMA WriteFailsStep ==
  ASSUME IInv, NEW w \in Writers, WriteFails(w)
  PROVE  IInv'
<1>0. TypeRest /\ (\A t \in Sessions : SessionOK(t)) /\ WritersOK /\ PubInv /\ Balanced
  BY DEF IInv
<1> USE <1>0
<1>1. "worker" \notin Sessions /\ Sessions \subseteq Writers
  BY WorldAssumption DEF Writers
<1>2. w # "worker" => w \in Sessions /\ ph[w] = "put"
  BY DEF WriteFails, WritersOK, TypeRest, Writers
<1>3. job' \in [Writers -> Jobs] /\ writing' \subseteq Writers
  BY JobFacts DEF WriteFails, PutOver, TypeRest
<1>4. /\ ph' \in [Sessions -> {"off", "hit", "checked", "read", "run", "put"}]
      /\ plan' \in [Sessions -> Plans \cup {NoPlan}]
      /\ parent' \in [Sessions -> Nodes \cup Roots \cup {NoNode}]
      /\ chunk' \in [Sessions -> Nat]
      /\ unread' \in [Sessions -> SUBSET Nodes]
  <2>1. CASE w = "worker"
    BY <2>1 DEF WriteFails, sessionVars, TypeRest
  <2>2. CASE w # "worker"
    <3>1. Gone(w)
      BY <2>2 DEF WriteFails
    <3> QED BY <3>1 DEF Gone, TypeRest
  <2> QED BY <2>1, <2>2
<1>11. TypeRest'
  BY <1>3, <1>4 DEF TypeRest, WriteFails, PutOver, Gone, trieVars, storeVars, putVars, sessionVars
<1>12. \A t \in Sessions : SessionOK(t)'
  BY <1>1, <1>2 DEF TypeRest, SessionOK, WriteFails, PutOver, Gone, trieVars, storeVars, putVars, sessionVars
<1>13. WritersOK'
  BY <1>1, <1>2, JobFacts DEF TypeRest, WritersOK, WriteFails, PutOver, Gone, trieVars, storeVars, putVars, sessionVars
<1>14. PubInv'
  BY DEF TypeRest, PubInv, Written, Dropping, WriteFails, PutOver, Gone, trieVars, storeVars, putVars, sessionVars
<1>15. Balanced'
  BY <1>1, <1>2 , BalanceKept DEF TypeRest, WriteFails, PutOver, Gone, trieVars, storeVars, putVars, sessionVars
<1> QED BY <1>11, <1>12, <1>13, <1>14, <1>15 DEF IInv

LEMMA EndSessionStep ==
  ASSUME IInv, NEW s \in Sessions, EndSession(s)
  PROVE  IInv'
<1>0. TypeRest /\ (\A t \in Sessions : SessionOK(t)) /\ WritersOK /\ PubInv /\ Balanced
  BY DEF IInv
<1> USE <1>0
<1>11. TypeRest'
  BY DEF TypeRest, EndSession, Gone, trieVars, storeVars, putVars, sessionVars
<1>12. \A t \in Sessions : SessionOK(t)'
  BY DEF TypeRest, SessionOK, EndSession, Gone, trieVars, storeVars, putVars, sessionVars
<1>13. WritersOK'
  BY DEF TypeRest, WritersOK, EndSession, Gone, trieVars, storeVars, putVars, sessionVars
<1>14. PubInv'
  BY DEF TypeRest, PubInv, Written, Dropping, EndSession, Gone, trieVars, storeVars, putVars, sessionVars
<1>15. Balanced'
  BY BalanceKept DEF TypeRest, EndSession, Gone, trieVars, storeVars, putVars, sessionVars
<1> QED BY <1>11, <1>12, <1>13, <1>14, <1>15 DEF IInv

LEMMA EvictCheckStep ==
  ASSUME IInv, NEW n \in Nodes, EvictCheck(n)
  PROVE  IInv'
<1>0. TypeRest /\ (\A t \in Sessions : SessionOK(t)) /\ WritersOK /\ PubInv /\ Balanced
  BY DEF IInv
<1> USE <1>0
<1>11. TypeRest'
  BY DEF TypeRest, EvictCheck, trieVars, storeVars, putVars, sessionVars
<1>12. \A t \in Sessions : SessionOK(t)'
  BY DEF TypeRest, SessionOK, EvictCheck, trieVars, storeVars, putVars, sessionVars
<1>13. WritersOK'
  BY DEF TypeRest, WritersOK, EvictCheck, trieVars, storeVars, putVars, sessionVars
<1>14. PubInv'
  <2>1. \A m : ~Dropping(m)
    BY DEF EvictCheck, Dropping, NoVictim
  <2> QED BY <2>1 DEF PubInv, Written, EvictCheck, storeVars, putVars
<1>15. Balanced'
  BY BalanceKept DEF TypeRest, EvictCheck, trieVars, storeVars, putVars, sessionVars
<1> QED BY <1>11, <1>12, <1>13, <1>14, <1>15 DEF IInv

LEMMA EvictFreeStep ==
  ASSUME IInv, EvictFree
  PROVE  IInv'
<1>0. TypeRest /\ (\A t \in Sessions : SessionOK(t)) /\ WritersOK /\ PubInv /\ Balanced
  BY DEF IInv
<1> USE <1>0
<1>1. PICK n \in Nodes : victim = [node |-> n, freed |-> FALSE]
  BY DEF EvictFree, TypeRest
<1>2. victim' = [node |-> n, freed |-> TRUE]
  BY <1>1 DEF EvictFree
<1>11. TypeRest'
  BY <1>1, <1>2 DEF TypeRest, EvictFree, trieVars, storeVars, putVars, sessionVars
<1>12. \A t \in Sessions : SessionOK(t)'
  BY DEF TypeRest, SessionOK, EvictFree, trieVars, storeVars, putVars, sessionVars
<1>13. WritersOK'
  BY DEF TypeRest, WritersOK, EvictFree, trieVars, storeVars, putVars, sessionVars
<1>14. PubInv'
  <2>1. /\ UNCHANGED <<cfg, blob, snap, job, writing>>
        /\ cfg.store # "memory" => kv' = kv
        /\ cfg.store = "memory" => kv' = [kv EXCEPT ![n] = "absent"] /\ Dropping(n)'
    BY <1>1, <1>2 DEF EvictFree, Dropping, putVars
  <2>2. \A m : ~Dropping(m)
    BY <1>1 DEF Dropping
  <2>3. \A m \in Nodes : Written(m) => Written(m)'
    BY <2>1, <2>2 DEF Written, TypeRest
  <2>4. \A s \in Sessions : s \in writing => job[s].node \in Nodes
    BY DEF TypeRest, WritersOK, Jobs, Writers
  <2>5. snap.ready \subseteq Nodes
    BY DEF TypeRest
  <2> QED BY <2>1, <2>3, <2>4, <2>5 DEF PubInv
<1>15. Balanced'
  BY BalanceKept DEF TypeRest, EvictFree, trieVars, storeVars, putVars, sessionVars
<1> QED BY <1>11, <1>12, <1>13, <1>14, <1>15 DEF IInv

LEMMA EvictClearStep ==
  ASSUME IInv, EvictClear
  PROVE  IInv'
<1>0. TypeRest /\ (\A t \in Sessions : SessionOK(t)) /\ WritersOK /\ PubInv /\ Balanced
  BY DEF IInv
<1> USE <1>0
<1>1. PICK n \in Nodes : victim = [node |-> n, freed |-> TRUE]
  BY DEF EvictClear, TypeRest, NoVictim
<1>2. queue' \in Seq(Jobs) /\ Len(queue') = Len(queue)
  <2>1. queue' = [i \in DOMAIN queue |-> Stale(queue[i], n)] /\ queue \in Seq(Jobs)
    BY <1>1 DEF EvictClear, TypeRest
  <2> QED BY <2>1, StaleQueue
<1>3. job' \in [Writers -> Jobs] /\ \A w \in Writers : job'[w].node = job[w].node
  BY StaleFacts DEF EvictClear, TypeRest
<1>4. Sessions \subseteq Writers
  BY DEF Writers
<1>11. TypeRest'
  BY <1>1, <1>2, <1>3 DEF TypeRest, EvictClear, trieVars, storeVars, putVars, sessionVars
<1>12. \A t \in Sessions : SessionOK(t)'
  BY DEF TypeRest, SessionOK, EvictClear, trieVars, storeVars, putVars, sessionVars
<1>13. WritersOK'
  <2>1. writing' = writing /\ ph' = ph /\ cfg' = cfg /\ writing \subseteq Writers
    BY DEF EvictClear, sessionVars, TypeRest
  <2> QED BY <1>3, <1>4, <2>1 DEF WritersOK
<1>14. PubInv'
  <2>1. /\ UNCHANGED <<cfg, kv, snap, writing>>
        /\ blob' = [blob EXCEPT ![n] = "none"]
    BY <1>1 DEF EvictClear, storeVars
  <2>2. \A m : m # n /\ Written(m) => Written(m)'
    BY <1>1, <2>1 DEF Written, Dropping
  <2>3. \A s \in Sessions : job'[s].current => job[s].current /\ job[s].node # n
    BY <1>1, <1>4, StaleFacts DEF EvictClear, TypeRest
  <2> QED BY <1>3, <1>4, <2>1, <2>2, <2>3 DEF PubInv, TypeRest
<1>15. Balanced'
  BY BalanceKept DEF TypeRest, EvictClear, trieVars, storeVars, putVars, sessionVars
<1> QED BY <1>11, <1>12, <1>13, <1>14, <1>15 DEF IInv

LEMMA FlushSnapshotStep ==
  ASSUME IInv, NEW s \in Sessions, FlushSnapshot(s)
  PROVE  IInv'
<1>0. TypeRest /\ (\A t \in Sessions : SessionOK(t)) /\ WritersOK /\ PubInv /\ Balanced
  BY DEF IInv
<1> USE <1>0
<1>1. cfg.store # "memory"
  BY WorldAssumption DEF FlushSnapshot, TypeRest
<1>11. TypeRest'
  BY DEF TypeRest, FlushSnapshot, HasKV, trieVars, storeVars, putVars, sessionVars
<1>12. \A t \in Sessions : SessionOK(t)'
  BY DEF TypeRest, SessionOK, FlushSnapshot, HasKV, trieVars, storeVars, putVars, sessionVars
<1>13. WritersOK'
  BY DEF TypeRest, WritersOK, FlushSnapshot, HasKV, trieVars, storeVars, putVars, sessionVars
<1>14. PubInv'
  BY <1>1 DEF TypeRest, PubInv, Written, Dropping, FlushSnapshot, HasKV, trieVars, storeVars, putVars, sessionVars
<1>15. Balanced'
  BY BalanceKept DEF TypeRest, FlushSnapshot, HasKV, trieVars, storeVars, putVars, sessionVars
<1> QED BY <1>11, <1>12, <1>13, <1>14, <1>15 DEF IInv

LEMMA RestartStep ==
  ASSUME IInv, Restart
  PROVE  IInv'
<1>0. TypeRest /\ (\A t \in Sessions : SessionOK(t)) /\ WritersOK /\ PubInv /\ Balanced
  BY DEF IInv
<1> USE <1>0
<1>1. <<>> \in Seq(Jobs) /\ Len(<<>>) = 0 /\ MaxPending \in Nat
  BY WorldAssumption
<1>11. TypeRest'
  BY <1>1, JobFacts DEF TypeRest, Restart, trieVars, storeVars, putVars, sessionVars
<1>12. \A t \in Sessions : SessionOK(t)'
  BY DEF TypeRest, SessionOK, Restart, trieVars, storeVars, putVars, sessionVars
<1>13. WritersOK'
  BY JobFacts DEF WritersOK, Restart, Writers
<1>14. PubInv'
  BY DEF TypeRest, PubInv, Written, Dropping, Restart, trieVars, storeVars, putVars, sessionVars
<1>15. Balanced'
  <2>1. \A n \in Nodes : Holders(n)' = {} /\ refs'[n] = 0
    BY DEF Restart, Holders
  <2> QED BY <2>1, FS_EmptySet DEF Balanced
<1> QED BY <1>11, <1>12, <1>13, <1>14, <1>15 DEF IInv

LEMMA StutterStep ==
  ASSUME IInv, UNCHANGED vars
  PROVE  IInv'
<1>0. TypeRest /\ (\A t \in Sessions : SessionOK(t)) /\ WritersOK /\ PubInv /\ Balanced
  BY DEF IInv
<1> USE <1>0
<1>1. TypeRest'
  BY DEF vars, TypeRest
<1>2. (\A t \in Sessions : SessionOK(t)') /\ WritersOK' /\ PubInv'
  BY DEF vars, SessionOK, WritersOK, PubInv, Written, Dropping
<1>3. Balanced'
  BY BalanceKept DEF vars
<1> QED BY <1>1, <1>2, <1>3 DEF IInv

LEMMA NextInv == IInv /\ [Next]_vars => IInv'
<1> SUFFICES ASSUME IInv, [Next]_vars PROVE IInv'
  OBVIOUS
<1>1. ASSUME NEW s \in Sessions, NEW p \in Plans, StartSession(s, p) PROVE IInv'
  BY <1>1, StartSessionStep
<1>2. ASSUME NEW s \in Sessions, SessionStep(s) PROVE IInv'
  <2>1. ASSUME NEW n \in Nodes, ReadNode(s, n) \/ ReadFails(s, n) PROVE IInv'
    BY <2>1, ReadNodeStep, ReadFailsStep
  <2> QED BY <1>2, <2>1, WindowIncompleteStep, WindowCompleteStep, HoldStep, SeededStep, IngestStep,
             SkeletonFailsStep, StoreInMemoryStep, ReadyInMemoryStep, EndSessionStep DEF SessionStep
<1>3. ASSUME NEW s \in Sessions, Enqueue(s) \/ FlushSnapshot(s) PROVE IInv'
  BY <1>3, EnqueueStep, FlushSnapshotStep
<1>4. ASSUME NEW w \in Writers, WriterStep(w) PROVE IInv'
  BY <1>4, BeginWriteStep, EndWriteStep, WriteFailsStep DEF WriterStep
<1>5. CASE WorkerTakes
  BY <1>5, WorkerTakesStep
<1>6. ASSUME NEW n \in Nodes, EvictCheck(n) PROVE IInv'
  BY <1>6, EvictCheckStep
<1>7. CASE EvictFree \/ EvictClear \/ Restart
  BY <1>7, EvictFreeStep, EvictClearStep, RestartStep
<1>8. CASE UNCHANGED vars
  BY <1>8, StutterStep
<1> QED BY <1>1, <1>2, <1>3, <1>4, <1>5, <1>6, <1>7, <1>8 DEF Next

-----------------------------------------------------------------------------

LEMMA Invariance == Spec => []IInv
  BY InitInv, NextInv, PTL DEF Spec

(* Every variable keeps its type; the queue keeps its bound, and no more   *)
(* references are held than there are sessions.                            *)
THEOREM TypeCorrect == Spec => []TypeOK
  BY Invariance, IInvType, PTL

(* A session's cursor is the node of the chunk it finalized last, however  *)
(* it started and whichever writer ended its put.                          *)
THEOREM CursorAlignedHolds == Spec => []CursorAligned
  BY Invariance, IInvType, PTL

(* What lookup takes for a published node has been written as a whole.     *)
THEOREM PublishedWrittenHolds == Spec => []PublishedWritten
  BY Invariance, IInvType, PTL

(* materialize takes and gives back its references in pairs.               *)
THEOREM RefsBalancedHolds == Spec => []RefsBalanced
  BY Invariance, IInvType, PTL

-----------------------------------------------------------------------------
(***************************************************************************)
(* That a hit never breaks where sessions run one at a time, nothing is    *)
(* evicted and the process does not restart, although the worker lags      *)
(* behind the sessions and puts may fail.                                  *)
(***************************************************************************)

Quiet == ~cfg.overlap /\ ~cfg.evicts /\ ~cfg.restarts

Alone == \A s, t \in Sessions : ph[s] # "off" /\ ph[t] # "off" => s = t

(* Without the queue there is nothing for the worker to do.                *)
Inline == cfg.store # "async" => queue = <<>> /\ job["worker"].node = NoNode

(* A read can locate what is being written; in memory it is there already. *)
WritesKnown ==
  \A w \in writing : IF cfg.store = "memory" THEN kv[job[w].node] = "whole"
                                             ELSE job[w].node \in spec

(* No put of n is under way or waiting.                                    *)
NoJobOn(n) ==
  /\ \A w \in Writers : job[w].node # n
  /\ \A i \in 1..Len(queue) : queue[i].node # n

ReadySound == \A n \in Nodes : blob[n] = "ready" => kv[n] = "whole" /\ Located(n) /\ NoJobOn(n)

(* Puts of a node are carried out in the order worker, queue, session; one *)
(* that will publish is the last of its node.                              *)
Publishes(j) == j.current /\ j.node # NoNode

LastOfNode ==
  /\ Publishes(job["worker"]) =>
       /\ \A i \in 1..Len(queue) : queue[i].node # job["worker"].node
       /\ \A s \in Sessions : job[s].node # job["worker"].node
  /\ \A i \in 1..Len(queue) : Publishes(queue[i]) =>
       /\ \A k \in 1..Len(queue) : i < k => queue[k].node # queue[i].node
       /\ \A s \in Sessions : job[s].node # queue[i].node

ReadsReady ==
  \A s \in Sessions :
    /\ ph[s] \in {"checked", "read"} => \A n \in WindowPath(parent[s]) : HasKV(n)
    /\ ph[s] = "read" => unread[s] \subseteq WindowPath(parent[s])

PutsSound == Inline /\ WritesKnown /\ ReadySound /\ LastOfNode
Serial    == victim = NoVictim /\ Alone /\ PutsSound /\ ReadsReady

-----------------------------------------------------------------------------
LEMMA SerialInit == Init => Serial
<1> SUFFICES ASSUME Init PROVE Serial
  OBVIOUS
<1>1. "worker" \in Writers /\ Len(queue) = 0
  BY DEF Init, Writers
<1>2. job["worker"] = NoJob /\ ~Publishes(NoJob) /\ NoJob.node = NoNode
  BY <1>1, JobFacts DEF Init, Publishes
<1> QED BY <1>1, <1>2 DEF Init, Serial, Alone, PutsSound, Inline, WritesKnown, ReadySound, LastOfNode, ReadsReady

LEMMA NoNodeFacts == NoNode \notin Nodes
<1> SUFFICES ASSUME NEW n \in Nodes PROVE n # NoNode
  OBVIOUS
<1>1. PICK p \in Plans : n \in {Prefix(p, k) : k \in 2..Len(p)}
  BY DEF Nodes
<1>2. PICK k \in 2..Len(p) : n = Prefix(p, k)
  BY <1>1
<1>3. k \in 1..Len(p)
  BY PlanFacts
<1> QED BY <1>2, <1>3, PrefixFacts

(* A step that leaves handles, tensors and puts alone.                     *)
LEMMA PutsKept ==
  ASSUME PutsSound, UNCHANGED <<cfg, blob, kv, sidecar, putVars>>, spec \subseteq spec'
  PROVE  PutsSound'
<1> USE DEF PutsSound, putVars
<1>1. Inline' /\ WritesKnown' /\ LastOfNode'
  BY DEF Inline, WritesKnown, LastOfNode, Publishes
<1>2. ReadySound'
  BY DEF ReadySound, NoJobOn, Located
<1> QED BY <1>1, <1>2

(* What a session finds published stays so.                                *)
LEMMA ReadsKept ==
  ASSUME ReadsReady, trie \subseteq trie', \A n : blob[n] = "ready" => blob'[n] = "ready",
         UNCHANGED <<parent, unread, ph>>
  PROVE  ReadsReady'
  BY DEF ReadsReady, HasKV, WindowPath, Prefix

(* A session that runs alone and does not read.                            *)
LEMMA NoReader ==
  ASSUME Alone, NEW s \in Sessions, ph[s] # "off", \A t \in Sessions \ {s} : ph'[t] = ph[t],
         ph'[s] \notin {"checked", "read"}
  PROVE  ReadsReady' /\ Alone'
  BY DEF Alone, ReadsReady

(* A step of a session that leaves the puts alone.                         *)
LEMMA SessionAlone ==
  ASSUME TypeRest, Quiet, Serial,
         NEW s \in Sessions,
         \/ \E p \in Plans : StartSession(s, p)
         \/ WindowIncomplete(s) \/ WindowComplete(s) \/ Hold(s) \/ Seeded(s)
         \/ \E n \in Nodes : ReadNode(s, n) \/ ReadFails(s, n)
         \/ SkeletonFails(s) \/ EndSession(s)
  PROVE  Serial'
<1> USE DEF Serial, TypeRest
<1>1. ASSUME NEW p \in Plans, StartSession(s, p) PROVE Serial'
  <2>1. \A t \in Sessions : ph[t] = "off"
    BY <1>1 DEF StartSession, Quiet
  <2>2. \A t \in Sessions : ph'[t] # "off" => t = s
    BY <1>1, <2>1 DEF StartSession, StartsCold
  <2>3. ReadsReady'
    BY <1>1, <2>1, ZenonT(40) DEF StartSession, StartsCold, ReadsReady
  <2>4. PutsSound'
    BY <1>1, PutsKept DEF StartSession, storeVars
  <2> QED BY <1>1, <2>2, <2>3, <2>4 DEF StartSession, Alone
<1>2. CASE WindowIncomplete(s)
  <2>1. PutsSound'
    BY <1>2, PutsKept DEF WindowIncomplete, storeVars
  <2>2. ReadsReady' /\ Alone'
    BY <1>2, NoReader DEF WindowIncomplete, StartsCold
  <2> QED BY <1>2, <2>1, <2>2 DEF WindowIncomplete
<1>3. CASE WindowComplete(s)
  <2>1. PutsSound'
    BY <1>3, PutsKept DEF WindowComplete, storeVars
  <2>2. Alone'
    BY <1>3 DEF WindowComplete, Alone
  <2>3. ReadsReady'
    <3>1. /\ UNCHANGED <<trie, blob, parent>> /\ ph' = [ph EXCEPT ![s] = "checked"]
          /\ UNCHANGED unread
      BY <1>3 DEF WindowComplete, trieVars
    <3>2. \A n : HasKV(n)' <=> HasKV(n)
      BY <3>1 DEF HasKV
    <3>3. \A t \in Sessions : WindowPath(parent'[t]) = WindowPath(parent[t])
      BY <3>1
    <3>4. \A n \in WindowPath(parent[s]) : HasKV(n)
      BY <1>3 DEF WindowComplete, ReadsReady
    <3> QED BY <3>1, <3>2, <3>3, <3>4 DEF ReadsReady
  <2> QED BY <1>3, <2>1, <2>2, <2>3 DEF WindowComplete
<1>4. CASE Hold(s)
  <2>1. PutsSound'
    BY <1>4, PutsKept DEF Hold, storeVars
  <2>2. Alone'
    BY <1>4 DEF Hold, Alone
  <2>3. ReadsReady'
    <3>1. /\ UNCHANGED <<trie, blob, parent>> /\ ph' = [ph EXCEPT ![s] = "read"]
          /\ unread' = [unread EXCEPT ![s] = WindowPath(parent[s])]
      BY <1>4 DEF Hold, trieVars
    <3>2. \A n : HasKV(n)' <=> HasKV(n)
      BY <3>1 DEF HasKV
    <3>3. \A t \in Sessions : WindowPath(parent'[t]) = WindowPath(parent[t])
      BY <3>1
    <3>4. \A n \in WindowPath(parent[s]) : HasKV(n)
      BY <1>4 DEF Hold, ReadsReady
    <3> QED BY <3>1, <3>2, <3>3, <3>4 DEF ReadsReady
  <2> QED BY <1>4, <2>1, <2>2, <2>3 DEF Hold
<1>5. CASE Seeded(s)
  <2>1. PutsSound'
    BY <1>5, PutsKept DEF Seeded, storeVars
  <2>2. ReadsReady' /\ Alone'
    BY <1>5, NoReader DEF Seeded
  <2> QED BY <1>5, <2>1, <2>2 DEF Seeded
<1>6. ASSUME NEW n \in Nodes, ReadNode(s, n) PROVE Serial'
  <2>1. PutsSound'
    BY <1>6, PutsKept DEF ReadNode
  <2>2. Alone'
    BY <1>6 DEF ReadNode, Alone
  <2>3. ReadsReady'
    BY <1>6 DEF ReadNode, ReadsReady, HasKV, trieVars, WindowPath, Prefix
  <2> QED BY <1>6, <2>1, <2>2, <2>3 DEF ReadNode
<1>7. ASSUME NEW n \in Nodes, ReadFails(s, n) PROVE Serial'
  <2>1. PutsSound'
    BY <1>7, PutsKept DEF ReadFails, storeVars
  <2>2. ReadsReady' /\ Alone'
    BY <1>7, NoReader DEF ReadFails, Gone
  <2> QED BY <1>7, <2>1, <2>2 DEF ReadFails
<1>8. CASE SkeletonFails(s)
  <2>1. PutsSound'
    BY <1>8, PutsKept DEF SkeletonFails, storeVars
  <2>2. ReadsReady' /\ Alone'
    BY <1>8, NoReader DEF SkeletonFails, Gone
  <2> QED BY <1>8, <2>1, <2>2 DEF SkeletonFails
<1>9. CASE EndSession(s)
  <2>1. PutsSound'
    BY <1>9, PutsKept DEF EndSession, storeVars
  <2>2. ReadsReady' /\ Alone'
    BY <1>9, NoReader DEF EndSession, Gone
  <2> QED BY <1>9, <2>1, <2>2 DEF EndSession
<1> QED BY <1>1, <1>2, <1>3, <1>4, <1>5, <1>6, <1>7, <1>8, <1>9

-----------------------------------------------------------------------------
(* The steps of a put.                                                     *)

LEMMA IngestAlone ==
  ASSUME IInv, Quiet, Serial, NEW s \in Sessions, Ingest(s)
  PROVE  Serial'
<1> DEFINE c == Child(s)
<1>0. TypeRest /\ WritersOK /\ ph[s] = "run"
  BY DEF IInv, Ingest
<1> USE <1>0 DEF Serial
<1>1. c \in Nodes /\ c # NoNode
  BY ChildFacts DEF Ingest
<1>2. s \in Writers /\ "worker" \in Writers /\ "worker" # s /\ Sessions \subseteq Writers
  BY WorldAssumption DEF Writers
<1>3. queue \in Seq(Jobs) /\ DOMAIN queue = 1..Len(queue) /\ Len(queue') = Len(queue)
  BY StaleQueue DEF TypeRest, Ingest
<1>4. \A i \in 1..Len(queue) : /\ queue'[i].node = queue[i].node
                               /\ queue'[i].current <=> queue[i].current /\ queue[i].node # c
  BY <1>3, StaleFacts DEF Ingest
<1>5. \A w \in Writers \ {s} : /\ job'[w].node = job[w].node
                               /\ job'[w].current <=> job[w].current /\ job[w].node # c
  BY StaleFacts DEF Ingest, TypeRest
<1>6. job'[s].node = c
  BY <1>1, <1>2, JobFacts DEF Ingest
<1> HIDE DEF c
<1>7. ReadsReady' /\ Alone'
  <2>1. ph' = [ph EXCEPT ![s] = "put"]
    BY DEF Ingest
  <2> QED BY <2>1, NoReader DEF TypeRest
<1>8. Inline'
  <2>1. queue = <<>> => queue' = <<>>
    <3>1. queue' \in Seq(Jobs) /\ (queue = <<>> => Len(queue') = 0)
      BY <1>3, StaleQueue DEF Ingest, TypeRest
    <3> QED BY <3>1, EmptySeq
  <2>2. cfg.store # "async" => queue = <<>> /\ job'["worker"].node = NoNode
    BY <1>2, <1>5 DEF PutsSound, Inline
  <2>3. cfg' = cfg
    BY DEF Ingest
  <2> QED BY <1>2, <2>1, <2>2, <2>3 DEF Inline
<1>9. WritesKnown'
  <2>1. \A w \in writing : w # s
    BY DEF WritersOK
  <2>2. writing \subseteq Writers /\ UNCHANGED <<cfg, writing, spec, kv>>
    BY DEF Ingest, TypeRest, storeVars
  <2> QED BY <1>5, <2>1, <2>2 DEF PutsSound, WritesKnown
<1>10. ReadySound'
  <2> SUFFICES ASSUME NEW n \in Nodes, blob'[n] = "ready"
               PROVE  kv'[n] = "whole" /\ Located(n)' /\ NoJobOn(n)'
    BY DEF ReadySound
  <2>1. blob' = [blob EXCEPT ![c] = "unready"]
    BY DEF Ingest, c
  <2>2. n # c /\ blob[n] = "ready"
    BY <2>1, <1>1 DEF TypeRest
  <2>3. kv[n] = "whole" /\ Located(n) /\ NoJobOn(n)
    BY <2>2 DEF PutsSound, ReadySound
  <2>4. NoJobOn(n)'
    BY <1>3, <1>4, <1>5, <1>6, <2>2, <2>3 DEF NoJobOn
  <2> QED BY <2>3, <2>4 DEF Ingest, storeVars, Located
<1>11. LastOfNode'
  BY <1>2, <1>3, <1>4, <1>5, <1>6 DEF PutsSound, LastOfNode, Publishes
<1>12. victim' = NoVictim
  BY DEF Ingest
<1> QED BY <1>7, <1>8, <1>9, <1>10, <1>11, <1>12 DEF PutsSound

LEMMA StoreInMemoryAlone ==
  ASSUME IInv, Quiet, Serial, NEW s \in Sessions, StoreInMemory(s)
  PROVE  Serial'
<1>0. TypeRest /\ WritersOK /\ cfg.store = "memory" /\ job[s].node \in Nodes
  BY DEF IInv, TypeRest, WritersOK, Jobs, Writers, StoreInMemory
<1> USE <1>0 DEF Serial
<1>1. ReadsReady' /\ Alone'
  <2>1. ReadsReady'
    BY ReadsKept DEF StoreInMemory, trieVars, sessionVars
  <2> QED BY <2>1 DEF StoreInMemory, sessionVars, Alone
<1>2. Inline' /\ victim' = NoVictim /\ LastOfNode'
  BY DEF StoreInMemory, Inline, PutsSound, LastOfNode, Publishes
<1>3. WritesKnown'
  BY DEF StoreInMemory, WritesKnown, PutsSound, TypeRest, WritersOK, Jobs
<1>4. ReadySound'
  BY DEF StoreInMemory, ReadySound, PutsSound, NoJobOn, Located, TypeRest
<1> QED BY <1>1, <1>2, <1>3, <1>4 DEF PutsSound

LEMMA ReadyInMemoryAlone ==
  ASSUME IInv, Quiet, Serial, NEW s \in Sessions, ReadyInMemory(s)
  PROVE  Serial'
<1> DEFINE c == job[s].node
<1>0. TypeRest /\ WritersOK /\ ph[s] = "put" /\ cfg.store = "memory" /\ s \in writing
  BY DEF IInv, WritersOK, ReadyInMemory
<1> USE <1>0 DEF Serial
<1>1. s \in Writers /\ "worker" \in Writers /\ "worker" # s /\ Writers = Sessions \cup {"worker"}
  BY WorldAssumption DEF Writers
<1>2. queue = <<>> /\ \A w \in Writers \ {s} : job[w].node = NoNode
  BY <1>1 DEF PutsSound, Inline, WritersOK, Alone
<1>3. queue' = <<>> /\ job' = [job EXCEPT ![s] = NoJob] /\ \A w \in Writers : job'[w].node = NoNode
  BY <1>1, <1>2, JobFacts DEF ReadyInMemory, TypeRest
<1>4. NoNode \notin Nodes
  BY NoNodeFacts
<1>5. ReadsReady' /\ Alone'
  <2>1. ph' = [ph EXCEPT ![s] = "run"]
    BY DEF ReadyInMemory, Advance
  <2> QED BY <2>1, NoReader DEF TypeRest
<1>6. Inline' /\ LastOfNode'
  BY <1>1, <1>3 DEF Inline, LastOfNode, Publishes
<1>7. WritesKnown'
  <2>1. writing' = {}
    BY <1>1, <1>2 DEF WritersOK, TypeRest, ReadyInMemory
  <2> QED BY <2>1 DEF WritesKnown
<1>8. ReadySound'
  <2> SUFFICES ASSUME NEW n \in Nodes, blob'[n] = "ready"
               PROVE  kv'[n] = "whole" /\ Located(n)' /\ NoJobOn(n)'
    BY DEF ReadySound
  <2>1. blob[n] = "ready" \/ n = c
    BY DEF ReadyInMemory, Publish, TypeRest
  <2>2. kv'[n] = "whole"
    BY <2>1 DEF ReadyInMemory, PutsSound, ReadySound, WritesKnown, storeVars, TypeRest
  <2>3. NoJobOn(n)'
    BY <1>3, <1>4 DEF NoJobOn
  <2> QED BY <2>2, <2>3 DEF Located, ReadyInMemory
<1>9. victim' = NoVictim
  BY DEF ReadyInMemory
<1> QED BY <1>5, <1>6, <1>7, <1>8, <1>9 DEF PutsSound

LEMMA EnqueueAlone ==
  ASSUME IInv, Quiet, Serial, NEW s \in Sessions, Enqueue(s)
  PROVE  Serial'
<1> DEFINE c == job[s].node
           m == Len(queue) + 1
<1>0. TypeRest /\ WritersOK /\ ph[s] = "put" /\ cfg.store = "async"
  BY DEF IInv, Enqueue
<1> USE <1>0 DEF Serial
<1>1. s \in Writers /\ "worker" \in Writers /\ "worker" # s /\ Writers = Sessions \cup {"worker"}
  BY WorldAssumption DEF Writers
<1>2. \A t \in Sessions \ {s} : job[t].node = NoNode
  BY DEF WritersOK, Alone
<1>3. /\ queue \in Seq(Jobs) /\ job[s] \in Jobs /\ Len(queue) \in Nat
      /\ queue' = Append(queue, job[s]) /\ Len(queue') = m /\ queue'[m] = job[s]
      /\ \A i \in 1..Len(queue) : queue'[i] = queue[i]
  BY <1>1 DEF Enqueue, TypeRest
<1>4. /\ \A t \in Sessions : job'[t].node = NoNode
      /\ job'["worker"] = job["worker"]
  BY <1>1, <1>2, JobFacts DEF Enqueue, TypeRest
<1>5. ReadsReady' /\ Alone'
  <2>1. ph' = [ph EXCEPT ![s] = "run"]
    BY DEF Enqueue, Advance
  <2> QED BY <2>1, NoReader DEF TypeRest
<1>6. Inline' /\ victim' = NoVictim
  BY DEF Enqueue, Inline
<1>7. WritesKnown'
  <2>1. \A w \in writing : w = "worker"
    BY <1>1 DEF WritersOK, TypeRest
  <2> QED BY <1>4, <2>1 DEF Enqueue, WritesKnown, PutsSound, storeVars
<1>8. ReadySound'
  <2> SUFFICES ASSUME NEW n \in Nodes, blob'[n] = "ready"
               PROVE  kv'[n] = "whole" /\ Located(n)' /\ NoJobOn(n)'
    BY DEF ReadySound
  <2>1. kv[n] = "whole" /\ Located(n) /\ NoJobOn(n)
    BY DEF Enqueue, PutsSound, ReadySound
  <2>2. n # NoNode
    BY NoNodeFacts
  <2>3. \A i \in 1..m : i \in 1..Len(queue) \/ i = m
    BY <1>3
  <2>4. NoJobOn(n)'
    BY <1>1, <1>3, <1>4, <2>1, <2>2, <2>3 DEF NoJobOn
  <2> QED BY <2>1, <2>4 DEF Enqueue, storeVars, Located
<1>9. LastOfNode'
  <2>1. \A i \in 1..m : i \in 1..Len(queue) \/ i = m
    BY <1>3
  <2>2. LastOfNode
    BY DEF PutsSound
  <2>3. Publishes(job'["worker"]) =>
         /\ \A i \in 1..m : queue'[i].node # job'["worker"].node
         /\ \A t \in Sessions : job'[t].node # job'["worker"].node
    BY <1>3, <1>4, <2>1, <2>2 DEF LastOfNode, Publishes
  <2>4. ASSUME NEW i \in 1..m, Publishes(queue'[i])
        PROVE  /\ \A k \in 1..m : i < k => queue'[k].node # queue'[i].node
               /\ \A t \in Sessions : job'[t].node # queue'[i].node
    <3>1. CASE i \in 1..Len(queue)
      <4>1. /\ \A k \in 1..Len(queue) : i < k => queue[k].node # queue[i].node
            /\ job[s].node # queue[i].node
        BY <1>3, <2>2, <2>4, <3>1 DEF LastOfNode
      <4> QED BY <1>3, <1>4, <2>1, <2>4, <3>1, <4>1 DEF Publishes
    <3>2. CASE i = m
      BY <1>3, <1>4, <2>4, <3>2 DEF Publishes
    <3> QED BY <2>1, <3>1, <3>2
  <2> QED BY <1>3, <2>3, <2>4 DEF LastOfNode
<1> QED BY <1>5, <1>6, <1>7, <1>8, <1>9 DEF PutsSound

LEMMA WorkerTakesAlone ==
  ASSUME IInv, Quiet, Serial, WorkerTakes
  PROVE  Serial'
<1>0. TypeRest /\ WritersOK
  BY DEF IInv
<1> USE <1>0 DEF Serial
<1>1. "worker" \in Writers /\ "worker" \notin Sessions /\ Sessions \subseteq Writers
  BY WorldAssumption DEF Writers
<1>2. /\ queue \in Seq(Jobs) /\ Len(queue) \in Nat /\ 1 \in 1..Len(queue)
      /\ queue' = Tail(queue) /\ Len(queue') = Len(queue) - 1 /\ Head(queue) = queue[1]
      /\ \A i \in 1..Len(queue') : i + 1 \in 1..Len(queue) /\ queue'[i] = queue[i + 1] /\ 1 < i + 1
  BY DEF WorkerTakes, TypeRest
<1>3. job' = [job EXCEPT !["worker"] = queue[1]] /\ job["worker"].node = NoNode
  BY <1>2, JobFacts DEF WorkerTakes
<1>4. ReadsReady' /\ Alone'
  <2>1. ReadsReady'
    BY ReadsKept DEF WorkerTakes, trieVars, sessionVars
  <2> QED BY <2>1 DEF WorkerTakes, sessionVars, Alone
<1>5. Inline' /\ victim' = NoVictim
  BY <1>2 DEF WorkerTakes, Inline, PutsSound
<1>6. WritesKnown'
  <2>1. \A w \in writing : w # "worker"
    BY <1>3 DEF WritersOK
  <2> QED BY <1>3, <2>1 DEF WorkerTakes, WritesKnown, PutsSound, storeVars, TypeRest
<1>7. ReadySound'
  <2> SUFFICES ASSUME NEW n \in Nodes, blob'[n] = "ready"
               PROVE  kv'[n] = "whole" /\ Located(n)' /\ NoJobOn(n)'
    BY DEF ReadySound
  <2>1. kv[n] = "whole" /\ Located(n) /\ NoJobOn(n)
    BY DEF WorkerTakes, PutsSound, ReadySound
  <2>2. \A w \in Writers : job'[w].node # n
    BY <1>1, <1>2, <1>3, <2>1 DEF NoJobOn, TypeRest
  <2>3. \A i \in 1..Len(queue') : queue'[i].node # n
    BY <1>2, <2>1 DEF NoJobOn
  <2>4. NoJobOn(n)'
    BY <2>2, <2>3 DEF NoJobOn
  <2> QED BY <2>1, <2>4 DEF WorkerTakes, storeVars, Located
<1>8. LastOfNode'
  <2>1. LastOfNode
    BY DEF PutsSound
  <2>2. job'["worker"] = queue[1] /\ \A t \in Sessions : job'[t] = job[t]
    BY <1>1, <1>3 DEF TypeRest
  <2>3. Publishes(queue[1]) =>
          /\ \A i \in 1..Len(queue') : queue'[i].node # queue[1].node
          /\ \A t \in Sessions : job[t].node # queue[1].node
    BY <1>2, <2>1 DEF LastOfNode
  <2>4. ASSUME NEW i \in 1..Len(queue'), Publishes(queue'[i])
        PROVE  /\ \A k \in 1..Len(queue') : i < k => queue'[k].node # queue'[i].node
               /\ \A t \in Sessions : job[t].node # queue'[i].node
    BY <1>2, <2>1, <2>4 DEF LastOfNode
  <2> QED BY <2>2, <2>3, <2>4 DEF LastOfNode, Publishes
<1> QED BY <1>4, <1>5, <1>6, <1>7, <1>8 DEF PutsSound

LEMMA BeginWriteAlone ==
  ASSUME IInv, Quiet, Serial, NEW w \in Writers, BeginWrite(w)
  PROVE  Serial'
<1>0. TypeRest /\ WritersOK /\ job[w].node \in Nodes
  BY DEF IInv, BeginWrite, MayWrite, TypeRest, Jobs
<1> USE <1>0 DEF Serial
<1>1. ReadsReady' /\ Alone'
  <2>1. ReadsReady'
    BY ReadsKept DEF BeginWrite, trieVars, sessionVars
  <2> QED BY <2>1 DEF BeginWrite, sessionVars, Alone
<1>2. Inline' /\ victim' = NoVictim /\ LastOfNode'
  BY DEF BeginWrite, Inline, PutsSound, LastOfNode, Publishes
<1>3. WritesKnown'
  <2>1. cfg.store # "memory"
    BY DEF BeginWrite, MayWrite, PutsSound, Inline
  <2> QED BY <2>1 DEF BeginWrite, WritesKnown, PutsSound
<1>4. ReadySound'
  BY DEF BeginWrite, ReadySound, PutsSound, NoJobOn, Located, TypeRest
<1> QED BY <1>1, <1>2, <1>3, <1>4 DEF PutsSound

(* There is one writer, and no one else's put of the node is left when it  *)
(* publishes.                                                              *)
LEMMA OneWriter ==
  ASSUME IInv, Serial, NEW w \in writing
  PROVE  /\ writing = {w}
         /\ w # "worker" => /\ w \in Sessions /\ ph[w] = "put" /\ queue = <<>>
                            /\ \A v \in Writers \ {w} : job[v].node = NoNode
<1>1. TypeRest /\ WritersOK /\ Writers = Sessions \cup {"worker"}
  BY DEF IInv, Writers
<1>2. \A v \in writing : v \in Sessions => ph[v] = "put" /\ queue = <<>> /\ job["worker"].node = NoNode
  BY <1>1 DEF WritersOK, Serial, PutsSound, Inline
<1>3. \A v \in writing : v # "worker" => v \in Sessions
  BY <1>1 DEF TypeRest
<1>4. \A v \in writing : v = w
  BY <1>1, <1>2, <1>3 DEF WritersOK, Serial, Alone
<1>5. w # "worker" => \A v \in Sessions \ {w} : job[v].node = NoNode
  BY <1>1, <1>2, <1>3 DEF WritersOK, Serial, Alone
<1> QED BY <1>1, <1>2, <1>3, <1>4, <1>5

(* Whoever publishes leaves no put of the node behind.                     *)
LEMMA PublishesLast ==
  ASSUME IInv, Serial, NEW w \in writing, Publishes(job[w]), job' = [job EXCEPT ![w] = NoJob],
         queue' = queue, NEW n, n = job[w].node
  PROVE  NoJobOn(n)'
<1>1. TypeRest /\ w \in Writers /\ Writers = Sessions \cup {"worker"}
  BY DEF IInv, TypeRest, Writers
<1>2. job'[w].node = NoNode /\ \A v \in Writers \ {w} : job'[v] = job[v]
  BY <1>1, JobFacts DEF TypeRest
<1>3. CASE w = "worker"
  BY <1>1, <1>2, <1>3 DEF Serial, PutsSound, LastOfNode, NoJobOn, Publishes
<1>4. CASE w # "worker"
  <2>1. Len(queue) = 0 /\ \A v \in Writers \ {w} : job[v].node = NoNode
    BY <1>4, OneWriter
  <2> QED BY <1>2, <2>1 DEF NoJobOn, Publishes
<1> QED BY <1>3, <1>4

(* The jobs that are left keep their order when a writer is through.       *)
LEMMA PutOverKept ==
  ASSUME IInv, Serial, NEW w \in writing, PutOver(w), UNCHANGED <<cfg, queue>>, spec \subseteq spec'
  PROVE  /\ Inline' /\ WritesKnown' /\ LastOfNode'
         /\ \A n \in Nodes : NoJobOn(n) => NoJobOn(n)'
<1>1. TypeRest /\ w \in Writers /\ "worker" \in Writers /\ Sessions \subseteq Writers
  BY DEF IInv, TypeRest, Writers
<1>2. /\ job'[w].node = NoNode /\ ~Publishes(job'[w])
      /\ \A v \in Writers \ {w} : job'[v] = job[v]
  BY <1>1, JobFacts DEF TypeRest, PutOver, Publishes
<1>3. Inline'
  BY <1>1, <1>2 DEF Inline, Serial, PutsSound
<1>4. WritesKnown'
  <2>1. writing' = {}
    BY OneWriter DEF PutOver
  <2> QED BY <2>1 DEF WritesKnown
<1>5. LastOfNode'
  BY <1>1, <1>2 DEF Serial, PutsSound, LastOfNode, Publishes
<1>6. \A n \in Nodes : NoJobOn(n) => NoJobOn(n)'
  BY <1>2, NoNodeFacts DEF NoJobOn
<1> QED BY <1>3, <1>4, <1>5, <1>6

LEMMA EndWriteAlone ==
  ASSUME IInv, Quiet, Serial, NEW w \in Writers, EndWrite(w)
  PROVE  Serial'
<1>0. TypeRest /\ WritersOK /\ w \in writing /\ PutOver(w) /\ job[w].node \in Nodes
  BY DEF IInv, EndWrite, WritersOK, TypeRest, Jobs
<1>1. writing = {w} /\ (w # "worker" => w \in Sessions /\ ph[w] = "put")
  BY <1>0, OneWriter
<1>2. victim' = NoVictim /\ UNCHANGED <<cfg, queue, spec>>
  BY DEF EndWrite, Serial
<1>3. /\ Inline' /\ WritesKnown' /\ LastOfNode'
      /\ \A n \in Nodes : NoJobOn(n) => NoJobOn(n)'
  BY <1>0, <1>2, PutOverKept
<1>4. ReadsReady' /\ Alone'
  <2>1. CASE w = "worker"
    <3>1. UNCHANGED <<ph, parent, unread>> /\ trie' = trie
      BY <2>1 DEF EndWrite, trieVars
    <3>2. \A n : blob[n] = "ready" => blob'[n] = "ready"
      BY <1>0 DEF EndWrite, Publish, TypeRest
    <3> QED BY <3>1, <3>2, ReadsKept DEF Serial, Alone
  <2>2. CASE w # "worker"
    <3>1. ph' = [ph EXCEPT ![w] = "run"]
      BY <2>2 DEF EndWrite, Advance
    <3> QED BY <1>0, <1>1, <2>2, <3>1, NoReader DEF Serial, TypeRest
  <2> QED BY <2>1, <2>2
<1>5. ReadySound'
  <2> SUFFICES ASSUME NEW n \in Nodes, blob'[n] = "ready"
               PROVE  kv'[n] = "whole" /\ Located(n)' /\ NoJobOn(n)'
    BY DEF ReadySound
  <2>1. kv' = [kv EXCEPT ![job[w].node] = "whole"]
    BY <1>1 DEF EndWrite, Others
  <2>2. cfg' = cfg /\ spec' = spec /\ sidecar \subseteq sidecar'
    BY DEF EndWrite
  <2>3. CASE blob[n] = "ready"
    <3>1. kv[n] = "whole" /\ Located(n) /\ NoJobOn(n)
      BY <2>3 DEF Serial, PutsSound, ReadySound
    <3> QED BY <1>0, <1>3, <2>1, <2>2, <3>1 DEF Located, TypeRest
  <2>4. CASE blob[n] # "ready"
    <3>1. n = job[w].node /\ job[w].current
      BY <1>0, <2>4 DEF EndWrite, Publish, TypeRest
    <3>2. Publishes(job[w])
      BY <1>0, <3>1 DEF WritersOK, Publishes
    <3>3. NoJobOn(n)'
      BY <1>0, <1>2, <3>1, <3>2, PublishesLast DEF PutOver
    <3>4. n \in spec
      BY <1>0, <3>1 DEF Serial, PutsSound, WritesKnown, EndWrite
    <3> QED BY <1>0, <2>1, <2>2, <3>1, <3>3, <3>4 DEF Located, TypeRest
  <2> QED BY <2>3, <2>4
<1> QED BY <1>2, <1>3, <1>4, <1>5 DEF Serial, PutsSound

LEMMA WriteFailsAlone ==
  ASSUME IInv, Quiet, Serial, NEW w \in Writers, WriteFails(w)
  PROVE  Serial'
<1>0. TypeRest /\ w \in writing /\ PutOver(w)
  BY DEF IInv, WriteFails
<1>1. w # "worker" => w \in Sessions /\ ph[w] = "put"
  BY <1>0, OneWriter
<1>2. victim' = NoVictim /\ UNCHANGED <<cfg, queue, spec, blob, kv, sidecar, trie>>
  BY DEF WriteFails, Serial, storeVars, trieVars
<1>3. /\ Inline' /\ WritesKnown' /\ LastOfNode'
      /\ \A n \in Nodes : NoJobOn(n) => NoJobOn(n)'
  BY <1>0, <1>2, PutOverKept
<1>4. ReadsReady' /\ Alone'
  <2>1. CASE w = "worker"
    <3>1. UNCHANGED <<ph, parent, unread>>
      BY <2>1 DEF WriteFails, sessionVars
    <3> QED BY <1>2, <3>1, ReadsKept DEF Serial, Alone
  <2>2. CASE w # "worker"
    <3>1. ph' = [ph EXCEPT ![w] = "off"]
      BY <2>2 DEF WriteFails, Gone
    <3> QED BY <1>0, <1>1, <2>2, <3>1, NoReader DEF Serial, TypeRest
  <2> QED BY <2>1, <2>2
<1>5. ReadySound'
  BY <1>2, <1>3 DEF Serial, PutsSound, ReadySound, Located
<1> QED BY <1>2, <1>3, <1>4, <1>5 DEF Serial, PutsSound

-----------------------------------------------------------------------------
(* Whether a deployment is quiet never changes.                            *)
SerialInv == Quiet => Serial

LEMMA QuietNext == IInv /\ SerialInv /\ [Next]_vars => SerialInv'
<1> SUFFICES ASSUME IInv, SerialInv, [Next]_vars, Quiet' PROVE Serial'
  BY DEF SerialInv
<1>0. cfg' = cfg /\ Quiet /\ Serial /\ TypeRest
  <2>1. cfg' = cfg
    BY DEF Next, vars, StartSession, SessionStep, WindowIncomplete, WindowComplete, Hold, Seeded, ReadNode,
           ReadFails, Ingest, SkeletonFails, StoreInMemory, ReadyInMemory, EndSession, Enqueue, FlushSnapshot, WriterStep,
           BeginWrite, EndWrite, WriteFails, WorkerTakes, EvictCheck, EvictFree, EvictClear, Restart
  <2> QED BY <2>1 DEF Quiet, SerialInv, IInv
<1> USE <1>0
<1>1. ASSUME NEW s \in Sessions, NEW p \in Plans, StartSession(s, p) PROVE Serial'
  BY <1>1, SessionAlone
<1>2. ASSUME NEW s \in Sessions, SessionStep(s) PROVE Serial'
  BY <1>2, SessionAlone, IngestAlone, StoreInMemoryAlone, ReadyInMemoryAlone DEF SessionStep
<1>3. ASSUME NEW s \in Sessions, Enqueue(s) PROVE Serial'
  BY <1>3, EnqueueAlone
<1>4. ASSUME NEW w \in Writers, WriterStep(w) PROVE Serial'
  BY <1>4, BeginWriteAlone, EndWriteAlone, WriteFailsAlone DEF WriterStep
<1>5. CASE WorkerTakes
  BY <1>5, WorkerTakesAlone
<1>6. ~EvictFree /\ ~EvictClear /\ ~Restart /\ (\A n \in Nodes : ~EvictCheck(n)) /\ \A s \in Sessions : ~FlushSnapshot(s)
  BY DEF EvictCheck, EvictFree, EvictClear, NoVictim, Restart, FlushSnapshot, Quiet, Serial
<1>7. CASE UNCHANGED vars
  <2>1. PutsSound'
    BY <1>7, PutsKept DEF vars, putVars, Serial
  <2>2. ReadsReady'
    BY <1>7, ReadsKept DEF vars, Serial
  <2> QED BY <1>7, <2>1, <2>2 DEF vars, Serial, Alone
<1> QED BY <1>1, <1>2, <1>3, <1>4, <1>5, <1>6, <1>7 DEF Next

LEMMA SerialMeansSound == IInv /\ SerialInv => SerialHitsSound
<1> SUFFICES ASSUME Quiet, Serial, IInv
             PROVE  /\ \A n \in Nodes : HasKV(n) => kv[n] = "whole"
                    /\ \A s \in Sessions : ph[s] = "read" => \A n \in unread[s] : ~Broken(n)
  BY DEF SerialInv, SerialHitsSound, Quiet
<1>1. \A n \in Nodes : HasKV(n) => kv[n] = "whole"
  BY DEF Serial, PutsSound, ReadySound, HasKV
<1>2. ASSUME NEW s \in Sessions, ph[s] = "read", NEW n \in unread[s] PROVE ~Broken(n)
  <2>1. n \in Nodes /\ HasKV(n)
    BY <1>2 DEF Serial, ReadsReady, IInv, TypeRest
  <2> QED BY <2>1 DEF Serial, PutsSound, ReadySound, HasKV, Broken
<1> QED BY <1>1, <1>2

(* One session at a time, without eviction and restart: what is published  *)
(* is whole and what a session reads is never broken, for any number of    *)
(* sessions, queue bound and lag of the worker, whichever puts fail.       *)
THEOREM SerialHitsSoundHolds == Spec => []SerialHitsSound
<1>1. Init => SerialInv
  BY SerialInit DEF SerialInv
<1> QED BY <1>1, QuietNext, SerialMeansSound, Invariance, PTL DEF Spec
=============================================================================
