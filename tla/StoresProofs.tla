---------------------------- MODULE StoresProofs ----------------------------
(***************************************************************************)
(* That the local file store and the Fluxon adapter implement the protocol *)
(* callers rely on, for every number of threads, keys and values, with     *)
(* failing steps and restarts.                                             *)
(***************************************************************************)
EXTENDS Stores, TLAPS

Content   == Values \cup {NoValue}
CallsType == [op : {"put", "get", "remove"}, key : Keys, arg : Content,
              at : {"called", "entered", "filed", "found", "asked", "held"}]

(* A mutation that is under way.                                           *)
Mutating(t) == Mutates(t) /\ Inside(t)
Reading(t)  == call[t] # Idle /\ call[t].op = "get"

-----------------------------------------------------------------------------
(* The inductive invariant.                                                *)

TypeInv ==
  /\ kvType \in {"local_file", "fluxon"}
  /\ index \subseteq Keys /\ disk \subseteq Keys
  /\ file \in [Keys -> Content] /\ pool \in [Keys -> Content]
  /\ held \in [Threads -> Content]
  /\ lock \in Threads \cup {NoThread}
  /\ tried \in [Keys -> SUBSET Values]
  /\ call \in [Threads -> CallsType \cup {Idle}]
  /\ seen \in [Threads -> SUBSET Content]
  /\ got \in [Threads -> Content \cup {Raised}]

(* What is stored, and what is about to be, was put.                       *)
TriedInv ==
  /\ \A k \in Keys : file[k] \in tried[k] \cup {NoValue} /\ pool[k] \in tried[k] \cup {NoValue}
  /\ \A t \in Threads : Mutates(t) =>
       /\ call[t].arg \in tried[call[t].key] \cup {NoValue}
       /\ call[t].op = "remove" => call[t].arg = NoValue

(* A reader has seen what its key holds, and what it is about to answer.   *)
SeenInv ==
  \A t \in Threads : Reading(t) =>
    /\ val[call[t].key] \in seen[t]
    /\ call[t].at = "found" => file[call[t].key] \in seen[t]
    /\ call[t].at = "held" => held[t] \in seen[t]

(* The lock serializes mutations of the local store; how far one has come  *)
(* shows in the index and in the file.                                     *)
LockInv ==
  /\ kvType = "fluxon" => lock = NoThread
  /\ kvType = "local_file" => \A t \in Threads : Mutating(t) =>
       /\ lock = t
       /\ call[t].at \in {"entered", "filed"}
       /\ call[t].key \in index <=> call[t].op = "put"
       /\ call[t].at = "filed" => file[call[t].key] = call[t].arg
  /\ lock # NoThread => Mutating(lock)

IInv == TypeInv /\ TriedInv /\ SeenInv /\ LockInv

-----------------------------------------------------------------------------
(* Calls, and what the protocol sees of them.                              *)

Abs == [t \in Threads |-> AbstractCall(call[t])]

LEMMA BusyRecord ==
  ASSUME NEW O, NEW K, NEW A, NEW B, NEW c \in [op : O, key : K, arg : A, busy : B], NEW b
  PROVE  [c EXCEPT !.busy = b] = [op |-> c.op, key |-> c.key, arg |-> c.arg, busy |-> b]
  OBVIOUS

LEMMA CallFacts ==
  ASSUME TypeInv, NEW t \in Threads
  PROVE  /\ call[t] # Idle => /\ call[t] \in CallsType
                              /\ call[t].key \in Keys /\ call[t].arg \in Content
                              /\ call[t].op \in {"put", "get", "remove"}
         /\ \A o, a : At(t, o, a) => call[t] # Idle
  BY DEF TypeInv, CallsType, At

LEMMA AbsFacts ==
  ASSUME TypeInv, NEW t \in Threads
  PROVE  /\ call[t] = Idle => Abs[t] = Protocol!Idle
         /\ call[t] # Idle => /\ Abs[t] # Protocol!Idle
                              /\ Abs[t].op = call[t].op /\ Abs[t].key = call[t].key
                              /\ Abs[t].arg = call[t].arg
                              /\ Abs[t].busy <=> Mutating(t)
         /\ Abs[t].op = "get" <=> Reading(t)
         /\ Protocol!Busy(t) <=> Mutating(t)
<1>1. CASE call[t] = Idle
  BY <1>1 DEF Abs, AbstractCall, Idle, Protocol!Idle, Protocol!Busy, Mutating, Mutates, Reading
<1>2. CASE call[t] # Idle
  <2>1. /\ Abs[t] = [op |-> call[t].op, key |-> call[t].key, arg |-> call[t].arg,
                     busy |-> call[t].op # "get" /\ call[t].at # "called"]
        /\ call[t].op \in {"put", "get", "remove"}
    BY <1>2, CallFacts DEF Abs, AbstractCall
  <2>2. Abs[t] # Protocol!Idle
    BY <2>1 DEF Protocol!Idle
  <2>3. Protocol!Busy(t) <=> Abs[t] # Protocol!Idle /\ Abs[t].busy
    BY DEF Protocol!Busy, Abs
  <2>4. Abs[t].busy <=> Mutating(t)
    <3>1. Abs[t].busy = (call[t].op # "get" /\ call[t].at # "called")
      BY <2>1
    <3> HIDE DEF Abs
    <3> QED BY <1>2, <3>1 DEF Mutating, Mutates, Inside
  <2>5. Abs[t].op = call[t].op /\ Abs[t].key = call[t].key /\ Abs[t].arg = call[t].arg
    BY <2>1
  <2> HIDE DEF Abs
  <2> QED BY <1>2, <2>2, <2>3, <2>4, <2>5 DEF Reading
<1> QED BY <1>1, <1>2

(* A call goes on to its next step.                                        *)
LEMMA MovesFacts ==
  ASSUME TypeInv, NEW t \in Threads, call[t] # Idle, NEW a \in {"entered", "filed", "found", "asked", "held"},
         Moves(t, a)
  PROVE  /\ call' \in [Threads -> CallsType \cup {Idle}]
         /\ call'[t] # Idle /\ call'[t].op = call[t].op /\ call'[t].key = call[t].key
         /\ call'[t].arg = call[t].arg /\ call'[t].at = a
         /\ \A u \in Threads \ {t} : call'[u] = call[u]
         /\ call[t].op # "get" => Abs' = [Abs EXCEPT ![t].busy = TRUE]
         /\ call[t].op = "get" \/ call[t].at # "called" => Abs' = Abs
<1>1. call[t] \in CallsType
  BY CallFacts
<1>2. call' = [call EXCEPT ![t] = [call[t] EXCEPT !.at = a]]
  BY DEF Moves
<1> DEFINE c == [call[t] EXCEPT !.at = a]
<1>3. c \in CallsType /\ c.op = call[t].op /\ c.key = call[t].key /\ c.arg = call[t].arg /\ c.at = a /\ c # Idle
  BY <1>1 DEF CallsType, Idle
<1> HIDE DEF c
<1>4. call'[t] = c /\ \A u \in Threads \ {t} : call'[u] = call[u]
  BY <1>2 DEF TypeInv, c
<1>5. call' \in [Threads -> CallsType \cup {Idle}]
  BY <1>2, <1>3 DEF TypeInv, c
<1>6. /\ Abs'[t] = [op |-> call[t].op, key |-> call[t].key, arg |-> call[t].arg, busy |-> call[t].op # "get"]
      /\ Abs[t] = [op |-> call[t].op, key |-> call[t].key, arg |-> call[t].arg,
                   busy |-> call[t].op # "get" /\ call[t].at # "called"]
      /\ \A u \in Threads \ {t} : Abs'[u] = Abs[u]
  BY <1>3, <1>4 DEF Abs, AbstractCall
<1>7. Abs = [u \in Threads |-> Abs[u]] /\ Abs' = [u \in Threads |-> Abs'[u]]
  BY DEF Abs
<1>8. ASSUME call[t].op # "get" PROVE Abs' = [Abs EXCEPT ![t].busy = TRUE]
  <2>1. Abs'[t] = [Abs[t] EXCEPT !.busy = TRUE]
    <3> DEFINE yes == TRUE
    <3>1. Abs[t] \in [op : {call[t].op}, key : {call[t].key}, arg : {call[t].arg}, busy : BOOLEAN]
      BY <1>6
    <3>2. Abs'[t] = [op |-> call[t].op, key |-> call[t].key, arg |-> call[t].arg, busy |-> yes]
      BY <1>6, <1>8
    <3>3. Abs[t].op = call[t].op /\ Abs[t].key = call[t].key /\ Abs[t].arg = call[t].arg
      BY <1>6
    <3> HIDE DEF Abs, yes
    <3>4. [Abs[t] EXCEPT !.busy = yes] = [op |-> Abs[t].op, key |-> Abs[t].key, arg |-> Abs[t].arg, busy |-> yes]
      BY ONLY <3>1, BusyRecord
    <3>5. Abs'[t] = [Abs[t] EXCEPT !.busy = yes]
      BY <3>2, <3>3, <3>4
    <3> QED BY <3>5 DEF yes
  <2> HIDE DEF Abs
  <2> QED BY <1>6, <1>7, <2>1
<1>9. ASSUME call[t].op = "get" \/ call[t].at # "called" PROVE Abs' = Abs
  <2>1. Abs'[t] = Abs[t]
    BY <1>6, <1>9
  <2> HIDE DEF Abs
  <2> QED BY <1>6, <1>7, <2>1
<1> QED BY <1>3, <1>4, <1>5, <1>8, <1>9

(* A call returns or raises.                                               *)
LEMMA ReturnsFacts ==
  ASSUME TypeInv, NEW t \in Threads, call[t] # Idle, Returns(t)
  PROVE  /\ call' \in [Threads -> CallsType \cup {Idle}]
         /\ call'[t] = Idle /\ \A u \in Threads \ {t} : call'[u] = call[u]
         /\ Protocol!Ends(t)
<1>1. call' \in [Threads -> CallsType \cup {Idle}] /\ call'[t] = Idle
      /\ \A u \in Threads \ {t} : call'[u] = call[u]
  BY DEF Returns, TypeInv
<1>2. Abs'[t] = Protocol!Idle /\ (\A u \in Threads \ {t} : Abs'[u] = Abs[u]) /\ Abs[t] # Protocol!Idle
  BY <1>1, AbsFacts DEF Abs, AbstractCall, Idle, Protocol!Idle
<1>3. Abs = [u \in Threads |-> Abs[u]] /\ Abs' = [u \in Threads |-> Abs'[u]]
  BY DEF Abs
<1>4. Abs' = [Abs EXCEPT ![t] = Protocol!Idle] /\ Abs[t] # Protocol!Idle
  <2> HIDE DEF Abs
  <2> QED BY <1>2, <1>3
<1> QED BY <1>1, <1>4 DEF Protocol!Ends, Abs

(* What Watch records is what the protocol's readers remember.             *)
Remembers ==
  /\ seen' \in [Threads -> SUBSET Content]
  /\ \A t \in Threads : Reading(t)' => val'[call'[t].key] \in seen'[t]
  /\ \A t \in Threads : Reading(t)' /\ Reading(t) => seen[t] \subseteq seen'[t]
  /\ Protocol!Watch

LEMMA WatchFacts ==
  ASSUME TypeInv, Watch, call' \in [Threads -> CallsType \cup {Idle}], val' \in [Keys -> Content],
         \A t \in Threads : call[t] # Idle /\ call'[t] # Idle => call'[t].op = call[t].op
  PROVE  Remembers
<1>1. \A t \in Threads : call'[t] # Idle => call'[t].key \in Keys
  BY DEF CallsType
<1>2. seen' = [t \in Threads |-> IF Reading(t)' THEN (IF call[t] = Idle THEN {} ELSE seen[t]) \cup {val'[call'[t].key]}
                                ELSE {}]
  BY DEF Watch, Reading
<1>3. \A t \in Threads : Reading(t)' => (call[t] # Idle <=> Reading(t)) /\ val'[call'[t].key] \in Content
  BY <1>1 DEF Reading
<1>4. seen' = [t \in Threads |-> IF Reading(t)' THEN (IF Reading(t) THEN seen[t] ELSE {}) \cup {val'[call'[t].key]}
                                ELSE {}]
  BY <1>2, <1>3
<1>5. seen' \in [Threads -> SUBSET Content]
  BY <1>3, <1>4 DEF TypeInv
<1>6. \A t \in Threads : /\ Abs[t].op = "get" <=> Reading(t)
                         /\ Abs'[t].op = "get" <=> Reading(t)'
                         /\ Reading(t)' => Abs'[t].key = call'[t].key
  <2> TAKE t \in Threads
  <2>1. Abs[t].op = "get" <=> Reading(t)
    BY AbsFacts
  <2>2. Abs'[t] = AbstractCall(call'[t])
    BY DEF Abs, AbstractCall
  <2> QED BY <2>1, <2>2 DEF AbstractCall, Reading, Idle
<1>7. seen' = [t \in Threads |-> IF Abs'[t].op # "get" THEN {}
                                ELSE (IF Abs[t].op = "get" THEN seen[t] ELSE {}) \cup {val'[Abs'[t].key]}]
  <2> HIDE DEF Abs, Reading
  <2> QED BY <1>4, <1>6
<1>8. Protocol!Watch
  BY <1>7 DEF Protocol!Watch, Abs
<1> QED BY <1>3, <1>4, <1>5, <1>8 DEF Remembers

-----------------------------------------------------------------------------
(* The local store, one lemma per step.                                    *)

LEMMA LocalVal ==
  ASSUME TypeInv, kvType = "local_file"
  PROVE  /\ val \in [Keys -> Content]
         /\ \A k \in Keys : val[k] = IF k \in index THEN file[k] ELSE NoValue
  BY DEF TypeInv, val, Visible, Content

LEMMA PutEntersStep ==
  ASSUME IInv, NEW t \in Threads, kvType = "local_file", UNCHANGED <<kvType, fluxonVars>>,
         PutEnters(t), Watch
  PROVE  IInv' /\ Protocol!Next
<1> DEFINE k == call[t].key
<1>0. /\ TypeInv /\ TriedInv /\ SeenInv /\ LockInv /\ call[t] # Idle
      /\ k \in Keys /\ call[t].arg \in Content
      /\ call[t].op = "put" /\ call[t].at = "called" /\ Moves(t, "entered") /\ Mutates(t) /\ ~Mutating(t)
  BY CallFacts DEF IInv, PutEnters, At, Mutating, Mutates, Inside, Reading
<1> USE <1>0
<1>1. /\ call' \in [Threads -> CallsType \cup {Idle}]
      /\ call'[t] # Idle /\ call'[t].op = call[t].op /\ call'[t].key = k
      /\ call'[t].arg = call[t].arg /\ call'[t].at = "entered"
      /\ \A u \in Threads \ {t} : call'[u] = call[u]
      /\ Abs' = [Abs EXCEPT ![t].busy = TRUE]
  BY MovesFacts
<1>2. /\ index' = index \cup {k} /\ lock = NoThread /\ lock' = t
      /\ UNCHANGED <<kvType, disk, file, tried, got, pool, held>>
  BY DEF PutEnters, Acquires, fluxonVars
<1>3. /\ val' \in [Keys -> Content]
      /\ val'[k] = file[k] /\ \A j \in Keys \ {k} : val'[j] = val[j]
  BY <1>2 DEF TypeInv, val, Visible, Content
<1>4. Remembers
  BY <1>1, <1>3, WatchFacts
<1>5. TypeInv'
  BY <1>1, <1>2, <1>4 DEF TypeInv, Remembers, Content
<1>6. TriedInv'
  BY <1>1, <1>2 DEF TriedInv, Mutates
<1>7. SeenInv'
  BY <1>1, <1>2, <1>3, <1>4 DEF TypeInv, SeenInv, Reading, Remembers
<1>8. LockInv'
  BY <1>1, <1>2, ThreadsAssumption DEF TypeInv, LockInv, Mutating, Mutates, Inside
<1>9. Protocol!Begin(t)
  <2>1. Abs[t].op = call[t].op /\ ~Abs[t].busy /\ Abs[t].key = k
    BY AbsFacts
  <2>2. k \notin firm'
    BY <1>1 DEF firm, Mutates, Inside
  <2>3. firm \ {k} \subseteq firm'
    BY <1>1, <1>2 DEF firm, Visible, Durable, Mutates, Inside
  <2>4. \A j \in Keys : val'[j] # val[j] => j = k /\ val'[j] \in tried[j] \cup {NoValue}
    BY <1>2, <1>3 DEF TriedInv
  <2> QED BY <1>1, <1>2, <2>1, <2>2, <2>3, <2>4 DEF Protocol!Begin, Protocol!MayChange, Protocol!StaysFirm, Abs
<1> QED BY <1>4, <1>5, <1>6, <1>7, <1>8, <1>9 DEF IInv, Remembers, Protocol!Next, Protocol!Step

LEMMA PutWritesStep ==
  ASSUME IInv, NEW t \in Threads, kvType = "local_file", UNCHANGED <<kvType, fluxonVars>>,
         PutWrites(t), Watch
  PROVE  IInv' /\ Protocol!Next
<1> DEFINE k == call[t].key
<1>0. /\ TypeInv /\ TriedInv /\ SeenInv /\ LockInv /\ call[t] # Idle
      /\ k \in Keys /\ call[t].arg \in Content
      /\ call[t].op = "put" /\ call[t].at = "entered" /\ Moves(t, "filed") /\ Mutates(t) /\ Mutating(t)
  BY CallFacts DEF IInv, PutWrites, At, Mutating, Mutates, Inside, Reading
<1> USE <1>0
<1>1. /\ call' \in [Threads -> CallsType \cup {Idle}]
      /\ call'[t] # Idle /\ call'[t].op = call[t].op /\ call'[t].key = k
      /\ call'[t].arg = call[t].arg /\ call'[t].at = "filed"
      /\ \A u \in Threads \ {t} : call'[u] = call[u]
      /\ Abs' = Abs
  BY MovesFacts
<1>2. /\ file' = [file EXCEPT ![k] = call[t].arg] /\ lock = t /\ k \in index /\ \A u \in Threads \ {t} : ~Mutating(u)
      /\ UNCHANGED <<kvType, index, disk, lock, tried, got, pool, held>>
  BY DEF PutWrites, fluxonVars, LockInv
<1>3. /\ val' \in [Keys -> Content]
      /\ val'[k] = call[t].arg /\ \A j \in Keys \ {k} : val'[j] = val[j]
  BY <1>2 DEF TypeInv, val, Visible, Content
<1>4. Remembers
  BY <1>1, <1>3, WatchFacts
<1>5. TypeInv'
  BY <1>1, <1>2, <1>4 DEF TypeInv, Remembers, Content
<1>6. TriedInv'
  BY <1>1, <1>2 DEF TriedInv, Mutates
<1>7. SeenInv'
  BY <1>1, <1>2, <1>3, <1>4 DEF TypeInv, SeenInv, Reading, Remembers
<1>8. LockInv'
  BY <1>1, <1>2 DEF TypeInv, LockInv, Mutating, Mutates, Inside
<1>9. Protocol!Waver
  <2>1. firm \subseteq firm'
    BY <1>1, <1>2 DEF firm, Visible, Durable, Mutates, Inside, Mutating
  <2>2. \A j \in Keys : val'[j] # val[j] => j \notin firm /\ val'[j] \in tried[j] \cup {NoValue}
    BY <1>2, <1>3 DEF firm, Mutates, Inside, Mutating, TriedInv
  <2> QED BY <1>1, <1>2, <2>1, <2>2 DEF Protocol!Waver, Protocol!MayChange, Protocol!StaysFirm, Abs
<1> QED BY <1>4, <1>5, <1>6, <1>7, <1>8, <1>9 DEF IInv, Remembers, Protocol!Next, Protocol!Step

LEMMA PutSavesStep ==
  ASSUME IInv, NEW t \in Threads, kvType = "local_file", UNCHANGED <<kvType, fluxonVars>>,
         PutSaves(t), Watch
  PROVE  IInv' /\ Protocol!Next
<1> DEFINE k == call[t].key
<1>0. /\ TypeInv /\ TriedInv /\ SeenInv /\ LockInv /\ call[t] # Idle
      /\ k \in Keys /\ call[t].arg \in Content
      /\ call[t].op = "put" /\ call[t].at = "filed" /\ Returns(t) /\ Mutates(t) /\ Mutating(t)
  BY CallFacts DEF IInv, PutSaves, At, Mutating, Mutates, Inside, Reading
<1> USE <1>0
<1>1. /\ call' \in [Threads -> CallsType \cup {Idle}]
      /\ call'[t] = Idle /\ \A u \in Threads \ {t} : call'[u] = call[u]
      /\ Protocol!Ends(t)
  BY ReturnsFacts
<1>2. /\ disk' = index /\ lock' = NoThread /\ lock = t /\ \A u \in Threads \ {t} : ~Mutating(u)
      /\ UNCHANGED <<kvType, index, file, tried, got, pool, held>>
  BY DEF PutSaves, Releases, fluxonVars, LockInv
<1>3. /\ val' \in [Keys -> Content] /\ val' = val /\ val[k] = call[t].arg
  BY <1>2 DEF TypeInv, val, Visible, Content, LockInv
<1>4. Remembers
  BY <1>1, <1>3, WatchFacts
<1>5. TypeInv'
  BY <1>1, <1>2, <1>4 DEF TypeInv, Remembers, Content
<1>6. TriedInv'
  BY <1>1, <1>2 DEF TriedInv, Mutates
<1>7. SeenInv'
  BY <1>1, <1>2, <1>3, <1>4 DEF TypeInv, SeenInv, Reading, Remembers
<1>8. LockInv'
  BY <1>1, <1>2 DEF TypeInv, LockInv, Mutating, Mutates, Inside
<1>9. Protocol!Commit(t)
  <2>1. Abs[t].key = k /\ Abs[t].arg = call[t].arg /\ Protocol!Busy(t)
    BY AbsFacts
  <2>2. firm' = Keys /\ firm \subseteq Keys
    BY <1>1, <1>2 DEF firm, Visible, Durable, Mutates, Inside, Mutating
  <2> QED BY <1>1, <1>2, <1>3, <2>1, <2>2 DEF Protocol!Commit, Protocol!StaysFirm, Abs
<1> QED BY <1>4, <1>5, <1>6, <1>7, <1>8, <1>9 DEF IInv, Remembers, Protocol!Next, Protocol!Step

LEMMA GetMissesStep ==
  ASSUME IInv, NEW t \in Threads, kvType = "local_file", UNCHANGED <<kvType, fluxonVars>>,
         GetMisses(t), Watch
  PROVE  IInv' /\ Protocol!Next
<1> DEFINE k == call[t].key
<1>0. /\ TypeInv /\ TriedInv /\ SeenInv /\ LockInv /\ call[t] # Idle
      /\ k \in Keys /\ call[t].arg \in Content
      /\ call[t].op = "get" /\ call[t].at = "called" /\ Returns(t) /\ Reading(t) /\ ~Mutating(t)
  BY CallFacts DEF IInv, GetMisses, At, Mutating, Mutates, Inside, Reading
<1> USE <1>0
<1>1. /\ call' \in [Threads -> CallsType \cup {Idle}]
      /\ call'[t] = Idle /\ \A u \in Threads \ {t} : call'[u] = call[u]
      /\ Protocol!Ends(t)
  BY ReturnsFacts
<1>2. /\ got' = [got EXCEPT ![t] = NoValue] /\ k \notin index
      /\ UNCHANGED <<kvType, index, disk, file, lock, tried, pool, held>>
  BY DEF GetMisses, localVars, fluxonVars
<1>3. /\ val' \in [Keys -> Content] /\ val' = val /\ val[k] = NoValue
  BY <1>2 DEF TypeInv, val, Visible, Content
<1>4. Remembers
  BY <1>1, <1>3, WatchFacts
<1>5. TypeInv'
  BY <1>1, <1>2, <1>4 DEF TypeInv, Remembers, Content
<1>6. TriedInv'
  BY <1>1, <1>2 DEF TriedInv, Mutates
<1>7. SeenInv'
  BY <1>1, <1>2, <1>3, <1>4 DEF TypeInv, SeenInv, Reading, Remembers
<1>8. LockInv'
  BY <1>1, <1>2 DEF TypeInv, LockInv, Mutating, Mutates, Inside
<1>9. Protocol!Answer(t)
  <2>1. Abs[t].op = "get"
    BY AbsFacts
  <2>2. firm' = firm
    BY <1>1, <1>2 DEF firm, Visible, Durable, Mutates, Inside
  <2>3. NoValue \in seen[t]
    BY <1>2 DEF SeenInv, val, Visible
  <2> QED BY <1>1, <1>2, <1>3, <2>1, <2>2, <2>3 DEF Protocol!Answer, Abs
<1> QED BY <1>4, <1>5, <1>6, <1>7, <1>8, <1>9 DEF IInv, Remembers, Protocol!Next, Protocol!Step

LEMMA GetLooksUpStep ==
  ASSUME IInv, NEW t \in Threads, kvType = "local_file", UNCHANGED <<kvType, fluxonVars>>,
         GetLooksUp(t), Watch
  PROVE  IInv' /\ Protocol!Next
<1> DEFINE k == call[t].key
<1>0. /\ TypeInv /\ TriedInv /\ SeenInv /\ LockInv /\ call[t] # Idle
      /\ k \in Keys /\ call[t].arg \in Content
      /\ call[t].op = "get" /\ call[t].at = "called" /\ Moves(t, "found") /\ Reading(t) /\ ~Mutating(t)
  BY CallFacts DEF IInv, GetLooksUp, At, Mutating, Mutates, Inside, Reading
<1> USE <1>0
<1>1. /\ call' \in [Threads -> CallsType \cup {Idle}]
      /\ call'[t] # Idle /\ call'[t].op = call[t].op /\ call'[t].key = k
      /\ call'[t].arg = call[t].arg /\ call'[t].at = "found"
      /\ \A u \in Threads \ {t} : call'[u] = call[u]
      /\ Abs' = Abs
  BY MovesFacts
<1>2. /\ k \in index
      /\ UNCHANGED <<kvType, index, disk, file, lock, tried, got, pool, held>>
  BY DEF GetLooksUp, localVars, fluxonVars
<1>3. /\ val' \in [Keys -> Content] /\ val' = val /\ val[k] = file[k]
  BY <1>2 DEF TypeInv, val, Visible, Content
<1>4. Remembers
  BY <1>1, <1>3, WatchFacts
<1>5. TypeInv'
  BY <1>1, <1>2, <1>4 DEF TypeInv, Remembers, Content
<1>6. TriedInv'
  BY <1>1, <1>2 DEF TriedInv, Mutates
<1>7. SeenInv'
  BY <1>1, <1>2, <1>3, <1>4 DEF TypeInv, SeenInv, Reading, Remembers
<1>8. LockInv'
  BY <1>1, <1>2 DEF TypeInv, LockInv, Mutating, Mutates, Inside
<1>9. Protocol!Waver
  <2>1. firm \subseteq firm'
    BY <1>1, <1>2 DEF firm, Visible, Durable, Mutates, Inside, Mutating
  <2>2. \A j \in Keys : val'[j] # val[j] => j \notin firm /\ val'[j] \in tried[j] \cup {NoValue}
    BY <1>2, <1>3 DEF firm, Mutates, Inside, Mutating, TriedInv
  <2> QED BY <1>1, <1>2, <2>1, <2>2 DEF Protocol!Waver, Protocol!MayChange, Protocol!StaysFirm, Abs
<1> QED BY <1>4, <1>5, <1>6, <1>7, <1>8, <1>9 DEF IInv, Remembers, Protocol!Next, Protocol!Step

LEMMA GetReadsStep ==
  ASSUME IInv, NEW t \in Threads, kvType = "local_file", UNCHANGED <<kvType, fluxonVars>>,
         GetReads(t), Watch
  PROVE  IInv' /\ Protocol!Next
<1> DEFINE k == call[t].key
<1>0. /\ TypeInv /\ TriedInv /\ SeenInv /\ LockInv /\ call[t] # Idle
      /\ k \in Keys /\ call[t].arg \in Content
      /\ call[t].op = "get" /\ call[t].at = "found" /\ Returns(t) /\ Reading(t)
  BY CallFacts DEF IInv, GetReads, At, Mutating, Mutates, Inside, Reading
<1> USE <1>0
<1>1. /\ call' \in [Threads -> CallsType \cup {Idle}]
      /\ call'[t] = Idle /\ \A u \in Threads \ {t} : call'[u] = call[u]
      /\ Protocol!Ends(t)
  BY ReturnsFacts
<1>2. /\ got' = [got EXCEPT ![t] = file[k]]
      /\ UNCHANGED <<kvType, index, disk, file, lock, tried, pool, held>>
  BY DEF GetReads, localVars, fluxonVars
<1>3. /\ val' \in [Keys -> Content] /\ val' = val
  BY <1>2 DEF TypeInv, val, Visible, Content
<1>4. Remembers
  BY <1>1, <1>3, WatchFacts
<1>5. TypeInv'
  BY <1>1, <1>2, <1>4 DEF TypeInv, Remembers, Content
<1>6. TriedInv'
  BY <1>1, <1>2 DEF TriedInv, Mutates
<1>7. SeenInv'
  BY <1>1, <1>2, <1>3, <1>4 DEF TypeInv, SeenInv, Reading, Remembers
<1>8. LockInv'
  BY <1>1, <1>2 DEF TypeInv, LockInv, Mutating, Mutates, Inside
<1>9. Protocol!Answer(t)
  <2>1. Abs[t].op = "get"
    BY AbsFacts
  <2>2. firm' = firm
    BY <1>1, <1>2 DEF firm, Visible, Durable, Mutates, Inside
  <2>3. file[k] \in seen[t]
    BY <1>2 DEF SeenInv
  <2> QED BY <1>1, <1>2, <1>3, <2>1, <2>2, <2>3 DEF Protocol!Answer, Abs
<1> QED BY <1>4, <1>5, <1>6, <1>7, <1>8, <1>9 DEF IInv, Remembers, Protocol!Next, Protocol!Step

LEMMA RemovesNothingStep ==
  ASSUME IInv, NEW t \in Threads, kvType = "local_file", UNCHANGED <<kvType, fluxonVars>>,
         RemovesNothing(t), Watch
  PROVE  IInv' /\ Protocol!Next
<1> DEFINE k == call[t].key
<1>0. /\ TypeInv /\ TriedInv /\ SeenInv /\ LockInv /\ call[t] # Idle
      /\ k \in Keys /\ call[t].arg \in Content
      /\ call[t].op = "remove" /\ call[t].at = "called" /\ Returns(t) /\ Mutates(t) /\ ~Mutating(t)
  BY CallFacts DEF IInv, RemovesNothing, At, Mutating, Mutates, Inside, Reading
<1> USE <1>0
<1>1. /\ call' \in [Threads -> CallsType \cup {Idle}]
      /\ call'[t] = Idle /\ \A u \in Threads \ {t} : call'[u] = call[u]
      /\ Protocol!Ends(t)
  BY ReturnsFacts
<1>2. /\ k \notin index
      /\ UNCHANGED <<kvType, index, disk, file, lock, tried, got, pool, held>>
  BY DEF RemovesNothing, localVars, fluxonVars
<1>3. /\ val' \in [Keys -> Content] /\ val' = val /\ val[k] = NoValue
  BY <1>2 DEF TypeInv, val, Visible, Content
<1>4. Remembers
  BY <1>1, <1>3, WatchFacts
<1>5. TypeInv'
  BY <1>1, <1>2, <1>4 DEF TypeInv, Remembers, Content
<1>6. TriedInv'
  BY <1>1, <1>2 DEF TriedInv, Mutates
<1>7. SeenInv'
  BY <1>1, <1>2, <1>3, <1>4 DEF TypeInv, SeenInv, Reading, Remembers
<1>8. LockInv'
  BY <1>1, <1>2 DEF TypeInv, LockInv, Mutating, Mutates, Inside
<1>9. Protocol!NothingToRemove(t)
  <2>1. Abs[t].op = "remove" /\ ~Abs[t].busy /\ Abs[t].key = k
    BY AbsFacts
  <2>2. firm' = firm
    BY <1>1, <1>2 DEF firm, Visible, Durable, Mutates, Inside
  <2> QED BY <1>1, <1>2, <1>3, <2>1, <2>2 DEF Protocol!NothingToRemove, Abs
<1> QED BY <1>4, <1>5, <1>6, <1>7, <1>8, <1>9 DEF IInv, Remembers, Protocol!Next, Protocol!Step

LEMMA RemoveEntersStep ==
  ASSUME IInv, NEW t \in Threads, kvType = "local_file", UNCHANGED <<kvType, fluxonVars>>,
         RemoveEnters(t), Watch
  PROVE  IInv' /\ Protocol!Next
<1> DEFINE k == call[t].key
<1>0. /\ TypeInv /\ TriedInv /\ SeenInv /\ LockInv /\ call[t] # Idle
      /\ k \in Keys /\ call[t].arg \in Content
      /\ call[t].op = "remove" /\ call[t].at = "called" /\ Moves(t, "entered") /\ Mutates(t) /\ ~Mutating(t)
  BY CallFacts DEF IInv, RemoveEnters, At, Mutating, Mutates, Inside, Reading
<1> USE <1>0
<1>1. /\ call' \in [Threads -> CallsType \cup {Idle}]
      /\ call'[t] # Idle /\ call'[t].op = call[t].op /\ call'[t].key = k
      /\ call'[t].arg = call[t].arg /\ call'[t].at = "entered"
      /\ \A u \in Threads \ {t} : call'[u] = call[u]
      /\ Abs' = [Abs EXCEPT ![t].busy = TRUE]
  BY MovesFacts
<1>2. /\ index' = index \ {k} /\ lock = NoThread /\ lock' = t
      /\ UNCHANGED <<kvType, disk, file, tried, got, pool, held>>
  BY DEF RemoveEnters, Acquires, fluxonVars
<1>3. /\ val' \in [Keys -> Content]
      /\ val'[k] = NoValue /\ \A j \in Keys \ {k} : val'[j] = val[j]
  BY <1>2 DEF TypeInv, val, Visible, Content
<1>4. Remembers
  BY <1>1, <1>3, WatchFacts
<1>5. TypeInv'
  BY <1>1, <1>2, <1>4 DEF TypeInv, Remembers, Content
<1>6. TriedInv'
  BY <1>1, <1>2 DEF TriedInv, Mutates
<1>7. SeenInv'
  BY <1>1, <1>2, <1>3, <1>4 DEF TypeInv, SeenInv, Reading, Remembers
<1>8. LockInv'
  BY <1>1, <1>2, ThreadsAssumption DEF TypeInv, LockInv, Mutating, Mutates, Inside
<1>9. Protocol!Begin(t)
  <2>1. Abs[t].op = call[t].op /\ ~Abs[t].busy /\ Abs[t].key = k
    BY AbsFacts
  <2>2. k \notin firm'
    BY <1>1 DEF firm, Mutates, Inside
  <2>3. firm \ {k} \subseteq firm'
    BY <1>1, <1>2 DEF firm, Visible, Durable, Mutates, Inside
  <2>4. \A j \in Keys : val'[j] # val[j] => j = k /\ val'[j] \in tried[j] \cup {NoValue}
    BY <1>2, <1>3 DEF TriedInv
  <2> QED BY <1>1, <1>2, <2>1, <2>2, <2>3, <2>4 DEF Protocol!Begin, Protocol!MayChange, Protocol!StaysFirm, Abs
<1> QED BY <1>4, <1>5, <1>6, <1>7, <1>8, <1>9 DEF IInv, Remembers, Protocol!Next, Protocol!Step

LEMMA RemoveUnlinksStep ==
  ASSUME IInv, NEW t \in Threads, kvType = "local_file", UNCHANGED <<kvType, fluxonVars>>,
         RemoveUnlinks(t), Watch
  PROVE  IInv' /\ Protocol!Next
<1> DEFINE k == call[t].key
<1>0. /\ TypeInv /\ TriedInv /\ SeenInv /\ LockInv /\ call[t] # Idle
      /\ k \in Keys /\ call[t].arg \in Content
      /\ call[t].op = "remove" /\ call[t].at = "entered" /\ Moves(t, "filed") /\ Mutates(t) /\ Mutating(t)
  BY CallFacts DEF IInv, RemoveUnlinks, At, Mutating, Mutates, Inside, Reading
<1> USE <1>0
<1>1. /\ call' \in [Threads -> CallsType \cup {Idle}]
      /\ call'[t] # Idle /\ call'[t].op = call[t].op /\ call'[t].key = k
      /\ call'[t].arg = call[t].arg /\ call'[t].at = "filed"
      /\ \A u \in Threads \ {t} : call'[u] = call[u]
      /\ Abs' = Abs
  BY MovesFacts
<1>2. /\ file' = [file EXCEPT ![k] = NoValue] /\ lock = t /\ k \notin index /\ call[t].arg = NoValue
      /\ \A u \in Threads \ {t} : ~Mutating(u)
      /\ UNCHANGED <<kvType, index, disk, lock, tried, got, pool, held>>
  BY DEF RemoveUnlinks, fluxonVars, LockInv, TriedInv
<1>3. /\ val' \in [Keys -> Content] /\ val' = val /\ val[k] = NoValue
  BY <1>2 DEF TypeInv, val, Visible, Content
<1>4. Remembers
  BY <1>1, <1>3, WatchFacts
<1>5. TypeInv'
  BY <1>1, <1>2, <1>4 DEF TypeInv, Remembers, Content
<1>6. TriedInv'
  BY <1>1, <1>2 DEF TriedInv, Mutates
<1>7. SeenInv'
  BY <1>1, <1>2, <1>3, <1>4 DEF TypeInv, SeenInv, Reading, Remembers
<1>8. LockInv'
  BY <1>1, <1>2 DEF TypeInv, LockInv, Mutating, Mutates, Inside
<1>9. Protocol!Waver
  <2>1. firm \subseteq firm'
    BY <1>1, <1>2 DEF firm, Visible, Durable, Mutates, Inside, Mutating
  <2>2. \A j \in Keys : val'[j] # val[j] => j \notin firm /\ val'[j] \in tried[j] \cup {NoValue}
    BY <1>2, <1>3 DEF firm, Mutates, Inside, Mutating, TriedInv
  <2> QED BY <1>1, <1>2, <2>1, <2>2 DEF Protocol!Waver, Protocol!MayChange, Protocol!StaysFirm, Abs
<1> QED BY <1>4, <1>5, <1>6, <1>7, <1>8, <1>9 DEF IInv, Remembers, Protocol!Next, Protocol!Step

LEMMA RemoveSavesStep ==
  ASSUME IInv, NEW t \in Threads, kvType = "local_file", UNCHANGED <<kvType, fluxonVars>>,
         RemoveSaves(t), Watch
  PROVE  IInv' /\ Protocol!Next
<1> DEFINE k == call[t].key
<1>0. /\ TypeInv /\ TriedInv /\ SeenInv /\ LockInv /\ call[t] # Idle
      /\ k \in Keys /\ call[t].arg \in Content
      /\ call[t].op = "remove" /\ call[t].at = "filed" /\ Returns(t) /\ Mutates(t) /\ Mutating(t)
  BY CallFacts DEF IInv, RemoveSaves, At, Mutating, Mutates, Inside, Reading
<1> USE <1>0
<1>1. /\ call' \in [Threads -> CallsType \cup {Idle}]
      /\ call'[t] = Idle /\ \A u \in Threads \ {t} : call'[u] = call[u]
      /\ Protocol!Ends(t)
  BY ReturnsFacts
<1>2. /\ disk' = index /\ lock' = NoThread /\ lock = t /\ \A u \in Threads \ {t} : ~Mutating(u)
      /\ UNCHANGED <<kvType, index, file, tried, got, pool, held>>
  BY DEF RemoveSaves, Releases, fluxonVars, LockInv
<1>3. /\ val' \in [Keys -> Content] /\ val' = val /\ val[k] = call[t].arg
  BY <1>2 DEF TypeInv, val, Visible, Content, LockInv, TriedInv
<1>4. Remembers
  BY <1>1, <1>3, WatchFacts
<1>5. TypeInv'
  BY <1>1, <1>2, <1>4 DEF TypeInv, Remembers, Content
<1>6. TriedInv'
  BY <1>1, <1>2 DEF TriedInv, Mutates
<1>7. SeenInv'
  BY <1>1, <1>2, <1>3, <1>4 DEF TypeInv, SeenInv, Reading, Remembers
<1>8. LockInv'
  BY <1>1, <1>2 DEF TypeInv, LockInv, Mutating, Mutates, Inside
<1>9. Protocol!Commit(t)
  <2>1. Abs[t].key = k /\ Abs[t].arg = call[t].arg /\ Protocol!Busy(t)
    BY AbsFacts
  <2>2. firm' = Keys /\ firm \subseteq Keys
    BY <1>1, <1>2 DEF firm, Visible, Durable, Mutates, Inside, Mutating
  <2> QED BY <1>1, <1>2, <1>3, <2>1, <2>2 DEF Protocol!Commit, Protocol!StaysFirm, Abs
<1> QED BY <1>4, <1>5, <1>6, <1>7, <1>8, <1>9 DEF IInv, Remembers, Protocol!Next, Protocol!Step

LEMMA DiskRaisesStep ==
  ASSUME IInv, NEW t \in Threads, kvType = "local_file", UNCHANGED <<kvType, fluxonVars>>,
         DiskRaises(t), Watch
  PROVE  IInv' /\ Protocol!Next
<1> DEFINE k == call[t].key
<1>0. /\ TypeInv /\ TriedInv /\ SeenInv /\ LockInv /\ call[t] # Idle
      /\ k \in Keys /\ call[t].arg \in Content
      /\ Returns(t)
  BY CallFacts DEF IInv, DiskRaises, At, Mutating, Mutates, Inside, Reading
<1> USE <1>0
<1>1. /\ call' \in [Threads -> CallsType \cup {Idle}]
      /\ call'[t] = Idle /\ \A u \in Threads \ {t} : call'[u] = call[u]
      /\ Protocol!Ends(t)
  BY ReturnsFacts
<1>2. /\ lock' = (IF lock = t THEN NoThread ELSE lock) /\ got' = [got EXCEPT ![t] = Raised]
      /\ UNCHANGED <<kvType, index, disk, file, tried, pool, held>>
  BY DEF DiskRaises, Raises, fluxonVars
<1>3. /\ val' \in [Keys -> Content] /\ val' = val
  BY <1>2 DEF TypeInv, val, Visible, Content
<1>4. Remembers
  BY <1>1, <1>3, WatchFacts
<1>5. TypeInv'
  BY <1>1, <1>2, <1>4 DEF TypeInv, Remembers, Content
<1>6. TriedInv'
  BY <1>1, <1>2 DEF TriedInv, Mutates
<1>7. SeenInv'
  BY <1>1, <1>2, <1>3, <1>4 DEF TypeInv, SeenInv, Reading, Remembers
<1>8. LockInv'
  BY <1>1, <1>2 DEF TypeInv, LockInv, Mutating, Mutates, Inside
<1>9. Protocol!Raise(t)
  <2>1. firm \subseteq firm'
    BY <1>1, <1>2 DEF firm, Visible, Durable, Mutates, Inside
  <2>2. \A j \in Keys : val'[j] # val[j] => j \notin firm /\ val'[j] \in tried[j] \cup {NoValue}
    BY <1>2, <1>3 DEF firm, Mutates, Inside, Mutating, TriedInv
  <2> QED BY <1>1, <1>2, <2>1, <2>2 DEF Protocol!Raise, Protocol!MayChange, Protocol!StaysFirm, Raised, Protocol!Raised
<1> QED BY <1>4, <1>5, <1>6, <1>7, <1>8, <1>9 DEF IInv, Remembers, Protocol!Next, Protocol!Step

LEMMA LocalRestartStep ==
  ASSUME IInv, kvType = "local_file", UNCHANGED <<kvType, fluxonVars>>, LocalRestart, Watch
  PROVE  IInv' /\ Protocol!Next
<1>0. TypeInv /\ TriedInv
  BY DEF IInv
<1> USE <1>0
<1>1. call' \in [Threads -> CallsType \cup {Idle}] /\ \A t \in Threads : call'[t] = Idle
  BY DEF LocalRestart
<1>2. /\ index' = disk /\ lock' = NoThread
      /\ UNCHANGED <<kvType, disk, file, tried, got, pool, held>>
  BY DEF LocalRestart, fluxonVars
<1>3. val' \in [Keys -> Content] /\ \A k \in Keys : val'[k] = IF k \in disk THEN file[k] ELSE NoValue
  BY <1>2 DEF TypeInv, val, Visible, Content
<1>4. Remembers
  BY <1>1, <1>3, WatchFacts
<1>5. TypeInv'
  BY <1>1, <1>2, <1>4 DEF TypeInv, Remembers
<1>6. TriedInv'
  BY <1>1, <1>2 DEF TriedInv, Mutates
<1>7. SeenInv' /\ LockInv'
  BY <1>1, <1>2 DEF SeenInv, Reading, LockInv, Mutating, Mutates
<1>8. Protocol!Restart
  <2>1. Abs' = [t \in Threads |-> Protocol!Idle]
    BY <1>1 DEF Abs, AbstractCall, Idle, Protocol!Idle
  <2>2. firm \subseteq firm'
    BY <1>1, <1>2 DEF firm, Visible, Durable, Mutates
  <2>3. \A j \in Keys : val'[j] # val[j] => j \notin firm /\ val'[j] \in tried[j] \cup {NoValue}
    BY <1>2, <1>3 DEF firm, val, Visible, Durable, TriedInv
  <2> QED BY <1>2, <2>1, <2>2, <2>3 DEF Protocol!Restart, Protocol!MayChange, Protocol!StaysFirm, Abs
<1> QED BY <1>4, <1>5, <1>6, <1>7, <1>8 DEF IInv, Remembers, Protocol!Next, Protocol!Step

-----------------------------------------------------------------------------
(* The Fluxon adapter, one lemma per step, and one per kind of answer.     *)

LEMMA PutAsksStep ==
  ASSUME IInv, NEW t \in Threads, kvType = "fluxon", UNCHANGED <<kvType, localVars>>,
         PutAsks(t), Watch
  PROVE  IInv' /\ Protocol!Next
<1> DEFINE k == call[t].key
<1>0. /\ TypeInv /\ TriedInv /\ SeenInv /\ LockInv /\ call[t] # Idle
      /\ k \in Keys /\ call[t].arg \in Content
      /\ call[t].op = "put" /\ call[t].at = "called" /\ Moves(t, "asked") /\ Mutates(t) /\ ~Mutating(t)
  BY CallFacts DEF IInv, PutAsks, At, Mutating, Mutates, Inside, Reading, Leaves
<1> USE <1>0
<1>1. /\ call' \in [Threads -> CallsType \cup {Idle}]
      /\ call'[t] # Idle /\ call'[t].op = call[t].op /\ call'[t].key = k
      /\ call'[t].arg = call[t].arg /\ call'[t].at = "asked"
      /\ \A u \in Threads \ {t} : call'[u] = call[u]
      /\ Abs' = [Abs EXCEPT ![t].busy = TRUE]
  BY MovesFacts
<1>2. UNCHANGED <<kvType, index, disk, file, lock, tried, got, pool, held>>
  BY DEF PutAsks, localVars, fluxonVars
<1>3. /\ val' \in [Keys -> Content] /\ val' = val
  BY <1>2 DEF TypeInv, val, Content
<1>4. Remembers
  BY <1>1, <1>3, WatchFacts
<1>5. TypeInv'
  BY <1>1, <1>2, <1>4 DEF TypeInv, Remembers, Content
<1>6. TriedInv'
  BY <1>1, <1>2 DEF TriedInv, Mutates
<1>7. SeenInv'
  BY <1>1, <1>2, <1>3, <1>4 DEF TypeInv, SeenInv, Reading, Remembers
<1>8. LockInv'
  BY <1>1, <1>2 DEF TypeInv, LockInv, Mutating, Mutates, Inside
<1>9. Protocol!Begin(t)
  <2>1. Abs[t].op = call[t].op /\ ~Abs[t].busy /\ Abs[t].key = k
    BY AbsFacts
  <2>2. k \notin firm'
    BY <1>1 DEF firm, Mutates, Inside
  <2>3. firm \ {k} \subseteq firm'
    BY <1>1, <1>2 DEF firm, Mutates, Inside
  <2>4. \A j \in Keys : val'[j] # val[j] => j = k /\ val'[j] \in tried[j] \cup {NoValue}
    BY <1>2, <1>3 DEF TriedInv
  <2> QED BY <1>1, <1>2, <2>1, <2>2, <2>3, <2>4 DEF Protocol!Begin, Protocol!MayChange, Protocol!StaysFirm, Abs
<1> QED BY <1>4, <1>5, <1>6, <1>7, <1>8, <1>9 DEF IInv, Remembers, Protocol!Next, Protocol!Step

LEMMA PutDoneStep ==
  ASSUME IInv, NEW t \in Threads, kvType = "fluxon", UNCHANGED <<kvType, localVars>>,
         PutDone(t), Watch
  PROVE  IInv' /\ Protocol!Next
<1> DEFINE k == call[t].key
<1>0. /\ TypeInv /\ TriedInv /\ SeenInv /\ LockInv /\ call[t] # Idle
      /\ k \in Keys /\ call[t].arg \in Content
      /\ call[t].op = "put" /\ call[t].at = "asked" /\ Returns(t) /\ Mutates(t) /\ Mutating(t)
  BY CallFacts DEF IInv, PutDone, At, Mutating, Mutates, Inside, Reading, Leaves
<1> USE <1>0
<1>1. /\ call' \in [Threads -> CallsType \cup {Idle}]
      /\ call'[t] = Idle /\ \A u \in Threads \ {t} : call'[u] = call[u]
      /\ Protocol!Ends(t)
  BY ReturnsFacts
<1>2. /\ pool' = [pool EXCEPT ![k] = call[t].arg] /\ held' = [held EXCEPT ![t] = NoValue]
      /\ UNCHANGED <<kvType, index, disk, file, lock, tried, got>>
  BY DEF PutDone, Leaves, TriedInv, Mutates, localVars, fluxonVars
<1>3. /\ val' \in [Keys -> Content]
      /\ val'[k] = call[t].arg /\ \A j \in Keys \ {k} : val'[j] = val[j]
  BY <1>2 DEF TypeInv, val, Content
<1>4. Remembers
  BY <1>1, <1>3, WatchFacts
<1>5. TypeInv'
  BY <1>1, <1>2, <1>4 DEF TypeInv, Remembers, Content
<1>6. TriedInv'
  BY <1>1, <1>2 DEF TriedInv, Mutates
<1>7. SeenInv'
  BY <1>1, <1>2, <1>3, <1>4 DEF TypeInv, SeenInv, Reading, Remembers
<1>8. LockInv'
  BY <1>1, <1>2 DEF TypeInv, LockInv, Mutating, Mutates, Inside
<1>9. Protocol!Commit(t)
  <2>1. Abs[t].key = k /\ Abs[t].arg = call[t].arg /\ Protocol!Busy(t)
    BY AbsFacts
  <2>2. k \in firm' \/ \E u \in Threads \ {t} : Protocol!Busy(u) /\ Abs[u].key = k
    <3>1. \A u \in Threads \ {t} : Mutating(u) => Protocol!Busy(u) /\ Abs[u].key = call[u].key
      BY AbsFacts DEF Mutating, Mutates
    <3> HIDE DEF k
    <3> QED BY <1>0, <1>1, <1>2, <3>1 DEF firm, Mutating, Mutates, Inside
  <2>3. firm \subseteq firm'
    BY <1>1, <1>2 DEF firm, Mutates, Inside
  <2> QED BY <1>1, <1>2, <1>3, <2>1, <2>2, <2>3 DEF Protocol!Commit, Protocol!StaysFirm, Abs
<1> QED BY <1>4, <1>5, <1>6, <1>7, <1>8, <1>9 DEF IInv, Remembers, Protocol!Next, Protocol!Step

LEMMA RemoveAsksStep ==
  ASSUME IInv, NEW t \in Threads, kvType = "fluxon", UNCHANGED <<kvType, localVars>>,
         RemoveAsks(t), Watch
  PROVE  IInv' /\ Protocol!Next
<1> DEFINE k == call[t].key
<1>0. /\ TypeInv /\ TriedInv /\ SeenInv /\ LockInv /\ call[t] # Idle
      /\ k \in Keys /\ call[t].arg \in Content
      /\ call[t].op = "remove" /\ call[t].at = "called" /\ Moves(t, "asked") /\ Mutates(t) /\ ~Mutating(t)
  BY CallFacts DEF IInv, RemoveAsks, At, Mutating, Mutates, Inside, Reading, Leaves
<1> USE <1>0
<1>1. /\ call' \in [Threads -> CallsType \cup {Idle}]
      /\ call'[t] # Idle /\ call'[t].op = call[t].op /\ call'[t].key = k
      /\ call'[t].arg = call[t].arg /\ call'[t].at = "asked"
      /\ \A u \in Threads \ {t} : call'[u] = call[u]
      /\ Abs' = [Abs EXCEPT ![t].busy = TRUE]
  BY MovesFacts
<1>2. UNCHANGED <<kvType, index, disk, file, lock, tried, got, pool, held>>
  BY DEF RemoveAsks, localVars, fluxonVars
<1>3. /\ val' \in [Keys -> Content] /\ val' = val
  BY <1>2 DEF TypeInv, val, Content
<1>4. Remembers
  BY <1>1, <1>3, WatchFacts
<1>5. TypeInv'
  BY <1>1, <1>2, <1>4 DEF TypeInv, Remembers, Content
<1>6. TriedInv'
  BY <1>1, <1>2 DEF TriedInv, Mutates
<1>7. SeenInv'
  BY <1>1, <1>2, <1>3, <1>4 DEF TypeInv, SeenInv, Reading, Remembers
<1>8. LockInv'
  BY <1>1, <1>2 DEF TypeInv, LockInv, Mutating, Mutates, Inside
<1>9. Protocol!Begin(t)
  <2>1. Abs[t].op = call[t].op /\ ~Abs[t].busy /\ Abs[t].key = k
    BY AbsFacts
  <2>2. k \notin firm'
    BY <1>1 DEF firm, Mutates, Inside
  <2>3. firm \ {k} \subseteq firm'
    BY <1>1, <1>2 DEF firm, Mutates, Inside
  <2>4. \A j \in Keys : val'[j] # val[j] => j = k /\ val'[j] \in tried[j] \cup {NoValue}
    BY <1>2, <1>3 DEF TriedInv
  <2> QED BY <1>1, <1>2, <2>1, <2>2, <2>3, <2>4 DEF Protocol!Begin, Protocol!MayChange, Protocol!StaysFirm, Abs
<1> QED BY <1>4, <1>5, <1>6, <1>7, <1>8, <1>9 DEF IInv, Remembers, Protocol!Next, Protocol!Step

LEMMA RemoveDoneStep ==
  ASSUME IInv, NEW t \in Threads, kvType = "fluxon", UNCHANGED <<kvType, localVars>>,
         RemoveDone(t), Watch
  PROVE  IInv' /\ Protocol!Next
<1> DEFINE k == call[t].key
<1>0. /\ TypeInv /\ TriedInv /\ SeenInv /\ LockInv /\ call[t] # Idle
      /\ k \in Keys /\ call[t].arg \in Content
      /\ call[t].op = "remove" /\ call[t].at = "asked" /\ Returns(t) /\ Mutates(t) /\ Mutating(t)
  BY CallFacts DEF IInv, RemoveDone, At, Mutating, Mutates, Inside, Reading, Leaves
<1> USE <1>0
<1>1. /\ call' \in [Threads -> CallsType \cup {Idle}]
      /\ call'[t] = Idle /\ \A u \in Threads \ {t} : call'[u] = call[u]
      /\ Protocol!Ends(t)
  BY ReturnsFacts
<1>2. /\ pool' = [pool EXCEPT ![k] = call[t].arg] /\ held' = [held EXCEPT ![t] = NoValue]
      /\ UNCHANGED <<kvType, index, disk, file, lock, tried, got>>
  BY DEF RemoveDone, Leaves, TriedInv, Mutates, localVars, fluxonVars
<1>3. /\ val' \in [Keys -> Content]
      /\ val'[k] = call[t].arg /\ \A j \in Keys \ {k} : val'[j] = val[j]
  BY <1>2 DEF TypeInv, val, Content
<1>4. Remembers
  BY <1>1, <1>3, WatchFacts
<1>5. TypeInv'
  BY <1>1, <1>2, <1>4 DEF TypeInv, Remembers, Content
<1>6. TriedInv'
  BY <1>1, <1>2 DEF TriedInv, Mutates
<1>7. SeenInv'
  BY <1>1, <1>2, <1>3, <1>4 DEF TypeInv, SeenInv, Reading, Remembers
<1>8. LockInv'
  BY <1>1, <1>2 DEF TypeInv, LockInv, Mutating, Mutates, Inside
<1>9. Protocol!Commit(t)
  <2>1. Abs[t].key = k /\ Abs[t].arg = call[t].arg /\ Protocol!Busy(t)
    BY AbsFacts
  <2>2. k \in firm' \/ \E u \in Threads \ {t} : Protocol!Busy(u) /\ Abs[u].key = k
    <3>1. \A u \in Threads \ {t} : Mutating(u) => Protocol!Busy(u) /\ Abs[u].key = call[u].key
      BY AbsFacts DEF Mutating, Mutates
    <3> HIDE DEF k
    <3> QED BY <1>0, <1>1, <1>2, <3>1 DEF firm, Mutating, Mutates, Inside
  <2>3. firm \subseteq firm'
    BY <1>1, <1>2 DEF firm, Mutates, Inside
  <2> QED BY <1>1, <1>2, <1>3, <2>1, <2>2, <2>3 DEF Protocol!Commit, Protocol!StaysFirm, Abs
<1> QED BY <1>4, <1>5, <1>6, <1>7, <1>8, <1>9 DEF IInv, Remembers, Protocol!Next, Protocol!Step

LEMMA GetGoesOnStep ==
  ASSUME IInv, NEW t \in Threads, kvType = "fluxon", UNCHANGED <<kvType, localVars>>,
         At(t, "get", "called"), Moves(t, "asked"), UNCHANGED <<pool, held, got, tried>>, Watch
  PROVE  IInv' /\ Protocol!Next
<1> DEFINE k == call[t].key
<1>0. /\ TypeInv /\ TriedInv /\ SeenInv /\ LockInv /\ call[t] # Idle
      /\ k \in Keys /\ call[t].arg \in Content
      /\ call[t].op = "get" /\ Moves(t, "asked") /\ Reading(t)
  BY CallFacts DEF IInv, Moves, At, Mutating, Mutates, Inside, Reading, Leaves
<1> USE <1>0
<1>1. /\ call' \in [Threads -> CallsType \cup {Idle}]
      /\ call'[t] # Idle /\ call'[t].op = call[t].op /\ call'[t].key = k
      /\ call'[t].arg = call[t].arg /\ call'[t].at = "asked"
      /\ \A u \in Threads \ {t} : call'[u] = call[u]
      /\ Abs' = Abs
  BY MovesFacts
<1>2. UNCHANGED <<kvType, index, disk, file, lock, tried, got, pool, held>>
  BY DEF localVars, fluxonVars
<1>3. /\ val' \in [Keys -> Content] /\ val' = val
  BY <1>2 DEF TypeInv, val, Content
<1>4. Remembers
  BY <1>1, <1>3, WatchFacts
<1>5. TypeInv'
  BY <1>1, <1>2, <1>4 DEF TypeInv, Remembers, Content
<1>6. TriedInv'
  BY <1>1, <1>2 DEF TriedInv, Mutates
<1>7. SeenInv'
  BY <1>1, <1>2, <1>3, <1>4 DEF TypeInv, SeenInv, Reading, Remembers
<1>8. LockInv'
  BY <1>1, <1>2 DEF TypeInv, LockInv, Mutating, Mutates, Inside
<1>9. Protocol!Waver
  <2>1. firm \subseteq firm'
    BY <1>1, <1>2 DEF firm, Mutates, Inside, Mutating
  <2>2. \A j \in Keys : val'[j] # val[j] => j \notin firm /\ val'[j] \in tried[j] \cup {NoValue}
    BY <1>2, <1>3 DEF firm, Mutates, Inside, Mutating, TriedInv
  <2> QED BY <1>1, <1>2, <2>1, <2>2 DEF Protocol!Waver, Protocol!MayChange, Protocol!StaysFirm, Abs
<1> QED BY <1>4, <1>5, <1>6, <1>7, <1>8, <1>9 DEF IInv, Remembers, Protocol!Next, Protocol!Step

LEMMA GetHoldsStep ==
  ASSUME IInv, NEW t \in Threads, kvType = "fluxon", UNCHANGED <<kvType, localVars>>,
         At(t, "get", "asked"), Moves(t, "held"), held' = [held EXCEPT ![t] = pool[call[t].key]],
         UNCHANGED <<pool, got, tried>>, Watch
  PROVE  IInv' /\ Protocol!Next
<1> DEFINE k == call[t].key
<1>0. /\ TypeInv /\ TriedInv /\ SeenInv /\ LockInv /\ call[t] # Idle
      /\ k \in Keys /\ call[t].arg \in Content
      /\ call[t].op = "get" /\ Moves(t, "held") /\ Reading(t)
  BY CallFacts DEF IInv, Moves, At, Mutating, Mutates, Inside, Reading, Leaves
<1> USE <1>0
<1>1. /\ call' \in [Threads -> CallsType \cup {Idle}]
      /\ call'[t] # Idle /\ call'[t].op = call[t].op /\ call'[t].key = k
      /\ call'[t].arg = call[t].arg /\ call'[t].at = "held"
      /\ \A u \in Threads \ {t} : call'[u] = call[u]
      /\ Abs' = Abs
  BY MovesFacts
<1>2. /\ held' = [held EXCEPT ![t] = pool[k]]
      /\ UNCHANGED <<kvType, index, disk, file, lock, tried, got, pool>>
  BY DEF localVars, fluxonVars
<1>3. /\ val' \in [Keys -> Content] /\ val' = val /\ val = pool
  BY <1>2 DEF TypeInv, val, Content
<1>4. Remembers
  BY <1>1, <1>3, WatchFacts
<1>5. TypeInv'
  BY <1>1, <1>2, <1>4 DEF TypeInv, Remembers, Content
<1>6. TriedInv'
  BY <1>1, <1>2 DEF TriedInv, Mutates
<1>7. SeenInv'
  BY <1>1, <1>2, <1>3, <1>4 DEF TypeInv, SeenInv, Reading, Remembers
<1>8. LockInv'
  BY <1>1, <1>2 DEF TypeInv, LockInv, Mutating, Mutates, Inside
<1>9. Protocol!Waver
  <2>1. firm \subseteq firm'
    BY <1>1, <1>2 DEF firm, Mutates, Inside, Mutating
  <2>2. \A j \in Keys : val'[j] # val[j] => j \notin firm /\ val'[j] \in tried[j] \cup {NoValue}
    BY <1>2, <1>3 DEF firm, Mutates, Inside, Mutating, TriedInv
  <2> QED BY <1>1, <1>2, <2>1, <2>2 DEF Protocol!Waver, Protocol!MayChange, Protocol!StaysFirm, Abs
<1> QED BY <1>4, <1>5, <1>6, <1>7, <1>8, <1>9 DEF IInv, Remembers, Protocol!Next, Protocol!Step

LEMMA GetIsAnsweredStep ==
  ASSUME IInv, NEW t \in Threads, kvType = "fluxon", UNCHANGED <<kvType, localVars>>,
         Reading(t), NEW r \in seen[t], got' = [got EXCEPT ![t] = r], Leaves(t),
         UNCHANGED <<pool, tried>>, Watch
  PROVE  IInv' /\ Protocol!Next
<1> DEFINE k == call[t].key
<1>0. /\ TypeInv /\ TriedInv /\ SeenInv /\ LockInv /\ call[t] # Idle
      /\ k \in Keys /\ call[t].arg \in Content
      /\ call[t].op = "get" /\ Returns(t) /\ Reading(t)
  BY CallFacts DEF IInv, Moves, At, Mutating, Mutates, Inside, Reading, Leaves
<1> USE <1>0
<1>1. /\ call' \in [Threads -> CallsType \cup {Idle}]
      /\ call'[t] = Idle /\ \A u \in Threads \ {t} : call'[u] = call[u]
      /\ Protocol!Ends(t)
  BY ReturnsFacts
<1>2. /\ held' = [held EXCEPT ![t] = NoValue] /\ got' = [got EXCEPT ![t] = r]
      /\ UNCHANGED <<kvType, index, disk, file, lock, tried, pool>>
  BY DEF Leaves, localVars, fluxonVars
<1>3. /\ val' \in [Keys -> Content] /\ val' = val
  BY <1>2 DEF TypeInv, val, Content
<1>4. Remembers
  BY <1>1, <1>3, WatchFacts
<1>5. TypeInv'
  BY <1>1, <1>2, <1>4, ZenonT(40) DEF TypeInv, Remembers, Content
<1>6. TriedInv'
  BY <1>1, <1>2 DEF TriedInv, Mutates
<1>7. SeenInv'
  BY <1>1, <1>2, <1>3, <1>4 DEF TypeInv, SeenInv, Reading, Remembers
<1>8. LockInv'
  BY <1>1, <1>2 DEF TypeInv, LockInv, Mutating, Mutates, Inside
<1>9. Protocol!Answer(t)
  <2>1. Abs[t].op = "get"
    BY AbsFacts
  <2>2. firm' = firm
    BY <1>1, <1>2 DEF firm, Mutates, Inside
  <2>3. r \in seen[t]
    BY <1>2 DEF SeenInv
  <2> QED BY <1>1, <1>2, <1>3, <2>1, <2>2, <2>3 DEF Protocol!Answer, Abs
<1> QED BY <1>4, <1>5, <1>6, <1>7, <1>8, <1>9 DEF IInv, Remembers, Protocol!Next, Protocol!Step

LEMMA FluxonFailsStep ==
  ASSUME IInv, NEW t \in Threads, kvType = "fluxon", UNCHANGED <<kvType, localVars>>,
         call[t] # Idle, Leaves(t), Raises(t), UNCHANGED tried,
         UNCHANGED pool \/ (Mutating(t) /\ pool' = [pool EXCEPT ![call[t].key] = call[t].arg]), Watch
  PROVE  IInv' /\ Protocol!Next
<1> DEFINE k == call[t].key
<1>0. /\ TypeInv /\ TriedInv /\ SeenInv /\ LockInv /\ call[t] # Idle
      /\ k \in Keys /\ call[t].arg \in Content
      /\ Returns(t)
  BY CallFacts DEF IInv, Moves, At, Mutating, Mutates, Inside, Reading, Leaves
<1> USE <1>0
<1>1. /\ call' \in [Threads -> CallsType \cup {Idle}]
      /\ call'[t] = Idle /\ \A u \in Threads \ {t} : call'[u] = call[u]
      /\ Protocol!Ends(t)
  BY ReturnsFacts
<1>2. /\ held' = [held EXCEPT ![t] = NoValue] /\ got' = [got EXCEPT ![t] = Raised]
      /\ pool' = pool \/ (Mutating(t) /\ pool' = [pool EXCEPT ![k] = call[t].arg])
      /\ UNCHANGED <<kvType, index, disk, file, lock, tried>>
  BY DEF Leaves, Raises, localVars, fluxonVars
<1>3. /\ val' \in [Keys -> Content]
      /\ \A j \in Keys : val'[j] # val[j] => j = k /\ val'[j] = call[t].arg /\ Mutating(t)
  BY <1>2 DEF TypeInv, val, Content
<1>4. Remembers
  BY <1>1, <1>3, WatchFacts
<1>5. TypeInv'
  BY <1>1, <1>2, <1>4 DEF TypeInv, Remembers, Content
<1>6. TriedInv'
  BY <1>1, <1>2 DEF TriedInv, Mutates, Mutating, TypeInv
<1>7. SeenInv'
  BY <1>1, <1>2, <1>3, <1>4 DEF TypeInv, SeenInv, Reading, Remembers
<1>8. LockInv'
  BY <1>1, <1>2 DEF TypeInv, LockInv, Mutating, Mutates, Inside
<1>9. Protocol!Raise(t)
  <2>1. firm \subseteq firm'
    BY <1>1, <1>2 DEF firm, Mutates, Inside
  <2>2. \A j \in Keys : val'[j] # val[j] => j \notin firm /\ val'[j] \in tried[j] \cup {NoValue}
    BY <1>2, <1>3 DEF firm, Mutates, Inside, Mutating, TriedInv
  <2> QED BY <1>1, <1>2, <2>1, <2>2 DEF Protocol!Raise, Protocol!MayChange, Protocol!StaysFirm, Raised, Protocol!Raised
<1> QED BY <1>4, <1>5, <1>6, <1>7, <1>8, <1>9 DEF IInv, Remembers, Protocol!Next, Protocol!Step

LEMMA FluxonRestartStep ==
  ASSUME IInv, kvType = "fluxon", UNCHANGED <<kvType, localVars>>, FluxonRestart, Watch
  PROVE  IInv' /\ Protocol!Next
<1>0. TypeInv /\ TriedInv /\ LockInv
  BY DEF IInv
<1> USE <1>0
<1>1. call' \in [Threads -> CallsType \cup {Idle}] /\ \A t \in Threads : call'[t] = Idle
  BY DEF FluxonRestart
<1>2. /\ held' \in [Threads -> Content] /\ lock' = NoThread
      /\ UNCHANGED <<kvType, index, disk, file, tried, got>>
  BY DEF FluxonRestart, localVars, LockInv, Content
<1>3. /\ pool' \in [Keys -> Content]
      /\ \A k \in Keys : pool'[k] # pool[k] => /\ \E t \in Threads : Mutating(t) /\ call[t].key = k
                                               /\ pool'[k] \in tried[k] \cup {NoValue}
  <2>1. CASE pool' = pool
    BY <2>1 DEF TypeInv
  <2>2. ASSUME NEW t \in Threads, At(t, "put", "asked") \/ At(t, "remove", "asked"),
               pool' = [pool EXCEPT ![call[t].key] = call[t].arg]
        PROVE  /\ pool' \in [Keys -> Content]
               /\ \A k \in Keys : pool'[k] # pool[k] => /\ Mutating(t) /\ call[t].key = k
                                                        /\ pool'[k] \in tried[k] \cup {NoValue}
    <3>1. Mutating(t) /\ call[t].key \in Keys /\ call[t].arg \in Content
      BY <2>2, CallFacts DEF At, Mutating, Mutates, Inside
    <3> QED BY <2>2, <3>1 DEF TypeInv, TriedInv, Mutating
  <2> QED BY <2>1, <2>2 DEF FluxonRestart
<1>4. Remembers
  BY <1>1, <1>2, <1>3, WatchFacts DEF val
<1>5. TypeInv'
  BY <1>1, <1>2, <1>3, <1>4 DEF TypeInv, Remembers
<1>6. TriedInv'
  BY <1>1, <1>2, <1>3 DEF TriedInv, Mutates
<1>7. SeenInv' /\ LockInv'
  BY <1>1, <1>2 DEF SeenInv, Reading, LockInv, Mutating, Mutates
<1>8. Protocol!Restart
  <2>1. Abs' = [t \in Threads |-> Protocol!Idle]
    BY <1>1 DEF Abs, AbstractCall, Idle, Protocol!Idle
  <2>2. firm' = Keys /\ firm \subseteq Keys
    BY <1>1, <1>2 DEF firm, Mutates
  <2>3. \A j \in Keys : val'[j] # val[j] => j \notin firm /\ val'[j] \in tried[j] \cup {NoValue}
    BY <1>2, <1>3 DEF firm, val, Mutating
  <2> QED BY <1>2, <2>1, <2>2, <2>3 DEF Protocol!Restart, Protocol!MayChange, Protocol!StaysFirm, Abs
<1> QED BY <1>4, <1>5, <1>6, <1>7, <1>8 DEF IInv, Remembers, Protocol!Next, Protocol!Step

LEMMA FluxonStepStep ==
  ASSUME IInv, NEW t \in Threads, kvType = "fluxon", UNCHANGED <<kvType, localVars>>, FluxonStep(t), Watch
  PROVE  IInv' /\ Protocol!Next
<1> DEFINE k == call[t].key
<1>0. TypeInv /\ SeenInv /\ (call[t] # Idle => k \in Keys)
  BY CallFacts DEF IInv
<1>1. CASE GetAsks(t) \/ GetWaits(t)
  <2>1. Reading(t) /\ call[t] # Idle /\ UNCHANGED <<pool, tried>>
    BY <1>1 DEF GetAsks, GetWaits, At, Reading
  <2>2. PICK r \in Found(k) :
          \/ Unwraps(r) /\ At(t, "get", "called") /\ Moves(t, "asked") /\ UNCHANGED <<held, got>>
          \/ /\ Unwraps(r) /\ At(t, "get", "asked") /\ Moves(t, "held") /\ UNCHANGED got
             /\ held' = [held EXCEPT ![t] = pool[k]]
          \/ IsMiss(r) /\ Leaves(t) /\ got' = [got EXCEPT ![t] = NoValue]
          \/ IsFailure(r) /\ Leaves(t) /\ Raises(t)
    BY <1>1 DEF GetAsks, GetWaits
  <2>3. IsMiss(r) => NoValue \in seen[t]
    BY <1>0, <2>1, <2>2 DEF IsMiss, Found, SeenInv, val
  <2> QED BY <2>1, <2>2, <2>3, GetGoesOnStep, GetHoldsStep, GetIsAnsweredStep, FluxonFailsStep
<1>2. CASE GetAccesses(t)
  <2>1. Reading(t) /\ held[t] \in seen[t]
    BY <1>0, <1>2 DEF GetAccesses, At, Reading, SeenInv
  <2> QED BY <1>2, <2>1, GetIsAnsweredStep DEF GetAccesses
<1>3. CASE FluxonRaises(t)
  BY <1>3, FluxonFailsStep DEF FluxonRaises, Inside, Mutating
<1> QED BY <1>1, <1>2, <1>3, PutAsksStep, PutDoneStep, RemoveAsksStep, RemoveDoneStep DEF FluxonStep

-----------------------------------------------------------------------------
(* The calls, and the specification.                                       *)

LEMMA CallsStep ==
  ASSUME IInv, NEW t \in Threads, UNCHANGED kvType, Calls(t), Watch
  PROVE  IInv' /\ Protocol!Next
<1>0. TypeInv /\ TriedInv /\ SeenInv /\ LockInv /\ call[t] = Idle
  BY DEF IInv, Calls
<1> USE <1>0
<1>1. PICK c \in Menu : /\ call' = [call EXCEPT ![t] = c]
                        /\ tried' = IF c.op = "put" THEN [tried EXCEPT ![c.key] = @ \cup {c.arg}] ELSE tried
  BY DEF Calls
<1>2. /\ c \in CallsType /\ c # Idle /\ c.at = "called" /\ c.key \in Keys /\ c.arg \in Content
      /\ c.op \in {"put", "get", "remove"}
      /\ (c.op = "put" => c.arg \in Values) /\ (c.op = "remove" => c.arg = NoValue)
  BY MenuAssumption, CallsAssumption DEF Requests, Request, CallsType, Content, Idle
<1>3. /\ call' \in [Threads -> CallsType \cup {Idle}] /\ call'[t] = c
      /\ \A u \in Threads \ {t} : call'[u] = call[u]
  BY <1>1, <1>2 DEF TypeInv
<1>4. /\ got' = [got EXCEPT ![t] = NoValue]
      /\ UNCHANGED <<kvType, index, disk, file, lock, pool, held>>
  BY DEF Calls, localVars, fluxonVars
<1>5. /\ tried' \in [Keys -> SUBSET Values]
      /\ \A k \in Keys : tried[k] \subseteq tried'[k]
      /\ c.op = "put" => c.arg \in tried'[c.key]
  BY <1>1, <1>2 DEF TypeInv
<1>6. val' \in [Keys -> Content] /\ val' = val
  BY <1>4 DEF TypeInv, val, Visible, Content
<1>7. Remembers
  BY <1>3, <1>6, WatchFacts
<1>8. TypeInv'
  BY <1>3, <1>4, <1>5, <1>7 DEF TypeInv, Remembers, Content
<1>9. TriedInv'
  <2>1. \A k \in Keys : file[k] \in tried'[k] \cup {NoValue} /\ pool[k] \in tried'[k] \cup {NoValue}
    BY <1>5 DEF TriedInv
  <2>2. \A u \in Threads : call[u] # Idle => call[u].key \in Keys
    BY CallFacts
  <2> QED BY <1>2, <1>3, <1>4, <1>5, <2>1, <2>2 DEF TriedInv, Mutates
<1>10. SeenInv'
  BY <1>2, <1>3, <1>4, <1>7 DEF SeenInv, Reading, Remembers
<1>11. LockInv'
  BY <1>2, <1>3, <1>4 DEF TypeInv, LockInv, Mutating, Mutates, Inside
<1>12. Protocol!Call(t)
  <2> DEFINE a == AbstractCall(c)
  <2>1. a = [op |-> c.op, key |-> c.key, arg |-> c.arg, busy |-> FALSE]
    BY <1>2 DEF AbstractCall
  <2>2. a \in Protocol!Calls /\ ~a.busy /\ a.op = c.op /\ a.key = c.key /\ a.arg = c.arg
    <3> HIDE DEF a
    <3> QED BY <1>2, <2>1 DEF Protocol!Calls, Protocol!Content, Content
  <2>3. Abs[t] = Protocol!Idle /\ Abs' = [Abs EXCEPT ![t] = a]
    <3>1. Abs'[t] = a /\ \A u \in Threads \ {t} : Abs'[u] = Abs[u]
      BY <1>3 DEF Abs, AbstractCall
    <3>2. Abs = [u \in Threads |-> Abs[u]] /\ Abs' = [u \in Threads |-> Abs'[u]]
      BY DEF Abs
    <3>3. Abs[t] = Protocol!Idle
      BY AbsFacts
    <3> HIDE DEF Abs, a
    <3> QED BY <3>1, <3>2, <3>3
  <2>4. firm' = firm
    BY <1>2, <1>3, <1>4 DEF firm, Visible, Durable, Mutates, Inside
  <2> HIDE DEF a
  <2> QED BY <1>1, <1>4, <1>6, <2>2, <2>3, <2>4 DEF Protocol!Call, Abs
<1> QED BY <1>7, <1>8, <1>9, <1>10, <1>11, <1>12 DEF IInv, Remembers, Protocol!Next, Protocol!Step

LEMMA InitInv == Init => IInv /\ Protocol!Init
<1> SUFFICES ASSUME Init PROVE IInv /\ Protocol!Init
  OBVIOUS
<1>1. TypeInv
  BY DEF Init, LocalInit, FluxonInit, TypeInv, Content
<1>2. TriedInv /\ SeenInv /\ LockInv
  BY DEF Init, LocalInit, FluxonInit, TriedInv, SeenInv, LockInv, Mutating, Mutates, Reading
<1>3. val = [k \in Keys |-> NoValue] /\ firm = Keys
  BY DEF Init, LocalInit, FluxonInit, val, firm, Visible, Durable, Mutates
<1>4. Abs = [t \in Threads |-> Protocol!Idle]
  BY DEF Init, Abs, AbstractCall, Idle, Protocol!Idle
<1> QED BY <1>1, <1>2, <1>3, <1>4 DEF Init, IInv, Protocol!Init, Abs

LEMMA StutterStep ==
  ASSUME IInv, UNCHANGED vars
  PROVE  IInv' /\ UNCHANGED Protocol!vars
<1>1. TypeInv' /\ TriedInv'
  BY DEF IInv, vars, localVars, fluxonVars, TypeInv, TriedInv, Mutates
<1>2. val' = val /\ firm' = firm /\ Abs' = Abs
  BY DEF vars, localVars, fluxonVars, val, firm, Visible, Durable, Mutates, Inside, Abs, AbstractCall
<1>3. SeenInv' /\ LockInv'
  BY <1>2 DEF IInv, vars, localVars, fluxonVars, SeenInv, Reading, LockInv, Mutating, Mutates, Inside
<1> QED BY <1>1, <1>2, <1>3 DEF IInv, vars, Protocol!vars, Abs

LEMMA NextInv == IInv /\ [Next]_vars => IInv' /\ [Protocol!Next]_(Protocol!vars)
<1> SUFFICES ASSUME IInv, [Next]_vars PROVE IInv' /\ [Protocol!Next]_(Protocol!vars)
  OBVIOUS
<1>1. CASE UNCHANGED vars
  BY <1>1, StutterStep
<1>2. ASSUME NEW t \in Threads, UNCHANGED kvType, Calls(t), Watch
      PROVE  IInv' /\ Protocol!Next
  BY <1>2, CallsStep
<1>3. ASSUME NEW t \in Threads, UNCHANGED kvType, Step(t), Watch
      PROVE  IInv' /\ Protocol!Next
  <2>1. CASE kvType = "local_file"
    BY <1>3, <2>1, PutEntersStep, PutWritesStep, PutSavesStep, GetMissesStep, GetLooksUpStep, GetReadsStep,
       RemovesNothingStep, RemoveEntersStep, RemoveUnlinksStep, RemoveSavesStep, DiskRaisesStep
       DEF Step, LocalStep
  <2>2. CASE kvType # "local_file"
    <3>1. kvType = "fluxon"
      BY <2>2 DEF IInv, TypeInv
    <3> QED BY <1>3, <3>1, FluxonStepStep DEF Step
  <2> QED BY <2>1, <2>2
<1>4. ASSUME UNCHANGED kvType, Restart, Watch
      PROVE  IInv' /\ Protocol!Next
  BY <1>4, LocalRestartStep, FluxonRestartStep DEF Restart, IInv, TypeInv
<1> QED BY <1>1, <1>2, <1>3, <1>4 DEF Next

LEMMA Invariance == Spec => []IInv
  BY InitInv, NextInv, PTL DEF Spec

(* Every variable keeps its type, and whoever holds the lock is inside a   *)
(* mutation.                                                               *)
THEOREM TypeCorrect == Spec => []TypeOK
<1>1. IInv => TypeOK
  <2> SUFFICES ASSUME IInv PROVE TypeOK
    OBVIOUS
  <2>1. \A t \in Threads : call[t] = Idle \/ (call[t].key \in Keys /\ call[t].arg \in Content)
    BY CallFacts DEF IInv
  <2> QED BY <2>1 DEF IInv, TypeInv, LockInv, Mutating, Content, TypeOK, LocalTypeOK, FluxonTypeOK
<1> QED BY <1>1, Invariance, PTL

(* Both stores implement the protocol, whatever the number of threads and  *)
(* keys: a put that returned stays, also over a restart, until the next    *)
(* mutation of its key, and a read answers what the key held meanwhile.    *)
THEOREM StoresRefine == Spec => ImplementsKVStore
  BY InitInv, NextInv, Invariance, PTL DEF Spec, ImplementsKVStore, Protocol!Spec
=============================================================================
