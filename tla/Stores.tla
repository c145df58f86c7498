------------------------------- MODULE Stores -------------------------------
(***************************************************************************)
(* The KV backend of a deployment: the store ConnectionManager builds for  *)
(* kv_type (connection.py, _create_kv_store), called from several worker   *)
(* threads.  Either one implements KVStore.                                *)
(***************************************************************************)
EXTENDS Naturals, FiniteSets, LocalFileKV, FluxonKV

CONSTANT Menu     \* the requests a run has its threads make
ASSUME MenuAssumption == Menu \subseteq Requests

VARIABLE kvType   \* "local_file" or "fluxon"

vars == <<kvType, localVars, fluxonVars, call, tried, seen, got>>

Init ==
  /\ kvType \in {"local_file", "fluxon"}
  /\ LocalInit /\ FluxonInit
  /\ call = [t \in Threads |-> Idle]
  /\ tried = [k \in Keys |-> {}]
  /\ seen = [t \in Threads |-> {}]
  /\ got = [t \in Threads |-> NoValue]

val == IF kvType = "local_file" THEN Visible ELSE pool

firm == {k \in Keys : /\ kvType = "local_file" => Visible[k] = Durable[k]
                      /\ \A t \in Threads : Mutates(t) /\ Inside(t) => call[t].key # k}

AbstractCall(c) ==
  IF c = Idle THEN c
  ELSE [op |-> c.op, key |-> c.key, arg |-> c.arg, busy |-> c.op # "get" /\ c.at # "called"]

(* History: the values a read has met since it was called.                 *)
Watch ==
  seen' = [t \in Threads |->
             IF call'[t] = Idle \/ call'[t].op # "get" THEN {}
             ELSE (IF call[t] = Idle THEN {} ELSE seen[t]) \cup {val'[call'[t].key]}]

Calls(t) ==
  /\ call[t] = Idle
  /\ \E c \in Menu :
       /\ call' = [call EXCEPT ![t] = c]
       /\ tried' = IF c.op = "put" THEN [tried EXCEPT ![c.key] = @ \cup {c.arg}] ELSE tried
  /\ got' = [got EXCEPT ![t] = NoValue]
  /\ UNCHANGED <<localVars, fluxonVars>>

Step(t) == IF kvType = "local_file" THEN LocalStep(t) /\ UNCHANGED fluxonVars
           ELSE FluxonStep(t) /\ UNCHANGED localVars

Restart == IF kvType = "local_file" THEN LocalRestart /\ UNCHANGED fluxonVars
           ELSE FluxonRestart /\ UNCHANGED localVars

Next ==
  /\ UNCHANGED kvType
  /\ \/ \E t \in Threads : Calls(t) \/ Step(t)
     \/ Restart
  /\ Watch

Spec == Init /\ [][Next]_vars

(* A thread that is inside a call runs; the lock, when it is free again    *)
(* and again, is won in the end.  Calls and crashes just happen.           *)
Fairness == \A t \in Threads : SF_vars(UNCHANGED kvType /\ Step(t) /\ Watch)
FairSpec == Spec /\ Fairness

-----------------------------------------------------------------------------
(* Every variable has its type.                                            *)
TypeOK ==
  /\ kvType \in {"local_file", "fluxon"}
  /\ LocalTypeOK /\ FluxonTypeOK
  /\ tried \in [Keys -> SUBSET Values]
  /\ seen \in [Threads -> SUBSET (Values \cup {NoValue})]
  /\ got \in [Threads -> Values \cup {NoValue, Raised}]
  /\ \A t \in Threads : call[t] = Idle \/ (/\ call[t].key \in Keys
                                           /\ call[t].arg \in Values \cup {NoValue})

Protocol == INSTANCE KVStore WITH call <- [t \in Threads |-> AbstractCall(call[t])]

(* Whatever kv_type the configuration names, callers get the protocol:     *)
(* what a put that returned has stored stays, also over a crash, until the *)
(* next mutation of the key; a read, although it reads outside the lock,   *)
(* returns what the key held at some moment of the read.                   *)
ImplementsKVStore == Protocol!Spec

(* A call returns or raises: no failure leaves the lock taken.             *)
CallReturns == \A t \in Threads : call[t] # Idle ~> call[t] = Idle
=============================================================================
