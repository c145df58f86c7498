----------------------------- MODULE FluxonKV ------------------------------
(***************************************************************************)
(* The adapter of the Fluxon shared-memory pool (stores/fluxon.py).  Every *)
(* call asks the pool, waits for its future, and consumes the Result of    *)
(* each: a value, a KeyNotFound error, another error, or no Result at all. *)
(* The pool is another process: it outlives this one, and an operation it  *)
(* reports as failed it may have carried out.                              *)
(***************************************************************************)
EXTENDS KVCalls

VARIABLES pool,   \* pool[k]: what the pool holds
          held    \* held[t]: the value of the memory holder that t has been given

fluxonVars == <<pool, held>>

Results == {"ok", "notFound", "error", "none"}

(* _unwrap_result_ok returns something only of a successful Result; what   *)
(* else there was goes to _unwrap_result_err, and an error that is not     *)
(* KeyNotFound is raised.                                                  *)
Unwraps(r)    == r = "ok"
IsMiss(r)     == r = "notFound"
IsFailure(r)  == ~Unwraps(r) /\ ~IsMiss(r)

FluxonInit == pool = [k \in Keys |-> NoValue] /\ held = [t \in Threads |-> NoValue]

Leaves(t) == Returns(t) /\ held' = [held EXCEPT ![t] = NoValue]

(* What the pool answers about a key.                                      *)
Found(k) == IF pool[k] = NoValue THEN {"notFound", "error", "none"} ELSE {"ok", "error", "none"}

-----------------------------------------------------------------------------
(* put and put_tensor.                                                     *)
PutAsks(t) ==
  /\ At(t, "put", "called")
  /\ Moves(t, "asked")
  /\ UNCHANGED <<fluxonVars, tried, got>>

(* Mutant: the outcome of the future is not looked at.                     *)
PutUnchecked(t) ==
  /\ At(t, "put", "asked")
  /\ Leaves(t)
  /\ \E r \in Results :
       pool' = IF Unwraps(r) THEN [pool EXCEPT ![call[t].key] = call[t].arg] ELSE pool
  /\ UNCHANGED <<tried, got>>

PutDone(t) ==
  /\ At(t, "put", "asked")
  /\ pool' = [pool EXCEPT ![call[t].key] = call[t].arg]
  /\ Leaves(t)
  /\ UNCHANGED <<tried, got>>

-----------------------------------------------------------------------------
(* get and get_tensor.  The first Result may miss; so may the future's,    *)
(* when the key is removed meanwhile.                                      *)
GetAsks(t) ==
  /\ At(t, "get", "called")
  /\ \E r \in Found(call[t].key) :
       \/ Unwraps(r) /\ Moves(t, "asked") /\ UNCHANGED <<held, got>>
       \/ IsMiss(r) /\ Leaves(t) /\ got' = [got EXCEPT ![t] = NoValue]
       \/ IsFailure(r) /\ Leaves(t) /\ Raises(t)
  /\ UNCHANGED <<pool, tried>>

GetWaits(t) ==
  /\ At(t, "get", "asked")
  /\ \E r \in Found(call[t].key) :
       \/ /\ Unwraps(r) /\ Moves(t, "held") /\ UNCHANGED got
          /\ held' = [held EXCEPT ![t] = pool[call[t].key]]
       \/ IsMiss(r) /\ Leaves(t) /\ got' = [got EXCEPT ![t] = NoValue]
       \/ IsFailure(r) /\ Leaves(t) /\ Raises(t)
  /\ UNCHANGED <<pool, tried>>

(* access() gives the payload: get takes bytes only, and raises a          *)
(* TypeError, as RuntimeError, on a tensor; get_tensor takes both.         *)
GetAccesses(t) ==
  /\ At(t, "get", "held")
  /\ held[t] \notin Tensors \/ call[t].arg \in Tensors
  /\ got' = [got EXCEPT ![t] = held[t]]
  /\ Leaves(t)
  /\ UNCHANGED <<pool, tried>>

-----------------------------------------------------------------------------
RemoveAsks(t) ==
  /\ At(t, "remove", "called")
  /\ Moves(t, "asked")
  /\ UNCHANGED <<fluxonVars, tried, got>>

RemoveDone(t) ==
  /\ At(t, "remove", "asked")
  /\ pool' = [pool EXCEPT ![call[t].key] = NoValue]
  /\ Leaves(t)
  /\ UNCHANGED <<tried, got>>

-----------------------------------------------------------------------------
(* A Result is an error, missing, or of another shape; everything is       *)
(* raised as RuntimeError.  The pool may have done what it was asked.      *)
FluxonRaises(t) ==
  /\ Inside(t)
  /\ \/ UNCHANGED pool
     \/ Mutates(t) /\ pool' = [pool EXCEPT ![call[t].key] = call[t].arg]
  /\ Leaves(t) /\ Raises(t)
  /\ UNCHANGED tried

(* This process restarts; what it had asked for may still be carried out.  *)
FluxonRestart ==
  /\ call' = [t \in Threads |-> Idle]
  /\ held' = [t \in Threads |-> NoValue]
  /\ \/ UNCHANGED pool
     \/ \E t \in Threads : /\ At(t, "put", "asked") \/ At(t, "remove", "asked")
                           /\ pool' = [pool EXCEPT ![call[t].key] = call[t].arg]
  /\ UNCHANGED <<tried, got>>

FluxonStep(t) ==
  \/ PutAsks(t) \/ PutDone(t)
  \/ GetAsks(t) \/ GetWaits(t) \/ GetAccesses(t)
  \/ RemoveAsks(t) \/ RemoveDone(t)
  \/ FluxonRaises(t)

FluxonTypeOK ==
  /\ pool \in [Keys -> Values \cup {NoValue}]
  /\ held \in [Threads -> Values \cup {NoValue}]
=============================================================================
