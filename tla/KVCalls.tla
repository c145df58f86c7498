------------------------------ MODULE KVCalls ------------------------------
(***************************************************************************)
(* The calls in progress on a KV store, whichever it is: a worker thread   *)
(* puts, gets or removes, and its call is at some step of the code.        *)
(***************************************************************************)
CONSTANTS Threads, Keys,
          Values,    \* the payloads
          Tensors,   \* those of them that are tensors (put_tensor, get_tensor)
          NoValue    \* a miss

ASSUME CallsAssumption == Tensors \subseteq Values /\ NoValue \notin Values

VARIABLES call,   \* call[t]: the request of thread t and the step it is at, or Idle
          tried,  \* tried[k]: the values of all puts of k, ended or not
          seen,   \* seen[t]: while t reads, what its key has held meanwhile
          got     \* got[t]: what t's last call answered, Raised if it raised

Raised == "raised"
Idle == [op |-> "none"]
Request(o, k, v) == [op |-> o, key |-> k, arg |-> v, at |-> "called"]

(* The argument of a get is a tensor when it is get_tensor.                *)
Requests == {Request("put", k, v) : k \in Keys, v \in Values}
            \cup {Request("get", k, v) : k \in Keys, v \in Tensors \cup {NoValue}}
            \cup {Request("remove", k, NoValue) : k \in Keys}

At(t, o, a) == call[t] # Idle /\ call[t].op = o /\ call[t].at = a
Moves(t, a) == call' = [call EXCEPT ![t].at = a]
Returns(t)  == call' = [call EXCEPT ![t] = Idle]
Raises(t)   == got' = [got EXCEPT ![t] = Raised]
Mutates(t)  == call[t] # Idle /\ call[t].op # "get"
Inside(t)   == call[t] # Idle /\ call[t].at # "called"
=============================================================================
