----------------------------- MODULE QdrantStore -----------------------------
(***************************************************************************)
(* The Qdrant vector store, cacheseek/backends/vector/qdrant.py, as the    *)
(* threads of several processes call it.  A process has one store object;  *)
(* its client is built on first use, without a lock.  With a URL every     *)
(* client of every process reaches the same server; without one each       *)
(* client is an in-memory Qdrant of its own, which dies with it.           *)
(*                                                                         *)
(* A call is a sequence of steps: getting the client (_get_client reads    *)
(* self._client, and may then build one), then one step per round trip.    *)
(* Vectors are reduced to their dimension.  The id map is left out: *)
(* upsert writes cache_id into every payload, so search never needs it.    *)
(* An upsert finds the dimension cached: Strategy.save calls               *)
(* ensure_collection first and nothing in the program clears the cache.    *)
(***************************************************************************)
EXTENDS Naturals, FiniteSets

CONSTANTS Procs,        \* processes, each with one store object
          Threads,      \* threads that call the stores
          Home,         \* the process of each thread
          Colls,        \* collections on the server
          Ids,          \* cache ids, the points
          NoId,         \* no point
          MaxDim,       \* vectors have a dimension in 1..MaxDim
          MaxClients,   \* bound: clients built in one life of a process
          MaxFaults     \* bound: calls on the server that fail

ASSUME QdrantAssumption ==
    /\ NoId \notin Ids /\ "server" \notin Procs /\ "memory" \notin Colls
    /\ Home \in [Threads -> Procs]
    /\ MaxDim \in Nat /\ MaxClients \in Nat /\ MaxFaults \in Nat

VARIABLES
    db,       \* what the server and each in-memory client hold
    client,   \* self._client: the number of the client in use, 0 for None
    opened,   \* clients the process has built in this life
    closed,   \* clients close() has closed
    dim,      \* self._dims for the collection in use, 0 when absent
    call,     \* the store call each thread is in
    faults    \* failed calls so far

qvars == <<db, client, opened, closed, dim, call, faults>>

-----------------------------------------------------------------------------
(* Qdrant itself. *)

Place == ({"server"} \X Colls) \union (Procs \X (1..MaxClients))

NoCollection == [size |-> 0, points |-> {}]

Collection == [size : 0..MaxDim, points : SUBSET Ids]

Ops == {"search", "delete", "ensure", "probe", "upsert"}

\* A call: what it is, how far it got, the client it holds, its arguments
\* (target: the store's URL and collection) and, at the end, its outcome.
NoCall == [op |-> "none", at |-> "none", cli |-> 0, coll |-> "none",
           d |-> 0, id |-> NoId, out |-> "none"]

Idle(t) == call[t].at = "none"
Returned(t) == call[t].at = "back"
Raised(t) == Returned(t) /\ call[t].out = "raised"

\* Where client n of process p keeps collection c; c is "memory" for a store
\* that has no URL.
PlaceOf(p, n, c) == IF c = "memory" THEN <<p, n>> ELSE <<"server", c>>

OnServer(t) == call[t].coll # "memory"
At(t) == PlaceOf(Home[t], call[t].cli, call[t].coll)

\* A request on a client that was closed raises.
Unusable(t) == call[t].cli \in closed[Home[t]]

\* So does one the server does not answer.
MayFail(t) == Unusable(t) \/ (OnServer(t) /\ faults < MaxFaults)
Fault(t) == faults' = IF Unusable(t) THEN faults ELSE faults + 1

-----------------------------------------------------------------------------
(* One call. *)

Begin(t, op, c, d, id) ==
    /\ call' = [call EXCEPT ![t] = [op |-> op, at |-> "check", cli |-> 0,
                                    coll |-> c, d |-> d, id |-> id,
                                    out |-> "none"]]
    /\ UNCHANGED <<db, client, opened, closed, dim, faults>>

Move(t, at) == call' = [call EXCEPT ![t].at = at]

\* The caller takes the outcome.
Taken(t) ==
    /\ call' = [call EXCEPT ![t] = NoCall]
    /\ UNCHANGED <<db, client, opened, closed, dim, faults>>

Finish(t, out) == call' = [call EXCEPT ![t].at = "back", ![t].out = out]

\* The client is in hand: the first request on it follows.
Use(t, n) ==
    call' = [call EXCEPT ![t].at = IF call[t].op = "ensure" THEN "exists" ELSE "ask",
                         ![t].cli = n]

\* self._client is read; the second read, which returns it, can differ only
\* after a close or a replacement, which the request then meets all the same.
CheckClient(t) ==
    LET n == client[Home[t]] IN
    /\ call[t].at = "check"
    /\ IF n = 0 THEN Move(t, "build") ELSE Use(t, n)
    /\ UNCHANGED <<db, client, opened, closed, dim, faults>>

\* QdrantClient(...), assigned over whatever another thread put there.
BuildClient(t) ==
    LET p == Home[t] IN
    /\ call[t].at = "build"
    /\ opened[p] < MaxClients
    /\ opened' = [opened EXCEPT ![p] = @ + 1]
    /\ client' = [client EXCEPT ![p] = opened[p] + 1]
    /\ Use(t, opened[p] + 1)
    /\ UNCHANGED <<db, closed, dim, faults>>

\* The fast check of the vector's length against the cached dimension.
Mismatch(t) == dim[Home[t]] \notin {0, call[t].d}

\* The request fails: RuntimeError.
AskFails(t) ==
    /\ call[t].at \in {"ask", "exists", "create"} /\ call[t].op # "probe"
    /\ MayFail(t)
    /\ Fault(t)
    /\ Finish(t, "raised")
    /\ UNCHANGED <<db, client, opened, closed, dim>>

\* search: the nearest point, none under the threshold, and nothing when the
\* collection is missing; a vector the server cannot compare raises.
SearchAsk(t) ==
    LET here == db[At(t)] IN
    /\ call[t].at = "ask" /\ call[t].op = "search" /\ ~Unusable(t)
    /\ IF Mismatch(t) \/ here.size \notin {0, call[t].d}
         THEN Finish(t, "raised")
         ELSE \E found \in here.points \union {NoId} :
                call' = [call EXCEPT ![t].at = "back", ![t].out = "ok", ![t].id = found]
    /\ UNCHANGED <<db, client, opened, closed, dim, faults>>

\* delete: a missing collection or point is not an error.
DeleteAsk(t) ==
    /\ call[t].at = "ask" /\ call[t].op = "delete" /\ ~Unusable(t)
    /\ db' = [db EXCEPT ![At(t)].points = @ \ {call[t].id}]
    /\ Finish(t, "ok")
    /\ UNCHANGED <<client, opened, closed, dim, faults>>

\* ensure_collection: does it exist?
ExistsAsk(t) ==
    /\ call[t].at = "exists" /\ ~Unusable(t)
    /\ IF db[At(t)].size = 0
         THEN Move(t, "create")
         ELSE call' = [call EXCEPT ![t].op = "probe", ![t].at = "check"]
    /\ UNCHANGED <<db, client, opened, closed, dim, faults>>

\* It does: its dimension is asked for, on a client got anew, and the
\* caller's is believed when Qdrant does not say.
Probe(t) ==
    /\ call[t].at = "ask" /\ call[t].op = "probe"
    /\ \/ /\ ~Unusable(t)
          /\ dim' = [dim EXCEPT ![Home[t]] = db[At(t)].size]
          /\ UNCHANGED faults
       \/ /\ MayFail(t) \/ db[At(t)].size = 0
          /\ IF MayFail(t) THEN Fault(t) ELSE UNCHANGED faults
          /\ dim' = [dim EXCEPT ![Home[t]] = call[t].d]
    /\ Finish(t, "ok")
    /\ UNCHANGED <<db, client, opened, closed>>

\* Mutant: the dimension is cached before the server agrees.
CreateOptimistic(t) ==
    /\ call[t].at = "create" /\ ~Unusable(t)
    /\ dim' = [dim EXCEPT ![Home[t]] = call[t].d]
    /\ IF db[At(t)].size = 0
         THEN /\ db' = [db EXCEPT ![At(t)].size = call[t].d]
              /\ Finish(t, "ok")
         ELSE Finish(t, "raised") /\ UNCHANGED db
    /\ UNCHANGED <<client, opened, closed, faults>>

\* It does not: create it.  The server refuses the later of two creations.
Create(t) ==
    /\ call[t].at = "create" /\ ~Unusable(t)
    /\ IF db[At(t)].size = 0
         THEN /\ db' = [db EXCEPT ![At(t)].size = call[t].d]
              /\ dim' = [dim EXCEPT ![Home[t]] = call[t].d]
              /\ Finish(t, "ok")
         ELSE /\ Finish(t, "raised")
              /\ UNCHANGED <<db, dim>>
    /\ UNCHANGED <<client, opened, closed, faults>>

\* Mutant: the payload does not carry the cache id.
UpsertAnonymous(t) ==
    /\ call[t].at = "ask" /\ call[t].op = "upsert" /\ ~Unusable(t)
    /\ IF Mismatch(t) \/ db[At(t)].size # call[t].d
         THEN Finish(t, "raised") /\ UNCHANGED db
         ELSE /\ db' = [db EXCEPT ![At(t)].points = @ \union {NoId}]
              /\ Finish(t, "ok")
    /\ UNCHANGED <<client, opened, closed, dim, faults>>

\* upsert: the length is checked here and again by Qdrant, which also wants
\* the collection to be there.
UpsertAsk(t) ==
    /\ call[t].at = "ask" /\ call[t].op = "upsert" /\ ~Unusable(t)
    /\ IF Mismatch(t) \/ db[At(t)].size # call[t].d
         THEN Finish(t, "raised") /\ UNCHANGED db
         ELSE /\ db' = [db EXCEPT ![At(t)].points = @ \union {call[t].id}]
              /\ Finish(t, "ok")
    /\ UNCHANGED <<client, opened, closed, dim, faults>>

\* The server stored the point and the answer was lost: still a RuntimeError.
UpsertAnswerLost(t) ==
    /\ call[t].at = "ask" /\ call[t].op = "upsert" /\ ~Unusable(t)
    /\ OnServer(t) /\ faults < MaxFaults
    /\ ~Mismatch(t) /\ db[At(t)].size = call[t].d
    /\ db' = [db EXCEPT ![At(t)].points = @ \union {call[t].id}]
    /\ faults' = faults + 1
    /\ Finish(t, "raised")
    /\ UNCHANGED <<client, opened, closed, dim>>

StoreStep(t) ==
    \/ CheckClient(t) \/ BuildClient(t)
    \/ AskFails(t) \/ SearchAsk(t) \/ DeleteAsk(t)
    \/ ExistsAsk(t) \/ Probe(t) \/ Create(t)
    \/ UpsertAsk(t) \/ UpsertAnswerLost(t)

-----------------------------------------------------------------------------
\* close(): the client is closed and forgotten; a later call builds another.
Close(p) ==
    /\ closed' = [closed EXCEPT ![p] = IF client[p] = 0 THEN @ ELSE @ \union {client[p]}]
    /\ client' = [client EXCEPT ![p] = 0]
    /\ UNCHANGED <<db, opened, dim, call, faults>>

\* The process ends: its threads' calls, its store and its in-memory Qdrants.
StoreGone(p) ==
    /\ db' = [pl \in Place |-> IF pl[1] = p THEN NoCollection ELSE db[pl]]
    /\ client' = [client EXCEPT ![p] = 0]
    /\ opened' = [opened EXCEPT ![p] = 0]
    /\ closed' = [closed EXCEPT ![p] = {}]
    /\ dim' = [dim EXCEPT ![p] = 0]
    /\ call' = [t \in Threads |-> IF Home[t] = p THEN NoCall ELSE call[t]]
    /\ UNCHANGED faults

StoreInit ==
    /\ db = [pl \in Place |-> NoCollection]
    /\ client = [p \in Procs |-> 0]
    /\ opened = [p \in Procs |-> 0]
    /\ closed = [p \in Procs |-> {}]
    /\ dim = [p \in Procs |-> 0]
    /\ call = [t \in Threads |-> NoCall]
    /\ faults = 0

StoreTypeOK ==
    /\ db \in [Place -> Collection]
    /\ client \in [Procs -> 0..MaxClients]
    /\ opened \in [Procs -> 0..MaxClients]
    /\ closed \in [Procs -> SUBSET (1..MaxClients)]
    /\ dim \in [Procs -> 0..MaxDim]
    /\ \A t \in Threads :
         /\ call[t].op \in Ops \union {"none"}
         /\ call[t].at \in {"none", "check", "build", "ask", "exists",
                            "create", "back"}
         /\ call[t].cli \in 0..MaxClients
         /\ call[t].id \in Ids \union {NoId}
    /\ faults \in 0..MaxFaults
=============================================================================
