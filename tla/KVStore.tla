------------------------------ MODULE KVStore ------------------------------
(***************************************************************************)
(* What a caller of the KVStore protocol (stores/base.py) may rely on,     *)
(* with failing calls and restarts.  A key is firm from the end of one     *)
(* mutation to the beginning of the next: it then holds what the mutation  *)
(* left, also across a restart.  While a mutation is under way, and after  *)
(* one that raised, the key may hold anything that was ever put there.     *)
(***************************************************************************)
CONSTANTS Threads, Keys,
          Values,   \* what is put: a payload of bytes, or a tensor
          NoValue   \* a miss

VARIABLES val,    \* val[k]: what a reader that comes now gets
          firm,   \* the keys that hold what their last mutation left
          tried,  \* tried[k]: the values of all puts of k, ended or not
          call,   \* call[t]: what thread t is doing
          seen,   \* seen[t]: while t reads, what its key has held meanwhile
          got     \* got[t]: what t's last call answered, Raised if it raised

vars == <<val, firm, tried, call, seen, got>>

Content == Values \cup {NoValue}
Raised == "raised"
Idle == [op |-> "none"]
Calls == [op : {"put", "get", "remove"}, key : Keys, arg : Content, busy : BOOLEAN]
Busy(t) == call[t] # Idle /\ call[t].busy

TypeOK ==
  /\ val \in [Keys -> Content] /\ firm \subseteq Keys
  /\ tried \in [Keys -> SUBSET Values]
  /\ call \in [Threads -> Calls \cup {Idle}]
  /\ seen \in [Threads -> SUBSET Content]
  /\ got \in [Threads -> Content \cup {Raised}]

Init ==
  /\ val = [k \in Keys |-> NoValue] /\ firm = Keys
  /\ tried = [k \in Keys |-> {}]
  /\ call = [t \in Threads |-> Idle]
  /\ seen = [t \in Threads |-> {}]
  /\ got = [t \in Threads |-> NoValue]

(* Only a key that is not firm changes without its mutation's success.     *)
MayChange(K) == \A k \in Keys : val'[k] # val[k] => k \in K /\ val'[k] \in tried[k] \cup {NoValue}
StaysFirm(K) == K \subseteq firm'

(* A read remembers what its key held from its beginning.                  *)
Watch ==
  seen' = [t \in Threads |->
             IF call'[t].op # "get" THEN {}
             ELSE (IF call[t].op = "get" THEN seen[t] ELSE {}) \cup {val'[call'[t].key]}]

Ends(t) == call[t] # Idle /\ call' = [call EXCEPT ![t] = Idle]

Call(t) ==
  /\ call[t] = Idle
  /\ \E c \in Calls :
       /\ ~c.busy
       /\ call' = [call EXCEPT ![t] = c]
       /\ tried' = IF c.op = "put" THEN [tried EXCEPT ![c.key] = @ \cup {c.arg}] ELSE tried
  /\ got' = [got EXCEPT ![t] = NoValue]
  /\ UNCHANGED <<val, firm>>

(* The mutation begins: its key is firm no longer.                         *)
Begin(t) ==
  /\ call[t].op \in {"put", "remove"} /\ ~call[t].busy
  /\ call' = [call EXCEPT ![t].busy = TRUE]
  /\ call[t].key \notin firm'
  /\ MayChange((Keys \ firm) \cup {call[t].key}) /\ StaysFirm(firm \ {call[t].key})
  /\ UNCHANGED <<tried, got>>

Waver ==
  /\ MayChange(Keys \ firm) /\ StaysFirm(firm)
  /\ UNCHANGED <<tried, call, got>>

(* The call returns: what it put is there to stay, unless another mutation *)
(* of the key is already under way.                                        *)
Commit(t) ==
  LET k == call[t].key IN
  /\ Busy(t)
  /\ val'[k] = call[t].arg
  /\ k \in firm' \/ \E u \in Threads \ {t} : Busy(u) /\ call[u].key = k
  /\ \A j \in Keys \ {k} : val'[j] # val[j] => j \notin firm /\ val'[j] \in tried[j] \cup {NoValue}
  /\ StaysFirm(firm) /\ Ends(t)
  /\ UNCHANGED <<tried, got>>

(* Removing an absent key does nothing, also when it is not firm.          *)
NothingToRemove(t) ==
  /\ call[t].op = "remove" /\ ~call[t].busy
  /\ val[call[t].key] = NoValue
  /\ Ends(t)
  /\ UNCHANGED <<val, firm, tried, got>>

Answer(t) ==
  /\ call[t].op = "get"
  /\ \E r \in seen[t] : got' = [got EXCEPT ![t] = r]
  /\ Ends(t)
  /\ UNCHANGED <<val, firm, tried>>

Raise(t) ==
  /\ MayChange(Keys \ firm) /\ StaysFirm(firm) /\ Ends(t)
  /\ got' = [got EXCEPT ![t] = Raised]
  /\ UNCHANGED tried

Restart ==
  /\ call' = [t \in Threads |-> Idle]
  /\ MayChange(Keys \ firm) /\ StaysFirm(firm)
  /\ UNCHANGED <<tried, got>>

Step ==
  \/ \E t \in Threads : \/ Call(t) \/ Begin(t) \/ Commit(t) \/ NothingToRemove(t)
                        \/ Answer(t) \/ Raise(t)
  \/ Waver \/ Restart

Next == Step /\ Watch

Spec == Init /\ [][Next]_vars
=============================================================================
