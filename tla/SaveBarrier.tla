----------------------------- MODULE SaveBarrier -----------------------------
(***************************************************************************)
(* What the vector-update barrier of CacheService promises, with a set of  *)
(* outstanding saves instead of a counter, an event and a lock: a reader   *)
(* is admitted at an instant at which no save is outstanding, or else it   *)
(* is told that it gave up waiting.                                        *)
(***************************************************************************)
CONSTANTS Saves, Readers

VARIABLES outstanding,  \* saves accepted and not yet settled
          reader        \* reader[l]: "out", "waiting", "admitted" or "gaveUp"

barrierVars == <<outstanding, reader>>

Init == /\ outstanding = {}
        /\ reader = [l \in Readers |-> "out"]

Accept(s) == /\ s \notin outstanding
             /\ outstanding' = outstanding \cup {s}
             /\ UNCHANGED reader

(* A save settles once: it must be outstanding.                            *)
Settle(s) == /\ s \in outstanding
             /\ outstanding' = outstanding \ {s}
             /\ UNCHANGED reader

Move(l, from, to) == /\ reader[l] = from
                     /\ reader' = [reader EXCEPT ![l] = to]
                     /\ UNCHANGED outstanding

Arrive(l) == outstanding # {} /\ Move(l, "out", "waiting")
Enter(l)  == outstanding = {} /\ (Move(l, "out", "admitted") \/ Move(l, "waiting", "admitted"))
GiveUp(l) == outstanding # {} /\ Move(l, "waiting", "gaveUp")
Leave(l)  == Move(l, "admitted", "out") \/ Move(l, "gaveUp", "out")

Next == \/ \E s \in Saves : Accept(s) \/ Settle(s)
        \/ \E l \in Readers : Arrive(l) \/ Enter(l) \/ GiveUp(l) \/ Leave(l)

Spec == Init /\ [][Next]_barrierVars
=============================================================================
