---------------------------- MODULE VectorStore ----------------------------
(***************************************************************************)
(* What a caller may rely on of one collection of a vector store that is   *)
(* kept in files (service/interfaces/vector_store.py and the promises of   *)
(* backends/vector/faiss.py), with failing saves and restarts.  A call     *)
(* changes what is found of its own points and of no others, at once.      *)
(* Its save then makes the collection safe: a restart brings a safe point  *)
(* back as it was, found or not found.  A call puts its own points at risk *)
(* until a save returns, its own or a later one; the others stay as safe   *)
(* as they were.                                                           *)
(***************************************************************************)
CONSTANT Points

VARIABLES found,   \* the points a search can return with their own vectors
          safe,    \* the points a restart now would leave as they are
          saving,  \* a call has changed the collection and saves it
          sound    \* files that are there can be read

vars == <<found, safe, saving, sound>>

Init ==
  /\ found = {} /\ safe = Points
  /\ ~saving
  /\ sound \in BOOLEAN

(* A call puts the points P at risk, and no others.                        *)
Risks(P) == safe \ P \subseteq safe' /\ safe' \subseteq Points

Begin(P) ==
  /\ ~saving /\ saving'
  /\ Risks(P)

Ensure == Begin({}) /\ found' = found

Upsert(p) == Begin({p}) /\ found' = found \cup {p}

Delete(P) == Begin(P) /\ found' = found \ P

(* A part of the save reaches the disk.                                    *)
Write ==
  /\ saving /\ saving'
  /\ found' = found
  /\ Risks({})

(* The call returns: everything is safe, also what failed calls left.      *)
Return ==
  /\ saving /\ ~saving'
  /\ found' = found
  /\ safe' = Points

(* The call raises.  Its change stays visible.                             *)
Raise ==
  /\ saving /\ ~saving'
  /\ found' = found
  /\ Risks({})

(* The process ends, at any moment, and another opens the collection.      *)
Restart ==
  /\ ~saving'
  /\ found' \subseteq Points
  /\ \A p \in safe : p \in found' <=> p \in found
  /\ safe' = Points

Step ==
  \/ Ensure
  \/ \E p \in Points : Upsert(p)
  \/ \E P \in SUBSET Points : Delete(P)
  \/ Write \/ Return \/ Raise \/ Restart

(* Nothing is promised of files that cannot be read.                       *)
Next == sound' = sound /\ (sound => Step)

Spec == Init /\ [][Next]_vars
=============================================================================
