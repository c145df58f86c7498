---------------------------- MODULE LocalFileKV ----------------------------
(***************************************************************************)
(* The file-per-key store (stores/local_file.py).  put and remove hold the *)
(* lock from the in-memory index to the saved index file; get looks the    *)
(* key up under the lock and reads its file without it.  Each step on the  *)
(* disk is atomic (os.replace, unlink), may raise, and may be the last of  *)
(* the process.  The name of a key's file depends on the key alone.        *)
(***************************************************************************)
EXTENDS KVCalls

VARIABLES index,  \* the keys in the in-memory index
          disk,   \* the keys in kv_index.json
          file,   \* file[k]: the content of k's file, NoValue if there is none
          lock    \* the thread that holds the lock, or NoThread

NoThread == "none"
ASSUME ThreadsAssumption == NoThread \notin Threads

localVars == <<index, disk, file, lock>>

(* What a reader that comes now gets, and what one would get after a crash.*)
Visible == [k \in Keys |-> IF k \in index THEN file[k] ELSE NoValue]
Durable == [k \in Keys |-> IF k \in disk THEN file[k] ELSE NoValue]

LocalInit == index = {} /\ disk = {} /\ file = [k \in Keys |-> NoValue] /\ lock = NoThread

Acquires(t) == lock = NoThread /\ lock' = t
Releases    == lock' = NoThread

-----------------------------------------------------------------------------
(* put: the index entry first, then the file, then the saved index.        *)
PutEnters(t) ==
  /\ At(t, "put", "called") /\ Acquires(t)
  /\ index' = index \cup {call[t].key}
  /\ Moves(t, "entered")
  /\ UNCHANGED <<disk, file, tried, got>>

PutWrites(t) ==
  /\ At(t, "put", "entered")
  /\ file' = [file EXCEPT ![call[t].key] = call[t].arg]
  /\ Moves(t, "filed")
  /\ UNCHANGED <<index, disk, lock, tried, got>>

(* Mutant: the index is saved once, when the store is closed.              *)
PutUnsaved(t) ==
  /\ At(t, "put", "filed")
  /\ Releases /\ Returns(t)
  /\ UNCHANGED <<index, disk, file, tried, got>>

PutSaves(t) ==
  /\ At(t, "put", "filed")
  /\ disk' = index
  /\ Releases /\ Returns(t)
  /\ UNCHANGED <<index, file, tried, got>>

-----------------------------------------------------------------------------
GetMisses(t) ==
  /\ At(t, "get", "called") /\ lock = NoThread
  /\ call[t].key \notin index
  /\ got' = [got EXCEPT ![t] = NoValue]
  /\ Returns(t)
  /\ UNCHANGED <<localVars, tried>>

GetLooksUp(t) ==
  /\ At(t, "get", "called") /\ lock = NoThread
  /\ call[t].key \in index
  /\ Moves(t, "found")
  /\ UNCHANGED <<localVars, tried, got>>

(* Outside the lock; a file that is gone by now is a miss.                 *)
GetReads(t) ==
  /\ At(t, "get", "found")
  /\ got' = [got EXCEPT ![t] = file[call[t].key]]
  /\ Returns(t)
  /\ UNCHANGED <<localVars, tried>>

-----------------------------------------------------------------------------
(* remove: out of the index, then the file, then the saved index.          *)
RemovesNothing(t) ==
  /\ At(t, "remove", "called") /\ lock = NoThread
  /\ call[t].key \notin index
  /\ Returns(t)
  /\ UNCHANGED <<localVars, tried, got>>

RemoveEnters(t) ==
  /\ At(t, "remove", "called") /\ Acquires(t)
  /\ call[t].key \in index
  /\ index' = index \ {call[t].key}
  /\ Moves(t, "entered")
  /\ UNCHANGED <<disk, file, tried, got>>

RemoveUnlinks(t) ==
  /\ At(t, "remove", "entered")
  /\ file' = [file EXCEPT ![call[t].key] = NoValue]
  /\ Moves(t, "filed")
  /\ UNCHANGED <<index, disk, lock, tried, got>>

RemoveSaves(t) ==
  /\ At(t, "remove", "filed")
  /\ disk' = index
  /\ Releases /\ Returns(t)
  /\ UNCHANGED <<index, file, tried, got>>

-----------------------------------------------------------------------------
(* Mutant: an exception leaves the lock taken.                             *)
DiskRaisesLocked(t) ==
  /\ Inside(t)
  /\ Returns(t) /\ Raises(t)
  /\ UNCHANGED <<localVars, tried>>

(* A step on the disk raises instead; the with statement lets go.          *)
DiskRaises(t) ==
  /\ Inside(t)
  /\ lock' = IF lock = t THEN NoThread ELSE lock
  /\ Returns(t) /\ Raises(t)
  /\ UNCHANGED <<index, disk, file, tried>>

(* The process ends at any point; the next one loads the index file.       *)
LocalRestart ==
  /\ index' = disk
  /\ lock' = NoThread
  /\ call' = [t \in Threads |-> Idle]
  /\ UNCHANGED <<disk, file, tried, got>>

LocalStep(t) ==
  \/ PutEnters(t) \/ PutWrites(t) \/ PutSaves(t)
  \/ GetMisses(t) \/ GetLooksUp(t) \/ GetReads(t)
  \/ RemovesNothing(t) \/ RemoveEnters(t) \/ RemoveUnlinks(t) \/ RemoveSaves(t)
  \/ DiskRaises(t)

LocalTypeOK ==
  /\ index \subseteq Keys /\ disk \subseteq Keys
  /\ file \in [Keys -> Values \cup {NoValue}]
  /\ lock = NoThread \/ (lock \in Threads /\ Mutates(lock) /\ Inside(lock))
=============================================================================
