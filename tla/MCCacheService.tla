--------------------------- MODULE MCCacheService ---------------------------
(* Instances of CacheService for TLC: which constructor arguments a run    *)
(* ranges over, and the symmetry of save slots and lookup callers.         *)
EXTENDS CacheService, TLC

Config(m, p, a, f, t, y, l) ==
  [mode |-> m, onFull |-> p, async |-> a, flush |-> f, timed |-> t, yields |-> y, late |-> l]

(* Every policy with a worker, every interleaving: callers go on saving    *)
(* after shutdown(), coroutines suspend, lookups time out.                 *)
AsyncConfigs ==
  {Config("read_write", p, TRUE, f, TRUE, TRUE, TRUE) :
     p \in {"drop", "downgrade", "block", "sync", "unheard-of"}, f \in BOOLEAN}

(* The inline service and the three cache modes.                           *)
ModeConfigs ==
  {Config(m, "drop", FALSE, TRUE, TRUE, TRUE, TRUE) :
     m \in {"read_write", "write_only", "read_only", "unheard-of"}}
  \cup {Config(m, "sync", TRUE, TRUE, TRUE, FALSE, TRUE) : m \in {"write_only", "read_only"}}

SafetyConfigs == AsyncConfigs \cup ModeConfigs

(* For liveness: the policies, no flush once, late callers once.           *)
LiveConfigs ==
  {Config("read_write", p, TRUE, TRUE, TRUE, FALSE, FALSE) : p \in {"drop", "sync", "block"}}
  \cup {Config("read_write", "drop", TRUE, FALSE, TRUE, FALSE, FALSE),
        Config("read_write", "drop", TRUE, TRUE, TRUE, FALSE, TRUE)}

Symmetry == Permutations(Saves) \cup Permutations(Lookups)
=============================================================================
