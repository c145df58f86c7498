---------------------------- MODULE MCDeployment ----------------------------
(***************************************************************************)
(* Two processes on one host.  The first is launched with preset A or      *)
(* started with a file of its own: M has no Qdrant URL, N no encoder and   *)
(* no key_steps.  The second is launched with preset A2, whose embedding   *)
(* model has another dimension and which writes to A's collection, but     *)
(* keeps its latents in a directory of its own.                            *)
(***************************************************************************)
EXTENDS Deployment, TLC

CONSTANTS p1, p2, t1, t2, t3

MCProcs == {p1, p2}
MCThreads == {t1, t2, t3}
MCHome == (t1 :> p1) @@ (t2 :> p1) @@ (t3 :> p2)

Set(url, coll, d, dir, steps, encoder, vector) ==
    [url |-> url, collection |-> coll, dim |-> d, dir |-> dir, steps |-> steps,
     encoder |-> encoder, vector |-> vector]

MCConfig ==
    [A  |-> Set(TRUE, "a", 1, "x", {3}, TRUE, "qdrant"),
     A2 |-> Set(TRUE, "a", 2, "y", {3}, TRUE, "qdrant"),
     M  |-> Set(FALSE, "a", 1, "x", {}, TRUE, "qdrant"),
     N  |-> Set(TRUE, "a", 1, "x", {}, FALSE, "qdrant"),
     F  |-> Set(TRUE, "a", 1, "z", {3}, TRUE, "faiss")]

MCPresets == (p1 :> {"A"}) @@ (p2 :> {"A2"})
MCOwnFiles == (p1 :> {"M", "N"}) @@ (p2 :> {})

ASSUME MCApart == Apart

Alike == {f @@ g : f \in Permutations(Ids), g \in Permutations({t1, t2})}
=============================================================================
