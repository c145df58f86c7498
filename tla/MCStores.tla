------------------------------ MODULE MCStores ------------------------------
EXTENDS Stores

CONSTANTS k1, k2, bytes, tensor

(* Everything happens to k1; k2 is put, so that the index is saved for the *)
(* sake of another key.                                                    *)
MCMenu == {r \in Requests : r.key = k1} \cup {Request("put", k2, bytes)}
=============================================================================
