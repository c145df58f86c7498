-------------------------- MODULE MCLocalMetadata --------------------------
EXTENDS LocalMetadata

(* Two entries of one prompt, in two buckets, and entries of unlike size.  *)
MCEntry == [c \in Ids |->
  CASE c = "a" -> [type |-> "approximate", prompt |-> "p", size |-> 1]
    [] c = "b" -> [type |-> "other", prompt |-> "p", size |-> 2]
    [] c = "c" -> [type |-> "approximate", prompt |-> "q", size |-> 1]]
=============================================================================
