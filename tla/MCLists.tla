------------------------------- MODULE MCLists -------------------------------
(* An instance of GenericList for TLC: two lists whose caches hold one node,  *)
(* and four nodes, so that a list is filled, emptied and copied into another. *)
EXTENDS GenericList

=============================================================================
