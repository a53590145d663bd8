----------------------------- MODULE MCErasure ------------------------------
(***************************************************************************)
(* One source with a claim and a transaction of two nodes, and a concept.  *)
(***************************************************************************)
EXTENDS Erasure, TLC

MCOwner == [n \in Claims \union Concepts \union Sinks |->
               IF n \in Concepts THEN NoSource ELSE CHOOSE u \in Sources : TRUE]

Symmetry == Permutations(Erasers) \union Permutations(Sinks)
=============================================================================
