------------------------------ MODULE MCKGSync ------------------------------
(***************************************************************************)
(* Two files: f1 has a registered URN, the URN of f2 follows its bytes.    *)
(* Contents, profiles and stamps are only ever compared with each other.   *)
(***************************************************************************)
EXTENDS KGSync, TLC

Symmetry == Permutations(Contents) \union Permutations(Profiles) \union Permutations(Stamps)
=============================================================================
