----------------------------- MODULE MCEventLog -----------------------------
(***************************************************************************)
(* Two writers and one reader, two objects and two payloads: enough for an *)
(* event to have a predecessor about its own object that is not the last   *)
(* line, and for two sessions to interleave.                               *)
(***************************************************************************)
EXTENDS EventLog, TLC

Symmetry == Permutations(Objects) \union Permutations(Payloads)
=============================================================================
