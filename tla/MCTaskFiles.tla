---------------------------- MODULE MCTaskFiles ----------------------------
(***************************************************************************)
(* A small instance of TaskFiles for TLC.  Processes and WPs are all alike *)
(* and every property is a safety property: symmetry is sound.             *)
(***************************************************************************)
EXTENDS TaskFiles, TLC

Symmetry == Permutations(Procs) \cup Permutations(WPs)
=============================================================================
