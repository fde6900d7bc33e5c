--------------------------- MODULE MCFeatureMerge ---------------------------
(***************************************************************************)
(* A small instance of FeatureMerge for TLC: a merge that pushes and cleans *)
(* up, and a squash that keeps the worktree and cannot delete the branch.  *)
(* Features and pieces of work are all alike and every property is a       *)
(* safety property: symmetry is sound.                                     *)
(***************************************************************************)
EXTENDS FeatureMerge, TLC

MergeAndCleanUp ==
  [strategy |-> "merge", push |-> TRUE, remove_worktree |-> TRUE, delete_branch |-> TRUE]
SquashLocally ==
  [strategy |-> "squash", push |-> FALSE, remove_worktree |-> TRUE, delete_branch |-> TRUE]
KeepWorktree == [MergeAndCleanUp EXCEPT !.remove_worktree = FALSE]
KeepBranch == [SquashLocally EXCEPT !.delete_branch = FALSE]

CommandLinesTried == {MergeAndCleanUp, SquashLocally, KeepWorktree, KeepBranch}

Symmetry == Permutations(Features) \cup Permutations(Work)
=============================================================================
