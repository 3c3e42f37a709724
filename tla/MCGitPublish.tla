---------------------------- MODULE MCGitPublish ----------------------------
(***************************************************************************)
(* Model-checking instance of GitPublish: its tasks can be exchanged.      *)
(***************************************************************************)
EXTENDS GitPublish, TLC

TaskSymmetry == Permutations(Tasks)
=============================================================================
