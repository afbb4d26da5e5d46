--------------------------- MODULE MCGroupCluster ---------------------------
(***************************************************************************)
(* Three downloads that each want more threads than the budget allows.     *)
(***************************************************************************)
EXTENDS GroupCluster, TLC

Tasks == Permutations(Task)
=============================================================================
