--------------------------- MODULE MCTrackerPeers ---------------------------
(***************************************************************************)
(* TrackerPeers with the values of its configurations.                     *)
(***************************************************************************)
EXTENDS TrackerPeers, TLC

\* Threads are alike, and so are the objects of a class.
Symmetry == Permutations(Handler) \cup Permutations(Info) \cup Permutations(Obj)
=============================================================================
