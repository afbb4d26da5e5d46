-------------------------- MODULE MCClusterDownload --------------------------
(***************************************************************************)
(* ClusterDownload with the values of its configurations.  The temporal    *)
(* properties speak of single threads, so there is no symmetry.            *)
(***************************************************************************)
EXTENDS ClusterDownload
=============================================================================
