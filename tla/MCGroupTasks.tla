---------------------------- MODULE MCGroupTasks ----------------------------
(***************************************************************************)
(* Values for the constants of GroupTasks: one infohash, for which all     *)
(* requests collide, and a request with both timers.                       *)
(***************************************************************************)
EXTENDS GroupTasks

CONSTANT h1

Timed == {[infohash |-> h1, seeding_time |-> "finite", timeout |-> TRUE]}
=============================================================================
