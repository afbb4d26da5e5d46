---------------------------- MODULE MCAgentTasks ----------------------------
(***************************************************************************)
(* Values for the constants of AgentTasks: two infohashes and two paths,   *)
(* with requests that collide in the infohash, in the path, or in both.    *)
(***************************************************************************)
EXTENDS AgentTasks, TLC

CONSTANTS h1, h2, p1, p2

Ask(h, p, ty, s) == [infohash |-> h, data_path |-> p, type |-> ty, seeding_time |-> s]

Colliding == {Ask(h1, p1, "SEEDING_TASK", "finite"),
              Ask(h2, p1, "SEEDING_TASK", "infinite")}

\* One short seeding task, asked for again and again.
Repeated == {Ask(h1, p1, "SEEDING_TASK", "finite")}

\* The workers are interchangeable, in every safety property.
Workers == Permutations(Worker)
=============================================================================
