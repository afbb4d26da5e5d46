---------------------------- MODULE AgentRegistry ----------------------------
(***************************************************************************)
(* What bbts-agent promises of the tasks it was given, whatever its        *)
(* threads, locks and files do: the life of a task, over restarts of the   *)
(* process.  AgentTasks implements it (AgentTasks!Registry).               *)
(***************************************************************************)
CONSTANTS
  Task,      \* the tasks there may be
  Infohash,  \* infohashes
  None       \* no infohash

VARIABLES
  up,        \* there is a process
  status,    \* where each task is in its life, see Statuses
  infohash   \* the infohash of a task that was asked for

vars == <<up, status, infohash>>

(***************************************************************************)
(* "creating" is not yet acknowledged; "running" is; "ending" has left the *)
(* agent, and its traces on disk are being removed; "parking" is being     *)
(* saved by an agent that stops, "kept" is saved; "over" is for ever.      *)
(***************************************************************************)
Statuses == {"new", "creating", "running", "ending", "parking", "kept", "over"}

Init ==
  /\ up = TRUE
  /\ status = [t \in Task |-> "new"]
  /\ infohash = [t \in Task |-> None]

\* Task t goes from one status to the next while the process runs.
Moves(t, from, to) ==
  /\ up /\ status[t] = from
  /\ status' = [status EXCEPT ![t] = to]
  /\ UNCHANGED up

Ask(t, h) == Moves(t, "new", "creating") /\ infohash' = [infohash EXCEPT ![t] = h]

Refuse(t) == Moves(t, "creating", "over") /\ UNCHANGED infohash

\* Of the running tasks no two have the same infohash.
Register(t) ==
  /\ Moves(t, "creating", "running") /\ UNCHANGED infohash
  /\ \A u \in Task : status[u] = "running" => infohash[u] # infohash[t]

End(t)    == Moves(t, "running", "ending") /\ UNCHANGED infohash
Forget(t) == Moves(t, "ending", "over")    /\ UNCHANGED infohash
Park(t)   == Moves(t, "running", "parking") /\ UNCHANGED infohash
Keep(t)   == Moves(t, "parking", "kept")   /\ UNCHANGED infohash

(***************************************************************************)
(* The process ends, in order or not.  A task that was on its way out may  *)
(* have left its file; one that was running may have lost it.              *)
(***************************************************************************)
After(s) ==
  IF s \in {"running", "ending", "parking"} THEN {"kept", "over"}
  ELSE IF s = "creating" THEN {"over"} ELSE {s}

ProcessEnds ==
  /\ up /\ up' = FALSE
  /\ status' \in [Task -> Statuses]
  /\ \A t \in Task : status'[t] \in After(status[t])
  /\ UNCHANGED infohash

\* Of the kept tasks of one infohash one runs again; the others are lost.
Restart ==
  /\ ~up /\ up' = TRUE
  /\ status' \in [Task -> Statuses]
  /\ \A t \in Task : IF status[t] = "kept" THEN status'[t] \in {"running", "over"}
                                           ELSE status'[t] = status[t]
  /\ \A t \in Task : status[t] = "kept" =>
       \E u \in Task : status'[u] = "running" /\ infohash[u] = infohash[t]
  /\ \A t, u \in Task :
       status'[t] = "running" /\ status'[u] = "running" /\ infohash[t] = infohash[u] => t = u
  /\ UNCHANGED infohash

Next ==
  \/ \E t \in Task : /\ status'[t] # status[t]
                     /\ \/ \E h \in Infohash : Ask(t, h)
                        \/ Refuse(t) \/ Register(t) \/ End(t) \/ Forget(t)
                        \/ Park(t) \/ Keep(t)
  \/ ProcessEnds \/ Restart

Spec == Init /\ [][Next]_vars
=============================================================================
