----------------------------- MODULE TaskThreads -----------------------------
(***************************************************************************)
(* What the hdfs threads of a cluster download are to whoever starts and   *)
(* stops them: they begin at any time, also when the task is stopped; they *)
(* all go on until the task is stopped, from outside or by one of them     *)
(* whose read failed; and then they end, one after the other.              *)
(*                                                                         *)
(* ClusterDownload, which knows what the threads of one task do, and       *)
(* GroupCluster, which knows the threads of all tasks but not what they    *)
(* do, both implement it.                                                  *)
(***************************************************************************)
EXTENDS Integers

CONSTANT Task  \* the tasks that have threads

VARIABLES
  begun,   \* how many threads of each task have begun
  ended,   \* and how many of these have ended
  stopped  \* the task was stopped or has failed

vars == <<begun, ended, stopped>>

Init ==
  /\ begun = [t \in Task |-> 0] /\ ended = [t \in Task |-> 0]
  /\ stopped = [t \in Task |-> FALSE]

Begin(t) == begun'[t] = begun[t] + 1 /\ ended'[t] = ended[t] /\ stopped'[t] = stopped[t]

\* The thread that stops its task may end in the same step.
Stop(t) ==
  /\ ~stopped[t] /\ stopped'[t]
  /\ ended'[t] \in {ended[t], ended[t] + 1} /\ ended'[t] <= begun[t]
  /\ begun'[t] = begun[t]

End(t) ==
  /\ stopped[t] /\ stopped'[t] /\ ended[t] < begun[t]
  /\ ended'[t] = ended[t] + 1 /\ begun'[t] = begun[t]

Still(t) == begun'[t] = begun[t] /\ ended'[t] = ended[t] /\ stopped'[t] = stopped[t]

\* Several tasks may be stopped at once.
Next == \A t \in Task : Begin(t) \/ Stop(t) \/ End(t) \/ Still(t)

Spec == Init /\ [][Next]_vars
=============================================================================
