---------------------------- MODULE GroupCluster ----------------------------
(***************************************************************************)
(* How bbts-group hands out its hdfs threads (gko-src/group:               *)
(* GroupManager::ClusterDownload and the life of a GroupClusterTask).  One *)
(* scheduler thread takes tasks from a queue and starts threads_num_       *)
(* threads for each, within a budget for the whole process; every thread   *)
(* counts itself in its task when it begins and out of the budget when it  *)
(* ends.  What a thread does in between is the module ClusterDownload.     *)
(*                                                                         *)
(* A thread is given a plain pointer to its task, which shared_ptrs of the *)
(* GroupTask, of the queue and of the scheduler keep alive.  A thread that *)
(* outlives them reads freed memory: whether it then leaves, hangs or ends *)
(* the process, it does a step of this module or makes a behaviour stop.   *)
(***************************************************************************)
EXTENDS Integers, Sequences, FiniteSets, Functions

CONSTANTS
  Task,        \* the GroupClusterTasks, one for each download with hdfs
  None,        \* a null reference
  ThreadsNum,  \* threads_num_ of every task
  MaxThread,   \* max_cluster_thread_num
  MaxPush      \* bound: tasks pushed, those pushed again included

ASSUME NoneAssumption == None \notin Task
ASSUME BoundsAssumption ==
  ThreadsNum \in Nat \ {0} /\ MaxThread \in Nat \ {0} /\ MaxPush \in Nat

VARIABLES
  owner,        \* the GroupTask that holds the task: not yet, held, or gone
  should_stop,  \* should_stop_ of the task
  is_stoped,    \* is_stoped_
  started,      \* current_start_thread_num_
  crowd,        \* the threads of each task, by how far they are
  queue,        \* cluster_queue_tasks_
  count,        \* current_cluster_thread_num_
  scheduler,    \* ClusterDownload, with its shared_ptr and the i of its loop
  shutdown,     \* how far GroupManager::Shutdown has come
  pushes        \* number of pushes so far

task == <<owner, should_stop, is_stoped>>
vars == <<task, started, crowd, queue, count, scheduler, shutdown, pushes>>

Nobody == [new |-> 0, running |-> 0, leaving |-> 0]
Polls  == [at |-> "poll", task |-> None, i |-> 0]

Init ==
  /\ owner = [t \in Task |-> "none"]
  /\ should_stop = [t \in Task |-> FALSE] /\ is_stoped = [t \in Task |-> FALSE]
  /\ started = [t \in Task |-> 0] /\ crowd = [t \in Task |-> Nobody]
  /\ queue = <<>> /\ count = 0 /\ scheduler = Polls
  /\ shutdown = "no" /\ pushes = 0

Size(t) == crowd[t].new + crowd[t].running + crowd[t].leaving

\* The threads of the process, numbered within their tasks.
Threads == UNION {{t} \X (1 .. Size(t)) : t \in Task}

-----------------------------------------------------------------------------
(***************************************************************************)
(* GroupTask::OnStateChanged: whenever libtorrent reports that the torrent *)
(* downloads, StartDownload connects and the task enters the queue.        *)
(***************************************************************************)
PushClusterThreadQueue(t) ==
  /\ shutdown = "no" /\ owner[t] \in {"none", "held"} /\ ~is_stoped[t] /\ pushes < MaxPush
  /\ owner' = [owner EXCEPT ![t] = "held"]
  /\ queue' = Append(queue, t)
  /\ pushes' = pushes + 1
  /\ UNCHANGED <<should_stop, is_stoped, started, crowd, count, scheduler, shutdown>>

(***************************************************************************)
(* GroupTask::StopClusterTask, when the torrent is removed.  Between its   *)
(* two assignments the task is like one whose read has failed.             *)
(***************************************************************************)
StopClusterTask(t) ==
  /\ owner[t] = "held"
  /\ should_stop' = [should_stop EXCEPT ![t] = TRUE]
  /\ is_stoped' = [is_stoped EXCEPT ![t] = TRUE]
  /\ UNCHANGED <<owner, started, crowd, queue, count, scheduler, shutdown, pushes>>

\* The finished GroupTask is erased: finished_timeout has passed since its end.
Erase(t) ==
  /\ owner[t] = "held" /\ is_stoped[t]
  /\ owner' = [owner EXCEPT ![t] = "gone"]
  /\ UNCHANGED <<should_stop, is_stoped, started, crowd, queue, count, scheduler, shutdown,
                 pushes>>

\* Shutdown clears the maps: every ~GroupTask stops its task and lets it go.
ClearMaps ==
  /\ shutdown = "no" /\ shutdown' = "cleared"
  /\ owner' = [t \in Task |-> IF owner[t] = "held" THEN "gone" ELSE owner[t]]
  /\ should_stop' = [t \in Task |-> should_stop[t] \/ owner[t] = "held"]
  /\ is_stoped' = [t \in Task |-> is_stoped[t] \/ owner[t] = "held"]
  /\ UNCHANGED <<started, crowd, queue, count, scheduler, pushes>>

WakeUpAllClusterDownThread ==
  /\ shutdown = "cleared" /\ shutdown' = "told"
  /\ UNCHANGED <<task, started, crowd, queue, count, scheduler, pushes>>

-----------------------------------------------------------------------------
(***************************************************************************)
(* ClusterDownload, one round: cluster_should_stop_ is tested, and then    *)
(* the scheduler may sleep before it looks at the queue.                   *)
(***************************************************************************)
Round ==
  /\ scheduler.at = "poll"
  /\ scheduler' = [scheduler EXCEPT !.at = IF shutdown = "told" THEN "ended" ELSE "sleep"]
  /\ UNCHANGED <<task, started, crowd, queue, count, shutdown, pushes>>

Pop ==
  /\ scheduler.at = "sleep" /\ count < MaxThread /\ queue # <<>>
  /\ scheduler' = [at |-> "popped", task |-> Head(queue), i |-> 0]
  /\ queue' = Tail(queue)
  /\ UNCHANGED <<task, started, crowd, count, shutdown, pushes>>

\* The queue is empty, or the budget is spent.
NothingToPop ==
  /\ scheduler.at = "sleep" /\ (count >= MaxThread \/ queue = <<>>)
  /\ scheduler' = Polls
  /\ UNCHANGED <<task, started, crowd, queue, count, shutdown, pushes>>

\* A task that has its threads or was stopped leaves the queue for good; the
\* loop for any other starts at the number of threads that have begun.
Check ==
  LET t == scheduler.task IN
  /\ scheduler.at = "popped"
  /\ scheduler' = IF started[t] >= ThreadsNum \/ is_stoped[t] THEN Polls
                  ELSE [scheduler EXCEPT !.at = "loop", !.i = started[t]]
  /\ UNCHANGED <<task, started, crowd, queue, count, shutdown, pushes>>

CreateThread ==
  /\ scheduler.at = "loop"
  /\ crowd' = [crowd EXCEPT ![scheduler.task].new = @ + 1]
  /\ scheduler' = [scheduler EXCEPT !.at = "created"]
  /\ UNCHANGED <<task, started, queue, count, shutdown, pushes>>

\* The next round of the for loop, or of the while loop.
NextThread ==
  IF scheduler.i + 1 < ThreadsNum
    THEN [scheduler EXCEPT !.at = "loop", !.i = @ + 1] ELSE Polls

\* Mutant: the break is missing.
CountThreadGoesOn ==
  /\ scheduler.at = "created"
  /\ count' = count + 1
  /\ queue' = IF count' > MaxThread THEN Append(queue, scheduler.task) ELSE queue
  /\ scheduler' = NextThread
  /\ UNCHANGED <<task, started, crowd, shutdown, pushes>>

\* Mutant: a task the budget does not suffice for is not put back.
CountThreadDrops ==
  /\ scheduler.at = "created"
  /\ count' = count + 1
  /\ scheduler' = IF count' > MaxThread THEN Polls ELSE NextThread
  /\ UNCHANGED <<task, started, crowd, queue, shutdown, pushes>>

\* The thread that already runs is counted; over the budget, the task goes back
\* to the end of the queue.
CountThread ==
  /\ scheduler.at = "created"
  /\ count' = count + 1
  /\ IF count' > MaxThread
       THEN queue' = Append(queue, scheduler.task) /\ scheduler' = Polls
       ELSE queue' = queue /\ scheduler' = NextThread
  /\ UNCHANGED <<task, started, crowd, shutdown, pushes>>

-----------------------------------------------------------------------------
\* GroupClusterTask::Download.
Begin(t) ==
  /\ crowd[t].new > 0
  /\ crowd' = [crowd EXCEPT ![t].new = @ - 1, ![t].running = @ + 1]
  /\ started' = [started EXCEPT ![t] = @ + 1]
  /\ UNCHANGED <<task, queue, count, scheduler, shutdown, pushes>>

\* Mutant: the thread ends alone.
ReadFailsAlone(t) ==
  /\ crowd[t].running > 0 /\ ~should_stop[t]
  /\ crowd' = [crowd EXCEPT ![t].running = @ - 1, ![t].leaving = @ + 1]
  /\ UNCHANGED <<task, started, queue, count, scheduler, shutdown, pushes>>

\* A read or a hash that fails, without ignore_error_, ends the whole task; the
\* scheduler is not told.
ReadFails(t) ==
  /\ crowd[t].running > 0 /\ ~should_stop[t]
  /\ should_stop' = [should_stop EXCEPT ![t] = TRUE]
  /\ UNCHANGED <<owner, is_stoped, started, crowd, queue, count, scheduler, shutdown, pushes>>

Leave(t) ==
  /\ crowd[t].running > 0 /\ should_stop[t]
  /\ crowd' = [crowd EXCEPT ![t].running = @ - 1, ![t].leaving = @ + 1]
  /\ UNCHANGED <<task, started, queue, count, scheduler, shutdown, pushes>>

\* Mutant: the counter is not tested.
DeleteClusterThreadNumUntested(t) ==
  /\ crowd[t].leaving > 0
  /\ crowd' = [crowd EXCEPT ![t].leaving = @ - 1]
  /\ count' = count - 1
  /\ UNCHANGED <<task, started, queue, scheduler, shutdown, pushes>>

\* A thread that ends before the scheduler has counted it finds the count of the
\* others, or zero: then the scheduler counts a thread that is gone.
DeleteClusterThreadNum(t) ==
  /\ crowd[t].leaving > 0
  /\ crowd' = [crowd EXCEPT ![t].leaving = @ - 1]
  /\ count' = IF count > 0 THEN count - 1 ELSE 0
  /\ UNCHANGED <<task, started, queue, scheduler, shutdown, pushes>>

-----------------------------------------------------------------------------
Schedule == Round \/ Pop \/ NothingToPop \/ Check \/ CreateThread \/ CountThread

Download(t) ==
  Begin(t) \/ ReadFails(t) \/ Leave(t) \/ DeleteClusterThreadNum(t)

Next ==
  \/ \E t \in Task : PushClusterThreadQueue(t) \/ StopClusterTask(t) \/ Erase(t)
  \/ ClearMaps \/ WakeUpAllClusterDownThread
  \/ Schedule
  \/ \E t \in Task : Download(t)

Spec == Init /\ [][Next]_vars

-----------------------------------------------------------------------------
(***************************************************************************)
(* current_cluster_thread_num_ in particular is never negative, although a *)
(* thread may end before it was counted.                                   *)
(***************************************************************************)
TypeOK ==
  /\ owner \in [Task -> {"none", "held", "gone"}]
  /\ should_stop \in [Task -> BOOLEAN] /\ is_stoped \in [Task -> BOOLEAN]
  /\ started \in [Task -> Nat]
  /\ crowd \in [Task -> [new : Nat, running : Nat, leaving : Nat]]
  /\ queue \in Seq(Task) /\ count \in Nat
  /\ scheduler \in [at : {"poll", "sleep", "popped", "loop", "created", "ended"},
                    task : Task \cup {None}, i : 0 .. ThreadsNum - 1]
  /\ shutdown \in {"no", "cleared", "told"} /\ pushes \in 0 .. MaxPush

(***************************************************************************)
(* The hdfs threads of the process exceed max_cluster_thread_num by at     *)
(* most one (the budget is tested after a thread was created), although    *)
(* the threads are counted after they were created and count themselves    *)
(* out at any time, also before that.                                      *)
(***************************************************************************)
BudgetKept == Cardinality(Threads) <= MaxThread + 1

(***************************************************************************)
(* A task that is downloading is not forgotten by the scheduler, however   *)
(* often the budget interrupts its loop: it is queued, in the scheduler's  *)
(* hands, or has all the threads it asked for.                             *)
(***************************************************************************)
NoTaskForgotten ==
  \A t \in Task :
    owner[t] = "held" /\ ~should_stop[t] =>
      t \in Range(queue) \/ scheduler.task = t \/ Size(t) >= ThreadsNum

(***************************************************************************)
(* All that is assumed here of the threads is what TaskThreads says of     *)
(* them, which ClusterDownload implements too.                             *)
(***************************************************************************)
Lives == INSTANCE TaskThreads WITH
  begun <- started,
  ended <- [t \in Task |-> started[t] - crowd[t].running],
  stopped <- should_stop

ImplementsTaskThreads == Lives!Spec
=============================================================================
