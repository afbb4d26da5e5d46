------------------------- MODULE GroupCluster_proofs -------------------------
(***************************************************************************)
(* Safety of GroupCluster, for any number of tasks, of threads of a task   *)
(* and of the process, and any number of pushes.                           *)
(***************************************************************************)
EXTENDS GroupCluster, SequenceTheorems, FiniteSetTheorems, TLAPS

Crowd == [new : Nat, running : Nat, leaving : Nat]
Stages == {"poll", "sleep", "popped", "loop", "created", "ended"}
SchedulerType == [at : Stages, task : Task \cup {None}, i : 0 .. ThreadsNum - 1]

InHand == scheduler.at \in {"popped", "loop", "created"}

\* The thread that was created last is not yet counted.
Uncounted == IF scheduler.at = "created" THEN 1 ELSE 0

\* The scheduler has a task exactly while it works on one.
HandOK == scheduler.task \in Task <=> InHand

\* Threads leave only after should_stop_, which a stopped task has set.
StopOK ==
  \A t \in Task :
    /\ is_stoped[t] => should_stop[t]
    /\ ~should_stop[t] => crowd[t].leaving = 0 /\ started[t] = crowd[t].running

\* The task has at least the threads its loop has come to.
LoopOK ==
  scheduler.at \in {"loop", "created"} /\ ~should_stop[scheduler.task] =>
    Size(scheduler.task) >= scheduler.i + Uncounted

(***************************************************************************)
(* The count is never too small, and its limit is exceeded only after the  *)
(* loop was left: a thread too many in the count, of which there may be    *)
(* several, costs the process threads and never adds one.                  *)
(***************************************************************************)
CountOK ==
  /\ IsFiniteSet(Threads)
  /\ Cardinality(Threads) <= count + Uncounted
  /\ count <= IF InHand THEN MaxThread ELSE MaxThread + 1

\* The inductive invariant.
IInv == TypeOK /\ HandOK /\ StopOK /\ LoopOK /\ CountOK /\ NoTaskForgotten

-----------------------------------------------------------------------------
(***************************************************************************)
(* The threads of the process, as their tasks' crowds grow and shrink.     *)
(***************************************************************************)
LEMMA SizeType == ASSUME TypeOK, NEW t \in Task PROVE Size(t) \in Nat
BY DEF TypeOK, Size

LEMMA ThreadsMember ==
  \A p : p \in Threads <=> \E t \in Task : \E i \in 1 .. Size(t) : p = <<t, i>>
BY DEF Threads

LEMMA ThreadsKept == ASSUME \A t \in Task : Size(t)' = Size(t) PROVE Threads' = Threads
<1>1. \A p : p \in Threads' <=> \E t \in Task : \E i \in 1 .. Size(t)' : p = <<t, i>>
  BY DEF Threads
<1> QED  BY <1>1, ThreadsMember

\* One more thread of t.
LEMMA ThreadAdded ==
  ASSUME TypeOK, IsFiniteSet(Threads), NEW t \in Task, Size(t)' = Size(t) + 1,
         \A u \in Task : u # t => Size(u)' = Size(u)
  PROVE  IsFiniteSet(Threads') /\ Cardinality(Threads') = Cardinality(Threads) + 1
<1> DEFINE n == <<t, Size(t) + 1>>
<1>0. \A u \in Task : Size(u) \in Nat
  BY SizeType
<1>1. \A p : p \in Threads' <=> \E u \in Task : \E i \in 1 .. Size(u)' : p = <<u, i>>
  BY DEF Threads
<1>2. n \notin Threads
  BY <1>0, ThreadsMember
<1>3. Threads' = Threads \cup {n}
  <2>1. ASSUME NEW p \in Threads' PROVE p \in Threads \cup {n}
    <3>1. PICK u \in Task : \E i \in 1 .. Size(u)' : p = <<u, i>>
      BY <1>1
    <3>2. PICK i \in 1 .. Size(u)' : p = <<u, i>>
      BY <3>1
    <3>3. CASE u = t /\ i = Size(t) + 1
      BY <3>2, <3>3
    <3>4. CASE ~(u = t /\ i = Size(t) + 1)
      <4>1. i \in 1 .. Size(u)
        BY <1>0, <3>4
      <4> QED  BY <3>2, <4>1, ThreadsMember
    <3> QED  BY <3>3, <3>4
  <2>2. ASSUME NEW p \in Threads PROVE p \in Threads'
    <3>1. PICK u \in Task : \E i \in 1 .. Size(u) : p = <<u, i>>
      BY ThreadsMember
    <3>2. PICK i \in 1 .. Size(u) : p = <<u, i>>
      BY <3>1
    <3>3. i \in 1 .. Size(u)'
      BY <1>0
    <3> QED  BY <1>1, <3>2, <3>3
  <2>3. n \in Threads'
    <3>1. Size(t) + 1 \in 1 .. Size(t)'
      BY <1>0
    <3> QED  BY <1>1, <3>1
  <2> QED  BY <2>1, <2>2, <2>3
<1> HIDE DEF n
<1> QED  BY <1>2, <1>3, FS_AddElement

\* One thread of t less.
LEMMA ThreadRemoved ==
  ASSUME TypeOK, IsFiniteSet(Threads), NEW t \in Task, Size(t) > 0, Size(t)' = Size(t) - 1,
         \A u \in Task : u # t => Size(u)' = Size(u)
  PROVE  IsFiniteSet(Threads') /\ Cardinality(Threads') = Cardinality(Threads) - 1
<1> DEFINE n == <<t, Size(t)>>
<1>0. \A u \in Task : Size(u) \in Nat
  BY SizeType
<1>1. \A p : p \in Threads' <=> \E u \in Task : \E i \in 1 .. Size(u)' : p = <<u, i>>
  BY DEF Threads
<1>2. n \in Threads
  <2>1. Size(t) \in 1 .. Size(t)
    BY <1>0
  <2> QED  BY <2>1, ThreadsMember
<1>3. Threads' = Threads \ {n}
  <2>1. ASSUME NEW p \in Threads' PROVE p \in Threads \ {n}
    <3>1. PICK u \in Task : \E i \in 1 .. Size(u)' : p = <<u, i>>
      BY <1>1
    <3>2. PICK i \in 1 .. Size(u)' : p = <<u, i>>
      BY <3>1
    <3>3. i \in 1 .. Size(u) /\ ~(u = t /\ i = Size(t))
      BY <1>0
    <3> QED  BY <3>2, <3>3, ThreadsMember
  <2>2. ASSUME NEW p \in Threads, p # n PROVE p \in Threads'
    <3>1. PICK u \in Task : \E i \in 1 .. Size(u) : p = <<u, i>>
      BY ThreadsMember
    <3>2. PICK i \in 1 .. Size(u) : p = <<u, i>>
      BY <3>1
    <3>3. i \in 1 .. Size(u)'
      BY <1>0, <2>2, <3>2
    <3> QED  BY <1>1, <3>2, <3>3
  <2> QED  BY <2>1, <2>2
<1> HIDE DEF n
<1> QED  BY <1>2, <1>3, FS_RemoveElement

-----------------------------------------------------------------------------
(***************************************************************************)
(* The tasks of the queue.                                                 *)
(***************************************************************************)
LEMMA QueueAppend ==
  ASSUME NEW q \in Seq(Task), NEW t \in Task
  PROVE  Append(q, t) \in Seq(Task) /\ Range(Append(q, t)) = Range(q) \cup {t}
<1>1. /\ Append(q, t) \in Seq(Task) /\ Len(Append(q, t)) = Len(q) + 1
      /\ \A i \in 1 .. Len(q) : Append(q, t)[i] = q[i]
      /\ Append(q, t)[Len(q) + 1] = t
  BY AppendProperties
<1>2. DOMAIN q = 1 .. Len(q) /\ DOMAIN Append(q, t) = 1 .. Len(q) + 1 /\ Len(q) \in Nat
  BY <1>1
<1>3. 1 .. Len(q) + 1 = (1 .. Len(q)) \cup {Len(q) + 1}
  BY <1>2
<1> QED  BY <1>1, <1>2, <1>3 DEF Range

LEMMA QueueTail ==
  ASSUME NEW q \in Seq(Task), q # <<>>
  PROVE  /\ Head(q) \in Task /\ Tail(q) \in Seq(Task)
         /\ Range(q) \subseteq {Head(q)} \cup Range(Tail(q))
<1>1. /\ Head(q) \in Task /\ Tail(q) \in Seq(Task) /\ Len(Tail(q)) = Len(q) - 1
      /\ \A i \in 1 .. Len(Tail(q)) : Tail(q)[i] = q[i + 1]
  BY HeadTailProperties
<1>2. DOMAIN q = 1 .. Len(q) /\ DOMAIN Tail(q) = 1 .. Len(q) - 1 /\ Len(q) \in Nat
  BY <1>1
<1>3. ASSUME NEW i \in 1 .. Len(q), i # 1 PROVE q[i] \in Range(Tail(q))
  <2>1. i - 1 \in 1 .. Len(q) - 1 /\ (i - 1) + 1 = i
    BY <1>2, <1>3
  <2> QED  BY <1>1, <1>2, <2>1 DEF Range
<1>4. Head(q) = q[1]
  OBVIOUS
<1> QED  BY <1>1, <1>2, <1>3, <1>4 DEF Range

-----------------------------------------------------------------------------
(***************************************************************************)
(* The invariant, action by action.                                        *)
(***************************************************************************)
LEMMA InitIInv == Init => IInv
<1> SUFFICES ASSUME Init PROVE IInv
  OBVIOUS
<1> USE NoneAssumption, BoundsAssumption
<1>1. TypeOK
  BY DEF Init, TypeOK, Nobody, Polls
<1>2. Threads = {}
  <2>1. \A t \in Task : Size(t) = 0
    BY DEF Init, Nobody, Size
  <2> QED  BY <2>1, ThreadsMember
<1>3. CountOK
  BY <1>2, FS_EmptySet DEF Init, CountOK, Uncounted, InHand, Polls
<1>4. HandOK /\ StopOK /\ LoopOK /\ NoTaskForgotten
  BY DEF Init, HandOK, InHand, StopOK, LoopOK, NoTaskForgotten, Polls, Nobody
<1> QED  BY <1>1, <1>3, <1>4 DEF IInv

\* Types in the form the steps below need.
LEMMA Facts ==
  ASSUME IInv
  PROVE  /\ \A t \in Task : /\ crowd[t] \in Crowd /\ started[t] \in Nat /\ Size(t) \in Nat
                            /\ should_stop[t] \in BOOLEAN /\ is_stoped[t] \in BOOLEAN
         /\ crowd \in [Task -> Crowd] /\ started \in [Task -> Nat]
         /\ scheduler \in SchedulerType /\ scheduler.i \in Nat /\ scheduler.i < ThreadsNum
         /\ count \in Nat /\ queue \in Seq(Task) /\ pushes \in Nat
         /\ ThreadsNum \in Nat /\ ThreadsNum > 0 /\ MaxThread \in Nat /\ MaxThread > 0
         /\ MaxPush \in Nat /\ None \notin Task
         /\ IsFiniteSet(Threads) /\ Cardinality(Threads) \in Nat
BY NoneAssumption, BoundsAssumption, SizeType, FS_CardinalityType
   DEF IInv, TypeOK, CountOK, Crowd, SchedulerType, Stages

\* Steps that change no crowd and leave count and scheduler alone.
LEMMA CountKept ==
  ASSUME IInv, UNCHANGED <<crowd, count, scheduler>>
  PROVE  CountOK'
<1>1. Threads' = Threads
  BY ThreadsKept DEF Size
<1> QED  BY <1>1 DEF IInv, CountOK, Uncounted, InHand

LEMMA PushIInv ==
  ASSUME IInv, NEW t \in Task, PushClusterThreadQueue(t)
  PROVE  IInv'
<1> USE DEF PushClusterThreadQueue
<1>1. Append(queue, t) \in Seq(Task) /\ Range(Append(queue, t)) = Range(queue) \cup {t}
  BY Facts, QueueAppend
<1>2. TypeOK'
  <2>1. pushes' \in 0 .. MaxPush
    BY Facts
  <2> QED  BY <1>1, <2>1 DEF IInv, TypeOK
<1>3. CountOK'
  BY CountKept
<1>4. HandOK' /\ StopOK' /\ LoopOK'
  BY DEF IInv, HandOK, InHand, StopOK, LoopOK, Size, Uncounted
<1>5. NoTaskForgotten'
  BY <1>1 DEF IInv, TypeOK, NoTaskForgotten, Size
<1> QED  BY <1>2, <1>3, <1>4, <1>5 DEF IInv

LEMMA StopClusterTaskIInv ==
  ASSUME IInv, NEW t \in Task, StopClusterTask(t)
  PROVE  IInv'
<1> USE DEF StopClusterTask
<1>1. TypeOK'
  BY DEF IInv, TypeOK
<1>2. CountOK'
  BY CountKept
<1>3. HandOK' /\ StopOK'
  BY DEF IInv, TypeOK, HandOK, InHand, StopOK
<1>4. LoopOK'
  BY DEF IInv, TypeOK, HandOK, InHand, LoopOK, Size, Uncounted
<1>5. NoTaskForgotten'
  BY DEF IInv, TypeOK, NoTaskForgotten, Size
<1> QED  BY <1>1, <1>2, <1>3, <1>4, <1>5 DEF IInv

LEMMA EraseIInv ==
  ASSUME IInv, NEW t \in Task, Erase(t)
  PROVE  IInv'
<1> USE DEF Erase
<1>1. TypeOK'
  BY DEF IInv, TypeOK
<1>2. CountOK'
  BY CountKept
<1>3. HandOK' /\ StopOK' /\ LoopOK'
  BY DEF IInv, HandOK, InHand, StopOK, LoopOK, Size, Uncounted
<1>4. NoTaskForgotten'
  BY DEF IInv, TypeOK, NoTaskForgotten, Size
<1> QED  BY <1>1, <1>2, <1>3, <1>4 DEF IInv

LEMMA ClearMapsIInv ==
  ASSUME IInv, ClearMaps
  PROVE  IInv'
<1> USE DEF ClearMaps
<1>1. TypeOK'
  BY DEF IInv, TypeOK
<1>2. CountOK'
  BY CountKept
<1>3. HandOK' /\ StopOK'
  BY DEF IInv, TypeOK, HandOK, InHand, StopOK
<1>4. LoopOK'
  BY DEF IInv, TypeOK, HandOK, InHand, LoopOK, Size, Uncounted
<1>5. NoTaskForgotten'
  BY DEF IInv, TypeOK, NoTaskForgotten, Size
<1> QED  BY <1>1, <1>2, <1>3, <1>4, <1>5 DEF IInv

LEMMA WakeUpIInv ==
  ASSUME IInv, WakeUpAllClusterDownThread
  PROVE  IInv'
<1> USE DEF WakeUpAllClusterDownThread, task
<1>1. TypeOK' /\ CountOK'
  BY CountKept DEF IInv, TypeOK
<1>2. HandOK' /\ StopOK' /\ LoopOK' /\ NoTaskForgotten'
  BY DEF IInv, HandOK, InHand, StopOK, LoopOK, NoTaskForgotten, Size, Uncounted
<1> QED  BY <1>1, <1>2 DEF IInv

\* Only the place of the scheduler between two tasks changes.
LEMMA BetweenTasks ==
  ASSUME IInv, ~InHand, scheduler' \in SchedulerType, scheduler'.task = None,
         scheduler'.at \in {"poll", "sleep", "ended"},
         UNCHANGED <<task, started, crowd, queue, count, shutdown, pushes>>
  PROVE  IInv'
<1> USE DEF task
<1>1. TypeOK'
  BY DEF IInv, TypeOK, SchedulerType, Stages
<1>2. CountOK'
  <2>1. Threads' = Threads
    BY ThreadsKept DEF Size
  <2> QED  BY <2>1 DEF IInv, CountOK, Uncounted, InHand
<1>3. HandOK' /\ StopOK' /\ LoopOK'
  BY Facts DEF IInv, HandOK, InHand, StopOK, LoopOK
<1>4. NoTaskForgotten'
  BY Facts DEF IInv, HandOK, NoTaskForgotten, Size
<1> QED  BY <1>1, <1>2, <1>3, <1>4 DEF IInv

LEMMA RoundIInv ==
  ASSUME IInv, Round
  PROVE  IInv'
<1>1. ~InHand /\ scheduler.task = None
  BY DEF Round, InHand, IInv, HandOK, TypeOK
<1>2. /\ scheduler' \in SchedulerType /\ scheduler'.task = None
      /\ scheduler'.at \in {"poll", "sleep", "ended"}
  BY Facts, <1>1 DEF Round, SchedulerType, Stages
<1> QED  BY <1>1, <1>2, BetweenTasks DEF Round

LEMMA NothingToPopIInv ==
  ASSUME IInv, NothingToPop
  PROVE  IInv'
<1>1. ~InHand
  BY DEF NothingToPop, InHand
<1>2. /\ scheduler' \in SchedulerType /\ scheduler'.task = None
      /\ scheduler'.at \in {"poll", "sleep", "ended"}
  BY Facts DEF NothingToPop, Polls, SchedulerType, Stages
<1> QED  BY <1>1, <1>2, BetweenTasks DEF NothingToPop

\* The task goes from the queue into the scheduler's hand.
LEMMA PopIInv ==
  ASSUME IInv, Pop
  PROVE  IInv'
<1> USE DEF Pop, task
<1>0. /\ Head(queue) \in Task /\ Tail(queue) \in Seq(Task)
      /\ Range(queue) \subseteq {Head(queue)} \cup Range(Tail(queue))
  BY Facts, QueueTail
<1>1. TypeOK'
  <2>1. scheduler' \in SchedulerType
    BY Facts, <1>0 DEF SchedulerType, Stages
  <2> QED  BY <1>0, <2>1 DEF IInv, TypeOK, SchedulerType, Stages
<1>2. CountOK'
  <2>1. Threads' = Threads
    BY ThreadsKept DEF Size
  <2> QED  BY <2>1, Facts DEF IInv, CountOK, Uncounted, InHand
<1>3. HandOK' /\ StopOK' /\ LoopOK'
  BY <1>0 DEF IInv, HandOK, InHand, StopOK, LoopOK
<1>4. scheduler.task \notin Task
  BY DEF IInv, HandOK, InHand
<1>5. NoTaskForgotten'
  BY <1>0, <1>4 DEF IInv, NoTaskForgotten, Size
<1> QED  BY <1>1, <1>2, <1>3, <1>5 DEF IInv

\* A task put down here was stopped, or has begun all its threads.
LEMMA CheckIInv ==
  ASSUME IInv, Check
  PROVE  IInv'
<1> DEFINE t == scheduler.task
<1>0. t \in Task
  BY DEF Check, IInv, HandOK, InHand
<1>1. CountOK'
  <2>1. Threads' = Threads
    BY ThreadsKept DEF Check, Size
  <2> QED  BY <2>1, Facts DEF Check, IInv, CountOK, Uncounted, InHand, Polls
<1>2. ~should_stop[t] => Size(t) >= started[t]
  BY Facts, <1>0 DEF IInv, StopOK, Size, Crowd
<1>3. CASE started[t] >= ThreadsNum \/ is_stoped[t]
  <2>1. scheduler' = Polls
    BY <1>3 DEF Check
  <2>a. scheduler' \in SchedulerType
    BY Facts, <2>1 DEF Polls, SchedulerType, Stages
  <2>2. TypeOK'
    BY <2>a DEF Check, task, IInv, TypeOK, SchedulerType, Stages
  <2>b. scheduler'.at = "poll" /\ scheduler'.task \notin Task
    BY Facts, <2>1 DEF Polls
  <2>3. HandOK' /\ StopOK' /\ LoopOK'
    BY <2>b DEF Check, task, IInv, HandOK, InHand, StopOK, LoopOK
  <2>4. NoTaskForgotten'
    BY Facts, <1>0, <1>2, <1>3, <2>1 DEF Check, task, Polls, IInv, StopOK, NoTaskForgotten, Size
  <2> QED  BY <1>1, <2>2, <2>3, <2>4 DEF IInv
<1>4. CASE ~(started[t] >= ThreadsNum \/ is_stoped[t])
  <2>0. started[t] \in 0 .. ThreadsNum - 1
    BY Facts, <1>0, <1>4
  <2>1. scheduler' = [at |-> "loop", task |-> t, i |-> started[t]]
    BY Facts, <1>4 DEF Check, SchedulerType
  <2>a. scheduler' \in SchedulerType
    BY <1>0, <2>0, <2>1 DEF SchedulerType, Stages
  <2>2. TypeOK'
    BY <2>a DEF Check, task, IInv, TypeOK, SchedulerType, Stages
  <2>3. HandOK' /\ StopOK'
    BY <1>0, <2>1 DEF Check, task, IInv, HandOK, InHand, StopOK
  <2>4. LoopOK'
    BY Facts, <1>0, <1>2, <2>1 DEF Check, task, LoopOK, Uncounted, Size
  <2>5. NoTaskForgotten'
    BY <2>1 DEF Check, task, IInv, NoTaskForgotten, Size
  <2> QED  BY <1>1, <2>2, <2>3, <2>4, <2>5 DEF IInv
<1> QED  BY <1>3, <1>4

\* A thread of a crowd that begins, and one that leaves.
LEMMA OneMoves ==
  ASSUME NEW k \in Crowd
  PROVE  /\ [k EXCEPT !.new = @ - 1, !.running = @ + 1] =
              [new |-> k.new - 1, running |-> k.running + 1, leaving |-> k.leaving]
         /\ [k EXCEPT !.running = @ - 1, !.leaving = @ + 1] =
              [new |-> k.new, running |-> k.running - 1, leaving |-> k.leaving + 1]
<1>1. ASSUME NEW d, d = [k EXCEPT !.new = @ - 1, !.running = @ + 1]
      PROVE  d = [new |-> k.new - 1, running |-> k.running + 1, leaving |-> k.leaving]
  <2>1. d = [new |-> d.new, running |-> d.running, leaving |-> d.leaving]
    BY <1>1 DEF Crowd
  <2>2. d.new = k.new - 1 /\ d.running = k.running + 1 /\ d.leaving = k.leaving
    BY <1>1 DEF Crowd
  <2> QED  BY <2>1, <2>2
<1>2. ASSUME NEW d, d = [k EXCEPT !.running = @ - 1, !.leaving = @ + 1]
      PROVE  d = [new |-> k.new, running |-> k.running - 1, leaving |-> k.leaving + 1]
  <2>1. d = [new |-> d.new, running |-> d.running, leaving |-> d.leaving]
    BY <1>2 DEF Crowd
  <2>2. d.new = k.new /\ d.running = k.running - 1 /\ d.leaving = k.leaving + 1
    BY <1>2 DEF Crowd
  <2> QED  BY <2>1, <2>2
<1> QED  BY <1>1, <1>2

\* The crowd of t becomes c.
LEMMA CrowdBecomes ==
  ASSUME IInv, NEW t \in Task, NEW c \in Crowd, crowd' = [crowd EXCEPT ![t] = c]
  PROVE  /\ crowd' \in [Task -> Crowd] /\ crowd'[t] = c
         /\ \A u \in Task : u # t => crowd'[u] = crowd[u]
         /\ Size(t)' = c.new + c.running + c.leaving
         /\ \A u \in Task : u # t => Size(u)' = Size(u)
BY Facts DEF Size

\* One thread more in its task and in the process, not counted before the next step.
LEMMA CreateThreadIInv ==
  ASSUME IInv, CreateThread
  PROVE  IInv'
<1>0. PICK t \in Task : t = scheduler.task
  BY DEF CreateThread, IInv, HandOK, InHand
<1> DEFINE c == [new |-> crowd[t].new + 1, running |-> crowd[t].running,
                 leaving |-> crowd[t].leaving]
<1>a. crowd \in [Task -> Crowd] /\ crowd[t] \in Crowd /\ c \in Crowd
  <2>1. crowd \in [Task -> Crowd] /\ crowd[t] \in Crowd
    BY Facts
  <2> QED  BY <2>1 DEF Crowd
<1>b. crowd' = [crowd EXCEPT ![t] = c]
  <2>1. crowd' = [crowd EXCEPT ![t] = [crowd[t] EXCEPT !.new = @ + 1]]
    BY <1>0, <1>a DEF CreateThread
  <2>2. [crowd[t] EXCEPT !.new = @ + 1] = c
    BY <1>a DEF Crowd
  <2> QED  BY <2>1, <2>2
<1>1. /\ crowd' \in [Task -> Crowd] /\ crowd'[t] = c
      /\ \A u \in Task : u # t => crowd'[u] = crowd[u]
  BY <1>0, <1>a, <1>b, CrowdBecomes
<1>2. Size(t)' = Size(t) + 1 /\ \A u \in Task : u # t => Size(u)' = Size(u)
  BY <1>0, <1>a, <1>b, CrowdBecomes DEF Size, Crowd
<1>3. scheduler' = [at |-> "created", task |-> t, i |-> scheduler.i]
  BY Facts, <1>0 DEF CreateThread, SchedulerType
<1>4. TypeOK'
  <2>1. scheduler' \in SchedulerType
    BY Facts, <1>0, <1>3 DEF SchedulerType, Stages
  <2> QED  BY <1>1, <2>1 DEF CreateThread, task, IInv, TypeOK, SchedulerType, Stages, Crowd
<1>5. CountOK'
  <2>1. IsFiniteSet(Threads') /\ Cardinality(Threads') = Cardinality(Threads) + 1
    BY Facts, <1>0, <1>2, ThreadAdded DEF IInv
  <2>2. Uncounted = 0 /\ Uncounted' = 1 /\ InHand /\ InHand'
    BY <1>3 DEF CreateThread, Uncounted, InHand
  <2> QED  BY Facts, <2>1, <2>2 DEF CreateThread, IInv, CountOK
<1>6. HandOK' /\ StopOK'
  <2>1. HandOK'
    BY <1>3 DEF CreateThread, HandOK, InHand
  <2>2. \A u \in Task : crowd'[u].running = crowd[u].running /\ crowd'[u].leaving = crowd[u].leaving
    BY <1>1
  <2>3. StopOK'
    BY <2>2 DEF CreateThread, task, IInv, StopOK
  <2> QED  BY <2>1, <2>3
<1>7. LoopOK'
  BY Facts, <1>0, <1>2, <1>3 DEF CreateThread, task, IInv, LoopOK, Uncounted
<1>8. NoTaskForgotten'
  <2>1. \A u \in Task : Size(u)' >= Size(u) /\ Size(u) \in Nat /\ Size(u)' \in Nat
    <3>1. ASSUME NEW u \in Task PROVE Size(u)' >= Size(u) /\ Size(u) \in Nat /\ Size(u)' \in Nat
      <4>1. Size(u) \in Nat
        BY Facts
      <4> QED  BY <1>2, <4>1
    <3> QED  BY <3>1
  <2> QED  BY Facts, <1>0, <1>3, <2>1 DEF CreateThread, task, IInv, NoTaskForgotten
<1> QED  BY <1>4, <1>5, <1>6, <1>7, <1>8 DEF IInv

\* The limit is exceeded in the step that leaves the loop.
LEMMA CountThreadIInv ==
  ASSUME IInv, CountThread
  PROVE  IInv'
<1> DEFINE t == scheduler.task
<1> USE DEF CountThread, task
<1>0. t \in Task /\ InHand /\ Uncounted = 1
  BY DEF IInv, HandOK, InHand, Uncounted
<1>1. /\ Append(queue, t) \in Seq(Task) /\ Range(Append(queue, t)) = Range(queue) \cup {t}
      /\ Append(queue, t) \in Seq(Task)
  BY Facts, <1>0, QueueAppend
<1>2. Threads' = Threads /\ \A u \in Task : Size(u)' = Size(u)
  BY ThreadsKept DEF Size
<1>3. ~should_stop[t] => Size(t) >= scheduler.i + 1
  BY <1>0 DEF IInv, LoopOK
<1>4. count <= MaxThread /\ count' = count + 1 /\ Cardinality(Threads) <= count + 1
  BY Facts, <1>0 DEF IInv, CountOK
<1>5. CASE count' > MaxThread
  <2>1. scheduler' = Polls /\ queue' = Append(queue, t)
    BY <1>5
  <2>2. scheduler' \in SchedulerType /\ scheduler'.at = "poll" /\ scheduler'.task = None
    BY Facts, <2>1 DEF Polls, SchedulerType, Stages
  <2>3. TypeOK'
    BY Facts, <1>1, <2>1, <2>2 DEF IInv, TypeOK, SchedulerType, Stages
  <2>4. CountOK'
    BY Facts, <1>2, <1>4, <2>2 DEF CountOK, Uncounted, InHand
  <2>5. HandOK' /\ StopOK' /\ LoopOK'
    BY Facts, <2>2 DEF IInv, HandOK, InHand, StopOK, LoopOK
  <2>6. NoTaskForgotten'
    BY <1>1, <1>2, <2>1 DEF IInv, NoTaskForgotten
  <2> QED  BY <2>3, <2>4, <2>5, <2>6 DEF IInv
<1>6. CASE ~(count' > MaxThread) /\ scheduler.i + 1 < ThreadsNum
  <2>1. scheduler' = [at |-> "loop", task |-> t, i |-> scheduler.i + 1] /\ queue' = queue
    BY Facts, <1>6 DEF NextThread, SchedulerType
  <2>2. scheduler.i + 1 \in 0 .. ThreadsNum - 1
    BY Facts, <1>6
  <2>3. scheduler' \in SchedulerType
    BY <1>0, <2>1, <2>2 DEF SchedulerType, Stages
  <2>4. TypeOK'
    BY Facts, <2>1, <2>3 DEF IInv, TypeOK, SchedulerType, Stages
  <2>5. CountOK'
    BY Facts, <1>2, <1>4, <1>6, <2>1 DEF CountOK, Uncounted, InHand
  <2>6. HandOK' /\ StopOK'
    BY <1>0, <2>1 DEF IInv, HandOK, InHand, StopOK
  <2>7. LoopOK'
    BY Facts, <1>0, <1>2, <1>3, <2>1 DEF LoopOK, Uncounted
  <2>8. NoTaskForgotten'
    BY <1>2, <2>1 DEF IInv, NoTaskForgotten
  <2> QED  BY <2>4, <2>5, <2>6, <2>7, <2>8 DEF IInv
<1>7. CASE ~(count' > MaxThread) /\ ~(scheduler.i + 1 < ThreadsNum)
  <2>1. scheduler' = Polls /\ queue' = queue
    BY <1>7 DEF NextThread
  <2>2. scheduler' \in SchedulerType /\ scheduler'.at = "poll" /\ scheduler'.task = None
    BY Facts, <2>1 DEF Polls, SchedulerType, Stages
  <2>3. TypeOK'
    BY Facts, <2>1, <2>2 DEF IInv, TypeOK, SchedulerType, Stages
  <2>4. CountOK'
    BY Facts, <1>2, <1>4, <2>2 DEF CountOK, Uncounted, InHand
  <2>5. HandOK' /\ StopOK' /\ LoopOK'
    BY Facts, <2>2 DEF IInv, HandOK, InHand, StopOK, LoopOK
  <2>6. ~should_stop[t] => Size(t) >= ThreadsNum
    BY Facts, <1>0, <1>3, <1>7
  <2>7. NoTaskForgotten'
    BY <1>2, <2>1, <2>6 DEF IInv, NoTaskForgotten
  <2> QED  BY <2>3, <2>4, <2>5, <2>7 DEF IInv
<1> QED  BY <1>5, <1>6, <1>7

\* Steps of a task's threads that move one of them on.
LEMMA CrowdMoves ==
  ASSUME IInv, NEW t \in Task, crowd' \in [Task -> Crowd], started' \in [Task -> Nat],
         \A u \in Task : Size(u)' = Size(u),
         \A u \in Task : u # t => crowd'[u] = crowd[u] /\ started'[u] = started[u],
         ~should_stop[t] => crowd'[t].leaving = 0 /\ started'[t] = crowd'[t].running,
         UNCHANGED <<task, queue, count, scheduler, shutdown, pushes>>
  PROVE  IInv'
<1> USE DEF task
<1>1. TypeOK'
  BY DEF IInv, TypeOK, Crowd
<1>2. CountOK'
  BY ThreadsKept DEF IInv, CountOK, Uncounted, InHand
<1>3. HandOK' /\ StopOK'
  BY DEF IInv, HandOK, InHand, StopOK
<1>4. LoopOK'
  BY DEF IInv, HandOK, InHand, LoopOK, Uncounted
<1>5. NoTaskForgotten'
  BY DEF IInv, NoTaskForgotten
<1> QED  BY <1>1, <1>2, <1>3, <1>4, <1>5 DEF IInv

LEMMA BeginIInv ==
  ASSUME IInv, NEW t \in Task, Begin(t)
  PROVE  IInv'
<1> DEFINE c == [new |-> crowd[t].new - 1, running |-> crowd[t].running + 1,
                 leaving |-> crowd[t].leaving]
<1>0. crowd \in [Task -> Crowd] /\ crowd[t] \in Crowd
  BY Facts
<1>a. c \in Crowd
  BY <1>0 DEF Begin, Crowd
<1>b. crowd' = [crowd EXCEPT ![t] = c]
  <2>1. crowd' = [crowd EXCEPT ![t] = [crowd[t] EXCEPT !.new = @ - 1, !.running = @ + 1]]
    BY <1>0 DEF Begin
  <2>2. [crowd[t] EXCEPT !.new = @ - 1, !.running = @ + 1] = c
    BY <1>0, OneMoves
  <2> QED  BY <2>1, <2>2
<1>1. /\ crowd' \in [Task -> Crowd] /\ crowd'[t] = c
      /\ \A u \in Task : u # t => crowd'[u] = crowd[u]
  BY <1>0, <1>a, <1>b, CrowdBecomes
<1>2. /\ started'[t] = started[t] + 1 /\ started' \in [Task -> Nat]
      /\ \A u \in Task : u # t => started'[u] = started[u]
  BY Facts DEF Begin
<1>3. \A u \in Task : Size(u)' = Size(u)
  BY <1>0, <1>a, <1>b, CrowdBecomes DEF Size, Crowd
<1>4. ~should_stop[t] => crowd'[t].leaving = 0 /\ started'[t] = crowd'[t].running
  BY Facts, <1>1, <1>2 DEF IInv, StopOK
<1> QED  BY <1>1, <1>2, <1>3, <1>4, CrowdMoves DEF Begin

LEMMA LeaveIInv ==
  ASSUME IInv, NEW t \in Task, Leave(t)
  PROVE  IInv'
<1> DEFINE c == [new |-> crowd[t].new, running |-> crowd[t].running - 1,
                 leaving |-> crowd[t].leaving + 1]
<1>0. crowd \in [Task -> Crowd] /\ crowd[t] \in Crowd
  BY Facts
<1>a. c \in Crowd
  BY <1>0 DEF Leave, Crowd
<1>b. crowd' = [crowd EXCEPT ![t] = c]
  <2>1. crowd' = [crowd EXCEPT ![t] = [crowd[t] EXCEPT !.running = @ - 1, !.leaving = @ + 1]]
    BY <1>0 DEF Leave
  <2>2. [crowd[t] EXCEPT !.running = @ - 1, !.leaving = @ + 1] = c
    BY <1>0, OneMoves
  <2> QED  BY <2>1, <2>2
<1>1. /\ crowd' \in [Task -> Crowd] /\ crowd'[t] = c
      /\ \A u \in Task : u # t => crowd'[u] = crowd[u]
  BY <1>0, <1>a, <1>b, CrowdBecomes
<1>2. \A u \in Task : Size(u)' = Size(u)
  BY <1>0, <1>a, <1>b, CrowdBecomes DEF Size, Crowd
<1> QED  BY Facts, <1>1, <1>2, CrowdMoves DEF Leave

LEMMA ReadFailsIInv ==
  ASSUME IInv, NEW t \in Task, ReadFails(t)
  PROVE  IInv'
<1> USE DEF ReadFails
<1>1. TypeOK'
  BY DEF IInv, TypeOK
<1>2. CountOK'
  BY CountKept
<1>3. HandOK' /\ StopOK'
  BY DEF IInv, TypeOK, HandOK, InHand, StopOK
<1>4. LoopOK'
  BY DEF IInv, TypeOK, HandOK, InHand, LoopOK, Size, Uncounted
<1>5. NoTaskForgotten'
  BY DEF IInv, TypeOK, NoTaskForgotten, Size
<1> QED  BY <1>1, <1>2, <1>3, <1>4, <1>5 DEF IInv

(***************************************************************************)
(* The thread that ends is one less in any case, and one less in the count *)
(* unless that is zero: then it is the thread that is not yet counted.     *)
(***************************************************************************)
LEMMA DeleteIInv ==
  ASSUME IInv, NEW t \in Task, DeleteClusterThreadNum(t)
  PROVE  IInv'
<1> USE DEF DeleteClusterThreadNum, task
<1>1. /\ crowd'[t] = [new |-> crowd[t].new, running |-> crowd[t].running,
                      leaving |-> crowd[t].leaving - 1]
      /\ \A u \in Task : u # t => crowd'[u] = crowd[u]
      /\ crowd' \in [Task -> Crowd]
  BY Facts DEF Crowd
<1>2. /\ Size(t) > 0 /\ Size(t)' = Size(t) - 1
      /\ \A u \in Task : u # t => Size(u)' = Size(u)
  BY Facts, <1>1 DEF Size, Crowd
<1>3. should_stop[t]
  BY Facts DEF IInv, StopOK
<1>4. count' \in Nat /\ count' <= count
  BY Facts
<1>5. TypeOK'
  BY <1>1, <1>4 DEF IInv, TypeOK, Crowd
<1>6. CountOK'
  <2>1. IsFiniteSet(Threads') /\ Cardinality(Threads') = Cardinality(Threads) - 1
    BY Facts, <1>2, ThreadRemoved DEF IInv
  <2>2. Uncounted' = Uncounted /\ Uncounted \in {0, 1} /\ (InHand' <=> InHand)
    BY DEF Uncounted, InHand
  <2>3. Cardinality(Threads) <= count + Uncounted
    BY DEF IInv, CountOK
  <2>4. Cardinality(Threads') <= count' + Uncounted'
    BY Facts, <2>1, <2>2, <2>3
  <2>5. count' <= IF InHand' THEN MaxThread ELSE MaxThread + 1
    BY Facts, <1>4, <2>2 DEF IInv, CountOK
  <2> QED  BY <2>1, <2>4, <2>5 DEF CountOK
<1>7. HandOK' /\ StopOK'
  BY <1>1, <1>3 DEF IInv, HandOK, InHand, StopOK
<1>8. LoopOK'
  BY <1>2, <1>3 DEF IInv, HandOK, InHand, LoopOK, Uncounted
<1>9. NoTaskForgotten'
  BY <1>2, <1>3 DEF IInv, NoTaskForgotten
<1> QED  BY <1>5, <1>6, <1>7, <1>8, <1>9 DEF IInv

-----------------------------------------------------------------------------
\* Every step of the scheduler, the threads and the group manager preserves IInv.
LEMMA NextIInv == IInv /\ [Next]_vars => IInv'
<1> SUFFICES ASSUME IInv, [Next]_vars PROVE IInv'
  OBVIOUS
<1>1. ASSUME NEW t \in Task, PushClusterThreadQueue(t) \/ StopClusterTask(t) \/ Erase(t)
      PROVE  IInv'
  BY <1>1, PushIInv, StopClusterTaskIInv, EraseIInv
<1>2. CASE ClearMaps \/ WakeUpAllClusterDownThread
  BY <1>2, ClearMapsIInv, WakeUpIInv
<1>3. CASE Schedule
  BY <1>3, RoundIInv, PopIInv, NothingToPopIInv, CheckIInv, CreateThreadIInv, CountThreadIInv
     DEF Schedule
<1>4. ASSUME NEW t \in Task, Download(t) PROVE IInv'
  BY <1>4, BeginIInv, ReadFailsIInv, LeaveIInv, DeleteIInv DEF Download
<1>5. CASE UNCHANGED vars
  <2>1. CountOK'
    BY <1>5, CountKept DEF vars
  <2>2. TypeOK' /\ HandOK' /\ StopOK' /\ LoopOK' /\ NoTaskForgotten'
    BY <1>5 DEF vars, task, IInv, TypeOK, HandOK, InHand, StopOK, LoopOK, Uncounted, Size,
       NoTaskForgotten
  <2> QED  BY <2>1, <2>2 DEF IInv
<1> QED  BY <1>1, <1>2, <1>3, <1>4, <1>5 DEF Next

\* IInv holds in every reachable state of bbts-group.
THEOREM InvariantHolds == Spec => []IInv
BY InitIInv, NextIInv, PTL DEF Spec

(***************************************************************************)
(* Counters, queue and scheduler keep their types; in particular the count *)
(* of DeleteClusterThreadNum is never negative, and the i of the loop in   *)
(* ClusterDownload stays below threads_num_.                               *)
(***************************************************************************)
THEOREM TypeCorrect == Spec => []TypeOK
<1>1. IInv => TypeOK
  BY DEF IInv
<1> QED  BY <1>1, InvariantHolds, PTL

(***************************************************************************)
(* However the creation, the counting and the end of threads interleave,   *)
(* ClusterDownload keeps the process to one thread more than its budget.   *)
(***************************************************************************)
THEOREM BudgetAlwaysKept == Spec => []BudgetKept
<1>1. ASSUME IInv PROVE BudgetKept
  <2>1. Cardinality(Threads) <= count + Uncounted
    BY <1>1 DEF IInv, CountOK
  <2>2. count + Uncounted <= MaxThread + 1
    BY <1>1, Facts DEF IInv, CountOK, Uncounted, InHand
  <2> QED  BY <1>1, <2>1, <2>2, Facts DEF BudgetKept, Uncounted
<1> QED  BY <1>1, InvariantHolds, PTL

(***************************************************************************)
(* A download that neither failed nor was stopped is in the queue, in the  *)
(* scheduler's hands, or has all its threads, whatever the budget did to   *)
(* the loop of ClusterDownload.                                            *)
(***************************************************************************)
THEOREM NoTaskEverForgotten == Spec => []NoTaskForgotten
<1>1. IInv => NoTaskForgotten
  BY DEF IInv
<1> QED  BY <1>1, InvariantHolds, PTL

-----------------------------------------------------------------------------
(***************************************************************************)
(* GroupCluster implements TaskThreads.                                    *)
(***************************************************************************)
OfThreads == [Lives!Next]_(Lives!vars)

\* Seen as TaskThreads, task t does one of these.
Begins(t) ==
  /\ started'[t] = started[t] + 1 /\ crowd'[t].running = crowd[t].running + 1
  /\ should_stop'[t] = should_stop[t]

Stops(t) ==
  /\ ~should_stop[t] /\ should_stop'[t]
  /\ started'[t] = started[t] /\ crowd'[t].running = crowd[t].running

Ends(t) ==
  /\ should_stop[t] /\ should_stop'[t] /\ crowd[t].running > 0
  /\ started'[t] = started[t] /\ crowd'[t].running = crowd[t].running - 1

Rests(t) ==
  /\ started'[t] = started[t] /\ crowd'[t].running = crowd[t].running
  /\ should_stop'[t] = should_stop[t]

LEMMA StepOfThreads ==
  ASSUME IInv, \A t \in Task : Begins(t) \/ Stops(t) \/ Ends(t) \/ Rests(t)
  PROVE  OfThreads
<1> DEFINE gone == [t \in Task |-> started[t] - crowd[t].running]
<1>1. ASSUME NEW t \in Task PROVE Lives!Begin(t) \/ Lives!Stop(t) \/ Lives!End(t) \/ Lives!Still(t)
  <2>1. started[t] \in Nat /\ crowd[t].running \in Nat
    BY Facts DEF Crowd
  <2>2. CASE Begins(t)
    BY <2>1, <2>2 DEF Begins, Lives!Begin
  <2>3. CASE Stops(t)
    BY <2>1, <2>3 DEF Stops, Lives!Stop
  <2>4. CASE Ends(t)
    BY <2>1, <2>4 DEF Ends, Lives!End
  <2>5. CASE Rests(t)
    BY <2>1, <2>5 DEF Rests, Lives!Still
  <2> QED  BY <2>2, <2>3, <2>4, <2>5
<1> QED  BY <1>1 DEF OfThreads, Lives!Next

LEMMA NextOfThreads == IInv /\ [Next]_vars => OfThreads
<1> SUFFICES ASSUME IInv, [Next]_vars PROVE OfThreads
  OBVIOUS
<1>0. \A t \in Task : /\ crowd[t] \in Crowd /\ crowd \in [Task -> Crowd]
                      /\ started \in [Task -> Nat] /\ should_stop \in [Task -> BOOLEAN]
  BY Facts DEF IInv, TypeOK
<1>1. CASE UNCHANGED <<started, crowd, should_stop>>
  <2>1. \A t \in Task : Rests(t)
    BY <1>1 DEF Rests
  <2> QED  BY <2>1, StepOfThreads
<1>2. CASE CreateThread
  <2>1. \A t \in Task : Rests(t)
    BY <1>0, <1>2 DEF CreateThread, task, Rests, Crowd
  <2> QED  BY <2>1, StepOfThreads
<1>3. ASSUME NEW t \in Task, StopClusterTask(t) \/ ReadFails(t) PROVE OfThreads
  <2>1. Stops(t) \/ Rests(t)
    BY <1>0, <1>3 DEF StopClusterTask, ReadFails, Stops, Rests
  <2>2. \A u \in Task : u # t => Rests(u)
    BY <1>0, <1>3 DEF StopClusterTask, ReadFails, Rests
  <2> QED  BY <2>1, <2>2, StepOfThreads
<1>4. CASE ClearMaps
  <2>1. \A t \in Task : Stops(t) \/ Rests(t)
    BY <1>0, <1>4 DEF ClearMaps, Stops, Rests
  <2> QED  BY <2>1, StepOfThreads
<1>5. ASSUME NEW t \in Task, Begin(t) PROVE OfThreads
  <2>1. Begins(t)
    BY <1>0, <1>5 DEF Begin, task, Begins, Crowd
  <2>2. \A u \in Task : u # t => Rests(u)
    BY <1>0, <1>5 DEF Begin, task, Rests
  <2> QED  BY <2>1, <2>2, StepOfThreads
<1>6. ASSUME NEW t \in Task, Leave(t) PROVE OfThreads
  <2>1. Ends(t)
    BY <1>0, <1>6 DEF Leave, task, Ends, Crowd
  <2>2. \A u \in Task : u # t => Rests(u)
    BY <1>0, <1>6 DEF Leave, task, Rests
  <2> QED  BY <2>1, <2>2, StepOfThreads
<1>7. ASSUME NEW t \in Task, DeleteClusterThreadNum(t) PROVE OfThreads
  <2>1. \A u \in Task : Rests(u)
    BY <1>0, <1>7 DEF DeleteClusterThreadNum, task, Rests, Crowd
  <2> QED  BY <2>1, StepOfThreads
<1>8. ASSUME NEW t \in Task, PushClusterThreadQueue(t) \/ Erase(t)
      PROVE  UNCHANGED <<started, crowd, should_stop>>
  BY <1>8 DEF PushClusterThreadQueue, Erase
<1>9. CASE WakeUpAllClusterDownThread \/ Round \/ Pop \/ NothingToPop \/ Check \/ CountThread
           \/ UNCHANGED vars
  BY <1>1, <1>9 DEF WakeUpAllClusterDownThread, Round, Pop, NothingToPop, Check, CountThread,
     vars, task
<1> QED
  BY <1>1, <1>2, <1>3, <1>4, <1>5, <1>6, <1>7, <1>8, <1>9 DEF Next, Schedule, Download

(***************************************************************************)
(* To GroupCluster a thread of GroupClusterTask::Download is what it is to *)
(* TaskThreads: it ends only after its task was stopped or has failed.     *)
(***************************************************************************)
THEOREM GroupImplementsTaskThreads == Spec => ImplementsTaskThreads
<1>1. Init => Lives!Init
  BY DEF Init, Nobody, Lives!Init
<1>2. IInv /\ [Next]_vars => [Lives!Next]_(Lives!vars)
  BY NextOfThreads DEF OfThreads
<1> QED  BY <1>1, <1>2, InvariantHolds, PTL DEF Spec, ImplementsTaskThreads, Lives!Spec
=============================================================================
