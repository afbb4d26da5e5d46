-------------------------- MODULE AgentTasks_proofs --------------------------
(***************************************************************************)
(* Proofs about AgentTasks, for every number of workers, tasks, infohashes *)
(* and paths, every set of requests and any number of crashes and faults:  *)
(* its safety invariants; that it implements AgentRegistry; that a task a  *)
(* client was told of runs until something ends it; and that a task that   *)
(* was ended is forgotten, its row telling why it ended.                   *)
(***************************************************************************)
EXTENDS AgentTasks, TLAPS

ThreadType == [at : At, id : Ids \cup {None}, req : Request \cup {None}]
RowType == [status : Status \cup {"none"}, ended : BOOLEAN]

-----------------------------------------------------------------------------
(***************************************************************************)
(* What the helpers of the actions give the variables they set.            *)
(***************************************************************************)
LEMMA UpdateStatusType ==
  ASSUME TypeOK, NEW t \in Ids, NEW b \in BOOLEAN, UpdateStatus(t, b)
  PROVE  row' \in [Ids -> RowType] /\ faults' \subseteq Ids
<1>1. GetStatusCode(t, b) \in Status
  BY DEF GetStatusCode, Status
<1>2. [status |-> GetStatusCode(t, b), ended |-> b \/ row[t].ended] \in RowType
  BY <1>1 DEF TypeOK, RowType, Status
<1>3. CASE UNCHANGED faults /\ row' = IF row[t] = NoRow THEN row ELSE
             [row EXCEPT ![t] = [status |-> GetStatusCode(t, b),
                                 ended |-> b \/ row[t].ended]]
  BY <1>2, <1>3 DEF TypeOK, RowType
<1>4. CASE faults' = faults \cup {t} /\ UNCHANGED row
  BY <1>4 DEF TypeOK, RowType
<1> QED
  BY <1>3, <1>4 DEF UpdateStatus

LEMMA ReleaseType ==
  ASSUME TypeOK, NEW w \in Thread, NEW t \in Ids, NEW at \in At,
         NEW after \in ThreadType, Release(w, t, at, after)
  PROVE  /\ thread' \in [Thread -> ThreadType]
         /\ row' \in [Ids -> RowType]
         /\ resume' \in [Ids -> {"none", "torn", "ok"}]
         /\ faults' \subseteq Ids
<1>1. [at |-> at, id |-> t, req |-> after.req] \in ThreadType
  BY DEF ThreadType
<1>2. CASE HeldElsewhere(w, t)
  BY <1>2 DEF Release, TypeOK, ThreadType, RowType, disk
<1>3. CASE ~HeldElsewhere(w, t)
  <2>1. thread' = [thread EXCEPT ![w] = [at |-> at, id |-> t, req |-> after.req]] /\ BeginDtor(t)
    BY <1>3 DEF Release
  <2>2. row' \in [Ids -> RowType] /\ faults' \subseteq Ids
    BY <2>1, UpdateStatusType DEF BeginDtor
  <2>3. resume' \in [Ids -> {"none", "torn", "ok"}]
    BY <2>1 DEF BeginDtor, TypeOK
  <2>4. thread' \in [Thread -> ThreadType]
    BY <1>1, <2>1 DEF TypeOK, ThreadType
  <2> QED  BY <2>2, <2>3, <2>4
<1> QED  BY <1>2, <1>3

LEMMA EraseType ==
  ASSUME TypeOK, NEW t \in Ids, ERASE_TASK_FROM_MAP(t)
  PROVE  /\ tasks_map' \subseteq Ids
         /\ infohash_map' \in [Infohash -> Ids \cup {None}]
         /\ data_path_map' \in [Path -> Ids \cup {None}]
  BY DEF TypeOK, ERASE_TASK_FROM_MAP

LEMMA IdleType == Idle \in ThreadType
  BY DEF Idle, ThreadType, At

LEMMA DropType ==
  ASSUME TypeOK, NEW w \in Thread, NEW t \in Ids, NEW f \in Fates,
         flags' \in [Ids -> SUBSET {"CANCELED", "PERSIST", "ERROR"}],
         Drop(w, t, f)
  PROVE  TypeOK'
<1>1. "dtor_locked" \in At
  BY DEF At
<1>2. /\ thread' \in [Thread -> ThreadType]
      /\ row' \in [Ids -> RowType]
      /\ resume' \in [Ids -> {"none", "torn", "ok"}]
      /\ faults' \subseteq Ids
  BY <1>1, IdleType, ReleaseType DEF Drop
<1>3. /\ tasks_map' \subseteq Ids
      /\ infohash_map' \in [Infohash -> Ids \cup {None}]
      /\ data_path_map' \in [Path -> Ids \cup {None}]
  BY EraseType DEF Drop
<1>4. fate' \in [Ids -> Fates]
  BY DEF Drop, TypeOK
<1> QED
  BY <1>2, <1>3, <1>4 DEF Drop, TypeOK, ThreadType, RowType

-----------------------------------------------------------------------------
(***************************************************************************)
(* The inductive invariant.  IndexesExact and NoOrphanTorrent do not carry *)
(* over a step by themselves: that erasing by key hits only entries of the *)
(* erased task, and that ADD_TASK_TO_MAP overwrites no running task, rests *)
(* on who may hold a reference, on torrents being unique per infohash, and *)
(* on ids being fresh.                                                     *)
(***************************************************************************)
\* A thread at one of these has the only reference to its task.
Sole == {"rowed", "added", "dtor", "dtor_locked", "persist_dtor", "persist_last"}
Holding == Sole \cup {"quit", "setopt"}

HoldOK(w) ==
  /\ thread[w].at \in Holding => thread[w].id \in Ids /\ thread[w].id < nextId
  /\ thread[w].at \notin Holding => thread[w].id = None
  /\ thread[w].at \in Sole \cup {"quit"} => thread[w].id \notin tasks_map
  /\ thread[w].at \in Sole => \A v \in Thread \ {w} : thread[v].id # thread[w].id
  /\ thread[w].at \in {"create", "quit"} => thread[w].req \in Request
  /\ thread[w].at = "rowed" => thread[w].id \notin session
  /\ thread[w].at = "added" => thread[w].id \in session
  /\ thread[w].at \in {"rowed", "added"} => seed[thread[w].id] # "lost"

\* Ids not yet handed out are untouched, the others have their request.
BornOK ==
  \A t \in Ids :
    /\ t < nextId => info[t] \in Request
    /\ ~(t < nextId) => /\ t \notin session /\ resume[t] = "none"
                        /\ seed[t] = "none"

SessionOK ==
  /\ NoOrphanTorrent
  /\ \A t, u \in session : info[t].infohash = info[u].infohash => t = u

IInv ==
  /\ TypeOK
  /\ \A w \in Thread : HoldOK(w)
  /\ BornOK
  /\ SessionOK
  /\ IndexesExact
  /\ FinishedAlertNotLost

-----------------------------------------------------------------------------
(***************************************************************************)
(* Erasing a running task leaves the indexes exact: its keys belong to it. *)
(***************************************************************************)
LEMMA EraseKeepsIndexes ==
  ASSUME IInv, NEW t \in tasks_map, ERASE_TASK_FROM_MAP(t), UNCHANGED <<info, nextId>>
  PROVE  IndexesExact'
<1>1. \A u \in tasks_map : u \in Ids /\ u \in session /\ info[u] \in Request
  BY DEF IInv, TypeOK, SessionOK, NoOrphanTorrent, BornOK
<1>2. \A u \in tasks_map : info[u].infohash \in Infohash /\ info[u].data_path \in Path
  BY <1>1, RequestAssumption DEF Requests
<1>3. \A u \in tasks_map : info[u].infohash = info[t].infohash => u = t
  BY <1>1 DEF IInv, SessionOK
<1>4. None \notin Ids
  BY NoneAssumption
<1>5. \A u \in tasks_map' : infohash_map'[info'[u].infohash] = u
  BY <1>2, <1>3 DEF IInv, TypeOK, IndexesExact, ERASE_TASK_FROM_MAP
<1>6. \A h \in Infohash : infohash_map'[h] # None =>
        infohash_map'[h] \in tasks_map' /\ info'[infohash_map'[h]].infohash = h
  BY <1>2, <1>3 DEF IInv, TypeOK, IndexesExact, ERASE_TASK_FROM_MAP
<1>7. \A p \in Path : data_path_map'[p] # None =>
        data_path_map'[p] \in tasks_map' /\ info'[data_path_map'[p]].data_path = p
  BY <1>2 DEF IInv, TypeOK, IndexesExact, ERASE_TASK_FROM_MAP
<1> QED
  BY <1>5, <1>6, <1>7 DEF IndexesExact

(***************************************************************************)
(* Letting go of a reference that is in no map any more keeps HoldOK and   *)
(* leaves no torrent without an owner: either somebody else holds the task *)
(* or the destructor has begun.                                            *)
(***************************************************************************)
LEMMA ReleaseKeepsHold ==
  ASSUME IInv, NEW w \in Thread, NEW t \in Ids, t < nextId,
         NEW at \in {"dtor", "dtor_locked", "persist_dtor", "persist_last"},
         NEW after \in ThreadType,
         after.id = None, after.at \notin Holding,
         after.at = "create" => after.req \in Request,
         thread[w].at \notin Sole, thread[w].id \in {None, t},
         \A v \in Thread \ {w} : thread[v].id = t => thread[v].at \in {"quit", "setopt"},
         Release(w, t, at, after),
         t \notin tasks_map', tasks_map' \subseteq tasks_map, tasks_map \subseteq tasks_map' \cup {t},
         UNCHANGED <<session, nextId, seed>>
  PROVE  (\A v \in Thread : HoldOK(v)') /\ (session' \subseteq Live')
<1>0. /\ thread \in [Thread -> ThreadType] /\ None \notin Ids
      /\ \A v \in Thread : HoldOK(v)
      /\ session \subseteq Ids /\ session \subseteq Live
  BY NoneAssumption DEF IInv, TypeOK, ThreadType, SessionOK, NoOrphanTorrent
<1>1. CASE HeldElsewhere(w, t)
  <2>1. thread' = [thread EXCEPT ![w] = after]
    BY <1>1 DEF Release
  <2>2. \A v \in Thread : HoldOK(v)'
    BY <1>0, <2>1 DEF HoldOK, Holding, Sole, ThreadType
  <2>3. \A u \in session : u \in Live'
    <3> SUFFICES ASSUME NEW u \in session PROVE u \in Live'
      OBVIOUS
    <3>1. CASE u = t
      BY <1>0, <1>1, <2>1, <3>1 DEF HeldElsewhere, Live
    <3>2. CASE u # t
      BY <1>0, <2>1, <3>2 DEF Live
    <3> QED  BY <3>1, <3>2
  <2> QED  BY <2>2, <2>3
<1>2. CASE ~HeldElsewhere(w, t)
  <2>1. thread' = [thread EXCEPT ![w] = [at |-> at, id |-> t, req |-> after.req]]
    BY <1>2 DEF Release
  <2>2. \A v \in Thread \ {w} : thread[v].id # t
    BY <1>2 DEF HeldElsewhere
  <2>3. HoldOK(w)'
    BY <1>0, <2>1, <2>2 DEF HoldOK, Holding, Sole, ThreadType
  <2>4. \A v \in Thread \ {w} : HoldOK(v)'
    BY <1>0, <2>1, <2>2 DEF HoldOK, Holding, Sole, ThreadType
  <2>5. \A u \in session : u \in Live'
    <3> SUFFICES ASSUME NEW u \in session PROVE u \in Live'
      OBVIOUS
    <3>1. CASE u = t
      BY <1>0, <2>1, <3>1 DEF Live
    <3>2. CASE u # t
      BY <1>0, <2>1, <3>2 DEF Live
    <3> QED  BY <3>1, <3>2
  <2> QED  BY <2>3, <2>4, <2>5
<1> QED  BY <1>1, <1>2

-----------------------------------------------------------------------------
(***************************************************************************)
(* One lemma for each action, or for the actions that do the same to the   *)
(* state the invariant is about.                                           *)
(***************************************************************************)
LEMMA InitIInv == Init => IInv
<1> SUFFICES ASSUME Init PROVE IInv
  OBVIOUS
<1>1. TypeOK
  BY BoundAssumption DEF Init, TypeOK, Phase, Ids, Idle, At, NoRow, Fates, Status
<1>2. \A w \in Thread : HoldOK(w)
  BY DEF Init, HoldOK, Idle, Holding, Sole
<1>3. BornOK /\ SessionOK /\ IndexesExact /\ FinishedAlertNotLost
  BY DEF Init, BornOK, SessionOK, NoOrphanTorrent, IndexesExact, FinishedAlertNotLost, Ids
<1> QED  BY <1>1, <1>2, <1>3 DEF IInv

LEMMA StutterIInv ==
  ASSUME IInv, UNCHANGED vars
  PROVE  IInv'
  BY DEF IInv, TypeOK, HoldOK, BornOK, SessionOK, NoOrphanTorrent, Live, IndexesExact,
         FinishedAlertNotLost, vars, maps, object, disk, history

(***************************************************************************)
(* A step that changes nothing of the tasks: only the phase, the rows and  *)
(* which torrents are paused.                                              *)
(***************************************************************************)
LEMMA AsideIInv ==
  ASSUME IInv, TypeOK',
         UNCHANGED <<nextId, info, maps, session, seed, thread, resume>>
  PROVE  IInv'
  BY DEF IInv, HoldOK, BornOK, SessionOK, NoOrphanTorrent, Live, IndexesExact,
         FinishedAlertNotLost, maps

LEMMA PauseIInv ==
  ASSUME IInv, NEW w \in Worker, NEW t \in Ids, Pause(w, t) \/ Resume(w, t)
  PROVE  IInv'
<1>1. TypeOK'
  BY DEF IInv, TypeOK, Pause, Resume, maps, disk, history
<1> QED  BY <1>1, AsideIInv DEF Pause, Resume, disk

LEMMA CleanerIInv ==
  ASSUME IInv, NEW t \in Ids, DeleteDataTimerCallback(t)
  PROVE  IInv'
<1>1. TypeOK'
  BY DEF IInv, TypeOK, DeleteDataTimerCallback, NoRow, maps, object, history
<1> QED  BY <1>1, AsideIInv DEF DeleteDataTimerCallback, object

LEMMA StopPoolIInv ==
  ASSUME IInv, StopPool
  PROVE  IInv'
<1>1. TypeOK'
  BY DEF IInv, TypeOK, StopPool, Phase, maps, object, disk, history
<1> QED  BY <1>1, AsideIInv DEF StopPool, object, disk

(***************************************************************************)
(* A step of thread w that holds no task before it and none after it.      *)
(***************************************************************************)
LEMMA MoveIInv ==
  ASSUME IInv, TypeOK', NEW w \in Thread, NEW new \in ThreadType,
         thread' = [thread EXCEPT ![w] = new],
         thread[w].id = None, new.id = None, new.at \notin Holding,
         new.at = "create" => new.req \in Request,
         UNCHANGED <<nextId, info, maps, session, seed, resume>>
  PROVE  IInv'
<1>0. thread \in [Thread -> ThreadType] /\ None \notin Ids /\ thread[w].at \notin Holding
  BY NoneAssumption DEF IInv, TypeOK, ThreadType, HoldOK
<1>1. \A v \in Thread : HoldOK(v)'
  BY <1>0 DEF IInv, HoldOK, Holding, Sole, ThreadType, maps
<1>2. session \subseteq Live'
  BY <1>0 DEF IInv, TypeOK, SessionOK, NoOrphanTorrent, Live, maps
<1>3. SessionOK'
  BY <1>2 DEF IInv, SessionOK, NoOrphanTorrent, maps
<1>4. BornOK' /\ IndexesExact' /\ FinishedAlertNotLost'
  BY DEF IInv, BornOK, IndexesExact, FinishedAlertNotLost, maps
<1> QED  BY <1>1, <1>3, <1>4 DEF IInv

LEMMA AddTaskIInv ==
  ASSUME IInv, NEW w \in Worker, NEW r \in Request, AddTask(w, r)
  PROVE  IInv'
<1> DEFINE new == [at |-> "create", id |-> None, req |-> r]
<1>1. new \in ThreadType /\ w \in Thread
  BY DEF ThreadType, At, Thread
<1>2. thread' = [thread EXCEPT ![w] = new] /\ thread[w].id = None
  BY DEF AddTask, Ready, Idle
<1>3. TypeOK'
  BY <1>1, <1>2 DEF IInv, TypeOK, ThreadType, AddTask, maps, object, disk, history
<1>4. new.id = None /\ new.at \notin Holding /\ new.req \in Request
  BY DEF Holding, Sole
<1> HIDE DEF new
<1> QED  BY <1>1, <1>2, <1>3, <1>4, MoveIInv DEF AddTask, object, disk

LEMMA GenTaskIdFailsIInv ==
  ASSUME IInv, NEW w \in Thread, GenTaskIdFails(w)
  PROVE  IInv'
<1>1. thread[w].id = None
  BY DEF IInv, HoldOK, GenTaskIdFails, Holding, Sole
<1>2. TypeOK'
  BY IdleType DEF IInv, TypeOK, ThreadType, GenTaskIdFails, maps, object, disk, history
<1>3. Idle.id = None /\ Idle.at \notin Holding /\ Idle.at # "create"
  BY DEF Idle, Holding, Sole
<1> QED  BY <1>1, <1>2, <1>3, IdleType, MoveIInv DEF GenTaskIdFails, object, disk

LEMMA StopIInv ==
  ASSUME IInv, NEW w \in Thread, Stop(w) \/ PersistNothing(w)
  PROVE  IInv'
<1>0. thread \in [Thread -> ThreadType] /\ thread[w].id = None
  BY DEF IInv, TypeOK, ThreadType, HoldOK, Stop, PersistNothing, Holding, Sole, Idle
<1>1. PICK at \in {"persist", "stopped"} :
        thread' = [thread EXCEPT ![w] = [at |-> at, id |-> None, req |-> thread[w].req]]
  BY <1>0 DEF Stop, PersistNothing, ThreadType
<1> DEFINE new == [at |-> at, id |-> None, req |-> thread[w].req]
<1>2. new \in ThreadType
  BY <1>0 DEF ThreadType, At
<1>3. TypeOK'
  BY <1>1, <1>2 DEF IInv, TypeOK, ThreadType, Stop, PersistNothing, Phase, maps, object, disk, history
<1>4. new.id = None /\ new.at \notin Holding /\ new.at # "create"
  BY DEF Holding, Sole
<1> HIDE DEF new
<1>5. thread' = [thread EXCEPT ![w] = new]
  BY <1>1 DEF new
<1> QED  BY <1>0, <1>2, <1>3, <1>4, <1>5, MoveIInv DEF Stop, PersistNothing, object, disk

(***************************************************************************)
(* AddTask displacing an older task: whichever index found it, it runs, so *)
(* its entries are its own and no thread has it to itself.                 *)
(***************************************************************************)
LEMMA AddTaskDisplacingIInv ==
  ASSUME IInv, NEW w \in Worker, NEW r \in Request, AddTaskDisplacing(w, r)
  PROVE  IInv'
<1> DEFINE d == Duplicate(r)
<1> DEFINE new == [at |-> "quit", id |-> d, req |-> r]
<1>0. /\ thread \in [Thread -> ThreadType] /\ None \notin Ids /\ w \in Thread
      /\ thread[w].id = None /\ thread[w].at = "idle"
      /\ \A v \in Thread : HoldOK(v)
      /\ session \subseteq Ids /\ session \subseteq Live /\ tasks_map \subseteq session
  BY NoneAssumption DEF IInv, TypeOK, ThreadType, SessionOK, NoOrphanTorrent,
     AddTaskDisplacing, Ready, Idle, Thread
<1>1. r.infohash \in Infohash /\ r.data_path \in Path
  BY RequestAssumption DEF Requests
<1>2. d \in tasks_map
  BY <1>1 DEF IInv, IndexesExact, Duplicate, AddTaskDisplacing
<1>3. d \in Ids /\ d < nextId
  BY <1>0, <1>2 DEF BornOK, IInv
<1> HIDE DEF d
<1>4. /\ ERASE_TASK_FROM_MAP(d) /\ session' = session \ {d}
      /\ thread' = [thread EXCEPT ![w] = new]
      /\ flags' = [flags EXCEPT ![d] = @ \cup {"CANCELED"}]
      /\ fate' = [fate EXCEPT ![d] = "displaced"]
      /\ tasks_map' = tasks_map \ {d}
      /\ UNCHANGED <<phase, nextId, info, paused, seed, disk, acked, faults, crashes>>
  BY DEF AddTaskDisplacing, d, ERASE_TASK_FROM_MAP
<1>5. new \in ThreadType
  BY <1>3 DEF ThreadType, At
<1>6. TypeOK'
  <2>1. /\ tasks_map' \subseteq Ids
        /\ infohash_map' \in [Infohash -> Ids \cup {None}]
        /\ data_path_map' \in [Path -> Ids \cup {None}]
    BY <1>3, <1>4, EraseType DEF IInv
  <2>2. thread' \in [Thread -> ThreadType]
    BY <1>0, <1>4, <1>5
  <2> QED
    BY <1>4, <2>1, <2>2 DEF IInv, TypeOK, ThreadType, Fates, disk
<1>7. \A v \in Thread : HoldOK(v)'
  BY <1>0, <1>2, <1>3, <1>4 DEF HoldOK, Holding, Sole, ThreadType
<1>8. SessionOK'
  <2>1. session' \subseteq Live'
    BY <1>0, <1>4 DEF Live
  <2> QED
    BY <1>0, <1>4, <2>1 DEF IInv, SessionOK, NoOrphanTorrent
<1>9. BornOK' /\ FinishedAlertNotLost'
  BY <1>4 DEF IInv, BornOK, FinishedAlertNotLost, disk
<1>10. IndexesExact'
  BY <1>2, <1>4, EraseKeepsIndexes
<1> QED  BY <1>6, <1>7, <1>8, <1>9, <1>10 DEF IInv

(***************************************************************************)
(* A thread drops the reference it took under the lock, after the lock.    *)
(***************************************************************************)
LEMMA LetGoIInv ==
  ASSUME IInv, NEW w \in Thread, NEW after \in ThreadType,
         thread[w].at \in {"quit", "setopt"}, thread[w].id \notin tasks_map,
         after.id = None, after.at \in {"create", "idle"},
         after.at = "create" => after.req \in Request,
         Release(w, thread[w].id, "dtor", after), UNCHANGED flags,
         UNCHANGED <<phase, nextId, info, maps, session, paused, seed, acked, fate, crashes>>
  PROVE  IInv'
<1> DEFINE t == thread[w].id
<1>0. /\ thread \in [Thread -> ThreadType] /\ None \notin Ids
      /\ \A v \in Thread : HoldOK(v)
      /\ t \in Ids /\ t < nextId /\ thread[w].at \notin Sole
  BY NoneAssumption DEF IInv, TypeOK, ThreadType, HoldOK, Holding, Sole
<1>1. \A v \in Thread \ {w} : thread[v].id = t => thread[v].at \in {"quit", "setopt"}
  BY <1>0 DEF HoldOK, Holding
<1>2. after.at \notin Holding /\ "dtor" \in At
  BY DEF Holding, Sole, At
<1>3. /\ thread' \in [Thread -> ThreadType]
      /\ row' \in [Ids -> RowType]
      /\ resume' \in [Ids -> {"none", "torn", "ok"}]
      /\ faults' \subseteq Ids
  BY <1>0, <1>2, ReleaseType DEF IInv
<1>4. TypeOK'
  BY <1>3 DEF IInv, TypeOK, ThreadType, RowType, maps
<1>5. (\A v \in Thread : HoldOK(v)') /\ session' \subseteq Live'
  BY <1>0, <1>1, <1>2, ReleaseKeepsHold DEF maps
<1>6. \A u \in Ids : u # t => resume'[u] = resume[u]
  BY DEF Release, BeginDtor, disk, IInv, TypeOK
<1>7. BornOK'
  BY <1>0, <1>6 DEF IInv, BornOK
<1>8. SessionOK' /\ IndexesExact' /\ FinishedAlertNotLost'
  BY <1>5 DEF IInv, SessionOK, NoOrphanTorrent, IndexesExact, FinishedAlertNotLost, maps
<1> QED  BY <1>4, <1>5, <1>7, <1>8 DEF IInv

LEMMA ReleaseDupIInv ==
  ASSUME IInv, NEW w \in Thread, ReleaseDup(w)
  PROVE  IInv'
<1> DEFINE after == [at |-> "create", id |-> None, req |-> thread[w].req]
<1>1. /\ thread[w].at = "quit" /\ thread[w].id \notin tasks_map
      /\ thread[w].req \in Request
  BY DEF IInv, HoldOK, ReleaseDup
<1>2. after \in ThreadType
  BY <1>1 DEF ThreadType, At
<1>3. after.id = None /\ after.at = "create" /\ after.req \in Request
  BY <1>1
<1>4. Release(w, thread[w].id, "dtor", after) /\ UNCHANGED flags
  BY DEF ReleaseDup
<1> HIDE DEF after
<1> QED  BY <1>1, <1>2, <1>3, <1>4, LetGoIInv DEF ReleaseDup

LEMMA TaskSetoptEndsIInv ==
  ASSUME IInv, NEW w \in Thread, TaskSetoptEnds(w)
  PROVE  IInv'
<1>0. /\ thread \in [Thread -> ThreadType] /\ None \notin Ids
      /\ \A v \in Thread : HoldOK(v)
      /\ thread[w].at = "setopt"
  BY NoneAssumption DEF IInv, TypeOK, ThreadType, TaskSetoptEnds
<1>1. CASE thread[w].id \in tasks_map
  <2>1. /\ thread' = [thread EXCEPT ![w] = Idle]
        /\ UNCHANGED <<phase, nextId, info, maps, session, paused, seed, flags, disk, faults,
                       acked, fate, crashes>>
    BY <1>1 DEF TaskSetoptEnds
  <2>2. TypeOK'
    BY <2>1, IdleType DEF IInv, TypeOK, ThreadType, maps, disk
  <2>3. \A v \in Thread : HoldOK(v)'
    BY <1>0, <2>1 DEF HoldOK, Holding, Sole, ThreadType, Idle, maps
  <2>4. session' \subseteq Live'
    BY <1>0, <1>1, <2>1 DEF IInv, SessionOK, NoOrphanTorrent, Live, maps
  <2>5. BornOK' /\ SessionOK' /\ IndexesExact' /\ FinishedAlertNotLost'
    BY <2>1, <2>4 DEF IInv, BornOK, SessionOK, NoOrphanTorrent, IndexesExact,
       FinishedAlertNotLost, maps, disk
  <2> QED  BY <2>2, <2>3, <2>5 DEF IInv
<1>2. CASE thread[w].id \notin tasks_map
  <2>1. Release(w, thread[w].id, "dtor", Idle) /\ UNCHANGED flags
    BY <1>2 DEF TaskSetoptEnds
  <2>2. Idle.id = None /\ Idle.at = "idle"
    BY DEF Idle
  <2> QED  BY <1>0, <1>2, <2>1, <2>2, IdleType, LetGoIInv DEF TaskSetoptEnds
<1> QED  BY <1>1, <1>2

(***************************************************************************)
(* Task::Create: a fresh id, then a torrent no other task has, then the    *)
(* maps.                                                                   *)
(***************************************************************************)
LEMMA GenTaskIdIInv ==
  ASSUME IInv, NEW w \in Thread, GenTaskId(w)
  PROVE  IInv'
<1> DEFINE new == [at |-> "rowed", id |-> nextId, req |-> None]
<1>a. nextId \in Nat /\ MaxId \in Nat /\ nextId \in Ids /\ \A u \in Ids : u \in Nat
  BY BoundAssumption DEF IInv, TypeOK, GenTaskId, Ids
<1>b. /\ thread \in [Thread -> ThreadType] /\ None \notin Ids
      /\ \A v \in Thread : HoldOK(v)
      /\ thread[w].at = "create"
      /\ thread' = [thread EXCEPT ![w] = new]
      /\ nextId' = nextId + 1
  BY NoneAssumption DEF IInv, TypeOK, ThreadType, GenTaskId
<1>c. thread[w].req \in Request /\ thread[w].id = None
  BY <1>b DEF HoldOK, Holding, Sole
<1>0. /\ thread \in [Thread -> ThreadType] /\ None \notin Ids
      /\ \A v \in Thread : HoldOK(v)
      /\ nextId \in Ids /\ nextId \in Nat /\ MaxId \in Nat
      /\ thread[w].req \in Request /\ thread[w].id = None
      /\ thread' = [thread EXCEPT ![w] = new]
      /\ nextId' = nextId + 1
      /\ \A u \in Ids : u \in Nat
  BY <1>a, <1>b, <1>c
<1>1. new \in ThreadType
  BY <1>0 DEF ThreadType, At
<1>2. TypeOK'
  <2>1. nextId' \in 1 .. MaxId + 1
    BY <1>0 DEF Ids
  <2>2. thread' \in [Thread -> ThreadType]
    BY <1>0, <1>1
  <2>3. info' \in [Ids -> Request \cup {None}] /\ row' \in [Ids -> RowType]
    BY <1>0 DEF IInv, TypeOK, GenTaskId, RowType, Status
  <2> QED
    BY <2>1, <2>2, <2>3 DEF IInv, TypeOK, ThreadType, RowType, GenTaskId, maps, object, history
<1>3. nextId \notin session /\ nextId \notin tasks_map /\ seed[nextId] = "none"
  BY <1>0 DEF IInv, BornOK, SessionOK, NoOrphanTorrent
<1>4. \A v \in Thread : thread[v].id # nextId
  BY <1>0 DEF HoldOK, Holding
<1>5. UNCHANGED <<tasks_map, session, seed>>
  BY DEF GenTaskId, maps, object
<1>6. HoldOK(w)'
  BY <1>0, <1>3, <1>4, <1>5 DEF HoldOK, Holding, Sole, ThreadType
<1>7. \A v \in Thread \ {w} : HoldOK(v)'
  <2> SUFFICES ASSUME NEW v \in Thread \ {w} PROVE HoldOK(v)'
    OBVIOUS
  <2>1. thread'[v] = thread[v] /\ HoldOK(v)
    BY <1>0
  <2>2. thread[v].at \in Holding => thread[v].id < nextId'
    <3> SUFFICES ASSUME thread[v].at \in Holding PROVE thread[v].id < nextId'
      OBVIOUS
    <3>1. thread[v].id \in Ids /\ thread[v].id < nextId
      BY <2>1 DEF HoldOK
    <3>2. thread[v].id \in Nat
      BY <1>0, <3>1
    <3> QED  BY <1>0, <3>1, <3>2
  <2>3. thread[v].at \in Sole =>
          \A u \in Thread \ {v} : thread'[u].id # thread[v].id
    BY <1>0, <1>4, <2>1 DEF HoldOK, ThreadType
  <2> QED  BY <1>5, <2>1, <2>2, <2>3 DEF HoldOK
<1>8. BornOK'
  <2>1. \A u \in Ids : u # nextId => info'[u] = info[u]
    BY DEF GenTaskId, IInv, TypeOK
  <2>2. info'[nextId] \in Request
    BY <1>0 DEF GenTaskId, IInv, TypeOK
  <2>3. \A u \in Ids : u < nextId' <=> (u < nextId \/ u = nextId)
    BY <1>0
  <2> QED
    BY <2>1, <2>2, <2>3 DEF IInv, BornOK, GenTaskId, maps, object
<1>9. session' \subseteq Live'
  BY <1>0, <1>5 DEF IInv, SessionOK, NoOrphanTorrent, Live
<1>10. \A u \in session : info'[u] = info[u]
  BY <1>3 DEF GenTaskId, IInv, TypeOK
<1>11. SessionOK' /\ IndexesExact'
  BY <1>5, <1>9, <1>10 DEF IInv, SessionOK, NoOrphanTorrent, IndexesExact, GenTaskId, maps
<1>12. FinishedAlertNotLost'
  BY <1>5 DEF IInv, FinishedAlertNotLost
<1> QED  BY <1>2, <1>6, <1>7, <1>8, <1>11, <1>12 DEF IInv

LEMMA AddTorrentFailsIInv ==
  ASSUME IInv, NEW w \in Thread, AddTorrentFails(w)
  PROVE  IInv'
<1>0. /\ thread \in [Thread -> ThreadType] /\ None \notin Ids
      /\ \A v \in Thread : HoldOK(v)
      /\ thread[w].at = "rowed" /\ thread[w].id \in Ids
      /\ thread[w].id \notin session
      /\ thread' = [thread EXCEPT ![w] = Idle]
      /\ UNCHANGED <<nextId, info, maps, session, seed, resume>>
  BY NoneAssumption DEF IInv, TypeOK, ThreadType, AddTorrentFails, HoldOK, Holding, Sole, object, disk
<1>1. TypeOK'
  BY IdleType DEF IInv, TypeOK, ThreadType, AddTorrentFails, Fates, maps, object, disk
<1>2. \A v \in Thread : HoldOK(v)'
  BY <1>0 DEF HoldOK, Holding, Sole, ThreadType, Idle, maps
<1>3. session' \subseteq Live'
  BY <1>0 DEF IInv, TypeOK, SessionOK, NoOrphanTorrent, Live, maps
<1>4. BornOK' /\ SessionOK' /\ IndexesExact' /\ FinishedAlertNotLost'
  BY <1>0, <1>3 DEF IInv, BornOK, SessionOK, NoOrphanTorrent, IndexesExact,
     FinishedAlertNotLost, maps
<1> QED  BY <1>1, <1>2, <1>4 DEF IInv

LEMMA AddTorrentIInv ==
  ASSUME IInv, NEW w \in Thread, AddTorrent(w)
  PROVE  IInv'
<1> DEFINE t == thread[w].id
<1>0. /\ thread \in [Thread -> ThreadType] /\ None \notin Ids
      /\ \A v \in Thread : HoldOK(v)
      /\ thread[w].at = "rowed" /\ t \in Ids /\ t < nextId
      /\ thread' = [thread EXCEPT ![w].at = "added"]
      /\ thread'[w].at = "added" /\ thread'[w].id = t
      /\ session' = session \cup {t}
      /\ UNCHANGED <<nextId, info, maps, seed>>
  BY NoneAssumption DEF IInv, TypeOK, ThreadType, AddTorrent, HoldOK, Holding, Sole, object
<1>1. TypeOK'
  BY <1>0 DEF IInv, TypeOK, ThreadType, AddTorrent, At, maps, object, history
<1>2. \A v \in Thread : HoldOK(v)'
  BY <1>0 DEF HoldOK, Holding, Sole, ThreadType, maps
<1>3. session' \subseteq Live'
  BY <1>0 DEF IInv, TypeOK, SessionOK, NoOrphanTorrent, Live, maps, ThreadType
<1>4. SessionOK'
  BY <1>0, <1>3 DEF IInv, SessionOK, NoOrphanTorrent, AddTorrent, maps
<1>5. BornOK'
  BY <1>0 DEF IInv, TypeOK, BornOK, AddTorrent
<1>6. IndexesExact' /\ FinishedAlertNotLost'
  BY <1>0 DEF IInv, IndexesExact, FinishedAlertNotLost, maps
<1> QED  BY <1>1, <1>2, <1>4, <1>5, <1>6 DEF IInv

LEMMA FinishCreateIInv ==
  ASSUME IInv, NEW w \in Thread, FinishCreate(w)
  PROVE  IInv'
<1> DEFINE t == thread[w].id
<1>0. /\ thread \in [Thread -> ThreadType] /\ None \notin Ids
      /\ \A v \in Thread : HoldOK(v)
      /\ thread[w].at = "added" /\ t \in Ids /\ t < nextId /\ t \in session
      /\ t \notin tasks_map /\ seed[t] # "lost"
      /\ thread' = [thread EXCEPT ![w] = Idle]
      /\ ADD_TASK_TO_MAP(t)
      /\ UNCHANGED <<nextId, info, session, seed>>
  BY NoneAssumption DEF IInv, TypeOK, ThreadType, FinishCreate, HoldOK, Holding, Sole, object
<1>1. info[t] \in Request /\ info[t].infohash \in Infohash /\ info[t].data_path \in Path
  BY <1>0, RequestAssumption DEF IInv, BornOK, Requests
<1>2. TypeOK'
  <2>1. thread' \in [Thread -> ThreadType]
    BY <1>0, IdleType
  <2>2. /\ tasks_map' \subseteq Ids
        /\ infohash_map' \in [Infohash -> Ids \cup {None}]
        /\ data_path_map' \in [Path -> Ids \cup {None}]
    BY <1>0 DEF IInv, TypeOK, ADD_TASK_TO_MAP
  <2>3. resume' \in [Ids -> {"none", "torn", "ok"}] /\ faults' \subseteq Ids /\ acked' \subseteq Ids
    BY <1>0 DEF IInv, TypeOK, FinishCreate
  <2> QED
    BY <2>1, <2>2, <2>3 DEF IInv, TypeOK, ThreadType, FinishCreate, object
<1>3. \A v \in Thread : HoldOK(v)'
  BY <1>0 DEF HoldOK, Holding, Sole, ThreadType, Idle, ADD_TASK_TO_MAP
<1>4. session' \subseteq Live'
  BY <1>0 DEF IInv, TypeOK, SessionOK, NoOrphanTorrent, Live, ADD_TASK_TO_MAP
<1>5. SessionOK' /\ FinishedAlertNotLost'
  BY <1>0, <1>4 DEF IInv, SessionOK, NoOrphanTorrent, FinishedAlertNotLost, ADD_TASK_TO_MAP
<1>6. BornOK'
  BY <1>0 DEF IInv, TypeOK, BornOK, FinishCreate
<1>7. IndexesExact'
  <2>1. \A u \in tasks_map : u \in session /\ u # t /\ info[u].infohash # info[t].infohash
    BY <1>0 DEF IInv, SessionOK, NoOrphanTorrent
  <2> QED
    BY <1>0, <1>1, <2>1 DEF IInv, TypeOK, IndexesExact, ADD_TASK_TO_MAP
<1> QED  BY <1>2, <1>3, <1>5, <1>6, <1>7 DEF IInv

(***************************************************************************)
(* The handlers that end a running task under the lock: a cancel, a        *)
(* torrent error, an expired seeding time.                                 *)
(***************************************************************************)
LEMMA DropIInv ==
  ASSUME IInv, NEW w \in Worker, NEW t \in tasks_map, NEW f \in Fates, Ready(w),
         flags' \in [Ids -> SUBSET {"CANCELED", "PERSIST", "ERROR"}],
         Drop(w, t, f)
  PROVE  IInv'
<1>0. /\ thread \in [Thread -> ThreadType] /\ None \notin Ids /\ w \in Thread
      /\ \A v \in Thread : HoldOK(v)
      /\ thread[w].id = None /\ thread[w].at \notin Sole
  BY NoneAssumption DEF IInv, TypeOK, ThreadType, Ready, Idle, Thread, Sole
<1>1. t \in Ids /\ t \in session /\ t < nextId
  BY DEF IInv, TypeOK, SessionOK, NoOrphanTorrent, BornOK
<1>2. TypeOK'
  BY <1>0, <1>1, DropType DEF IInv
<1>3. /\ ERASE_TASK_FROM_MAP(t) /\ tasks_map' = tasks_map \ {t}
      /\ Release(w, t, "dtor_locked", Idle)
      /\ UNCHANGED <<nextId, info, session, seed>>
  BY DEF Drop, ERASE_TASK_FROM_MAP
<1>4. \A v \in Thread \ {w} : thread[v].id = t => thread[v].at \in {"quit", "setopt"}
  BY <1>0, <1>1 DEF HoldOK, Holding
<1>5. Idle.id = None /\ Idle.at \notin Holding /\ Idle.at # "create"
  BY DEF Idle, Holding, Sole
<1>6. (\A v \in Thread : HoldOK(v)') /\ session' \subseteq Live'
  BY <1>0, <1>1, <1>3, <1>4, <1>5, IdleType, ReleaseKeepsHold
<1>7. \A u \in Ids : u # t => resume'[u] = resume[u]
  BY <1>3 DEF Release, BeginDtor, disk, IInv, TypeOK
<1>8. BornOK'
  BY <1>1, <1>3, <1>7 DEF IInv, BornOK
<1>9. IndexesExact'
  BY <1>3, EraseKeepsIndexes
<1>10. SessionOK' /\ FinishedAlertNotLost'
  BY <1>3, <1>6 DEF IInv, SessionOK, NoOrphanTorrent, FinishedAlertNotLost
<1> QED  BY <1>2, <1>6, <1>8, <1>9, <1>10 DEF IInv

LEMMA EndingIInv ==
  ASSUME IInv, NEW w \in Worker, NEW t \in Ids,
         Cancel(w, t) \/ OnTorrentError(w, t) \/ SeedingTimerCallback(w, t)
  PROVE  IInv'
<1>1. flags' \in [Ids -> SUBSET {"CANCELED", "PERSIST", "ERROR"}]
  BY DEF IInv, TypeOK, Cancel, OnTorrentError, SeedingTimerCallback
<1>2. Ready(w) /\ t \in tasks_map
  BY DEF Cancel, OnTorrentError, SeedingTimerCallback
<1>3. \E f \in Fates : Drop(w, t, f)
  BY DEF Cancel, OnTorrentError, SeedingTimerCallback, Fates
<1> QED  BY <1>1, <1>2, <1>3, DropIInv

LEMMA TaskSetoptIInv ==
  ASSUME IInv, NEW w \in Worker, NEW t \in Ids, TaskSetopt(w, t)
  PROVE  IInv'
<1> DEFINE new == [at |-> "setopt", id |-> t, req |-> None]
<1>0. /\ thread \in [Thread -> ThreadType] /\ None \notin Ids /\ w \in Thread
      /\ \A v \in Thread : HoldOK(v)
      /\ thread[w].id = None /\ thread[w].at \notin Sole
      /\ t \in tasks_map
      /\ thread' = [thread EXCEPT ![w] = new]
      /\ UNCHANGED <<nextId, info, maps, session, seed, resume>>
  BY NoneAssumption DEF IInv, TypeOK, ThreadType, TaskSetopt, Ready, Idle, Thread, Sole,
     object, disk
<1>1. t \in session /\ t < nextId /\ new \in ThreadType
  BY <1>0 DEF IInv, TypeOK, SessionOK, NoOrphanTorrent, BornOK, ThreadType, At
<1>2. TypeOK'
  BY <1>0, <1>1 DEF IInv, TypeOK, ThreadType, TaskSetopt, maps, object, disk, history
<1>3. \A v \in Thread : HoldOK(v)'
  BY <1>0, <1>1 DEF HoldOK, Holding, Sole, ThreadType, maps
<1>4. session' \subseteq Live'
  BY <1>0 DEF IInv, TypeOK, SessionOK, NoOrphanTorrent, Live, maps
<1>5. BornOK' /\ SessionOK' /\ IndexesExact' /\ FinishedAlertNotLost'
  BY <1>0, <1>4 DEF IInv, BornOK, SessionOK, NoOrphanTorrent, IndexesExact,
     FinishedAlertNotLost, maps
<1> QED  BY <1>2, <1>3, <1>5 DEF IInv

(***************************************************************************)
(* A destructor ends: only its own thread knew the task.                   *)
(***************************************************************************)
LEMMA GoneIInv ==
  ASSUME IInv, TypeOK', NEW w \in Thread, NEW new \in ThreadType,
         thread[w].at \in Sole, thread' = [thread EXCEPT ![w] = new],
         new.id = None, new.at \notin Holding,
         new.at = "create" => new.req \in Request,
         ObjectGone(thread[w].id),
         \A u \in Ids : u # thread[w].id => resume'[u] = resume[u],
         UNCHANGED <<nextId, info, maps>>
  PROVE  IInv'
<1> DEFINE t == thread[w].id
<1>0. /\ thread \in [Thread -> ThreadType] /\ None \notin Ids
      /\ \A v \in Thread : HoldOK(v)
      /\ t \in Ids /\ t < nextId /\ t \notin tasks_map
      /\ \A v \in Thread \ {w} : thread[v].id # t
  BY NoneAssumption DEF IInv, TypeOK, ThreadType, HoldOK, Holding
<1>1. /\ session' = session \ {t} /\ seed'[t] = "none"
      /\ \A u \in Ids : u # t => seed'[u] = seed[u]
  BY <1>0 DEF ObjectGone, IInv, TypeOK
<1>2. HoldOK(w)'
  BY <1>0 DEF HoldOK, Holding, Sole, ThreadType
<1>3. \A v \in Thread \ {w} : HoldOK(v)'
  BY <1>0, <1>1 DEF HoldOK, Holding, Sole, ThreadType, maps
<1>4. session' \subseteq Live'
  BY <1>0, <1>1 DEF IInv, TypeOK, SessionOK, NoOrphanTorrent, Live, maps
<1>5. SessionOK' /\ IndexesExact'
  BY <1>0, <1>1, <1>4 DEF IInv, SessionOK, NoOrphanTorrent, IndexesExact, maps
<1>6. BornOK' /\ FinishedAlertNotLost'
  BY <1>0, <1>1 DEF IInv, TypeOK, BornOK, FinishedAlertNotLost, maps
<1> QED  BY <1>2, <1>3, <1>5, <1>6 DEF IInv

LEMMA DtorEndsIInv ==
  ASSUME IInv, NEW w \in Thread, DtorEnds(w)
  PROVE  IInv'
<1> DEFINE req == thread[w].req
<1> DEFINE new == IF req = None THEN Idle ELSE [at |-> "create", id |-> None, req |-> req]
<1>0. /\ thread \in [Thread -> ThreadType] /\ thread[w].at \in Sole
      /\ thread[w].id \in Ids /\ req \in Request \cup {None}
      /\ thread' = [thread EXCEPT ![w] = new]
      /\ EndDtor(thread[w].id)
  BY DEF IInv, TypeOK, ThreadType, HoldOK, Holding, Sole, DtorEnds
<1>1. new \in ThreadType
  BY <1>0, IdleType DEF ThreadType, At
<1>2. new.id = None /\ new.at \notin Holding /\ (new.at = "create" => new.req \in Request)
  BY <1>0 DEF Holding, Sole, Idle
<1> HIDE DEF new
<1>3. TypeOK'
  BY <1>0, <1>1 DEF IInv, TypeOK, ThreadType, EndDtor, ObjectGone, maps, history
<1>4. \A u \in Ids : u # thread[w].id => resume'[u] = resume[u]
  BY <1>0 DEF EndDtor, IInv, TypeOK
<1> QED  BY <1>0, <1>1, <1>2, <1>3, <1>4, GoneIInv DEF EndDtor

LEMMA PersistDtorEndsIInv ==
  ASSUME IInv, NEW w \in Thread, PersistDtorEnds(w)
  PROVE  IInv'
<1>0. /\ thread \in [Thread -> ThreadType] /\ thread[w].at \in Sole
      /\ thread[w].id \in Ids
      /\ ObjectGone(thread[w].id)
  BY DEF IInv, TypeOK, ThreadType, HoldOK, Holding, Sole, PersistDtorEnds
<1>1. PICK at \in {"stopped", "persisting"} :
        thread' = [thread EXCEPT ![w] = [at |-> at, id |-> None, req |-> None]]
  BY DEF PersistDtorEnds
<1> DEFINE new == [at |-> at, id |-> None, req |-> None]
<1>2. new \in ThreadType
  BY DEF ThreadType, At
<1>3. new.id = None /\ new.at \notin Holding /\ new.at # "create"
  BY DEF Holding, Sole
<1>4. thread' = [thread EXCEPT ![w] = new]
  BY <1>1
<1> HIDE DEF new
<1>5. TypeOK'
  BY <1>0, <1>2, <1>4
  DEF IInv, TypeOK, ThreadType, PersistDtorEnds, ObjectGone, Phase, maps, history
<1>6. \A u \in Ids : u # thread[w].id => resume'[u] = resume[u]
  BY <1>0 DEF PersistDtorEnds, IInv, TypeOK
<1> QED  BY <1>0, <1>2, <1>3, <1>4, <1>5, <1>6, GoneIInv DEF PersistDtorEnds

(***************************************************************************)
(* The torrent_finished alert.  It is lost on a torrent in no map only     *)
(* when no thread is between GenTaskId and ADD_TASK_TO_MAP.                *)
(***************************************************************************)
LEMMA TorrentFinishedIInv ==
  ASSUME IInv, NEW t \in Ids, TorrentFinished(t)
  PROVE  IInv'
<1>1. TypeOK'
  BY DEF IInv, TypeOK, TorrentFinished, maps, disk, history
<1>2. \A u \in Ids : seed'[u] = "lost" => seed[u] = "lost"
  BY DEF IInv, TypeOK, TorrentFinished
<1>3. \A w \in Thread : HoldOK(w)'
  BY <1>2 DEF IInv, HoldOK, Holding, Sole, TorrentFinished, maps
<1>4. BornOK' /\ SessionOK' /\ IndexesExact'
  BY DEF IInv, TypeOK, BornOK, SessionOK, NoOrphanTorrent, Live, IndexesExact,
     TorrentFinished, maps, disk
<1>5. FinishedAlertNotLost'
  BY <1>2 DEF IInv, TypeOK, FinishedAlertNotLost, TorrentFinished, maps
<1> QED  BY <1>1, <1>3, <1>4, <1>5 DEF IInv

LEMMA OnTorrentFinishedIInv ==
  ASSUME IInv, NEW w \in Worker, NEW t \in Ids, OnTorrentFinished(w, t)
  PROVE  IInv'
<1>0. /\ t \in session /\ seed[t] = "alert" /\ LockFree
      /\ UNCHANGED <<phase, nextId, info, maps, session, paused, flags, thread, resume, acked,
                     fate, crashes>>
  BY DEF OnTorrentFinished
<1> DEFINE Seeds == {"none", "alert", "lost", "timer", "forever"}
<1>a. seed \in [Ids -> Seeds]
  BY DEF IInv, TypeOK
<1>b. \/ seed' = [seed EXCEPT ![t] = "timer"]
      \/ seed' = [seed EXCEPT ![t] = "forever"]
      \/ t \notin tasks_map /\ seed' = [seed EXCEPT ![t] = "lost"]
  BY DEF OnTorrentFinished, ToSeeding
<1>1. seed' \in [Ids -> Seeds]
  BY <1>a, <1>b
<1>2. row' \in [Ids -> RowType] /\ faults' \subseteq Ids
  <2>1. CASE t \in tasks_map
    BY <2>1, UpdateStatusType DEF OnTorrentFinished, ToSeeding, IInv
  <2>2. CASE t \notin tasks_map
    BY <2>2 DEF OnTorrentFinished, IInv, TypeOK, RowType
  <2> QED  BY <2>1, <2>2
<1>3. TypeOK'
  BY <1>0, <1>1, <1>2 DEF IInv, TypeOK, RowType, maps
<1>4. \A u \in Ids : seed'[u] = "lost" => seed[u] = "lost" \/ (u = t /\ t \notin tasks_map)
  BY <1>a, <1>b
<1>5. \A v \in Thread : thread[v].at \notin {"rowed", "added"}
  BY <1>0 DEF LockFree, LockHeldAt
<1>6. \A v \in Thread : HoldOK(v)'
  BY <1>0, <1>5 DEF IInv, HoldOK, Holding, Sole, maps
<1>7. BornOK'
  BY <1>0, <1>a, <1>b DEF IInv, SessionOK, BornOK
<1>8. SessionOK' /\ IndexesExact'
  BY <1>0 DEF IInv, SessionOK, NoOrphanTorrent, Live, IndexesExact, maps
<1>9. FinishedAlertNotLost'
  BY <1>0, <1>4 DEF IInv, TypeOK, FinishedAlertNotLost, maps
<1> QED  BY <1>3, <1>6, <1>7, <1>8, <1>9 DEF IInv

(***************************************************************************)
(* One round of PersistTasks.                                              *)
(***************************************************************************)
LEMMA PersistTaskIInv ==
  ASSUME IInv, NEW w \in Thread, PersistTask(w)
  PROVE  IInv'
<1>1. PICK t \in tasks_map :
        /\ ERASE_TASK_FROM_MAP(t)
        /\ flags' = [flags EXCEPT ![t] = @ \cup {"PERSIST"}]
        /\ \E at \in {"persist_dtor", "persist_last"}, rest \in {"stopped", "persisting"} :
             Release(w, t, at, [at |-> rest, id |-> None, req |-> None])
        /\ phase' \in {"persisted", phase}
  BY DEF PersistTask
<1>2. PICK at \in {"persist_dtor", "persist_last"}, rest \in {"stopped", "persisting"} :
        Release(w, t, at, [at |-> rest, id |-> None, req |-> None])
  BY <1>1
<1> DEFINE after == [at |-> rest, id |-> None, req |-> None]
<1>0. /\ thread \in [Thread -> ThreadType] /\ None \notin Ids
      /\ \A v \in Thread : HoldOK(v)
      /\ thread[w].at \in {"persist", "persisting"}
      /\ t \in Ids /\ t \in session /\ t < nextId
      /\ UNCHANGED <<nextId, info, session, paused, seed, acked, fate, crashes>>
  BY NoneAssumption
  DEF IInv, TypeOK, ThreadType, SessionOK, NoOrphanTorrent, BornOK, PersistTask
<1>3. thread[w].id = None /\ thread[w].at \notin Sole
  BY <1>0 DEF HoldOK, Holding, Sole
<1>4. after \in ThreadType /\ after.id = None /\ after.at \notin Holding
      /\ after.at # "create" /\ at \in At
  BY DEF ThreadType, At, Holding, Sole
<1>5. Release(w, t, at, after) /\ tasks_map' = tasks_map \ {t}
  BY <1>1, <1>2 DEF ERASE_TASK_FROM_MAP
<1> HIDE DEF after
<1>6. TypeOK'
  <2>1. /\ thread' \in [Thread -> ThreadType]
        /\ row' \in [Ids -> RowType]
        /\ resume' \in [Ids -> {"none", "torn", "ok"}]
        /\ faults' \subseteq Ids
    BY <1>0, <1>4, <1>5, ReleaseType DEF IInv
  <2>2. /\ tasks_map' \subseteq Ids
        /\ infohash_map' \in [Infohash -> Ids \cup {None}]
        /\ data_path_map' \in [Path -> Ids \cup {None}]
    BY <1>0, <1>1, EraseType DEF IInv
  <2>3. flags' \in [Ids -> SUBSET {"CANCELED", "PERSIST", "ERROR"}] /\ phase' \in Phase
    BY <1>1 DEF IInv, TypeOK, Phase
  <2> QED
    BY <1>0, <2>1, <2>2, <2>3 DEF IInv, TypeOK, ThreadType, RowType
<1>7. \A v \in Thread \ {w} : thread[v].id = t => thread[v].at \in {"quit", "setopt"}
  BY <1>0 DEF HoldOK, Holding
<1>8. (\A v \in Thread : HoldOK(v)') /\ session' \subseteq Live'
  BY <1>0, <1>3, <1>4, <1>5, <1>7, ReleaseKeepsHold
<1>9. \A u \in Ids : u # t => resume'[u] = resume[u]
  BY <1>5 DEF Release, BeginDtor, disk, IInv, TypeOK
<1>10. BornOK'
  BY <1>0, <1>9 DEF IInv, BornOK
<1>11. IndexesExact'
  BY <1>0, <1>1, EraseKeepsIndexes
<1>12. SessionOK' /\ FinishedAlertNotLost'
  BY <1>0, <1>5, <1>8 DEF IInv, SessionOK, NoOrphanTorrent, FinishedAlertNotLost
<1> QED  BY <1>6, <1>8, <1>10, <1>11, <1>12 DEF IInv

(***************************************************************************)
(* The process ends, by its own exit or by a crash.                        *)
(***************************************************************************)
LEMMA DownIInv ==
  ASSUME IInv, Exit \/ Crash
  PROVE  IInv'
<1>0. MemoryLost /\ UNCHANGED <<nextId, info, row, acked, faults>>
  BY DEF Exit, Crash, disk, history
<1>1. /\ resume' \in [Ids -> {"none", "torn", "ok"}]
      /\ \A t \in Ids : resume[t] = "none" => resume'[t] = "none"
  BY DEF Exit, Crash, disk, IInv, TypeOK
<1>2. fate' \in [Ids -> Fates] /\ crashes' \in 0 .. MaxCrash
  BY BoundAssumption DEF Exit, Crash, history, IInv, TypeOK, Fates
<1>3. thread' \in [Thread -> ThreadType]
  BY <1>0, IdleType DEF MemoryLost
<1>4. TypeOK'
  BY <1>0, <1>1, <1>2, <1>3 DEF IInv, TypeOK, MemoryLost, ThreadType, Phase
<1>5. \A w \in Thread : HoldOK(w)'
  BY <1>0 DEF HoldOK, Holding, Sole, Idle, MemoryLost
<1>6. BornOK'
  BY <1>0, <1>1 DEF IInv, TypeOK, BornOK, MemoryLost
<1>7. SessionOK' /\ IndexesExact' /\ FinishedAlertNotLost'
  BY <1>0 DEF SessionOK, NoOrphanTorrent, IndexesExact, FinishedAlertNotLost, MemoryLost
<1> QED  BY <1>4, <1>5, <1>6, <1>7 DEF IInv

(***************************************************************************)
(* Between two processes no thread holds anything, so a restart starts     *)
(* from the resume files alone.                                            *)
(***************************************************************************)
DownOK ==
  phase = "down" =>
    /\ \A w \in Thread : thread[w].at = "idle"
    /\ session = {}
    /\ \A t \in Ids : seed[t] = "none"

LEMMA RestartIInv ==
  ASSUME IInv, DownOK, Restart
  PROVE  IInv'
<1>0. /\ None \notin Ids /\ thread \in [Thread -> ThreadType]
      /\ \A w \in Thread : HoldOK(w) /\ thread[w].at = "idle"
      /\ \A t \in Ids : seed[t] = "none"
      /\ UNCHANGED <<nextId, info, object, thread, row, acked, faults, crashes>>
  BY NoneAssumption DEF IInv, TypeOK, ThreadType, DownOK, Restart
<1>1. PICK loaded \in SUBSET {t \in Ids : resume[t] = "ok"}, last \in [Path -> Ids \cup {None}] :
        /\ OnePerInfohash(loaded)
        /\ \A p \in Path :
             last[p] \in IF {t \in loaded : info[t].data_path = p} = {} THEN {None}
                         ELSE {t \in loaded : info[t].data_path = p}
        /\ tasks_map' = loaded
        /\ session' = loaded
        /\ infohash_map' = [h \in Infohash |->
             IF \E t \in loaded : info[t].infohash = h
               THEN CHOOSE t \in loaded : info[t].infohash = h ELSE None]
        /\ data_path_map' = last
        /\ resume' = [t \in Ids |-> IF t \in loaded THEN "ok" ELSE "none"]
  BY DEF Restart
<1>2. \A t \in loaded : t \in Ids /\ t < nextId /\ info[t] \in Request
  BY DEF IInv, BornOK
<1>3. \A t \in loaded : info[t].infohash \in Infohash /\ info[t].data_path \in Path
  BY <1>2, RequestAssumption DEF Requests
<1>4. \A h \in Infohash :
        IF \E t \in loaded : info[t].infohash = h
          THEN infohash_map'[h] \in loaded /\ info[infohash_map'[h]].infohash = h
          ELSE infohash_map'[h] = None
  BY <1>1
<1>5. TypeOK'
  <2>1. infohash_map' \in [Infohash -> Ids \cup {None}]
    BY <1>1, <1>2
  <2>2. fate' \in [Ids -> Fates] /\ phase' \in Phase
    BY DEF Restart, IInv, TypeOK, Fates, Phase
  <2>3. resume' \in [Ids -> {"none", "torn", "ok"}]
    BY <1>1
  <2> QED
    BY <1>0, <1>1, <1>2, <2>1, <2>2, <2>3 DEF IInv, TypeOK, ThreadType, object
<1>6. \A w \in Thread : HoldOK(w)'
  BY <1>0 DEF HoldOK, Holding, Sole
<1>7. BornOK'
  BY <1>0, <1>1, <1>2 DEF IInv, BornOK, object
<1>8. SessionOK'
  BY <1>0, <1>1 DEF SessionOK, NoOrphanTorrent, Live, OnePerInfohash
<1>9. IndexesExact'
  <2>1. \A t \in tasks_map' : infohash_map'[info'[t].infohash] = t
    BY <1>0, <1>1, <1>3, <1>4 DEF OnePerInfohash
  <2>2. \A h \in Infohash : infohash_map'[h] # None =>
          infohash_map'[h] \in tasks_map' /\ info'[infohash_map'[h]].infohash = h
    BY <1>0, <1>1, <1>4
  <2>3. \A p \in Path : data_path_map'[p] # None =>
          data_path_map'[p] \in tasks_map' /\ info'[data_path_map'[p]].data_path = p
    BY <1>0, <1>1
  <2> QED  BY <2>1, <2>2, <2>3 DEF IndexesExact
<1>10. FinishedAlertNotLost'
  BY <1>0, <1>1, <1>2 DEF FinishedAlertNotLost, object
<1> QED  BY <1>5, <1>6, <1>7, <1>8, <1>9, <1>10 DEF IInv

-----------------------------------------------------------------------------
(***************************************************************************)
(* The steps together.                                                     *)
(***************************************************************************)
LEMMA ContinueIInv ==
  ASSUME IInv, NEW w \in Thread, Continue(w)
  PROVE  IInv'
<1>1. CASE ReleaseDup(w)  BY <1>1, ReleaseDupIInv
<1>2. CASE GenTaskId(w)  BY <1>2, GenTaskIdIInv
<1>3. CASE GenTaskIdFails(w)  BY <1>3, GenTaskIdFailsIInv
<1>4. CASE AddTorrentFails(w)  BY <1>4, AddTorrentFailsIInv
<1>5. CASE AddTorrent(w)  BY <1>5, AddTorrentIInv
<1>6. CASE FinishCreate(w)  BY <1>6, FinishCreateIInv
<1>7. CASE TaskSetoptEnds(w)  BY <1>7, TaskSetoptEndsIInv
<1>8. CASE DtorEnds(w)  BY <1>8, DtorEndsIInv
<1>9. CASE PersistTask(w)  BY <1>9, PersistTaskIInv
<1>10. CASE PersistDtorEnds(w)  BY <1>10, PersistDtorEndsIInv
<1>11. CASE PersistNothing(w)  BY <1>11, StopIInv
<1> QED
  BY <1>1, <1>2, <1>3, <1>4, <1>5, <1>6, <1>7, <1>8, <1>9, <1>10, <1>11 DEF Continue

LEMMA NextIInv ==
  ASSUME IInv, DownOK, [Next]_vars
  PROVE  IInv'
<1>1. ASSUME NEW w \in Thread, Continue(w) \/ Stop(w) PROVE IInv'
  BY <1>1, ContinueIInv, StopIInv
<1>2. ASSUME NEW w \in Worker, Message(w) PROVE IInv'
  <2>1. ASSUME NEW r \in Request, AddTask(w, r) \/ AddTaskDisplacing(w, r) PROVE IInv'
    BY <2>1, AddTaskIInv, AddTaskDisplacingIInv
  <2>2. ASSUME NEW t \in Ids, Cancel(w, t) \/ Pause(w, t) \/ Resume(w, t) \/ TaskSetopt(w, t)
        PROVE  IInv'
    BY <2>2, EndingIInv, PauseIInv, TaskSetoptIInv
  <2> QED  BY <1>2, <2>1, <2>2 DEF Message
<1>3. ASSUME NEW w \in Worker, NEW t \in Ids, Callback(w, t) PROVE IInv'
  BY <1>3, OnTorrentFinishedIInv, EndingIInv DEF Callback
<1>4. ASSUME NEW t \in Ids, TorrentFinished(t) \/ DeleteDataTimerCallback(t) PROVE IInv'
  BY <1>4, TorrentFinishedIInv, CleanerIInv
<1>5. CASE StopPool \/ Exit \/ Crash \/ Restart
  BY <1>5, StopPoolIInv, DownIInv, RestartIInv
<1>6. CASE UNCHANGED vars
  BY <1>6, StutterIInv
<1> QED  BY <1>1, <1>2, <1>3, <1>4, <1>5, <1>6 DEF Next

LEMMA NextDownOK ==
  ASSUME IInv, DownOK, [Next]_vars
  PROVE  DownOK'
<1>1. ASSUME NEW w \in Thread, Continue(w) PROVE phase' # "down"
  <2>1. thread[w].at # "idle"
    BY <1>1 DEF Continue, ReleaseDup, GenTaskId, GenTaskIdFails, AddTorrentFails, AddTorrent,
       FinishCreate, TaskSetoptEnds, DtorEnds, PersistTask, PersistDtorEnds, PersistNothing
  <2>2. phase # "down"
    BY <2>1 DEF DownOK
  <2>3. phase' \in {phase, "persisted"}
    BY <1>1 DEF Continue, ReleaseDup, GenTaskId, GenTaskIdFails, AddTorrentFails, AddTorrent,
       FinishCreate, TaskSetoptEnds, DtorEnds, EndDtor, PersistTask, PersistDtorEnds,
       PersistNothing
  <2> QED  BY <2>2, <2>3
<1>2. ASSUME NEW w \in Thread, Stop(w) PROVE phase' # "down"
  BY <1>2 DEF Stop
<1>3. ASSUME NEW w \in Worker, Message(w) PROVE phase' # "down"
  BY <1>3 DEF Message, AddTask, AddTaskDisplacing, Cancel, Drop, Pause, Resume, TaskSetopt, Ready
<1>4. ASSUME NEW w \in Worker, NEW t \in Ids, Callback(w, t) PROVE phase' # "down"
  BY <1>4 DEF Callback, OnTorrentFinished, OnTorrentError, SeedingTimerCallback, Drop, Ready
<1>5. ASSUME NEW t \in Ids, TorrentFinished(t) \/ DeleteDataTimerCallback(t)
      PROVE  phase' # "down"
  BY <1>5 DEF TorrentFinished, DeleteDataTimerCallback, DownOK
<1>6. CASE StopPool \/ Restart
  BY <1>6 DEF StopPool, Restart, DownOK
<1>7. CASE Exit \/ Crash
  BY <1>7 DEF Exit, Crash, MemoryLost, DownOK, Idle
<1>8. CASE UNCHANGED vars
  BY <1>8 DEF DownOK, vars, object
<1>9. phase' # "down" => DownOK'
  BY DEF DownOK
<1> QED  BY <1>1, <1>2, <1>3, <1>4, <1>5, <1>6, <1>7, <1>8, <1>9 DEF Next

LEMMA InvariantHolds == Spec => [](IInv /\ DownOK)
<1>1. Init => IInv /\ DownOK
  BY InitIInv DEF Init, DownOK
<1>2. IInv /\ DownOK /\ [Next]_vars => (IInv /\ DownOK)'
  BY NextIInv, NextDownOK
<1> QED  BY <1>1, <1>2, PTL DEF Spec

(***************************************************************************)
(* Every variable keeps its type; in particular every handler that uses    *)
(* the task it holds has a task.                                           *)
(***************************************************************************)
THEOREM TypeCorrect == Spec => []TypeOK
<1>1. IInv => TypeOK
  BY DEF IInv
<1> QED  BY <1>1, InvariantHolds, PTL

(***************************************************************************)
(* infohash_map_ names exactly the running tasks and data_path_map_ names  *)
(* no task that is gone, although ERASE_TASK_FROM_MAP erases by key.       *)
(***************************************************************************)
THEOREM IndexesAlwaysExact == Spec => []IndexesExact
<1>1. IInv => IndexesExact
  BY DEF IInv
<1> QED  BY <1>1, InvariantHolds, PTL

(***************************************************************************)
(* Every running task has its torrent, and every torrent of the session    *)
(* has a task object that will remove it, whatever thread drops the last   *)
(* reference.                                                              *)
(***************************************************************************)
THEOREM NoTorrentOrphaned == Spec => []NoOrphanTorrent
<1>1. IInv => NoOrphanTorrent
  BY DEF IInv, SessionOK
<1> QED  BY <1>1, InvariantHolds, PTL

(***************************************************************************)
(* The torrent_finished alert of a task that is in the maps has not been   *)
(* consumed without effect: ToSeeding has run or will run for it.          *)
(***************************************************************************)
THEOREM FinishedAlertNeverLost == Spec => []FinishedAlertNotLost
<1>1. IInv => FinishedAlertNotLost
  BY DEF IInv
<1> QED  BY <1>1, InvariantHolds, PTL

-----------------------------------------------------------------------------
(***************************************************************************)
(* AgentTasks implements AgentRegistry.                                    *)
(***************************************************************************)

(***************************************************************************)
(* Beside the invariant IInv: the PERSIST flag is on                       *)
(* exactly the objects PersistTasks took out of the maps, and no file of a *)
(* task that is being created is complete.                                 *)
(***************************************************************************)
Persisted(t) == "PERSIST" \in flags[t]

TraceOK ==
  /\ \A t \in tasks_map : ~Persisted(t)
  /\ \A t \in Ids : ~(t < nextId) => ~Persisted(t)
  /\ \A w \in Thread : thread[w].at \in {"rowed", "added"} =>
       ~Persisted(thread[w].id) /\ resume[thread[w].id] # "ok"
  /\ \A w \in Thread : thread[w].at \in {"persist_dtor", "persist_last"} => Persisted(thread[w].id)
  /\ phase = "down" => tasks_map = {} /\ \A t \in Ids : ~Persisted(t)

Inv == IInv /\ DownOK /\ TraceOK

\* What each step of the agent is to the registry.
Allowed == [Registry!Next]_(Registry!vars)

-----------------------------------------------------------------------------
LEMMA Facts ==
  ASSUME Inv
  PROVE  /\ thread \in [Thread -> ThreadType] /\ None \notin Ids
         /\ tasks_map \subseteq Ids
         /\ flags \in [Ids -> SUBSET {"CANCELED", "PERSIST", "ERROR"}]
         /\ resume \in [Ids -> {"none", "torn", "ok"}]
         /\ info \in [Ids -> Request \cup {None}] /\ nextId \in Int
         /\ \A w \in Thread : HoldOK(w)
         /\ \A t \in tasks_map : t \in session /\ t < nextId
         /\ \A w \in Thread : thread[w].at # "idle" => phase # "down"
  BY NoneAssumption DEF Inv, IInv, TypeOK, ThreadType, SessionOK, NoOrphanTorrent, BornOK, DownOK

\* Nothing happened to the life of a task.
LEMMA LifeKept ==
  ASSUME NEW w \in Thread, \A v \in Thread : v # w => thread'[v] = thread[v],
         NEW u \in Ids, thread[w].id # u, thread'[w].id # u,
         u \in tasks_map' <=> u \in tasks_map,
         Persisted(u)' <=> Persisted(u), resume'[u] = resume[u], UNCHANGED nextId
  PROVE  Life(u)' = Life(u)
<1>1. Held(u)' <=> Held(u)
  BY DEF Held
<1>2. BeingCreated(u)' <=> BeingCreated(u)
  BY DEF BeingCreated
<1> QED  BY <1>1, <1>2 DEF Life, Persisted

\* A step of the registry that moves no task.
LEMMA NoMove ==
  ASSUME \A u \in Ids : Life(u)' = Life(u), UNCHANGED info,
         phase # "down", phase' # "down"
  PROVE  Allowed
  BY DEF Allowed, Registry!vars

\* A step of the registry that moves one task, not a new one.
Arrows == {<<"creating", "over">>, <<"running", "ending">>, <<"ending", "over">>,
           <<"running", "parking">>, <<"parking", "kept">>}

LEMMA OneMove ==
  ASSUME NEW t \in Ids, \A u \in Ids : u # t => Life(u)' = Life(u),
         <<Life(t), Life(t)'>> \in Arrows, UNCHANGED info,
         phase # "down", phase' # "down"
  PROVE  Allowed
<1> DEFINE status == [u \in Ids |-> Life(u)]
<1>1. status' = [status EXCEPT ![t] = Life(t)'] /\ status[t] = Life(t)
  OBVIOUS
<1>2. UNCHANGED [u \in Ids |-> IF info[u] = None THEN None ELSE info[u].infohash]
  OBVIOUS
<1>3. Registry!Refuse(t) \/ Registry!End(t) \/ Registry!Forget(t) \/ Registry!Park(t)
        \/ Registry!Keep(t)
  BY <1>1, <1>2 DEF Arrows, Registry!Refuse, Registry!End, Registry!Forget, Registry!Park,
     Registry!Keep, Registry!Moves
<1>4. status'[t] # status[t]
  BY DEF Arrows
<1> QED  BY <1>3, <1>4 DEF Allowed, Registry!Next

-----------------------------------------------------------------------------
(***************************************************************************)
(* A step of thread w that holds no task, before it and after it, and      *)
(* touches no trace of any.                                                *)
(***************************************************************************)
LEMMA QuietStep ==
  ASSUME Inv, NEW w \in Thread, \A v \in Thread : v # w => thread'[v] = thread[v],
         thread'[w] = thread[w] \/ (thread[w].id = None /\ thread'[w].id = None),
         thread'[w] = thread[w] \/
           thread'[w].at \notin {"rowed", "added", "persist_dtor", "persist_last"},
         UNCHANGED <<tasks_map, flags, resume, nextId, info>>, phase # "down", phase' # "down"
  PROVE  TraceOK' /\ Allowed
<1>1. TraceOK'
  BY DEF Inv, TraceOK, Persisted
<1>2. \A u \in Ids : Life(u)' = Life(u)
  <2> SUFFICES ASSUME NEW u \in Ids PROVE Life(u)' = Life(u)
    OBVIOUS
  <2>1. CASE thread'[w] = thread[w]
    <3>1. \A v \in Thread : thread'[v] = thread[v]
      BY <2>1
    <3>2. (Held(u)' <=> Held(u)) /\ (BeingCreated(u)' <=> BeingCreated(u))
      BY <3>1 DEF Held, BeingCreated
    <3> QED  BY <3>2 DEF Life
  <2>2. CASE thread[w].id = None /\ thread'[w].id = None
    BY <2>2, Facts, LifeKept DEF Persisted
  <2> QED  BY <2>1, <2>2
<1> QED  BY <1>1, <1>2, NoMove

LEMMA QuietSteps ==
  ASSUME Inv, NEW w \in Thread
  PROVE  /\ \A r \in Request : w \in Worker /\ AddTask(w, r) => TraceOK' /\ Allowed
         /\ GenTaskIdFails(w) \/ Stop(w) \/ PersistNothing(w) => TraceOK' /\ Allowed
         /\ \A t \in Ids : w \in Worker /\ (Pause(w, t) \/ Resume(w, t) \/ OnTorrentFinished(w, t))
              => TraceOK' /\ Allowed
<1> USE Facts
<1>1. ASSUME NEW r \in Request, AddTask(w, r) PROVE TraceOK' /\ Allowed
  <2>1. /\ thread[w].id = None /\ phase # "down"
        /\ thread' = [thread EXCEPT ![w] = [at |-> "create", id |-> None, req |-> r]]
        /\ UNCHANGED <<phase, tasks_map, flags, resume, nextId, info>>
    BY <1>1 DEF AddTask, Ready, Idle, maps, object, disk
  <2> QED  BY <2>1, QuietStep
<1>2. ASSUME GenTaskIdFails(w) PROVE TraceOK' /\ Allowed
  <2>1. /\ thread[w].id = None /\ thread[w].at # "idle"
        /\ thread' = [thread EXCEPT ![w] = Idle]
        /\ UNCHANGED <<phase, tasks_map, flags, resume, nextId, info>>
    BY <1>2 DEF GenTaskIdFails, HoldOK, Holding, Sole, maps, object, disk
  <2>2. Idle.id = None /\ Idle.at = "idle"
    BY DEF Idle
  <2> QED  BY <2>1, <2>2, QuietStep
<1>3. ASSUME Stop(w) \/ PersistNothing(w) PROVE TraceOK' /\ Allowed
  <2>1. /\ thread[w].id = None /\ phase # "down" /\ phase' # "down"
        /\ \A v \in Thread : v # w => thread'[v] = thread[v]
        /\ thread'[w].id = None /\ thread'[w].at \in {"persist", "stopped"}
        /\ UNCHANGED <<tasks_map, flags, resume, nextId, info>>
    BY <1>3 DEF Stop, PersistNothing, Idle, HoldOK, Holding, Sole, maps, object, disk, ThreadType
  <2> QED  BY <2>1, QuietStep
<1>4. ASSUME NEW t \in Ids, Pause(w, t) \/ Resume(w, t) \/ OnTorrentFinished(w, t)
      PROVE  TraceOK' /\ Allowed
  <2>1. /\ thread' = thread /\ phase # "down"
        /\ UNCHANGED <<phase, tasks_map, flags, resume, nextId, info>>
    BY <1>4 DEF Pause, Resume, OnTorrentFinished, Ready, maps, object, disk
  <2> QED  BY <2>1, QuietStep
<1> QED  BY <1>1, <1>2, <1>3, <1>4

LEMMA StillSteps ==
  ASSUME Inv,
         \/ \E t \in Ids : TorrentFinished(t) \/ DeleteDataTimerCallback(t)
         \/ StopPool
  PROVE  TraceOK' /\ Allowed
<1>1. /\ thread' = thread /\ phase # "down" /\ phase' # "down"
      /\ UNCHANGED <<tasks_map, flags, resume, nextId, info>>
  BY DEF Inv, DownOK, TorrentFinished, DeleteDataTimerCallback, StopPool, maps, object, disk
<1>2. Main \in Thread
  BY DEF Thread
<1> QED  BY <1>1, <1>2, QuietStep

(***************************************************************************)
(* Thread w lets go of task t, that is in no map any more.                 *)
(***************************************************************************)
LEMMA ReleaseStep ==
  ASSUME Inv, NEW w \in Thread, NEW t \in Ids,
         NEW at \in {"dtor", "dtor_locked", "persist_dtor", "persist_last"}, NEW after \in ThreadType,
         after.id = None, after.at \notin {"rowed", "added", "persist_dtor", "persist_last"},
         thread[w].at \notin Sole, thread[w].id \in {None, t}, Release(w, t, at, after),
         t \notin tasks_map', \A u \in Ids : u # t => (u \in tasks_map' <=> u \in tasks_map),
         \A u \in Ids : u # t => flags'[u] = flags[u],
         \A v \in Thread \ {w} : thread[v].id = t => thread[v].at \in {"quit", "setopt"},
         at \in {"persist_dtor", "persist_last"} => Persisted(t)',
         t < nextId, UNCHANGED nextId, phase' # "down", tasks_map' \subseteq Ids
  PROVE  /\ TraceOK'
         /\ \A u \in Ids : u # t => Life(u)' = Life(u)
         /\ Life(t)' = IF Persisted(t)' THEN "parking" ELSE "ending"
<1> USE Facts
<1>1. /\ \A v \in Thread : v # w => thread'[v] = thread[v]
      /\ \A u \in Ids : u # t => resume'[u] = resume[u]
      /\ thread'[w] = after \/ thread'[w] = [at |-> at, id |-> t, req |-> after.req]
  BY DEF Release, BeginDtor, disk
<1>2. Held(t)'
  <2>1. CASE HeldElsewhere(w, t)
    BY <1>1, <2>1 DEF Held, HeldElsewhere
  <2>2. CASE ~HeldElsewhere(w, t)
    <3>1. thread'[w].id = t
      BY <2>2 DEF Release
    <3> QED  BY <3>1 DEF Held
  <2> QED  BY <2>1, <2>2
<1>3. ~BeingCreated(t)'
  BY <1>1 DEF BeingCreated
<1>4. Life(t)' = IF Persisted(t)' THEN "parking" ELSE "ending"
  BY <1>2, <1>3 DEF Life, Persisted
<1>5. \A u \in Ids : u # t => Life(u)' = Life(u)
  BY <1>1, LifeKept DEF Persisted
<1>6. TraceOK'
  <2>1. \A v \in Thread : v # w /\ thread[v].at \in Sole => thread[v].id \in Ids /\ thread[v].id # t
    BY DEF HoldOK, Holding, Sole
  <2>2. \A v \in Thread : v # w /\ thread'[v].at \in Sole =>
          /\ thread[v].at \in Sole /\ thread'[v] = thread[v]
          /\ thread[v].id \in Ids /\ flags'[thread[v].id] = flags[thread[v].id]
          /\ resume'[thread[v].id] = resume[thread[v].id]
    BY <1>1, <2>1
  <2>3. \A u \in tasks_map' : ~Persisted(u)'
    BY DEF Inv, TraceOK, Persisted
  <2>4. \A u \in Ids : ~(u < nextId') => ~Persisted(u)'
    BY DEF Inv, TraceOK, Persisted
  <2>5. \A v \in Thread : thread'[v].at \in {"rowed", "added"} =>
          "PERSIST" \notin flags'[thread'[v].id] /\ resume'[thread'[v].id] # "ok"
    BY <1>1, <2>2 DEF Inv, TraceOK, Persisted, Sole
  <2>6. \A v \in Thread : thread'[v].at \in {"persist_dtor", "persist_last"} =>
          "PERSIST" \in flags'[thread'[v].id]
    BY <1>1, <2>2 DEF Inv, TraceOK, Persisted, Sole
  <2> QED  BY <2>3, <2>4, <2>5, <2>6 DEF TraceOK, Persisted
<1> QED  BY <1>4, <1>5, <1>6

\* A reference that is not the last one, or that is: the task has ended before.
LEMMA LetGoStep ==
  ASSUME Inv, NEW w \in Thread, ReleaseDup(w) \/ TaskSetoptEnds(w)
  PROVE  TraceOK' /\ Allowed
<1> USE Facts
<1>0. thread[w].id \in Ids /\ thread[w].id < nextId
  BY DEF ReleaseDup, TaskSetoptEnds, HoldOK, Holding
<1> PICK t \in Ids : t = thread[w].id
  BY <1>0
<1>1. /\ t = thread[w].id /\ t < nextId /\ thread[w].at \notin Sole /\ thread[w].at \in {"quit", "setopt"}
      /\ phase # "down" /\ UNCHANGED <<phase, nextId, info, tasks_map, flags>>
  BY <1>0 DEF ReleaseDup, TaskSetoptEnds, HoldOK, Holding, Sole, maps
<1>2. Idle \in ThreadType /\ Idle.id = None /\ Idle.at = "idle"
  BY IdleType DEF Idle
<1>3. CASE TaskSetoptEnds(w) /\ t \in tasks_map
  <2>1. /\ \A v \in Thread : v # w => thread'[v] = thread[v]
        /\ thread'[w] = Idle /\ UNCHANGED resume
    BY <1>1, <1>3 DEF TaskSetoptEnds, disk
  <2>2. TraceOK'
    BY <1>1, <1>2, <2>1 DEF Inv, TraceOK, Persisted
  <2>3. \A u \in Ids : u # t => Life(u)' = Life(u)
    BY <1>1, <1>2, <2>1, LifeKept DEF Persisted
  <2>4. Life(t)' = Life(t)
    BY <1>1, <1>3 DEF Life
  <2> QED  BY <1>1, <2>2, <2>3, <2>4, NoMove
<1>4. CASE ReleaseDup(w) \/ t \notin tasks_map
  <2>1. PICK after \in ThreadType :
          /\ after.id = None /\ after.at \in {"idle", "create"}
          /\ Release(w, t, "dtor", after)
    <3>1. CASE ReleaseDup(w)
      <4> DEFINE a == [at |-> "create", id |-> None, req |-> thread[w].req]
      <4>1. a \in ThreadType /\ a.id = None /\ a.at = "create"
        BY DEF ThreadType, At
      <4> HIDE DEF a
      <4>2. Release(w, t, "dtor", a)
        BY <1>1, <3>1 DEF ReleaseDup, a
      <4> QED  BY <4>1, <4>2
    <3>2. CASE TaskSetoptEnds(w) /\ t \notin tasks_map
      BY <1>1, <1>2, <3>2 DEF TaskSetoptEnds
    <3> QED  BY <1>4, <3>1, <3>2
  <2>2. t \notin tasks_map
    BY <1>1, <1>4 DEF ReleaseDup, HoldOK, Sole, Holding
  <2>3. \A v \in Thread \ {w} : thread[v].id = t => thread[v].at \in {"quit", "setopt"}
    BY <1>1 DEF HoldOK, Holding, Sole
  <2>4. /\ TraceOK'
        /\ \A u \in Ids : u # t => Life(u)' = Life(u)
        /\ Life(t)' = IF Persisted(t)' THEN "parking" ELSE "ending"
    BY <1>1, <2>1, <2>2, <2>3, ReleaseStep
  <2>5. Life(t) = IF Persisted(t) THEN "parking" ELSE "ending"
    <3>1. Held(t)
      BY <1>1 DEF Held
    <3>2. ~BeingCreated(t)
      BY <1>1, <2>3 DEF BeingCreated
    <3> QED  BY <2>2, <3>1, <3>2 DEF Life, Persisted
  <2>6. Life(t)' = Life(t)
    BY <1>1, <2>4, <2>5 DEF Persisted
  <2> QED  BY <1>1, <2>4, <2>6, NoMove
<1> QED  BY <1>3, <1>4

(***************************************************************************)
(* A handler ends a running task under the lock.                           *)
(***************************************************************************)
LEMMA DropStep ==
  ASSUME Inv, NEW w \in Worker, NEW t \in Ids,
         Cancel(w, t) \/ OnTorrentError(w, t) \/ SeedingTimerCallback(w, t)
  PROVE  TraceOK' /\ Allowed
<1> USE Facts
<1>1. /\ Ready(w) /\ w \in Thread /\ t \in tasks_map /\ t < nextId
      /\ thread[w].id = None /\ thread[w].at \notin Sole /\ phase # "down"
  BY DEF Cancel, OnTorrentError, SeedingTimerCallback, Ready, Idle, Sole, Thread
<1>2. PICK f \in Fates : Drop(w, t, f)
  BY DEF Cancel, OnTorrentError, SeedingTimerCallback, Fates
<1>3. /\ tasks_map' = tasks_map \ {t} /\ Release(w, t, "dtor_locked", Idle)
      /\ UNCHANGED <<phase, nextId, info>>
  BY <1>2 DEF Drop, ERASE_TASK_FROM_MAP
<1>4. /\ \A u \in Ids : u # t => flags'[u] = flags[u]
      /\ ~Persisted(t) /\ (Persisted(t)' <=> Persisted(t))
  BY <1>1 DEF Cancel, OnTorrentError, SeedingTimerCallback, Inv, TraceOK, Persisted
<1>5. \A v \in Thread \ {w} : thread[v].id = t => thread[v].at \in {"quit", "setopt"}
  BY <1>1 DEF HoldOK, Holding
<1>6. Idle \in ThreadType /\ Idle.id = None /\ Idle.at = "idle"
  BY IdleType DEF Idle
<1>7. /\ TraceOK'
      /\ \A u \in Ids : u # t => Life(u)' = Life(u)
      /\ Life(t)' = IF Persisted(t)' THEN "parking" ELSE "ending"
  BY <1>1, <1>3, <1>4, <1>5, <1>6, ReleaseStep
<1>8. <<Life(t), Life(t)'>> \in Arrows
  BY <1>1, <1>4, <1>7 DEF Life, Arrows
<1> QED  BY <1>1, <1>3, <1>7, <1>8, OneMove

\* A round of PersistTasks.
LEMMA PersistTaskStep ==
  ASSUME Inv, NEW w \in Thread, PersistTask(w)
  PROVE  TraceOK' /\ Allowed
<1> USE Facts
<1>1. PICK t \in tasks_map :
        /\ ERASE_TASK_FROM_MAP(t)
        /\ flags' = [flags EXCEPT ![t] = @ \cup {"PERSIST"}]
        /\ \E at \in {"persist_dtor", "persist_last"}, rest \in {"stopped", "persisting"} :
             Release(w, t, at, [at |-> rest, id |-> None, req |-> None])
        /\ phase' \in {"persisted", phase}
  BY DEF PersistTask
<1>2. PICK at \in {"persist_dtor", "persist_last"}, rest \in {"stopped", "persisting"} :
        Release(w, t, at, [at |-> rest, id |-> None, req |-> None])
  BY <1>1
<1> DEFINE after == [at |-> rest, id |-> None, req |-> None]
<1>3. /\ after \in ThreadType /\ after.id = None /\ after.at \in {"stopped", "persisting"}
      /\ Release(w, t, at, after)
  BY <1>2 DEF ThreadType, At
<1> HIDE DEF after
<1>4. /\ thread[w].id = None /\ thread[w].at \notin Sole /\ thread[w].at # "idle"
      /\ t \in Ids /\ t < nextId /\ tasks_map' = tasks_map \ {t} /\ UNCHANGED <<nextId, info>>
      /\ phase # "down" /\ phase' # "down"
  BY <1>1 DEF PersistTask, HoldOK, Holding, Sole, ERASE_TASK_FROM_MAP
<1>5. (\A u \in Ids : u # t => flags'[u] = flags[u]) /\ Persisted(t)'
  BY <1>1, <1>4 DEF Persisted
<1>6. \A v \in Thread \ {w} : thread[v].id = t => thread[v].at \in {"quit", "setopt"}
  BY <1>4 DEF HoldOK, Holding
<1>7. /\ TraceOK'
      /\ \A u \in Ids : u # t => Life(u)' = Life(u)
      /\ Life(t)' = IF Persisted(t)' THEN "parking" ELSE "ending"
  BY <1>3, <1>4, <1>5, <1>6, ReleaseStep
<1>8. <<Life(t), Life(t)'>> \in Arrows
  BY <1>5, <1>7 DEF Life, Arrows
<1> QED  BY <1>4, <1>7, <1>8, OneMove

\* AddTask ends an older task, and keeps its object for a while.
LEMMA DisplaceStep ==
  ASSUME Inv, NEW w \in Worker, NEW r \in Request, AddTaskDisplacing(w, r)
  PROVE  TraceOK' /\ Allowed
<1> USE Facts
<1>1. r.infohash \in Infohash /\ r.data_path \in Path
  BY RequestAssumption DEF Requests
<1>2. PICK d \in tasks_map : d = Duplicate(r)
  BY <1>1 DEF Inv, IInv, IndexesExact, Duplicate, AddTaskDisplacing
<1>3. /\ w \in Thread /\ d \in Ids /\ d < nextId /\ thread[w].id = None
      /\ phase # "down" /\ UNCHANGED <<phase, nextId, info, resume>>
      /\ tasks_map' = tasks_map \ {d}
      /\ flags' = [flags EXCEPT ![d] = @ \cup {"CANCELED"}]
      /\ thread' = [thread EXCEPT ![w] = [at |-> "quit", id |-> d, req |-> r]]
  BY <1>2 DEF AddTaskDisplacing, Ready, Idle, Thread, ERASE_TASK_FROM_MAP, disk
<1>4. /\ \A v \in Thread : v # w => thread'[v] = thread[v]
      /\ thread'[w].at = "quit" /\ thread'[w].id = d
  BY <1>3
<1>5. \A u \in Ids : Persisted(u)' <=> Persisted(u)
  BY <1>3 DEF Persisted
<1>6. TraceOK'
  <2>1. \A v \in Thread : thread[v].at \in Sole => thread[v].id \in Ids
    BY DEF HoldOK, Holding
  <2> QED  BY <1>3, <1>4, <1>5, <2>1 DEF Inv, TraceOK, Persisted, Sole
<1>7. \A u \in Ids : u # d => Life(u)' = Life(u)
  BY <1>3, <1>4, <1>5, LifeKept
<1>8. Life(d)' = "ending"
  <2>1. Held(d)' /\ d \notin tasks_map' /\ ~Persisted(d)'
    BY <1>2, <1>3, <1>4, <1>5 DEF Held, Inv, TraceOK
  <2>2. ~BeingCreated(d)'
    BY <1>2, <1>4 DEF BeingCreated, HoldOK, Sole
  <2> QED  BY <2>1, <2>2 DEF Life, Persisted
<1>9. <<Life(d), Life(d)'>> \in Arrows
  <2>1. Life(d) = "running"
    BY <1>2 DEF Life
  <2> QED  BY <1>8, <2>1 DEF Arrows
<1> QED  BY <1>3, <1>6, <1>7, <1>9, OneMove

-----------------------------------------------------------------------------
(***************************************************************************)
(* The creation of a task.                                                 *)
(***************************************************************************)
LEMMA GenTaskIdStep ==
  ASSUME Inv, NEW w \in Thread, GenTaskId(w)
  PROVE  TraceOK' /\ Allowed
<1> USE Facts
<1>1. PICK t \in Ids : t = nextId
  BY BoundAssumption DEF GenTaskId, Inv, IInv, TypeOK, Ids
<1>2. PICK r \in Request : r = thread[w].req
  BY DEF GenTaskId, HoldOK
<1>3. /\ thread[w].id = None /\ thread[w].at # "idle" /\ phase # "down"
      /\ nextId' = t + 1 /\ info' = [info EXCEPT ![t] = r]
      /\ thread' = [thread EXCEPT ![w] = [at |-> "rowed", id |-> t, req |-> None]]
      /\ UNCHANGED <<phase, tasks_map, flags, resume>>
  BY <1>1, <1>2 DEF GenTaskId, HoldOK, Holding, Sole, maps, object
<1>4. /\ \A v \in Thread : v # w => thread'[v] = thread[v]
      /\ thread'[w].at = "rowed" /\ thread'[w].id = t
  BY <1>3
<1>5. /\ t \notin tasks_map /\ resume[t] = "none" /\ ~Persisted(t)
      /\ \A v \in Thread : thread[v].id # t
      /\ t \in Int /\ Ids \subseteq Int
  BY <1>1 DEF Inv, IInv, BornOK, TraceOK, HoldOK, Ids
<1>6. TraceOK'
  <2>1. \A u \in Ids : ~(u < nextId') => ~(u < nextId)
    BY <1>1, <1>3, <1>5
  <2> QED  BY <1>3, <1>4, <1>5, <2>1 DEF Inv, TraceOK, Persisted
<1>7. Life(t) = "new" /\ Life(t)' = "creating"
  <2>1. ~Held(t) /\ Held(t)' /\ BeingCreated(t)' /\ t >= nextId
    BY <1>1, <1>4, <1>5 DEF Held, BeingCreated
  <2> QED  BY <1>3, <1>5, <2>1 DEF Life
<1>8. \A u \in Ids : u # t => Life(u)' = Life(u)
  <2> SUFFICES ASSUME NEW u \in Ids, u # t PROVE Life(u)' = Life(u)
    OBVIOUS
  <2>1. (Held(u)' <=> Held(u)) /\ (BeingCreated(u)' <=> BeingCreated(u))
    BY <1>3, <1>4 DEF Held, BeingCreated
  <2>2. u >= nextId' <=> u >= nextId
    BY <1>1, <1>3, <1>5
  <2> QED  BY <1>3, <2>1, <2>2 DEF Life
<1>9. Registry!Ask(t, r.infohash)
  <2> DEFINE status == [u \in Ids |-> Life(u)]
             infohash == [u \in Ids |-> IF info[u] = None THEN None ELSE info[u].infohash]
  <2>1. status' = [status EXCEPT ![t] = "creating"] /\ status[t] = "new"
    BY <1>7, <1>8
  <2>2. infohash' = [infohash EXCEPT ![t] = r.infohash]
    <3>1. r # None
      BY NoneAssumption
    <3>2. \A u \in Ids : info'[u] = IF u = t THEN r ELSE info[u]
      BY <1>3
    <3> HIDE <1>3
    <3> QED  BY <3>1, <3>2
  <2> QED  BY <1>3, <2>1, <2>2 DEF Registry!Ask, Registry!Moves
<1>10. r.infohash \in Infohash /\ Life(t)' # Life(t)
  BY <1>7, RequestAssumption DEF Requests
<1> QED  BY <1>6, <1>9, <1>10 DEF Allowed, Registry!Next

LEMMA AddTorrentFailsStep ==
  ASSUME Inv, NEW w \in Thread, AddTorrentFails(w)
  PROVE  TraceOK' /\ Allowed
<1> USE Facts
<1>1. PICK t \in Ids : t = thread[w].id /\ t < nextId
  BY DEF AddTorrentFails, HoldOK, Holding, Sole
<1>2. /\ thread[w].at = "rowed" /\ phase # "down"
      /\ t \notin tasks_map /\ \A v \in Thread \ {w} : thread[v].id # t
      /\ resume[t] # "ok" /\ t \in Int
      /\ thread' = [thread EXCEPT ![w] = Idle]
      /\ UNCHANGED <<phase, nextId, info, tasks_map, flags, resume>>
  BY <1>1 DEF AddTorrentFails, HoldOK, Sole, Inv, TraceOK, maps, object, disk, Ids
<1>3. /\ \A v \in Thread : v # w => thread'[v] = thread[v]
      /\ thread'[w] = Idle /\ Idle.id = None /\ Idle.at = "idle"
  BY <1>2 DEF Idle
<1>4. TraceOK'
  BY <1>2, <1>3 DEF Inv, TraceOK, Persisted
<1>5. \A u \in Ids : u # t => Life(u)' = Life(u)
  BY <1>1, <1>2, <1>3, LifeKept DEF Persisted
<1>6. Life(t) = "creating" /\ Life(t)' = "over"
  <2>1. Held(t) /\ BeingCreated(t) /\ ~Held(t)'
    BY <1>1, <1>2, <1>3 DEF Held, BeingCreated
  <2> QED  BY <1>1, <1>2, <2>1 DEF Life
<1>7. <<Life(t), Life(t)'>> \in Arrows
  BY <1>6 DEF Arrows
<1> QED  BY <1>2, <1>4, <1>5, <1>7, OneMove

LEMMA AddTorrentStep ==
  ASSUME Inv, NEW w \in Thread, AddTorrent(w)
  PROVE  TraceOK' /\ Allowed
<1> USE Facts
<1>1. PICK t \in Ids : t = thread[w].id
  BY DEF AddTorrent, HoldOK, Holding, Sole
<1>2. /\ thread[w].at = "rowed" /\ phase # "down" /\ t \notin tasks_map
      /\ \A v \in Thread \ {w} : thread[v].id # t
      /\ thread' = [thread EXCEPT ![w].at = "added"]
      /\ resume' = [resume EXCEPT ![t] = "torn"]
      /\ UNCHANGED <<phase, nextId, info, tasks_map, flags>>
  BY <1>1 DEF AddTorrent, HoldOK, Sole, maps, object
<1>3. /\ \A v \in Thread : v # w => thread'[v] = thread[v]
      /\ thread'[w].at = "added" /\ thread'[w].id = t
      /\ resume'[t] = "torn" /\ \A u \in Ids : u # t => resume'[u] = resume[u]
  BY <1>1, <1>2 DEF ThreadType
<1>4. TraceOK'
  <2>1. \A v \in Thread : thread[v].at \in Sole => thread[v].id \in Ids
    BY DEF HoldOK, Holding
  <2> QED  BY <1>1, <1>2, <1>3, <2>1 DEF Inv, TraceOK, Persisted, Sole
<1>5. \A u \in Ids : u # t => Life(u)' = Life(u)
  BY <1>1, <1>2, <1>3, LifeKept DEF Persisted
<1>6. Life(t) = "creating" /\ Life(t)' = "creating"
  <2>1. Held(t) /\ BeingCreated(t) /\ Held(t)' /\ BeingCreated(t)'
    BY <1>1, <1>2, <1>3 DEF Held, BeingCreated
  <2> QED  BY <1>2, <2>1 DEF Life
<1> QED  BY <1>2, <1>4, <1>5, <1>6, NoMove

\* ADD_TASK_TO_MAP: the torrent of the task has kept the infohash for it.
LEMMA FinishCreateStep ==
  ASSUME Inv, NEW w \in Thread, FinishCreate(w)
  PROVE  TraceOK' /\ Allowed
<1> USE Facts
<1>1. PICK t \in Ids : t = thread[w].id /\ t < nextId
  BY DEF FinishCreate, HoldOK, Holding, Sole
<1>2. /\ thread[w].at = "added" /\ phase # "down" /\ t \notin tasks_map /\ t \in session
      /\ \A v \in Thread \ {w} : thread[v].id # t
      /\ thread' = [thread EXCEPT ![w] = Idle]
      /\ tasks_map' = tasks_map \cup {t}
      /\ \A u \in Ids : u # t => resume'[u] = resume[u]
      /\ UNCHANGED <<phase, nextId, info, flags>>
  BY <1>1 DEF FinishCreate, ADD_TASK_TO_MAP, HoldOK, Sole, object
<1>3. /\ \A v \in Thread : v # w => thread'[v] = thread[v]
      /\ thread'[w] = Idle /\ Idle.id = None /\ Idle.at = "idle"
  BY <1>2 DEF Idle
<1>4. TraceOK'
  <2>1. \A v \in Thread : thread[v].at \in Sole => thread[v].id \in Ids
    BY DEF HoldOK, Holding
  <2> QED  BY <1>1, <1>2, <1>3, <2>1 DEF Inv, TraceOK, Persisted, Sole
<1>5. \A u \in Ids : u # t => Life(u)' = Life(u)
  BY <1>1, <1>2, <1>3, LifeKept DEF Persisted
<1>6. Life(t) = "creating"
  <2>1. Held(t) /\ BeingCreated(t)
    BY <1>1, <1>2 DEF Held, BeingCreated
  <2> QED  BY <1>2, <2>1 DEF Life
<1>7. Life(t)' = "running"
  BY <1>2 DEF Life
<1>8. \A u \in Ids : Life(u) = "running" => u \in tasks_map
  BY DEF Life
<1>9. \A u \in tasks_map \cup {t} : info[u] # None
  BY <1>1, NoneAssumption DEF Inv, IInv, BornOK
<1>10. \A u \in tasks_map : info[u].infohash # info[t].infohash
  BY <1>2 DEF Inv, IInv, SessionOK
<1>11. Registry!Register(t)
  <2> DEFINE status == [u \in Ids |-> Life(u)]
             infohash == [u \in Ids |-> IF info[u] = None THEN None ELSE info[u].infohash]
  <2>1. status' = [status EXCEPT ![t] = "running"] /\ status[t] = "creating"
    BY <1>5, <1>6, <1>7
  <2>2. infohash' = infohash
    BY <1>2
  <2>3. \A u \in Ids : status[u] = "running" => infohash[u] # infohash[t]
    BY <1>8, <1>9, <1>10
  <2> QED  BY <1>2, <2>1, <2>2, <2>3 DEF Registry!Register, Registry!Moves
<1>12. Life(t)' # Life(t)
  BY <1>6, <1>7
<1> QED  BY <1>4, <1>11, <1>12 DEF Allowed, Registry!Next

-----------------------------------------------------------------------------
(***************************************************************************)
(* A destructor ends: its thread had the only reference.                   *)
(***************************************************************************)
LEMMA GoneStep ==
  ASSUME Inv, NEW w \in Thread, NEW t \in Ids, t = thread[w].id, t < nextId,
         thread[w].at \in Sole, ~(thread[w].at \in {"rowed", "added"}),
         \A v \in Thread : v # w => thread'[v] = thread[v],
         thread'[w].id = None, thread'[w].at \notin Sole,
         resume' = [resume EXCEPT ![t] = IF Persisted(t) THEN "ok" ELSE "none"],
         flags' = [flags EXCEPT ![t] = {}],
         UNCHANGED <<nextId, info, tasks_map>>, phase' # "down"
  PROVE  TraceOK' /\ Allowed
<1> USE Facts
<1>1. /\ t \notin tasks_map /\ \A v \in Thread \ {w} : thread[v].id # t
      /\ phase # "down" /\ t \in Int
  BY DEF HoldOK, Sole, Ids
<1>2. /\ \A u \in Ids : u # t => resume'[u] = resume[u] /\ flags'[u] = flags[u]
      /\ resume'[t] = IF Persisted(t) THEN "ok" ELSE "none"
  OBVIOUS
<1>3. TraceOK'
  <2>1. \A v \in Thread : thread[v].at \in Sole => thread[v].id \in Ids
    BY DEF HoldOK, Holding
  <2> QED  BY <1>1, <1>2, <2>1 DEF Inv, TraceOK, Persisted, Sole
<1>4. \A u \in Ids : u # t => Life(u)' = Life(u)
  BY <1>1, <1>2, LifeKept DEF Persisted
<1>5. Life(t) = IF Persisted(t) THEN "parking" ELSE "ending"
  <2>1. Held(t) /\ ~BeingCreated(t)
    BY <1>1 DEF Held, BeingCreated
  <2> QED  BY <1>1, <2>1 DEF Life, Persisted
<1>6. Life(t)' = IF Persisted(t) THEN "kept" ELSE "over"
  <2>1. ~Held(t)' /\ t \notin tasks_map' /\ ~(t >= nextId')
    BY <1>1 DEF Held
  <2>2. resume'[t] = "ok" <=> Persisted(t)
    BY <1>2
  <2> QED  BY <2>1, <2>2 DEF Life
<1>7. <<Life(t), Life(t)'>> \in Arrows
  BY <1>5, <1>6 DEF Arrows
<1> QED  BY <1>1, <1>3, <1>4, <1>7, OneMove

LEMMA DtorEndsStep ==
  ASSUME Inv, NEW w \in Thread, DtorEnds(w) \/ PersistDtorEnds(w)
  PROVE  TraceOK' /\ Allowed
<1> USE Facts
<1>1. PICK t \in Ids : t = thread[w].id /\ t < nextId
  BY DEF DtorEnds, PersistDtorEnds, HoldOK, Holding, Sole
<1>2. /\ thread[w].at \in Sole /\ ~(thread[w].at \in {"rowed", "added"}) /\ phase # "down"
      /\ UNCHANGED <<nextId, info, tasks_map>> /\ phase' # "down"
      /\ flags' = [flags EXCEPT ![t] = {}]
  BY <1>1 DEF DtorEnds, PersistDtorEnds, EndDtor, ObjectGone, Sole, maps
<1>3. resume' = [resume EXCEPT ![t] = IF Persisted(t) THEN "ok" ELSE "none"]
  <2>1. CASE DtorEnds(w)
    BY <1>1, <2>1 DEF DtorEnds, EndDtor, Persisted
  <2>2. CASE PersistDtorEnds(w)
    <3>1. Persisted(t) /\ resume' = [resume EXCEPT ![t] = "ok"]
      BY <1>1, <2>2 DEF PersistDtorEnds, Inv, TraceOK
    <3> QED  BY <3>1
  <2> QED  BY <2>1, <2>2
<1>4. /\ \A v \in Thread : v # w => thread'[v] = thread[v]
      /\ thread'[w].id = None /\ thread'[w].at \notin Sole
  <2>1. CASE DtorEnds(w)
    <3>1. thread' = [thread EXCEPT ![w] =
            IF thread[w].req = None THEN Idle
              ELSE [at |-> "create", id |-> None, req |-> thread[w].req]]
      BY <2>1 DEF DtorEnds
    <3> QED  BY <3>1 DEF Idle, Sole
  <2>2. CASE PersistDtorEnds(w)
    BY <2>2 DEF PersistDtorEnds, Sole
  <2> QED  BY <2>1, <2>2
<1> QED  BY <1>1, <1>2, <1>3, <1>4, GoneStep

\* TaskSetopt and TaskGetopt copy a reference to a running task.
LEMMA TaskSetoptStep ==
  ASSUME Inv, NEW w \in Worker, NEW t \in Ids, TaskSetopt(w, t)
  PROVE  TraceOK' /\ Allowed
<1> USE Facts
<1>1. /\ w \in Thread /\ t \in tasks_map /\ thread[w].id = None /\ phase # "down"
      /\ thread' = [thread EXCEPT ![w] = [at |-> "setopt", id |-> t, req |-> None]]
      /\ UNCHANGED <<phase, nextId, info, tasks_map, flags, resume>>
  BY DEF TaskSetopt, Ready, Idle, Thread, maps, object, disk
<1>2. /\ \A v \in Thread : v # w => thread'[v] = thread[v]
      /\ thread'[w].at = "setopt" /\ thread'[w].id = t
  BY <1>1
<1>3. TraceOK'
  BY <1>1, <1>2 DEF Inv, TraceOK, Persisted
<1>4. \A u \in Ids : u # t => Life(u)' = Life(u)
  BY <1>1, <1>2, LifeKept DEF Persisted
<1>5. Life(t) = "running" /\ Life(t)' = "running"
  BY <1>1 DEF Life
<1> QED  BY <1>1, <1>3, <1>4, <1>5, NoMove

-----------------------------------------------------------------------------
(***************************************************************************)
(* The end of the process and its restart.                                 *)
(***************************************************************************)
\* Between two processes the life of a task is what its file says.
LifeDown(t, files) ==
  IF t >= nextId THEN "new" ELSE IF files[t] = "ok" THEN "kept" ELSE "over"

LEMMA LivesAre ==
  ASSUME NEW t \in Ids, Inv
  PROVE  /\ Life(t) \in Registry!Statuses
         /\ Life(t) = "creating" => resume[t] # "ok" /\ ~(t >= nextId)
         /\ Life(t) \in {"new", "kept", "over"} => Life(t) = LifeDown(t, resume) /\ t \notin tasks_map
         /\ Life(t) \in {"running", "ending", "parking"} => ~(t >= nextId)
<1> USE Facts
<1>1. t \in Int
  BY DEF Ids
<1>2. \A w \in Thread : thread[w].id = t => ~(t >= nextId)
  BY <1>1 DEF HoldOK
<1>3. t \in tasks_map => ~(t >= nextId)
  BY <1>1
<1>4. Life(t) \in Registry!Statuses
  BY DEF Life, Registry!Statuses
<1>5. BeingCreated(t) => resume[t] # "ok"
  BY DEF Inv, TraceOK, BeingCreated
<1> QED  BY <1>2, <1>3, <1>4, <1>5 DEF Life, LifeDown, Held

LEMMA DownStep ==
  ASSUME Inv, Exit \/ Crash
  PROVE  TraceOK' /\ Allowed
<1> USE Facts
<1>1. /\ MemoryLost /\ UNCHANGED <<nextId, info>> /\ phase # "down" /\ phase' = "down"
      /\ resume' \in [Ids -> {"none", "torn", "ok"}]
      /\ \A t \in Ids : t \notin tasks_map => resume'[t] = resume[t]
  BY DEF Exit, Crash, MemoryLost, disk, history
<1>2. \A w \in Thread : thread'[w] = Idle /\ Idle.at = "idle" /\ Idle.id = None
  BY <1>1 DEF MemoryLost, Idle
<1>3. tasks_map' = {} /\ \A t \in Ids : ~Persisted(t)'
  BY <1>1 DEF MemoryLost, Persisted
<1>4. TraceOK'
  BY <1>2, <1>3 DEF TraceOK, Persisted
<1>5. \A t \in Ids : Life(t)' = LifeDown(t, resume')
  BY <1>1, <1>2, <1>3 DEF Life, Held, LifeDown
<1>6. ASSUME NEW t \in Ids
      PROVE  Life(t)' \in Registry!After(Life(t)) /\ Life(t)' \in Registry!Statuses
  <2>1. CASE Life(t) \in {"new", "kept", "over"}
    <3>1. Life(t) = LifeDown(t, resume) /\ resume'[t] = resume[t]
      BY <1>1, <2>1, LivesAre
    <3>2. Life(t)' = Life(t)
      BY <1>5, <3>1 DEF LifeDown
    <3> QED  BY <2>1, <3>2, LivesAre DEF Registry!After, Registry!Statuses
  <2>2. CASE Life(t) = "creating"
    <3>1. resume[t] # "ok" /\ ~(t >= nextId) /\ t \notin tasks_map
      BY <2>2, LivesAre DEF Life
    <3>2. Life(t)' = "over"
      BY <1>1, <1>5, <3>1 DEF LifeDown
    <3> QED  BY <2>2, <3>2 DEF Registry!After, Registry!Statuses
  <2>3. CASE Life(t) \in {"running", "ending", "parking"}
    <3>1. Life(t)' \in {"kept", "over"}
      BY <1>1, <1>5, <2>3, LivesAre DEF LifeDown
    <3> QED  BY <2>3, <3>1 DEF Registry!After, Registry!Statuses
  <2> QED  BY <2>1, <2>2, <2>3, LivesAre DEF Registry!Statuses
<1>7. Registry!ProcessEnds
  <2>1. [t \in Ids |-> Life(t)]' \in [Ids -> Registry!Statuses]
    BY <1>6
  <2>2. \A t \in Ids : [u \in Ids |-> Life(u)]'[t] \in Registry!After([u \in Ids |-> Life(u)][t])
    BY <1>6
  <2>3. UNCHANGED [t \in Ids |-> IF info[t] = None THEN None ELSE info[t].infohash]
    BY <1>1
  <2> QED  BY <1>1, <2>1, <2>2, <2>3 DEF Registry!ProcessEnds
<1> QED  BY <1>4, <1>7 DEF Allowed, Registry!Next

LEMMA RestartStep ==
  ASSUME Inv, Restart
  PROVE  TraceOK' /\ Allowed
<1> USE Facts
<1>1. PICK loaded \in SUBSET {t \in Ids : resume[t] = "ok"} :
        /\ \A t, u \in loaded : info[t].infohash = info[u].infohash => t = u
        /\ \A t \in Ids : resume[t] = "ok" =>
             \E u \in loaded : info[u].infohash = info[t].infohash
        /\ tasks_map' = loaded
        /\ resume' = [t \in Ids |-> IF t \in loaded THEN "ok" ELSE "none"]
  BY DEF Restart, OnePerInfohash
<1>2. /\ phase = "down" /\ phase' = "up" /\ UNCHANGED <<nextId, info, flags, thread>>
  BY DEF Restart, object
<1>3. /\ \A w \in Thread : thread[w].at = "idle" /\ thread[w].id = None
      /\ tasks_map = {} /\ \A t \in Ids : ~Persisted(t)
  BY <1>2 DEF Inv, DownOK, TraceOK, HoldOK, Holding, Sole
<1>4. \A t \in loaded : t \in Ids /\ resume[t] = "ok" /\ ~(t >= nextId) /\ info[t] # None
  <2>1. \A t \in Ids : resume[t] = "ok" => t < nextId /\ info[t] \in Request
    BY DEF Inv, IInv, BornOK
  <2>2. Ids \subseteq Int
    BY DEF Ids
  <2> QED  BY <2>1, <2>2, NoneAssumption
<1>5. TraceOK'
  <2>1. \A t \in Ids : Persisted(t)' <=> Persisted(t)
    BY <1>2 DEF Persisted
  <2>2. \A w \in Thread : thread'[w].at = "idle"
    BY <1>2, <1>3
  <2>3. \A t \in tasks_map' : t \in Ids
    BY <1>1, <1>4
  <2> QED  BY <1>2, <1>3, <2>1, <2>2, <2>3 DEF TraceOK, Persisted
<1>6. \A t \in Ids : Life(t) = LifeDown(t, resume)
  BY <1>3 DEF Life, Held, LifeDown
<1>7. \A t \in Ids : Life(t)' = IF t \in loaded THEN "running" ELSE LifeDown(t, resume')
  BY <1>1, <1>2, <1>3 DEF Life, Held, LifeDown
<1>8. \A t \in loaded : Life(t) = "kept" /\ Life(t)' = "running"
  BY <1>4, <1>6, <1>7 DEF LifeDown
<1>9. ASSUME NEW t \in Ids, t \notin loaded
      PROVE  /\ Life(t) = "kept" => Life(t)' = "over"
             /\ Life(t) # "kept" => Life(t)' = Life(t)
             /\ Life(t)' # "running"
  <2>1. resume'[t] = "none"
    BY <1>1, <1>9
  <2> QED  BY <1>2, <1>6, <1>7, <1>9, <2>1 DEF LifeDown
<1>10. Registry!Restart
  <2> DEFINE status == [u \in Ids |-> Life(u)]
             infohash == [u \in Ids |-> IF info[u] = None THEN None ELSE info[u].infohash]
  <2>1. status' \in [Ids -> Registry!Statuses]
    <3>1. \A t \in Ids : Life(t)' \in Registry!Statuses
      BY <1>8, <1>9, LivesAre DEF Registry!Statuses
    <3> QED  BY <3>1
  <2>2. \A t \in Ids : IF status[t] = "kept" THEN status'[t] \in {"running", "over"}
                                             ELSE status'[t] = status[t]
    BY <1>8, <1>9
  <2>3. \A t \in Ids : status[t] = "kept" =>
          \E u \in Ids : status'[u] = "running" /\ infohash[u] = infohash[t]
    <3> SUFFICES ASSUME NEW t \in Ids, Life(t) = "kept"
                 PROVE  \E u \in Ids : Life(u)' = "running" /\ infohash[u] = infohash[t]
      OBVIOUS
    <3>1. resume[t] = "ok"
      BY <1>6 DEF LifeDown
    <3>2. PICK u \in loaded : info[u].infohash = info[t].infohash
      BY <1>1, <3>1
    <3>3. info[t] # None
      BY <3>1, NoneAssumption DEF Inv, IInv, BornOK
    <3> QED  BY <1>4, <1>8, <3>2, <3>3
  <2>4. \A t, u \in Ids :
          status'[t] = "running" /\ status'[u] = "running" /\ infohash[t] = infohash[u] => t = u
    BY <1>1, <1>4, <1>9
  <2>5. infohash' = infohash
    BY <1>2
  <2> QED  BY <1>2, <2>1, <2>2, <2>3, <2>4, <2>5 DEF Registry!Restart
<1> QED  BY <1>5, <1>10 DEF Allowed, Registry!Next

-----------------------------------------------------------------------------
LEMMA StepAllowed ==
  ASSUME Inv, [Next]_vars
  PROVE  TraceOK' /\ Allowed
<1> USE DEF Thread
<1>1. ASSUME NEW w \in Thread, Continue(w) \/ Stop(w) PROVE TraceOK' /\ Allowed
  <2>1. CASE GenTaskIdFails(w) \/ Stop(w) \/ PersistNothing(w)  BY <2>1, QuietSteps
  <2>2. CASE ReleaseDup(w) \/ TaskSetoptEnds(w)  BY <2>2, LetGoStep
  <2>3. CASE GenTaskId(w)  BY <2>3, GenTaskIdStep
  <2>4. CASE AddTorrentFails(w)  BY <2>4, AddTorrentFailsStep
  <2>5. CASE AddTorrent(w)  BY <2>5, AddTorrentStep
  <2>6. CASE FinishCreate(w)  BY <2>6, FinishCreateStep
  <2>7. CASE DtorEnds(w) \/ PersistDtorEnds(w)  BY <2>7, DtorEndsStep
  <2>8. CASE PersistTask(w)  BY <2>8, PersistTaskStep
  <2> QED  BY <1>1, <2>1, <2>2, <2>3, <2>4, <2>5, <2>6, <2>7, <2>8 DEF Continue
<1>2. ASSUME NEW w \in Worker, Message(w) PROVE TraceOK' /\ Allowed
  <2>1. ASSUME NEW r \in Request, AddTask(w, r) PROVE TraceOK' /\ Allowed
    BY <2>1, QuietSteps
  <2>2. ASSUME NEW r \in Request, AddTaskDisplacing(w, r) PROVE TraceOK' /\ Allowed
    BY <2>2, DisplaceStep
  <2>3. ASSUME NEW t \in Ids, Cancel(w, t) PROVE TraceOK' /\ Allowed
    BY <2>3, DropStep
  <2>4. ASSUME NEW t \in Ids, Pause(w, t) \/ Resume(w, t) PROVE TraceOK' /\ Allowed
    BY <2>4, QuietSteps
  <2>5. ASSUME NEW t \in Ids, TaskSetopt(w, t) PROVE TraceOK' /\ Allowed
    BY <2>5, TaskSetoptStep
  <2> QED  BY <1>2, <2>1, <2>2, <2>3, <2>4, <2>5 DEF Message
<1>3. ASSUME NEW w \in Worker, NEW t \in Ids, Callback(w, t) PROVE TraceOK' /\ Allowed
  <2>1. CASE OnTorrentFinished(w, t)  BY <2>1, QuietSteps
  <2>2. CASE OnTorrentError(w, t) \/ SeedingTimerCallback(w, t)  BY <2>2, DropStep
  <2> QED  BY <1>3, <2>1, <2>2 DEF Callback
<1>4. CASE (\E t \in Ids : TorrentFinished(t) \/ DeleteDataTimerCallback(t)) \/ StopPool
  BY <1>4, StillSteps
<1>5. CASE Exit \/ Crash
  BY <1>5, DownStep
<1>6. CASE Restart
  BY <1>6, RestartStep
<1>7. CASE UNCHANGED vars
  <2>1. UNCHANGED <<phase, nextId, info, tasks_map, flags, thread, resume>>
    BY <1>7 DEF vars, maps, object, disk
  <2>2. TraceOK'
    BY <2>1 DEF Inv, TraceOK, Persisted
  <2>3. \A t \in Ids : Life(t)' = Life(t)
    BY <2>1 DEF Life, Held, BeingCreated
  <2>4. UNCHANGED Registry!vars
    BY <2>1, <2>3 DEF Registry!vars
  <2> QED  BY <2>2, <2>4 DEF Allowed
<1> QED  BY <1>1, <1>2, <1>3, <1>4, <1>5, <1>6, <1>7 DEF Next

LEMMA InvHolds == Spec => []Inv
<1>1. Init => TraceOK
  BY DEF Init, TraceOK, Persisted, Idle
<1>2. IInv /\ DownOK /\ TraceOK /\ [Next]_vars => TraceOK'
  BY StepAllowed DEF Inv
<1>3. IInv /\ DownOK /\ TraceOK <=> Inv
  BY DEF Inv
<1> QED  BY <1>1, <1>2, <1>3, InvariantHolds, PTL DEF Spec

(***************************************************************************)
(* The agent implements the registry: over any interleaving of its         *)
(* handlers, alerts, timers and of PersistTasks, and over crashes between  *)
(* any two writes, a task goes only from one status to the next, no two    *)
(* running tasks have one infohash, and a task that is over stays so.      *)
(***************************************************************************)
THEOREM AgentImplementsRegistry == Spec => ImplementsRegistry
<1>1. Init => Registry!Init
  <2> SUFFICES ASSUME Init PROVE Registry!Init
    OBVIOUS
  <2>1. \A t \in Ids : ~Held(t) /\ t \notin tasks_map /\ t >= nextId
    BY NoneAssumption DEF Init, Held, Idle, Ids
  <2>2. \A t \in Ids : Life(t) = "new"
    BY <2>1 DEF Life
  <2>3. \A t \in Ids : info[t] = None
    BY DEF Init
  <2> QED  BY <2>2, <2>3 DEF Init, Registry!Init
<1>2. Inv /\ [Next]_vars => [Registry!Next]_(Registry!vars)
  BY StepAllowed DEF Allowed
<1> QED  BY <1>1, <1>2, InvHolds, PTL DEF Spec, ImplementsRegistry, Registry!Spec

-----------------------------------------------------------------------------
(***************************************************************************)
(* The tasks clients were told of.  One that nothing ended is in the maps  *)
(* with a complete file; or the agent stops, and it is being saved by the  *)
(* thread that has it, or is saved.                                        *)
(***************************************************************************)
Secure(t) ==
  IF t \in tasks_map THEN resume[t] = "ok"
  ELSE /\ phase # "up"
       /\ IF Held(t) THEN Persisted(t) /\ resume[t] # "none" ELSE resume[t] = "ok"

Saving == {"persist", "persisting", "persist_dtor", "persist_last"}

(***************************************************************************)
(* One thread saves, while the agent is stopping; tasks that enter the     *)
(* maps after it has looked at the last one were never acknowledged.       *)
(***************************************************************************)
SaverOK ==
  /\ \A w \in Thread : thread[w].at \in Saving => phase = "stopping"
  /\ \A w \in Thread : thread[w].at = "stopped" => phase \in {"persisted", "joining"}
  /\ \A v, w \in Thread : thread[v].at \in Saving /\ thread[w].at \in Saving => v = w
  /\ thread[Main].at \in Saving \cup {"idle", "stopped"}
  /\ \A t \in acked : t < nextId
  /\ \A w \in Thread : thread[w].at \in {"rowed", "added"} => thread[w].id \notin acked
  /\ phase \in {"persisted", "joining"} => tasks_map \cap acked = {}
  /\ \A w \in Thread : thread[w].at = "persist_last" => tasks_map \cap acked = {}

AckedOK == \A t \in acked \ faults : fate[t] = "none" => Secure(t)

AInv == Inv /\ SaverOK /\ AckedOK

\* Nothing happened to a task that is secure.
LEMMA SecureKept ==
  ASSUME NEW u \in Ids, Secure(u), Held(u)' <=> Held(u), u \in tasks_map' <=> u \in tasks_map,
         Persisted(u)' <=> Persisted(u), resume'[u] = resume[u], phase' = "up" => phase = "up"
  PROVE  Secure(u)'
  BY DEF Secure, Persisted

\* A step of w on t alone.
LEMMA AckedStep ==
  ASSUME AInv, NEW w \in Thread, NEW t, \A v \in Thread : v # w => thread'[v] = thread[v],
         thread[w].id \in {None, t}, thread'[w].id \in {None, t},
         \A u \in Ids : u # t => /\ u \in tasks_map' <=> u \in tasks_map
                                 /\ flags'[u] = flags[u] /\ resume'[u] = resume[u]
                                 /\ fate'[u] = fate[u] /\ (u \in acked' => u \in acked),
         acked' \subseteq Ids, faults \subseteq faults', phase' = "up" => phase = "up",
         t \in acked' \ faults' /\ fate'[t] = "none" => Secure(t)'
  PROVE  AckedOK'
<1> SUFFICES ASSUME NEW u \in acked' \ faults', fate'[u] = "none", u # t PROVE Secure(u)'
  BY DEF AckedOK
<1>1. u \in Ids /\ u # None
  BY NoneAssumption
<1>2. Secure(u)
  BY <1>1 DEF AInv, AckedOK
<1>3. Held(u)' <=> Held(u)
  BY <1>1 DEF Held
<1> QED  BY <1>1, <1>2, <1>3, SecureKept DEF Persisted

\* A step of a handler is no business of the thread that saves.
LEMMA SaverStep ==
  ASSUME AInv, NEW w \in Thread, \A v \in Thread : v # w => thread'[v] = thread[v],
         thread'[w] = thread[w] \/
           /\ w \in Worker
           /\ thread'[w].at \notin Saving \cup {"stopped"}
           /\ thread'[w].at \in {"rowed", "added"} => thread'[w].id \notin acked,
         acked' \subseteq acked, tasks_map' \subseteq tasks_map,
         nextId' \in Int, nextId <= nextId', UNCHANGED phase
  PROVE  SaverOK'
<1>1. \A t \in acked : t \in Int /\ nextId \in Int
  BY Facts DEF AInv, Inv, IInv, TypeOK, Ids
<1>2. Main \in Thread /\ Main \notin Worker
  BY ThreadAssumption DEF Thread
<1>3. CASE thread'[w] = thread[w]
  <2>1. \A v \in Thread : thread'[v] = thread[v]
    BY <1>3
  <2> QED  BY <1>1, <1>2, <2>1 DEF AInv, SaverOK
<1>4. CASE /\ w \in Worker
           /\ thread'[w].at \notin Saving \cup {"stopped"}
           /\ thread'[w].at \in {"rowed", "added"} => thread'[w].id \notin acked
  BY <1>1, <1>2, <1>4 DEF AInv, SaverOK, Saving
<1> QED  BY <1>3, <1>4

\* Only a worker is in a handler.
LEMMA HandlerIsWorker ==
  ASSUME AInv, NEW w \in Thread, thread[w].at \notin Saving \cup {"idle", "stopped"}
  PROVE  w \in Worker
  BY DEF AInv, SaverOK, Thread

LEMMA QuietAcked ==
  ASSUME AInv, NEW w \in Thread,
         \/ \E r \in Request : w \in Worker /\ AddTask(w, r)
         \/ GenTaskIdFails(w)
         \/ \E t \in Ids : w \in Worker /\ (Pause(w, t) \/ Resume(w, t) \/ OnTorrentFinished(w, t))
         \/ \E t \in Ids : TorrentFinished(t) \/ DeleteDataTimerCallback(t)
  PROVE  SaverOK' /\ AckedOK'
<1>0. Inv /\ faults \subseteq faults' /\ acked \subseteq Ids
  BY DEF AInv, Inv, IInv, TypeOK, AddTask, GenTaskIdFails, Pause, Resume, OnTorrentFinished, ToSeeding,
     UpdateStatus, TorrentFinished, DeleteDataTimerCallback, history
<1> USE Facts
<1>1. /\ UNCHANGED <<phase, nextId, tasks_map, flags, resume, fate, acked>>
      /\ \/ thread' = thread
         \/ /\ thread[w].id = None /\ w \in Worker
            /\ \E new \in {"create", "idle"}, req \in Request \cup {None} :
                 thread' = [thread EXCEPT ![w] = [at |-> new, id |-> None, req |-> req]]
  <2>1. ASSUME NEW r \in Request, w \in Worker, AddTask(w, r)
        PROVE  /\ thread[w].id = None
               /\ thread' = [thread EXCEPT ![w] = [at |-> "create", id |-> None, req |-> r]]
    BY <2>1 DEF AddTask, Ready, Idle
  <2>2. ASSUME GenTaskIdFails(w)
        PROVE  /\ thread[w].id = None /\ w \in Worker
               /\ thread' = [thread EXCEPT ![w] = [at |-> "idle", id |-> None, req |-> None]]
    BY <1>0, <2>2, HandlerIsWorker DEF GenTaskIdFails, HoldOK, Holding, Sole, Saving, Idle
  <2>3. UNCHANGED <<phase, nextId, tasks_map, flags, resume, fate, acked>>
    BY DEF AddTask, GenTaskIdFails, Pause, Resume, OnTorrentFinished, TorrentFinished,
       DeleteDataTimerCallback, maps, object, disk, history
  <2>4. \/ \E r \in Request : w \in Worker /\ AddTask(w, r)
        \/ GenTaskIdFails(w)
        \/ thread' = thread
    BY DEF Pause, Resume, OnTorrentFinished, TorrentFinished, DeleteDataTimerCallback
  <2> QED  BY <2>1, <2>2, <2>3, <2>4
<1>2. CASE thread' = thread
  <2>1. SaverOK'
    BY <1>0, <1>1, <1>2, SaverStep
  <2>2. ASSUME NEW u \in acked' \ faults', fate'[u] = "none" PROVE Secure(u)'
    <3>1. u \in Ids /\ Secure(u)
      BY <1>0, <1>1, <2>2 DEF AInv, AckedOK
    <3>2. Held(u)' <=> Held(u)
      BY <1>2 DEF Held
    <3> QED  BY <1>1, <3>1, <3>2, SecureKept DEF Persisted
  <2> QED  BY <2>1, <2>2 DEF AckedOK
<1>3. CASE /\ thread[w].id = None /\ w \in Worker
           /\ \E new \in {"create", "idle"}, req \in Request \cup {None} :
                thread' = [thread EXCEPT ![w] = [at |-> new, id |-> None, req |-> req]]
  <2>1. /\ \A v \in Thread : v # w => thread'[v] = thread[v]
        /\ thread'[w].id = None /\ thread'[w].at \in {"create", "idle"}
    BY <1>0, <1>3
  <2>2. SaverOK'
    BY <1>0, <1>1, <1>3, <2>1, SaverStep DEF Saving
  <2>3. AckedOK'
    BY <1>0, <1>1, <1>3, <2>1, AckedStep
  <2> QED  BY <2>2, <2>3
<1> QED  BY <1>1, <1>2, <1>3

LEMMA StopAcked ==
  ASSUME AInv, NEW w \in Thread, Stop(w) \/ PersistNothing(w) \/ StopPool
  PROVE  SaverOK' /\ AckedOK'
<1>0. Inv /\ acked \subseteq Ids
  BY DEF AInv, Inv, IInv, TypeOK
<1> USE Facts
<1>1. /\ UNCHANGED <<nextId, tasks_map, flags, resume, fate, acked, faults>>
      /\ phase' # "up" /\ phase' # "down"
  BY DEF Stop, PersistNothing, StopPool, maps, object, disk, history
<1>2. CASE Stop(w)
  <2>1. /\ thread[w] = Idle /\ phase = "up" /\ phase' = "stopping"
        /\ thread'[w].at = "persist" /\ thread'[w].id = None /\ thread[w].id = None
        /\ \A v \in Thread : v # w => thread'[v] = thread[v]
    BY <1>0, <1>2 DEF Stop, Idle, ThreadType
  <2>2. \A v \in Thread : thread[v].at \notin Saving \cup {"stopped"}
    BY <2>1 DEF AInv, SaverOK
  <2>3. SaverOK'
    BY <1>1, <2>1, <2>2 DEF AInv, SaverOK, Saving, Thread
  <2>4. AckedOK'
    BY <1>0, <1>1, <2>1, AckedStep
  <2> QED  BY <2>3, <2>4
<1>3. CASE PersistNothing(w)
  <2>1. /\ thread[w].at = "persist" /\ phase' = "persisted" /\ tasks_map = {}
        /\ thread'[w].at = "stopped" /\ thread'[w].id = None /\ thread[w].id = None
        /\ \A v \in Thread : v # w => thread'[v] = thread[v]
    BY <1>0, <1>3 DEF PersistNothing, ThreadType, HoldOK, Holding, Sole
  <2>2. \A v \in Thread : v # w => thread[v].at \notin Saving
    BY <2>1 DEF AInv, SaverOK, Saving
  <2>3. SaverOK'
    BY <1>1, <2>1, <2>2 DEF AInv, SaverOK, Saving, Thread
  <2>4. AckedOK'
    BY <1>0, <1>1, <2>1, AckedStep
  <2> QED  BY <2>3, <2>4
<1>4. CASE StopPool
  <2>1. phase = "persisted" /\ phase' = "joining" /\ thread' = thread
    BY <1>4 DEF StopPool
  <2>2. SaverOK'
    BY <1>1, <2>1 DEF AInv, SaverOK, Saving
  <2>3. AckedOK'
    BY <1>0, <1>1, <2>1 DEF AInv, AckedOK, Secure, Held, Persisted
  <2> QED  BY <2>2, <2>3
<1> QED  BY <1>2, <1>3, <1>4

\* AddTask ends the older task: its fate is told.
LEMMA EndedAcked ==
  ASSUME AInv, NEW w \in Worker,
         \/ \E r \in Request : AddTaskDisplacing(w, r)
         \/ \E t \in Ids : Cancel(w, t) \/ OnTorrentError(w, t) \/ SeedingTimerCallback(w, t)
  PROVE  SaverOK' /\ AckedOK'
<1>0. Inv /\ acked \subseteq Ids /\ w \in Thread
  BY DEF AInv, Inv, IInv, TypeOK, Thread
<1> USE Facts
<1>1. PICK t \in tasks_map :
        /\ tasks_map' = tasks_map \ {t} /\ fate'[t] # "none"
        /\ \A u \in Ids : u # t =>
             flags'[u] = flags[u] /\ resume'[u] = resume[u] /\ fate'[u] = fate[u]
        /\ thread[w].id = None /\ thread'[w].id \in {None, t}
        /\ thread'[w].at \in {"quit", "idle", "dtor_locked"}
        /\ \A v \in Thread : v # w => thread'[v] = thread[v]
        /\ faults \subseteq faults' /\ UNCHANGED <<phase, nextId, acked>>
  <2>0. fate \in [Ids -> Fates]
    BY DEF AInv, Inv, IInv, TypeOK
  <2>1. ASSUME NEW r \in Request, AddTaskDisplacing(w, r)
        PROVE  \E t \in tasks_map :
                 /\ tasks_map' = tasks_map \ {t} /\ fate'[t] # "none"
                 /\ \A u \in Ids : u # t =>
                      flags'[u] = flags[u] /\ resume'[u] = resume[u] /\ fate'[u] = fate[u]
                 /\ thread[w].id = None /\ thread'[w].id \in {None, t}
                 /\ thread'[w].at \in {"quit", "idle", "dtor_locked"}
                 /\ \A v \in Thread : v # w => thread'[v] = thread[v]
                 /\ faults \subseteq faults' /\ UNCHANGED <<phase, nextId, acked>>
    <3>1. r.infohash \in Infohash /\ r.data_path \in Path
      BY RequestAssumption DEF Requests
    <3>2. PICK d \in tasks_map : d = Duplicate(r)
      BY <2>1, <3>1 DEF AInv, Inv, IInv, IndexesExact, Duplicate, AddTaskDisplacing
    <3>3. /\ tasks_map' = tasks_map \ {d} /\ fate' = [fate EXCEPT ![d] = "displaced"]
          /\ flags' = [flags EXCEPT ![d] = @ \cup {"CANCELED"}]
          /\ thread[w].id = None
          /\ thread' = [thread EXCEPT ![w] = [at |-> "quit", id |-> d, req |-> r]]
          /\ UNCHANGED <<phase, nextId, acked, faults, resume>>
      BY <2>1, <3>2 DEF AddTaskDisplacing, ERASE_TASK_FROM_MAP, Ready, Idle, disk
    <3>4. d \in Ids
      BY <1>0, <3>2
    <3> QED  BY <1>0, <2>0, <3>2, <3>3, <3>4
  <2>2. ASSUME NEW t \in Ids, Cancel(w, t) \/ OnTorrentError(w, t) \/ SeedingTimerCallback(w, t)
        PROVE  /\ t \in tasks_map /\ tasks_map' = tasks_map \ {t} /\ fate'[t] # "none"
               /\ \A u \in Ids : u # t =>
                    flags'[u] = flags[u] /\ resume'[u] = resume[u] /\ fate'[u] = fate[u]
               /\ thread[w].id = None /\ thread'[w].id \in {None, t}
               /\ thread'[w].at \in {"quit", "idle", "dtor_locked"}
               /\ \A v \in Thread : v # w => thread'[v] = thread[v]
               /\ faults \subseteq faults' /\ UNCHANGED <<phase, nextId, acked>>
    <3>1. PICK f \in Fates \ {"none"} : Drop(w, t, f)
      BY <2>2 DEF Cancel, OnTorrentError, SeedingTimerCallback, Fates
    <3>2. /\ t \in tasks_map /\ thread[w].id = None
          /\ \A u \in Ids : u # t => flags'[u] = flags[u]
      BY <1>0, <2>2 DEF Cancel, OnTorrentError, SeedingTimerCallback, Ready, Idle
    <3>3. /\ tasks_map' = tasks_map \ {t} /\ fate' = [fate EXCEPT ![t] = f]
          /\ Release(w, t, "dtor_locked", Idle) /\ UNCHANGED <<phase, nextId, acked>>
      BY <3>1 DEF Drop, ERASE_TASK_FROM_MAP
    <3>4. /\ \A u \in Ids : u # t => resume'[u] = resume[u]
          /\ faults \subseteq faults'
          /\ \/ thread' = [thread EXCEPT ![w] = Idle]
             \/ thread' = [thread EXCEPT ![w] = [at |-> "dtor_locked", id |-> t, req |-> Idle.req]]
      BY <1>0, <3>3 DEF Release, BeginDtor, UpdateStatus, disk
    <3>5. /\ \A v \in Thread : v # w => thread'[v] = thread[v]
          /\ thread'[w].id \in {None, t} /\ thread'[w].at \in {"quit", "idle", "dtor_locked"}
      BY <1>0, <3>4 DEF Idle
    <3> QED  BY <2>0, <3>2, <3>3, <3>4, <3>5
  <2> QED  BY <2>1, <2>2
<1>2. SaverOK'
  BY <1>0, <1>1, SaverStep DEF Saving
<1>3. AckedOK'
  BY <1>0, <1>1, AckedStep
<1> QED  BY <1>2, <1>3

\* A task that was ended or parked, and is let go of, stays so.
LEMMA LetGoAcked ==
  ASSUME AInv, NEW w \in Thread, ReleaseDup(w) \/ TaskSetoptEnds(w)
  PROVE  SaverOK' /\ AckedOK'
<1>0. Inv /\ acked \subseteq Ids
  BY DEF AInv, Inv, IInv, TypeOK
<1> USE Facts
<1>1. /\ thread[w].at \in {"quit", "setopt"} /\ thread[w].id \in Ids
      /\ UNCHANGED <<phase, nextId, tasks_map, flags, fate, acked>>
  BY <1>0 DEF ReleaseDup, TaskSetoptEnds, HoldOK, Holding, maps
<1>2. PICK t \in Ids : t = thread[w].id
  BY <1>1
<1>3. /\ \A u \in Ids : u # t => resume'[u] = resume[u]
      /\ faults \subseteq faults' /\ \A v \in Thread : v # w => thread'[v] = thread[v]
      /\ thread'[w].id \in {None, t} /\ thread'[w].at \in {"idle", "create", "dtor"}
      /\ \/ resume' = resume /\ (thread'[w].id = None => t \in tasks_map \/ HeldElsewhere(w, t))
         \/ t \notin tasks_map /\ thread'[w].id = t
            /\ (resume'[t] = resume[t] \/ (resume'[t] = "torn" /\ Persisted(t)))
  <2>1. CASE TaskSetoptEnds(w) /\ t \in tasks_map
    BY <1>0, <1>2, <2>1 DEF TaskSetoptEnds, Idle, disk
  <2>2. CASE ReleaseDup(w) \/ t \notin tasks_map
    <3>1. PICK a \in {Idle, [at |-> "create", id |-> None, req |-> thread[w].req]} :
            Release(w, t, "dtor", a) /\ UNCHANGED flags
      BY <1>2, <2>2 DEF ReleaseDup, TaskSetoptEnds
    <3>2. a.id = None /\ a.at \in {"idle", "create"}
      BY DEF Idle
    <3>3. t \notin tasks_map
      BY <1>0, <1>2, <2>2 DEF ReleaseDup, HoldOK, Sole
    <3>4. CASE HeldElsewhere(w, t)
      BY <1>0, <3>1, <3>2, <3>4 DEF Release, disk
    <3>5. CASE ~HeldElsewhere(w, t)
      <4>1. thread' = [thread EXCEPT ![w] = [at |-> "dtor", id |-> t, req |-> a.req]]
        BY <3>1, <3>5 DEF Release
      <4>2. /\ resume' = IF "PERSIST" \in flags[t] THEN [resume EXCEPT ![t] = "torn"] ELSE resume
            /\ faults \subseteq faults'
        BY <3>1, <3>5 DEF Release, BeginDtor, UpdateStatus
      <4> QED  BY <1>0, <3>3, <4>1, <4>2 DEF Persisted
    <3> QED  BY <3>4, <3>5
  <2> QED  BY <2>1, <2>2
<1>4. w \in Worker
  BY <1>1, HandlerIsWorker DEF Saving
<1>5. SaverOK'
  BY <1>0, <1>1, <1>3, <1>4, SaverStep DEF Saving
<1>6. ASSUME t \in acked' \ faults', fate'[t] = "none" PROVE Secure(t)'
  <2>1. Secure(t) /\ Held(t)
    BY <1>1, <1>2, <1>3, <1>6 DEF AInv, AckedOK, Held
  <2>2. CASE t \in tasks_map
    BY <1>1, <1>3, <2>1, <2>2 DEF Secure
  <2>3. CASE t \notin tasks_map
    <3>1. Held(t)'
      BY <1>2, <1>3, <2>3 DEF Held, HeldElsewhere
    <3>2. resume'[t] # "none"
      BY <1>3, <2>1, <2>3 DEF Secure
    <3> QED  BY <1>1, <2>1, <2>3, <3>1, <3>2 DEF Secure, Persisted
  <2> QED  BY <2>2, <2>3
<1>7. AckedOK'
  BY <1>0, <1>1, <1>2, <1>3, <1>6, AckedStep
<1> QED  BY <1>5, <1>7

\* The task that PersistTasks takes out of the maps has a complete file.
LEMMA PersistAcked ==
  ASSUME AInv, NEW w \in Thread, PersistTask(w)
  PROVE  SaverOK' /\ AckedOK'
<1>0. Inv /\ acked \subseteq Ids
  BY DEF AInv, Inv, IInv, TypeOK
<1> USE Facts
<1>1. PICK t \in tasks_map :
        /\ ERASE_TASK_FROM_MAP(t)
        /\ flags' = [flags EXCEPT ![t] = @ \cup {"PERSIST"}]
        /\ Release(w, t, IF tasks_map = {t} THEN "persist_last" ELSE "persist_dtor",
                   [at |-> IF tasks_map = {t} THEN "stopped" ELSE "persisting",
                    id |-> None, req |-> None])
        /\ phase' = IF thread'[w].at = "stopped" THEN "persisted" ELSE phase
  BY DEF PersistTask
<1>2. /\ thread[w].at \in {"persist", "persisting"} /\ thread[w].id = None /\ phase = "stopping"
      /\ t \in Ids /\ tasks_map' = tasks_map \ {t}
      /\ UNCHANGED <<nextId, fate, acked>>
  BY <1>0, <1>1 DEF PersistTask, HoldOK, Holding, Sole, AInv, SaverOK, Saving, ERASE_TASK_FROM_MAP
<1>3. /\ Persisted(t)' /\ \A u \in Ids : u # t => flags'[u] = flags[u]
  BY <1>0, <1>1, <1>2 DEF Persisted
<1>4. /\ \A u \in Ids : u # t => resume'[u] = resume[u]
      /\ faults \subseteq faults' /\ \A v \in Thread : v # w => thread'[v] = thread[v]
      /\ thread'[w].id \in {None, t}
      /\ thread'[w].at \in IF tasks_map = {t} THEN {"stopped", "persist_last"}
                                              ELSE {"persisting", "persist_dtor"}
      /\ resume'[t] \in {resume[t], "torn"} /\ Held(t)'
  <2>1. CASE HeldElsewhere(w, t)
    <3>1. /\ thread' = [thread EXCEPT ![w] = [at |-> IF tasks_map = {t} THEN "stopped" ELSE "persisting",
                                              id |-> None, req |-> None]]
          /\ UNCHANGED <<resume, faults>>
      BY <1>1, <2>1 DEF Release, disk
    <3>2. Held(t)'
      BY <1>0, <2>1, <3>1 DEF Held, HeldElsewhere
    <3> QED  BY <1>0, <3>1, <3>2
  <2>2. CASE ~HeldElsewhere(w, t)
    <3>1. /\ thread' = [thread EXCEPT ![w] =
                          [at |-> IF tasks_map = {t} THEN "persist_last" ELSE "persist_dtor",
                           id |-> t, req |-> None]]
          /\ resume' = IF "PERSIST" \in flags'[t] THEN [resume EXCEPT ![t] = "torn"] ELSE resume
          /\ faults \subseteq faults'
      BY <1>1, <2>2 DEF Release, BeginDtor, UpdateStatus
    <3>2. thread'[w].id = t
      BY <1>0, <3>1
    <3> QED  BY <1>0, <1>2, <3>1, <3>2 DEF Held
  <2> QED  BY <2>1, <2>2
<1>5. SaverOK'
  <2>1. \A v \in Thread : v # w => thread'[v].at \notin Saving \cup {"stopped"}
    BY <1>2, <1>4 DEF AInv, SaverOK, Saving
  <2>2. /\ thread'[w].at = "stopped" => phase' = "persisted" /\ tasks_map' = {}
        /\ thread'[w].at # "stopped" => phase' = "stopping"
        /\ thread'[w].at = "persist_last" => tasks_map' = {}
        /\ thread'[w].at \in Saving \cup {"stopped"}
    BY <1>1, <1>2, <1>4 DEF Saving
  <2>3. \A v \in Thread : thread'[v].at \in {"rowed", "added"} => v # w
    BY <2>2 DEF Saving
  <2>4. Main \in Thread
    BY DEF Thread
  <2> QED  BY <1>2, <1>4, <2>1, <2>2, <2>3, <2>4 DEF AInv, SaverOK, Saving
<1>6. ASSUME t \in acked' \ faults', fate'[t] = "none" PROVE Secure(t)'
  <2>1. resume[t] = "ok"
    BY <1>1, <1>2, <1>4, <1>6 DEF AInv, AckedOK, Secure
  <2>2. phase' # "up"
    BY <1>1, <1>2
  <2> QED  BY <1>2, <1>3, <1>4, <2>1, <2>2 DEF Secure, Persisted
<1>7. AckedOK'
  <2>1. phase' = "up" => phase = "up"
    BY <1>1, <1>2
  <2> QED  BY <1>0, <1>2, <1>3, <1>4, <1>6, <2>1, AckedStep
<1> QED  BY <1>5, <1>7

\* Nobody was told of a task that is being created.
LEMMA CreateAcked ==
  ASSUME AInv, NEW w \in Thread,
         GenTaskId(w) \/ AddTorrentFails(w) \/ AddTorrent(w) \/ \E t \in Ids : w \in Worker /\ TaskSetopt(w, t)
  PROVE  SaverOK' /\ AckedOK'
<1>0. Inv /\ acked \subseteq Ids
  BY DEF AInv, Inv, IInv, TypeOK
<1> USE Facts
<1>1. w \in Worker
  BY HandlerIsWorker DEF GenTaskId, AddTorrentFails, AddTorrent, Saving
<1>2. UNCHANGED <<phase, tasks_map, flags, acked, faults>>
  BY DEF GenTaskId, AddTorrentFails, AddTorrent, TaskSetopt, maps, object, disk, history
<1>3. CASE GenTaskId(w)
  <2>1. PICK t \in Ids : t = nextId
    BY <1>0, <1>3, BoundAssumption DEF GenTaskId, Inv, IInv, TypeOK, Ids
  <2>2. /\ thread[w].id = None /\ thread'[w].at = "rowed" /\ thread'[w].id = t
        /\ \A v \in Thread : v # w => thread'[v] = thread[v]
        /\ nextId' = nextId + 1 /\ UNCHANGED <<resume, fate>>
    BY <1>0, <1>3, <2>1 DEF GenTaskId, HoldOK, Holding, Sole, history
  <2>3. t \notin acked
    BY <1>0, <2>1 DEF AInv, SaverOK
  <2>4. SaverOK'
    BY <1>0, <1>1, <1>2, <2>2, <2>3, SaverStep DEF Saving
  <2>5. AckedOK'
    BY <1>0, <1>2, <2>2, <2>3, AckedStep
  <2> QED  BY <2>4, <2>5
<1>4. CASE AddTorrentFails(w) \/ AddTorrent(w)
  <2>1. PICK t \in Ids : t = thread[w].id
    BY <1>0, <1>4 DEF AddTorrentFails, AddTorrent, HoldOK, Holding, Sole
  <2>2. t \notin acked
    BY <1>4, <2>1 DEF AddTorrentFails, AddTorrent, AInv, SaverOK
  <2>3. /\ \A v \in Thread : v # w => thread'[v] = thread[v]
        /\ \/ thread'[w].id = None /\ thread'[w].at = "idle"
           \/ thread'[w].id = t /\ thread'[w].at = "added"
        /\ \A u \in Ids : u # t => fate'[u] = fate[u] /\ resume'[u] = resume[u]
        /\ UNCHANGED nextId
    <3>1. CASE AddTorrentFails(w)
      <4>1. fate' = [fate EXCEPT ![t] = "refused"] /\ UNCHANGED <<nextId, resume>>
        BY <2>1, <3>1 DEF AddTorrentFails, disk
      <4>2. fate \in [Ids -> Fates]
        BY <1>0 DEF Inv, IInv, TypeOK
      <4> QED  BY <1>0, <3>1, <4>1, <4>2 DEF AddTorrentFails, Idle
    <3>2. CASE AddTorrent(w)
      BY <1>0, <2>1, <3>2 DEF AddTorrent, ThreadType, history
    <3> QED  BY <1>4, <3>1, <3>2
  <2>4. SaverOK'
    BY <1>0, <1>1, <1>2, <2>2, <2>3, SaverStep DEF Saving
  <2>5. AckedOK'
    BY <1>0, <1>2, <2>1, <2>2, <2>3, AckedStep
  <2> QED  BY <2>4, <2>5
<1>5. ASSUME NEW t \in Ids, TaskSetopt(w, t) PROVE SaverOK' /\ AckedOK'
  <2>1. /\ thread[w].id = None /\ thread'[w].at = "setopt" /\ thread'[w].id = t
        /\ \A v \in Thread : v # w => thread'[v] = thread[v]
        /\ t \in tasks_map /\ UNCHANGED <<nextId, resume, fate>>
    BY <1>0, <1>5 DEF TaskSetopt, Ready, Idle, disk, history
  <2>2. SaverOK'
    BY <1>0, <1>1, <1>2, <2>1, SaverStep DEF Saving
  <2>3. t \in acked' \ faults' /\ fate'[t] = "none" => Secure(t)'
    BY <1>2, <2>1 DEF AInv, AckedOK, Secure
  <2>4. AckedOK'
    BY <1>0, <1>2, <2>1, <2>3, AckedStep
  <2> QED  BY <2>2, <2>4
<1> QED  BY <1>3, <1>4, <1>5

\* The client is told: the file is complete, and the task in the maps.
LEMMA FinishAcked ==
  ASSUME AInv, NEW w \in Thread, FinishCreate(w)
  PROVE  SaverOK' /\ AckedOK'
<1>0. Inv /\ acked \subseteq Ids
  BY DEF AInv, Inv, IInv, TypeOK
<1> USE Facts
<1>1. w \in Worker
  BY HandlerIsWorker DEF FinishCreate, Saving
<1>2. PICK t \in Ids : t = thread[w].id /\ t < nextId
  BY <1>0 DEF FinishCreate, HoldOK, Holding, Sole
<1>3. /\ tasks_map' = tasks_map \cup {t}
      /\ acked' = IF phase = "up" THEN acked \cup {t} ELSE acked
      /\ thread' = [thread EXCEPT ![w] = Idle]
      /\ \/ resume'[t] = "ok" /\ faults' = faults
         \/ faults' = faults \cup {t}
      /\ \A u \in Ids : u # t => resume'[u] = resume[u]
      /\ UNCHANGED <<phase, nextId, flags, fate>>
  BY <1>0, <1>2 DEF FinishCreate, ADD_TASK_TO_MAP, object
<1>4. /\ \A v \in Thread : v # w => thread'[v] = thread[v]
      /\ thread'[w].id = None /\ thread'[w].at = "idle"
  BY <1>0, <1>3 DEF Idle
<1>5. t \notin acked
  BY <1>2 DEF AInv, SaverOK, FinishCreate
<1>6. SaverOK'
  <2>1. \A v \in Thread : v # w /\ thread[v].at \in Sole => thread[v].id # t
    BY <1>0, <1>2 DEF HoldOK, FinishCreate, Sole, Holding
  <2>2. Main # w /\ Main \in Thread
    BY <1>1, ThreadAssumption DEF Thread
  <2>3. phase # "up" => tasks_map' \cap acked' = tasks_map \cap acked
    BY <1>3, <1>5
  <2> QED  BY <1>2, <1>3, <1>4, <2>1, <2>2, <2>3 DEF AInv, SaverOK, Saving, Sole
<1>7. AckedOK'
  <2>1. t \in acked' \ faults' /\ fate'[t] = "none" => Secure(t)'
    BY <1>3 DEF Secure
  <2>2. \A u \in Ids : u # t => (u \in acked' => u \in acked) /\ flags'[u] = flags[u]
    BY <1>3
  <2>3. acked' \subseteq Ids /\ faults \subseteq faults'
    BY <1>0, <1>3
  <2> QED  BY <1>0, <1>2, <1>3, <1>4, <2>1, <2>2, <2>3, AckedStep
<1> QED  BY <1>6, <1>7

\* The file of a task that was parked is complete again.
LEMMA DtorAcked ==
  ASSUME AInv, NEW w \in Thread, DtorEnds(w) \/ PersistDtorEnds(w)
  PROVE  SaverOK' /\ AckedOK'
<1>0. Inv /\ acked \subseteq Ids
  BY DEF AInv, Inv, IInv, TypeOK
<1> USE Facts
<1>1. PICK t \in Ids : t = thread[w].id
  BY <1>0 DEF DtorEnds, PersistDtorEnds, HoldOK, Holding, Sole
<1>2. /\ t \notin tasks_map /\ \A v \in Thread \ {w} : thread[v].id # t
      /\ UNCHANGED <<nextId, tasks_map, fate, acked, faults>>
      /\ flags' = [flags EXCEPT ![t] = {}]
      /\ resume' = [resume EXCEPT ![t] = IF Persisted(t) THEN "ok" ELSE "none"]
  <2>1. thread[w].at \in Sole
    BY DEF DtorEnds, PersistDtorEnds, Sole
  <2>2. CASE DtorEnds(w)
    BY <1>0, <1>1, <2>1, <2>2 DEF DtorEnds, EndDtor, ObjectGone, HoldOK, Persisted, maps, history
  <2>3. CASE PersistDtorEnds(w)
    <3>1. Persisted(t)
      BY <1>0, <1>1, <2>3 DEF PersistDtorEnds, Inv, TraceOK
    <3> QED  BY <1>0, <1>1, <2>1, <2>3, <3>1 DEF PersistDtorEnds, ObjectGone, HoldOK, maps, history
  <2> QED  BY <2>2, <2>3
<1>3. /\ \A v \in Thread : v # w => thread'[v] = thread[v]
      /\ thread'[w].id = None
      /\ \/ w \in Worker /\ thread'[w].at \in {"idle", "create"} /\ phase' = phase
         \/ /\ thread[w].at \in {"persist_dtor", "persist_last"}
            /\ IF thread[w].at = "persist_last"
                 THEN thread'[w].at = "stopped" /\ phase' = "persisted"
                 ELSE thread'[w].at = "persisting" /\ phase' = phase
  <2>1. CASE DtorEnds(w)
    <3>1. w \in Worker
      BY <2>1, HandlerIsWorker DEF DtorEnds, Saving
    <3>2. /\ thread' = [thread EXCEPT ![w] =
               IF thread[w].req = None THEN Idle
                 ELSE [at |-> "create", id |-> None, req |-> thread[w].req]]
          /\ phase' = phase
      BY <2>1 DEF DtorEnds, EndDtor
    <3> QED  BY <1>0, <3>1, <3>2 DEF Idle
  <2>2. CASE PersistDtorEnds(w)
    BY <1>0, <2>2 DEF PersistDtorEnds
  <2> QED  BY <2>1, <2>2
<1>4. SaverOK'
  <2>1. CASE w \in Worker /\ thread'[w].at \in {"idle", "create"} /\ phase' = phase
    BY <1>0, <1>2, <1>3, <2>1, SaverStep DEF Saving
  <2>2. CASE thread[w].at \in {"persist_dtor", "persist_last"}
    <3>1. /\ phase = "stopping"
          /\ \A v \in Thread : v # w => thread[v].at \notin Saving \cup {"stopped"}
      BY <2>2 DEF AInv, SaverOK, Saving
    <3>2. thread[w].at = "persist_last" => tasks_map \cap acked = {}
      BY DEF AInv, SaverOK
    <3>3. Main \in Thread
      BY DEF Thread
    <3> QED  BY <1>2, <1>3, <2>2, <3>1, <3>2, <3>3, ThreadAssumption DEF AInv, SaverOK, Saving
  <2> QED  BY <1>3, <2>1, <2>2
<1>5. ASSUME t \in acked' \ faults', fate'[t] = "none" PROVE Secure(t)'
  <2>1. Secure(t) /\ Held(t) /\ ~Held(t)'
    BY <1>0, <1>1, <1>2, <1>3, <1>5 DEF AInv, AckedOK, Held
  <2>2. phase' # "up" /\ Persisted(t)
    BY <1>2, <1>3, <2>1 DEF Secure
  <2>3. resume'[t] = "ok"
    BY <1>0, <1>2, <2>2
  <2> QED  BY <1>2, <2>1, <2>2, <2>3 DEF Secure
<1>6. AckedOK'
  <2>1. phase' = "up" => phase = "up"
    BY <1>3
  <2>2. \A u \in Ids : u # t => flags'[u] = flags[u] /\ resume'[u] = resume[u]
    BY <1>0, <1>2
  <2> QED  BY <1>0, <1>1, <1>2, <1>3, <1>5, <2>1, <2>2, AckedStep
<1> QED  BY <1>4, <1>6

\* When the process ends, nobody holds a task that a client was told of.
LEMMA DownAcked ==
  ASSUME AInv, Exit \/ Crash
  PROVE  SaverOK' /\ AckedOK'
<1>0. Inv /\ acked \subseteq Ids
  BY DEF AInv, Inv, IInv, TypeOK
<1> USE Facts
<1>1. /\ phase' = "down" /\ tasks_map' = {} /\ thread' = [w \in Thread |-> Idle]
      /\ UNCHANGED <<nextId, acked, faults>>
  BY DEF Exit, Crash, MemoryLost, history
<1>2. SaverOK'
  BY <1>1, ThreadAssumption DEF AInv, SaverOK, Saving, Idle, Thread
<1>3. \A t \in Ids : ~Held(t)'
  BY <1>0, <1>1 DEF Held, Idle
<1>4. ASSUME NEW t \in acked' \ faults', fate'[t] = "none" PROVE resume'[t] = "ok"
  <2>1. t \in Ids /\ (fate[t] = "none" => Secure(t))
    BY <1>0, <1>1, <1>4 DEF AInv, AckedOK
  <2>2. CASE Exit
    <3>1. \A w \in Thread : thread[w].at \in {"idle", "stopped"}
      BY <2>2 DEF Exit, AInv, SaverOK, Saving, Thread
    <3>2. ~Held(t)
      BY <1>0, <2>1, <3>1 DEF Held, HoldOK, Holding, Sole
    <3>3. t \notin tasks_map
      BY <1>1, <1>4, <2>2 DEF Exit, AInv, SaverOK
    <3>4. resume'[t] = resume[t] /\ fate'[t] = fate[t]
      BY <2>1, <2>2, <3>3 DEF Exit, history
    <3> QED  BY <1>4, <2>1, <3>2, <3>3, <3>4 DEF Secure
  <2>3. CASE Crash
    <3>1. /\ resume' = resume /\ fate[t] = "none" /\ resume[t] # "torn"
      BY <1>4, <2>1, <2>3 DEF Crash, disk
    <3>2. resume[t] # "none"
      BY <2>1, <3>1 DEF Secure
    <3> QED  BY <1>0, <2>1, <3>1, <3>2
  <2> QED  BY <2>2, <2>3
<1>5. AckedOK'
  BY <1>0, <1>1, <1>3, <1>4 DEF AckedOK, Secure
<1> QED  BY <1>2, <1>5

\* A restart finds their files.
LEMMA RestartAcked ==
  ASSUME AInv, Restart
  PROVE  SaverOK' /\ AckedOK'
<1>0. Inv /\ acked \subseteq Ids /\ tasks_map = {}
  BY DEF AInv, Inv, IInv, TypeOK, Restart, TraceOK
<1> USE Facts
<1>1. PICK loaded \in SUBSET {t \in Ids : resume[t] = "ok"} :
        /\ tasks_map' = loaded
        /\ resume' = [t \in Ids |-> IF t \in loaded THEN "ok" ELSE "none"]
        /\ fate' = [t \in Ids |-> IF t \in loaded THEN "none"
                                  ELSE IF t \in {u \in Ids : resume[u] = "ok"}
                                    THEN "superseded" ELSE fate[t]]
  BY DEF Restart
<1>2. /\ phase = "down" /\ phase' = "up" /\ UNCHANGED <<nextId, thread, acked, faults>>
  BY DEF Restart
<1>3. \A w \in Thread : thread[w].at = "idle" /\ thread[w].id = None
  BY <1>0, <1>2 DEF HoldOK, Holding, Sole
<1>4. SaverOK'
  BY <1>2, <1>3 DEF AInv, SaverOK, Saving, Thread
<1>5. ASSUME NEW t \in acked' \ faults', fate'[t] = "none" PROVE Secure(t)'
  <2>1. CASE t \in loaded
    BY <1>1, <2>1 DEF Secure
  <2>2. CASE t \notin loaded
    <3>1. t \in Ids /\ resume[t] # "ok" /\ fate[t] = "none"
      BY <1>0, <1>1, <1>2, <1>5, <2>2
    <3>2. ~Held(t)
      BY <1>0, <1>3, <3>1 DEF Held
    <3>3. resume[t] = "ok"
      BY <1>0, <1>2, <3>1, <3>2, <1>5 DEF AInv, AckedOK, Secure
    <3> QED  BY <3>1, <3>3
  <2> QED  BY <2>1, <2>2
<1> QED  BY <1>4, <1>5 DEF AckedOK

LEMMA NextAcked ==
  ASSUME AInv, [Next]_vars
  PROVE  SaverOK' /\ AckedOK'
<1> USE DEF Thread
<1>1. ASSUME NEW w \in Thread, Continue(w) \/ Stop(w) PROVE SaverOK' /\ AckedOK'
  <2>1. CASE GenTaskIdFails(w)  BY <2>1, QuietAcked
  <2>2. CASE Stop(w) \/ PersistNothing(w)  BY <2>2, StopAcked
  <2>3. CASE ReleaseDup(w) \/ TaskSetoptEnds(w)  BY <2>3, LetGoAcked
  <2>4. CASE GenTaskId(w) \/ AddTorrentFails(w) \/ AddTorrent(w)  BY <2>4, CreateAcked
  <2>5. CASE FinishCreate(w)  BY <2>5, FinishAcked
  <2>6. CASE DtorEnds(w) \/ PersistDtorEnds(w)  BY <2>6, DtorAcked
  <2>7. CASE PersistTask(w)  BY <2>7, PersistAcked
  <2> QED  BY <1>1, <2>1, <2>2, <2>3, <2>4, <2>5, <2>6, <2>7 DEF Continue
<1>2. ASSUME NEW w \in Worker, Message(w) PROVE SaverOK' /\ AckedOK'
  <2>1. ASSUME NEW r \in Request, AddTask(w, r) PROVE SaverOK' /\ AckedOK'
    BY <2>1, QuietAcked
  <2>2. ASSUME NEW r \in Request, AddTaskDisplacing(w, r) PROVE SaverOK' /\ AckedOK'
    BY <2>2, EndedAcked
  <2>3. ASSUME NEW t \in Ids, Cancel(w, t) PROVE SaverOK' /\ AckedOK'
    BY <2>3, EndedAcked
  <2>4. ASSUME NEW t \in Ids, Pause(w, t) \/ Resume(w, t) PROVE SaverOK' /\ AckedOK'
    BY <2>4, QuietAcked
  <2>5. ASSUME NEW t \in Ids, TaskSetopt(w, t) PROVE SaverOK' /\ AckedOK'
    BY <2>5, CreateAcked
  <2> QED  BY <1>2, <2>1, <2>2, <2>3, <2>4, <2>5 DEF Message
<1>3. ASSUME NEW w \in Worker, NEW t \in Ids, Callback(w, t) PROVE SaverOK' /\ AckedOK'
  <2>1. CASE OnTorrentFinished(w, t)  BY <2>1, QuietAcked
  <2>2. CASE OnTorrentError(w, t) \/ SeedingTimerCallback(w, t)  BY <2>2, EndedAcked
  <2> QED  BY <1>3, <2>1, <2>2 DEF Callback
<1>4. CASE \E t \in Ids : TorrentFinished(t) \/ DeleteDataTimerCallback(t)
  BY <1>4, QuietAcked
<1>5. CASE StopPool
  BY <1>5, StopAcked
<1>6. CASE Exit \/ Crash
  BY <1>6, DownAcked
<1>7. CASE Restart
  BY <1>7, RestartAcked
<1>8. CASE UNCHANGED vars
  BY <1>8 DEF AInv, SaverOK, AckedOK, Secure, Held, Persisted, vars, maps, object, disk, history
<1> QED  BY <1>1, <1>2, <1>3, <1>4, <1>5, <1>6, <1>7, <1>8 DEF Next

LEMMA AckedHolds == Spec => [](AInv /\ AckedTaskRuns)
<1>1. Init => SaverOK /\ AckedOK
  BY DEF Init, SaverOK, AckedOK, Saving, Idle, Thread
<1>2. Inv /\ SaverOK /\ AckedOK /\ [Next]_vars => (SaverOK /\ AckedOK)'
  BY NextAcked DEF AInv
<1>3. Inv /\ SaverOK /\ AckedOK => AInv /\ AckedTaskRuns
  BY DEF AInv, AckedOK, AckedTaskRuns, Secure
<1> QED  BY <1>1, <1>2, <1>3, InvHolds, PTL DEF Spec

(***************************************************************************)
(* An acknowledged task runs until something ends it, whatever the workers *)
(* do at the same moment, through every orderly stop and through every     *)
(* crash that does not fall into the rewriting of its file.                *)
(***************************************************************************)
THEOREM AcknowledgedTaskRuns == Spec => []AckedTaskRuns
  BY AckedHolds, PTL

-----------------------------------------------------------------------------
(***************************************************************************)
(* The tasks that were ended.  A task in the maps, or held by a handler,   *)
(* has its file, so its destructor is still to come; once that has begun   *)
(* the row is closed; once it is done the file is gone, but for a task     *)
(* that a crash had brought back and a stop has saved, which the next      *)
(* start finds.                                                            *)
(***************************************************************************)
Closed(t) == t \in faults \/ row[t] = NoRow \/ row[t].ended
Filed(t)  == t \in faults \/ resume[t] = "ok"
Ended     == {"canceled", "displaced", "expired", "failed"}
Dying     == {"dtor", "dtor_locked", "persist_dtor", "persist_last"}

Settled(t) ==
  /\ t \in tasks_map => Filed(t)
  /\ \A w \in Thread : thread[w].id = t =>
       /\ thread[w].at \in {"quit", "setopt"} => Filed(t)
       /\ thread[w].at \in Dying => Closed(t)
  /\ t \notin tasks_map /\ ~Held(t) /\ fate[t] \in Ended =>
       /\ phase = "up" => resume[t] = "none"
       /\ resume[t] = "ok" \/ Closed(t)

SettledOK == \A t \in Ids : Settled(t)

(***************************************************************************)
(* Nothing has ended a task that is being created; tasks are parked by a   *)
(* stop only, and those that it leaves in the maps are new.                *)
(***************************************************************************)
FreshOK ==
  /\ \A t \in Ids : ~(t < nextId) => fate[t] = "none"
  /\ \A w \in Thread : thread[w].at \in {"rowed", "added"} => fate[thread[w].id] = "none"
  /\ \A t \in Ids : Persisted(t) => phase # "up"
  /\ phase \in {"persisted", "joining"} \/ (\E w \in Thread : thread[w].at = "persist_last")
       => \A t \in tasks_map : fate[t] = "none"

EInv == AInv /\ SettledOK /\ FreshOK

LEMMA EndFacts ==
  ASSUME EInv
  PROVE  /\ Inv /\ fate \in [Ids -> Fates] /\ faults \subseteq Ids
         /\ row \in [Ids -> RowType] /\ AInv
  BY DEF EInv, AInv, Inv, IInv, TypeOK, RowType

\* A step of w on t alone.
LEMMA SettledStep ==
  ASSUME EInv, NEW w \in Thread, NEW t, \A v \in Thread : v # w => thread'[v] = thread[v],
         thread[w].id \in {None, t}, thread'[w].id \in {None, t},
         \A u \in Ids : u # t => /\ u \in tasks_map' <=> u \in tasks_map
                                 /\ resume'[u] = resume[u] /\ row'[u] = row[u]
                                 /\ fate'[u] = fate[u],
         faults \subseteq faults', phase' = "up" => phase = "up",
         t \in Ids => Settled(t)'
  PROVE  SettledOK'
<1> SUFFICES ASSUME NEW u \in Ids, u # t PROVE Settled(u)'
  BY DEF SettledOK
<1>1. Settled(u) /\ u # None
  BY NoneAssumption DEF EInv, SettledOK
<1>2. Held(u)' <=> Held(u)
  BY <1>1 DEF Held
<1>3. (Filed(u) => Filed(u)') /\ (Closed(u) => Closed(u)')
  BY DEF Filed, Closed
<1>4. \A v \in Thread : thread'[v].id = u => thread'[v] = thread[v]
  BY <1>1
<1> QED  BY <1>1, <1>2, <1>3, <1>4 DEF Settled

LEMMA FreshStep ==
  ASSUME EInv, NEW w \in Thread, \A v \in Thread : v # w => thread'[v] = thread[v],
         nextId' \in Int, nextId <= nextId',
         \A u \in Ids : fate'[u] # fate[u] =>
           /\ u < nextId /\ u \notin tasks_map'
           /\ \A v \in Thread : v # w /\ thread[v].at \in {"rowed", "added"} => thread[v].id # u,
         thread'[w].at \in {"rowed", "added"} => fate'[thread'[w].id] = "none",
         \A u \in Ids : Persisted(u)' => Persisted(u),
         \A u \in tasks_map' : u \in tasks_map \/ fate'[u] = "none",
         tasks_map' \subseteq Ids,
         UNCHANGED phase, thread'[w].at = "persist_last" => thread[w].at = "persist_last"
  PROVE  FreshOK'
<1> USE EndFacts, Facts
<1>1. \A u \in Ids : ~(u < nextId') => ~(u < nextId)
  BY DEF Ids
<1>2. \A v \in Thread : thread[v].at \in {"rowed", "added"} => thread[v].id \in Ids
  BY DEF HoldOK, Holding, Sole
<1>3. \A u \in Ids : ~(u < nextId') => fate'[u] = "none"
  BY <1>1 DEF EInv, FreshOK
<1>4. \A v \in Thread : thread'[v].at \in {"rowed", "added"} => fate'[thread'[v].id] = "none"
  BY <1>2 DEF EInv, FreshOK
<1>5. \A u \in Ids : Persisted(u)' => phase' # "up"
  BY DEF EInv, FreshOK
<1>6. phase' \in {"persisted", "joining"} \/ (\E v \in Thread : thread'[v].at = "persist_last")
        => \A u \in tasks_map' : fate'[u] = "none"
  BY DEF EInv, FreshOK
<1> QED  BY <1>3, <1>4, <1>5, <1>6 DEF FreshOK, Persisted

\* Nothing that the two invariants speak of has moved.
LEMMA QuietEnded ==
  ASSUME EInv, NEW w \in Thread,
         \/ \E r \in Request : w \in Worker /\ AddTask(w, r)
         \/ GenTaskIdFails(w)
         \/ \E t \in Ids : w \in Worker /\ (Pause(w, t) \/ Resume(w, t))
         \/ \E t \in Ids : TorrentFinished(t)
  PROVE  SettledOK' /\ FreshOK'
<1> USE EndFacts, Facts
<1>1. UNCHANGED <<phase, nextId, tasks_map, flags, resume, row, fate, faults>>
  BY DEF AddTask, GenTaskIdFails, Pause, Resume, TorrentFinished, maps, object, disk, history
<1>2. \/ thread' = thread
      \/ thread[w].id = None /\ \E new \in {"create", "idle"}, req \in Request \cup {None} :
           thread' = [thread EXCEPT ![w] = [at |-> new, id |-> None, req |-> req]]
  <2>1. ASSUME NEW r \in Request, w \in Worker, AddTask(w, r)
        PROVE  /\ thread[w].id = None
               /\ thread' = [thread EXCEPT ![w] = [at |-> "create", id |-> None, req |-> r]]
    BY <2>1 DEF AddTask, Ready, Idle
  <2>2. ASSUME GenTaskIdFails(w)
        PROVE  /\ thread[w].id = None
               /\ thread' = [thread EXCEPT ![w] = [at |-> "idle", id |-> None, req |-> None]]
    BY <2>2 DEF GenTaskIdFails, HoldOK, Holding, Sole, Idle
  <2>3. \/ \E r \in Request : w \in Worker /\ AddTask(w, r)
        \/ GenTaskIdFails(w)
        \/ thread' = thread
    BY DEF Pause, Resume, TorrentFinished
  <2> QED  BY <2>1, <2>2, <2>3
<1>3. CASE thread' = thread
  <2>1. \A t \in Ids : Settled(t)'
    BY <1>1, <1>3 DEF EInv, SettledOK, Settled, Held, Filed, Closed
  <2>2. FreshOK'
    BY <1>1, <1>3 DEF EInv, FreshOK, Persisted
  <2> QED  BY <2>1, <2>2 DEF SettledOK
<1>4. CASE thread[w].id = None /\ \E new \in {"create", "idle"}, req \in Request \cup {None} :
             thread' = [thread EXCEPT ![w] = [at |-> new, id |-> None, req |-> req]]
  <2>1. /\ \A v \in Thread : v # w => thread'[v] = thread[v]
        /\ thread'[w].id = None /\ thread'[w].at \in {"create", "idle"}
    BY <1>4
  <2>2. SettledOK'
    BY <1>1, <1>4, <2>1, SettledStep
  <2>3. FreshOK'
    BY <1>1, <2>1, FreshStep DEF Persisted
  <2> QED  BY <2>2, <2>3
<1> QED  BY <1>2, <1>3, <1>4

LEMMA StopEnded ==
  ASSUME EInv, NEW w \in Thread, Stop(w) \/ PersistNothing(w) \/ StopPool
  PROVE  SettledOK' /\ FreshOK'
<1> USE EndFacts, Facts
<1>1. UNCHANGED <<nextId, tasks_map, flags, resume, row, fate, faults>> /\ phase' # "up"
  BY DEF Stop, PersistNothing, StopPool, maps, object, disk, history
<1>2. /\ \A v \in Thread : v # w => thread'[v] = thread[v]
      /\ \/ thread'[w] = thread[w]
         \/ thread[w].id = None /\ thread'[w].id = None /\ thread'[w].at \in {"persist", "stopped"}
      /\ \/ phase' \in {"persisted", "joining"} /\ phase \in {"persisted", "joining"}
         \/ phase' = "persisted" /\ tasks_map = {}
         \/ phase' = "stopping"
  <2>1. CASE Stop(w)
    BY <2>1 DEF Stop, Idle, ThreadType
  <2>2. CASE PersistNothing(w)
    BY <2>2 DEF PersistNothing, ThreadType, HoldOK, Holding, Sole
  <2>3. CASE StopPool
    BY <2>3 DEF StopPool
  <2> QED  BY <2>1, <2>2, <2>3
<1>3. SettledOK'
  <2> SUFFICES ASSUME NEW t \in Ids PROVE Settled(t)'
    BY DEF SettledOK
  <2>1. Settled(t) /\ t # None
    BY DEF EInv, SettledOK
  <2>2. \A v \in Thread : thread'[v].id = t <=> thread[v].id = t
    BY <1>2, <2>1
  <2>3. \A v \in Thread : thread'[v].id = t => thread'[v] = thread[v]
    BY <1>2, <2>1
  <2> QED  BY <1>1, <2>1, <2>2, <2>3 DEF Settled, Held, Filed, Closed
<1>4. FreshOK'
  BY <1>1, <1>2 DEF EInv, FreshOK, Persisted
<1> QED  BY <1>3, <1>4

LEMMA UpdateCloses ==
  ASSUME EInv, NEW t \in Ids, NEW fin \in BOOLEAN, UpdateStatus(t, fin)
  PROVE  /\ faults \subseteq faults'
         /\ \A u \in Ids : u # t => row'[u] = row[u]
         /\ \A u \in Ids : Closed(u) => Closed(u)'
         /\ fin => Closed(t)'
<1> USE EndFacts
<1>1. CASE row' = row /\ t \in faults' /\ faults \subseteq faults'
  BY <1>1 DEF Closed
<1>2. CASE row' = row /\ row[t] = NoRow /\ faults' = faults
  BY <1>2 DEF Closed
<1>3. CASE faults' = faults /\ row' = [row EXCEPT ![t] = [status |-> GetStatusCode(t, fin),
                                                         ended |-> fin \/ row[t].ended]]
  <2>1. row'[t] = [status |-> GetStatusCode(t, fin), ended |-> fin \/ row[t].ended]
    BY <1>3
  <2>2. row'[t].ended = (fin \/ row[t].ended)
    BY <2>1
  <2>3. \A u \in Ids : u # t => row'[u] = row[u]
    BY <1>3
  <2>4. fin \/ row[t].ended => row'[t].ended
    BY <2>2, Zenon
  <2>5. fin => Closed(t)'
    BY <2>4 DEF Closed
  <2>6. row[t] = NoRow => Closed(t)'
    BY <1>3 DEF UpdateStatus, Closed
  <2>7. \A u \in Ids : Closed(u) => Closed(u)'
    BY <1>3, <2>3, <2>4, <2>6 DEF Closed
  <2> QED  BY <1>3, <2>3, <2>5, <2>7
<1> QED  BY <1>1, <1>2, <1>3 DEF UpdateStatus

\* A row is closed, or stays so; the files are not touched.
LEMMA RowEnded ==
  ASSUME EInv, NEW t \in Ids,
         DeleteDataTimerCallback(t) \/ \E w \in Worker : OnTorrentFinished(w, t)
  PROVE  SettledOK' /\ FreshOK'
<1> USE EndFacts, Facts
<1>1. UNCHANGED <<phase, nextId, thread, tasks_map, flags, resume, fate>>
  BY DEF DeleteDataTimerCallback, OnTorrentFinished, maps, object, history
<1>2. faults \subseteq faults' /\ \A u \in Ids : Closed(u) => Closed(u)'
  <2>1. CASE DeleteDataTimerCallback(t)
    BY <2>1 DEF DeleteDataTimerCallback, Closed, history, RowType
  <2>2. ASSUME NEW w \in Worker, OnTorrentFinished(w, t)
        PROVE  faults \subseteq faults' /\ \A u \in Ids : Closed(u) => Closed(u)'
    <3>1. CASE UNCHANGED <<row, faults>>
      BY <3>1 DEF Closed
    <3>2. CASE UpdateStatus(t, FALSE)
      BY <3>2, UpdateCloses
    <3> QED  BY <2>2, <3>1, <3>2 DEF OnTorrentFinished, ToSeeding
  <2> QED  BY <2>1, <2>2
<1>3. \A u \in Ids : Settled(u)'
  BY <1>1, <1>2 DEF EInv, SettledOK, Settled, Held, Filed
<1>4. FreshOK'
  BY <1>1 DEF EInv, FreshOK, Persisted
<1> QED  BY <1>3, <1>4 DEF SettledOK

(***************************************************************************)
(* Thread w lets go of a task that is in no map and has its file.          *)
(***************************************************************************)
LEMMA ReleaseSettles ==
  ASSUME EInv, NEW w \in Thread, NEW t \in Ids, Filed(t),
         NEW at \in Dying, NEW after \in ThreadType,
         after.id = None, after.at \in {"idle", "create", "stopped", "persisting"},
         Release(w, t, at, after), t \notin tasks_map',
         \A v \in Thread \ {w} : thread[v].id = t => thread[v].at \in {"quit", "setopt"}
  PROVE  /\ Settled(t)' /\ faults \subseteq faults'
         /\ \A v \in Thread : v # w => thread'[v] = thread[v]
         /\ thread'[w].id \in {None, t} /\ thread'[w].at \in {after.at, at}
         /\ \A u \in Ids : u # t => resume'[u] = resume[u] /\ row'[u] = row[u]
<1> USE EndFacts, Facts
<1>1. CASE HeldElsewhere(w, t)
  <2>1. thread' = [thread EXCEPT ![w] = after] /\ UNCHANGED <<resume, row, faults>>
    BY <1>1 DEF Release, disk
  <2>2. Held(t)' /\ Filed(t)' /\ thread'[w].id # t
    BY <1>1, <2>1 DEF Held, HeldElsewhere, Filed
  <2>3. \A v \in Thread : thread'[v].id = t => thread'[v].at \notin Dying
    BY <2>1, <2>2 DEF Dying
  <2> QED  BY <2>1, <2>2, <2>3 DEF Settled
<1>2. CASE ~HeldElsewhere(w, t)
  <2>1. /\ thread' = [thread EXCEPT ![w] = [at |-> at, id |-> t, req |-> after.req]]
        /\ UpdateStatus(t, TRUE)
        /\ resume' = IF "PERSIST" \in flags'[t] THEN [resume EXCEPT ![t] = "torn"] ELSE resume
    BY <1>2 DEF Release, BeginDtor
  <2>2. /\ Closed(t)' /\ faults \subseteq faults'
        /\ \A u \in Ids : u # t => row'[u] = row[u]
    BY <2>1, UpdateCloses
  <2>3. \A v \in Thread : thread'[v].id = t => v = w
    BY <1>2, <2>1 DEF HeldElsewhere
  <2>4. Held(t)' /\ thread'[w].at \notin {"quit", "setopt"}
    BY <2>1 DEF Held, Dying
  <2>5. Settled(t)'
    BY <2>2, <2>3, <2>4 DEF Settled
  <2> QED  BY <2>1, <2>2, <2>5
<1> QED  BY <1>1, <1>2

LEMMA LetGoEnded ==
  ASSUME EInv, NEW w \in Thread, ReleaseDup(w) \/ TaskSetoptEnds(w)
  PROVE  SettledOK' /\ FreshOK'
<1> USE EndFacts, Facts
<1>1. /\ thread[w].at \in {"quit", "setopt"} /\ thread[w].id \in Ids
      /\ UNCHANGED <<phase, nextId, tasks_map, flags, fate>>
  BY DEF ReleaseDup, TaskSetoptEnds, HoldOK, Holding, maps
<1>2. PICK t \in Ids : t = thread[w].id
  BY <1>1
<1>3. Filed(t) /\ Settled(t)
  BY <1>1, <1>2 DEF EInv, SettledOK, Settled
<1>4. /\ Settled(t)' /\ faults \subseteq faults'
      /\ \A v \in Thread : v # w => thread'[v] = thread[v]
      /\ thread'[w].id \in {None, t} /\ thread'[w].at \in {"idle", "create", "dtor"}
      /\ \A u \in Ids : u # t => resume'[u] = resume[u] /\ row'[u] = row[u]
  <2>1. CASE TaskSetoptEnds(w) /\ t \in tasks_map
    <3>1. thread' = [thread EXCEPT ![w] = Idle] /\ UNCHANGED <<resume, row, faults>>
      BY <1>2, <2>1 DEF TaskSetoptEnds, disk
    <3>2. /\ thread'[w].id = None /\ thread'[w].at = "idle"
          /\ \A v \in Thread : v # w => thread'[v] = thread[v]
      BY <3>1 DEF Idle
    <3>3. \A v \in Thread : thread'[v].id = t => thread'[v] = thread[v]
      BY <3>2
    <3>4. Settled(t)'
      BY <1>1, <1>3, <2>1, <3>1, <3>3 DEF Settled, Filed, Closed
    <3> QED  BY <3>1, <3>2, <3>4
  <2>2. CASE ReleaseDup(w) \/ t \notin tasks_map
    <3>1. PICK a \in {Idle, [at |-> "create", id |-> None, req |-> thread[w].req]} :
            Release(w, t, "dtor", a)
      BY <1>2, <2>2 DEF ReleaseDup, TaskSetoptEnds
    <3>2. a.id = None /\ a.at \in {"idle", "create"} /\ a \in ThreadType
      BY IdleType DEF Idle, ThreadType, At
    <3>3. t \notin tasks_map'
      BY <1>1, <1>2, <2>2 DEF ReleaseDup, HoldOK, Sole
    <3>4. \A v \in Thread \ {w} : thread[v].id = t => thread[v].at \in {"quit", "setopt"}
      BY <1>2 DEF HoldOK, Holding, Sole
    <3>5. "dtor" \in Dying
      BY DEF Dying
    <3> QED  BY <1>3, <3>1, <3>2, <3>3, <3>4, <3>5, ReleaseSettles
  <2> QED  BY <2>1, <2>2
<1>5. SettledOK'
  BY <1>1, <1>2, <1>4, SettledStep
<1>6. FreshOK'
  BY <1>1, <1>4, FreshStep DEF Persisted
<1> QED  BY <1>5, <1>6

\* AddTask, a command, an error or the timer ends a running task.
LEMMA EndedEnded ==
  ASSUME EInv, NEW w \in Worker,
         \/ \E r \in Request : AddTaskDisplacing(w, r)
         \/ \E t \in Ids : Cancel(w, t) \/ OnTorrentError(w, t) \/ SeedingTimerCallback(w, t)
  PROVE  SettledOK' /\ FreshOK'
<1> USE EndFacts, Facts
<1>0. w \in Thread
  BY DEF Thread
<1>1. PICK t \in tasks_map :
        /\ tasks_map' = tasks_map \ {t} /\ Settled(t)'
        /\ \A u \in Ids : Persisted(u)' <=> Persisted(u)
        /\ \A u \in Ids : u # t => /\ resume'[u] = resume[u] /\ row'[u] = row[u]
                                   /\ fate'[u] = fate[u]
        /\ thread[w].id = None /\ thread'[w].id \in {None, t}
        /\ thread'[w].at \in {"quit", "idle", "dtor_locked"}
        /\ \A v \in Thread : v # w => thread'[v] = thread[v]
        /\ faults \subseteq faults' /\ UNCHANGED <<phase, nextId>>
  <2>1. ASSUME NEW r \in Request, AddTaskDisplacing(w, r)
        PROVE  \E t \in tasks_map :
                 /\ tasks_map' = tasks_map \ {t} /\ Settled(t)'
                 /\ \A u \in Ids : Persisted(u)' <=> Persisted(u)
                 /\ \A u \in Ids : u # t => /\ resume'[u] = resume[u] /\ row'[u] = row[u]
                                            /\ fate'[u] = fate[u]
                 /\ thread[w].id = None /\ thread'[w].id \in {None, t}
                 /\ thread'[w].at \in {"quit", "idle", "dtor_locked"}
                 /\ \A v \in Thread : v # w => thread'[v] = thread[v]
                 /\ faults \subseteq faults' /\ UNCHANGED <<phase, nextId>>
    <3>1. r.infohash \in Infohash /\ r.data_path \in Path
      BY RequestAssumption DEF Requests
    <3>2. PICK d \in tasks_map : d = Duplicate(r)
      BY <2>1, <3>1 DEF Inv, IInv, IndexesExact, Duplicate, AddTaskDisplacing
    <3>3. /\ tasks_map' = tasks_map \ {d} /\ fate' = [fate EXCEPT ![d] = "displaced"]
          /\ flags' = [flags EXCEPT ![d] = @ \cup {"CANCELED"}]
          /\ thread[w].id = None
          /\ thread' = [thread EXCEPT ![w] = [at |-> "quit", id |-> d, req |-> r]]
          /\ UNCHANGED <<phase, nextId, faults, resume, row>>
      BY <2>1, <3>2 DEF AddTaskDisplacing, ERASE_TASK_FROM_MAP, Ready, Idle, disk
    <3>4. Settled(d)'
      <4>1. Settled(d) /\ Filed(d) /\ d \in Ids
        BY <3>2 DEF EInv, SettledOK, Settled
      <4>2. Filed(d)' /\ Held(d)'
        BY <1>0, <3>3, <4>1 DEF Filed, Held
      <4>3. \A v \in Thread : thread'[v].id = d => thread'[v].at \notin Dying
        <5>1. \A v \in Thread : thread[v].id = d => thread[v].at \notin Dying
          BY <4>1 DEF HoldOK, Sole, Dying
        <5> QED  BY <1>0, <3>3, <5>1 DEF Dying
      <4> QED  BY <3>3, <4>2, <4>3 DEF Settled
    <3>5. \A u \in Ids : Persisted(u)' <=> Persisted(u)
      BY <3>2, <3>3 DEF Persisted
    <3> QED  BY <1>0, <3>2, <3>3, <3>4, <3>5
  <2>2. ASSUME NEW t \in Ids, Cancel(w, t) \/ OnTorrentError(w, t) \/ SeedingTimerCallback(w, t)
        PROVE  /\ t \in tasks_map /\ tasks_map' = tasks_map \ {t} /\ Settled(t)'
               /\ \A u \in Ids : Persisted(u)' <=> Persisted(u)
               /\ \A u \in Ids : u # t => /\ resume'[u] = resume[u] /\ row'[u] = row[u]
                                          /\ fate'[u] = fate[u]
               /\ thread[w].id = None /\ thread'[w].id \in {None, t}
               /\ thread'[w].at \in {"quit", "idle", "dtor_locked"}
               /\ \A v \in Thread : v # w => thread'[v] = thread[v]
               /\ faults \subseteq faults' /\ UNCHANGED <<phase, nextId>>
    <3>1. PICK f \in Fates \ {"none"} : Drop(w, t, f)
      BY <2>2 DEF Cancel, OnTorrentError, SeedingTimerCallback, Fates
    <3>2. /\ t \in tasks_map /\ thread[w].id = None
          /\ \A u \in Ids : Persisted(u)' <=> Persisted(u)
      BY <1>0, <2>2 DEF Cancel, OnTorrentError, SeedingTimerCallback, Ready, Idle, Persisted
    <3>3. /\ tasks_map' = tasks_map \ {t} /\ fate' = [fate EXCEPT ![t] = f]
          /\ Release(w, t, "dtor_locked", Idle) /\ UNCHANGED <<phase, nextId>>
      BY <3>1 DEF Drop, ERASE_TASK_FROM_MAP
    <3>4. /\ Filed(t) /\ "dtor_locked" \in Dying /\ t \notin tasks_map'
          /\ Idle \in ThreadType /\ Idle.id = None /\ Idle.at = "idle"
      BY <3>2, <3>3, IdleType DEF EInv, SettledOK, Settled, Dying, Idle
    <3>5. \A v \in Thread \ {w} : thread[v].id = t => thread[v].at \in {"quit", "setopt"}
      BY <3>2 DEF HoldOK, Holding
    <3>6. /\ Settled(t)' /\ faults \subseteq faults'
          /\ \A v \in Thread : v # w => thread'[v] = thread[v]
          /\ thread'[w].id \in {None, t} /\ thread'[w].at \in {"idle", "dtor_locked"}
          /\ \A u \in Ids : u # t => resume'[u] = resume[u] /\ row'[u] = row[u]
      BY <1>0, <3>3, <3>4, <3>5, ReleaseSettles
    <3>7. \A u \in Ids : u # t => fate'[u] = fate[u]
      BY <3>3
    <3> QED  BY <3>2, <3>3, <3>6, <3>7
  <2> QED  BY <2>1, <2>2
<1>2. SettledOK'
  BY <1>0, <1>1, SettledStep
<1>3. FreshOK'
  <2>1. \A v \in Thread : thread[v].at \in {"rowed", "added"} => thread[v].id # t
    BY <1>1 DEF HoldOK, Sole
  <2> QED  BY <1>0, <1>1, <2>1, FreshStep
<1> QED  BY <1>2, <1>3

LEMMA PersistEnded ==
  ASSUME EInv, NEW w \in Thread, PersistTask(w)
  PROVE  SettledOK' /\ FreshOK'
<1> USE EndFacts, Facts
<1>1. PICK t \in tasks_map :
        /\ ERASE_TASK_FROM_MAP(t)
        /\ flags' = [flags EXCEPT ![t] = @ \cup {"PERSIST"}]
        /\ Release(w, t, IF tasks_map = {t} THEN "persist_last" ELSE "persist_dtor",
                   [at |-> IF tasks_map = {t} THEN "stopped" ELSE "persisting",
                    id |-> None, req |-> None])
        /\ phase' = IF thread'[w].at = "stopped" THEN "persisted" ELSE phase
  BY DEF PersistTask
<1>2. /\ thread[w].at \in {"persist", "persisting"} /\ thread[w].id = None /\ phase = "stopping"
      /\ t \in Ids /\ tasks_map' = tasks_map \ {t} /\ UNCHANGED <<nextId, fate>>
  BY <1>1 DEF PersistTask, HoldOK, Holding, Sole, AInv, SaverOK, Saving, ERASE_TASK_FROM_MAP
<1>3. PICK after \in ThreadType, at \in Dying :
        /\ after.id = None /\ after.at = IF tasks_map = {t} THEN "stopped" ELSE "persisting"
        /\ at = IF tasks_map = {t} THEN "persist_last" ELSE "persist_dtor"
        /\ Release(w, t, at, after)
  <2> DEFINE a == [at |-> IF tasks_map = {t} THEN "stopped" ELSE "persisting",
                   id |-> None, req |-> None]
             d == IF tasks_map = {t} THEN "persist_last" ELSE "persist_dtor"
  <2>1. /\ a \in ThreadType /\ a.id = None /\ d \in Dying
        /\ a.at = IF tasks_map = {t} THEN "stopped" ELSE "persisting"
    BY DEF ThreadType, At, Dying
  <2>2. Release(w, t, d, a)
    BY <1>1
  <2> HIDE DEF a
  <2> QED  BY <2>1, <2>2
<1>4. Filed(t)
  BY <1>2 DEF EInv, SettledOK, Settled
<1>5. \A v \in Thread \ {w} : thread[v].id = t => thread[v].at \in {"quit", "setopt"}
  BY DEF HoldOK, Holding
<1>6. /\ Settled(t)' /\ faults \subseteq faults'
      /\ \A v \in Thread : v # w => thread'[v] = thread[v]
      /\ thread'[w].id \in {None, t} /\ thread'[w].at \in {after.at, at}
      /\ \A u \in Ids : u # t => resume'[u] = resume[u] /\ row'[u] = row[u]
  BY <1>2, <1>3, <1>4, <1>5, ReleaseSettles
<1>7. SettledOK'
  BY <1>1, <1>2, <1>6, SettledStep
<1>8. FreshOK'
  <2>1. phase' # "up"
    BY <1>1, <1>2
  <2>2. \A v \in Thread : v # w => thread[v].at \notin Saving
    BY <1>2 DEF EInv, AInv, SaverOK, Saving
  <2>3. thread'[w].at \in {"stopped", "persist_last"} => tasks_map' = {}
    BY <1>2, <1>3, <1>6
  <2>4. thread'[w].at \notin {"rowed", "added"}
    BY <1>3, <1>6
  <2> QED  BY <1>1, <1>2, <1>6, <2>1, <2>2, <2>3, <2>4 DEF EInv, FreshOK, Saving
<1> QED  BY <1>7, <1>8

\* A task that is being created.
LEMMA CreateEnded ==
  ASSUME EInv, NEW w \in Thread,
         GenTaskId(w) \/ AddTorrentFails(w) \/ AddTorrent(w) \/ \E t \in Ids : w \in Worker /\ TaskSetopt(w, t)
  PROVE  SettledOK' /\ FreshOK'
<1> USE EndFacts, Facts
<1>1. UNCHANGED <<phase, tasks_map, flags, faults>>
  BY DEF GenTaskId, AddTorrentFails, AddTorrent, TaskSetopt, maps, object, disk, history
<1>2. CASE GenTaskId(w)
  <2>1. PICK t \in Ids : t = nextId
    BY <1>2, BoundAssumption DEF GenTaskId, Inv, IInv, TypeOK, Ids
  <2>2. /\ thread[w].id = None /\ thread'[w].at = "rowed" /\ thread'[w].id = t
        /\ \A v \in Thread : v # w => thread'[v] = thread[v]
        /\ nextId' = nextId + 1 /\ UNCHANGED <<resume, fate>>
        /\ \A u \in Ids : u # t => row'[u] = row[u]
    BY <1>2, <2>1 DEF GenTaskId, HoldOK, Holding, Sole, history
  <2>3. t \notin tasks_map /\ fate[t] = "none"
    BY <2>1 DEF EInv, FreshOK
  <2>4. \A v \in Thread : v # w => thread[v].id # t
    BY <2>1, NoneAssumption DEF HoldOK
  <2>5. Settled(t)'
    BY <1>1, <2>2, <2>3, <2>4 DEF Settled, Ended, Dying
  <2>6. SettledOK'
    BY <1>1, <2>2, <2>5, SettledStep
  <2>7. FreshOK'
    BY <1>1, <2>2, <2>3, FreshStep DEF Persisted
  <2> QED  BY <2>6, <2>7
<1>3. CASE AddTorrentFails(w) \/ AddTorrent(w)
  <2>1. PICK t \in Ids : t = thread[w].id /\ t < nextId /\ t \notin tasks_map
    BY <1>3 DEF AddTorrentFails, AddTorrent, HoldOK, Holding, Sole
  <2>2. \A v \in Thread : v # w => thread[v].id # t
    BY <1>3, <2>1 DEF AddTorrentFails, AddTorrent, HoldOK, Sole
  <2>3. fate[t] = "none"
    BY <1>3, <2>1 DEF AddTorrentFails, AddTorrent, EInv, FreshOK
  <2>4. /\ \A v \in Thread : v # w => thread'[v] = thread[v]
        /\ \/ thread'[w].id = None /\ thread'[w].at = "idle"
           \/ thread'[w].id = t /\ thread'[w].at = "added" /\ fate'[t] = "none"
        /\ \A u \in Ids : u # t => fate'[u] = fate[u] /\ resume'[u] = resume[u]
        /\ fate'[t] \in {"none", "refused"} /\ UNCHANGED <<nextId, row>>
    <3>1. CASE AddTorrentFails(w)
      <4>1. fate' = [fate EXCEPT ![t] = "refused"] /\ UNCHANGED <<nextId, resume, row>>
        BY <2>1, <3>1 DEF AddTorrentFails, disk
      <4> QED  BY <3>1, <4>1 DEF AddTorrentFails, Idle
    <3>2. CASE AddTorrent(w)
      BY <2>1, <2>3, <3>2 DEF AddTorrent, ThreadType, history
    <3> QED  BY <1>3, <3>1, <3>2
  <2>5. Settled(t)'
    BY <1>1, <2>1, <2>2, <2>4 DEF Settled, Ended, Dying
  <2>6. SettledOK'
    BY <1>1, <2>1, <2>4, <2>5, SettledStep
  <2>7. FreshOK'
    BY <1>1, <2>1, <2>2, <2>4, FreshStep DEF Persisted
  <2> QED  BY <2>6, <2>7
<1>4. ASSUME NEW t \in Ids, TaskSetopt(w, t) PROVE SettledOK' /\ FreshOK'
  <2>1. /\ thread[w].id = None /\ thread'[w].at = "setopt" /\ thread'[w].id = t
        /\ \A v \in Thread : v # w => thread'[v] = thread[v]
        /\ t \in tasks_map /\ UNCHANGED <<nextId, resume, fate, row>>
    BY <1>4 DEF TaskSetopt, Ready, Idle, disk, history
  <2>2. Settled(t)'
    <3>1. Settled(t) /\ Filed(t)
      BY <2>1 DEF EInv, SettledOK, Settled
    <3> QED  BY <1>1, <2>1, <3>1 DEF Settled, Filed, Closed, Dying
  <2>3. SettledOK'
    BY <1>1, <2>1, <2>2, SettledStep
  <2>4. FreshOK'
    BY <1>1, <2>1, FreshStep DEF Persisted
  <2> QED  BY <2>3, <2>4
<1> QED  BY <1>2, <1>3, <1>4

LEMMA FinishEnded ==
  ASSUME EInv, NEW w \in Thread, FinishCreate(w)
  PROVE  SettledOK' /\ FreshOK'
<1> USE EndFacts, Facts
<1>1. PICK t \in Ids : t = thread[w].id
  BY DEF FinishCreate, HoldOK, Holding, Sole
<1>2. /\ tasks_map' = tasks_map \cup {t}
      /\ thread' = [thread EXCEPT ![w] = Idle]
      /\ \/ resume'[t] = "ok" /\ faults' = faults
         \/ faults' = faults \cup {t}
      /\ \A u \in Ids : u # t => resume'[u] = resume[u]
      /\ UNCHANGED <<phase, nextId, flags, row, fate>>
  BY <1>1 DEF FinishCreate, ADD_TASK_TO_MAP, object
<1>3. /\ \A v \in Thread : v # w => thread'[v] = thread[v]
      /\ thread'[w].id = None /\ thread'[w].at = "idle"
  BY <1>2 DEF Idle
<1>4. \A v \in Thread : v # w => thread[v].id # t
  BY <1>1 DEF FinishCreate, HoldOK, Sole
<1>5. Settled(t)'
  BY <1>2, <1>3, <1>4 DEF Settled, Filed, Dying
<1>6. SettledOK'
  BY <1>1, <1>2, <1>3, <1>5, SettledStep
<1>7. fate[t] = "none"
  BY <1>1 DEF FinishCreate, EInv, FreshOK
<1>8. FreshOK'
  BY <1>2, <1>3, <1>7, FreshStep DEF Persisted
<1> QED  BY <1>6, <1>8

\* The object is gone: the file too, unless the task was parked.
LEMMA DtorEnded ==
  ASSUME EInv, NEW w \in Thread, DtorEnds(w) \/ PersistDtorEnds(w)
  PROVE  SettledOK' /\ FreshOK'
<1> USE EndFacts, Facts
<1>1. PICK t \in Ids : t = thread[w].id
  BY DEF DtorEnds, PersistDtorEnds, HoldOK, Holding, Sole
<1>2. /\ t \notin tasks_map /\ \A v \in Thread \ {w} : thread[v].id # t
      /\ Closed(t) /\ (Persisted(t) => phase # "up")
  <2>1. thread[w].at \in Sole /\ thread[w].at \in Dying
    BY DEF DtorEnds, PersistDtorEnds, Sole, Dying
  <2> QED  BY <1>1, <2>1 DEF HoldOK, EInv, SettledOK, Settled, FreshOK
<1>3. /\ UNCHANGED <<nextId, tasks_map, fate, faults, row>>
      /\ flags' = [flags EXCEPT ![t] = {}]
      /\ resume' = [resume EXCEPT ![t] = IF Persisted(t) THEN "ok" ELSE "none"]
  <2>1. CASE DtorEnds(w)
    BY <1>1, <2>1 DEF DtorEnds, EndDtor, ObjectGone, Persisted, maps, history
  <2>2. CASE PersistDtorEnds(w)
    <3>1. Persisted(t)
      BY <1>1, <2>2 DEF PersistDtorEnds, Inv, TraceOK
    <3> QED  BY <1>1, <2>2, <3>1 DEF PersistDtorEnds, ObjectGone, maps, history
  <2> QED  BY <2>1, <2>2
<1>4. /\ \A v \in Thread : v # w => thread'[v] = thread[v]
      /\ thread'[w].id = None
      /\ \/ thread'[w].at \in {"idle", "create"} /\ phase' = phase
         \/ thread[w].at = "persist_last" /\ thread'[w].at = "stopped" /\ phase' = "persisted"
         \/ thread'[w].at = "persisting" /\ phase' = phase
  <2>1. CASE DtorEnds(w)
    BY <2>1 DEF DtorEnds, EndDtor, Idle
  <2>2. CASE PersistDtorEnds(w)
    BY <2>2 DEF PersistDtorEnds
  <2> QED  BY <2>1, <2>2
<1>5. Settled(t)'
  <2>1. \A v \in Thread : thread'[v].id # t
    BY <1>2, <1>4
  <2>2. Closed(t)'
    BY <1>2, <1>3 DEF Closed
  <2>3. phase' = "up" => resume'[t] = "none"
    BY <1>2, <1>3, <1>4
  <2> QED  BY <1>2, <1>3, <2>1, <2>2, <2>3 DEF Settled
<1>6. SettledOK'
  <2>1. phase' = "up" => phase = "up"
    BY <1>4
  <2> QED  BY <1>1, <1>3, <1>4, <1>5, <2>1, SettledStep
<1>7. FreshOK'
  <2>1. CASE phase' = phase
    BY <1>3, <1>4, <2>1, FreshStep DEF Persisted
  <2>2. CASE thread[w].at = "persist_last" /\ thread'[w].at = "stopped" /\ phase' = "persisted"
    BY <1>3, <1>4, <2>2 DEF EInv, FreshOK, Persisted
  <2> QED  BY <1>4, <2>1, <2>2
<1> QED  BY <1>6, <1>7

\* What the process takes with it was closed, or has its file.
LEMMA DownEnded ==
  ASSUME EInv, Exit \/ Crash
  PROVE  SettledOK' /\ FreshOK'
<1> USE EndFacts, Facts
<1>1. /\ phase' = "down" /\ tasks_map' = {} /\ thread' = [w \in Thread |-> Idle]
      /\ UNCHANGED <<nextId, row, faults>>
  BY DEF Exit, Crash, MemoryLost, disk, history
<1>2. \A w \in Thread : thread'[w].at = "idle" /\ thread'[w].id = None
  BY <1>1 DEF Idle
<1>3. /\ \A t \in Ids : fate'[t] # "none" /\ fate[t] = "none" => fate'[t] = "torn" /\ resume[t] = "torn"
      /\ \A t \in Ids : fate[t] # "none" => fate'[t] = fate[t]
  BY DEF Exit, Crash, history
<1>4. ASSUME NEW t \in Ids, fate'[t] \in Ended PROVE resume'[t] = "ok" \/ Closed(t)'
  <2>1. Settled(t) /\ fate[t] \in Ended /\ fate[t] # "none" /\ (Closed(t) <=> Closed(t)')
    BY <1>1, <1>3, <1>4 DEF EInv, SettledOK, Closed, Ended
  <2>2. CASE Exit
    <3>1. phase = "joining" /\ \A w \in Thread : thread[w].at \in {"idle", "stopped"}
      BY <2>2 DEF Exit, EInv, AInv, SaverOK, Saving, Thread
    <3>2. ~Held(t)
      BY <3>1 DEF Held, HoldOK, Holding, Sole
    <3>3. t \notin tasks_map
      BY <2>1, <3>1 DEF EInv, FreshOK
    <3>4. resume'[t] = resume[t]
      BY <2>2, <3>3 DEF Exit
    <3> QED  BY <2>1, <3>2, <3>3, <3>4 DEF Settled
  <2>3. CASE Crash
    <3>1. resume' = resume
      BY <2>3 DEF Crash, disk
    <3>2. CASE t \in tasks_map
      BY <2>1, <3>1, <3>2 DEF Settled, Filed, Closed
    <3>3. CASE t \notin tasks_map /\ Held(t)
      <4>1. PICK w \in Thread : thread[w].id = t
        BY <3>3 DEF Held
      <4>2. thread[w].at \in {"quit", "setopt"} \cup Dying
        BY <2>1, <4>1 DEF HoldOK, Holding, Sole, Dying, EInv, FreshOK
      <4> QED  BY <2>1, <3>1, <4>1, <4>2 DEF Settled, Filed, Closed
    <3>4. CASE t \notin tasks_map /\ ~Held(t)
      BY <2>1, <3>1, <3>4 DEF Settled
    <3> QED  BY <3>2, <3>3, <3>4
  <2> QED  BY <2>2, <2>3
<1>5. SettledOK'
  BY <1>1, <1>2, <1>4 DEF SettledOK, Settled
<1>6. FreshOK'
  <2>1. \A t \in Ids : ~(t < nextId) => fate[t] = "none" /\ resume[t] = "none"
    BY DEF EInv, FreshOK, Inv, IInv, BornOK
  <2>2. \A t \in Ids : ~(t < nextId') => fate'[t] = "none"
    BY <1>1, <1>3, <2>1
  <2> QED  BY <1>1, <1>2, <2>2 DEF FreshOK
<1> QED  BY <1>5, <1>6

\* A file that is left is loaded, or of no use to anybody.
LEMMA RestartEnded ==
  ASSUME EInv, Restart
  PROVE  SettledOK' /\ FreshOK'
<1> USE EndFacts, Facts
<1>1. PICK loaded \in SUBSET {t \in Ids : resume[t] = "ok"} :
        /\ tasks_map' = loaded
        /\ resume' = [t \in Ids |-> IF t \in loaded THEN "ok" ELSE "none"]
        /\ fate' = [t \in Ids |-> IF t \in loaded THEN "none"
                                  ELSE IF t \in {u \in Ids : resume[u] = "ok"}
                                    THEN "superseded" ELSE fate[t]]
  BY DEF Restart
<1>2. /\ phase = "down" /\ phase' = "up" /\ UNCHANGED <<nextId, thread, faults, row, flags>>
  BY DEF Restart, object
<1>3. /\ \A w \in Thread : thread[w].at = "idle" /\ thread[w].id = None
      /\ tasks_map = {} /\ \A t \in Ids : ~Persisted(t)
  BY <1>2 DEF Inv, TraceOK, HoldOK, Holding, Sole
<1>4. ASSUME NEW t \in Ids PROVE Settled(t)'
  <2>1. \A w \in Thread : thread'[w].id # t
    BY <1>2, <1>3
  <2>2. t \in tasks_map' => Filed(t)'
    BY <1>1 DEF Filed
  <2>3. ASSUME t \notin tasks_map', fate'[t] \in Ended PROVE resume'[t] = "none" /\ Closed(t)'
    <3>1. resume'[t] = "none" /\ resume[t] # "ok" /\ fate[t] \in Ended
      BY <1>1, <2>3 DEF Ended
    <3>2. Settled(t) /\ t \notin tasks_map /\ ~Held(t)
      BY <1>3 DEF EInv, SettledOK, Held
    <3>3. Closed(t)
      BY <3>1, <3>2 DEF Settled
    <3> QED  BY <1>2, <3>1, <3>3 DEF Closed
  <2> QED  BY <2>1, <2>2, <2>3 DEF Settled
<1>5. FreshOK'
  <2>1. \A t \in Ids : ~(t < nextId) => resume[t] = "none" /\ fate[t] = "none"
    BY DEF Inv, IInv, BornOK, EInv, FreshOK
  <2>2. \A t \in Ids : ~(t < nextId') => fate'[t] = "none"
    BY <1>1, <1>2, <2>1
  <2> QED  BY <1>2, <1>3, <2>2 DEF FreshOK, Persisted
<1> QED  BY <1>4, <1>5 DEF SettledOK

LEMMA NextEnded ==
  ASSUME EInv, [Next]_vars
  PROVE  SettledOK' /\ FreshOK'
<1> USE DEF Thread
<1>1. ASSUME NEW w \in Thread, Continue(w) \/ Stop(w) PROVE SettledOK' /\ FreshOK'
  <2>1. CASE GenTaskIdFails(w)  BY <2>1, QuietEnded
  <2>2. CASE Stop(w) \/ PersistNothing(w)  BY <2>2, StopEnded
  <2>3. CASE ReleaseDup(w) \/ TaskSetoptEnds(w)  BY <2>3, LetGoEnded
  <2>4. CASE GenTaskId(w) \/ AddTorrentFails(w) \/ AddTorrent(w)  BY <2>4, CreateEnded
  <2>5. CASE FinishCreate(w)  BY <2>5, FinishEnded
  <2>6. CASE DtorEnds(w) \/ PersistDtorEnds(w)  BY <2>6, DtorEnded
  <2>7. CASE PersistTask(w)  BY <2>7, PersistEnded
  <2> QED  BY <1>1, <2>1, <2>2, <2>3, <2>4, <2>5, <2>6, <2>7 DEF Continue
<1>2. ASSUME NEW w \in Worker, Message(w) PROVE SettledOK' /\ FreshOK'
  <2>1. ASSUME NEW r \in Request, AddTask(w, r) PROVE SettledOK' /\ FreshOK'
    BY <2>1, QuietEnded
  <2>2. ASSUME NEW r \in Request, AddTaskDisplacing(w, r) PROVE SettledOK' /\ FreshOK'
    BY <2>2, EndedEnded
  <2>3. ASSUME NEW t \in Ids, Cancel(w, t) PROVE SettledOK' /\ FreshOK'
    BY <2>3, EndedEnded
  <2>4. ASSUME NEW t \in Ids, Pause(w, t) \/ Resume(w, t) PROVE SettledOK' /\ FreshOK'
    BY <2>4, QuietEnded
  <2>5. ASSUME NEW t \in Ids, TaskSetopt(w, t) PROVE SettledOK' /\ FreshOK'
    BY <2>5, CreateEnded
  <2> QED  BY <1>2, <2>1, <2>2, <2>3, <2>4, <2>5 DEF Message
<1>3. ASSUME NEW w \in Worker, NEW t \in Ids, Callback(w, t) PROVE SettledOK' /\ FreshOK'
  <2>1. CASE OnTorrentFinished(w, t)  BY <2>1, RowEnded
  <2>2. CASE OnTorrentError(w, t) \/ SeedingTimerCallback(w, t)  BY <2>2, EndedEnded
  <2> QED  BY <1>3, <2>1, <2>2 DEF Callback
<1>4. ASSUME NEW t \in Ids, TorrentFinished(t) PROVE SettledOK' /\ FreshOK'
  BY <1>4, QuietEnded
<1>5. ASSUME NEW t \in Ids, DeleteDataTimerCallback(t) PROVE SettledOK' /\ FreshOK'
  BY <1>5, RowEnded
<1>6. CASE StopPool
  BY <1>6, StopEnded
<1>7. CASE Exit \/ Crash
  BY <1>7, DownEnded
<1>8. CASE Restart
  BY <1>8, RestartEnded
<1>9. CASE UNCHANGED vars
  <2>1. UNCHANGED <<phase, nextId, thread, tasks_map, flags, resume, row, fate, faults>>
    BY <1>9 DEF vars, maps, object, disk, history
  <2>2. \A t \in Ids : Settled(t)'
    BY <2>1 DEF EInv, SettledOK, Settled, Held, Filed, Closed
  <2>3. FreshOK'
    BY <2>1 DEF EInv, FreshOK, Persisted
  <2> QED  BY <2>2, <2>3 DEF SettledOK
<1> QED  BY <1>1, <1>2, <1>3, <1>4, <1>5, <1>6, <1>7, <1>8, <1>9 DEF Next

LEMMA EndedHolds == Spec => [](EInv /\ EndedTaskForgotten)
<1>1. Init => SettledOK /\ FreshOK
  BY NoneAssumption DEF Init, SettledOK, Settled, FreshOK, Persisted, Idle, Ended
<1>2. AInv /\ SettledOK /\ FreshOK /\ [Next]_vars => (SettledOK /\ FreshOK)'
  BY NextEnded DEF EInv
<1>3. Inv /\ SettledOK => EndedTaskForgotten
  <2> SUFFICES ASSUME Inv, SettledOK, phase = "up", NEW t \in Ids \ Live,
                      fate[t] \in Ended
               PROVE  resume[t] = "none" /\ Closed(t)
    BY DEF EndedTaskForgotten, Ended, Closed
  <2>1. t \notin tasks_map /\ ~Held(t) /\ Settled(t)
    BY NoneAssumption DEF Live, Held, SettledOK
  <2> QED  BY <2>1 DEF Settled
<1>4. AInv => Inv
  BY DEF AInv
<1>5. AInv /\ SettledOK /\ FreshOK => EInv
  BY DEF EInv
<1> QED  BY <1>1, <1>2, <1>3, <1>4, <1>5, AckedHolds, PTL DEF Spec

(***************************************************************************)
(* A task that was canceled, displaced, expired or failed leaves no file   *)
(* and no open row once its object is gone, whichever thread dropped the   *)
(* last reference, and also when a crash brought it back in between.       *)
(***************************************************************************)
THEOREM EndedTaskAlwaysForgotten == Spec => []EndedTaskForgotten
  BY EndedHolds, PTL

-----------------------------------------------------------------------------
(***************************************************************************)
(* The rows of the tasks that were ended.  A task in the maps has no flag, *)
(* so that the one a handler sets on it is the reason of its end; it is    *)
(* kept for whoever drops the last reference.  Once the destructor has     *)
(* begun the row tells the reason, up to the next start.                   *)
(***************************************************************************)
Tells(t) ==
  /\ fate[t] \in {"canceled", "displaced"} => row[t].status = "CANCELED"
  /\ fate[t] = "failed" => row[t].status = "ERROR"
  /\ fate[t] = "expired" => row[t].status \in {"FINISHED", "PAUSED"}

Told(t) == t \in faults \/ ~row[t].ended \/ Tells(t)

Marked(t) ==
  /\ fate[t] \in {"canceled", "displaced"} => "CANCELED" \in flags[t] /\ "ERROR" \notin flags[t]
  /\ fate[t] = "failed" => "ERROR" \in flags[t]
  /\ fate[t] = "expired" => /\ "CANCELED" \notin flags[t] /\ "ERROR" \notin flags[t]
                            /\ seed[t] # "none"

Ending == {"quit", "setopt"} \cup Dying

Truthful(t) ==
  /\ t \in tasks_map => fate[t] = "none"
  /\ \A w \in Thread : thread[w].id = t =>
       /\ thread[w].at \in {"quit", "setopt"} => Marked(t)
       /\ thread[w].at \in Dying => Told(t)
  /\ t \notin tasks_map /\ ~Held(t) => resume[t] = "ok" \/ Told(t)
  /\ flags[t] # {} => /\ t \notin tasks_map
                      /\ \E w \in Thread : thread[w].id = t /\ thread[w].at \in Ending

RowsOK == \A t \in Ids : Truthful(t)

TInv == EInv /\ RowsOK

\* Nothing happened to task u but that it may have been marked faulty.
LEMMA TruthKept ==
  ASSUME TInv, NEW u \in Ids,
         \A v \in Thread : thread[v].id = u \/ thread'[v].id = u => thread'[v] = thread[v],
         u \in tasks_map' <=> u \in tasks_map, resume'[u] = resume[u], fate'[u] = fate[u],
         flags'[u] = flags[u], seed[u] # "none" => seed'[u] # "none", Told(u) => Told(u)'
  PROVE  Truthful(u)'
<1>1. Truthful(u)
  BY DEF TInv, RowsOK
<1>2. Held(u)' <=> Held(u)
  BY DEF Held
<1>3. Marked(u) => Marked(u)'
  BY DEF Marked
<1>4. flags'[u] # {} => \E w \in Thread : thread'[w].id = u /\ thread'[w].at \in Ending
  BY <1>1 DEF Truthful
<1> QED  BY <1>1, <1>2, <1>3, <1>4 DEF Truthful

\* A step of w on t alone.
LEMMA TruthStep ==
  ASSUME TInv, NEW w \in Thread, NEW t, \A v \in Thread : v # w => thread'[v] = thread[v],
         thread[w].id \in {None, t}, thread'[w].id \in {None, t},
         \A u \in Ids : u # t => /\ u \in tasks_map' <=> u \in tasks_map
                                 /\ resume'[u] = resume[u] /\ row'[u] = row[u]
                                 /\ fate'[u] = fate[u] /\ flags'[u] = flags[u]
                                 /\ seed'[u] = seed[u],
         faults \subseteq faults', t \in Ids => Truthful(t)'
  PROVE  RowsOK'
<1> SUFFICES ASSUME NEW u \in Ids, u # t PROVE Truthful(u)'
  BY DEF RowsOK
<1>1. Told(u) => Told(u)'
  BY DEF Told, Tells
<1>2. \A v \in Thread : thread[v].id = u \/ thread'[v].id = u => thread'[v] = thread[v]
  BY NoneAssumption
<1> QED  BY <1>1, <1>2, TruthKept

LEMMA QuietTold ==
  ASSUME TInv, NEW w \in Thread,
         \/ \E r \in Request : w \in Worker /\ AddTask(w, r)
         \/ GenTaskIdFails(w) \/ Stop(w) \/ PersistNothing(w) \/ StopPool
         \/ \E t \in Ids : w \in Worker /\ (Pause(w, t) \/ Resume(w, t))
         \/ \E t \in Ids : TorrentFinished(t)
         \/ UNCHANGED vars
  PROVE  RowsOK'
<1> USE EndFacts, Facts DEF TInv
<1>1. UNCHANGED <<tasks_map, flags, resume, row, fate, faults>>
  BY DEF AddTask, GenTaskIdFails, Stop, PersistNothing, StopPool, Pause, Resume, TorrentFinished,
         vars, maps, object, disk, history
<1>2. \A u \in Ids : seed[u] # "none" => seed'[u] # "none"
  <2>1. ASSUME NEW t \in Ids, TorrentFinished(t)
        PROVE  \A u \in Ids : seed[u] # "none" => seed'[u] # "none"
    BY <2>1 DEF TorrentFinished
  <2>2. UNCHANGED seed \/ \E t \in Ids : TorrentFinished(t)
    BY DEF AddTask, GenTaskIdFails, Stop, PersistNothing, StopPool, Pause, Resume, vars, object
  <2> QED  BY <2>1, <2>2
<1>3. \A v \in Thread :
        \/ thread'[v] = thread[v]
        \/ thread[v].id = None /\ thread'[v].id = None
  <2>1. ASSUME NEW r \in Request, w \in Worker, AddTask(w, r)
        PROVE  thread[w].id = None /\ thread'[w].id = None
    BY <2>1 DEF AddTask, Ready, Idle
  <2>2. ASSUME GenTaskIdFails(w) PROVE thread[w].id = None /\ thread'[w].id = None
    BY <2>2 DEF GenTaskIdFails, HoldOK, Holding, Sole, Idle
  <2>3. ASSUME Stop(w) PROVE thread[w].id = None /\ thread'[w].id = None
    BY <2>3 DEF Stop, Idle, ThreadType
  <2>4. ASSUME PersistNothing(w) PROVE thread[w].id = None /\ thread'[w].id = None
    BY <2>4 DEF PersistNothing, HoldOK, Holding, Sole, ThreadType
  <2>5. \A v \in Thread \ {w} : thread'[v] = thread[v]
    BY DEF AddTask, GenTaskIdFails, Stop, PersistNothing, StopPool, Pause, Resume,
           TorrentFinished, vars
  <2>6. \/ thread' = thread
        \/ \E r \in Request : w \in Worker /\ AddTask(w, r)
        \/ GenTaskIdFails(w) \/ Stop(w) \/ PersistNothing(w)
    BY DEF StopPool, Pause, Resume, TorrentFinished, vars
  <2>7. \/ thread'[w] = thread[w]
        \/ thread[w].id = None /\ thread'[w].id = None
    BY <2>1, <2>2, <2>3, <2>4, <2>6
  <2> QED  BY <2>5, <2>7
<1>4. ASSUME NEW u \in Ids PROVE Truthful(u)'
  <2>1. \A v \in Thread : thread[v].id = u \/ thread'[v].id = u => thread'[v] = thread[v]
    BY <1>3
  <2>2. Told(u) => Told(u)'
    BY <1>1 DEF Told, Tells
  <2> QED  BY <1>1, <1>2, <2>1, <2>2, TruthKept
<1> QED  BY <1>4 DEF RowsOK

\* Rows change while a task is in the maps, or are deleted.
LEMMA RowTold ==
  ASSUME TInv, NEW t \in Ids,
         DeleteDataTimerCallback(t) \/ \E w \in Worker : OnTorrentFinished(w, t)
  PROVE  RowsOK'
<1> USE EndFacts, Facts DEF TInv
<1>1. UNCHANGED <<thread, tasks_map, flags, resume, fate>>
  BY DEF DeleteDataTimerCallback, OnTorrentFinished, maps, object, history
<1>2. \A u \in Ids : seed[u] # "none" => seed'[u] # "none"
  <2>1. CASE UNCHANGED seed
    BY <2>1
  <2>2. ASSUME NEW w \in Worker, OnTorrentFinished(w, t)
        PROVE  \A u \in Ids : seed[u] # "none" => seed'[u] # "none"
    <3>1. \E s \in {"timer", "forever", "lost"} : seed' = [seed EXCEPT ![t] = s]
      BY <2>2 DEF OnTorrentFinished, ToSeeding
    <3> QED  BY <3>1 DEF Inv, IInv, TypeOK
  <2> QED  BY <2>1, <2>2 DEF DeleteDataTimerCallback, object
<1>3. \A u \in Ids : Told(u) => Told(u)'
  <2>1. CASE DeleteDataTimerCallback(t)
    <3>1. row' = [row EXCEPT ![t] = NoRow] /\ UNCHANGED faults
      BY <2>1 DEF DeleteDataTimerCallback, history
    <3>2. ~row'[t].ended
      BY <3>1 DEF NoRow
    <3>3. \A u \in Ids : u # t => row'[u] = row[u]
      BY <3>1
    <3> QED  BY <1>1, <3>1, <3>2, <3>3 DEF Told, Tells
  <2>2. ASSUME NEW w \in Worker, OnTorrentFinished(w, t)
        PROVE  \A u \in Ids : Told(u) => Told(u)'
    <3>1. CASE UNCHANGED <<row, faults>>
      BY <1>1, <3>1 DEF Told, Tells
    <3>2. CASE t \in tasks_map /\ UpdateStatus(t, FALSE)
      <4>1. Told(t)'
        BY <1>1, <3>2 DEF RowsOK, Truthful, Told, Tells
      <4>2. faults \subseteq faults' /\ \A u \in Ids : u # t => row'[u] = row[u]
        BY <3>2, UpdateCloses
      <4> QED  BY <1>1, <4>1, <4>2 DEF Told, Tells
    <3> QED  BY <2>2, <3>1, <3>2 DEF OnTorrentFinished, ToSeeding
  <2> QED  BY <2>1, <2>2
<1> QED  BY <1>1, <1>2, <1>3, TruthKept DEF RowsOK

\* What the destructor writes, from the flags it finds.
LEMMA DtorTells ==
  ASSUME TInv, NEW t \in Ids, UpdateStatus(t, TRUE), Marked(t)', UNCHANGED seed
  PROVE  Told(t)'
<1> USE EndFacts DEF TInv
<1>1. CASE t \in faults'
  BY <1>1 DEF Told
<1>2. CASE row' = row /\ row[t] = NoRow
  BY <1>2 DEF Told, NoRow
<1>3. CASE row' = [row EXCEPT ![t] = [status |-> GetStatusCode(t, TRUE),
                                      ended |-> TRUE \/ row[t].ended]]
  <2>1. row'[t].status = GetStatusCode(t, TRUE)
    BY <1>3
  <2>2. Tells(t)'
    BY <2>1 DEF Tells, Marked, GetStatusCode
  <2> QED  BY <2>2 DEF Told
<1> QED  BY <1>1, <1>2, <1>3 DEF UpdateStatus

\* Thread w lets go of a task that is in no map and has its mark.
LEMMA ReleaseTells ==
  ASSUME TInv, NEW w \in Thread, NEW t \in Ids, Marked(t)', UNCHANGED seed,
         NEW at \in Dying, NEW after \in ThreadType,
         after.id = None, after.at \in {"idle", "create", "stopped", "persisting"},
         Release(w, t, at, after), t \notin tasks_map',
         \A v \in Thread \ {w} : thread[v].id = t => thread[v].at \in {"quit", "setopt"}
  PROVE  /\ Truthful(t)' /\ faults \subseteq faults'
         /\ \A v \in Thread : v # w => thread'[v] = thread[v]
         /\ thread'[w].id \in {None, t}
         /\ \A u \in Ids : u # t => resume'[u] = resume[u] /\ row'[u] = row[u]
<1> USE EndFacts, Facts DEF TInv
<1>1. CASE HeldElsewhere(w, t)
  <2>1. thread' = [thread EXCEPT ![w] = after] /\ UNCHANGED <<resume, row, faults>>
    BY <1>1 DEF Release, disk
  <2>2. thread'[w].id # t
    BY <2>1
  <2>3. \A v \in Thread : thread'[v].id = t => thread'[v].at \notin Dying
    BY <2>1, <2>2 DEF Dying
  <2>4. /\ Held(t)'
        /\ \E v \in Thread : thread'[v].id = t /\ thread'[v].at \in Ending
    BY <1>1, <2>1 DEF Held, HeldElsewhere, Ending
  <2> QED  BY <2>1, <2>2, <2>3, <2>4 DEF Truthful
<1>2. CASE ~HeldElsewhere(w, t)
  <2>1. /\ thread' = [thread EXCEPT ![w] = [at |-> at, id |-> t, req |-> after.req]]
        /\ UpdateStatus(t, TRUE)
        /\ resume' = IF "PERSIST" \in flags'[t] THEN [resume EXCEPT ![t] = "torn"] ELSE resume
    BY <1>2 DEF Release, BeginDtor
  <2>2. /\ Told(t)' /\ faults \subseteq faults'
        /\ \A u \in Ids : u # t => row'[u] = row[u]
    BY <2>1, UpdateCloses, DtorTells
  <2>3. \A v \in Thread : thread'[v].id = t => v = w
    BY <1>2, <2>1 DEF HeldElsewhere
  <2>4. thread'[w].id = t /\ thread'[w].at = at
    BY <2>1
  <2>5. Truthful(t)'
    BY <2>2, <2>3, <2>4 DEF Truthful, Held, Ending, Dying
  <2> QED  BY <2>1, <2>2, <2>5
<1> QED  BY <1>1, <1>2

LEMMA LetGoTold ==
  ASSUME TInv, NEW w \in Thread, ReleaseDup(w) \/ TaskSetoptEnds(w)
  PROVE  RowsOK'
<1> USE EndFacts, Facts DEF TInv
<1>1. /\ thread[w].at \in {"quit", "setopt"} /\ thread[w].id \in Ids
      /\ UNCHANGED <<tasks_map, flags, fate, seed>>
  BY DEF ReleaseDup, TaskSetoptEnds, HoldOK, Holding, maps
<1>2. PICK t \in Ids : t = thread[w].id
  BY <1>1
<1>3. Truthful(t) /\ Marked(t) /\ Marked(t)'
  BY <1>1, <1>2 DEF RowsOK, Truthful, Marked
<1>4. /\ Truthful(t)' /\ faults \subseteq faults'
      /\ \A v \in Thread : v # w => thread'[v] = thread[v]
      /\ thread'[w].id \in {None, t}
      /\ \A u \in Ids : u # t => resume'[u] = resume[u] /\ row'[u] = row[u]
  <2>1. CASE TaskSetoptEnds(w) /\ t \in tasks_map
    <3>1. thread' = [thread EXCEPT ![w] = Idle] /\ UNCHANGED <<resume, row, faults>>
      BY <1>2, <2>1 DEF TaskSetoptEnds, disk
    <3>2. /\ thread'[w].id = None
          /\ \A v \in Thread : v # w => thread'[v] = thread[v]
      BY <3>1 DEF Idle
    <3>3. \A v \in Thread : thread'[v].id = t => thread'[v] = thread[v]
      BY <3>2
    <3>4. Told(t) => Told(t)'
      BY <1>1, <3>1 DEF Told, Tells
    <3>5. Truthful(t)'
      BY <1>1, <1>3, <2>1, <3>1, <3>3, <3>4 DEF Truthful
    <3> QED  BY <3>1, <3>2, <3>5
  <2>2. CASE ReleaseDup(w) \/ t \notin tasks_map
    <3>1. PICK a \in {Idle, [at |-> "create", id |-> None, req |-> thread[w].req]} :
            Release(w, t, "dtor", a)
      BY <1>2, <2>2 DEF ReleaseDup, TaskSetoptEnds
    <3>2. a.id = None /\ a.at \in {"idle", "create"} /\ a \in ThreadType
      BY IdleType DEF Idle, ThreadType, At
    <3>3. t \notin tasks_map'
      BY <1>1, <1>2, <2>2 DEF ReleaseDup, HoldOK, Sole
    <3>4. \A v \in Thread \ {w} : thread[v].id = t => thread[v].at \in {"quit", "setopt"}
      BY <1>2 DEF HoldOK, Holding, Sole
    <3>5. "dtor" \in Dying
      BY DEF Dying
    <3> QED  BY <1>1, <1>3, <3>1, <3>2, <3>3, <3>4, <3>5, ReleaseTells
  <2> QED  BY <2>1, <2>2
<1> QED  BY <1>1, <1>2, <1>4, TruthStep

\* The reason of an end is set with the end.
LEMMA EndedTold ==
  ASSUME TInv, NEW w \in Worker,
         \/ \E r \in Request : AddTaskDisplacing(w, r)
         \/ \E t \in Ids : Cancel(w, t) \/ OnTorrentError(w, t) \/ SeedingTimerCallback(w, t)
  PROVE  RowsOK'
<1> USE EndFacts, Facts DEF TInv
<1>0. w \in Thread
  BY DEF Thread
<1>1. ASSUME NEW r \in Request, AddTaskDisplacing(w, r) PROVE RowsOK'
  <2>1. r.infohash \in Infohash /\ r.data_path \in Path
    BY RequestAssumption DEF Requests
  <2>2. PICK d \in tasks_map : d = Duplicate(r)
    BY <1>1, <2>1 DEF Inv, IInv, IndexesExact, Duplicate, AddTaskDisplacing
  <2>3. /\ tasks_map' = tasks_map \ {d} /\ fate' = [fate EXCEPT ![d] = "displaced"]
        /\ flags' = [flags EXCEPT ![d] = @ \cup {"CANCELED"}]
        /\ thread[w].id = None
        /\ thread' = [thread EXCEPT ![w] = [at |-> "quit", id |-> d, req |-> r]]
        /\ UNCHANGED <<faults, resume, row, seed>>
    BY <1>1, <2>2 DEF AddTaskDisplacing, ERASE_TASK_FROM_MAP, Ready, Idle, disk
  <2>4. Truthful(d) /\ flags[d] = {} /\ d \in Ids
    BY <2>2 DEF RowsOK, Truthful
  <2>5. Marked(d)'
    BY <2>3, <2>4 DEF Marked
  <2>6. /\ \A v \in Thread : v # w => thread'[v] = thread[v]
        /\ thread'[w].id = d /\ thread'[w].at = "quit"
    BY <1>0, <2>3
  <2>7. \A v \in Thread : thread'[v].id = d => thread'[v].at \notin Dying
    <3>1. \A v \in Thread : thread[v].id = d => thread[v].at \notin Dying
      BY <2>2, <2>4 DEF HoldOK, Sole, Dying
    <3> QED  BY <2>6, <3>1 DEF Dying
  <2>8. Truthful(d)'
    BY <1>0, <2>3, <2>5, <2>6, <2>7 DEF Truthful, Held, Ending
  <2> QED  BY <1>0, <2>3, <2>4, <2>6, <2>8, TruthStep
<1>2. ASSUME NEW t \in Ids, Cancel(w, t) \/ OnTorrentError(w, t) \/ SeedingTimerCallback(w, t)
      PROVE  RowsOK'
  <2>1. t \in tasks_map /\ thread[w].id = None /\ flags[t] = {}
    BY <1>2 DEF Cancel, OnTorrentError, SeedingTimerCallback, Ready, Idle, RowsOK, Truthful
  <2>2. PICK f \in {"canceled", "failed", "expired"} :
          /\ Drop(w, t, f)
          /\ f = "canceled" => flags' = [flags EXCEPT ![t] = @ \cup {"CANCELED"}]
          /\ f = "failed" => flags' = [flags EXCEPT ![t] = @ \cup {"ERROR"}]
          /\ f = "expired" => flags' = flags /\ seed[t] = "timer"
    BY <1>2 DEF Cancel, OnTorrentError, SeedingTimerCallback
  <2>3. /\ tasks_map' = tasks_map \ {t} /\ fate' = [fate EXCEPT ![t] = f]
        /\ Release(w, t, "dtor_locked", Idle) /\ UNCHANGED seed
    BY <2>2 DEF Drop, ERASE_TASK_FROM_MAP
  <2>4. Marked(t)'
    BY <2>1, <2>2, <2>3 DEF Marked
  <2>5. /\ "dtor_locked" \in Dying /\ t \notin tasks_map'
        /\ Idle \in ThreadType /\ Idle.id = None /\ Idle.at = "idle"
    BY <2>3, IdleType DEF Dying, Idle
  <2>6. \A v \in Thread \ {w} : thread[v].id = t => thread[v].at \in {"quit", "setopt"}
    BY <2>1 DEF HoldOK, Holding
  <2>7. /\ Truthful(t)' /\ faults \subseteq faults'
        /\ \A v \in Thread : v # w => thread'[v] = thread[v]
        /\ thread'[w].id \in {None, t}
        /\ \A u \in Ids : u # t => resume'[u] = resume[u] /\ row'[u] = row[u]
    BY <1>0, <2>3, <2>4, <2>5, <2>6, ReleaseTells
  <2>8. \A u \in Ids : u # t => fate'[u] = fate[u] /\ flags'[u] = flags[u]
    BY <2>2, <2>3
  <2> QED  BY <1>0, <2>1, <2>3, <2>7, <2>8, TruthStep
<1> QED  BY <1>1, <1>2

\* A task to persist was ended by nobody.
LEMMA PersistTold ==
  ASSUME TInv, NEW w \in Thread, PersistTask(w)
  PROVE  RowsOK'
<1> USE EndFacts, Facts DEF TInv
<1>1. PICK t \in tasks_map :
        /\ ERASE_TASK_FROM_MAP(t)
        /\ flags' = [flags EXCEPT ![t] = @ \cup {"PERSIST"}]
        /\ Release(w, t, IF tasks_map = {t} THEN "persist_last" ELSE "persist_dtor",
                   [at |-> IF tasks_map = {t} THEN "stopped" ELSE "persisting",
                    id |-> None, req |-> None])
        /\ UNCHANGED <<fate, seed>>
  BY DEF PersistTask
<1>2. thread[w].id = None /\ t \in Ids /\ tasks_map' = tasks_map \ {t}
  BY <1>1 DEF PersistTask, HoldOK, Holding, Sole, ERASE_TASK_FROM_MAP
<1>3. PICK after \in ThreadType, at \in Dying :
        /\ after.id = None /\ after.at \in {"stopped", "persisting"}
        /\ Release(w, t, at, after)
  <2> DEFINE a == [at |-> IF tasks_map = {t} THEN "stopped" ELSE "persisting",
                   id |-> None, req |-> None]
             d == IF tasks_map = {t} THEN "persist_last" ELSE "persist_dtor"
  <2>1. /\ a \in ThreadType /\ a.id = None /\ d \in Dying
        /\ a.at \in {"stopped", "persisting"}
    BY DEF ThreadType, At, Dying
  <2>2. Release(w, t, d, a)
    BY <1>1
  <2> HIDE DEF a
  <2> QED  BY <2>1, <2>2
<1>4. Marked(t)'
  BY <1>1, <1>2 DEF RowsOK, Truthful, Marked
<1>5. \A v \in Thread \ {w} : thread[v].id = t => thread[v].at \in {"quit", "setopt"}
  BY DEF HoldOK, Holding
<1>6. /\ Truthful(t)' /\ faults \subseteq faults'
      /\ \A v \in Thread : v # w => thread'[v] = thread[v]
      /\ thread'[w].id \in {None, t}
      /\ \A u \in Ids : u # t => resume'[u] = resume[u] /\ row'[u] = row[u]
  BY <1>1, <1>2, <1>3, <1>4, <1>5, ReleaseTells
<1>7. \A u \in Ids : u # t => flags'[u] = flags[u]
  BY <1>1
<1> QED  BY <1>1, <1>2, <1>6, <1>7, TruthStep

LEMMA CreateTold ==
  ASSUME TInv, NEW w \in Thread,
         \/ GenTaskId(w) \/ AddTorrentFails(w) \/ AddTorrent(w) \/ FinishCreate(w)
         \/ \E t \in Ids : w \in Worker /\ TaskSetopt(w, t)
  PROVE  RowsOK'
<1> USE EndFacts, Facts DEF TInv
<1>1. CASE GenTaskId(w)
  <2>1. PICK t \in Ids : t = nextId
    BY <1>1, BoundAssumption DEF GenTaskId, Inv, IInv, TypeOK, Ids
  <2>2. /\ thread[w].id = None /\ thread'[w].at = "rowed" /\ thread'[w].id = t
        /\ \A v \in Thread : v # w => thread'[v] = thread[v]
        /\ UNCHANGED <<tasks_map, resume, fate, flags, seed, faults>>
        /\ \A u \in Ids : u # t => row'[u] = row[u]
    BY <1>1, <2>1 DEF GenTaskId, HoldOK, Holding, Sole, history, maps, object
  <2>3. \A v \in Thread : v # w => thread[v].id # t
    BY <2>1, NoneAssumption DEF HoldOK
  <2>4. t \notin tasks_map /\ flags[t] = {}
    BY <2>1, <2>2, <2>3 DEF RowsOK, Truthful
  <2>5. Truthful(t)'
    BY <2>2, <2>3, <2>4 DEF Truthful, Held, Dying
  <2> QED  BY <2>2, <2>5, TruthStep
<1>2. CASE AddTorrentFails(w) \/ AddTorrent(w) \/ FinishCreate(w)
  <2>1. PICK t \in Ids : t = thread[w].id /\ t \notin tasks_map
    BY <1>2 DEF AddTorrentFails, AddTorrent, FinishCreate, HoldOK, Holding, Sole
  <2>2. /\ \A v \in Thread : v # w => thread[v].id # t
        /\ thread[w].at \in {"rowed", "added"}
    BY <1>2, <2>1 DEF AddTorrentFails, AddTorrent, FinishCreate, HoldOK, Sole
  <2>3. fate[t] = "none" /\ flags[t] = {}
    BY <2>1, <2>2 DEF EInv, FreshOK, RowsOK, Truthful, Ending, Dying
  <2>4. /\ \A v \in Thread : v # w => thread'[v] = thread[v]
        /\ thread'[w].at \in {"idle", "added"} /\ thread'[w].id \in {None, t}
        /\ \A u \in Ids : u # t => fate'[u] = fate[u] /\ resume'[u] = resume[u]
        /\ fate'[t] \in {"none", "refused"} /\ UNCHANGED <<row, flags, seed>>
        /\ faults \subseteq faults'
        /\ \/ tasks_map' = tasks_map
           \/ tasks_map' = tasks_map \cup {t} /\ fate'[t] = "none"
    <3>1. CASE AddTorrentFails(w)
      <4>1. fate' = [fate EXCEPT ![t] = "refused"]
            /\ UNCHANGED <<resume, row, flags, seed, faults, tasks_map>>
        BY <2>1, <3>1 DEF AddTorrentFails, disk, object, maps
      <4> QED  BY <3>1, <4>1 DEF AddTorrentFails, Idle
    <3>2. CASE AddTorrent(w)
      <4>1. resume' = [resume EXCEPT ![t] = "torn"]
            /\ UNCHANGED <<fate, row, flags, seed, faults, tasks_map>>
        BY <2>1, <3>2 DEF AddTorrent, history, object, maps
      <4> QED  BY <2>1, <2>3, <3>2, <4>1 DEF AddTorrent, ThreadType
    <3>3. CASE FinishCreate(w)
      <4>1. /\ tasks_map' = tasks_map \cup {t}
            /\ \A u \in Ids : u # t => resume'[u] = resume[u]
            /\ faults \subseteq faults' /\ UNCHANGED <<fate, row, flags, seed>>
        BY <2>1, <3>3 DEF FinishCreate, ADD_TASK_TO_MAP, object
      <4> QED  BY <2>3, <3>3, <4>1 DEF FinishCreate, Idle
    <3> QED  BY <1>2, <3>1, <3>2, <3>3
  <2>5. \A v \in Thread : thread'[v].id = t => thread'[v].at \in {"idle", "added"}
    BY <2>2, <2>4
  <2>6. Told(t)'
    BY <2>4 DEF Told, Tells
  <2>7. Truthful(t)'
    <3>1. t \in tasks_map' => fate'[t] = "none"
      BY <2>1, <2>4
    <3>2. flags'[t] = {}
      BY <2>3, <2>4
    <3>3. \A v \in Thread : thread'[v].id = t => thread'[v].at \notin {"quit", "setopt"} \cup Dying
      BY <2>5 DEF Dying
    <3> QED  BY <2>6, <3>1, <3>2, <3>3 DEF Truthful
  <2>8. \A u \in Ids : u # t => (u \in tasks_map' <=> u \in tasks_map)
    BY <2>4
  <2> QED  BY <2>1, <2>4, <2>7, <2>8, TruthStep
<1>3. ASSUME NEW t \in Ids, TaskSetopt(w, t) PROVE RowsOK'
  <2>1. /\ thread[w].id = None /\ thread'[w].at = "setopt" /\ thread'[w].id = t
        /\ \A v \in Thread : v # w => thread'[v] = thread[v]
        /\ t \in tasks_map /\ UNCHANGED <<tasks_map, resume, fate, row, flags, seed, faults>>
    BY <1>3 DEF TaskSetopt, Ready, Idle, disk, history, maps, object
  <2>2. Truthful(t) /\ fate[t] = "none"
    BY <2>1 DEF RowsOK, Truthful
  <2>3. Told(t)' /\ Marked(t)'
    BY <2>1, <2>2 DEF Told, Tells, Marked
  <2>4. Truthful(t)'
    BY <2>1, <2>2, <2>3 DEF Truthful
  <2> QED  BY <2>1, <2>4, TruthStep
<1> QED  BY <1>1, <1>2, <1>3

LEMMA DtorTold ==
  ASSUME TInv, NEW w \in Thread, DtorEnds(w) \/ PersistDtorEnds(w)
  PROVE  RowsOK'
<1> USE EndFacts, Facts DEF TInv
<1>1. PICK t \in Ids : t = thread[w].id
  BY DEF DtorEnds, PersistDtorEnds, HoldOK, Holding, Sole
<1>2. /\ t \notin tasks_map /\ \A v \in Thread \ {w} : thread[v].id # t
      /\ Told(t)
  <2>1. thread[w].at \in Sole /\ thread[w].at \in Dying
    BY DEF DtorEnds, PersistDtorEnds, Sole, Dying
  <2> QED  BY <1>1, <2>1 DEF HoldOK, RowsOK, Truthful
<1>3. /\ UNCHANGED <<tasks_map, fate, faults, row>>
      /\ flags' = [flags EXCEPT ![t] = {}] /\ seed' = [seed EXCEPT ![t] = "none"]
      /\ \A u \in Ids : u # t => resume'[u] = resume[u]
  BY <1>1 DEF DtorEnds, PersistDtorEnds, EndDtor, ObjectGone, maps, history
<1>4. /\ \A v \in Thread : v # w => thread'[v] = thread[v]
      /\ thread'[w].id = None
  <2>1. CASE DtorEnds(w)
    BY <2>1 DEF DtorEnds, EndDtor, Idle
  <2>2. CASE PersistDtorEnds(w)
    BY <2>2 DEF PersistDtorEnds
  <2> QED  BY <2>1, <2>2
<1>5. Truthful(t)'
  <2>1. \A v \in Thread : thread'[v].id # t
    BY <1>2, <1>4
  <2>2. Told(t)'
    BY <1>2, <1>3 DEF Told, Tells
  <2>3. flags'[t] = {}
    BY <1>3
  <2> QED  BY <1>2, <1>3, <2>1, <2>2, <2>3 DEF Truthful
<1> QED  BY <1>1, <1>3, <1>4, <1>5, TruthStep

\* A handler that is cut off leaves a complete file, or a row that tells.
LEMMA DownTold ==
  ASSUME TInv, Exit \/ Crash
  PROVE  RowsOK'
<1> USE EndFacts, Facts DEF TInv
<1>1. /\ tasks_map' = {} /\ thread' = [w \in Thread |-> Idle]
      /\ flags' = [t \in Ids |-> {}] /\ UNCHANGED <<row, faults>>
  BY DEF Exit, Crash, MemoryLost, disk, history
<1>2. \A w \in Thread : thread'[w].at = "idle" /\ thread'[w].id = None
  BY <1>1 DEF Idle
<1>3. \A t \in Ids : fate'[t] \in {fate[t], "torn"}
  BY DEF Exit, Crash, history
<1>4. ASSUME NEW t \in Ids PROVE resume'[t] = "ok" \/ Told(t)'
  <2>1. Truthful(t) /\ Settled(t) /\ (Told(t) => Told(t)')
    BY <1>1, <1>3 DEF RowsOK, EInv, SettledOK, Told, Tells
  <2>2. fate[t] = "none" => Told(t)
    BY DEF Told, Tells
  <2>3. CASE Exit
    <3>1. \A w \in Thread : thread[w].at \in {"idle", "stopped"}
      BY <2>3 DEF Exit, EInv, AInv, SaverOK, Saving, Thread
    <3>2. ~Held(t)
      BY <3>1 DEF Held, HoldOK, Holding, Sole
    <3>3. t \notin tasks_map => resume'[t] = resume[t]
      BY <2>3 DEF Exit
    <3> QED  BY <2>1, <2>2, <3>2, <3>3 DEF Truthful
  <2>4. CASE Crash
    <3>1. resume' = resume
      BY <2>4 DEF Crash, disk
    <3>2. ASSUME t \notin tasks_map, NEW w \in Thread, thread[w].id = t
          PROVE  resume'[t] = "ok" \/ Told(t)'
      <4>1. CASE thread[w].at \in {"rowed", "added"}
        BY <2>1, <2>2, <3>2, <4>1 DEF EInv, FreshOK
      <4>2. CASE thread[w].at \in {"quit", "setopt"}
        BY <1>1, <2>1, <3>1, <3>2, <4>2 DEF Settled, Filed, Told
      <4>3. CASE thread[w].at \in Dying
        BY <2>1, <3>2, <4>3 DEF Truthful
      <4>4. thread[w].at \in Holding
        BY <3>2 DEF HoldOK
      <4> QED  BY <4>1, <4>2, <4>3, <4>4 DEF Holding, Sole, Dying
    <3> QED  BY <2>1, <2>2, <3>1, <3>2 DEF Truthful, Held
  <2> QED  BY <2>3, <2>4
<1>5. \A t \in Ids : flags'[t] = {}
  BY <1>1
<1> QED  BY <1>1, <1>2, <1>4, <1>5 DEF RowsOK, Truthful

LEMMA RestartTold ==
  ASSUME TInv, Restart
  PROVE  RowsOK'
<1> USE EndFacts, Facts DEF TInv
<1>1. PICK loaded \in SUBSET {t \in Ids : resume[t] = "ok"} :
        /\ tasks_map' = loaded
        /\ fate' = [t \in Ids |-> IF t \in loaded THEN "none"
                                  ELSE IF t \in {u \in Ids : resume[u] = "ok"}
                                    THEN "superseded" ELSE fate[t]]
  BY DEF Restart
<1>2. phase = "down" /\ UNCHANGED <<thread, faults, row, flags>>
  BY DEF Restart, object
<1>3. /\ \A w \in Thread : thread[w].at = "idle" /\ thread[w].id = None
      /\ tasks_map = {}
  BY <1>2 DEF Inv, TraceOK, HoldOK, Holding, Sole
<1>4. ASSUME NEW t \in Ids PROVE Truthful(t)'
  <2>1. Truthful(t) /\ ~Held(t) /\ flags'[t] = {}
    BY <1>2, <1>3 DEF RowsOK, Truthful, Held
  <2>2. t \notin tasks_map' => Told(t)'
    <3>1. CASE resume[t] = "ok" /\ t \notin tasks_map'
      <4>1. fate'[t] = "superseded"
        BY <1>1, <3>1
      <4> QED  BY <4>1 DEF Told, Tells
    <3>2. CASE resume[t] # "ok"
      <4>1. fate'[t] = fate[t] /\ Told(t)
        BY <1>1, <1>3, <2>1, <3>2 DEF Truthful
      <4> QED  BY <1>2, <4>1 DEF Told, Tells
    <3> QED  BY <3>1, <3>2
  <2>3. \A w \in Thread : thread'[w].id # t
    BY <1>2, <1>3
  <2> QED  BY <1>1, <2>1, <2>2, <2>3 DEF Truthful
<1> QED  BY <1>4 DEF RowsOK

LEMMA NextTold ==
  ASSUME TInv, [Next]_vars
  PROVE  RowsOK'
<1> USE DEF Thread
<1>1. ASSUME NEW w \in Thread, Continue(w) \/ Stop(w) PROVE RowsOK'
  <2>1. CASE GenTaskIdFails(w) \/ Stop(w) \/ PersistNothing(w)  BY <2>1, QuietTold
  <2>2. CASE ReleaseDup(w) \/ TaskSetoptEnds(w)  BY <2>2, LetGoTold
  <2>3. CASE GenTaskId(w) \/ AddTorrentFails(w) \/ AddTorrent(w) \/ FinishCreate(w)
    BY <2>3, CreateTold
  <2>4. CASE DtorEnds(w) \/ PersistDtorEnds(w)  BY <2>4, DtorTold
  <2>5. CASE PersistTask(w)  BY <2>5, PersistTold
  <2> QED  BY <1>1, <2>1, <2>2, <2>3, <2>4, <2>5 DEF Continue
<1>2. ASSUME NEW w \in Worker, Message(w) PROVE RowsOK'
  <2>1. ASSUME NEW r \in Request, AddTask(w, r) PROVE RowsOK'
    BY <2>1, QuietTold
  <2>2. ASSUME NEW r \in Request, AddTaskDisplacing(w, r) PROVE RowsOK'
    BY <2>2, EndedTold
  <2>3. ASSUME NEW t \in Ids, Cancel(w, t) PROVE RowsOK'
    BY <2>3, EndedTold
  <2>4. ASSUME NEW t \in Ids, Pause(w, t) \/ Resume(w, t) PROVE RowsOK'
    BY <2>4, QuietTold
  <2>5. ASSUME NEW t \in Ids, TaskSetopt(w, t) PROVE RowsOK'
    BY <2>5, CreateTold
  <2> QED  BY <1>2, <2>1, <2>2, <2>3, <2>4, <2>5 DEF Message
<1>3. ASSUME NEW w \in Worker, NEW t \in Ids, Callback(w, t) PROVE RowsOK'
  <2>1. CASE OnTorrentFinished(w, t)  BY <2>1, RowTold
  <2>2. CASE OnTorrentError(w, t) \/ SeedingTimerCallback(w, t)  BY <2>2, EndedTold
  <2> QED  BY <1>3, <2>1, <2>2 DEF Callback
<1>4. ASSUME NEW t \in Ids, TorrentFinished(t) PROVE RowsOK'
  BY <1>4, QuietTold
<1>5. ASSUME NEW t \in Ids, DeleteDataTimerCallback(t) PROVE RowsOK'
  BY <1>5, RowTold
<1>6. CASE StopPool \/ UNCHANGED vars
  BY <1>6, QuietTold
<1>7. CASE Exit \/ Crash
  BY <1>7, DownTold
<1>8. CASE Restart
  BY <1>8, RestartTold
<1> QED  BY <1>1, <1>2, <1>3, <1>4, <1>5, <1>6, <1>7, <1>8 DEF Next

(***************************************************************************)
(* What GetStatus reads back for a task that is gone is the reason of its  *)
(* end, whichever thread dropped the last reference, and although a stop   *)
(* may have written the row before and a crash may have cut an end off.    *)
(***************************************************************************)
THEOREM RowAlwaysTellsFate == Spec => []RowTellsFate
<1>1. Init => RowsOK
  <2> SUFFICES ASSUME Init, NEW t \in Ids PROVE Truthful(t)
    BY DEF RowsOK
  <2>1. fate[t] = "none" /\ flags[t] = {} /\ t \notin tasks_map
    BY DEF Init
  <2>2. \A w \in Thread : thread[w].id # t
    BY NoneAssumption DEF Init, Idle
  <2> QED  BY <2>1, <2>2 DEF Truthful, Told, Tells
<1>2. EInv /\ RowsOK /\ [Next]_vars => RowsOK'
  BY NextTold DEF TInv
<1>3. EInv /\ RowsOK => RowTellsFate
  <2> SUFFICES ASSUME EInv, RowsOK, phase = "up", NEW t \in Ids \ (Live \cup faults),
                      row[t].ended, fate[t] \in Ended
               PROVE  Tells(t)
    BY DEF RowTellsFate, Ended, Tells
  <2>1. t \notin tasks_map /\ ~Held(t) /\ Settled(t) /\ Truthful(t)
    BY NoneAssumption DEF Live, Held, EInv, SettledOK, RowsOK
  <2>2. resume[t] = "none"
    BY <2>1 DEF Settled
  <2> QED  BY <2>1, <2>2 DEF Truthful, Told
<1> QED  BY <1>1, <1>2, <1>3, EndedHolds, PTL DEF Spec
=============================================================================
