----------------------------- MODULE GroupTasks -----------------------------
(***************************************************************************)
(* The group manager (gko-src/group/group_manager.cpp, group_task.cpp): a  *)
(* daemon that downloads and seeds tasks for the users of a host.  Client  *)
(* calls run on the threads of a thrift server; one io thread runs the     *)
(* alerts of libtorrent and all timers.  tasks_lock_ protects the maps,    *)
(* but a task is ended by several steps, most of them without the lock,    *)
(* and several threads may be ending one task.                             *)
(*                                                                         *)
(* A task object is a shared_ptr named by an id, fresh in each process;    *)
(* its destructor runs when no map and no thread has it.                   *)
(***************************************************************************)
EXTENDS Integers, FiniteSets

CONSTANTS
  Client,      \* threads of thrift_server_
  Io,          \* the thread of io_service_, at first the main thread
  Infohash,    \* infohashes of tasks
  Request,     \* the AddTask calls clients may make
  MaxId,       \* bound: objects created by one process
  None,        \* no entry, no file, no task
  Null         \* an entry of infohash_map_ that holds a null pointer

Ids == 1 .. MaxId
Thread == Client \cup {Io}

\* seeding_time is "infinite" for -1; timeout says whether one was given.
Requests == [infohash : Infohash, seeding_time : {"finite", "infinite"},
             timeout : BOOLEAN]

ASSUME RequestAssumption == Request \subseteq Requests
ASSUME ThreadAssumption  == Io \notin Client
ASSUME NoneAssumption    == /\ None \notin Ids /\ None \notin Request
                            /\ Null \notin Ids /\ None # Null
ASSUME KindAssumption    == Ids \cap Infohash = {}
ASSUME BoundAssumption   == MaxId \in Nat

VARIABLES
  phase,          \* "up", "quit" once Shutdown has cleared the maps, "down"
  nextId,         \* next object
  req,            \* the request an object was created for
  infohash_map,   \* infohash_map_: an id, Null or None
  torrent_map,    \* ids in torrent_map_
  finished,       \* ids of finished_infohash_list_
  loaded,         \* entries of finished_infohash_list_ read from a file
  list_changed,   \* finished_infohash_list_changed_
  handle,         \* the torrent: in the session, removed, or its handle expired
  control,        \* control_status_: "over" for CANCELED and FINISHED
  end_time,       \* ids whose end_time is set
  alert,          \* what became of the torrent_finished alert
  timers,         \* number of timers of a task that run: timeout, seeding
  thread,         \* what each thread is doing and the shared_ptrs it holds
  resume,         \* the file <infohash>.resume: the request in it
  finished_file,  \* infohashes in finished.resume
  registered      \* history: ids that entered the maps and were not erased
                  \* from the finished list since

maps    == <<infohash_map, torrent_map>>
list    == <<finished, loaded, list_changed>>
object  == <<req, handle, control, end_time, alert, timers>>
disk    == <<resume, finished_file>>
vars    == <<phase, nextId, maps, list, object, thread, disk, registered>>

Idle == [at |-> "idle", id |-> None, todo |-> {}, ret |-> "idle"]

\* A thread holds tasks_lock_ from Create to AddTaskToMap; every other critical
\* section is one step.
LockFree == \A w \in Thread : thread[w].at # "adding"

Ready(w) == thread[w] = Idle /\ phase = "up"

\* Some map or thread has a shared_ptr to t.
Referenced(t) ==
  \/ t \in torrent_map \cup finished
  \/ \E h \in Infohash : infohash_map[h] = t
  \/ \E w \in Thread : thread[w].id = t \/ t \in thread[w].todo

Mapped == {t \in Ids : \E h \in Infohash : infohash_map[h] = t}

InSession(h) == \E u \in Ids : handle[u] = "session" /\ req[u].infohash = h

\* torrent_handle::is_valid: the torrent object is still somewhere.
IsValid(t) == handle[t] \in {"session", "removed"}

-----------------------------------------------------------------------------
(***************************************************************************)
(* GroupTask::Persist deletes the file of a task that is over and writes   *)
(* that of any other; the file is the infohash's, whichever task wrote it. *)
(***************************************************************************)
Persisted(t, status) == IF status[t] = "over" THEN None ELSE req[t]

\* Those objects die that this step leaves without a reference.
Dying == {t \in Ids : Referenced(t) /\ ~(Referenced(t))'}

\* What an object keeps goes with it; an alert on its way finds nobody.
ForgetObjects(D, status) ==
  /\ control' = [t \in Ids |-> IF t \in D THEN "live" ELSE status[t]]
  /\ end_time' = end_time \ D
  /\ timers' = [t \in Ids |-> IF t \in D THEN 0 ELSE timers[t]]
  /\ alert' = [t \in Ids |-> IF t \in D THEN "lost" ELSE alert[t]]

\* The destructors of dying objects, in some order; status is control_status_.
DestroyUnreferenced(status) ==
  /\ ForgetObjects(Dying, status)
  /\ resume' \in [Infohash -> Request \cup {None}]
  /\ \A h \in Infohash :
       LET dying == {t \in Dying : req[t].infohash = h} IN
       IF dying = {} THEN resume'[h] = resume[h]
                     ELSE \E t \in dying : resume'[h] = Persisted(t, status)

\* Everything a new process has in memory.
NewProcess ==
  /\ nextId' = 1
  /\ req' = [t \in Ids |-> None]
  /\ infohash_map' = [h \in Infohash |-> None] /\ torrent_map' = {}
  /\ finished' = {} /\ loaded' = {} /\ list_changed' = TRUE
  /\ handle' = [t \in Ids |-> "none"]
  /\ control' = [t \in Ids |-> "live"]
  /\ end_time' = {} /\ timers' = [t \in Ids |-> 0]
  /\ alert' = [t \in Ids |-> "none"]
  /\ thread' = [w \in Thread |-> Idle]
  /\ registered' = {}

Init ==
  /\ phase = "up" /\ nextId = 1
  /\ req = [t \in Ids |-> None]
  /\ infohash_map = [h \in Infohash |-> None] /\ torrent_map = {}
  /\ finished = {} /\ loaded = {} /\ list_changed = TRUE
  /\ handle = [t \in Ids |-> "none"]
  /\ control = [t \in Ids |-> "live"]
  /\ end_time = {} /\ timers = [t \in Ids |-> 0]
  /\ alert = [t \in Ids |-> "none"]
  /\ thread = [w \in Thread |-> Idle]
  /\ registered = {}
  /\ resume = [h \in Infohash |-> None] /\ finished_file = {}

-----------------------------------------------------------------------------
(***************************************************************************)
(* GroupTask::Create for the new object t: add_torrent, which refuses a    *)
(* second torrent of one infohash, the resume file, the timeout timer.     *)
(***************************************************************************)
Create(t, r) ==
  /\ nextId' = nextId + 1
  /\ req' = [req EXCEPT ![t] = r]
  /\ handle' = [handle EXCEPT ![t] = "session"]
  /\ resume' = [resume EXCEPT ![r.infohash] = r]
  /\ timers' = [timers EXCEPT ![t] = IF r.timeout THEN 1 ELSE 0]

AddTaskToMap(t, h) ==
  /\ infohash_map' = [infohash_map EXCEPT ![h] = t]
  /\ torrent_map' = torrent_map \cup {t}
  /\ registered' = registered \cup {t}

\* AddTask takes the lock and creates the task.
AddTask(c, r) ==
  /\ c \in Client /\ Ready(c) /\ LockFree /\ nextId <= MaxId
  /\ ~InSession(r.infohash)
  /\ Create(nextId, r)
  /\ thread' = [thread EXCEPT ![c].at = "adding", ![c].id = nextId]
  /\ UNCHANGED <<phase, maps, list, control, end_time, alert, finished_file, registered>>

\* add_torrent fails: the object, whose infohash_ is set, is destroyed once the
\* lock is released.
AddTaskFails(c, r) ==
  /\ c \in Client /\ Ready(c) /\ LockFree /\ nextId <= MaxId
  /\ InSession(r.infohash)
  /\ nextId' = nextId + 1
  /\ req' = [req EXCEPT ![nextId] = r]
  /\ thread' = [thread EXCEPT ![c].at = "refused", ![c].id = nextId]
  /\ UNCHANGED <<phase, maps, list, handle, control, end_time, alert, timers, disk, registered>>

\* The map has an entry (a task that is being ended, or Null): the object is
\* refused, its torrent stays in the session.
AddTaskEnds(c) ==
  LET t == thread[c].id  h == req[t].infohash IN
  /\ thread[c].at = "adding"
  /\ IF infohash_map[h] = None
       THEN AddTaskToMap(t, h) /\ thread' = [thread EXCEPT ![c] = Idle]
       ELSE /\ thread' = [thread EXCEPT ![c].at = "refused"]
            /\ UNCHANGED <<maps, registered>>
  /\ UNCHANGED <<phase, nextId, list, object, disk>>

\* The destructor of a refused object.
DropRefused(c) ==
  /\ thread[c].at = "refused"
  /\ thread' = [thread EXCEPT ![c] = Idle]
  /\ UNCHANGED <<maps, list>>
  /\ DestroyUnreferenced(control)
  /\ UNCHANGED <<phase, nextId, req, handle, finished_file, registered>>

-----------------------------------------------------------------------------
\* ControlTaskByInfohash reads the map without the lock.
ControlTaskByInfohash(c, t) ==
  /\ c \in Client /\ Ready(c) /\ t \in Mapped
  /\ thread' = [thread EXCEPT ![c] = [at |-> "control", id |-> None, todo |-> {t}, ret |-> "control"]]
  /\ UNCHANGED <<phase, nextId, maps, list, object, disk, registered>>

\* ControlAllTasks copies the tasks under the lock.
ControlAllTasks(c) ==
  /\ c \in Client /\ Ready(c) /\ LockFree /\ Mapped # {}
  /\ thread' = [thread EXCEPT ![c] = [at |-> "control", id |-> None, todo |-> Mapped, ret |-> "control"]]
  /\ UNCHANGED <<phase, nextId, maps, list, object, disk, registered>>

\* Thread w is through with t, its current task or one of todo.
Through(w, t) ==
  LET s == thread[w]  rest == s.todo \ {t} IN
  thread' = [thread EXCEPT ![w] =
    IF rest = {} /\ s.ret # "hang" THEN Idle
    ELSE [at |-> s.ret, id |-> None, todo |-> rest, ret |-> s.ret]]

\* RemoveTorrent, when it finds the handle valid.
EnterRemove(w, t) ==
  /\ IsValid(t)
  /\ thread' = [thread EXCEPT ![w].at = "remove", ![w].id = t, ![w].todo = @ \ {t}]

\* ControlTask(CANCEL).
Cancel(c, t) ==
  LET status == [control EXCEPT ![t] = "over"] IN
  /\ thread[c].at = "control" /\ t \in thread[c].todo
  /\ UNCHANGED <<maps, list>>
  /\ EnterRemove(c, t) \/ (~IsValid(t) /\ Through(c, t))
  /\ DestroyUnreferenced(status)
  /\ UNCHANGED <<phase, nextId, req, handle, finished_file, registered>>

\* ControlTask(PAUSE) and ControlTask(RESUME) overwrite control_status_.
PauseOrResume(c, t) ==
  /\ thread[c].at = "control" /\ t \in thread[c].todo
  /\ UNCHANGED <<maps, list>>
  /\ Through(c, t)
  /\ DestroyUnreferenced([control EXCEPT ![t] = "live"])
  /\ UNCHANGED <<phase, nextId, req, handle, finished_file, registered>>

\* SetTaskOptions looks the task up with operator[].
SetTaskOptions(h) ==
  /\ phase = "up" /\ LockFree
  /\ infohash_map[h] = None
  /\ infohash_map' = [infohash_map EXCEPT ![h] = Null]
  /\ UNCHANGED <<phase, nextId, torrent_map, list, object, thread, disk, registered>>

-----------------------------------------------------------------------------
(***************************************************************************)
(* GroupTask::RemoveTorrent and GroupManager::RemoveTorrentTmp, after the  *)
(* test of the handle.  session::remove_torrent takes the infohash out of  *)
(* the session; with an expired handle it throws, which ends a client's    *)
(* call, and the io thread: Run returns, and Join waits for the cluster    *)
(* thread, which nobody stops.                                             *)
(***************************************************************************)
OutOfSession(H) ==
  handle' = [u \in Ids |-> IF handle[u] = "session" /\ req[u].infohash \in H
                            THEN "removed" ELSE handle[u]]

RemoveTorrent(w) ==
  LET t == thread[w].id IN
  /\ thread[w].at = "remove" /\ IsValid(t)
  /\ OutOfSession({req[t].infohash})
  /\ thread' = [thread EXCEPT ![w].at = "unmap"]
  /\ UNCHANGED <<phase, nextId, req, maps, list, control, end_time, alert, timers, disk, registered>>

RemoveTorrentThrows(w) ==
  /\ thread[w].at = "remove" /\ ~IsValid(thread[w].id)
  /\ thread' = [thread EXCEPT ![w] =
       IF w = Io THEN [at |-> "dead", id |-> None, todo |-> {}, ret |-> "dead"] ELSE Idle]
  /\ UNCHANGED <<maps, list>>
  /\ DestroyUnreferenced(control)
  /\ UNCHANGED <<phase, nextId, req, handle, finished_file, registered>>

\* Mutant: the task leaves the map before it enters the list.
UnmapGap(w) ==
  LET t == thread[w].id  h == req[t].infohash IN
  /\ thread[w].at = "unmap" /\ LockFree
  /\ infohash_map[h] \in Ids
  /\ finished' = finished
  /\ list_changed' = TRUE
  /\ infohash_map' = [infohash_map EXCEPT ![h] = None]
  /\ torrent_map' = torrent_map \ {t}
  /\ thread' = [thread EXCEPT ![w].at = "settle"]
  /\ UNCHANGED <<phase, nextId, loaded, object, disk, registered>>

\* Mutant: the list changes and the flag is not raised.
UnmapSilently(w) ==
  LET t == thread[w].id  h == req[t].infohash IN
  /\ thread[w].at = "unmap" /\ LockFree
  /\ infohash_map[h] \in Ids
  /\ finished' = finished \cup {infohash_map[h]}
  /\ infohash_map' = [infohash_map EXCEPT ![h] = None]
  /\ torrent_map' = torrent_map \ {t}
  /\ thread' = [thread EXCEPT ![w].at = "settle"]
  /\ UNCHANGED <<phase, nextId, loaded, list_changed, object, disk, registered>>

\* From the maps to the finished list, in one critical section: whatever task
\* the infohash has by now.
Unmap(w) ==
  LET t == thread[w].id  h == req[t].infohash IN
  /\ thread[w].at = "unmap" /\ LockFree
  /\ infohash_map[h] \in Ids
  /\ finished' = finished \cup {infohash_map[h]}
  /\ list_changed' = TRUE
  /\ infohash_map' = [infohash_map EXCEPT ![h] = None]
  /\ torrent_map' = torrent_map \ {t}
  /\ thread' = [thread EXCEPT ![w].at = "settle"]
  /\ UNCHANGED <<phase, nextId, loaded, object, disk, registered>>

\* The entry holds a null pointer.
UnmapNull(w) ==
  /\ thread[w].at = "unmap" /\ LockFree
  /\ infohash_map[req[thread[w].id].infohash] = Null
  /\ thread' = [thread EXCEPT ![w].at = "settle"]
  /\ UNCHANGED <<phase, nextId, maps, list, object, disk, registered>>

\* find has returned end(), which is dereferenced before it is tested: the
\* process is taken to die.
UnmapNothing(w) ==
  /\ thread[w].at = "unmap" /\ LockFree
  /\ infohash_map[req[thread[w].id].infohash] = None
  /\ phase' = "down"
  /\ NewProcess
  /\ UNCHANGED disk

\* Back in RemoveTorrent: end_time and control_status_.
Settle(w) ==
  /\ thread[w].at = "settle"
  /\ end_time' = end_time \cup {thread[w].id}
  /\ control' = [control EXCEPT ![thread[w].id] = "over"]
  /\ thread' = [thread EXCEPT ![w].at = "persist"]
  /\ UNCHANGED <<phase, nextId, req, maps, list, handle, alert, timers, disk, registered>>

\* Persist; if the object dies right after, its destructor does the same.
Persist(w) ==
  LET t == thread[w].id IN
  /\ thread[w].at = "persist"
  /\ UNCHANGED <<maps, list>>
  /\ Through(w, t)
  /\ ForgetObjects(Dying, control)
  /\ resume' = [resume EXCEPT ![req[t].infohash] = Persisted(t, control)]
  /\ UNCHANGED <<phase, nextId, req, handle, finished_file, registered>>

\* The last reference inside libtorrent goes.
HandleExpires(t) ==
  /\ handle[t] = "removed" /\ Referenced(t)
  /\ handle' = [handle EXCEPT ![t] = "expired"]
  /\ UNCHANGED <<phase, nextId, req, maps, list, control, end_time, alert, timers, thread,
                 disk, registered>>

-----------------------------------------------------------------------------
\* libtorrent posts torrent_finished_alert once for a torrent.
TorrentFinished(t) ==
  /\ handle[t] = "session" /\ alert[t] = "none"
  /\ alert' = [alert EXCEPT ![t] = "posted"]
  /\ UNCHANGED <<phase, nextId, req, maps, list, handle, control, end_time, timers, thread,
                 disk, registered>>

\* Mutant: the task of the alert is looked up without the lock.
OnTorrentFinishedUnlocked(t) ==
  /\ Ready(Io) /\ alert[t] = "posted"
  /\ alert' = [alert EXCEPT ![t] = IF t \in torrent_map THEN "done" ELSE "lost"]
  /\ \/ UNCHANGED timers
     \/ /\ t \in torrent_map /\ req[t].seeding_time = "finite"
        /\ timers' = [timers EXCEPT ![t] = @ + 1]
  /\ UNCHANGED <<phase, nextId, req, maps, list, handle, control, end_time, thread, disk,
                 registered>>

(***************************************************************************)
(* GetTaskByTorrentHanlde and GroupTask::OnTorrentFinished.  "lost" is an  *)
(* alert that found no task; "done" one that had its effect, which is      *)
(* ToSeeding unless the files of the task could not be corrected.          *)
(***************************************************************************)
OnTorrentFinished(t) ==
  /\ Ready(Io) /\ LockFree /\ alert[t] = "posted"
  /\ alert' = [alert EXCEPT ![t] = IF t \in torrent_map THEN "done" ELSE "lost"]
  /\ \/ UNCHANGED timers
     \/ /\ t \in torrent_map /\ req[t].seeding_time = "finite"
        /\ timers' = [timers EXCEPT ![t] = @ + 1]
  /\ UNCHANGED <<phase, nextId, req, maps, list, handle, control, end_time, thread, disk,
                 registered>>

\* SeedingTimerCallback and TimeoutTimerCallback.
TimerOfTask(t) ==
  /\ Ready(Io) /\ Referenced(t) /\ timers[t] > 0
  /\ timers' = [timers EXCEPT ![t] = @ - 1]
  /\ EnterRemove(Io, t) \/ (~IsValid(t) /\ UNCHANGED thread)
  /\ UNCHANGED <<phase, nextId, req, maps, list, handle, control, end_time, alert, disk,
                 registered>>

\* OnStateChanged, when the cluster download cannot be started.
StartDownloadFails(t) ==
  /\ Ready(Io) /\ LockFree /\ t \in torrent_map
  /\ EnterRemove(Io, t)
  /\ UNCHANGED <<phase, nextId, maps, list, object, disk, registered>>

-----------------------------------------------------------------------------
(***************************************************************************)
(* GroupManager::TimerCallback: a copy of the tasks, a hang check of each  *)
(* of them, then the finished list and its file.                           *)
(***************************************************************************)
TimerCallback ==
  /\ Ready(Io) /\ LockFree
  /\ thread' = [thread EXCEPT ![Io] =
       [at |-> "hang", id |-> None, todo |-> Mapped, ret |-> "hang"]]
  /\ UNCHANGED <<phase, nextId, maps, list, object, disk, registered>>

\* The task hangs or takes too much memory and is removed, or is left alone.
HangCheckCallback(t) ==
  /\ thread[Io].at = "hang" /\ t \in thread[Io].todo
  /\ UNCHANGED <<maps, list>>
  /\ EnterRemove(Io, t) \/ Through(Io, t)
  /\ DestroyUnreferenced(control)
  /\ UNCHANGED <<phase, nextId, req, handle, finished_file, registered>>

\* finished_timeout has passed for the entries erased, as it has since 1970 for
\* a task whose end_time is not set yet.
ExpireFinished ==
  /\ thread[Io].at = "hang" /\ thread[Io].todo = {} /\ LockFree
  /\ \E old \in SUBSET finished, oldLoaded \in SUBSET loaded :
       /\ finished \ end_time \subseteq old
       /\ finished' = finished \ old
       /\ loaded' = loaded \ oldLoaded
       /\ registered' = registered \ old
       /\ list_changed' = (list_changed \/ old # {} \/ oldLoaded # {})
  /\ thread' = [thread EXCEPT ![Io] = [at |-> "generate", id |-> None, todo |-> {}, ret |-> "idle"]]
  /\ UNCHANGED maps
  /\ DestroyUnreferenced(control)
  /\ UNCHANGED <<phase, nextId, req, handle, finished_file>>

\* GenerateFinishedListResumeFile tests and clears the flag, and only then
\* reads the list under the lock.
GenerateFinishedListResumeFile ==
  /\ thread[Io].at = "generate"
  /\ list_changed' = FALSE
  /\ thread' = [thread EXCEPT ![Io].at = IF list_changed THEN "collect" ELSE thread[Io].ret]
  /\ UNCHANGED <<phase, nextId, maps, finished, loaded, object, disk, registered>>

CollectFinished ==
  /\ thread[Io].at = "collect" /\ LockFree
  /\ finished_file' = {req[t].infohash : t \in finished} \cup loaded
  /\ thread' = [thread EXCEPT ![Io].at = thread[Io].ret]
  /\ UNCHANGED <<phase, nextId, maps, list, object, resume, registered>>

-----------------------------------------------------------------------------
(***************************************************************************)
(* Shutdown on the io thread (the group's timeout, a bad configuration, a  *)
(* signal): the torrents leave the session, the finished list is saved,    *)
(* the maps are cleared, the list first.                                   *)
(***************************************************************************)
Shutdown ==
  /\ Ready(Io) /\ LockFree
  /\ IF \A t \in torrent_map : IsValid(t)
       THEN /\ OutOfSession({req[t].infohash : t \in torrent_map})
            /\ thread' = [thread EXCEPT ![Io].at = "generate", ![Io].ret = "clear"]
       ELSE \E T \in SUBSET {t \in torrent_map : IsValid(t)} :
            /\ OutOfSession({req[t].infohash : t \in T})
            /\ thread' = [thread EXCEPT ![Io].at = "dead", ![Io].ret = "dead"]
  /\ UNCHANGED <<phase, nextId, req, maps, list, control, end_time, alert, timers, disk, registered>>

ClearMaps ==
  /\ thread[Io].at = "clear" /\ LockFree
  /\ phase' = "quit"
  /\ finished' = {} /\ loaded' = {}
  /\ infohash_map' = [h \in Infohash |-> None] /\ torrent_map' = {}
  /\ thread' = [thread EXCEPT ![Io] = Idle]
  /\ DestroyUnreferenced(control)
  /\ UNCHANGED <<nextId, req, list_changed, handle, finished_file, registered>>

\* The calls in progress have ended; tasks added meanwhile die with the process.
Exit ==
  /\ phase = "quit" /\ \A w \in Thread : thread[w] = Idle
  /\ phase' = "down"
  /\ resume' = [h \in Infohash |->
       IF infohash_map[h] \in Ids THEN req[infohash_map[h]] ELSE resume[h]]
  /\ NewProcess
  /\ UNCHANGED <<finished_file>>

Kill ==
  /\ phase # "down"
  /\ phase' = "down"
  /\ NewProcess
  /\ UNCHANGED disk

(***************************************************************************)
(* Run: the thrift server is up before AddResumeTask reads the resume      *)
(* files and LoadFromFinishedResume the finished list.                     *)
(***************************************************************************)
Restart ==
  /\ phase = "down"
  /\ phase' = "up"
  /\ thread' = [thread EXCEPT ![Io] =
       [at |-> "load", id |-> None, todo |-> {h \in Infohash : resume[h] # None}, ret |-> "idle"]]
  /\ UNCHANGED <<nextId, maps, list, object, disk, registered>>

\* One file.  A task that a client has added meanwhile keeps the infohash: the
\* file is unlinked, and written again by the destructor of the refused object.
AddResumeTask(h) ==
  LET t == nextId  r == resume[h] IN
  /\ thread[Io].at = "load" /\ h \in thread[Io].todo /\ LockFree
  /\ thread' = [thread EXCEPT ![Io].todo = @ \ {h}]
  /\ IF r = None \/ InSession(h) \/ t > MaxId
       THEN UNCHANGED <<nextId, maps, req, handle, timers, resume, registered>>
       ELSE /\ Create(t, r)
            /\ IF infohash_map[h] = None THEN AddTaskToMap(t, h)
                                         ELSE UNCHANGED <<maps, registered>>
  /\ UNCHANGED <<phase, list, control, end_time, alert, finished_file>>

LoadFromFinishedResume ==
  /\ thread[Io].at = "load" /\ thread[Io].todo = {} /\ LockFree
  /\ loaded' = IF finished_file = {} THEN loaded ELSE finished_file
  /\ finished' = IF finished_file = {} THEN finished ELSE {}
  /\ registered' = registered \ (finished \ finished')
  /\ thread' = [thread EXCEPT ![Io] = Idle]
  /\ UNCHANGED maps
  /\ DestroyUnreferenced(control)
  /\ UNCHANGED <<phase, nextId, req, list_changed, handle, finished_file>>

-----------------------------------------------------------------------------
\* What a thread does once it has started a call or a callback.
Continue(w) ==
  \/ AddTaskEnds(w) \/ DropRefused(w)
  \/ \E t \in Ids : Cancel(w, t) \/ PauseOrResume(w, t)
  \/ RemoveTorrent(w) \/ RemoveTorrentThrows(w)
  \/ Unmap(w) \/ UnmapNull(w) \/ UnmapNothing(w) \/ Settle(w) \/ Persist(w)

IoContinue ==
  \/ Continue(Io)
  \/ \E t \in Ids : HangCheckCallback(t)
  \/ ExpireFinished \/ GenerateFinishedListResumeFile \/ CollectFinished \/ ClearMaps
  \/ \E h \in Infohash : AddResumeTask(h)
  \/ LoadFromFinishedResume

Call(c) ==
  \/ \E r \in Request : AddTask(c, r) \/ AddTaskFails(c, r)
  \/ \E t \in Ids : ControlTaskByInfohash(c, t)
  \/ ControlAllTasks(c)

Next ==
  \/ \E c \in Client : Call(c) \/ Continue(c)
  \/ IoContinue \/ TimerCallback \/ Shutdown
  \/ \E t \in Ids : \/ OnTorrentFinished(t) \/ TimerOfTask(t) \/ StartDownloadFails(t)
                    \/ TorrentFinished(t) \/ HandleExpires(t)
  \/ \E h \in Infohash : SetTaskOptions(h)
  \/ Exit \/ Kill \/ Restart

Spec == Init /\ [][Next]_vars

-----------------------------------------------------------------------------
TypeOK ==
  /\ phase \in {"up", "quit", "down"}
  /\ nextId \in 1 .. MaxId + 1
  /\ req \in [Ids -> Request \cup {None}]
  /\ infohash_map \in [Infohash -> Ids \cup {Null, None}]
  /\ torrent_map \subseteq Ids /\ finished \subseteq Ids /\ loaded \subseteq Infohash
  /\ list_changed \in BOOLEAN
  /\ handle \in [Ids -> {"none", "session", "removed", "expired"}]
  /\ control \in [Ids -> {"live", "over"}]
  /\ end_time \subseteq Ids
  /\ alert \in [Ids -> {"none", "posted", "done", "lost"}]
  /\ timers \in [Ids -> 0 .. 2]
  /\ thread \in [Thread ->
       [at : {"idle", "adding", "refused", "control", "remove", "unmap", "settle", "persist",
              "hang", "generate", "collect", "clear", "load", "dead"},
        id : Ids \cup {None}, todo : (SUBSET Ids) \cup (SUBSET Infohash),
        ret : {"idle", "control", "hang", "clear", "dead"}]]
  /\ resume \in [Infohash -> Request \cup {None}] /\ finished_file \subseteq Infohash
  /\ registered \subseteq Ids

(***************************************************************************)
(* A task that a client was told of can always be asked for: it is in the  *)
(* task map or in the finished list, also while threads end it, add        *)
(* another task of its infohash and end that one by mistake; only the      *)
(* timeout of the list and the load at start let go of it.                 *)
(***************************************************************************)
RegisteredVisible ==
  phase = "up" =>
    \A t \in registered :
      t \in finished \/ infohash_map[req[t].infohash] = t

(***************************************************************************)
(* What AddTask says of its lock: no alert is processed between add_torrent *)
(* and AddTaskToMap, so that the finished alert of a task that enters the  *)
(* maps is never consumed without effect.                                  *)
(***************************************************************************)
FinishedAlertNotLost == \A t \in torrent_map : alert[t] # "lost"

(***************************************************************************)
(* No change of the finished list is forgotten: unless the flag says that  *)
(* the file is to be written again, finished.resume has what the list has, *)
(* although the flag and the list are changed by different threads.        *)
(***************************************************************************)
FinishedListSaved ==
  phase = "up" /\ ~list_changed /\ thread[Io].at # "collect" =>
    finished_file = {req[t].infohash : t \in finished} \cup loaded
=============================================================================
