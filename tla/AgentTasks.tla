----------------------------- MODULE AgentTasks -----------------------------
(***************************************************************************)
(* The task manager of bbts-agent (gko-src/src/TaskManager.cpp, Task.cpp): *)
(* the daemon that keeps seeding tasks running on one host.  Worker        *)
(* threads of one boost::io_service handle client messages, libtorrent     *)
(* alerts and timers; tasks_lock_ protects the task maps; every task has a *)
(* torrent in the libtorrent session, a row in the sqlite table `task` and *)
(* a file <id>.resume from which a restarted agent brings it back.         *)
(*                                                                         *)
(* A task object is a shared_ptr: it dies, and its destructor runs, when   *)
(* it is in no map and no thread holds it.  A task is named by its id, the *)
(* AUTOINCREMENT key of its row, so ids are never reused.                  *)
(***************************************************************************)
EXTENDS Integers, FiniteSets

CONSTANTS
  Worker,     \* the threads of worker_pool_
  Main,       \* the main thread, where a signal calls TaskManager::Stop
  Infohash,   \* infohashes clients seed
  Path,       \* data paths (save_path + '/' + new_name)
  Request,    \* the AddTask messages clients may send
  Ctrl,       \* the BatchCtrl types clients may send
  MaxId,      \* bound: ids handed out
  MaxCrash,   \* bound: crashes of the process
  MaxFault,   \* bound: tasks that suffer a failed SQL update or file write
  None        \* a null reference

Ids == 1 .. MaxId
Thread == Worker \cup {Main}

(***************************************************************************)
(* seeding_time is "infinite" for -1 and "finite" otherwise.               *)
(***************************************************************************)
Requests == [infohash : Infohash, data_path : Path,
             type : {"SEEDING_TASK", "NOCHECK_TASK"},
             seeding_time : {"finite", "infinite"}]

ASSUME RequestAssumption == Request \subseteq Requests
ASSUME ThreadAssumption  == Main \notin Worker
ASSUME NoneAssumption    == None \notin Ids /\ None \notin Request
ASSUME BoundAssumption   == MaxId \in Nat /\ MaxCrash \in Nat /\ MaxFault \in Nat

VARIABLES
  phase,         \* how far Stop has come, see Phase
  nextId,        \* next AUTOINCREMENT id
  info,          \* the request task id was created for
  tasks_map,     \* ids in tasks_map_; torrent_map_ has the same tasks
  infohash_map,  \* infohash_map_
  data_path_map, \* data_path_map_
  session,       \* ids whose torrent is in the libtorrent session
  paused,        \* ids whose torrent is paused
  flags,         \* flags_ of the object, and ERROR when error_ is set
  seed,          \* what became of the torrent_finished alert
  thread,        \* what each thread is doing and the shared_ptr it holds
  row,           \* the row of the task in task.db
  resume,        \* the file <id>.resume
  acked,         \* history: ids a client was told
  fate,          \* history: why a task ended, "none" while it should run
  faults,        \* history: tasks that met a failed SQL update or file write
  crashes        \* history: number of crashes

maps    == <<tasks_map, infohash_map, data_path_map>>
object  == <<paused, flags, seed>>
disk    == <<row, resume>>
history == <<acked, fate, faults, crashes>>
vars    == <<phase, nextId, info, maps, session, object, thread, disk, history>>

(***************************************************************************)
(* "stopping": the control server is stopped and delivers no reply;        *)
(* "persisted": PersistTasks is done; "joining": the pool is stopped and   *)
(* starts no handler; "down": there is no process.                         *)
(***************************************************************************)
Phase == {"up", "stopping", "persisted", "joining", "down"}

Fates  == {"none", "canceled", "displaced", "expired", "failed",
           "refused", "superseded", "torn"}
Status == {"DOWNLOAD", "SEEDING", "FINISHED", "CANCELED", "PAUSED", "ERROR"}
NoRow  == [status |-> "none", ended |-> FALSE]
Idle   == [at |-> "idle", id |-> None, req |-> None]
At     == {"idle", "create", "rowed", "added", "quit", "setopt", "dtor",
           "dtor_locked", "persist", "persisting", "persist_dtor",
           "persist_last", "stopped"}

(***************************************************************************)
(* tasks_lock_.  A thread holds it from GenTaskId to ADD_TASK_TO_MAP, in a *)
(* destructor that runs inside a handler's critical section, and in the    *)
(* loop of PersistTasks.                                                   *)
(***************************************************************************)
LockHeldAt == {"rowed", "added", "dtor_locked", "persisting", "persist_dtor"}
LockFree == \A w \in Thread : thread[w].at \notin LockHeldAt

Ready(w) == w \in Worker /\ thread[w] = Idle /\ phase \notin {"joining", "down"}

\* Mutant: the thread counts its own reference.
HeldByAny(w, t) ==
  \E v \in Thread : thread[v].id = t /\ thread[v].at \in {"quit", "setopt"}

\* Some other thread holds a shared_ptr to t.
HeldElsewhere(w, t) ==
  \E v \in Thread \ {w} : thread[v].id = t /\ thread[v].at \in {"quit", "setopt"}

\* Objects whose destructor has not finished.
Live == tasks_map \cup ({thread[w].id : w \in Thread} \ {None})

-----------------------------------------------------------------------------
(***************************************************************************)
(* The macros ADD_TASK_TO_MAP and ERASE_TASK_FROM_MAP: erasing is by key,  *)
(* whichever task the entry belongs to.                                    *)
(***************************************************************************)
ADD_TASK_TO_MAP(t) ==
  /\ tasks_map' = tasks_map \cup {t}
  /\ infohash_map' = [infohash_map EXCEPT ![info[t].infohash] = t]
  /\ data_path_map' = [data_path_map EXCEPT ![info[t].data_path] = t]

ERASE_TASK_FROM_MAP(t) ==
  /\ tasks_map' = tasks_map \ {t}
  /\ infohash_map' = [infohash_map EXCEPT ![info[t].infohash] = None]
  /\ data_path_map' = [data_path_map EXCEPT ![info[t].data_path] = None]

(***************************************************************************)
(* Task::GetStatusCode.  seed[t] = "none" is a torrent that has not        *)
(* finished; its libtorrent sub-states are all reported as DOWNLOAD here.  *)
(***************************************************************************)
GetStatusCode(t, is_finish) ==
  IF "ERROR" \in flags'[t] THEN "ERROR"
  ELSE IF "CANCELED" \in flags'[t] THEN "CANCELED"
  ELSE IF t \in paused THEN "PAUSED"
  ELSE IF seed[t] = "none" THEN "DOWNLOAD"
  ELSE IF is_finish THEN "FINISHED" ELSE "SEEDING"

(***************************************************************************)
(* Task::UpdateStatus.  A failed statement is logged and never retried; a  *)
(* row the cleaner has deleted is not brought back by an UPDATE.           *)
(***************************************************************************)
UpdateStatus(t, is_finish) ==
  \/ /\ row' = IF row[t] = NoRow THEN row ELSE
         [row EXCEPT ![t] = [status |-> GetStatusCode(t, is_finish),
                             ended |-> is_finish \/ row[t].ended]]
     /\ UNCHANGED faults
  \/ /\ Cardinality(faults \cup {t}) <= MaxFault
     /\ faults' = faults \cup {t}
     /\ UNCHANGED row

(***************************************************************************)
(* Task::~Task in two steps, so that a crash can fall between them: first  *)
(* UpdateStatus(true) and, for a task to persist, opening (truncating) its *)
(* resume file; then the file is complete, or deleted, and the torrent     *)
(* leaves the session.                                                     *)
(***************************************************************************)
\* Mutant: the destructor reports the status of a task that goes on.
BeginDtorUnfinished(t) ==
  /\ UpdateStatus(t, FALSE)
  /\ resume' = IF "PERSIST" \in flags'[t] THEN [resume EXCEPT ![t] = "torn"] ELSE resume

BeginDtor(t) ==
  /\ UpdateStatus(t, TRUE)
  /\ resume' = IF "PERSIST" \in flags'[t] THEN [resume EXCEPT ![t] = "torn"] ELSE resume

ObjectGone(t) ==
  /\ session' = session \ {t}
  /\ paused' = paused \ {t}
  /\ flags' = [flags EXCEPT ![t] = {}]
  /\ seed' = [seed EXCEPT ![t] = "none"]

\* Mutant: every task that dies leaves its resume file.
EndDtorKeepsFile(t) ==
  /\ resume' = [resume EXCEPT ![t] = "ok"]
  /\ ObjectGone(t)
  /\ UNCHANGED <<phase, nextId, info, maps, row, history>>

EndDtor(t) ==
  /\ resume' = [resume EXCEPT ![t] = IF "PERSIST" \in flags[t] THEN "ok" ELSE "none"]
  /\ ObjectGone(t)
  /\ UNCHANGED <<phase, nextId, info, maps, row, history>>

(***************************************************************************)
(* Thread w, in the state `at`, lets go of a reference to t that is out of *)
(* the maps: the destructor begins if that was the last one; otherwise the *)
(* thread goes on to `after`.                                              *)
(***************************************************************************)
Release(w, t, at, after) ==
  IF HeldElsewhere(w, t)
    THEN thread' = [thread EXCEPT ![w] = after] /\ UNCHANGED <<disk, faults>>
    ELSE thread' = [thread EXCEPT ![w] = [at |-> at, id |-> t, req |-> after.req]] /\ BeginDtor(t)

\* A handler that holds tasks_lock_ drops task t for the reason f.
Drop(w, t, f) ==
  /\ ERASE_TASK_FROM_MAP(t)
  /\ fate' = [fate EXCEPT ![t] = f]
  /\ Release(w, t, "dtor_locked", Idle)
  /\ UNCHANGED <<phase, nextId, info, session, paused, seed, acked, crashes>>

-----------------------------------------------------------------------------
Init ==
  /\ phase = "up" /\ nextId = 1
  /\ info = [t \in Ids |-> None]
  /\ tasks_map = {} /\ session = {} /\ paused = {}
  /\ infohash_map = [h \in Infohash |-> None]
  /\ data_path_map = [p \in Path |-> None]
  /\ flags = [t \in Ids |-> {}]
  /\ seed = [t \in Ids |-> "none"]
  /\ thread = [w \in Thread |-> Idle]
  /\ row = [t \in Ids |-> NoRow]
  /\ resume = [t \in Ids |-> "none"]
  /\ acked = {} /\ faults = {} /\ crashes = 0
  /\ fate = [t \in Ids |-> "none"]

-----------------------------------------------------------------------------
(***************************************************************************)
(* AddTask, first critical section: look for a task with the same infohash *)
(* or, only if there is none, with the same data path.  The weak pointers  *)
(* of the indexes never dangle (IndexesExact).                             *)
(***************************************************************************)
Duplicate(r) == IF infohash_map[r.infohash] # None
                  THEN infohash_map[r.infohash]
                  ELSE data_path_map[r.data_path]

\* The older task d makes way for request r; otherwise r is refused with
\* DUP_TASK_ERROR and nothing changes.
Yields(d, r) == info[d].type = "NOCHECK_TASK" \/ r.type = "SEEDING_TASK"

AddTask(w, r) ==
  /\ Ready(w) /\ LockFree /\ nextId <= MaxId
  /\ Duplicate(r) = None
  /\ thread' = [thread EXCEPT ![w] = [at |-> "create", id |-> None, req |-> r]]
  /\ UNCHANGED <<phase, nextId, info, maps, session, object, disk, history>>

\* Mutant: the displaced task is not marked as canceled.
AddTaskDisplacingSilently(w, r) ==
  LET d == Duplicate(r) IN
  /\ Ready(w) /\ LockFree /\ nextId <= MaxId
  /\ d # None /\ Yields(d, r)
  /\ ERASE_TASK_FROM_MAP(d)
  /\ session' = session \ {d}
  /\ flags' = flags
  /\ fate' = [fate EXCEPT ![d] = "displaced"]
  /\ thread' = [thread EXCEPT ![w] = [at |-> "quit", id |-> d, req |-> r]]
  /\ UNCHANGED <<phase, nextId, info, paused, seed, disk, acked, faults, crashes>>

\* dup_task is erased, its torrent removed and its flag set under the lock; the
\* thread keeps the reference until the lock is released.
AddTaskDisplacing(w, r) ==
  LET d == Duplicate(r) IN
  /\ Ready(w) /\ LockFree /\ nextId <= MaxId
  /\ d # None /\ Yields(d, r)
  /\ ERASE_TASK_FROM_MAP(d)
  /\ session' = session \ {d}
  /\ flags' = [flags EXCEPT ![d] = @ \cup {"CANCELED"}]
  /\ fate' = [fate EXCEPT ![d] = "displaced"]
  /\ thread' = [thread EXCEPT ![w] = [at |-> "quit", id |-> d, req |-> r]]
  /\ UNCHANGED <<phase, nextId, info, paused, seed, disk, acked, faults, crashes>>

\* dup_task leaves its scope, with no lock held.
ReleaseDup(w) ==
  /\ thread[w].at = "quit"
  /\ flags' = flags
  /\ Release(w, thread[w].id, "dtor",
             [at |-> "create", id |-> None, req |-> thread[w].req])
  /\ UNCHANGED <<phase, nextId, info, maps, session, paused, seed, acked, fate, crashes>>

(***************************************************************************)
(* AddTask, second critical section: Task::Create, then ADD_TASK_TO_MAP.   *)
(***************************************************************************)
GenTaskId(w) ==
  /\ thread[w].at = "create" /\ LockFree /\ nextId <= MaxId
  /\ nextId' = nextId + 1
  /\ info' = [info EXCEPT ![nextId] = thread[w].req]
  /\ row' = [row EXCEPT ![nextId] = [status |-> "DOWNLOAD", ended |-> FALSE]]
  /\ thread' = [thread EXCEPT ![w] = [at |-> "rowed", id |-> nextId, req |-> None]]
  /\ UNCHANGED <<phase, maps, session, object, resume, history>>

\* Three failed attempts at the row (or, here, the bound on ids).
GenTaskIdFails(w) ==
  /\ thread[w].at = "create" /\ LockFree
  /\ thread' = [thread EXCEPT ![w] = Idle]
  /\ UNCHANGED <<phase, nextId, info, maps, session, object, disk, history>>

\* libtorrent refuses a second torrent of one infohash: the row stays as it is.
AddTorrentFails(w) ==
  LET t == thread[w].id IN
  /\ thread[w].at = "rowed"
  /\ \E u \in session : info[u].infohash = info[t].infohash
  /\ fate' = [fate EXCEPT ![t] = "refused"]
  /\ thread' = [thread EXCEPT ![w] = Idle]
  /\ UNCHANGED <<phase, nextId, info, maps, session, object, disk, acked, faults, crashes>>

\* Mutant: without flag_duplicate_is_error.
AddTorrentTwice(w) ==
  LET t == thread[w].id IN
  /\ thread[w].at = "rowed"
  /\ session' = session \cup {t}
  /\ resume' = [resume EXCEPT ![t] = "torn"]
  /\ thread' = [thread EXCEPT ![w].at = "added"]
  /\ UNCHANGED <<phase, nextId, info, maps, object, row, history>>

\* add_torrent, and GenerateResumeFile starts to write.
AddTorrent(w) ==
  LET t == thread[w].id IN
  /\ thread[w].at = "rowed"
  /\ \A u \in session : info[u].infohash # info[t].infohash
  /\ session' = session \cup {t}
  /\ resume' = [resume EXCEPT ![t] = "torn"]
  /\ thread' = [thread EXCEPT ![w].at = "added"]
  /\ UNCHANGED <<phase, nextId, info, maps, object, row, history>>

(***************************************************************************)
(* The resume file is written (or could not be opened, which does not stop *)
(* the task), the task enters the maps, and the client is told its id if   *)
(* the control server still delivers replies.                              *)
(***************************************************************************)
FinishCreate(w) ==
  LET t == thread[w].id IN
  /\ thread[w].at = "added"
  /\ \/ resume' = [resume EXCEPT ![t] = "ok"] /\ UNCHANGED faults
     \/ /\ Cardinality(faults \cup {t}) <= MaxFault
        /\ resume' = [resume EXCEPT ![t] = "none"]
        /\ faults' = faults \cup {t}
  /\ ADD_TASK_TO_MAP(t)
  /\ acked' = IF phase = "up" THEN acked \cup {t} ELSE acked
  /\ thread' = [thread EXCEPT ![w] = Idle]
  /\ UNCHANGED <<phase, nextId, info, session, object, row, fate, crashes>>

-----------------------------------------------------------------------------
(***************************************************************************)
(* CtrlTask on one task, by a caller CheckCred accepts; a command for an   *)
(* unknown task or by a stranger changes nothing.                          *)
(***************************************************************************)
Cancel(w, t) ==
  /\ "CANCEL" \in Ctrl /\ Ready(w) /\ LockFree /\ t \in tasks_map
  /\ flags' = [flags EXCEPT ![t] = @ \cup {"CANCELED"}]
  /\ Drop(w, t, "canceled")

Pause(w, t) ==
  /\ "PAUSE" \in Ctrl /\ Ready(w) /\ LockFree /\ t \in tasks_map
  /\ paused' = paused \cup {t}
  /\ UNCHANGED <<phase, nextId, info, maps, session, flags, seed, thread, disk, history>>

Resume(w, t) ==
  /\ "RESUME" \in Ctrl /\ Ready(w) /\ LockFree /\ t \in tasks_map
  /\ paused' = paused \ {t}
  /\ UNCHANGED <<phase, nextId, info, maps, session, flags, seed, thread, disk, history>>

(***************************************************************************)
(* TaskSetopt and TaskGetopt: the shared_ptr is copied under the lock and  *)
(* used after it is released.                                              *)
(***************************************************************************)
TaskSetopt(w, t) ==
  /\ Ready(w) /\ LockFree /\ t \in tasks_map
  /\ thread' = [thread EXCEPT ![w] = [at |-> "setopt", id |-> t, req |-> None]]
  /\ UNCHANGED <<phase, nextId, info, maps, session, object, disk, history>>

TaskSetoptEnds(w) ==
  LET t == thread[w].id IN
  /\ thread[w].at = "setopt"
  /\ flags' = flags
  /\ IF t \in tasks_map
       THEN thread' = [thread EXCEPT ![w] = Idle] /\ UNCHANGED <<disk, faults>>
       ELSE Release(w, t, "dtor", Idle)
  /\ UNCHANGED <<phase, nextId, info, maps, session, paused, seed, acked, fate, crashes>>

\* Mutant: the destructor takes tasks_lock_, which is not recursive.
DtorRelocks(w) ==
  /\ thread[w].at \in {"dtor", "dtor_locked"} /\ LockFree
  /\ EndDtor(thread[w].id)
  /\ thread' = [thread EXCEPT ![w] =
       IF @.req = None THEN Idle ELSE [at |-> "create", id |-> None, req |-> @.req]]

\* The destructor ends; the thread unlocks, or goes on to create its own task.
DtorEnds(w) ==
  /\ thread[w].at \in {"dtor", "dtor_locked"}
  /\ EndDtor(thread[w].id)
  /\ thread' = [thread EXCEPT ![w] =
       IF @.req = None THEN Idle ELSE [at |-> "create", id |-> None, req |-> @.req]]

-----------------------------------------------------------------------------
(***************************************************************************)
(* libtorrent posts torrent_finished_alert once for a torrent; an alert of *)
(* a torrent that has left the session finds an invalid handle.            *)
(***************************************************************************)
TorrentFinished(t) ==
  /\ t \in session /\ seed[t] = "none"
  /\ seed' = [seed EXCEPT ![t] = "alert"]
  /\ UNCHANGED <<phase, nextId, info, maps, session, paused, flags, thread, disk, history>>

(***************************************************************************)
(* Task::ToSeeding: a task with a seeding time arms its timer.  Its branch *)
(* for a task with an error is never taken: RemoveTaskByError erases the   *)
(* task in the critical section that sets the error.                       *)
(***************************************************************************)
ToSeeding(t) ==
  /\ seed' = [seed EXCEPT ![t] =
       IF info[t].seeding_time = "finite" THEN "timer" ELSE "forever"]
  /\ UpdateStatus(t, FALSE)

\* Mutant: the alert is processed without tasks_lock_.
OnTorrentFinishedUnlocked(w, t) ==
  /\ Ready(w) /\ t \in session /\ seed[t] = "alert"
  /\ flags' = flags
  /\ IF t \in tasks_map
       THEN ToSeeding(t)
       ELSE seed' = [seed EXCEPT ![t] = "lost"] /\ UNCHANGED <<row, faults>>
  /\ UNCHANGED <<phase, nextId, info, maps, session, paused, thread, resume, acked, fate, crashes>>

\* ProcessTaskByTorrent with Task::ToSeeding; "lost" is an alert whose torrent
\* was in no map.
OnTorrentFinished(w, t) ==
  /\ Ready(w) /\ LockFree /\ t \in session /\ seed[t] = "alert"
  /\ flags' = flags
  /\ IF t \in tasks_map
       THEN ToSeeding(t)
       ELSE seed' = [seed EXCEPT ![t] = "lost"] /\ UNCHANGED <<row, faults>>
  /\ UNCHANGED <<phase, nextId, info, maps, session, paused, thread, resume, acked, fate, crashes>>

\* ProcessTaskByTorrent with RemoveTaskByError; the alert may come at any time.
OnTorrentError(w, t) ==
  /\ Ready(w) /\ LockFree /\ t \in session \cap tasks_map
  /\ flags' = [flags EXCEPT ![t] = @ \cup {"ERROR"}]
  /\ Drop(w, t, "failed")

\* The handler knows the id only and looks the task up again.
SeedingTimerCallback(w, t) ==
  /\ Ready(w) /\ LockFree /\ t \in tasks_map /\ seed[t] = "timer"
  /\ flags' = flags
  /\ Drop(w, t, "expired")

\* TaskDB::DeleteDataTimerCallback, for a row that has become old enough (so not
\* one that Stop has just written).
DeleteDataTimerCallback(t) ==
  /\ phase = "up" /\ row[t].ended
  /\ row' = [row EXCEPT ![t] = NoRow]
  /\ UNCHANGED <<phase, nextId, info, maps, session, object, thread, resume, history>>

-----------------------------------------------------------------------------
(***************************************************************************)
(* TaskManager::Stop, called on the main thread by a signal or on a worker *)
(* by OnListenFailed: control_server_.Stop(), PersistTasks(), then         *)
(* worker_pool_.Stop().                                                    *)
(***************************************************************************)
\* Mutant: the control server is stopped only after PersistTasks.
StopLate(w) ==
  /\ thread[w] = Idle /\ phase = "up"
  /\ thread' = [thread EXCEPT ![w].at = "persist"]
  /\ UNCHANGED <<phase, nextId, info, maps, session, object, disk, history>>

Stop(w) ==
  /\ thread[w] = Idle /\ phase = "up"
  /\ phase' = "stopping"
  /\ thread' = [thread EXCEPT ![w].at = "persist"]
  /\ UNCHANGED <<nextId, info, maps, session, object, disk, history>>

(***************************************************************************)
(* One round of the loop of PersistTasks: the tasks in id order are erased *)
(* and marked.  Assigning the next task destroys the one before it; the    *)
(* last is destroyed after the lock is released.                           *)
(***************************************************************************)
PersistTask(w) ==
  /\ \/ thread[w].at = "persist" /\ LockFree
     \/ thread[w].at = "persisting"
  /\ \E t \in tasks_map :
       LET rest == IF tasks_map = {t} THEN "stopped" ELSE "persisting"
           dtor == IF tasks_map = {t} THEN "persist_last" ELSE "persist_dtor" IN
       /\ \A u \in tasks_map : t <= u
       /\ ERASE_TASK_FROM_MAP(t)
       /\ flags' = [flags EXCEPT ![t] = @ \cup {"PERSIST"}]
       /\ Release(w, t, dtor, [at |-> rest, id |-> None, req |-> None])
       /\ phase' = IF thread'[w].at = "stopped" THEN "persisted" ELSE phase
  /\ UNCHANGED <<nextId, info, session, paused, seed, acked, fate, crashes>>

PersistDtorEnds(w) ==
  LET t == thread[w].id  last == thread[w].at = "persist_last" IN
  /\ thread[w].at \in {"persist_dtor", "persist_last"}
  /\ resume' = [resume EXCEPT ![t] = "ok"]
  /\ ObjectGone(t)
  /\ thread' = [thread EXCEPT ![w] =
       [at |-> IF last THEN "stopped" ELSE "persisting", id |-> None, req |-> None]]
  /\ phase' = IF last THEN "persisted" ELSE phase
  /\ UNCHANGED <<nextId, info, maps, row, history>>

PersistNothing(w) ==
  /\ thread[w].at = "persist" /\ LockFree /\ tasks_map = {}
  /\ phase' = "persisted"
  /\ thread' = [thread EXCEPT ![w].at = "stopped"]
  /\ UNCHANGED <<nextId, info, maps, session, object, disk, history>>

\* worker_pool_.Stop(), after the 100 ms given to the tracker announces.
StopPool ==
  /\ phase = "persisted"
  /\ phase' = "joining"
  /\ UNCHANGED <<nextId, info, maps, session, object, thread, disk, history>>

-----------------------------------------------------------------------------
\* Everything the process keeps in memory is gone.
MemoryLost ==
  /\ phase' = "down"
  /\ tasks_map' = {} /\ session' = {} /\ paused' = {}
  /\ infohash_map' = [h \in Infohash |-> None]
  /\ data_path_map' = [p \in Path |-> None]
  /\ flags' = [t \in Ids |-> {}]
  /\ seed' = [t \in Ids |-> "none"]
  /\ thread' = [w \in Thread |-> Idle]

\* Mutant: Stop joins the pool itself, also when a worker calls it.
ExitJoinsItself ==
  /\ phase = "joining"
  /\ \A w \in Worker : thread[w].at = "idle"
  /\ \E kept \in SUBSET tasks_map :
       resume' = [t \in Ids |-> IF t \in tasks_map \ kept THEN "none" ELSE resume[t]]
  /\ MemoryLost
  /\ UNCHANGED <<nextId, info, row, history>>

(***************************************************************************)
(* The pool's threads have been joined and the process exits.  Tasks still *)
(* in the maps (created after PersistTasks) are destroyed with the static  *)
(* TaskManager, after its session and its task.db: what their destructors  *)
(* do is undefined, so each resume file may stay or go.                    *)
(***************************************************************************)
Exit ==
  /\ phase = "joining"
  /\ \A w \in Worker : thread[w].at \in {"idle", "stopped"}
  /\ \E kept \in SUBSET tasks_map :
       resume' = [t \in Ids |-> IF t \in tasks_map \ kept THEN "none" ELSE resume[t]]
  /\ MemoryLost
  /\ UNCHANGED <<nextId, info, row, history>>

\* A file that was being rewritten is lost with the crash: its task is "torn".
Crash ==
  /\ phase # "down" /\ crashes < MaxCrash
  /\ crashes' = crashes + 1
  /\ MemoryLost
  /\ fate' = [t \in Ids |-> IF resume[t] = "torn" /\ fate[t] = "none" THEN "torn" ELSE fate[t]]
  /\ UNCHANGED <<nextId, info, disk, acked, faults>>

(***************************************************************************)
(* Start with AddResumeTask: the resume files are read in the order of the *)
(* directory, the first of each infohash gets its torrent, and a file that *)
(* cannot be parsed or added is unlinked.  Of the tasks of one path the    *)
(* last one read owns the path entry.  No resumed task is paused.  A task  *)
(* whose file outlived its end is to run again.                            *)
(***************************************************************************)
OnePerInfohash(S) == \A t, u \in S : info[t].infohash = info[u].infohash => t = u

Restart ==
  LET files == {t \in Ids : resume[t] = "ok"} IN
  /\ phase = "down"
  /\ \E loaded \in SUBSET files, last \in [Path -> Ids \cup {None}] :
       /\ OnePerInfohash(loaded)
       /\ \A t \in files : \E u \in loaded : info[u].infohash = info[t].infohash
       /\ \A p \in Path : LET there == {t \in loaded : info[t].data_path = p} IN
            last[p] \in IF there = {} THEN {None} ELSE there
       /\ tasks_map' = loaded
       /\ session' = loaded
       /\ infohash_map' = [h \in Infohash |->
            IF \E t \in loaded : info[t].infohash = h
              THEN CHOOSE t \in loaded : info[t].infohash = h ELSE None]
       /\ data_path_map' = last
       /\ resume' = [t \in Ids |-> IF t \in loaded THEN "ok" ELSE "none"]
       /\ fate' = [t \in Ids |-> IF t \in loaded THEN "none"
                                 ELSE IF t \in files THEN "superseded" ELSE fate[t]]
  /\ phase' = "up"
  /\ UNCHANGED <<nextId, info, object, thread, row, acked, faults, crashes>>

-----------------------------------------------------------------------------
\* What thread w does once it has started a handler.
Continue(w) ==
  \/ ReleaseDup(w) \/ GenTaskId(w) \/ GenTaskIdFails(w)
  \/ AddTorrentFails(w) \/ AddTorrent(w) \/ FinishCreate(w)
  \/ TaskSetoptEnds(w) \/ DtorEnds(w)
  \/ PersistTask(w) \/ PersistDtorEnds(w) \/ PersistNothing(w)

Message(w) ==
  \/ \E r \in Request : AddTask(w, r) \/ AddTaskDisplacing(w, r)
  \/ \E t \in Ids : Cancel(w, t) \/ Pause(w, t) \/ Resume(w, t) \/ TaskSetopt(w, t)

Callback(w, t) ==
  OnTorrentFinished(w, t) \/ OnTorrentError(w, t) \/ SeedingTimerCallback(w, t)

Next ==
  \/ \E w \in Thread : Continue(w) \/ Stop(w)
  \/ \E w \in Worker : Message(w)
  \/ \E w \in Worker, t \in Ids : Callback(w, t)
  \/ \E t \in Ids : TorrentFinished(t) \/ DeleteDataTimerCallback(t)
  \/ StopPool \/ Exit \/ Crash \/ Restart

Spec == Init /\ [][Next]_vars

(***************************************************************************)
(* Fairness.  A thread in a handler goes on (and gets the mutex: strong    *)
(* fairness for what waits for it); the queue of the io_service is FIFO,   *)
(* so an alert or an expired timer in it is handled by some worker; the    *)
(* process exits once its threads are joined.  Clients, libtorrent,        *)
(* signals, crashes and restarts owe nothing.                              *)
(***************************************************************************)
Fairness ==
  /\ \A w \in Thread : SF_vars(Continue(w))
  /\ \A t \in Ids : /\ SF_vars(\E w \in Worker : OnTorrentFinished(w, t))
                    /\ SF_vars(\E w \in Worker : SeedingTimerCallback(w, t))
  /\ WF_vars(StopPool \/ Exit)

FairSpec == Spec /\ Fairness

-----------------------------------------------------------------------------
(***************************************************************************)
(* The life of task t as AgentRegistry sees it.                            *)
(***************************************************************************)
Held(t) == \E w \in Thread : thread[w].id = t

BeingCreated(t) == \E w \in Thread : thread[w].id = t /\ thread[w].at \in {"rowed", "added"}

Life(t) ==
  IF t \in tasks_map THEN "running"
  ELSE IF Held(t)
    THEN IF BeingCreated(t) THEN "creating"
         ELSE IF "PERSIST" \in flags[t] THEN "parking" ELSE "ending"
  ELSE IF t >= nextId THEN "new"
  ELSE IF resume[t] = "ok" THEN "kept" ELSE "over"

Registry == INSTANCE AgentRegistry WITH
  Task     <- Ids,
  up       <- phase # "down",
  status   <- [t \in Ids |-> Life(t)],
  infohash <- [t \in Ids |-> IF info[t] = None THEN None ELSE info[t].infohash]

(***************************************************************************)
(* The agent keeps the promise: whatever its threads interleave, wherever  *)
(* a crash falls between two writes, a task that is over never runs again, *)
(* a task comes back only by a restart that found it kept, and no two      *)
(* running tasks have one infohash.                                        *)
(***************************************************************************)
ImplementsRegistry == Registry!Spec

TypeOK ==
  /\ phase \in Phase
  /\ nextId \in 1 .. MaxId + 1
  /\ info \in [Ids -> Request \cup {None}]
  /\ tasks_map \subseteq Ids /\ session \subseteq Ids /\ paused \subseteq Ids
  /\ infohash_map \in [Infohash -> Ids \cup {None}]
  /\ data_path_map \in [Path -> Ids \cup {None}]
  /\ flags \in [Ids -> SUBSET {"CANCELED", "PERSIST", "ERROR"}]
  /\ seed \in [Ids -> {"none", "alert", "lost", "timer", "forever"}]
  /\ thread \in [Thread -> [at : At, id : Ids \cup {None}, req : Request \cup {None}]]
  /\ row \in [Ids -> [status : Status \cup {"none"}, ended : BOOLEAN]]
  /\ resume \in [Ids -> {"none", "torn", "ok"}]
  /\ acked \subseteq Ids /\ faults \subseteq Ids /\ crashes \in 0 .. MaxCrash
  /\ fate \in [Ids -> Fates]

(***************************************************************************)
(* The indexes agree with tasks_map_: the infohash index names every       *)
(* running task, and no index entry names a task that is gone, whatever    *)
(* the order in which handlers erased by key.                              *)
(***************************************************************************)
IndexesExact ==
  /\ \A t \in tasks_map : infohash_map[info[t].infohash] = t
  /\ \A h \in Infohash : infohash_map[h] # None =>
       infohash_map[h] \in tasks_map /\ info[infohash_map[h]].infohash = h
  /\ \A p \in Path : data_path_map[p] # None =>
       data_path_map[p] \in tasks_map /\ info[data_path_map[p]].data_path = p

(***************************************************************************)
(* Every running task seeds, and every torrent of the session belongs to a *)
(* task object that will still remove it: no torrent is orphaned.          *)
(***************************************************************************)
NoOrphanTorrent == tasks_map \subseteq session /\ session \subseteq Live

(***************************************************************************)
(* An acknowledged task runs, in this process and in the next ones, until  *)
(* something ended it.  The ways a crash or restart may lose one are fates *)
(* too: its file was being rewritten ("torn"), or another task of the same *)
(* infohash was read before it ("superseded").                             *)
(***************************************************************************)
AckedTaskRuns ==
  phase = "up" =>
    \A t \in acked \ faults : fate[t] = "none" => t \in tasks_map

(***************************************************************************)
(* A task that was ended and whose object is gone has no resume file that  *)
(* could bring it back and, unless the update failed, no open row.         *)
(***************************************************************************)
EndedTaskForgotten ==
  phase = "up" =>
    \A t \in Ids \ Live :
      fate[t] \in {"canceled", "displaced", "expired", "failed"} =>
        /\ resume[t] = "none"
        /\ t \in faults \/ row[t] = NoRow \/ row[t].ended

(***************************************************************************)
(* The row of a task that is gone tells the client why, whoever held the   *)
(* last reference: what GetStatus reads back for a finished task.          *)
(***************************************************************************)
RowTellsFate ==
  phase = "up" =>
    \A t \in Ids \ (Live \cup faults) : row[t].ended =>
      /\ fate[t] \in {"canceled", "displaced"} => row[t].status = "CANCELED"
      /\ fate[t] = "failed" => row[t].status = "ERROR"
      /\ fate[t] = "expired" => row[t].status \in {"FINISHED", "PAUSED"}

(***************************************************************************)
(* The torrent_finished alert of a running task is never consumed without  *)
(* effect, although libtorrent may post it before ADD_TASK_TO_MAP: a task  *)
(* with a seeding time would otherwise seed for ever.                      *)
(***************************************************************************)
FinishedAlertNotLost == \A t \in tasks_map : seed[t] # "lost"

(***************************************************************************)
(* A task with a finite seeding time whose download finished leaves the    *)
(* task map.                                                               *)
(***************************************************************************)
FinishedTaskQuits ==
  \A t \in Ids :
    (t \in tasks_map /\ seed[t] # "none" /\ info[t].seeding_time = "finite")
      ~> t \notin tasks_map

\* Every handler ends: no thread waits for tasks_lock_ for ever.
HandlersEnd ==
  \A w \in Worker : thread[w].at # "idle" ~> thread[w].at \in {"idle", "stopped"}

\* A stop that began ends with the process, whatever the workers were doing.
StopCompletes == phase \in {"stopping", "persisted", "joining"} ~> phase = "down"

(***************************************************************************)
(* What Task.h says of GetStatus: the status of a task that has completed  *)
(* is read from task.db.  So the destructor of a task that completes, when *)
(* it reports the final status, must find a row to write it to.            *)
(***************************************************************************)
FinalStatusRecorded ==
  [][\A w \in Thread :
       (thread'[w].at \in {"dtor", "dtor_locked"} /\ thread'[w] # thread[w])
         => row'[thread'[w].id] # NoRow]_vars
=============================================================================
