# Formal model of gingko

gingko distributes large files inside a company network over BitTorrent. This
directory holds TLA+ specifications of its concurrent cores, the TLC runs that
check them and the TLAPS proofs about them. Every definition is translated from
the C++ code under `src/`; `PROJECT.json` maps definitions to source lines.

    tlc -workers 2 -config MCAgentTasksCrash.cfg MCAgentTasks.tla   # one run
    tlapm AgentTasks_proofs.tla                                     # the proofs

## 1. Inventory

| component | code | state | operations | hard part |
|---|---|---|---|---|
| agent task manager (`bbts-agent`) | `gko-src/src/TaskManager.cpp`, `Task.cpp` | task maps, libtorrent session, metadata cache | AddTask, BatchCtrl, Task/Agent Setopt/Getopt, alerts, seeding timers, Stop, restart | worker threads, one mutex, reference counts, crash and restart |
| agent database | `gko-src/src/TaskDB.cpp` | sqlite tables `task`, `agent_config` | Excute, Reconnect, cleaner timer | reconnection shared by threads |
| agent protocol | `UnixSocketConnection/Server/Client.cpp`, `BBTSClient.cpp` | write queue, heartbeat timers | read, write, close, heartbeat | callbacks after close, retries |
| gko3 downloader | `Downloader.cpp`, `gko3.cpp` | one torrent, timers, return code | event loop, timeout, hang check, seeding | order of events decides the return code |
| cluster downloader | `ClusterDownloader.cpp` | pieces to fetch from hdfs, threads | StartDownload, StopDownload | condition variable, failing threads |
| thrift tracker client | `ThriftTracker.cpp`, `ConsistentHashRing.hpp` | hash ring of trackers | announce, add and remove node | colliding virtual nodes |
| group manager (`bbts-group`) | `group/*.cpp` | tasks by id and infohash, timers, hdfs threads | AddTask, control, cancel, resume, timers | cancel against timers, thread budget |
| tracker peers | `gko-tracker-src/src/PeerHandler.cpp`, `InfoHashGarbageCleaner.cpp` | peers per infohash, counters, lists | announce, choose, control, clean | separate locks, counters |
| tracker synchronisation | `RemotePeersSyncronizer.cpp`, `RedisManager.cpp` | needed infohashes, command pipelines | charge, flush, reconnect | partial failure of a pipeline |
| tracker status, http | `StatusManager.cpp`, `HttpServer.cpp`, `minihttpd/` | counters, connections | status pages | mostly I/O |

How they interact: `gko3` sends AddTask and BatchCtrl messages to the agent of
its host over a unix socket; agent and downloader announce to a tracker chosen
on the hash ring; trackers exchange peers through redis; a group manager
downloads once for a group of hosts and may pull pieces from hdfs itself. Not
the program's own logic, hence not modelled: sqlite, libtorrent (an environment
that posts alerts), thrift and protobuf output, `clientmock`, build files.

What makes each component correct, beyond its types:

* task manager: the indexes agree with the task map; an acknowledged task runs
  until something ended it; an ended task leaves no torrent, no resume file and
  a row that says why; every handler ends; Stop ends the process;
* database: Reconnect returns, and statements run on an open handle;
* protocol: messages of one connection go out whole and in order; nothing is
  written after close; a dead peer is noticed;
* downloader: it ends when it has to, with success only for a torrent that was
  downloaded; a failure stays one;
* cluster downloader: it ends, and with success only if every piece came;
* group manager: a task a client was told of can be asked for while threads end
  it and others; its finished alert meets it; the finished list reaches its file;
  the hdfs threads stay within their budget, and no task is left out of it;
* tracker: counters agree with the peers held; a stopped peer is never handed
  out; a garbage-collected infohash is gone everywhere;
* synchronisation: each charged command is answered, or reported lost.

The hazards, line by line, are in `PROJECT.json` under `hazards`.

## 2. Plan

| # | module | models | status |
|---|---|---|---|
| 1 | `AgentTasks`, `AgentTasks_proofs` | task manager, tasks, rows, resume files | done |
| 2 | `AgentRegistry` | abstract life of the agent's tasks, implemented by 1 | done |
| 3 | `TrackerPeers`, `TrackerPeers_proofs` | UpdatePeer, stop and resume, garbage cleaner | done |
| 4 | `RemoteSync`, `RemoteSync_proofs` | queue of needed infohashes, synchronizer threads, remote map | done |
| 5 | `RedisPipeline`, `RedisPipeline_proofs` | RedisManager: charged commands, flush, reconnection | done |
| 6 | `ClusterDownload`, `ClusterDownload_proofs` | piece threads and condition variable | done |
| 7 | `GroupTasks`, `GroupTasks_proofs` | group manager: maps, finished list, files | done |
| 8 | `GroupCluster`, `GroupCluster_proofs` | group manager: queue, scheduler and budget of the hdfs threads | done |
| 9 | `Downloader`, `Downloader_proofs` | event loop, timers, return code | done |
| 10 | `CommandChannel` | abstract channel of commands to redis, implemented by 5 | done |
| 11 | `QueryTable` | abstract table of single-flight queries, implemented by 4 | done |
| 12 | `TaskThreads` | abstract life of a task's hdfs threads, implemented by 6 and 8 | done |
| 13 | abstract life for 7 | the group's tasks as a client may rely on them | open |
| 14 | `TaskDB`, `UnixSocketConnection` | Reconnect protocol, write queue | open, see 13 |

Each has constants with named assumptions, one action per operation, no
RECURSIVE operator, an `MC` module and one to three configurations. The modules
meet at narrow interfaces, each an environment of the other: `TrackerPeers`
charges commands to `RedisPipeline` and never sees their outcome
(`SetPeerRemote` returns before anything is sent), so it relies on no more than
`CommandChannel` allows; `RemoteSync` asks redis over a
connection of its own; `GroupCluster` starts the threads whose work is
`ClusterDownload`, and knows of them only what `TaskThreads` says, which both
implement: they run until they are told to stop or a read fails; `GroupTasks` stops and drops the tasks of `GroupCluster`
with its own; a failed read reaches `Downloader` as the return code of all
hdfs threads (`ClusterFails`); a statement of the database may fail, which
`AgentTasks` keeps as `faults`. Each abstract module is instantiated by those
that implement it, with the refinement mapping in the WITH: `Registry` in
`AgentTasks`, `Table` in `RemoteSync`, `Channel` in `RedisPipeline`, `Lives` in `ClusterDownload` and
`GroupCluster`.

## 3. AgentTasks

### State and code

| variable | code |
|---|---|
| `phase` | how far `TaskManager::Stop` and `Join` have come; `down` between two processes |
| `tasks_map`, `infohash_map`, `data_path_map` | the members of those names; `torrent_map_` always holds the tasks of `tasks_map_` (the two macros change all four) and is merged with it |
| `session`, `paused` | torrents in the libtorrent session, and those paused |
| `flags` | `flags_` of a task, plus ERROR for a set `error_` |
| `seed` | the torrent_finished alert of a task: not posted, posted, consumed without effect, timer armed, seeding for ever |
| `thread` | for each worker and for the main thread: where it is in a handler and which `shared_ptr<Task>` it holds |
| `row`, `resume` | what is on disk: the row in `task.db` (status, whether end_time is set) and `<id>.resume` |
| `acked`, `fate`, `faults`, `crashes` | history, read by properties and bounds only; `fate` is `none` again for a task whose file outlived its end and that a restart brought back |

A handler that runs in one critical section is one action. A handler that leaves
or enters the lock, or drops the last reference to a task, has one action per
part: AddTask is `AddTask` or `AddTaskDisplacing` + `ReleaseDup`, then
`GenTaskId`, `AddTorrent`, `FinishCreate` or one of their failures. `LockFree`
stands for `tasks_lock_`: `LockHeldAt` names the points at which a thread holds
it across actions. The destructor of a task is `BeginDtor` (the row; a resume
file being rewritten is torn) and `EndDtor` (file complete or deleted, torrent
removed), so a crash may fall between; it runs where the code runs it, inside the
lock (`dtor_locked`) or outside (`dtor`, `persist_last`). `Release` decides by
`HeldElsewhere` whether a reference was the last one.

### Abstractions

* A request is an infohash, a path, a type and finite or infinite seeding time.
  Parsing of torrents and metadata, trackers, limits and statistics are left
  out. Refused requests (parse errors, DUP_TASK_ERROR, unknown ids, CheckCred)
  change nothing and have no action.
* BatchCtrl over several ids is a sequence of `Cancel`, `Pause`, `Resume`: the
  code holds the lock over the whole batch, the model may let other handlers in
  between, which adds behaviours and removes none.
* LIST and GETOPT read only; TaskGetopt is `TaskSetopt` (it holds a reference
  the same way).
* libtorrent is an environment: it finishes each torrent at most once, may
  report an error at any time, refuses a second torrent of one infohash
  (flag_duplicate_is_error). Its torrent states before completion are one.
* After three failed attempts at the row AddTask fails; a failed attempt leaves
  no row here.
* The row cleaner deletes a row with end_time at any later time the agent is up:
  the configured days are not counted.
* Tasks left in the maps at exit are destroyed with the static TaskManager,
  whose members `session_` (reset in Join) and `task_db_` (declared after the
  maps, destroyed before them) are already gone: undefined behaviour. `Exit`
  lets each of their resume files stay or go.
* A signal runs Stop on the main thread, or OnListenFailed runs it on a worker
  that holds no lock. A signal that interrupts a worker inside its critical
  section (it would deadlock with itself, and calls what is not
  async-signal-safe) is not modelled.

### What it promises

`AgentRegistry` is the life of a task as a client may rely on it: asked for,
created or refused, running, then ended and over for ever, or parked by a stop
and kept for the next process. Of the kept tasks of one infohash one runs again.
The end of a process may lose a running task and may keep one that was on its
way out; nothing else may. `Life` maps a task of `AgentTasks` to it from the
maps, the references the threads hold, the PERSIST flag and the file.
`ImplementsRegistry` says that every step of the agent, whatever it interleaves
with, is a step of this life or leaves it alone; in particular no task that is
over ever runs again, and two running tasks never share an infohash.

### Runs

| run | question | instance |
|---|---|---|
| `agent_crash` | do the indexes stay exact, torrents owned, acknowledged tasks alive, ended tasks forgotten and their rows true, through cancel, displacement, expiry, error, stop, crash and restart; and is all of this the life of `AgentRegistry`? | 2 workers + main, 2 infohashes on 1 path, 2 ids, 1 crash |
| `agent_live` | does every finite task quit, every handler end, every stop complete? | 2 workers + main, 1 id, all controls, 1 crash, 1 faulty task |
| `agent_row` | is the final status of a completed task always recorded? (no, see 11) | 2 workers, 1 id |

Bounds. Two workers and the main thread are enough for each race of the code:
each involves one thread that holds a reference outside the lock, one that erases
under it and, for Stop, the main one. Two ids on one path give displacement by
path and, with the same request twice, by infohash; displacement is the only
operation that relates two tasks, and always exactly two. A restart keeps
nothing but the disk, so one crash already covers each point at which a handler
can be cut off; sequences of crashes are left to the proofs, which bound none. `agent_crash` has
one control, cancel, and no faults; pause, resume, TaskSetopt and a failing
statement are in `agent_live`. That run has one id, because its properties speak
of one task and of threads, and is run without symmetry; the safety runs use
symmetry of the workers.

Deadlock is checked in every run: a restart or a new stop is possible until the
bounds are used up, and a process that stopped for good would be reported.

### Fairness

`Continue(w)` is strongly fair: a thread inside a handler is running code, and
what may disable its next step is only `tasks_lock_`, which others release again
and again; pthread mutexes give no strict guarantee, but a waiter is starved only
by an unbounded stream of other handlers. `OnTorrentFinished` and
`SeedingTimerCallback` are strongly fair for each task: the alert loop re-posts
itself and the io_service is a FIFO queue, so a posted alert or expired timer is
handled if workers go on. `StopPool` and `Exit` are weakly fair. Nothing is
assumed of clients, of libtorrent (a torrent need not finish), of signals,
crashes and restarts.

## 4. RemoteSync

An announce that finds no seed among the tracker's own peers puts its infohash
in `query_map` (`AddNeedInfoHash`). A synchronizer thread takes one infohash at
a time (`MAX_HANDLE_INFO_HASHS` is 1), asks redis for it outside the mutex,
replaces the entry of the remote map by the peers of the reply, and erases the
infohash from `query_map`.

| variable | code |
|---|---|
| `query_map` | the member of that name: no entry, `false` (pending), `true` (being queried) |
| `have_query` | the flag that goes with the condition variable |
| `syncer` | where each `ThreadFunc` is; the infohash of its `remote_setdiff` and the reply it holds |
| `remote_map` | which reply an entry of `remote_info_hash_map_` was built from, 0 for no entry |
| `answers`, `stored` | history: replies per infohash, and the latest one ever stored |

One action per critical section of `ThreadFunc` (`Wait`, `Take`,
`NothingToTake`; `Erase`), one per outcome of the query (`Answer`, `NoAnswer`),
one for `UpdateInfoHashMapByReply` (`Store`). `Take` may take any pending
infohash: the order of a hash table is unspecified. The peers of a reply are
abstracted to its number; redis may itself answer from a slave that lags, so
"newer" means given later, not fresher. `PeriodSchedule` is the part of the
garbage cleaner that erases remote entries.

Run `remote_sync`: three threads (`remote_peers_syncronizer_num` of
`conf/tracker.conf`), two infohashes, at most two answers for each
(`MaxAnswer`): two are needed to overwrite a newer answer by an older one, and
three threads to have one querying, one waiting and one in between. Queries that
fail are not bounded. Deadlock is checked.

Fairness: `ThreadFunc(s)` is strongly fair. A thread that is not in `cond.wait`
runs; the mutex is held for a few instructions only; a query ends, because redis
answers or the connection breaks. `redisCommand` has no timeout of its own:
against a redis that accepts and stays silent for ever `QueriesEnd` would not
hold. Announces, the cleaner and spurious wakeups are not fair.

`QueryTable` is what remains when the threads are left out: for each infohash one
query, asked for, begun, answered or failed, stored and over, and an entry that is
replaced by the answer of that query only, which is the latest one. `Table` maps
an infohash that is marked `true` to where the thread is that has it (`Stage`);
sleeping, waking and the flag are no steps of the table. `ImplementsQueryTable` says
that the two mutexes are enough for this, although no thread keeps either of them
for the whole of a query.

`PendingIsWorkedOn` does not say that each infohash has its turn: the threads
begin each search at the start of the hash table, and an infohash that is
announced again and again may overtake another.

## 5. RedisPipeline

Announce threads charge commands to a redis context and go on; a sender thread
flushes the context released before and swaps the two; another thread connects
again what has failed. One `ContextManager` is modelled: an infohash is hashed to
one of them, and they share nothing.

| variable | code |
|---|---|
| `flag` | `is_connected`, read by `AppendCommand` without a lock |
| `charge`, `release` | the two contexts: NULL, up or broken, and the commands appended and not answered |
| `charged_commands`, `release_commands` | the counts of those names |
| `handler`, `sender`, `connector` | where each thread is, hence which mutexes it holds |
| `crashed` | a command was appended to a NULL context, and the process is gone |
| `next`, `applied`, `failures`, `resets` | history: the next command, those executed, failures, contexts dropped |

`Check` and `AppendCommand` are two actions, because the flag is tested before
the mutex is taken. The flush is one action per reply (`FlushReply`), the swap
another, under both mutexes. `LockContext`, `ConnectRelease`, `ConnectCharge` and
`ConnectFails` are the parts of DoConnection, which holds both mutexes
throughout. Redis executes what it has received: a connection that breaks may
have delivered any prefix. It is assumed that `redisGetReply` leaves no reply when
it fails. `Stop` has no caller and no action.

Run `redis_pipeline`: two announce threads, four commands, two failures. Two
threads give one that has passed the test of the flag and one in the mutex; four
commands fill both contexts with two; with two failures a reconnection fails as
well. Deadlock is checked. Fairness: `SendToRedis` and `DoConnection` are weakly
fair. They are threads in a loop with a sleep, the sender holds a mutex only
while redis answers or until the connection breaks, and announces hold theirs for
one append. Failures are bounded, so `Reconnects` reads: once failures stop, the
flag comes up, or the process has crashed.

`CommandChannel` is what a caller may rely on: a channel that is up or down.
While it is up, commands are executed once each in the order they were charged;
when it goes down, what is under way is lost but for a first part; what is
charged before it is up again is lost. `Channel` maps the pipeline to it: the
channel is up while `flag` is, and the commands under way are those of the release
context followed by those of the charge context. `ImplementsChannel` says that all
threads, mutexes and failures together do only that. In particular a swap moves
no command, since only an empty release context is swapped, and a context
that comes up again begins empty.

`AppendToNull` is reachable: a thread that has read the flag just before a flush
fails waits for the reconnection, and if that fails too it appends to a NULL
context. Nothing in the repository promises otherwise, so no run is about it.

## 6. TrackerPeers

`UpdatePeer` takes four locks one after the other, and holds only shared pointers
between them. One infohash is modelled, since no operation relates two.

| variable | code |
|---|---|
| `local_map` | the entry of the infohash in `local_info_hash_map_` |
| `info` | SingleInfoHashInfo objects: `peer_map`, `remote_peer_count`, `need_stop` |
| `obj` | PeerInfo objects: `UpdateInfo` called, listed in the vectors, `is_set_remote` |
| `handler` | where each announce is, with the pointers it holds |
| `remote` | the peers this tracker has set in the hash of redis |
| `astray`, `stopped` | history, read by properties only |

| lock | actions |
|---|---|
| map of infohashes | `PreHandleInfoHashInfo`, `ControlByInfohash`, `PeriodSchedule` |
| the infohash | `AddPeer`, `FindPeer`, `StopPeer`, `StopUnknown`; `Count` |
| its vectors | `UpdateInfo` |
| none | `ToldToStop`, `SetPeerRemote`, `LeaveUnset` |

`Keep` ends each action that drops a reference: an object nobody points to is
free. Peers are listed by weak pointers, which is why `ChosenIsKnown` holds: its
mutant lets the vectors own their peers.

Abstractions. The vectors by idc, with and without seeds, are one set: a peer is
put in both by the same step. Which of the listed peers `ChoosePeers` picks is
left out; it changes nothing but to drop expired pointers. Time is left out: the
cleaner may take the infohash whenever it exists, which adds behaviours. The drawn
number is free when the count is 2 or more. Charging redis always succeeds, as
`SetPeerRemote` only queues. The count is modulo `CountModulus`, 2^64 in the
code.

Run `tracker_peers`: two announces at a time, one peer, two infos, two peer
objects. Peers of an infohash meet only in the count, which wraps here below zero
and so takes every value for one peer as well; the races are between two
announces of one peer. Two infos are the current one and one that outlives its
entry in a thread; two objects likewise. The run has no liveness: an announce
waits for nothing. Deadlock is checked.

What the run taught, where no document says otherwise:

* a stop may be handled before an announce of the same peer that was sent first,
  if two threads handle them; that announce sets the peer in redis, and nothing
  takes it out before the hash expires (`astray` excuses it, and likewise the
  peers of an infohash that was collected);
* a peer whose first announce came while downloads were stopped is in the map
  but never listed, not even after the resume: `peer_is_new` is true once only;
* the cleaner may collect an info that an announce has just created and not yet
  filled; that announce is lost, up to the peer's next one;
* `need_stop` is forgotten with a collected infohash.

## 7. ClusterDownload

Threads fetch pieces from hdfs while libtorrent fetches them from peers.
`ClusterDownloader` (gko3) and `GroupClusterTask` (bbts-group) run the same
protocol: a thread asks `GetPieceToDownload` for a piece nobody reads, or else
for one that another thread reads; once there is neither it takes pieces only
from the queue that libtorrent's hash failed alerts fill, and sleeps on a
condition variable while that is empty.

| variable | code |
|---|---|
| `have` | `torrent_.have_piece`; `pieces_have_` only caches it, and what it caches stays true |
| `adding` | pieces given to `add_piece` whose hash libtorrent has yet to check |
| `pieces_downloading`, `hash_failed_pieces` | the members of those names |
| `thread` | where each thread is in `Download`, with its two local variables |
| `ignore_error`, `should_stop`, `retval` | the members of those names; `retval` is negated |
| `hash_failed` | bound: alerts so far |

`mutex_` is held across actions only between the test of `should_stop_` and the
sleep (`NothingToGet`, then `Wait`), because that is where an action of others
that takes no mutex matters: `StopDownload`, and a failing thread's
`notify_all`. `Piece` is the set of wanted pieces, those of priority 0 being
marked as had at the start. Reading, hashing and the rate limit change nothing
shared and are one wait. The test of `torrent_.status().paused` that
bbts-group adds only delays a thread. `StopNotifies` tells the programs apart:
only bbts-group's StopDownload notifies.

Run `cluster`: two threads, two pieces, one hash failed alert, any initial set of
pieces had. Two threads give one that reads and one that tests, sleeps or
reads the same piece; two pieces give one to read while the other is
unmarked; one alert wakes a sleeper, who then waits a second time. Deadlock is
checked. It finds no piece overlooked although a piece may be read by two threads
and unmarked by the first to finish, a failed one is never put back but by its
reader's next call, and a queued one is dropped when its read fails.
Run `cluster_stop`: does each thread end after StopDownload? (no, see 11)

Fairness: `CreateThread` is weakly fair (gko3 creates all of its threads in
StartDownload; for bbts-group it assumes that the manager's thread budget comes
free). `Download(t)` is strongly fair: only the mutex disables a thread that is
not asleep, and it is held for one scan. `ReadSucceeds(t)` is strongly fair: a
read tried again and again works some time. libtorrent checks what it is given.
Peers, alerts, stops and spurious wakeups are not fair.

`TaskThreads` is what the threads are to whoever starts and stops them: they
begin at any time, go on until the task is stopped, from outside or by a thread
whose read failed, and then end one after the other. `ImplementsTaskThreads` says
so of the protocol above, with `Begun` and `Ended` counting its threads; that they
do end is `AwakeThreadsEnd`, as far as it is true.

Observed, without a document that says otherwise: tasks of bbts-group with
dynamic_allocate set all priorities to 0 while they allocate files
(`group_task.cpp:1003`); StartDownload at that moment takes all pieces for had,
and its threads fetch nothing (the model starts from priorities that are set for
good). A thread of gko3 that misses the wakeup of a failing one keeps `IsStoped`
false, and the error code at `Downloader.cpp:725` is not looked at.

## 8. GroupTasks

bbts-group serves the users of a host: thrift threads add and control tasks, one
io thread runs libtorrent's alerts and all timers. `tasks_lock_` protects the
maps, but the end of a task (`GroupTask::RemoveTorrent`) takes five steps, most
of them without the lock, and cancels, timers and errors may take them for one
task on several threads.

| variable | code |
|---|---|
| `phase` | `up`; `quit` once Shutdown has cleared the maps; `down` |
| `infohash_map`, `torrent_map` | the members of those names; a null entry, which SetTaskOptions can insert, is `Null` |
| `finished`, `loaded` | `finished_infohash_list_`: tasks that ended in this process, and entries read from `finished.resume` |
| `list_changed` | `finished_infohash_list_changed_` |
| `req`, `handle`, `control`, `end_time`, `alert`, `timers` | the objects: what they were asked for, their torrent, `control_status_`, whether `end_time` is set, the finished alert, the timers that run |
| `thread` | where each thread is, the task it holds, what it has still to do and what it returns to |
| `resume`, `finished_file` | `<infohash>.resume` and `finished.resume` |
| `registered` | history: tasks a client was told of that the list has not let go |

`EnterRemove` (the test of the handle), `RemoveTorrent` (out of the session; it
throws if the handle expired meanwhile, which ends the io thread's loop or the
thrift call), `Unmap` (from the maps to the finished list), `Settle` and
`Persist` are the steps of an end. `Dying` is the set of objects whose last
reference a step drops, and `DestroyUnreferenced` runs their destructors in that
step, in some order; a destructor writes or deletes the file of its infohash,
whichever task wrote it. `GenerateFinishedListResumeFile` clears the flag,
`CollectFinished` reads the list: another thread may act in between.

Abstractions. Credentials are accepted. Downloading, checking and allocating are
one state before the finished alert; with libtorrent's removal the handle stays
valid for some time (`removed`) and expires by itself. Undefined behaviour
(`UnmapNothing`: the result of a failed find is dereferenced) ends the process.
`Kill` ends it anywhere.

Run `group`: one client and the io thread, one infohash, two objects in each
process, any number of kills and restarts. Every race of the code is between two
threads about one infohash, and its victim is a second object of the same
infohash. Deadlock is checked: a restart is always possible.

What the run taught, where no document says otherwise:

* AddTask of an infohash whose task is ending succeeds in the session and is
  refused by the map: its torrent stays without a task, and the destructor of the
  refused object writes the resume file after the lock is released;
* `RemoveTorrentTmp` moves whichever task has the infohash by then;
* the end time is set after the task is in the finished list: an
  expiry check in between takes it for older than any timeout;
* the destructor of an old task that expires from the list deletes the file of
  the new task of its infohash;
* PAUSE or RESUME of a task that is being ended resets `control_status_`, and
  the file of an ended task is written again;
* an exception on the io thread ends `io_service_.run`, and Join waits for ever;
* `LoadFromFinishedResume` clears the list: what ended before it is gone.

## 9. GroupCluster

`ClusterDownload` of the group manager is the scheduler of the threads that
section 7 is about: it pops a task, starts its threads one by one, and puts the
task back when the budget is exceeded.

| variable | code |
|---|---|
| `owner` | whether a GroupTask has its `cluster_task_`, and has let it go |
| `should_stop`, `is_stoped`, `started` | `should_stop_`, `is_stoped_`, `current_start_thread_num_` of the task |
| `crowd` | threads of the task that were created, that run, that have left the loop |
| `queue`, `count` | `cluster_queue_tasks_`, `current_cluster_thread_num_` |
| `scheduler` | where ClusterDownload is, the task its `shared_ptr` holds and its loop variable |
| `shutdown` | how far Shutdown is: maps cleared, `cluster_should_stop_` set |

Creation (`CreateThread`) and counting (`CountThread`) are two actions, and
a thread counts itself in its task (`Begin`) and out of the budget
(`DeleteClusterThreadNum`) in two more. The empty pointer the scheduler tests for
is never queued. Connecting (`StartDownload`) is part of the push; if it fails
nothing is pushed.

Run `group_cluster`: three tasks of three threads each, a budget of two (10 in
`bbts_group.cpp`), and three pushes (`MaxPush`): all tasks once, or one of them
again. Three threads for a budget of two make the loop break in the first task
already. Deadlock is not checked: once all threads have ended after a shutdown nothing is
left to do. The run shows that the budget is exceeded by one thread at most
(it is tested after a creation), and that a task put back is not lost. It uses
symmetry of the tasks: the specification and its properties, the step property
`ImplementsTaskThreads` included, name no task.

`BudgetKept` counts the elements of `Threads`, the pairs of a task and a number of
one of its threads, those that have left the loop and not yet counted themselves
out included. `ImplementsTaskThreads` says that what this module assumes
of the threads is what section 7 shows of them: from the scheduler's side a
thread has begun when it is in `started`, and ended when it is no longer
`running`.

Observed, without a document that says otherwise: a thread that ends before the
scheduler has counted it, while the count is zero, is counted all the same, and
the budget is one smaller from then on. Threads have a plain pointer to their
task. The comment at `group_task.cpp:790` reads as if the queue kept it alive
until it is finished, but the scheduler pops it: a thread that sleeps or reads
when the finished task is erased (or at a shutdown) uses freed memory.

## 10. Downloader

`gko3 down` and `serve` run one torrent in one process. The thread of
`io_service_` runs the handlers; what libtorrent, the tracker and the user do is
the environment.

| variable | code |
|---|---|
| `params` | the options that decide the control flow |
| `queue` | handlers of the io_service that are ready, in order |
| `armed` | timers that run |
| `at`, `loop`, `batch` | where ProcessAlert is, its parameter, the alerts it has popped |
| `alerts`, `torrent`, `finished`, `moving`, `removals` | libtorrent: alerts posted, the torrent and its handle, `is_finished`, a move of the data, removals asked for |
| `cluster` | the hdfs threads of section 7, as the return code sees them |
| `catch_stop_sigal`, `is_timeout_`, `is_mem_exceed_`, `should_stop_`, `ret` | the flags of those names and the return code |
| `ended` | `io_service_.run` has returned, or thrown |

A handler is one action, but for ProcessAlert, which is one per alert:
libtorrent's threads go on while it works. `RemoveTorrent` may throw, because
the handle may expire between its test and its use.

Run `downloader`: a command line without an end (progress and memory checks), one
that moves the data before it seeds, one with a timeout and hdfs; one error alert,
one removal under way, one order of the tracker to stop. A second removal finds
the handle no longer valid or is one more of the same. Deadlock is not checked: the
process ends.

Fairness. `Step` is weakly fair: the thread is in `io_service_.run`, which
returns only without work, and ProcessAlert posts itself. The timers that
`EndsWhenDue` depends on are strongly fair: asio looks at the timers between
handlers, so a timer that stays armed expires. libtorrent removes a torrent and
moves its data when asked (weak). Errors, finished torrents, signals, announces
and the tracker owe nothing. Timers that are started again between the stop and
the last ProcessAlert (2 s and 15 s) are assumed not to expire before it.

What the run taught, where no document says otherwise:

* a timeout while the data is still moved ends with 0, the data not being in its
  place yet; with dynamic_allocate likewise;
* the timeout of `-O` is not cancelled when the torrent is finished and cuts
  seeding short, with 0;
* if the seeding timer has removed the torrent and `-O` ends before the alert is
  processed, success is reported as a timeout;
* a later event overwrites the code of an earlier one, and an order of the
  tracker that answers the last announce overwrites 0 (but see `FailureKept`).

## 11. Findings

`agent_row`: GetStatus reads a completed task's status from `task.db`
(`Task.h:123`). The destructor of a task that Stop persists sets the row's
end_time like that of any other; the resumed task never clears it; the cleaner
deletes the row once it is old, although the task is running again. When that
task completes, the final UPDATE finds no row and clients are told the task
does not exist.

`tracker_count`: the status page's "set remote peers num" is wrong, and wraps
below zero, once a peer that downloaded first and seeded later has stopped: it was
never counted (`PeerHandler.cpp:181`), and is uncounted (110). The count is also
the width of the shift at line 173.

`cluster_stop`: StopDownload is to "tell all this cluster task's  downloading
thread to wake up and exit" (`group_cluster_task.h:39`). It takes no mutex: a
thread that has tested `should_stop_` (203) and is about to enter `cond_.wait`
(204) misses it and sleeps for good. `AwakeThreadsEnd` is what does hold.

## 12. Proofs

Each `_proofs` module holds for every value of the constants that satisfies the
`ASSUME`s of its model: sets are disjoint from the model value for "none", bounds
are numbers, requests come from the request set. Every theorem follows from an
inductive invariant with one lemma per action, built on lemmas for the pieces
actions share, and a temporal last step. A refinement takes one step more per
action: under the invariant it is a step of the abstract module or a stutter
(`Allowed`). `TypeOK` is a conjunct of each
inductive invariant; only `group_cluster` has it checked by TLC as well.

| module | theorem | states |
|---|---|---|
| `AgentTasks_proofs` | `TypeCorrect` | `[]TypeOK` |
| | `IndexesAlwaysExact` | `[]IndexesExact` |
| | `NoTorrentOrphaned` | `[]NoOrphanTorrent` |
| | `FinishedAlertNeverLost` | `[]FinishedAlertNotLost` |
| | `AgentImplementsRegistry` | `ImplementsRegistry`, the refinement |
| | `AcknowledgedTaskRuns` | `[]AckedTaskRuns` |
| | `EndedTaskAlwaysForgotten` | `[]EndedTaskForgotten` |
| | `RowAlwaysTellsFate` | `[]RowTellsFate` |
| `RemoteSync_proofs` | `TypeCorrect` | `[]TypeOK` |
| | `QueryExclusive` | `[]OneQueryPerInfohash` |
| | `NoLostWakeup` | `[]NoQueryForgotten` |
| | `StoresInOrder` | `[]AnswersInOrder` |
| | `SyncImplementsQueryTable` | `ImplementsQueryTable`, the refinement |
| `RedisPipeline_proofs` | `TypeCorrect` | `[]TypeOK` |
| | `CountsAlwaysExact` | `[]CountsExact` |
| | `ExecutedInOrder` | `[]AppliedInOrder` |
| | `FlagVouches` | `[]FlagMeansConnected` |
| | `PipelineImplementsChannel` | `ImplementsChannel`, the refinement |
| `TrackerPeers_proofs` | `TypeCorrect` | `[]TypeOK` |
| | `ChosenAlwaysInitialized` | `[]ChosenIsInitialized` |
| | `ChosenAlwaysKnown` | `[]ChosenIsKnown` |
| | `KnownAlwaysListed` | `[]KnownIsListed` |
| | `RemoteAlwaysKnown` | `[]RemoteIsKnown` |
| `ClusterDownload_proofs` | `TypeCorrect` | `[]TypeOK` |
| | `NoPieceOverlooked` | `[]NothingOverlooked` |
| | `DownloadImplementsTaskThreads` | `ImplementsTaskThreads`, a refinement |
| `GroupCluster_proofs` | `TypeCorrect` | `[]TypeOK` |
| | `BudgetAlwaysKept` | `[]BudgetKept` |
| | `NoTaskEverForgotten` | `[]NoTaskForgotten` |
| | `GroupImplementsTaskThreads` | `ImplementsTaskThreads`, a refinement |
| `GroupTasks_proofs` | `TypeCorrect` | `[]TypeOK` |
| | `RegisteredAlwaysVisible` | `[]RegisteredVisible` |
| | `FinishedAlertNeverLost` | `[]FinishedAlertNotLost` |
| | `FinishedListAlwaysSaved` | `[]FinishedListSaved` |
| `Downloader_proofs` | `TypeCorrect` | `[]TypeOK` |
| | `SuccessAlwaysMeansFinished` | `[]SuccessMeansFinished` |
| | `FailureAlwaysKept` | `FailureKept` |

**Agent.** Of the first four properties of `AgentTasks_proofs` the last three are not
inductive. Erasing by key is harmless only if the keys belong to the erased task
(`IndexesExact`); that ADD_TASK_TO_MAP does not overwrite a running task's
infohash follows from infohashes being unique in the session (`SessionOK`) and
the new torrent being in it at that point (`HoldOK`, at "added"); that a dying
object takes only its own torrent needs that a thread in a destructor holds the
sole reference to a task outside the map (`HoldOK`, `Sole`); that a new torrent is
fresh needs that ids not handed out are untouched (`BornOK`). `IInv` is the
conjunction. The restart depends on `DownOK`: with no process, no thread holds a
reference and the session is empty.

The refinement adds `TraceOK`: the PERSIST flag is on exactly the objects that
PersistTasks took out of the maps, which is how `Life` tells a parked task from
an ended one, and no file of a task being created is complete, so that no crash
brings back a task nobody was told of. `AcknowledgedTaskRuns` adds that one
thread saves and that tasks which enter the maps behind its back were never
acknowledged (`SaverOK`), and that a task nothing ended is in the maps with a
complete file, is being saved, or is saved (`Secure`). `EndedTaskAlwaysForgotten`
adds the order of an end (`Settled`): as long as a handler holds the task its
file is there, so its destructor is still to come (`Filed`); once that has begun
the row is closed (`Closed`); once it is done the file is gone. `RowAlwaysTellsFate`
adds that a task in the maps has no flag, so that the one a handler sets is the
reason of the end and waits for whoever drops the last reference (`Marked`), and
that the row tells it once the destructor has begun (`Told`), up to a restart that
finds a complete file and makes the task run again (`Truthful`). Tasks in
`faults`, whose statement or write failed, are excepted from the last three.

**Tracker.** `RemoteSync` lacks two facts to be inductive: a thread has an
infohash exactly while it works on it (`KeyWhileBusy`), and nothing stored is
newer than what redis has answered (`StoredIsAnswered`). That a store cannot
overwrite a newer answer is `QueryExclusive` at work: only the one thread that
has the infohash can add an answer or store one. `NotifyOneEffect` is the lemma
behind `NoLostWakeup`: a notification leaves some thread awake. The refinement
rests on `StageOf`: where an infohash is marked `true`, `OneQueryPerInfohash` makes
the thread that `Stage` chooses the only one, so that a step of a thread moves the
stage of its own infohash and, by `StageKept`, of no other; that a store is a
store of the table is `AnswersInOrder`.

In `RedisPipeline` order of execution needs the order of what is still to come:
the commands executed, those in the release context, those in the charge context
and the next to be charged are one increasing sequence (`StagesInOrder`,
`NextIsNew`). Counts are exact because whoever changes a context has its mutex
(`Exclusion`), and while the flag is up the connector is not at work on them
(`Connecting`, `FlagMeansConnected`). Lemmas on increasing sequences (a prefix
removed, a command appended, two joined) carry the sequence part.

In `TrackerPeers` the objects come first (`Objects`): a thread holds the object
of its peer of its infohash (`HandlerOK`), the map likewise (`MapOK`), and what
nothing refers to is free (`FreeOK`), so that an object given out again is never
in use. A peer that is in the map and not in the vectors was created by a thread
that has yet to list it, or under a stop (`CreatedOK`, `StopOK`): `KnownIsListed`
is that with the thread gone. A thread whose peer is not astray has the current
info, the peer for itself and the object the info has for it (`AstrayOK`); with
that, each peer in redis is known to have been set, or about to be
(`RemoteOK`).

**Downloads.** In `ClusterDownload`, that only pieces reach `add_piece` needs that
a thread at the read holds one (`PieceInHand`): the loop around `cond_.wait` never
ends with -1 but for a stop. That a thread with `get_from_hash_failed` overlooks
nothing is `ScanIsComplete` at the moment it turns to the queue, and lasts because
`have` only grows.

In `GroupTasks` a registered task stays visible through another task's end only
because an entry of the map is filed under the infohash of its task and an object
nobody was given is in no map and no thread (`KnownOK`, `BornOK`); that the
finished alert finds its timers free is `TimersOK`; the files of the next process
are right because nothing is registered and the flag is up when a process begins
(`DownOK`). `Core` are the parts that do not speak of the list.

In `Downloader` the return code can be 0 only at the end of a chain, each link a
conjunct: what follows a finished torrent follows only that (`FinishedFirst`); the
torrent is told to go only once the reason is kept in a flag or the code
(`RemovalTold`), and `should_stop_` is set only then (`StopTold`); ProcessAlert is
posted or under way until the alert of the removal has come (`StaysPosted`), so
the process does not return before (`EndTold`). `FailureKept` is about
steps and needs no invariant: each handler sets a failure or leaves the code.

The refinement `PipelineImplementsChannel` uses the same invariant. An append, an
executed reply and a failure that puts the flag down are steps of the channel;
the flush, the waits and the attempts to connect leave it alone. Two steps need
most of it: a swap, because a release context that the sender has
finished is empty by `CountsExact`, so what is under way does not change; and a
failure, where the executed part is a prefix of both contexts together.

In `GroupCluster` the count the scheduler tests is not the number of threads: one
is created before it is counted, and one that ends uncounted, while the count is
zero, is counted for good. The error goes in one direction. `CountOK` says that the
threads are never more than the count and the one that is not yet counted, and
that the count exceeds the budget only when the loop has been left, which is why
the next task is popped only under it; `BudgetKept` follows. What there is
to count is the set `Threads`: lemmas show that it gains or loses one element with
its task's crowd (`ThreadAdded`, `ThreadRemoved`) and loses none to a step that
only moves a thread. `NoTaskForgotten` is inductive with three more facts: the
scheduler has a task exactly while it works on one (`HandOK`), a task that
was not stopped has lost no thread (`StopOK`), so that a loop that has come to its
end leaves as many threads as it counted to (`LoopOK`). `StopOK` is also what
makes the module a `TaskThreads`: no thread leaves before its task is stopped.
For `ClusterDownload` the same refinement is about cardinalities: a step moves one
thread into `Begun` or `Ended`, and a thread ends only with `should_stop` set.

**Only model-checked.** The liveness properties of `agent_live`, `cluster`,
`remote_sync`, `redis_pipeline` and `downloader`: liveness under fairness is beyond
the prover. Every invariant and every step property of a passing run is a theorem.

## 13. Not modelled

* `TaskDB`: the Reconnect protocol. A failed `sqlite3_open` returns with
  `reconnecting_` set (`TaskDB.cpp:61`), and each later Reconnect waits for ever;
  `AgentTasks` knows of a failed statement only.
* Unix sockets (`UnixSocketConnection/Server/Client.cpp`, `BBTSClient.cpp`): the
  write queue, heartbeats, close. Requests reach `AgentTasks` as they are.
* The agent's metadata cache, and AgentSetopt/AgentGetopt, whose read, change and
  write of the session settings takes no lock (`TaskManager.cpp:617`): the last of
  two writers wins, and no task depends on it.
* A signal that interrupts a worker inside its critical section
  (`bbts_agent.cpp:131`): undefined behaviour of the C library.
* Task ids beyond 2^31: SeedingTimerCallback takes the 64-bit id as an int
  (`TaskManager.cpp:794`); the model's ids are few.
* The row that a failed add_torrent leaves with status DOWNLOAD
  (`Task.cpp:160`): `AddTorrentFails` leaves it, and no property forbids it.
* dynamic_allocate (a thread that allocates files while the priorities of all
  pieces are 0), in gko3 and bbts-group.
* The command lines, the control socket of gko3, the group client, reads of
  status and options, credentials: they change no state the models have.
* The thrift tracker client: the hash ring is a sequential computation; its
  answers are the tracker of `Downloader`.
* The tracker's status pages and http server, torrent making, file and path
  tools, log and statistics files: input, output and formatting.
* sqlite, minihttpd, thrift and protobuf output are foreign or generated code.
  They are most of the lines of the tree (sqlite alone about 150,000), and what
  the models map is small beside them for that reason.
