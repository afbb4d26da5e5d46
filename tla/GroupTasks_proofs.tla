-------------------------- MODULE GroupTasks_proofs --------------------------
(***************************************************************************)
(* Proofs about GroupTasks, for every number of clients, infohashes and    *)
(* objects and every set of requests, over any number of restarts.         *)
(***************************************************************************)
EXTENDS GroupTasks, TLAPS

At == {"idle", "adding", "refused", "control", "remove", "unmap", "settle", "persist",
       "hang", "generate", "collect", "clear", "load", "dead"}
Ret == {"idle", "control", "hang", "clear", "dead"}
ThreadType == [at : At, id : Ids \cup {None}, todo : (SUBSET Ids) \cup (SUBSET Infohash),
               ret : Ret]

(***************************************************************************)
(* The inductive invariant.  That a task is in the list or under its       *)
(* infohash survives a step of a thread that ends another task only        *)
(* because an entry is filed under the infohash of its task, and because   *)
(* an id that is given out is known to no map and no thread.               *)
(***************************************************************************)
Holding == {"adding", "refused", "remove", "unmap", "settle", "persist"}

\* What a thread has is an object that was created.
Fit(s) ==
  /\ s \in ThreadType
  /\ s.at \in Holding => s.id \in Ids
  /\ s.id \in Ids => s.id < nextId
  /\ \A t \in Ids : t \in s.todo => t < nextId

HoldOK(w) ==
  /\ Fit(thread[w])
  /\ thread[w].at = "adding" => alert[thread[w].id] # "lost"

KnownOK ==
  /\ \A t \in Ids : t < nextId => req[t] \in Request
  /\ \A t \in registered \cup torrent_map \cup finished : t < nextId
  /\ \A h \in Infohash : infohash_map[h] \in Ids =>
       infohash_map[h] < nextId /\ req[infohash_map[h]].infohash = h
  /\ \A h \in Infohash : resume[h] # None => resume[h].infohash = h

\* An object that nobody was given yet.
BornOK ==
  \A t \in Ids : ~(t < nextId) => alert[t] = "none" /\ handle[t] = "none" /\ timers[t] = 0

\* The seeding timer is armed by the finished alert, once.
TimersOK == \A t \in Ids : alert[t] \in {"none", "posted"} => timers[t] <= 1

DownOK ==
  phase = "down" => registered = {} /\ list_changed /\ \A w \in Thread : thread[w] = Idle

Core ==
  /\ TypeOK
  /\ \A w \in Thread : HoldOK(w)
  /\ KnownOK /\ BornOK /\ TimersOK /\ FinishedAlertNotLost

IInv == Core /\ DownOK /\ RegisteredVisible /\ FinishedListSaved

LEMMA ThreadsType == TypeOK => thread \in [Thread -> ThreadType]
  BY DEF TypeOK, ThreadType, At, Ret

LEMMA IdleFit == Fit(Idle) /\ Idle.at # "adding" /\ Idle.at # "collect"
  BY NoneAssumption DEF Idle, Fit, Holding, ThreadType, At, Ret

\* A busy thread runs in a process.
LEMMA Busy ==
  ASSUME IInv, NEW w \in Thread, thread[w].at # "idle"
  PROVE  phase # "down"
  BY DEF IInv, DownOK, Idle

-----------------------------------------------------------------------------
(***************************************************************************)
(* What the destructors leave: an object loses its alert only when no map  *)
(* and no thread has it any more, and a file is that of a task of its      *)
(* infohash.                                                               *)
(***************************************************************************)
LEMMA ForgetType ==
  ASSUME TypeOK, NEW S \in [Ids -> {"live", "over"}], ForgetObjects(Dying, S)
  PROVE  /\ control' \in [Ids -> {"live", "over"}]
         /\ end_time' \subseteq Ids
         /\ alert' \in [Ids -> {"none", "posted", "done", "lost"}]
         /\ timers' \in [Ids -> 0 .. 2]
  BY DEF TypeOK, ForgetObjects

LEMMA ForgetKeeps ==
  ASSUME TypeOK, BornOK, TimersOK, NEW S, ForgetObjects(Dying, S),
         \A t \in Ids : Referenced(t) => t < nextId,
         UNCHANGED <<nextId, handle>>
  PROVE  /\ BornOK' /\ TimersOK'
         /\ \A t \in Ids : Referenced(t)' => alert'[t] = alert[t]
<1>1. \A t \in Ids : alert'[t] = IF t \in Dying THEN "lost" ELSE alert[t]
  BY DEF ForgetObjects
<1>2. \A t \in Ids : timers'[t] = IF t \in Dying THEN 0 ELSE timers[t]
  BY DEF ForgetObjects
<1>3. \A t \in Dying : t < nextId
  BY DEF Dying
<1>4. BornOK'
  BY <1>1, <1>2, <1>3 DEF BornOK
<1>5. TimersOK'
  BY <1>1, <1>2 DEF TimersOK
<1>6. \A t \in Ids : Referenced(t)' => t \notin Dying
  BY DEF Dying
<1> QED  BY <1>1, <1>4, <1>5, <1>6

LEMMA DestroyFiles ==
  ASSUME TypeOK, KnownOK, NEW S, DestroyUnreferenced(S)
  PROVE  /\ resume' \in [Infohash -> Request \cup {None}]
         /\ \A h \in Infohash : resume'[h] # None => resume'[h].infohash = h
<1>1. resume' \in [Infohash -> Request \cup {None}]
  BY DEF DestroyUnreferenced
<1>2. ASSUME NEW h \in Infohash, resume'[h] # None
      PROVE  resume'[h].infohash = h
  <2> DEFINE dying == {t \in Dying : req[t].infohash = h}
  <2>1. CASE dying = {}
    BY <1>2, <2>1 DEF DestroyUnreferenced, KnownOK
  <2>2. CASE dying # {}
    <3>1. PICK t \in dying : resume'[h] = Persisted(t, S)
      BY <2>2 DEF DestroyUnreferenced
    <3> QED  BY <1>2, <3>1 DEF Persisted
  <2> QED  BY <2>1, <2>2
<1> QED  BY <1>1, <1>2

\* Whoever is referenced has been given out.
LEMMA ReferencedBorn ==
  ASSUME IInv
  PROVE  \A t \in Ids : Referenced(t) => t < nextId
<1> SUFFICES ASSUME NEW t \in Ids, Referenced(t) PROVE t < nextId
  OBVIOUS
<1>1. CASE t \in torrent_map \cup finished
  BY <1>1 DEF IInv, Core, KnownOK
<1>2. CASE \E h \in Infohash : infohash_map[h] = t
  BY <1>2 DEF IInv, Core, KnownOK
<1>3. CASE \E w \in Thread : thread[w].id = t \/ t \in thread[w].todo
  BY <1>3 DEF IInv, Core, HoldOK, Fit
<1> QED  BY <1>1, <1>2, <1>3 DEF Referenced

\* One thread goes on to s and the others stay as they are.
LEMMA GoesOn ==
  ASSUME IInv, NEW w \in Thread, NEW s, Fit(s), s.at # "adding",
         thread' = [thread EXCEPT ![w] = s], nextId' \in Int, nextId <= nextId'
  PROVE  /\ thread' \in [Thread -> ThreadType]
         /\ \A v \in Thread : Fit(thread[v])' /\ (thread'[v].at = "adding" => thread'[v] = thread[v])
<1>1. thread \in [Thread -> ThreadType]
  BY ThreadsType DEF IInv, Core
<1>2. thread' \in [Thread -> ThreadType]
  BY <1>1 DEF Fit
<1>3. ASSUME NEW v \in Thread
      PROVE  Fit(thread'[v]) /\ (thread'[v].at = "adding" => thread'[v] = thread[v])
  BY <1>1 DEF IInv, Core, HoldOK
<1>4. ASSUME NEW v \in Thread PROVE Fit(thread[v])'
  BY <1>3 DEF Fit, IInv, Core, TypeOK, Ids
<1> QED  BY <1>2, <1>3, <1>4

(***************************************************************************)
(* A step that destroys what nothing refers to any more, and takes tasks   *)
(* out of the maps and the list if it changes them at all.                 *)
(***************************************************************************)
LEMMA ForgetStep ==
  ASSUME IInv, NEW S \in [Ids -> {"live", "over"}], ForgetObjects(Dying, S),
         resume' \in [Infohash -> Request \cup {None}],
         \A h \in Infohash : resume'[h] # None => resume'[h].infohash = h,
         NEW w \in Thread, NEW s, Fit(s), s.at # "adding",
         thread' = [thread EXCEPT ![w] = s],
         UNCHANGED <<nextId, req, handle, finished_file>>,
         phase' \in {"up", "quit", "down"},
         torrent_map' \subseteq torrent_map, finished' \subseteq finished,
         registered' \subseteq registered, loaded' \subseteq Infohash,
         list_changed' \in BOOLEAN,
         infohash_map' \in [Infohash -> Ids \cup {Null, None}],
         \A h \in Infohash : infohash_map'[h] \in {infohash_map[h], None}
  PROVE  Core'
<1>0. nextId' \in Int /\ nextId <= nextId'
  BY BoundAssumption DEF IInv, Core, TypeOK
<1>1. /\ thread' \in [Thread -> ThreadType]
      /\ \A v \in Thread : Fit(thread[v])' /\ (thread'[v].at = "adding" => thread'[v] = thread[v])
  BY <1>0, GoesOn
<1> USE DEF IInv, Core
<1>2. TypeOK'
  BY <1>1, ForgetType DEF TypeOK, ThreadType, At, Ret
<1>3. BornOK' /\ TimersOK' /\ \A t \in Ids : Referenced(t)' => alert'[t] = alert[t]
  BY ForgetKeeps, ReferencedBorn
<1>4. ASSUME NEW v \in Thread PROVE HoldOK(v)'
  <2>1. thread'[v].at = "adding" => alert'[thread'[v].id] # "lost"
    <3> SUFFICES ASSUME thread'[v].at = "adding" PROVE alert'[thread'[v].id] # "lost"
      OBVIOUS
    <3>1. thread'[v] = thread[v] /\ thread[v].id \in Ids
      BY <1>1 DEF HoldOK, Fit, Holding
    <3>2. Referenced(thread[v].id)'
      BY <3>1 DEF Referenced
    <3> QED  BY <1>3, <3>1, <3>2 DEF HoldOK
  <2> QED  BY <1>1, <2>1 DEF HoldOK
<1>5. KnownOK'
  <2>1. \A t \in (registered \cup torrent_map \cup finished)' : t < nextId'
    BY DEF KnownOK
  <2>2. ASSUME NEW h \in Infohash, infohash_map'[h] \in Ids
        PROVE  infohash_map'[h] < nextId' /\ req'[infohash_map'[h]].infohash = h
    BY <2>2, NoneAssumption DEF KnownOK
  <2> QED  BY <2>1, <2>2 DEF KnownOK
<1>6. FinishedAlertNotLost'
  <2> SUFFICES ASSUME NEW t \in torrent_map' PROVE alert'[t] # "lost"
    BY DEF FinishedAlertNotLost
  <2>1. t \in Ids /\ t \in torrent_map /\ Referenced(t)'
    BY DEF Referenced, TypeOK
  <2> QED  BY <1>3, <2>1 DEF FinishedAlertNotLost
<1> QED  BY <1>2, <1>3, <1>4, <1>5, <1>6

\* A step that changes neither the maps nor the list.
LEMMA ForgetOnly ==
  ASSUME IInv, NEW S \in [Ids -> {"live", "over"}], ForgetObjects(Dying, S),
         resume' \in [Infohash -> Request \cup {None}],
         \A h \in Infohash : resume'[h] # None => resume'[h].infohash = h,
         NEW w \in Thread, NEW s, Fit(s), s.at # "adding",
         thread' = [thread EXCEPT ![w] = s],
         w = Io => (s.at = "collect" <=> thread[Io].at = "collect"),
         UNCHANGED <<phase, nextId, req, maps, list, handle, finished_file, registered>>,
         phase # "down"
  PROVE  IInv'
<1>1. Core'
  BY ForgetStep DEF IInv, Core, TypeOK, maps, list
<1>2. thread'[Io].at = "collect" <=> thread[Io].at = "collect"
  BY DEF IInv, Core, TypeOK, Thread
<1>3. DownOK'
  BY DEF DownOK
<1>4. RegisteredVisible'
  BY DEF RegisteredVisible, maps, list, IInv
<1>5. FinishedListSaved'
  BY <1>2 DEF FinishedListSaved, list, IInv
<1> QED  BY <1>1, <1>3, <1>4, <1>5 DEF IInv

LEMMA DestroyOnly ==
  ASSUME IInv, NEW S \in [Ids -> {"live", "over"}], DestroyUnreferenced(S),
         NEW w \in Thread, NEW s, Fit(s), s.at # "adding",
         thread' = [thread EXCEPT ![w] = s],
         w = Io => (s.at = "collect" <=> thread[Io].at = "collect"),
         UNCHANGED <<phase, nextId, req, maps, list, handle, finished_file, registered>>,
         phase # "down"
  PROVE  IInv'
<1>1. ForgetObjects(Dying, S)
  BY DEF DestroyUnreferenced
<1>2. /\ resume' \in [Infohash -> Request \cup {None}]
      /\ \A h \in Infohash : resume'[h] # None => resume'[h].infohash = h
  BY DestroyFiles DEF IInv, Core
<1> QED  BY <1>1, <1>2, ForgetOnly

\* A step that changes one thread only.
LEMMA ThreadOnly ==
  ASSUME IInv, NEW w \in Thread, NEW s, Fit(s), s.at # "adding",
         thread' = [thread EXCEPT ![w] = s],
         w = Io => (s.at = "collect" <=> thread[Io].at = "collect"),
         UNCHANGED <<phase, nextId, maps, list, object, disk, registered>>,
         phase # "down"
  PROVE  IInv'
<1>0. nextId' \in Int /\ nextId <= nextId'
  BY BoundAssumption DEF IInv, Core, TypeOK, object
<1>1. /\ thread' \in [Thread -> ThreadType]
      /\ \A v \in Thread : Fit(thread[v])' /\ (thread'[v].at = "adding" => thread'[v] = thread[v])
  BY <1>0, GoesOn
<1> USE DEF IInv, Core, maps, list, object, disk
<1>2. TypeOK'
  BY <1>1 DEF TypeOK, ThreadType, At, Ret
<1>3. \A v \in Thread : HoldOK(v)'
  BY <1>1 DEF HoldOK
<1>4. thread'[Io].at = "collect" <=> thread[Io].at = "collect"
  BY DEF TypeOK, Thread
<1>5. KnownOK' /\ BornOK' /\ TimersOK' /\ FinishedAlertNotLost'
  BY DEF KnownOK, BornOK, TimersOK, FinishedAlertNotLost
<1>6. DownOK' /\ RegisteredVisible' /\ FinishedListSaved'
  BY <1>4 DEF DownOK, RegisteredVisible, FinishedListSaved
<1> QED  BY <1>2, <1>3, <1>5, <1>6

-----------------------------------------------------------------------------
(***************************************************************************)
(* The records that threads go on to.                                      *)
(***************************************************************************)
LEMMA ThroughFit ==
  ASSUME IInv, NEW w \in Thread, NEW t, Through(w, t)
  PROVE  \E s : Fit(s) /\ s.at \notin {"adding", "collect"} /\ thread' = [thread EXCEPT ![w] = s]
<1> DEFINE rest == thread[w].todo \ {t}
           next == [at |-> thread[w].ret, id |-> None, todo |-> rest, ret |-> thread[w].ret]
<1>1. Fit(thread[w]) /\ thread[w] \in ThreadType
  BY DEF IInv, Core, HoldOK, Fit
<1>2. Fit(next) /\ next.at \notin {"adding", "collect"}
  BY <1>1, NoneAssumption DEF Fit, ThreadType, At, Ret, Holding
<1>3. thread' = [thread EXCEPT ![w] = Idle] \/ thread' = [thread EXCEPT ![w] = next]
  BY DEF Through
<1> QED  BY <1>2, <1>3, IdleFit

\* Thread w holds the task t in the state at.
LEMMA HoldingFit ==
  ASSUME IInv, NEW w \in Thread, NEW at \in Holding, NEW t \in Ids, t < nextId,
         NEW T \in SUBSET thread[w].todo
  PROVE  Fit([thread[w] EXCEPT !.at = at, !.id = t, !.todo = T])
<1>1. Fit(thread[w]) /\ thread[w] \in ThreadType
  BY DEF IInv, Core, HoldOK, Fit
<1> QED  BY <1>1 DEF Fit, ThreadType, At, Holding

LEMMA EnterFit ==
  ASSUME IInv, NEW w \in Thread, NEW t \in Ids, EnterRemove(w, t)
  PROVE  \E s : Fit(s) /\ s.at \notin {"adding", "collect"} /\ thread' = [thread EXCEPT ![w] = s]
<1> DEFINE s == [thread[w] EXCEPT !.at = "remove", !.id = t, !.todo = thread[w].todo \ {t}]
<1>1. t < nextId
  BY DEF EnterRemove, IsValid, IInv, Core, BornOK
<1>2. "remove" \in Holding /\ thread[w].todo \ {t} \in SUBSET thread[w].todo
  BY DEF Holding
<1>3. Fit(s)
  BY <1>1, <1>2, HoldingFit
<1>4. thread \in [Thread -> ThreadType]
  BY ThreadsType DEF IInv, Core
<1>5. thread' = [thread EXCEPT ![w] = s] /\ s.at = "remove"
  BY <1>4 DEF EnterRemove, ThreadType
<1> QED  BY <1>3, <1>5

\* Thread w goes on with the task it holds.
LEMMA NextFit ==
  ASSUME IInv, NEW w \in Thread, thread[w].at \in Holding, NEW at \in Holding
  PROVE  /\ Fit([thread[w] EXCEPT !.at = at])
         /\ [thread EXCEPT ![w].at = at] = [thread EXCEPT ![w] = [thread[w] EXCEPT !.at = at]]
         /\ [thread[w] EXCEPT !.at = at].at = at
         /\ thread[w].id \in Ids /\ thread[w].id < nextId
         /\ req[thread[w].id] \in Request /\ req[thread[w].id].infohash \in Infohash
<1>1. Fit(thread[w]) /\ thread[w] \in ThreadType
  BY DEF IInv, Core, HoldOK, Fit
<1>2. Fit([thread[w] EXCEPT !.at = at])
  BY <1>1 DEF Fit, ThreadType, At, Holding
<1>3. thread \in [Thread -> ThreadType]
  BY ThreadsType DEF IInv, Core
<1>4. thread[w].id \in Ids /\ thread[w].id < nextId /\ req[thread[w].id] \in Request
  BY <1>1 DEF Fit, IInv, Core, KnownOK
<1>5. req[thread[w].id].infohash \in Infohash
  BY <1>4, RequestAssumption DEF Requests
<1> QED  BY <1>1, <1>2, <1>3, <1>4, <1>5 DEF ThreadType

-----------------------------------------------------------------------------
(***************************************************************************)
(* Actions that change a thread, and destroy what it was the last to hold. *)
(***************************************************************************)
LEMMA ControlCallsKeep ==
  ASSUME IInv, NEW c \in Thread,
         (\E t \in Ids : ControlTaskByInfohash(c, t)) \/ ControlAllTasks(c)
  PROVE  IInv'
<1> DEFINE s(T) == [at |-> "control", id |-> None, todo |-> T, ret |-> "control"]
<1>1. ASSUME NEW T \in SUBSET Mapped PROVE Fit(s(T))
  BY NoneAssumption DEF Fit, ThreadType, At, Ret, Holding, Mapped, IInv, Core, KnownOK
<1>2. \E T \in SUBSET Mapped : thread' = [thread EXCEPT ![c] = s(T)]
  BY DEF ControlTaskByInfohash, ControlAllTasks
<1>3. phase # "down" /\ c # Io /\ UNCHANGED <<phase, nextId, maps, list, object, disk, registered>>
  BY ThreadAssumption DEF ControlTaskByInfohash, ControlAllTasks, Ready
<1> QED  BY <1>1, <1>2, <1>3, ThreadOnly

LEMMA TimerCallbackKeeps ==
  ASSUME IInv, TimerCallback PROVE IInv'
<1> DEFINE s == [at |-> "hang", id |-> None, todo |-> Mapped, ret |-> "hang"]
<1>1. Fit(s)
  BY NoneAssumption DEF Fit, ThreadType, At, Ret, Holding, Mapped, IInv, Core, KnownOK
<1>2. thread[Io].at # "collect" /\ phase # "down" /\ Io \in Thread
  BY IdleFit DEF TimerCallback, Ready, Thread
<1> QED  BY <1>1, <1>2, ThreadOnly DEF TimerCallback

LEMMA StartDownloadFailsKeeps ==
  ASSUME IInv, NEW t \in Ids, StartDownloadFails(t) PROVE IInv'
<1>1. thread[Io].at # "collect" /\ phase # "down" /\ Io \in Thread
  BY IdleFit DEF StartDownloadFails, Ready, Thread
<1> QED  BY <1>1, EnterFit, ThreadOnly DEF StartDownloadFails

LEMMA UnmapNullKeeps ==
  ASSUME IInv, NEW w \in Thread, UnmapNull(w) PROVE IInv'
<1>1. thread[w].at \in Holding /\ "settle" \in Holding /\ phase # "down"
  BY Busy DEF UnmapNull, Holding
<1>2. thread[w].at # "collect"
  BY DEF UnmapNull
<1> QED  BY <1>1, <1>2, NextFit, ThreadOnly DEF UnmapNull

LEMMA DropRefusedKeeps ==
  ASSUME IInv, NEW w \in Thread, DropRefused(w) PROVE IInv'
<1>1. phase # "down" /\ thread[w].at # "collect" /\ control \in [Ids -> {"live", "over"}]
  BY Busy DEF DropRefused, IInv, Core, TypeOK
<1> QED  BY <1>1, IdleFit, DestroyOnly DEF DropRefused

LEMMA CancelKeeps ==
  ASSUME IInv, NEW w \in Thread, NEW t \in Ids, Cancel(w, t) PROVE IInv'
<1> DEFINE S == [control EXCEPT ![t] = "over"]
<1>1. phase # "down" /\ thread[w].at # "collect" /\ S \in [Ids -> {"live", "over"}]
  BY Busy DEF Cancel, IInv, Core, TypeOK
<1>2. \E s : Fit(s) /\ s.at \notin {"adding", "collect"} /\ thread' = [thread EXCEPT ![w] = s]
  BY EnterFit, ThroughFit DEF Cancel
<1>3. DestroyUnreferenced(S)
  BY DEF Cancel
<1>4. UNCHANGED <<phase, nextId, req, maps, list, handle, finished_file, registered>>
  BY DEF Cancel
<1> QED  BY <1>1, <1>2, <1>3, <1>4, DestroyOnly

LEMMA PauseOrResumeKeeps ==
  ASSUME IInv, NEW w \in Thread, NEW t \in Ids, PauseOrResume(w, t) PROVE IInv'
<1> DEFINE S == [control EXCEPT ![t] = "live"]
<1>1. phase # "down" /\ thread[w].at # "collect" /\ S \in [Ids -> {"live", "over"}]
  BY Busy DEF PauseOrResume, IInv, Core, TypeOK
<1>2. \E s : Fit(s) /\ s.at \notin {"adding", "collect"} /\ thread' = [thread EXCEPT ![w] = s]
  BY ThroughFit DEF PauseOrResume
<1>3. DestroyUnreferenced(S)
  BY DEF PauseOrResume
<1>4. UNCHANGED <<phase, nextId, req, maps, list, handle, finished_file, registered>>
  BY DEF PauseOrResume
<1> QED  BY <1>1, <1>2, <1>3, <1>4, DestroyOnly

LEMMA HangCheckCallbackKeeps ==
  ASSUME IInv, NEW t \in Ids, HangCheckCallback(t) PROVE IInv'
<1>1. /\ phase # "down" /\ thread[Io].at # "collect" /\ Io \in Thread
      /\ control \in [Ids -> {"live", "over"}]
  BY Busy DEF HangCheckCallback, IInv, Core, TypeOK, Thread
<1>2. \E s : Fit(s) /\ s.at \notin {"adding", "collect"} /\ thread' = [thread EXCEPT ![Io] = s]
  BY <1>1, EnterFit, ThroughFit DEF HangCheckCallback
<1>3. DestroyUnreferenced(control)
  BY DEF HangCheckCallback
<1>4. UNCHANGED <<phase, nextId, req, maps, list, handle, finished_file, registered>>
  BY DEF HangCheckCallback
<1> QED  BY <1>1, <1>2, <1>3, <1>4, DestroyOnly

LEMMA RemoveTorrentThrowsKeeps ==
  ASSUME IInv, NEW w \in Thread, RemoveTorrentThrows(w) PROVE IInv'
<1> DEFINE dead == [at |-> "dead", id |-> None, todo |-> {}, ret |-> "dead"]
<1>1. /\ phase # "down" /\ thread[w].at # "collect"
      /\ control \in [Ids -> {"live", "over"}]
  BY Busy DEF RemoveTorrentThrows, IInv, Core, TypeOK
<1>2. Fit(dead)
  BY NoneAssumption DEF Fit, ThreadType, At, Ret, Holding
<1>3. \E s : Fit(s) /\ s.at \notin {"adding", "collect"} /\ thread' = [thread EXCEPT ![w] = s]
  BY <1>2, IdleFit DEF RemoveTorrentThrows
<1>4. DestroyUnreferenced(control)
  BY DEF RemoveTorrentThrows
<1>5. UNCHANGED <<phase, nextId, req, maps, list, handle, finished_file, registered>>
  BY DEF RemoveTorrentThrows
<1> QED  BY <1>1, <1>3, <1>4, <1>5, DestroyOnly

LEMMA PersistKeeps ==
  ASSUME IInv, NEW w \in Thread, Persist(w) PROVE IInv'
<1>1. phase # "down" /\ thread[w].at # "collect" /\ control \in [Ids -> {"live", "over"}]
  BY Busy DEF Persist, IInv, Core, TypeOK
<1>2. \E s : Fit(s) /\ s.at \notin {"adding", "collect"} /\ thread' = [thread EXCEPT ![w] = s]
  BY ThroughFit DEF Persist
<1>3. thread[w].at \in Holding
  BY DEF Persist, Holding
<1>4. Persisted(thread[w].id, control) \in {req[thread[w].id], None}
  BY DEF Persisted
<1>5. resume' = [resume EXCEPT ![req[thread[w].id].infohash] = Persisted(thread[w].id, control)]
  BY DEF Persist
<1>6. resume' \in [Infohash -> Request \cup {None}]
  BY <1>3, <1>4, <1>5, NextFit DEF IInv, Core, TypeOK
<1>7. \A h \in Infohash : resume'[h] # None => resume'[h].infohash = h
  BY <1>4, <1>5 DEF IInv, Core, TypeOK, KnownOK
<1>8. ForgetObjects(Dying, control)
  BY DEF Persist
<1>9. UNCHANGED <<phase, nextId, req, maps, list, handle, finished_file, registered>>
  BY DEF Persist
<1> QED  BY <1>1, <1>2, <1>6, <1>7, <1>8, <1>9, ForgetOnly

-----------------------------------------------------------------------------
(***************************************************************************)
(* Actions that create an object, or enter it into the maps.               *)
(***************************************************************************)
\* A new object disturbs nothing: nobody knows its id.
LEMMA NewObject ==
  ASSUME IInv, nextId \in Ids, nextId' = nextId + 1, NEW r \in Request,
         req' = [req EXCEPT ![nextId] = r]
  PROVE  /\ nextId' \in Int /\ nextId <= nextId' /\ nextId' \in 1 .. MaxId + 1
         /\ \A t \in Ids : t < nextId => t < nextId' /\ req'[t] = req[t]
         /\ req'[nextId] = r /\ r.infohash \in Infohash
         /\ \A t \in Ids : t < nextId' => req'[t] \in Request
         /\ \A t \in Ids : ~(t < nextId') => ~(t < nextId) /\ t # nextId
         /\ req' \in [Ids -> Request \cup {None}]
         /\ alert[nextId] = "none"
<1>1. nextId \in Int /\ MaxId \in Int
  BY BoundAssumption DEF Ids
<1>2. \A t \in Ids : t \in Int
  BY <1>1 DEF Ids
<1>3. req \in [Ids -> Request \cup {None}]
  BY DEF IInv, Core, TypeOK
<1>4. r.infohash \in Infohash
  BY RequestAssumption DEF Requests
<1>5. \A t \in Ids : t < nextId' => t < nextId \/ t = nextId
  BY <1>1, <1>2
<1>6. \A t \in Ids : t < nextId' => req'[t] \in Request
  BY <1>3, <1>5 DEF IInv, Core, KnownOK
<1>7. alert[nextId] = "none"
  BY <1>1 DEF IInv, Core, BornOK
<1>8. nextId' \in 1 .. MaxId + 1
  BY <1>1 DEF Ids
<1> QED  BY <1>1, <1>2, <1>3, <1>4, <1>6, <1>7, <1>8

LEMMA NewHolder ==
  ASSUME IInv, nextId \in Ids, nextId' = nextId + 1,
         NEW c \in Thread, NEW at \in Holding,
         thread' = [thread EXCEPT ![c] = [thread[c] EXCEPT !.at = at, !.id = nextId]]
  PROVE  \A v \in Thread : Fit(thread[v])'
<1> DEFINE s == [thread[c] EXCEPT !.at = at, !.id = nextId]
<1> SUFFICES ASSUME NEW v \in Thread PROVE Fit(thread[v])'
  OBVIOUS
<1>1. Fit(thread[v]) /\ thread[v] \in ThreadType
  BY DEF IInv, Core, HoldOK, Fit
<1>2. thread \in [Thread -> ThreadType]
  BY ThreadsType DEF IInv, Core
<1>3. nextId < nextId' /\ \A t \in Ids : t < nextId => t < nextId'
  BY BoundAssumption DEF Ids
<1>4. CASE v = c
  <2>1. thread'[v] = s
    BY <1>2, <1>4
  <2>2. s \in ThreadType
    BY <1>1, <1>4 DEF ThreadType, At, Holding
  <2>3. s.at = at /\ s.id = nextId /\ s.todo = thread[v].todo
    BY <1>1, <1>4 DEF ThreadType
  <2>4. \A t \in Ids : t \in s.todo => t < nextId'
    BY <1>1, <1>3, <2>3 DEF Fit
  <2> QED  BY <1>3, <2>1, <2>2, <2>3, <2>4 DEF Fit
<1>5. CASE v # c
  <2>1. thread'[v] = thread[v]
    BY <1>2, <1>5
  <2> QED  BY <1>1, <1>3, <2>1 DEF Fit
<1> QED  BY <1>4, <1>5

LEMMA AddTaskKeeps ==
  ASSUME IInv, NEW c \in Thread, NEW r \in Request, AddTask(c, r) PROVE IInv'
<1> DEFINE s == [thread[c] EXCEPT !.at = "adding", !.id = nextId]
<1>1. /\ c \in Client /\ c # Io /\ thread[c] = Idle /\ phase = "up" /\ nextId <= MaxId
      /\ Create(nextId, r)
      /\ thread' = [thread EXCEPT ![c].at = "adding", ![c].id = nextId]
      /\ UNCHANGED <<phase, maps, list, control, end_time, alert, finished_file, registered>>
  BY ThreadAssumption DEF AddTask, Ready
<1>2. nextId \in Ids
  BY <1>1, BoundAssumption DEF IInv, Core, TypeOK, Ids
<1>3. /\ nextId' \in Int /\ nextId <= nextId' /\ nextId' \in 1 .. MaxId + 1
      /\ \A t \in Ids : t < nextId => t < nextId' /\ req'[t] = req[t]
      /\ req'[nextId] = r /\ r.infohash \in Infohash
      /\ \A t \in Ids : t < nextId' => req'[t] \in Request
      /\ \A t \in Ids : ~(t < nextId') => ~(t < nextId) /\ t # nextId
      /\ req' \in [Ids -> Request \cup {None}]
      /\ alert[nextId] = "none"
  BY <1>1, <1>2, NewObject DEF Create
<1>4. thread \in [Thread -> ThreadType]
  BY ThreadsType DEF IInv, Core
<1>5. thread' = [thread EXCEPT ![c] = s] /\ s.at = "adding" /\ s.id = nextId
  BY <1>1, <1>4 DEF ThreadType
<1>6. \A v \in Thread : Fit(thread[v])'
  BY <1>1, <1>2, <1>5, NewHolder DEF Create, Holding
<1>7. \A v \in Thread : HoldOK(v)'
  BY <1>1, <1>3, <1>4, <1>5, <1>6 DEF HoldOK, IInv, Core
<1>8. TypeOK'
  <2>1. thread' \in [Thread -> ThreadType]
    BY <1>4, <1>5, <1>6 DEF Fit
  <2>2. /\ handle' \in [Ids -> {"none", "session", "removed", "expired"}]
        /\ timers' \in [Ids -> 0 .. 2]
        /\ resume' \in [Infohash -> Request \cup {None}]
    BY <1>1, <1>2, <1>3 DEF Create, IInv, Core, TypeOK
  <2> QED  BY <1>1, <1>3, <2>1, <2>2 DEF IInv, Core, TypeOK, maps, list, ThreadType, At, Ret
<1>9. KnownOK'
  BY <1>1, <1>2, <1>3 DEF IInv, Core, TypeOK, KnownOK, maps, list, Create
<1>10. BornOK'
  BY <1>1, <1>3 DEF Create, BornOK, IInv, Core
<1>11. TimersOK'
  BY <1>1, <1>2 DEF Create, TimersOK, IInv, Core, TypeOK
<1>12. FinishedAlertNotLost' /\ DownOK'
  BY <1>1 DEF FinishedAlertNotLost, DownOK, IInv, Core, maps, list
<1>13. RegisteredVisible'
  BY <1>1, <1>3 DEF RegisteredVisible, IInv, Core, TypeOK, KnownOK, maps, list
<1>14. FinishedListSaved'
  <2>1. thread'[Io] = thread[Io]
    BY <1>1, <1>4, <1>5 DEF Thread
  <2>2. {req'[t].infohash : t \in finished} = {req[t].infohash : t \in finished}
    BY <1>3 DEF IInv, Core, TypeOK, KnownOK
  <2> QED  BY <1>1, <2>1, <2>2 DEF FinishedListSaved, IInv, list
<1> QED  BY <1>7, <1>8, <1>9, <1>10, <1>11, <1>12, <1>13, <1>14 DEF IInv, Core

LEMMA AddTaskFailsKeeps ==
  ASSUME IInv, NEW c \in Thread, NEW r \in Request, AddTaskFails(c, r) PROVE IInv'
<1> DEFINE s == [thread[c] EXCEPT !.at = "refused", !.id = nextId]
<1>1. /\ c \in Client /\ c # Io /\ thread[c] = Idle /\ phase = "up" /\ nextId <= MaxId
      /\ nextId' = nextId + 1
      /\ req' = [req EXCEPT ![nextId] = r]
      /\ thread' = [thread EXCEPT ![c].at = "refused", ![c].id = nextId]
      /\ UNCHANGED <<phase, maps, list, handle, control, end_time, alert, timers, disk, registered>>
  BY ThreadAssumption DEF AddTaskFails, Ready
<1>2. nextId \in Ids
  BY <1>1, BoundAssumption DEF IInv, Core, TypeOK, Ids
<1>3. /\ nextId' \in Int /\ nextId <= nextId' /\ nextId' \in 1 .. MaxId + 1
      /\ \A t \in Ids : t < nextId => t < nextId' /\ req'[t] = req[t]
      /\ \A t \in Ids : t < nextId' => req'[t] \in Request
      /\ \A t \in Ids : ~(t < nextId') => ~(t < nextId) /\ t # nextId
      /\ req' \in [Ids -> Request \cup {None}]
  BY <1>1, <1>2, NewObject
<1>4. thread \in [Thread -> ThreadType]
  BY ThreadsType DEF IInv, Core
<1>5. thread' = [thread EXCEPT ![c] = s] /\ s.at = "refused" /\ s.id = nextId
  BY <1>1, <1>4 DEF ThreadType
<1>6. \A v \in Thread : Fit(thread[v])'
  BY <1>1, <1>2, <1>5, NewHolder DEF Holding
<1>7. \A v \in Thread : HoldOK(v)'
  BY <1>1, <1>4, <1>5, <1>6 DEF HoldOK, IInv, Core
<1>8. TypeOK'
  <2>1. thread' \in [Thread -> ThreadType]
    BY <1>4, <1>5, <1>6 DEF Fit
  <2> QED  BY <1>1, <1>3, <2>1 DEF IInv, Core, TypeOK, maps, list, disk, ThreadType, At, Ret
<1>9. KnownOK'
  BY <1>1, <1>2, <1>3 DEF IInv, Core, TypeOK, KnownOK, maps, list, disk
<1>10. BornOK' /\ TimersOK' /\ FinishedAlertNotLost' /\ DownOK'
  BY <1>1, <1>3 DEF BornOK, TimersOK, FinishedAlertNotLost, DownOK, IInv, Core, maps, list
<1>11. RegisteredVisible'
  BY <1>1, <1>3 DEF RegisteredVisible, IInv, Core, TypeOK, KnownOK, maps, list
<1>12. FinishedListSaved'
  <2>1. thread'[Io] = thread[Io]
    BY <1>1, <1>4, <1>5 DEF Thread
  <2>2. {req'[t].infohash : t \in finished} = {req[t].infohash : t \in finished}
    BY <1>3 DEF IInv, Core, TypeOK, KnownOK
  <2> QED  BY <1>1, <2>1, <2>2 DEF FinishedListSaved, IInv, list, disk
<1> QED  BY <1>7, <1>8, <1>9, <1>10, <1>11, <1>12 DEF IInv, Core

LEMMA AddTaskEndsKeeps ==
  ASSUME IInv, NEW c \in Thread, AddTaskEnds(c) PROVE IInv'
<1> DEFINE t == thread[c].id
           h == req[t].infohash
           s == [thread[c] EXCEPT !.at = "refused"]
<1>1. thread[c].at = "adding" /\ UNCHANGED <<phase, nextId, list, object, disk>> /\ phase # "down"
  BY Busy DEF AddTaskEnds
<1>2. /\ Fit(s) /\ s.at = "refused"
      /\ [thread EXCEPT ![c].at = "refused"] = [thread EXCEPT ![c] = s]
      /\ t \in Ids /\ t < nextId /\ req[t] \in Request /\ h \in Infohash
  BY <1>1, NextFit DEF Holding
<1>3. CASE infohash_map[h] # None
  <2>1. thread' = [thread EXCEPT ![c] = s] /\ UNCHANGED <<maps, registered>>
    BY <1>2, <1>3 DEF AddTaskEnds
  <2> QED  BY <1>1, <1>2, <2>1, ThreadOnly
<1>4. CASE infohash_map[h] = None
  <2>1. AddTaskToMap(t, h) /\ thread' = [thread EXCEPT ![c] = Idle]
    BY <1>4 DEF AddTaskEnds
  <2>2. nextId' \in Int /\ nextId <= nextId'
    BY <1>1, BoundAssumption DEF IInv, Core, TypeOK
  <2>3. /\ thread' \in [Thread -> ThreadType]
        /\ \A v \in Thread : Fit(thread[v])' /\ (thread'[v].at = "adding" => thread'[v] = thread[v])
    BY <2>1, <2>2, IdleFit, GoesOn
  <2>4. alert[t] # "lost"
    BY <1>1 DEF IInv, Core, HoldOK
  <2> USE DEF IInv, Core, list, object, disk, AddTaskToMap
  <2>5. TypeOK'
    BY <1>1, <1>2, <2>1, <2>3 DEF TypeOK, ThreadType, At, Ret
  <2>6. \A v \in Thread : HoldOK(v)'
    BY <1>1, <2>3 DEF HoldOK
  <2>7. KnownOK'
    BY <1>1, <1>2, <2>1 DEF KnownOK, TypeOK
  <2>8. BornOK' /\ TimersOK' /\ DownOK'
    BY <1>1 DEF BornOK, TimersOK, DownOK
  <2>9. FinishedAlertNotLost'
    BY <1>1, <2>1, <2>4 DEF FinishedAlertNotLost
  <2>10. RegisteredVisible'
    <3>1. ASSUME phase = "up", NEW u \in registered', u # t
          PROVE  u \in finished \/ infohash_map'[req[u].infohash] = u
      <4>1. u \in registered /\ u \in Ids
        BY <2>1, <3>1 DEF TypeOK
      <4>2. u \in finished \/ infohash_map[req[u].infohash] = u
        BY <3>1, <4>1 DEF RegisteredVisible
      <4>3. infohash_map[req[u].infohash] = u => req[u].infohash # h
        BY <1>4, <4>1, NoneAssumption
      <4> QED  BY <2>1, <4>2, <4>3 DEF TypeOK
    <3>2. infohash_map'[req[t].infohash] = t
      BY <1>2, <2>1 DEF TypeOK
    <3> QED  BY <1>1, <3>1, <3>2 DEF RegisteredVisible
  <2>11. FinishedListSaved'
    <3>1. thread'[Io].at = "collect" <=> thread[Io].at = "collect"
      BY <1>1, <2>1, IdleFit DEF TypeOK, Thread
    <3> QED  BY <1>1, <3>1 DEF FinishedListSaved
  <2> QED  BY <2>5, <2>6, <2>7, <2>8, <2>9, <2>10, <2>11
<1> QED  BY <1>3, <1>4

LEMMA AddResumeTaskKeeps ==
  ASSUME IInv, NEW h \in Infohash, AddResumeTask(h) PROVE IInv'
<1> DEFINE t == nextId
           r == resume[h]
           s == [thread[Io] EXCEPT !.todo = @ \ {h}]
<1>1. /\ thread[Io].at = "load" /\ Io \in Thread /\ phase # "down"
      /\ thread' = [thread EXCEPT ![Io].todo = @ \ {h}]
      /\ UNCHANGED <<phase, list, control, end_time, alert, finished_file>>
  BY Busy DEF AddResumeTask, Thread
<1>2. thread \in [Thread -> ThreadType] /\ Fit(thread[Io]) /\ thread[Io] \in ThreadType
  BY <1>1, ThreadsType DEF IInv, Core, HoldOK, Fit
<1>3. thread' = [thread EXCEPT ![Io] = s] /\ s.at = "load"
  BY <1>1, <1>2 DEF ThreadType
<1>4. Fit(s)
  BY <1>2 DEF Fit, ThreadType
<1>5. CASE r = None \/ InSession(h) \/ t > MaxId
  <2>1. UNCHANGED <<nextId, maps, req, handle, timers, resume, registered>>
    BY <1>5 DEF AddResumeTask
  <2> QED  BY <1>1, <1>3, <1>4, <2>1, ThreadOnly DEF object, disk
<1>6. CASE ~(r = None \/ InSession(h) \/ t > MaxId)
  <2>1. /\ Create(t, r)
        /\ \/ infohash_map[h] = None /\ AddTaskToMap(t, h)
           \/ UNCHANGED <<maps, registered>>
    BY <1>6 DEF AddResumeTask
  <2>2. t \in Ids /\ r \in Request /\ r.infohash = h
    BY <1>6, BoundAssumption DEF IInv, Core, TypeOK, KnownOK, Ids
  <2>3. /\ nextId' \in Int /\ nextId <= nextId' /\ nextId' \in 1 .. MaxId + 1
        /\ \A u \in Ids : u < nextId => u < nextId' /\ req'[u] = req[u]
        /\ req'[nextId] = r
        /\ \A u \in Ids : u < nextId' => req'[u] \in Request
        /\ \A u \in Ids : ~(u < nextId') => ~(u < nextId) /\ u # nextId
        /\ req' \in [Ids -> Request \cup {None}]
        /\ alert[nextId] = "none"
    BY <2>1, <2>2, NewObject DEF Create
  <2>4. /\ thread' \in [Thread -> ThreadType]
        /\ \A v \in Thread : Fit(thread[v])' /\ (thread'[v].at = "adding" => thread'[v] = thread[v])
    BY <1>1, <1>3, <1>4, <2>3, GoesOn
  <2>5. t < nextId'
    BY <2>1, <2>2, BoundAssumption DEF Create, Ids
  <2> USE DEF IInv, Core, maps, list, AddTaskToMap
  <2>6. TypeOK'
    <3>1. /\ handle' \in [Ids -> {"none", "session", "removed", "expired"}]
          /\ timers' \in [Ids -> 0 .. 2]
          /\ resume' \in [Infohash -> Request \cup {None}]
      BY <2>1, <2>2 DEF Create, TypeOK
    <3>2. /\ infohash_map' \in [Infohash -> Ids \cup {Null, None}]
          /\ torrent_map' \subseteq Ids /\ registered' \subseteq Ids
      BY <2>1, <2>2 DEF TypeOK
    <3> QED  BY <1>1, <2>3, <2>4, <3>1, <3>2 DEF TypeOK, ThreadType, At, Ret
  <2>7. \A v \in Thread : HoldOK(v)'
    BY <1>1, <2>4 DEF HoldOK
  <2>8. KnownOK'
    <3>1. \A u \in Ids : u < nextId' => req'[u] \in Request
      BY <2>3
    <3>2. \A u \in (registered \cup torrent_map \cup finished)' : u < nextId'
      BY <1>1, <2>1, <2>3, <2>5 DEF KnownOK, TypeOK
    <3>3. ASSUME NEW g \in Infohash, infohash_map'[g] \in Ids
          PROVE  infohash_map'[g] < nextId' /\ req'[infohash_map'[g]].infohash = g
      <4>1. infohash_map'[g] = infohash_map[g] \/ (g = h /\ infohash_map'[g] = t)
        BY <2>1, <2>2 DEF TypeOK
      <4> QED  BY <2>2, <2>3, <2>5, <3>3, <4>1 DEF KnownOK
    <3>4. \A g \in Infohash : resume'[g] # None => resume'[g].infohash = g
      BY <2>1, <2>2 DEF Create, KnownOK, TypeOK
    <3> QED  BY <3>1, <3>2, <3>3, <3>4 DEF KnownOK
  <2>9. BornOK'
    BY <1>1, <2>1, <2>3 DEF Create, BornOK
  <2>10. TimersOK'
    BY <1>1, <2>1, <2>2 DEF Create, TimersOK, TypeOK
  <2>11. FinishedAlertNotLost' /\ DownOK'
    BY <1>1, <2>1, <2>3 DEF FinishedAlertNotLost, DownOK
  <2>12. RegisteredVisible'
    <3>1. ASSUME phase = "up", NEW u \in registered
          PROVE  u \in finished \/ infohash_map'[req'[u].infohash] = u
      <4>1. u \in Ids /\ u < nextId /\ req'[u] = req[u] /\ req[u].infohash \in Infohash
        BY <2>3, RequestAssumption DEF TypeOK, KnownOK, Requests
      <4>2. u \in finished \/ infohash_map[req[u].infohash] = u
        BY <3>1 DEF RegisteredVisible
      <4> QED  BY <2>1, <4>1, <4>2, NoneAssumption DEF TypeOK
    <3>2. t \in registered' /\ t \notin registered => infohash_map'[req'[t].infohash] = t
      BY <2>1, <2>2, <2>3 DEF TypeOK
    <3>3. \A u \in registered' : u \in registered \/ u = t
      BY <2>1
    <3> QED  BY <1>1, <3>1, <3>2, <3>3 DEF RegisteredVisible
  <2>13. FinishedListSaved'
    <3>1. thread'[Io].at = "load"
      BY <1>1, <1>2, <1>3
    <3>2. {req'[u].infohash : u \in finished} = {req[u].infohash : u \in finished}
      BY <2>3 DEF TypeOK, KnownOK
    <3> QED  BY <1>1, <3>1, <3>2 DEF FinishedListSaved
  <2> QED  BY <2>6, <2>7, <2>8, <2>9, <2>10, <2>11, <2>12, <2>13
<1> QED  BY <1>5, <1>6

LEMMA SetTaskOptionsKeeps ==
  ASSUME IInv, NEW h \in Infohash, SetTaskOptions(h) PROVE IInv'
<1> USE DEF IInv, Core, SetTaskOptions, list, object, disk
<1>1. TypeOK'
  BY DEF TypeOK
<1>2. (\A w \in Thread : HoldOK(w)') /\ BornOK' /\ TimersOK' /\ FinishedAlertNotLost' /\ DownOK'
  BY DEF HoldOK, Fit, BornOK, TimersOK, FinishedAlertNotLost, DownOK
<1>3. KnownOK'
  BY NoneAssumption DEF KnownOK, TypeOK
<1>4. RegisteredVisible'
  <2> SUFFICES ASSUME NEW u \in registered
               PROVE  u \in finished \/ infohash_map'[req[u].infohash] = u
    BY DEF RegisteredVisible
  <2>1. u \in Ids /\ (u \in finished \/ infohash_map[req[u].infohash] = u)
    BY DEF RegisteredVisible, TypeOK
  <2> QED  BY <2>1, NoneAssumption DEF TypeOK
<1>5. FinishedListSaved'
  BY DEF FinishedListSaved
<1> QED  BY <1>1, <1>2, <1>3, <1>4, <1>5

-----------------------------------------------------------------------------
(***************************************************************************)
(* Actions that change the objects, and leave maps, list and files alone.  *)
(***************************************************************************)
LEMMA ObjectStep ==
  ASSUME IInv, UNCHANGED <<phase, nextId, req, maps, list, disk, registered>>,
         thread' \in [Thread -> ThreadType],
         \A v \in Thread : Fit(thread[v])' /\ (thread'[v].at = "adding" => thread'[v] = thread[v]),
         thread'[Io].at = "collect" <=> thread[Io].at = "collect",
         phase = "down" => UNCHANGED thread,
         handle' \in [Ids -> {"none", "session", "removed", "expired"}],
         control' \in [Ids -> {"live", "over"}], end_time' \subseteq Ids,
         alert' \in [Ids -> {"none", "posted", "done", "lost"}],
         timers' \in [Ids -> 0 .. 2],
         BornOK', TimersOK',
         \A t \in Ids : alert'[t] = "lost" => \/ alert[t] = "lost"
                                              \/ t \notin torrent_map /\ LockFree
  PROVE  IInv'
<1> USE DEF IInv, Core, maps, list, disk
<1>1. TypeOK'
  BY DEF TypeOK, ThreadType, At, Ret
<1>2. ASSUME NEW v \in Thread PROVE HoldOK(v)'
  <2>1. CASE thread'[v].at = "adding"
    <3>1. thread'[v] = thread[v] /\ thread[v].id \in Ids /\ ~LockFree
      BY <2>1 DEF HoldOK, Fit, Holding, LockFree
    <3> QED  BY <2>1, <3>1 DEF HoldOK
  <2>2. CASE thread'[v].at # "adding"
    BY <2>2 DEF HoldOK
  <2> QED  BY <2>1, <2>2
<1>3. KnownOK' /\ DownOK' /\ RegisteredVisible' /\ FinishedListSaved'
  BY DEF KnownOK, DownOK, RegisteredVisible, FinishedListSaved
<1>4. FinishedAlertNotLost'
  BY DEF FinishedAlertNotLost, TypeOK
<1> QED  BY <1>1, <1>2, <1>3, <1>4

\* For such a step of thread w.
LEMMA ObjectGoesOn ==
  ASSUME IInv, NEW w \in Thread, thread[w].at # "collect",
         NEW s, Fit(s), s.at \notin {"adding", "collect"},
         thread' = [thread EXCEPT ![w] = s], UNCHANGED nextId
  PROVE  /\ thread' \in [Thread -> ThreadType]
         /\ \A v \in Thread : Fit(thread[v])' /\ (thread'[v].at = "adding" => thread'[v] = thread[v])
         /\ thread'[Io].at = "collect" <=> thread[Io].at = "collect"
<1>1. nextId' \in Int /\ nextId <= nextId'
  BY BoundAssumption DEF IInv, Core, TypeOK
<1>2. thread'[Io].at = "collect" <=> thread[Io].at = "collect"
  BY DEF IInv, Core, TypeOK, Thread
<1> QED  BY <1>1, <1>2, GoesOn

LEMMA ObjectStays ==
  ASSUME IInv, UNCHANGED <<thread, nextId>>
  PROVE  /\ thread' \in [Thread -> ThreadType]
         /\ \A v \in Thread : Fit(thread[v])' /\ (thread'[v].at = "adding" => thread'[v] = thread[v])
         /\ thread'[Io].at = "collect" <=> thread[Io].at = "collect"
  BY ThreadsType DEF IInv, Core, HoldOK, Fit

LEMMA RemoveTorrentKeeps ==
  ASSUME IInv, NEW w \in Thread, RemoveTorrent(w) PROVE IInv'
<1>1. thread[w].at \in Holding /\ "unmap" \in Holding /\ phase # "down" /\ thread[w].at # "collect"
  BY Busy DEF RemoveTorrent, Holding
<1>2. /\ thread' \in [Thread -> ThreadType]
      /\ \A v \in Thread : Fit(thread[v])' /\ (thread'[v].at = "adding" => thread'[v] = thread[v])
      /\ thread'[Io].at = "collect" <=> thread[Io].at = "collect"
  BY <1>1, NextFit, ObjectGoesOn DEF RemoveTorrent
<1>3. handle' \in [Ids -> {"none", "session", "removed", "expired"}]
  BY DEF RemoveTorrent, OutOfSession, IInv, Core, TypeOK
<1>4. BornOK' /\ TimersOK'
  BY DEF RemoveTorrent, OutOfSession, BornOK, TimersOK, IInv, Core
<1> QED  BY <1>1, <1>2, <1>3, <1>4, ObjectStep DEF RemoveTorrent, IInv, Core, TypeOK

LEMMA SettleKeeps ==
  ASSUME IInv, NEW w \in Thread, Settle(w) PROVE IInv'
<1>1. thread[w].at \in Holding /\ "persist" \in Holding /\ phase # "down" /\ thread[w].at # "collect"
  BY Busy DEF Settle, Holding
<1>2. /\ thread' \in [Thread -> ThreadType]
      /\ \A v \in Thread : Fit(thread[v])' /\ (thread'[v].at = "adding" => thread'[v] = thread[v])
      /\ thread'[Io].at = "collect" <=> thread[Io].at = "collect"
  BY <1>1, NextFit, ObjectGoesOn DEF Settle
<1>3. control' \in [Ids -> {"live", "over"}] /\ end_time' \subseteq Ids
  BY <1>1, NextFit DEF Settle, IInv, Core, TypeOK
<1>4. BornOK' /\ TimersOK'
  BY DEF Settle, BornOK, TimersOK, IInv, Core
<1> QED  BY <1>1, <1>2, <1>3, <1>4, ObjectStep DEF Settle, IInv, Core, TypeOK

LEMMA LibtorrentKeeps ==
  ASSUME IInv, NEW t \in Ids, HandleExpires(t) \/ TorrentFinished(t) \/ OnTorrentFinished(t)
  PROVE  IInv'
<1>1. UNCHANGED <<phase, nextId, req, maps, list, disk, registered, thread, control, end_time>>
  BY DEF HandleExpires, TorrentFinished, OnTorrentFinished
<1>2. /\ thread' \in [Thread -> ThreadType]
      /\ \A v \in Thread : Fit(thread[v])' /\ (thread'[v].at = "adding" => thread'[v] = thread[v])
      /\ thread'[Io].at = "collect" <=> thread[Io].at = "collect"
  BY <1>1, ObjectStays
<1>3. CASE HandleExpires(t)
  <2>1. BornOK' /\ TimersOK'
    BY <1>3 DEF HandleExpires, BornOK, TimersOK, IInv, Core, TypeOK
  <2>2. handle' \in [Ids -> {"none", "session", "removed", "expired"}]
    BY <1>3 DEF HandleExpires, IInv, Core, TypeOK
  <2> QED  BY <1>1, <1>2, <1>3, <2>1, <2>2, ObjectStep DEF HandleExpires, IInv, Core, TypeOK
<1>4. CASE TorrentFinished(t)
  <2>1. BornOK' /\ TimersOK'
    BY <1>4 DEF TorrentFinished, BornOK, TimersOK, IInv, Core, TypeOK
  <2>2. alert' \in [Ids -> {"none", "posted", "done", "lost"}]
    BY <1>4 DEF TorrentFinished, IInv, Core, TypeOK
  <2>3. \A u \in Ids : alert'[u] = "lost" => alert[u] = "lost"
    BY <1>4 DEF TorrentFinished, IInv, Core, TypeOK
  <2> QED  BY <1>1, <1>2, <1>4, <2>1, <2>2, <2>3, ObjectStep
           DEF TorrentFinished, IInv, Core, TypeOK
<1>5. CASE OnTorrentFinished(t)
  <2>1. /\ LockFree /\ alert[t] = "posted" /\ UNCHANGED handle
        /\ alert' = [alert EXCEPT ![t] = IF t \in torrent_map THEN "done" ELSE "lost"]
        /\ UNCHANGED timers \/ timers' = [timers EXCEPT ![t] = @ + 1]
    BY <1>5 DEF OnTorrentFinished
  <2>2. timers \in [Ids -> 0 .. 2] /\ timers[t] <= 1
    BY <2>1 DEF IInv, Core, TypeOK, TimersOK
  <2>3. timers' \in [Ids -> 0 .. 2]
    BY <2>1, <2>2
  <2>4. /\ alert' \in [Ids -> {"none", "posted", "done", "lost"}]
        /\ \A u \in Ids : alert'[u] = "lost" =>
             alert[u] = "lost" \/ (u \notin torrent_map /\ LockFree)
    BY <2>1 DEF IInv, Core, TypeOK
  <2>5. BornOK' /\ TimersOK'
    BY <1>1, <2>1, <2>2 DEF BornOK, TimersOK, IInv, Core, TypeOK
  <2> QED  BY <1>1, <1>2, <2>1, <2>3, <2>4, <2>5, ObjectStep DEF IInv, Core, TypeOK
<1> QED  BY <1>3, <1>4, <1>5

LEMMA TimerOfTaskKeeps ==
  ASSUME IInv, NEW t \in Ids, TimerOfTask(t) PROVE IInv'
<1>1. /\ UNCHANGED <<phase, nextId, req, maps, list, handle, control, end_time, alert, disk, registered>>
      /\ timers[t] > 0 /\ timers' = [timers EXCEPT ![t] = @ - 1]
      /\ Io \in Thread /\ phase # "down" /\ thread[Io].at # "collect"
  BY IdleFit DEF TimerOfTask, Ready, Thread
<1>2. /\ thread' \in [Thread -> ThreadType]
      /\ \A v \in Thread : Fit(thread[v])' /\ (thread'[v].at = "adding" => thread'[v] = thread[v])
      /\ thread'[Io].at = "collect" <=> thread[Io].at = "collect"
  <2>1. CASE EnterRemove(Io, t)
    BY <1>1, <2>1, EnterFit, ObjectGoesOn
  <2>2. CASE UNCHANGED thread
    BY <1>1, <2>2, ObjectStays
  <2> QED  BY <2>1, <2>2 DEF TimerOfTask
<1>3. timers \in [Ids -> 0 .. 2]
  BY DEF IInv, Core, TypeOK
<1>4. timers' \in [Ids -> 0 .. 2] /\ \A u \in Ids : timers'[u] <= timers[u]
  BY <1>1, <1>3
<1>5. BornOK' /\ TimersOK'
  <2>1. BornOK'
    BY <1>1, <1>3 DEF BornOK, IInv, Core
  <2>2. TimersOK'
    BY <1>1, <1>3, <1>4 DEF TimersOK, IInv, Core
  <2> QED  BY <2>1, <2>2
<1> QED  BY <1>1, <1>2, <1>4, <1>5, ObjectStep DEF IInv, Core, TypeOK

-----------------------------------------------------------------------------
(***************************************************************************)
(* From the maps to the finished list, and from the list to its file.      *)
(***************************************************************************)
LEMMA UnmapKeeps ==
  ASSUME IInv, NEW w \in Thread, Unmap(w) PROVE IInv'
<1> DEFINE t == thread[w].id
           h == req[t].infohash
           s == [thread[w] EXCEPT !.at = "settle"]
<1>1. /\ thread[w].at = "unmap" /\ infohash_map[h] \in Ids /\ phase # "down"
      /\ finished' = finished \cup {infohash_map[h]} /\ list_changed'
      /\ infohash_map' = [infohash_map EXCEPT ![h] = None]
      /\ torrent_map' = torrent_map \ {t}
      /\ thread' = [thread EXCEPT ![w].at = "settle"]
      /\ UNCHANGED <<phase, nextId, loaded, object, disk, registered>>
  BY Busy DEF Unmap
<1>2. thread[w].at \in Holding /\ "settle" \in Holding /\ thread[w].at # "collect"
  BY <1>1 DEF Holding
<1>3. /\ Fit(s) /\ thread' = [thread EXCEPT ![w] = s] /\ s.at = "settle" /\ h \in Infohash
  BY <1>1, <1>2, NextFit
<1>4. /\ thread' \in [Thread -> ThreadType]
      /\ \A v \in Thread : Fit(thread[v])' /\ (thread'[v].at = "adding" => thread'[v] = thread[v])
  BY <1>1, <1>2, <1>3, ObjectGoesOn
<1> USE DEF IInv, Core, object, disk
<1>5. TypeOK'
  BY <1>1, <1>3, <1>4 DEF TypeOK, ThreadType, At, Ret
<1>6. \A v \in Thread : HoldOK(v)'
  BY <1>1, <1>4 DEF HoldOK
<1>7. KnownOK'
  BY <1>1, <1>3, NoneAssumption DEF KnownOK, TypeOK
<1>8. BornOK' /\ TimersOK' /\ FinishedAlertNotLost' /\ DownOK' /\ FinishedListSaved'
  BY <1>1 DEF BornOK, TimersOK, FinishedAlertNotLost, DownOK, FinishedListSaved
<1>9. RegisteredVisible'
  <2> SUFFICES ASSUME phase = "up", NEW u \in registered
               PROVE  u \in finished' \/ infohash_map'[req[u].infohash] = u
    BY <1>1 DEF RegisteredVisible
  <2>1. u \in Ids /\ (u \in finished \/ infohash_map[req[u].infohash] = u)
    BY DEF RegisteredVisible, TypeOK
  <2>2. CASE req[u].infohash = h
    BY <1>1, <2>1, <2>2
  <2>3. CASE req[u].infohash # h
    BY <1>1, <2>1, <2>3 DEF TypeOK
  <2> QED  BY <2>2, <2>3
<1> QED  BY <1>5, <1>6, <1>7, <1>8, <1>9

LEMMA ExpireFinishedKeeps ==
  ASSUME IInv, ExpireFinished PROVE IInv'
<1> DEFINE s == [at |-> "generate", id |-> None, todo |-> {}, ret |-> "idle"]
<1>1. /\ thread[Io].at = "hang" /\ Io \in Thread /\ phase # "down"
      /\ thread' = [thread EXCEPT ![Io] = s]
      /\ DestroyUnreferenced(control)
      /\ UNCHANGED <<phase, nextId, req, maps, handle, finished_file>>
  BY Busy DEF ExpireFinished, Thread
<1>2. PICK old \in SUBSET finished, oldLoaded \in SUBSET loaded :
        /\ finished' = finished \ old
        /\ loaded' = loaded \ oldLoaded
        /\ registered' = registered \ old
        /\ list_changed' = (list_changed \/ old # {} \/ oldLoaded # {})
  BY DEF ExpireFinished
<1>3. Fit(s) /\ s.at = "generate"
  BY NoneAssumption DEF Fit, ThreadType, At, Ret, Holding
<1>4. control \in [Ids -> {"live", "over"}] /\ list_changed \in BOOLEAN
  BY DEF IInv, Core, TypeOK
<1>5. list_changed' \in BOOLEAN
  BY <1>2
<1>6. ForgetObjects(Dying, control)
  BY <1>1 DEF DestroyUnreferenced
<1>7. /\ resume' \in [Infohash -> Request \cup {None}]
      /\ \A h \in Infohash : resume'[h] # None => resume'[h].infohash = h
  BY <1>1, DestroyFiles DEF IInv, Core
<1>8. /\ phase' \in {"up", "quit", "down"}
      /\ torrent_map' \subseteq torrent_map /\ finished' \subseteq finished
      /\ registered' \subseteq registered /\ loaded' \subseteq Infohash
      /\ infohash_map' \in [Infohash -> Ids \cup {Null, None}]
      /\ \A h \in Infohash : infohash_map'[h] \in {infohash_map[h], None}
  BY <1>1, <1>2 DEF IInv, Core, TypeOK, maps
<1>9. Core'
  BY <1>1, <1>3, <1>4, <1>5, <1>6, <1>7, <1>8, ForgetStep
<1>10. DownOK'
  BY <1>1 DEF DownOK
<1>11. RegisteredVisible'
  BY <1>1, <1>2 DEF RegisteredVisible, IInv, maps
<1>12. FinishedListSaved'
  <2>1. list_changed' \/ (UNCHANGED <<list_changed, finished, loaded>>)
    BY <1>2, <1>4
  <2>2. CASE list_changed'
    BY <2>2 DEF FinishedListSaved
  <2>3. CASE UNCHANGED <<list_changed, finished, loaded>>
    BY <1>1, <2>3 DEF FinishedListSaved, IInv
  <2> QED  BY <2>1, <2>2, <2>3
<1> QED  BY <1>9, <1>10, <1>11, <1>12 DEF IInv

\* What the io thread does alone with the flag and the file.
LEMMA GenerateKeeps ==
  ASSUME IInv, GenerateFinishedListResumeFile \/ CollectFinished PROVE IInv'
<1> USE DEF IInv, Core, maps, object, list
<1>1. Io \in Thread /\ thread \in [Thread -> ThreadType] /\ thread[Io] \in ThreadType /\ Fit(thread[Io])
  BY ThreadsType DEF Thread, HoldOK, Fit
<1>2. phase # "down"
  BY <1>1, Busy DEF GenerateFinishedListResumeFile, CollectFinished
<1>3. PICK at \in Ret \cup {"collect"} :
        /\ thread' = [thread EXCEPT ![Io].at = at]
        /\ GenerateFinishedListResumeFile => at = IF list_changed THEN "collect" ELSE thread[Io].ret
        /\ CollectFinished => at = thread[Io].ret
  BY <1>1 DEF GenerateFinishedListResumeFile, CollectFinished, ThreadType, Ret
<1> DEFINE s == [thread[Io] EXCEPT !.at = at]
<1>4. thread' = [thread EXCEPT ![Io] = s] /\ s.at = at /\ Fit(s) /\ at # "adding"
  BY <1>1, <1>3 DEF ThreadType, Fit, At, Ret, Holding
<1>5. UNCHANGED <<phase, nextId, maps, finished, loaded, object, resume, registered>>
  BY DEF GenerateFinishedListResumeFile, CollectFinished, disk
<1>6. nextId' \in Int /\ nextId <= nextId'
  BY <1>5, BoundAssumption DEF TypeOK
<1> HIDE DEF IInv, Core
<1>7. /\ thread' \in [Thread -> ThreadType]
      /\ \A v \in Thread : Fit(thread[v])' /\ (thread'[v].at = "adding" => thread'[v] = thread[v])
  BY <1>1, <1>4, <1>6, GoesOn
<1> USE DEF IInv, Core
<1>8. /\ list_changed' \in BOOLEAN /\ finished_file' \subseteq Infohash
      /\ GenerateFinishedListResumeFile => ~list_changed' /\ UNCHANGED finished_file
      /\ CollectFinished => UNCHANGED list_changed
                            /\ finished_file' = {req[t].infohash : t \in finished} \cup loaded
  <2>1. \A t \in finished : req[t].infohash \in Infohash
    BY RequestAssumption DEF TypeOK, KnownOK, Requests
  <2>2. CASE GenerateFinishedListResumeFile
    <3>1. list_changed' = FALSE /\ UNCHANGED finished_file
      BY <2>2 DEF GenerateFinishedListResumeFile, disk
    <3>2. ~CollectFinished
      BY <2>2 DEF GenerateFinishedListResumeFile, CollectFinished
    <3> QED  BY <3>1, <3>2 DEF TypeOK
  <2>3. CASE CollectFinished
    <3>1. /\ UNCHANGED list_changed
          /\ finished_file' = {req[t].infohash : t \in finished} \cup loaded
      BY <2>3 DEF CollectFinished
    <3>2. ~GenerateFinishedListResumeFile
      BY <2>3 DEF GenerateFinishedListResumeFile, CollectFinished
    <3> QED  BY <2>1, <3>1, <3>2 DEF TypeOK
  <2> QED  BY <2>2, <2>3
<1>9. TypeOK'
  BY <1>5, <1>7, <1>8 DEF TypeOK, ThreadType, At, Ret
<1>10. \A v \in Thread : HoldOK(v)'
  BY <1>5, <1>7 DEF HoldOK
<1>11. KnownOK' /\ BornOK' /\ TimersOK' /\ FinishedAlertNotLost' /\ DownOK' /\ RegisteredVisible'
  BY <1>2, <1>5 DEF KnownOK, BornOK, TimersOK, FinishedAlertNotLost, DownOK, RegisteredVisible
<1>12. FinishedListSaved'
  <2>1. thread'[Io].at = at
    BY <1>1, <1>4
  <2>2. CASE GenerateFinishedListResumeFile
    <3>1. thread[Io].at = "generate"
      BY <2>2 DEF GenerateFinishedListResumeFile
    <3> QED  BY <1>3, <1>5, <1>8, <2>1, <2>2, <3>1 DEF FinishedListSaved
  <2>3. CASE CollectFinished
    BY <1>5, <1>8, <2>3 DEF FinishedListSaved
  <2> QED  BY <2>2, <2>3
<1> QED  BY <1>9, <1>10, <1>11, <1>12

-----------------------------------------------------------------------------
(***************************************************************************)
(* The end of a process and the start of the next one.                     *)
(***************************************************************************)
LEMMA NewProcessKeeps ==
  ASSUME IInv, NewProcess, phase' = "down", finished_file' \subseteq Infohash,
         resume' \in [Infohash -> Request \cup {None}],
         \A h \in Infohash : resume'[h] # None => resume'[h].infohash = h
  PROVE  IInv'
<1> USE DEF NewProcess
<1>1. Idle \in ThreadType
  BY IdleFit DEF Fit
<1>2. TypeOK'
  BY <1>1, BoundAssumption DEF TypeOK, ThreadType, At, Ret
<1>3. ASSUME NEW w \in Thread PROVE HoldOK(w)'
  BY NoneAssumption DEF HoldOK, Fit, Holding, Idle, ThreadType, At, Ret
<1>4. KnownOK' /\ BornOK' /\ TimersOK'
  <2>1. KnownOK'
    BY NoneAssumption, BoundAssumption DEF KnownOK, Ids
  <2>2. BornOK' /\ TimersOK'
    BY DEF BornOK, TimersOK
  <2> QED  BY <2>1, <2>2
<1>5. FinishedAlertNotLost' /\ DownOK' /\ RegisteredVisible'
  BY DEF FinishedAlertNotLost, DownOK, RegisteredVisible
<1>6. FinishedListSaved'
  BY DEF FinishedListSaved
<1> QED  BY <1>2, <1>3, <1>4, <1>5, <1>6 DEF IInv, Core

LEMMA EndKeeps ==
  ASSUME IInv, Exit \/ Kill \/ \E w \in Thread : UnmapNothing(w) PROVE IInv'
<1>1. /\ NewProcess /\ phase' = "down" /\ UNCHANGED finished_file
      /\ UNCHANGED resume \/ Exit
  BY DEF Exit, Kill, UnmapNothing, disk
<1>2. /\ resume' \in [Infohash -> Request \cup {None}]
      /\ \A h \in Infohash : resume'[h] # None => resume'[h].infohash = h
  <2>1. CASE UNCHANGED resume
    BY <2>1 DEF IInv, Core, TypeOK, KnownOK
  <2>2. CASE Exit
    BY <2>2 DEF Exit, IInv, Core, TypeOK, KnownOK
  <2> QED  BY <1>1, <2>1, <2>2
<1> QED  BY <1>1, <1>2, NewProcessKeeps DEF IInv, Core, TypeOK

LEMMA RestartKeeps ==
  ASSUME IInv, Restart PROVE IInv'
<1> DEFINE s == [at |-> "load", id |-> None, todo |-> {h \in Infohash : resume[h] # None},
                 ret |-> "idle"]
<1>1. Fit(s) /\ s.at = "load"
  BY NoneAssumption, KindAssumption DEF Fit, ThreadType, At, Ret, Holding
<1>2. /\ Io \in Thread /\ thread' = [thread EXCEPT ![Io] = s] /\ phase = "down" /\ phase' = "up"
      /\ UNCHANGED <<nextId, maps, list, object, disk, registered>>
  BY DEF Restart, Thread
<1>3. registered = {} /\ list_changed /\ thread[Io].at # "collect"
  BY <1>2, IdleFit DEF IInv, DownOK
<1>4. /\ thread' \in [Thread -> ThreadType]
      /\ \A v \in Thread : Fit(thread[v])' /\ (thread'[v].at = "adding" => thread'[v] = thread[v])
  BY <1>1, <1>2, <1>3, ObjectGoesOn
<1> USE DEF IInv, Core, maps, list, object, disk
<1>5. TypeOK'
  BY <1>2, <1>4 DEF TypeOK, ThreadType, At, Ret
<1>6. \A v \in Thread : HoldOK(v)'
  BY <1>2, <1>4 DEF HoldOK
<1>7. KnownOK' /\ BornOK' /\ TimersOK' /\ FinishedAlertNotLost'
  BY <1>2 DEF KnownOK, BornOK, TimersOK, FinishedAlertNotLost
<1>8. DownOK' /\ RegisteredVisible' /\ FinishedListSaved'
  BY <1>2, <1>3 DEF DownOK, RegisteredVisible, FinishedListSaved
<1> QED  BY <1>5, <1>6, <1>7, <1>8

LEMMA LoadKeeps ==
  ASSUME IInv, LoadFromFinishedResume PROVE IInv'
<1>1. /\ thread[Io].at = "load" /\ Io \in Thread /\ phase # "down"
      /\ loaded' = IF finished_file = {} THEN loaded ELSE finished_file
      /\ finished' = IF finished_file = {} THEN finished ELSE {}
      /\ registered' = registered \ (finished \ finished')
      /\ thread' = [thread EXCEPT ![Io] = Idle]
      /\ UNCHANGED <<maps, phase, nextId, req, list_changed, handle, finished_file>>
      /\ DestroyUnreferenced(control)
  BY Busy DEF LoadFromFinishedResume, Thread
<1>2. /\ control \in [Ids -> {"live", "over"}]
      /\ ForgetObjects(Dying, control)
  BY <1>1 DEF DestroyUnreferenced, IInv, Core, TypeOK
<1>3. /\ resume' \in [Infohash -> Request \cup {None}]
      /\ \A h \in Infohash : resume'[h] # None => resume'[h].infohash = h
  BY <1>1, DestroyFiles DEF IInv, Core
<1>4. /\ phase' \in {"up", "quit", "down"}
      /\ torrent_map' \subseteq torrent_map /\ finished' \subseteq finished
      /\ registered' \subseteq registered /\ loaded' \subseteq Infohash
      /\ list_changed' \in BOOLEAN
      /\ infohash_map' \in [Infohash -> Ids \cup {Null, None}]
      /\ \A h \in Infohash : infohash_map'[h] \in {infohash_map[h], None}
  BY <1>1 DEF IInv, Core, TypeOK, maps
<1>5. Core'
  BY <1>1, <1>2, <1>3, <1>4, IdleFit, ForgetStep
<1>6. DownOK' /\ RegisteredVisible'
  BY <1>1 DEF DownOK, RegisteredVisible, IInv, maps
<1>7. FinishedListSaved'
  BY <1>1 DEF FinishedListSaved, IInv
<1> QED  BY <1>5, <1>6, <1>7 DEF IInv

LEMMA ClearMapsKeeps ==
  ASSUME IInv, ClearMaps PROVE IInv'
<1>1. /\ Io \in Thread /\ phase' = "quit"
      /\ finished' = {} /\ loaded' = {}
      /\ infohash_map' = [h \in Infohash |-> None] /\ torrent_map' = {}
      /\ thread' = [thread EXCEPT ![Io] = Idle]
      /\ DestroyUnreferenced(control)
      /\ UNCHANGED <<nextId, req, list_changed, handle, finished_file, registered>>
  BY DEF ClearMaps, Thread
<1>2. /\ control \in [Ids -> {"live", "over"}]
      /\ ForgetObjects(Dying, control)
  BY <1>1 DEF DestroyUnreferenced, IInv, Core, TypeOK
<1>3. /\ resume' \in [Infohash -> Request \cup {None}]
      /\ \A h \in Infohash : resume'[h] # None => resume'[h].infohash = h
  BY <1>1, DestroyFiles DEF IInv, Core
<1>4. /\ phase' \in {"up", "quit", "down"}
      /\ torrent_map' \subseteq torrent_map /\ finished' \subseteq finished
      /\ registered' \subseteq registered /\ loaded' \subseteq Infohash
      /\ list_changed' \in BOOLEAN
      /\ infohash_map' \in [Infohash -> Ids \cup {Null, None}]
      /\ \A h \in Infohash : infohash_map'[h] \in {infohash_map[h], None}
  BY <1>1 DEF IInv, Core, TypeOK
<1>5. Core'
  BY <1>1, <1>2, <1>3, <1>4, IdleFit, ForgetStep
<1>6. DownOK' /\ RegisteredVisible' /\ FinishedListSaved'
  BY <1>1 DEF DownOK, RegisteredVisible, FinishedListSaved
<1> QED  BY <1>5, <1>6 DEF IInv

LEMMA ShutdownKeeps ==
  ASSUME IInv, Shutdown PROVE IInv'
<1>1. /\ UNCHANGED <<phase, nextId, req, maps, list, control, end_time, alert, timers, disk, registered>>
      /\ Io \in Thread /\ phase # "down" /\ thread[Io] = Idle /\ thread[Io].at # "collect"
  BY IdleFit DEF Shutdown, Ready, Thread
<1>2. thread \in [Thread -> ThreadType] /\ thread[Io] \in ThreadType /\ Fit(thread[Io])
  BY <1>1, ThreadsType DEF IInv, Core, HoldOK, Fit
<1> DEFINE quit == [thread[Io] EXCEPT !.at = "generate", !.ret = "clear"]
           dead == [thread[Io] EXCEPT !.at = "dead", !.ret = "dead"]
<1>3. \/ thread' = [thread EXCEPT ![Io] = quit]
      \/ thread' = [thread EXCEPT ![Io] = dead]
  <2>1. CASE thread' = [thread EXCEPT ![Io].at = "generate", ![Io].ret = "clear"]
    BY <1>1, <1>2, <2>1 DEF ThreadType
  <2>2. CASE thread' = [thread EXCEPT ![Io].at = "dead", ![Io].ret = "dead"]
    BY <1>1, <1>2, <2>2 DEF ThreadType
  <2> QED  BY <2>1, <2>2 DEF Shutdown
<1>4. /\ Fit(quit) /\ quit.at \notin {"adding", "collect"}
      /\ Fit(dead) /\ dead.at \notin {"adding", "collect"}
  BY <1>2 DEF Fit, ThreadType, At, Ret, Holding
<1>5. \E H : OutOfSession(H)
  BY DEF Shutdown
<1>6. /\ thread' \in [Thread -> ThreadType]
      /\ \A v \in Thread : Fit(thread[v])' /\ (thread'[v].at = "adding" => thread'[v] = thread[v])
      /\ thread'[Io].at = "collect" <=> thread[Io].at = "collect"
  BY <1>1, <1>3, <1>4, ObjectGoesOn
<1>7. handle' \in [Ids -> {"none", "session", "removed", "expired"}]
  BY <1>5 DEF OutOfSession, IInv, Core, TypeOK
<1>8. BornOK' /\ TimersOK'
  BY <1>1, <1>5 DEF OutOfSession, BornOK, TimersOK, IInv, Core
<1> QED  BY <1>1, <1>6, <1>7, <1>8, ObjectStep DEF IInv, Core, TypeOK

LEMMA StutterKeeps ==
  ASSUME IInv, UNCHANGED vars PROVE IInv'
<1> USE DEF IInv, Core, vars, maps, list, object, disk
<1>1. TypeOK' /\ KnownOK' /\ BornOK' /\ TimersOK'
  BY DEF TypeOK, KnownOK, BornOK, TimersOK
<1>2. \A w \in Thread : HoldOK(w)'
  BY DEF HoldOK, Fit
<1>3. FinishedAlertNotLost' /\ DownOK' /\ RegisteredVisible' /\ FinishedListSaved'
  BY DEF FinishedAlertNotLost, DownOK, RegisteredVisible, FinishedListSaved
<1> QED  BY <1>1, <1>2, <1>3

-----------------------------------------------------------------------------
LEMMA InitIInv == Init => IInv
<1> SUFFICES ASSUME Init PROVE IInv
  OBVIOUS
<1> USE DEF Init
<1>1. Idle \in ThreadType
  BY IdleFit DEF Fit
<1>2. TypeOK
  BY <1>1, BoundAssumption DEF TypeOK, ThreadType, At, Ret
<1>3. ASSUME NEW w \in Thread PROVE HoldOK(w)
  BY IdleFit DEF HoldOK
<1>4. KnownOK
  BY NoneAssumption, BoundAssumption DEF KnownOK, Ids
<1>5. BornOK /\ TimersOK /\ FinishedAlertNotLost /\ DownOK /\ RegisteredVisible
  BY DEF BornOK, TimersOK, FinishedAlertNotLost, DownOK, RegisteredVisible
<1>6. FinishedListSaved
  BY DEF FinishedListSaved
<1> QED  BY <1>2, <1>3, <1>4, <1>5, <1>6 DEF IInv, Core

LEMMA ContinueKeeps ==
  ASSUME IInv, NEW w \in Thread, Continue(w) PROVE IInv'
<1>1. CASE AddTaskEnds(w) \/ DropRefused(w)
  BY <1>1, AddTaskEndsKeeps, DropRefusedKeeps
<1>2. CASE \E t \in Ids : Cancel(w, t) \/ PauseOrResume(w, t)
  BY <1>2, CancelKeeps, PauseOrResumeKeeps
<1>3. CASE RemoveTorrent(w) \/ RemoveTorrentThrows(w)
  BY <1>3, RemoveTorrentKeeps, RemoveTorrentThrowsKeeps
<1>4. CASE Unmap(w) \/ UnmapNull(w) \/ UnmapNothing(w)
  BY <1>4, UnmapKeeps, UnmapNullKeeps, EndKeeps
<1>5. CASE Settle(w) \/ Persist(w)
  BY <1>5, SettleKeeps, PersistKeeps
<1> QED  BY <1>1, <1>2, <1>3, <1>4, <1>5 DEF Continue

LEMMA NextIInv == IInv /\ [Next]_vars => IInv'
<1> SUFFICES ASSUME IInv, [Next]_vars PROVE IInv'
  OBVIOUS
<1>1. ASSUME NEW c \in Client, Call(c) PROVE IInv'
  <2>1. c \in Thread
    BY DEF Thread
  <2> QED  BY <1>1, <2>1, AddTaskKeeps, AddTaskFailsKeeps, ControlCallsKeep DEF Call
<1>2. ASSUME NEW w \in Thread, Continue(w) PROVE IInv'
  BY <1>2, ContinueKeeps
<1>3. CASE IoContinue
  <2>1. Io \in Thread
    BY DEF Thread
  <2> QED  BY <1>2, <1>3, <2>1, HangCheckCallbackKeeps, ExpireFinishedKeeps, GenerateKeeps,
              ClearMapsKeeps, AddResumeTaskKeeps, LoadKeeps DEF IoContinue
<1>4. CASE TimerCallback \/ Shutdown
  BY <1>4, TimerCallbackKeeps, ShutdownKeeps
<1>5. ASSUME NEW t \in Ids,
             \/ OnTorrentFinished(t) \/ TimerOfTask(t) \/ StartDownloadFails(t)
             \/ TorrentFinished(t) \/ HandleExpires(t)
      PROVE  IInv'
  BY <1>5, LibtorrentKeeps, TimerOfTaskKeeps, StartDownloadFailsKeeps
<1>6. CASE \E h \in Infohash : SetTaskOptions(h)
  BY <1>6, SetTaskOptionsKeeps
<1>7. CASE Exit \/ Kill \/ Restart
  BY <1>7, EndKeeps, RestartKeeps
<1>8. CASE UNCHANGED vars
  BY <1>8, StutterKeeps
<1>9. Client \subseteq Thread
  BY DEF Thread
<1> QED  BY <1>1, <1>2, <1>3, <1>4, <1>5, <1>6, <1>7, <1>8, <1>9 DEF Next

LEMMA InvariantHolds == Spec => []IInv
<1> QED  BY InitIInv, NextIInv, PTL DEF Spec

(***************************************************************************)
(* Every variable keeps its type: no task ever has more than its timeout   *)
(* and one seeding timer.                                                  *)
(***************************************************************************)
THEOREM TypeCorrect == Spec => []TypeOK
<1>1. IInv => TypeOK
  BY DEF IInv, Core
<1> QED  BY <1>1, InvariantHolds, PTL

(***************************************************************************)
(* A task that entered the maps is found under its infohash or in the      *)
(* finished list until the list lets go of it, however many threads end    *)
(* it and its successors.                                                  *)
(***************************************************************************)
THEOREM RegisteredAlwaysVisible == Spec => []RegisteredVisible
<1>1. IInv => RegisteredVisible
  BY DEF IInv
<1> QED  BY <1>1, InvariantHolds, PTL

(***************************************************************************)
(* The lock that AddTask holds from add_torrent to AddTaskToMap keeps the  *)
(* finished alert of every task in torrent_map_ from being dropped.        *)
(***************************************************************************)
THEOREM FinishedAlertNeverLost == Spec => []FinishedAlertNotLost
<1>1. IInv => FinishedAlertNotLost
  BY DEF IInv, Core
<1> QED  BY <1>1, InvariantHolds, PTL

(***************************************************************************)
(* finished.resume has the finished list, or the flag says that it is to   *)
(* be written again, or the io thread is writing it.                       *)
(***************************************************************************)
THEOREM FinishedListAlwaysSaved == Spec => []FinishedListSaved
<1>1. IInv => FinishedListSaved
  BY DEF IInv
<1> QED  BY <1>1, InvariantHolds, PTL
=============================================================================
