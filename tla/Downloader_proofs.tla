-------------------------- MODULE Downloader_proofs --------------------------
(***************************************************************************)
(* Proofs about Downloader, for every set of command lines and alerts and  *)
(* every bound.                                                            *)
(***************************************************************************)
EXTENDS Downloader, TLAPS

In(a, s) == \E i \in 1 .. Len(s) : s[i] = a

Handlers == Timers \cup {"alerts", "last", "announce"}

(***************************************************************************)
(* The inductive invariant.  The torrent is told to go only once the       *)
(* reason is kept somewhere: in the return code, or in a flag that the     *)
(* alert of the removal turns into one.  ProcessAlert is always posted or  *)
(* under way until that alert has come, so that Download does not return   *)
(* before.                                                                 *)
(***************************************************************************)
Told == finished \/ ret # 0 \/ is_timeout_ \/ is_mem_exceed_

RemovalTold ==
  /\ removals > 0 \/ torrent # "session" => Told
  /\ In("removed", alerts) \/ In("removed", batch) => Told

\* What only a finished torrent leads to.
FinishedFirst ==
  /\ moving \/ "seeding" \in armed \/ In("seeding", queue) => finished
  /\ \A a \in {"finished", "moved", "move_failed"} : In(a, alerts) \/ In(a, batch) => finished

StopTold == should_stop_ => finished \/ ret # 0

StaysPosted ==
  /\ ~should_stop_ => ~In("last", queue)
  /\ ~should_stop_ /\ at # "idle" => loop
  /\ ~should_stop_ /\ at = "idle" /\ ~ended => In("alerts", queue)

EndTold == ended /\ ret = 0 => should_stop_

IInv == TypeOK /\ RemovalTold /\ FinishedFirst /\ StopTold /\ StaysPosted /\ EndTold

-----------------------------------------------------------------------------
\* Queues: what Append and Tail do to them.
LEMMA InAppend ==
  ASSUME NEW S, NEW s \in Seq(S), NEW b
  PROVE  \A a : In(a, Append(s, b)) <=> In(a, s) \/ a = b
<1> SUFFICES ASSUME NEW a PROVE In(a, Append(s, b)) <=> In(a, s) \/ a = b
  OBVIOUS
<1>1. Len(s) \in Nat /\ Len(Append(s, b)) = Len(s) + 1
  OBVIOUS
<1>2. \A i \in 1 .. Len(s) : Append(s, b)[i] = s[i]
  OBVIOUS
<1>3. Append(s, b)[Len(s) + 1] = b
  OBVIOUS
<1>4. ASSUME In(a, s) \/ a = b PROVE In(a, Append(s, b))
  BY <1>1, <1>2, <1>3, <1>4 DEF In
<1>5. ASSUME In(a, Append(s, b)) PROVE In(a, s) \/ a = b
  BY <1>1, <1>2, <1>3, <1>5 DEF In
<1> QED  BY <1>4, <1>5

LEMMA InTail ==
  ASSUME NEW S, NEW s \in Seq(S), s # <<>>
  PROVE  /\ Head(s) \in S /\ Tail(s) \in Seq(S) /\ In(Head(s), s)
         /\ \A a : In(a, Tail(s)) => In(a, s)
         /\ \A a : In(a, s) => a = Head(s) \/ In(a, Tail(s))
<1>1. Len(s) \in Nat /\ Len(s) > 0 /\ Len(Tail(s)) = Len(s) - 1
  OBVIOUS
<1>2. \A i \in 1 .. Len(s) - 1 : Tail(s)[i] = s[i + 1]
  OBVIOUS
<1>3. Head(s) = s[1] /\ Head(s) \in S /\ Tail(s) \in Seq(S)
  OBVIOUS
<1>4. In(Head(s), s)
  BY <1>1, <1>3 DEF In
<1>5. ASSUME NEW a, In(a, Tail(s)) PROVE In(a, s)
  <2>1. PICK i \in 1 .. Len(s) - 1 : Tail(s)[i] = a
    BY <1>1, <1>5 DEF In
  <2>2. i + 1 \in 1 .. Len(s) /\ s[i + 1] = a
    BY <1>1, <1>2, <2>1
  <2> QED  BY <2>2 DEF In
<1>6. ASSUME NEW a, In(a, s), a # Head(s) PROVE In(a, Tail(s))
  <2>1. PICK i \in 1 .. Len(s) : s[i] = a
    BY <1>6 DEF In
  <2>2. i - 1 \in 1 .. Len(s) - 1
    BY <1>1, <1>3, <1>6, <2>1
  <2>3. Tail(s)[i - 1] = a
    BY <1>1, <1>2, <2>1, <2>2
  <2> QED  BY <1>1, <2>2, <2>3 DEF In
<1> QED  BY <1>3, <1>4, <1>5, <1>6

LEMMA InEmpty == \A a : ~In(a, <<>>)
  BY DEF In

-----------------------------------------------------------------------------
(***************************************************************************)
(* RemoveTorrent in a handler that gives it a reason.                      *)
(***************************************************************************)
LEMMA RemoveType ==
  ASSUME TypeOK, NEW A \in SUBSET Timers, NEW r \in RetCodes, RemoveTorrent(A, r)
  PROVE  /\ removals' \in 0 .. MaxRemovals /\ armed' \subseteq A
         /\ ret' \in RetCodes /\ ended' \in BOOLEAN
         /\ ret' \in {r, -1}
         /\ \/ ret' = -1 /\ ended'
            \/ ret' = r /\ UNCHANGED ended
         /\ removals' > 0 => removals > 0 \/ IsValid
<1>1. -1 \in RetCodes
  BY DEF RetCodes
<1>2. removals \in 0 .. MaxRemovals /\ MaxRemovals \in Nat /\ ended \in BOOLEAN
  BY BoundAssumption DEF TypeOK
<1>3. removals' \in 0 .. MaxRemovals
  BY <1>2 DEF RemoveTorrent
<1>4. CASE ret' = r /\ UNCHANGED ended /\ armed' = IF IsValid THEN A \ {"progress"} ELSE A
  BY <1>2, <1>3, <1>4 DEF RemoveTorrent
<1>5. CASE ret' = -1 /\ ended' = TRUE /\ armed' = A
  BY <1>1, <1>2, <1>3, <1>5 DEF RemoveTorrent
<1> QED  BY <1>4, <1>5 DEF RemoveTorrent

LEMMA RemoveTold ==
  ASSUME IInv, ~ended, NEW A \in SUBSET Timers, NEW r \in RetCodes, RemoveTorrent(A, r),
         UNCHANGED finished, UNCHANGED should_stop_,
         r = ret \/ r # 0, is_timeout_ => is_timeout_', is_mem_exceed_ => is_mem_exceed_',
         finished \/ r # 0 \/ is_timeout_' \/ is_mem_exceed_'
  PROVE  /\ Told' /\ StopTold' /\ EndTold'
         /\ removals' \in 0 .. MaxRemovals /\ armed' \subseteq A
         /\ ret' \in RetCodes /\ ended' \in BOOLEAN
<1>1. /\ removals' \in 0 .. MaxRemovals /\ armed' \subseteq A
      /\ ret' \in RetCodes /\ ended' \in BOOLEAN
      /\ \/ ret' = -1 /\ ended'
         \/ ret' = r /\ UNCHANGED ended
  BY RemoveType DEF IInv
<1>2. Told'
  BY <1>1 DEF Told
<1>3. StopTold'
  BY <1>1 DEF StopTold, IInv
<1>4. EndTold'
  <2>1. ended \in BOOLEAN
    BY DEF IInv, TypeOK
  <2>2. ret' = -1 \/ ended' = FALSE
    BY <1>1, <2>1
  <2> QED  BY <2>2 DEF EndTold
<1> QED  BY <1>1, <1>2, <1>3, <1>4

\* A handler of the queue, other than ProcessAlert.
LEMMA RunsStays ==
  ASSUME IInv, NEW h \in Timers \cup {"announce"}, Runs(h), UNCHANGED should_stop_
  PROVE  /\ queue' \in Seq(Handlers) /\ StaysPosted'
         /\ In("seeding", queue') => In("seeding", queue)
         /\ In(h, queue) /\ ~ended
<1>1. queue \in Seq(Handlers) /\ queue # <<>> /\ Head(queue) = h /\ queue' = Tail(queue)
  BY DEF IInv, TypeOK, Handlers, Runs
<1>2. /\ queue' \in Seq(Handlers) /\ In(h, queue)
      /\ \A a : In(a, queue') => In(a, queue)
      /\ \A a : In(a, queue) => a = h \/ In(a, queue')
  BY <1>1, InTail
<1>3. h # "alerts" /\ h # "last"
  BY DEF Timers
<1>4. StaysPosted'
  BY <1>2, <1>3 DEF StaysPosted, IInv, Runs, process
<1> QED  BY <1>2, <1>4 DEF Runs

-----------------------------------------------------------------------------
(***************************************************************************)
(* The timers and the answers to announces.                                *)
(***************************************************************************)
LEMMA RunsRemove ==
  ASSUME IInv, NEW h \in Timers \cup {"announce"}, Runs(h), NEW r \in RetCodes,
         RemoveTorrent(armed, r), UNCHANGED <<params, session, outside, should_stop_>>,
         r = ret \/ r # 0, is_timeout_ => is_timeout_', is_mem_exceed_ => is_mem_exceed_',
         is_timeout_' \in BOOLEAN, is_mem_exceed_' \in BOOLEAN,
         finished \/ r # 0 \/ is_timeout_' \/ is_mem_exceed_'
  PROVE  IInv'
<1>1. /\ queue' \in Seq(Handlers) /\ StaysPosted'
      /\ In("seeding", queue') => In("seeding", queue)
      /\ ~ended
  BY RunsStays
<1>2. armed \in SUBSET Timers
  BY DEF IInv, TypeOK
<1>3. UNCHANGED <<params, alerts, torrent, finished, moving, cluster, catch_stop_sigal, announces,
                  at, loop, batch>>
  BY DEF session, outside, Runs, process
<1>4. /\ Told' /\ StopTold' /\ EndTold'
      /\ removals' \in 0 .. MaxRemovals /\ armed' \subseteq armed
      /\ ret' \in RetCodes /\ ended' \in BOOLEAN
  BY <1>1, <1>2, <1>3, RemoveTold
<1>5. TypeOK'
  BY <1>1, <1>2, <1>3, <1>4 DEF IInv, TypeOK, Handlers
<1>6. RemovalTold'
  BY <1>4 DEF RemovalTold
<1>7. FinishedFirst'
  BY <1>1, <1>3, <1>4 DEF FinishedFirst, IInv
<1> QED  BY <1>1, <1>4, <1>5, <1>6, <1>7 DEF IInv

\* A handler that changes nothing but the timers.
LEMMA RunsOnly ==
  ASSUME IInv, NEW h \in Timers \cup {"announce"}, Runs(h),
         armed' \subseteq armed \cup {"progress", "hang"},
         UNCHANGED <<params, session, removals, outside, flags, should_stop_, ret, ended>>
  PROVE  IInv'
<1>1. /\ queue' \in Seq(Handlers) /\ StaysPosted'
      /\ In("seeding", queue') => In("seeding", queue)
  BY RunsStays
<1> USE DEF session, outside, flags, process, Runs
<1>2. TypeOK'
  BY <1>1 DEF IInv, TypeOK, Handlers, Timers
<1>3. RemovalTold' /\ FinishedFirst' /\ StopTold' /\ EndTold'
  BY <1>1 DEF RemovalTold, FinishedFirst, StopTold, EndTold, Told, IInv
<1> QED  BY <1>1, <1>2, <1>3 DEF IInv

LEMMA TimersKeep ==
  ASSUME IInv,
         \/ TimeoutTimerCallback \/ SeedingTimerCallback \/ ProgressCallback
         \/ HangCheckComplete \/ HangCheckTimeout \/ HangCheckMemExceeds \/ HangCheckAgain
         \/ AnnounceCallback
  PROVE  IInv'
<1>1. ret \in RetCodes /\ is_timeout_ \in BOOLEAN /\ is_mem_exceed_ \in BOOLEAN
      /\ finished \in BOOLEAN
  BY DEF IInv, TypeOK
<1>2. CASE TimeoutTimerCallback
  <2>1. /\ Runs("timeout") /\ is_timeout_' = (is_timeout_ \/ ~IsFinished)
        /\ RemoveTorrent(armed, ret)
        /\ UNCHANGED <<params, session, outside, is_mem_exceed_, should_stop_>>
    BY <1>2 DEF TimeoutTimerCallback
  <2>2. is_timeout_' \in BOOLEAN /\ (is_timeout_ => is_timeout_') /\ (finished \/ is_timeout_')
    BY <1>1, <2>1 DEF IsFinished
  <2> QED  BY <1>1, <2>1, <2>2, RunsRemove DEF Timers
<1>3. CASE SeedingTimerCallback
  <2>1. finished
    BY <1>3, RunsStays DEF SeedingTimerCallback, Timers, IInv, FinishedFirst
  <2> QED  BY <1>1, <1>3, <2>1, RunsRemove DEF SeedingTimerCallback, Timers, flags
<1>4. CASE ProgressCallback \/ HangCheckComplete \/ HangCheckAgain
  BY <1>4, RunsOnly DEF ProgressCallback, HangCheckComplete, HangCheckAgain, Timers
<1>5. CASE HangCheckTimeout
  BY <1>1, <1>5, RunsRemove DEF HangCheckTimeout, Timers
<1>6. CASE HangCheckMemExceeds
  BY <1>1, <1>6, RunsRemove DEF HangCheckMemExceeds, Timers
<1>7. CASE AnnounceCallback
  <2>1. PICK code \in {50, 51} : RemoveTorrent(armed, code)
    BY <1>7 DEF AnnounceCallback
  <2>2. code \in RetCodes /\ code # 0
    BY DEF RetCodes
  <2> QED  BY <1>1, <1>7, <2>1, <2>2, RunsRemove DEF AnnounceCallback, flags
<1> QED  BY <1>2, <1>3, <1>4, <1>5, <1>6, <1>7

-----------------------------------------------------------------------------
(***************************************************************************)
(* ProcessAlert, and the alerts of its batch.                              *)
(***************************************************************************)
LEMMA HandlesStays ==
  ASSUME IInv, NEW a \in Alerts, Handles(a)
  PROVE  /\ batch' \in Seq(Alerts)
         /\ (should_stop_ => should_stop_') => StaysPosted'
         /\ \A b : In(b, batch') => In(b, batch)
         /\ In(a, batch) /\ ~ended
<1>1. batch \in Seq(Alerts) /\ batch # <<>> /\ Head(batch) = a /\ batch' = Tail(batch)
  BY DEF IInv, TypeOK, Handles
<1>2. /\ batch' \in Seq(Alerts) /\ In(a, batch)
      /\ \A b : In(b, batch') => In(b, batch)
  BY <1>1, InTail
<1>3. (should_stop_ => should_stop_') => StaysPosted'
  BY DEF StaysPosted, IInv, Handles
<1> QED  BY <1>2, <1>3 DEF Handles

\* The handler of alert a removes the torrent and sets the return code r.
LEMMA AlertRemoves ==
  ASSUME IInv, NEW a \in Alerts, Handles(a), NEW A \in SUBSET armed, NEW r \in RetCodes, r # 0,
         RemoveTorrent(A, r), UNCHANGED <<params, session, outside, flags, should_stop_>>
  PROVE  IInv'
<1>1. /\ batch' \in Seq(Alerts) /\ StaysPosted'
      /\ \A b : In(b, batch') => In(b, batch)
      /\ ~ended
  BY HandlesStays
<1>2. A \in SUBSET Timers
  BY DEF IInv, TypeOK
<1>3. UNCHANGED <<params, queue, alerts, torrent, finished, moving, cluster, catch_stop_sigal,
                  announces, is_timeout_, is_mem_exceed_, at, loop>>
  BY DEF session, outside, flags, Handles
<1>4. /\ Told' /\ StopTold' /\ EndTold'
      /\ removals' \in 0 .. MaxRemovals /\ armed' \subseteq A
      /\ ret' \in RetCodes /\ ended' \in BOOLEAN
  BY <1>1, <1>2, <1>3, RemoveTold
<1>5. TypeOK'
  BY <1>1, <1>2, <1>3, <1>4 DEF IInv, TypeOK
<1>6. RemovalTold'
  BY <1>4 DEF RemovalTold
<1>7. FinishedFirst'
  BY <1>1, <1>3, <1>4 DEF FinishedFirst, IInv
<1> QED  BY <1>1, <1>4, <1>5, <1>6, <1>7 DEF IInv

\* The handler of alert a only changes timers; the seeding timer is started for
\* a finished torrent.
LEMMA AlertOnly ==
  ASSUME IInv, NEW a \in Alerts, Handles(a), armed' \subseteq armed \cup {"seeding"},
         "seeding" \in armed' => finished,
         UNCHANGED <<params, session, removals, outside, flags, should_stop_, ret, ended>>
  PROVE  IInv'
<1>1. /\ batch' \in Seq(Alerts) /\ StaysPosted'
      /\ \A b : In(b, batch') => In(b, batch)
  BY HandlesStays
<1> USE DEF session, outside, flags, Handles
<1>2. TypeOK'
  BY <1>1 DEF IInv, TypeOK, Timers
<1>3. RemovalTold' /\ FinishedFirst' /\ StopTold' /\ EndTold'
  BY <1>1 DEF RemovalTold, FinishedFirst, StopTold, EndTold, Told, IInv
<1> QED  BY <1>1, <1>2, <1>3 DEF IInv

LEMMA CodesFail == \A a \in Failure : CodeOf[a] \in RetCodes /\ CodeOf[a] # 0
<1> SUFFICES ASSUME NEW a \in Failure PROVE CodeOf[a] \in RetCodes /\ CodeOf[a] # 0
  OBVIOUS
<1>1. a \in {"listen_failed", "state_changed", "error"}
  BY FailureAssumption
<1>2. /\ CodeOf["listen_failed"] = -2 /\ CodeOf["state_changed"] = -3 /\ CodeOf["error"] = -6
  BY DEF CodeOf
<1> QED  BY <1>1, <1>2 DEF RetCodes

LEMMA MovedKeeps ==
  ASSUME IInv, NEW a \in {"finished", "moved"}, Handles(a), NEW A \in SUBSET armed,
         NEW code \in RetCodes, code # 0, Moved(A, code),
         UNCHANGED <<params, session, outside, flags, should_stop_>>
  PROVE  IInv'
<1>1. a \in Alerts
  BY DEF Alerts
<1>2. finished
  BY <1>1, HandlesStays DEF IInv, FinishedFirst
<1>3. CASE RemoveTorrent(A, code)
  BY <1>1, <1>3, AlertRemoves
<1>4. CASE /\ armed' = A \cup (IF params.seeding_time = "finite" THEN {"seeding"} ELSE {})
           /\ UNCHANGED <<removals, ret, ended>>
  BY <1>1, <1>2, <1>4, AlertOnly
<1> QED  BY <1>3, <1>4 DEF Moved

LEMMA InTmpKeeps ==
  ASSUME IInv, OnTorrentFinishedInTmp PROVE IInv'
<1>1. /\ Handles("finished") /\ armed' = armed \ {"hang"} /\ moving' = (torrent = "session")
      /\ alerts' = IF torrent = "aborted" THEN Append(alerts, "move_failed") ELSE alerts
      /\ UNCHANGED <<params, torrent, finished, removals, outside, flags, should_stop_, ret, ended>>
  BY DEF OnTorrentFinishedInTmp
<1>2. "finished" \in Alerts /\ "move_failed" \in Alerts
  BY DEF Alerts
<1>3. /\ batch' \in Seq(Alerts) /\ StaysPosted'
      /\ \A b : In(b, batch') => In(b, batch)
      /\ In("finished", batch)
  BY <1>1, <1>2, HandlesStays
<1>4. finished
  BY <1>3 DEF IInv, FinishedFirst
<1>5. alerts' \in Seq(Alerts) /\ \A b : In(b, alerts') => In(b, alerts) \/ b = "move_failed"
  BY <1>1, <1>2, InAppend DEF IInv, TypeOK
<1>6. TypeOK'
  BY <1>1, <1>3, <1>5 DEF IInv, TypeOK, outside, flags, Handles
<1>7. RemovalTold' /\ FinishedFirst' /\ StopTold' /\ EndTold'
  BY <1>1, <1>3, <1>4, <1>5 DEF RemovalTold, FinishedFirst, StopTold, EndTold, Told, IInv, flags
<1> QED  BY <1>3, <1>6, <1>7 DEF IInv

\* The alert of the removal turns the reason into a return code.
LEMMA RemovedKeeps ==
  ASSUME IInv, OnTorrentRemoved PROVE IInv'
<1>1. /\ Handles("removed") /\ should_stop_' = TRUE
      /\ ret' = IF is_timeout_ THEN -7 ELSE IF is_mem_exceed_ THEN -9 ELSE ret
      /\ UNCHANGED <<params, armed, session, removals, outside, flags, ended>>
  BY DEF OnTorrentRemoved
<1>2. "removed" \in Alerts
  BY DEF Alerts
<1>3. /\ batch' \in Seq(Alerts) /\ StaysPosted'
      /\ \A b : In(b, batch') => In(b, batch)
      /\ In("removed", batch)
  BY <1>1, <1>2, HandlesStays
<1>4. Told
  BY <1>3 DEF IInv, RemovalTold
<1>5. finished \/ ret' # 0
  BY <1>1, <1>4 DEF Told
<1>6. ret' \in RetCodes
  BY <1>1 DEF IInv, TypeOK, RetCodes
<1>7. TypeOK'
  BY <1>1, <1>3, <1>6 DEF IInv, TypeOK, session, outside, flags, Handles
<1>8. RemovalTold' /\ FinishedFirst' /\ StopTold' /\ EndTold'
  BY <1>1, <1>3, <1>4, <1>5
     DEF RemovalTold, FinishedFirst, StopTold, EndTold, Told, IInv, session, flags, Handles
<1> QED  BY <1>3, <1>7, <1>8 DEF IInv

LEMMA AlertsKeep ==
  ASSUME IInv,
         \/ \E a \in Failure : OnFailure(a)
         \/ OnTorrentFinished \/ OnTorrentFinishedInTmp
         \/ OnStorageMoved \/ OnStorageMoveFailed \/ OnTorrentRemoved
  PROVE  IInv'
<1>1. -4 \in RetCodes /\ -5 \in RetCodes /\ -8 \in RetCodes
  BY DEF RetCodes
<1>2. ASSUME NEW a \in Failure, OnFailure(a) PROVE IInv'
  BY <1>2, CodesFail, AlertRemoves DEF OnFailure, Alerts
<1>3. CASE OnTorrentFinished
  <2>1. armed \ {"hang"} \in SUBSET armed
    OBVIOUS
  <2> QED  BY <1>1, <1>3, <2>1, MovedKeeps DEF OnTorrentFinished
<1>4. CASE OnStorageMoved
  BY <1>1, <1>4, MovedKeeps DEF OnStorageMoved
<1>5. CASE OnStorageMoveFailed
  BY <1>1, <1>5, AlertRemoves DEF OnStorageMoveFailed, Alerts
<1> QED  BY <1>2, <1>3, <1>4, <1>5, InTmpKeeps, RemovedKeeps

LEMMA ProcessAlertKeeps ==
  ASSUME IInv, ProcessAlert PROVE IInv'
<1>1. /\ ~ended /\ at = "idle" /\ queue # <<>> /\ Head(queue) \in {"alerts", "last"}
      /\ at' = "wait" /\ loop' = (Head(queue) = "alerts")
      /\ queue' = Tail(queue)
      /\ UNCHANGED <<params, batch, session, outside, flags, should_stop_>>
      /\ RemoveTorrent(armed, 20) \/ UNCHANGED <<removals, armed, ret, ended>>
  BY DEF ProcessAlert
<1>2. queue \in Seq(Handlers)
  BY DEF IInv, TypeOK, Handlers
<1>3. /\ queue' \in Seq(Handlers) /\ In(Head(queue), queue)
      /\ \A a : In(a, queue') => In(a, queue)
  BY <1>1, <1>2, InTail
<1>4. StaysPosted'
  BY <1>1, <1>3 DEF StaysPosted, IInv
<1>5. UNCHANGED <<params, batch, alerts, torrent, finished, moving, cluster, catch_stop_sigal,
                  announces, is_timeout_, is_mem_exceed_, should_stop_>>
  BY <1>1 DEF session, outside, flags
<1>6. CASE RemoveTorrent(armed, 20)
  <2>1. 20 \in RetCodes /\ armed \in SUBSET Timers
    BY DEF RetCodes, IInv, TypeOK
  <2>2. /\ Told' /\ StopTold' /\ EndTold'
        /\ removals' \in 0 .. MaxRemovals /\ armed' \subseteq armed
        /\ ret' \in RetCodes /\ ended' \in BOOLEAN
    BY <1>1, <1>5, <1>6, <2>1, RemoveTold
  <2>3. TypeOK'
    BY <1>1, <1>3, <1>5, <2>1, <2>2 DEF IInv, TypeOK, Handlers
  <2>4. RemovalTold' /\ FinishedFirst'
    BY <1>3, <1>5, <2>2 DEF RemovalTold, FinishedFirst, IInv
  <2> QED  BY <1>4, <2>2, <2>3, <2>4 DEF IInv
<1>7. CASE UNCHANGED <<removals, armed, ret, ended>>
  <2>1. TypeOK'
    BY <1>1, <1>3, <1>5, <1>7 DEF IInv, TypeOK, Handlers
  <2>2. RemovalTold' /\ FinishedFirst' /\ StopTold' /\ EndTold'
    BY <1>3, <1>5, <1>7 DEF RemovalTold, FinishedFirst, StopTold, EndTold, Told, IInv
  <2> QED  BY <1>4, <2>1, <2>2 DEF IInv
<1> QED  BY <1>1, <1>6, <1>7

LEMMA PopAlertsKeeps ==
  ASSUME IInv, PopAlerts PROVE IInv'
<1> USE DEF PopAlerts, outside, flags
<1>1. TypeOK'
  <2>1. <<>> \in Seq(Alerts)
    OBVIOUS
  <2> QED  BY <2>1 DEF IInv, TypeOK
<1>2. RemovalTold' /\ FinishedFirst'
  BY InEmpty DEF RemovalTold, FinishedFirst, Told, IInv
<1>3. StopTold' /\ EndTold' /\ StaysPosted'
  BY DEF StopTold, EndTold, StaysPosted, IInv
<1> QED  BY <1>1, <1>2, <1>3 DEF IInv

\* Unless the torrent is gone, ProcessAlert is posted again.
LEMMA PostStays ==
  ASSUME IInv, ~ended, at # "idle"
  PROVE  /\ Post \in Seq(Handlers)
         /\ \A a : In(a, queue) => In(a, Post)
         /\ In("seeding", Post) => In("seeding", queue)
         /\ ~should_stop_ => In("alerts", Post) /\ ~In("last", Post)
<1>1. queue \in Seq(Handlers) /\ "alerts" \in Handlers /\ "last" \in Handlers
  BY DEF IInv, TypeOK, Handlers
<1>2. /\ \A a : In(a, Append(queue, "alerts")) <=> In(a, queue) \/ a = "alerts"
      /\ \A a : In(a, Append(queue, "last")) <=> In(a, queue) \/ a = "last"
      /\ Append(queue, "alerts") \in Seq(Handlers) /\ Append(queue, "last") \in Seq(Handlers)
  BY <1>1, InAppend
<1>3. ~should_stop_ => loop /\ ~In("last", queue)
  BY DEF IInv, StaysPosted
<1> QED  BY <1>1, <1>2, <1>3 DEF Post

LEMMA ProcessAlertEndsKeeps ==
  ASSUME IInv, ProcessAlertEnds PROVE IInv'
<1> DEFINE rest == IF should_stop_ THEN {} ELSE armed
<1>1. /\ ~ended /\ at = "alerts" /\ at' = "idle" /\ queue' = Post
      /\ UNCHANGED <<params, loop, batch, session, catch_stop_sigal, announces, flags, should_stop_>>
      /\ cluster' = IF cluster = "failed" /\ IsFinished THEN "off" ELSE cluster
      /\ \/ RemoveTorrent(rest, -2)
         \/ armed' = rest /\ UNCHANGED <<removals, ret, ended>>
  BY DEF ProcessAlertEnds
<1>2. /\ queue' \in Seq(Handlers)
      /\ In("seeding", queue') => In("seeding", queue)
      /\ ~should_stop_ => In("alerts", queue') /\ ~In("last", queue')
  BY <1>1, PostStays
<1>3. UNCHANGED <<params, loop, batch, alerts, torrent, finished, moving, catch_stop_sigal,
                  announces, is_timeout_, is_mem_exceed_, should_stop_>>
  BY <1>1 DEF session, flags
<1>4. cluster' \in {"on", "failed", "off"}
  BY <1>1 DEF IInv, TypeOK
<1>5. StaysPosted'
  BY <1>1, <1>2, <1>3 DEF StaysPosted
<1>6. rest \in SUBSET Timers /\ rest \subseteq armed /\ -2 \in RetCodes
  BY DEF IInv, TypeOK, RetCodes
<1>7. CASE RemoveTorrent(rest, -2)
  <2>1. /\ Told' /\ StopTold' /\ EndTold'
        /\ removals' \in 0 .. MaxRemovals /\ armed' \subseteq rest
        /\ ret' \in RetCodes /\ ended' \in BOOLEAN
    BY <1>1, <1>3, <1>6, <1>7, RemoveTold
  <2>2. TypeOK'
    BY <1>1, <1>2, <1>3, <1>4, <1>6, <2>1 DEF IInv, TypeOK, Handlers
  <2>3. RemovalTold' /\ FinishedFirst'
    BY <1>2, <1>3, <1>6, <2>1 DEF RemovalTold, FinishedFirst, IInv
  <2> QED  BY <1>5, <2>1, <2>2, <2>3 DEF IInv
<1>8. CASE armed' = rest /\ UNCHANGED <<removals, ret, ended>>
  <2>1. TypeOK'
    BY <1>1, <1>2, <1>3, <1>4, <1>6, <1>8 DEF IInv, TypeOK, Handlers
  <2>2. RemovalTold' /\ FinishedFirst' /\ StopTold' /\ EndTold'
    BY <1>2, <1>3, <1>6, <1>8 DEF RemovalTold, FinishedFirst, StopTold, EndTold, Told, IInv
  <2> QED  BY <1>5, <2>1, <2>2 DEF IInv
<1> QED  BY <1>1, <1>7, <1>8

\* An empty queue means that the alert of the removal has come.
LEMMA RunReturnsKeeps ==
  ASSUME IInv, RunReturns PROVE IInv'
<1>1. /\ ~ended /\ at = "idle" /\ queue = <<>> /\ ended' = TRUE
      /\ UNCHANGED <<params, queue, armed, process, session, removals, outside, flags,
                     should_stop_, ret>>
  BY DEF RunReturns
<1>2. should_stop_
  BY <1>1, InEmpty DEF IInv, StaysPosted
<1> USE DEF process, session, outside, flags
<1>3. TypeOK'
  BY <1>1 DEF IInv, TypeOK
<1>4. RemovalTold' /\ FinishedFirst' /\ StopTold'
  BY <1>1 DEF RemovalTold, FinishedFirst, StopTold, Told, IInv
<1>5. StaysPosted' /\ EndTold'
  BY <1>1, <1>2 DEF StaysPosted, EndTold
<1> QED  BY <1>3, <1>4, <1>5 DEF IInv

-----------------------------------------------------------------------------
(***************************************************************************)
(* Timers that expire, libtorrent, and the world.                          *)
(***************************************************************************)
LEMMA ExpireKeeps ==
  ASSUME IInv, NEW t \in Timers, Expire(t) PROVE IInv'
<1>1. /\ ~ended /\ at = "idle" /\ t \in armed /\ armed' = armed \ {t}
      /\ queue' = Append(queue, t)
      /\ UNCHANGED <<params, process, session, removals, outside, flags, should_stop_, ret, ended>>
  BY DEF Expire
<1>2. queue \in Seq(Handlers) /\ t \in Handlers /\ t # "last" /\ t # "alerts"
  BY DEF IInv, TypeOK, Handlers, Timers
<1>3. queue' \in Seq(Handlers) /\ \A a : In(a, queue') <=> In(a, queue) \/ a = t
  BY <1>1, <1>2, InAppend
<1> USE DEF process, session, outside, flags
<1>4. TypeOK'
  BY <1>1, <1>3 DEF IInv, TypeOK, Handlers
<1>5. RemovalTold' /\ StopTold' /\ EndTold'
  BY <1>1 DEF RemovalTold, StopTold, EndTold, Told, IInv
<1>6. FinishedFirst'
  BY <1>1, <1>3 DEF FinishedFirst, IInv
<1>7. StaysPosted'
  BY <1>1, <1>2, <1>3 DEF StaysPosted, IInv
<1> QED  BY <1>4, <1>5, <1>6, <1>7 DEF IInv

LEMMA AnnounceKeeps ==
  ASSUME IInv, ThriftTrackerAnnounce PROVE IInv'
<1>1. /\ announces < MaxAnnounce /\ announces' = announces + 1
      /\ queue' = Append(queue, "announce")
      /\ UNCHANGED <<params, armed, process, session, removals, cluster, catch_stop_sigal, flags,
                     should_stop_, ret, ended>>
  BY DEF ThriftTrackerAnnounce
<1>2. queue \in Seq(Handlers) /\ "announce" \in Handlers
  BY DEF IInv, TypeOK, Handlers
<1>3. queue' \in Seq(Handlers) /\ \A a : In(a, queue') <=> In(a, queue) \/ a = "announce"
  BY <1>1, <1>2, InAppend
<1> USE DEF process, session, flags
<1>4. announces' \in 0 .. MaxAnnounce
  BY <1>1, BoundAssumption DEF IInv, TypeOK
<1>5. TypeOK'
  BY <1>1, <1>3, <1>4 DEF IInv, TypeOK, Handlers
<1>6. RemovalTold' /\ StopTold' /\ EndTold' /\ FinishedFirst' /\ StaysPosted'
  BY <1>1, <1>3 DEF RemovalTold, StopTold, EndTold, Told, FinishedFirst, StaysPosted, IInv
<1> QED  BY <1>5, <1>6 DEF IInv

\* What libtorrent does to the torrent, with one more alert or none.
LEMMA SessionStep ==
  ASSUME IInv,
         UNCHANGED <<params, queue, armed, process, outside, flags, should_stop_, ret, ended>>,
         NEW a \in Alerts, alerts' = Append(alerts, a) \/ UNCHANGED alerts,
         torrent' \in {"session", "aborted", "gone"}, removals' \in 0 .. MaxRemovals,
         finished' \in BOOLEAN, moving' \in BOOLEAN,
         moving' => moving, finished => finished',
         removals' > 0 \/ torrent' # "session" => removals > 0 \/ torrent # "session",
         alerts' = Append(alerts, a) =>
           /\ a = "removed" => removals > 0
           /\ a \in {"finished", "moved", "move_failed"} => finished'
  PROVE  IInv'
<1>1. alerts \in Seq(Alerts)
  BY DEF IInv, TypeOK
<1>2. /\ alerts' \in Seq(Alerts)
      /\ \A b : In(b, alerts') => In(b, alerts) \/ (alerts' = Append(alerts, a) /\ b = a)
  <2>1. CASE alerts' = Append(alerts, a)
    <3>1. alerts' \in Seq(Alerts)
      BY <1>1, <2>1
    <3>2. \A b : In(b, alerts') <=> In(b, alerts) \/ b = a
      BY <1>1, <2>1, InAppend
    <3> QED  BY <2>1, <3>1, <3>2
  <2>2. CASE UNCHANGED alerts
    BY <1>1, <2>2
  <2> QED  BY <2>1, <2>2
<1> USE DEF process, outside, flags
<1>3. TypeOK'
  BY <1>2 DEF IInv, TypeOK
<1>4. RemovalTold'
  BY <1>2 DEF RemovalTold, Told, IInv
<1>5. FinishedFirst'
  BY <1>2 DEF FinishedFirst, IInv
<1>6. StopTold' /\ EndTold' /\ StaysPosted'
  BY DEF StopTold, EndTold, StaysPosted, IInv
<1> QED  BY <1>3, <1>4, <1>5, <1>6 DEF IInv

LEMMA LibtorrentKeeps ==
  ASSUME IInv,
         \/ \E a \in Failure : TorrentFails(a)
         \/ TorrentFinishes \/ MoveEnds \/ RemovalExecutes \/ HandleExpires
  PROVE  IInv'
<1> USE DEF Posted
<1>1. /\ torrent \in {"session", "aborted", "gone"} /\ removals \in 0 .. MaxRemovals
      /\ finished \in BOOLEAN /\ moving \in BOOLEAN /\ MaxRemovals \in Nat
  BY BoundAssumption DEF IInv, TypeOK
<1>2. "finished" \in Alerts /\ "moved" \in Alerts /\ "move_failed" \in Alerts /\ "removed" \in Alerts
  BY DEF Alerts
<1>3. ASSUME NEW a \in Failure, TorrentFails(a) PROVE IInv'
  <2>1. a \in Alerts /\ a \notin {"finished", "moved", "move_failed", "removed"}
    BY FailureAssumption DEF Alerts
  <2> QED  BY <1>1, <1>3, <2>1, SessionStep DEF TorrentFails
<1>4. CASE TorrentFinishes
  BY <1>1, <1>2, <1>4, SessionStep DEF TorrentFinishes
<1>5. CASE MoveEnds
  <2>1. finished
    BY <1>5 DEF MoveEnds, IInv, FinishedFirst
  <2> QED  BY <1>1, <1>2, <1>5, <2>1, SessionStep DEF MoveEnds
<1>6. CASE RemovalExecutes
  <2>1. removals' \in 0 .. MaxRemovals /\ removals > 0
    BY <1>1, <1>6 DEF RemovalExecutes
  <2>2. /\ torrent' \in {"session", "aborted", "gone"}
        /\ Posted("removed") \/ UNCHANGED alerts
        /\ UNCHANGED <<params, queue, armed, process, finished, moving, outside, flags,
                       should_stop_, ret, ended>>
    BY <1>1, <1>6 DEF RemovalExecutes
  <2> QED  BY <1>1, <1>2, <2>1, <2>2, SessionStep
<1>7. CASE HandleExpires
  BY <1>1, <1>2, <1>7, SessionStep DEF HandleExpires
<1> QED  BY <1>3, <1>4, <1>5, <1>6, <1>7

LEMMA WorldKeeps ==
  ASSUME IInv, ClusterFails \/ HandleStopSigal \/ UNCHANGED vars PROVE IInv'
<1> USE DEF ClusterFails, HandleStopSigal, vars, process, session, outside, flags
<1>1. TypeOK'
  <2>1. CASE ClusterFails
    BY <2>1 DEF IInv, TypeOK
  <2>2. CASE HandleStopSigal
    BY <2>2 DEF IInv, TypeOK
  <2>3. CASE UNCHANGED vars
    BY <2>3 DEF IInv, TypeOK
  <2> QED  BY <2>1, <2>2, <2>3
<1>2. RemovalTold' /\ FinishedFirst'
  BY DEF RemovalTold, FinishedFirst, Told, IInv
<1>3. StopTold' /\ EndTold' /\ StaysPosted'
  BY DEF StopTold, EndTold, StaysPosted, IInv
<1> QED  BY <1>1, <1>2, <1>3 DEF IInv

-----------------------------------------------------------------------------
LEMMA InitIInv == Init => IInv
<1> SUFFICES ASSUME Init PROVE IInv
  OBVIOUS
<1> USE DEF Init
<1>1. TypeOK
  <2>1. /\ <<"alerts">> \in Seq(Timers \cup {"alerts", "last", "announce"})
        /\ <<>> \in Seq(Alerts)
    OBVIOUS
  <2>2. params \in ParamSet /\ armed \subseteq Timers
    BY ParamAssumption DEF Timers
  <2>3. 0 \in 0 .. MaxRemovals /\ 0 \in 0 .. MaxAnnounce /\ 0 \in RetCodes
    BY BoundAssumption DEF RetCodes
  <2>4. cluster \in {"on", "failed", "off"}
    OBVIOUS
  <2> QED  BY <2>1, <2>2, <2>3, <2>4 DEF TypeOK
<1>2. In("alerts", queue) /\ ~In("last", queue) /\ ~In("seeding", queue)
  BY DEF In
<1>3. RemovalTold /\ FinishedFirst
  BY <1>2, InEmpty DEF RemovalTold, FinishedFirst
<1>4. StopTold /\ EndTold /\ StaysPosted
  BY <1>2 DEF StopTold, EndTold, StaysPosted
<1> QED  BY <1>1, <1>3, <1>4 DEF IInv

LEMMA NextIInv == IInv /\ [Next]_vars => IInv'
<1> SUFFICES ASSUME IInv, [Next]_vars PROVE IInv'
  OBVIOUS
<1>1. CASE Step
  BY <1>1, TimersKeep, AlertsKeep, ProcessAlertKeeps, PopAlertsKeeps, ProcessAlertEndsKeeps,
     RunReturnsKeeps DEF Step
<1>2. CASE Environment
  BY <1>2, LibtorrentKeeps, WorldKeeps, AnnounceKeeps DEF Environment
<1>3. CASE \E t \in Timers : Expire(t)
  BY <1>3, ExpireKeeps
<1>4. CASE UNCHANGED vars
  BY <1>4, WorldKeeps
<1> QED  BY <1>1, <1>2, <1>3, <1>4 DEF Next

LEMMA InvariantHolds == Spec => []IInv
<1> QED  BY InitIInv, NextIInv, PTL DEF Spec

\* Every variable keeps its type; Download returns one of the documented codes.
THEOREM TypeCorrect == Spec => []TypeOK
<1>1. IInv => TypeOK
  BY DEF IInv
<1> QED  BY <1>1, InvariantHolds, PTL

(***************************************************************************)
(* Download returns 0 only for a torrent that was downloaded, in whatever  *)
(* order timers, signals, announces and alerts end it.                     *)
(***************************************************************************)
THEOREM SuccessAlwaysMeansFinished == Spec => []SuccessMeansFinished
<1>1. IInv => SuccessMeansFinished
  BY DEF IInv, EndTold, StopTold, SuccessMeansFinished
<1> QED  BY <1>1, InvariantHolds, PTL

-----------------------------------------------------------------------------
LEMMA RemoveFails ==
  ASSUME NEW A, NEW r, r # 0, RemoveTorrent(A, r)
  PROVE  ret' # 0
  BY DEF RemoveTorrent

LEMMA RemoveFailed ==
  ASSUME NEW A, ret # 0, RemoveTorrent(A, ret)
  PROVE  ret' # 0
  BY DEF RemoveTorrent

LEMMA NextKeepsFailure ==
  ASSUME [Next]_vars, ret # 0 PROVE ret' # 0
<1>1. CASE Environment \/ (\E t \in Timers : Expire(t)) \/ UNCHANGED vars
  BY <1>1 DEF Environment, TorrentFails, TorrentFinishes, MoveEnds, RemovalExecutes, HandleExpires,
     ClusterFails, HandleStopSigal, ThriftTrackerAnnounce, Expire, vars
<1>2. CASE \/ TimeoutTimerCallback \/ SeedingTimerCallback \/ HangCheckTimeout
           \/ HangCheckMemExceeds
  BY <1>2, RemoveFailed
     DEF TimeoutTimerCallback, SeedingTimerCallback, HangCheckTimeout, HangCheckMemExceeds
<1>3. CASE ProgressCallback \/ HangCheckComplete \/ HangCheckAgain \/ PopAlerts \/ RunReturns
           \/ OnTorrentFinishedInTmp \/ OnTorrentRemoved
  BY <1>3 DEF ProgressCallback, HangCheckComplete, HangCheckAgain, PopAlerts, RunReturns,
     OnTorrentFinishedInTmp, OnTorrentRemoved
<1>4. CASE AnnounceCallback
  BY <1>4, RemoveFails DEF AnnounceCallback
<1>5. CASE ProcessAlert \/ ProcessAlertEnds
  BY <1>5, RemoveFails DEF ProcessAlert, ProcessAlertEnds
<1>6. CASE \E a \in Failure : OnFailure(a)
  BY <1>6, RemoveFails, CodesFail DEF OnFailure
<1>7. CASE OnTorrentFinished \/ OnStorageMoved \/ OnStorageMoveFailed
  BY <1>7, RemoveFails DEF OnTorrentFinished, OnStorageMoved, OnStorageMoveFailed, Moved
<1> QED  BY <1>1, <1>2, <1>3, <1>4, <1>5, <1>6, <1>7 DEF Next, Step

(***************************************************************************)
(* No handler turns a return code that says failure into success: each     *)
(* overwrites it, if at all, by another failure.                           *)
(***************************************************************************)
THEOREM FailureAlwaysKept == Spec => FailureKept
<1>1. [Next]_vars => [ret # 0 => ret' # 0]_ret
  BY NextKeepsFailure
<1> QED  BY <1>1, PTL DEF Spec, FailureKept
=============================================================================
