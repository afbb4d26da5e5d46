----------------------------- MODULE Downloader -----------------------------
(***************************************************************************)
(* gko3 down and serve (gko-src/src/Downloader.cpp): one process for one   *)
(* torrent.  One thread runs io_service_: ProcessAlert, which posts itself *)
(* again, the timers, and the answers to announces.  libtorrent works on   *)
(* threads of its own: a torrent is removed some time after it was asked   *)
(* to be, and what happens to it is told by alerts.                        *)
(*                                                                         *)
(* Not in the model: dynamic_allocate, the control socket, statistics.     *)
(***************************************************************************)
EXTENDS Integers, Sequences, FiniteSets

CONSTANTS
  Params,       \* the command lines
  Failure,      \* the alerts after which the torrent is removed
  MaxRemovals,  \* bound: calls of remove_torrent under way
  MaxAnnounce   \* bound: announces answered with an order to stop

Timers == {"hang", "timeout", "seeding", "progress"}

\* The parts of down_params_t that decide the control flow; seeding_time is
\* "infinite" for -1.
ParamSet ==
  [timeout : BOOLEAN, seeding_time : {"finite", "infinite"}, mem_limit : BOOLEAN,
   print_progress : BOOLEAN, need_down_to_tmp_first : BOOLEAN, cluster : BOOLEAN]

ASSUME ParamAssumption   == Params \subseteq ParamSet
ASSUME FailureAssumption == Failure \subseteq {"listen_failed", "state_changed", "error"}
ASSUME BoundAssumption   == MaxRemovals \in Nat /\ MaxAnnounce \in Nat

VARIABLES
  params,           \* params_
  queue,            \* handlers of io_service_ that are ready to run
  armed,            \* timers that have not expired
  at,               \* where ProcessAlert is: "idle", "wait", "alerts"
  loop,             \* its parameter
  batch,            \* alerts it has popped
  alerts,           \* alerts of the session
  torrent,          \* "session", "aborted" (removed, its handle still valid), "gone"
  removals,         \* calls of remove_torrent libtorrent has not executed
  finished,         \* is_finished of the torrent
  moving,           \* move_storage is under way
  cluster,          \* the hdfs threads: "on", "failed" once all have ended, "off"
  catch_stop_sigal,
  is_timeout_, is_mem_exceed_, should_stop_,
  ret,              \* the return code of Download
  announces,        \* announces made
  ended             \* io_service_.run has returned or thrown

session == <<alerts, torrent, finished, moving>>
flags   == <<is_timeout_, is_mem_exceed_>>
process == <<at, loop, batch>>
outside == <<cluster, catch_stop_sigal, announces>>
vars    == <<params, queue, armed, process, session, removals, outside, flags,
             should_stop_, ret, ended>>

IsValid == torrent # "gone"

\* status(0).is_finished, which is false for a handle that is not valid.
IsFinished == IsValid /\ finished

\* StartDownload, and the first ProcessAlert.
Init ==
  /\ params \in Params
  /\ queue = <<"alerts">>
  /\ armed = {"hang"} \cup (IF params.timeout THEN {"timeout"} ELSE {})
                      \cup (IF params.print_progress THEN {"progress"} ELSE {})
  /\ at = "idle" /\ loop = TRUE /\ batch = <<>>
  /\ alerts = <<>> /\ torrent = "session" /\ removals = 0
  /\ finished = FALSE /\ moving = FALSE
  /\ cluster = (IF params.cluster THEN "on" ELSE "off")
  /\ catch_stop_sigal = FALSE
  /\ is_timeout_ = FALSE /\ is_mem_exceed_ = FALSE /\ should_stop_ = FALSE
  /\ ret = 0 /\ announces = 0 /\ ended = FALSE

-----------------------------------------------------------------------------
(***************************************************************************)
(* RemoveTorrent, called with timers A armed, in a handler that then sets  *)
(* the return code r.  session::remove_torrent throws if the handle has    *)
(* become invalid since it was tested, which ends Download with -1.        *)
(***************************************************************************)
RemoveTorrent(A, r) ==
  \/ /\ removals' = IF IsValid /\ removals < MaxRemovals THEN removals + 1 ELSE removals
     /\ armed' = IF IsValid THEN A \ {"progress"} ELSE A
     /\ ret' = r /\ UNCHANGED ended
  \/ /\ torrent = "aborted" /\ ~moving
     /\ ret' = -1 /\ ended' = TRUE
     /\ armed' = A /\ UNCHANGED removals

\* The next handler is h and runs to its end.
Runs(h) ==
  /\ ~ended /\ at = "idle" /\ queue # <<>> /\ Head(queue) = h
  /\ queue' = Tail(queue)
  /\ UNCHANGED process

TimeoutTimerCallback ==
  /\ Runs("timeout")
  /\ is_timeout_' = (is_timeout_ \/ ~IsFinished)
  /\ RemoveTorrent(armed, ret)
  /\ UNCHANGED <<params, session, outside, is_mem_exceed_, should_stop_>>

SeedingTimerCallback ==
  /\ Runs("seeding")
  /\ RemoveTorrent(armed, ret)
  /\ UNCHANGED <<params, session, outside, flags, should_stop_>>

ProgressCallback ==
  /\ Runs("progress")
  /\ armed' = armed \cup {"progress"}
  /\ UNCHANGED <<params, session, removals, outside, flags, should_stop_, ret, ended>>

\* HangCheckCallback: all is downloaded; no progress for too long; too much
\* memory; or the timer is started again.
HangCheckComplete ==
  /\ Runs("hang") /\ IsFinished
  /\ UNCHANGED <<params, armed, session, removals, outside, flags, should_stop_, ret, ended>>

HangCheckTimeout ==
  /\ Runs("hang") /\ IsValid /\ ~finished
  /\ is_timeout_' = TRUE
  /\ RemoveTorrent(armed, ret)
  /\ UNCHANGED <<params, session, outside, is_mem_exceed_, should_stop_>>

HangCheckMemExceeds ==
  /\ Runs("hang") /\ ~IsFinished /\ params.mem_limit
  /\ is_mem_exceed_' = TRUE
  /\ RemoveTorrent(armed, ret)
  /\ UNCHANGED <<params, session, outside, is_timeout_, should_stop_>>

HangCheckAgain ==
  /\ Runs("hang") /\ ~IsFinished
  /\ armed' = armed \cup {"hang"}
  /\ UNCHANGED <<params, session, removals, outside, flags, should_stop_, ret, ended>>

\* The tracker orders to stop (50), or could not be reached and the user wants
\* to stop then (51).
AnnounceCallback ==
  /\ Runs("announce")
  /\ \E code \in {50, 51} : RemoveTorrent(armed, code)
  /\ UNCHANGED <<params, session, outside, flags, should_stop_>>

-----------------------------------------------------------------------------
\* ProcessAlert: the signal, and then up to 100 ms of waiting for alerts.
ProcessAlert ==
  /\ ~ended /\ at = "idle" /\ queue # <<>> /\ Head(queue) \in {"alerts", "last"}
  /\ at' = "wait" /\ loop' = (Head(queue) = "alerts")
  /\ queue' = Tail(queue)
  /\ IF catch_stop_sigal THEN RemoveTorrent(armed, 20)
                         ELSE UNCHANGED <<removals, armed, ret, ended>>
  /\ UNCHANGED <<params, batch, session, outside, flags, should_stop_>>

PopAlerts ==
  /\ ~ended /\ at = "wait"
  /\ at' = "alerts" /\ batch' = alerts /\ alerts' = <<>>
  /\ UNCHANGED <<params, queue, armed, loop, torrent, removals, finished, moving, outside,
                 flags, should_stop_, ret, ended>>

\* The next alert of the batch is a.
Handles(a) ==
  /\ ~ended /\ at = "alerts" /\ batch # <<>> /\ Head(batch) = a
  /\ batch' = Tail(batch)
  /\ UNCHANGED <<at, loop, queue>>

\* The return codes of these.
CodeOf == [listen_failed |-> -2, state_changed |-> -3, error |-> -6]

\* The port cannot be used, the hdfs threads cannot be started, an error.
OnFailure(a) ==
  /\ Handles(a)
  /\ RemoveTorrent(armed, CodeOf[a])
  /\ UNCHANGED <<params, session, outside, flags, should_stop_>>

\* OnStorageMoved: the modes of the files are corrected, which needs the torrent
\* and may fail, and the torrent is seeded, for ever or for a time.
Moved(A, code) ==
  \/ RemoveTorrent(A, code)
  \/ /\ IsValid
     /\ armed' = A \cup (IF params.seeding_time = "finite" THEN {"seeding"} ELSE {})
     /\ UNCHANGED <<removals, ret, ended>>

\* OnTorrentFinished cancels the hang check; the data may have to be moved.
OnTorrentFinished ==
  /\ Handles("finished") /\ ~params.need_down_to_tmp_first
  /\ Moved(armed \ {"hang"}, -4)
  /\ UNCHANGED <<params, session, outside, flags, should_stop_>>

OnTorrentFinishedInTmp ==
  /\ Handles("finished") /\ params.need_down_to_tmp_first
  /\ armed' = armed \ {"hang"}
  /\ moving' = (torrent = "session")
  /\ alerts' = IF torrent = "aborted" THEN Append(alerts, "move_failed") ELSE alerts
  /\ UNCHANGED <<params, torrent, finished, removals, outside, flags, should_stop_, ret, ended>>

OnStorageMoved ==
  /\ Handles("moved")
  /\ Moved(armed, -5)
  /\ UNCHANGED <<params, session, outside, flags, should_stop_>>

OnStorageMoveFailed ==
  /\ Handles("move_failed")
  /\ RemoveTorrent(armed, -8)
  /\ UNCHANGED <<params, session, outside, flags, should_stop_>>

\* Mutant: only the timeout is told to the user.
OnTorrentRemovedTimeout ==
  /\ Handles("removed")
  /\ ret' = IF is_timeout_ THEN -7 ELSE ret
  /\ should_stop_' = TRUE
  /\ UNCHANGED <<params, armed, session, removals, outside, flags, ended>>

\* Mutant: the return code is that of the removal alone.
OnTorrentRemovedAlone ==
  /\ Handles("removed")
  /\ ret' = IF is_timeout_ THEN -7 ELSE IF is_mem_exceed_ THEN -9 ELSE 0
  /\ should_stop_' = TRUE
  /\ UNCHANGED <<params, armed, session, removals, outside, flags, ended>>

OnTorrentRemoved ==
  /\ Handles("removed")
  /\ ret' = IF is_timeout_ THEN -7 ELSE IF is_mem_exceed_ THEN -9 ELSE ret
  /\ should_stop_' = TRUE
  /\ UNCHANGED <<params, armed, session, removals, outside, flags, ended>>

\* Mutant: ProcessAlert is not posted once more after the stop.
PostUntilStop == IF loop /\ ~should_stop_ THEN Append(queue, "alerts") ELSE queue

\* ProcessAlert posts itself, with loop = !should_stop_: once it stops, the
\* handlers that were ready before run, and then ProcessAlert a last time.
Post ==
  IF ~loop THEN queue
  ELSE IF should_stop_ THEN Append(queue, "last") ELSE Append(queue, "alerts")

\* The end of ProcessAlert: the hdfs threads have failed, or not; all timers
\* are cancelled.
ProcessAlertEnds ==
  LET rest == IF should_stop_ THEN {} ELSE armed IN
  /\ ~ended /\ at = "alerts" /\ batch = <<>>
  /\ at' = "idle" /\ queue' = Post
  /\ IF cluster = "failed" /\ ~IsFinished
       THEN RemoveTorrent(rest, -2)
       ELSE armed' = rest /\ UNCHANGED <<removals, ret, ended>>
  /\ cluster' = IF cluster = "failed" /\ IsFinished THEN "off" ELSE cluster
  /\ UNCHANGED <<params, loop, batch, session, catch_stop_sigal, announces, flags,
                 should_stop_>>

\* io_service_.run returns when there is no handler and no timer left.
RunReturns ==
  /\ ~ended /\ at = "idle" /\ queue = <<>> /\ armed = {}
  /\ ended' = TRUE
  /\ UNCHANGED <<params, queue, armed, process, session, removals, outside, flags,
                 should_stop_, ret>>

(***************************************************************************)
(* A timer expires: the thread of io_service_ looks for that between two   *)
(* handlers.  The timers that a handler starts again between the stop and  *)
(* the last ProcessAlert take 2 and 15 seconds, and do not expire so soon. *)
(***************************************************************************)
Expire(t) ==
  /\ ~ended /\ at = "idle" /\ t \in armed
  /\ \A i \in DOMAIN queue : queue[i] # "last"
  /\ armed' = armed \ {t}
  /\ queue' = Append(queue, t)
  /\ UNCHANGED <<params, process, session, removals, outside, flags, should_stop_, ret, ended>>

-----------------------------------------------------------------------------
(***************************************************************************)
(* libtorrent and the world.  Bound: of each alert at most one is waiting. *)
(***************************************************************************)
Posted(a) == alerts' = Append(alerts, a)
Waiting(a) == \E i \in DOMAIN alerts : alerts[i] = a

TorrentFails(a) ==
  /\ ~ended /\ torrent = "session" /\ ~Waiting(a) /\ Posted(a)
  /\ UNCHANGED <<params, queue, armed, process, torrent, finished, moving, removals, outside,
                 flags, should_stop_, ret, ended>>

TorrentFinishes ==
  /\ ~ended /\ torrent = "session" /\ ~finished
  /\ finished' = TRUE /\ Posted("finished")
  /\ UNCHANGED <<params, queue, armed, process, torrent, moving, removals, outside, flags,
                 should_stop_, ret, ended>>

\* The job of moving the data keeps the torrent, also one that was removed.
MoveEnds ==
  /\ ~ended /\ moving
  /\ moving' = FALSE /\ (Posted("moved") \/ Posted("move_failed"))
  /\ UNCHANGED <<params, queue, armed, process, torrent, finished, removals, outside, flags,
                 should_stop_, ret, ended>>

\* A torrent that is still somewhere is removed, and that is told, once more.
RemovalExecutes ==
  /\ ~ended /\ removals > 0
  /\ removals' = removals - 1
  /\ IF IsValid THEN torrent' = "aborted" /\ IF Waiting("removed") THEN UNCHANGED alerts
                                                                   ELSE Posted("removed")
                ELSE UNCHANGED <<torrent, alerts>>
  /\ UNCHANGED <<params, queue, armed, process, finished, moving, outside, flags,
                 should_stop_, ret, ended>>

HandleExpires ==
  /\ ~ended /\ torrent = "aborted" /\ ~moving
  /\ torrent' = "gone"
  /\ UNCHANGED <<params, queue, armed, process, alerts, finished, moving, removals, outside,
                 flags, should_stop_, ret, ended>>

\* All hdfs threads have ended, with a return code.
ClusterFails ==
  /\ ~ended /\ cluster = "on" /\ cluster' = "failed"
  /\ UNCHANGED <<params, queue, armed, process, session, removals, catch_stop_sigal, announces,
                 flags, should_stop_, ret, ended>>

HandleStopSigal ==
  /\ ~ended /\ ~catch_stop_sigal /\ catch_stop_sigal' = TRUE
  /\ UNCHANGED <<params, queue, armed, process, session, removals, cluster, announces, flags,
                 should_stop_, ret, ended>>

\* An announce, also the one libtorrent makes when the torrent stops.
ThriftTrackerAnnounce ==
  /\ ~ended /\ announces < MaxAnnounce /\ announces' = announces + 1
  /\ queue' = Append(queue, "announce")
  /\ UNCHANGED <<params, armed, process, session, removals, cluster, catch_stop_sigal, flags,
                 should_stop_, ret, ended>>

-----------------------------------------------------------------------------
\* What the thread of io_service_ does next.
Step ==
  \/ TimeoutTimerCallback \/ SeedingTimerCallback \/ ProgressCallback
  \/ HangCheckComplete \/ HangCheckTimeout \/ HangCheckMemExceeds \/ HangCheckAgain
  \/ AnnounceCallback
  \/ ProcessAlert \/ PopAlerts \/ ProcessAlertEnds \/ RunReturns
  \/ \E a \in Failure : OnFailure(a)
  \/ OnTorrentFinished \/ OnTorrentFinishedInTmp
  \/ OnStorageMoved \/ OnStorageMoveFailed \/ OnTorrentRemoved

Environment ==
  \/ \E a \in Failure : TorrentFails(a)
  \/ TorrentFinishes \/ MoveEnds \/ RemovalExecutes \/ HandleExpires
  \/ ClusterFails \/ HandleStopSigal \/ ThriftTrackerAnnounce

Next == Step \/ Environment \/ \E t \in Timers : Expire(t)

(***************************************************************************)
(* The thread of io_service_ runs while it has work, and looks at the      *)
(* timers again and again; libtorrent does what it was asked to.           *)
(***************************************************************************)
Fairness ==
  /\ WF_vars(Step) /\ SF_vars(Expire("timeout")) /\ SF_vars(Expire("seeding"))
  /\ WF_vars(MoveEnds) /\ WF_vars(RemovalExecutes)

Spec == Init /\ [][Next]_vars /\ Fairness

-----------------------------------------------------------------------------
Alerts   == Failure \cup {"finished", "moved", "move_failed", "removed"}
RetCodes == {-9, -8, -7, -6, -5, -4, -3, -2, -1, 0, 20, 50, 51}

TypeOK ==
  /\ params \in ParamSet
  /\ queue \in Seq(Timers \cup {"alerts", "last", "announce"})
  /\ armed \subseteq Timers
  /\ at \in {"idle", "wait", "alerts"} /\ loop \in BOOLEAN
  /\ batch \in Seq(Alerts) /\ alerts \in Seq(Alerts)
  /\ torrent \in {"session", "aborted", "gone"}
  /\ removals \in 0 .. MaxRemovals
  /\ finished \in BOOLEAN /\ moving \in BOOLEAN
  /\ cluster \in {"on", "failed", "off"} /\ catch_stop_sigal \in BOOLEAN
  /\ is_timeout_ \in BOOLEAN /\ is_mem_exceed_ \in BOOLEAN /\ should_stop_ \in BOOLEAN
  /\ ret \in RetCodes /\ announces \in 0 .. MaxAnnounce /\ ended \in BOOLEAN

(***************************************************************************)
(* Download returns 0, and deletes the resume file, only if the torrent    *)
(* was downloaded: each way to end without that has its return code, also  *)
(* when the reason and the alert that tells of the removal are apart.      *)
(***************************************************************************)
SuccessMeansFinished == ended /\ ret = 0 => finished

(***************************************************************************)
(* A failure may be told by the code of another one that came later, but   *)
(* no later event makes a success of it.                                   *)
(***************************************************************************)
FailureKept == [][ret # 0 => ret' # 0]_ret

(***************************************************************************)
(* gko3 ends when it has to: after -O seconds, after a signal, and when    *)
(* the time to seed a torrent it downloaded is finite, whatever timers and *)
(* handlers are left when the torrent is removed.                          *)
(***************************************************************************)
EndsWhenDue ==
  /\ params.timeout ~> ended
  /\ catch_stop_sigal ~> ended
  /\ finished /\ params.seeding_time = "finite" ~> ended
=============================================================================
