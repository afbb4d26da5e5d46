--------------------------- MODULE ClusterDownload ---------------------------
(***************************************************************************)
(* The threads that fetch the pieces of a torrent from hdfs while          *)
(* libtorrent fetches them from peers: ClusterDownloader of gko3 and       *)
(* GroupClusterTask of bbts-group, which share this protocol               *)
(* (gko-src/src/ClusterDownloader.cpp, group/group_cluster_task.cpp).      *)
(***************************************************************************)
EXTENDS Integers, Sequences, FiniteSets

CONSTANTS
  Thread,         \* at most threads_num_ of them
  Piece,          \* the pieces that are wanted: priority not 0
  None,           \* no piece
  StopNotifies,   \* GroupClusterTask::StopDownload notifies, the other does not
  MaxHashFailed   \* bound: hash failed alerts

ASSUME NoneAssumption == None \notin Piece
ASSUME ThreadAssumption == IsFiniteSet(Thread)
ASSUME BoundsAssumption == StopNotifies \in BOOLEAN /\ MaxHashFailed \in Nat

VARIABLES
  have,                 \* what torrent_.have_piece says; pieces_have_ caches it
  adding,               \* given to add_piece, the hash not checked yet
  pieces_downloading,
  hash_failed_pieces,   \* a queue
  thread,               \* where each thread is in Download, with its piece
  ignore_error,
  should_stop,
  retval,
  hash_failed           \* number of alerts so far

vars == <<have, adding, pieces_downloading, hash_failed_pieces, thread,
          ignore_error, should_stop, retval, hash_failed>>

Locals == [at : {"new", "loop", "got", "read", "doze", "wait", "woken", "ended"},
           piece_index : Piece \cup {None}, get_from_hash_failed : BOOLEAN]

Init ==
  /\ have \in SUBSET Piece /\ adding = {} /\ pieces_downloading = {}
  /\ hash_failed_pieces = <<>> /\ hash_failed = 0
  /\ thread = [t \in Thread |->
                 [at |-> "new", piece_index |-> None, get_from_hash_failed |-> FALSE]]
  /\ ignore_error \in BOOLEAN /\ should_stop = FALSE /\ retval = 0

-----------------------------------------------------------------------------
(***************************************************************************)
(* mutex_ is held across steps only from the test of should_stop_ to the   *)
(* moment cond_.wait sleeps.                                               *)
(***************************************************************************)
MutexFree == \A t \in Thread : thread[t].at # "doze"

\* cond_.notify_all, applied to the threads as they then are.
NotifyAll(threads) ==
  [t \in Thread |-> IF threads[t].at = "wait" THEN [threads[t] EXCEPT !.at = "woken"]
                    ELSE threads[t]]

\* At the test of the outer loop, or in the inner one after cond_.wait.
WantsPiece(t) ==
  /\ MutexFree
  /\ \/ thread[t].at = "loop" /\ ~should_stop
     \/ thread[t].at = "woken"

\* The piece just dealt with is not marked any more.
Unmarked(t) == pieces_downloading \ {thread[t].piece_index}
Idle(t) == Piece \ (have \cup Unmarked(t))
Busy(t) == Unmarked(t) \ have

Get(t, p) == thread' = [thread EXCEPT ![t].at = "got", ![t].piece_index = p]

-----------------------------------------------------------------------------
CreateThread(t) ==
  /\ thread[t].at = "new"
  /\ thread' = [thread EXCEPT ![t].at = "loop"]
  /\ UNCHANGED <<have, adding, pieces_downloading, hash_failed_pieces, ignore_error,
                 should_stop, retval, hash_failed>>

(***************************************************************************)
(* GetUndownloadedPiece: a piece nobody reads, or else one that another    *)
(* thread reads.  The scan starts at random: any may come first.           *)
(***************************************************************************)
GetUndownloadedPiece(t) ==
  /\ WantsPiece(t) /\ ~thread[t].get_from_hash_failed
  /\ \E p \in IF Idle(t) # {} THEN Idle(t) ELSE Busy(t) :
       /\ Get(t, p)
       /\ pieces_downloading' = Unmarked(t) \cup {p}
  /\ UNCHANGED <<have, adding, hash_failed_pieces, ignore_error, should_stop, retval,
                 hash_failed>>

\* Mutant: pieces that another thread reads are left to it.
TurnsToQueueEarly(t) ==
  /\ WantsPiece(t)
  /\ IF thread[t].get_from_hash_failed THEN pieces_downloading' = pieces_downloading
     ELSE Idle(t) = {} /\ pieces_downloading' = Unmarked(t)

(***************************************************************************)
(* Nothing is left: from now on this thread only looks at the queue.       *)
(***************************************************************************)
TurnsToQueue(t) ==
  /\ WantsPiece(t)
  /\ IF thread[t].get_from_hash_failed THEN pieces_downloading' = pieces_downloading
     ELSE Idle(t) \cup Busy(t) = {} /\ pieces_downloading' = Unmarked(t)

GetHashFailedPiece(t) ==
  /\ TurnsToQueue(t) /\ hash_failed_pieces # <<>>
  /\ thread' = [thread EXCEPT ![t].at = "got", ![t].piece_index = Head(hash_failed_pieces),
                              ![t].get_from_hash_failed = TRUE]
  /\ hash_failed_pieces' = Tail(hash_failed_pieces)
  /\ UNCHANGED <<have, adding, ignore_error, should_stop, retval, hash_failed>>

FindsNothing(t, at) ==
  /\ TurnsToQueue(t) /\ hash_failed_pieces = <<>>
  /\ thread' = [thread EXCEPT ![t].at = at, ![t].piece_index = None,
                              ![t].get_from_hash_failed = TRUE]
  /\ UNCHANGED <<have, adding, hash_failed_pieces, ignore_error, should_stop, retval,
                 hash_failed>>

\* Mutant: should_stop_ is not tested again before waiting.
NothingToGetDozes(t) == FindsNothing(t, "doze")

NothingToGet(t) == FindsNothing(t, IF should_stop THEN "ended" ELSE "doze")

\* cond_.wait lets go of the mutex and sleeps.
Wait(t) ==
  /\ thread[t].at = "doze"
  /\ thread' = [thread EXCEPT ![t].at = "wait"]
  /\ UNCHANGED <<have, adding, pieces_downloading, hash_failed_pieces, ignore_error,
                 should_stop, retval, hash_failed>>

-----------------------------------------------------------------------------
\* should_stop_ is found set: by the outer loop, or with a piece in hand.
Leave(t) ==
  /\ thread[t].at \in {"loop", "got"} /\ should_stop
  /\ thread' = [thread EXCEPT ![t].at = "ended"]
  /\ UNCHANGED <<have, adding, pieces_downloading, hash_failed_pieces, ignore_error,
                 should_stop, retval, hash_failed>>

Read(t) ==
  /\ thread[t].at = "got" /\ ~should_stop
  /\ thread' = [thread EXCEPT ![t].at = "read"]
  /\ UNCHANGED <<have, adding, pieces_downloading, hash_failed_pieces, ignore_error,
                 should_stop, retval, hash_failed>>

\* The piece arrived and its hash is right.
ReadSucceeds(t) ==
  /\ thread[t].at = "read"
  /\ adding' = adding \cup {thread[t].piece_index}
  /\ thread' = [thread EXCEPT ![t].at = "loop"]
  /\ UNCHANGED <<have, pieces_downloading, hash_failed_pieces, ignore_error, should_stop,
                 retval, hash_failed>>

\* Mutant: the thread ends.
ReadFailsIgnoredEnds(t) ==
  /\ thread[t].at = "read" /\ ignore_error
  /\ thread' = [thread EXCEPT ![t].at = "ended"]
  /\ UNCHANGED <<have, adding, pieces_downloading, hash_failed_pieces, ignore_error,
                 should_stop, retval, hash_failed>>

\* Read error or wrong hash, with ignore_error_: the thread sleeps and goes on.
ReadFailsIgnored(t) ==
  /\ thread[t].at = "read" /\ ignore_error
  /\ thread' = [thread EXCEPT ![t].at = "loop"]
  /\ UNCHANGED <<have, adding, pieces_downloading, hash_failed_pieces, ignore_error,
                 should_stop, retval, hash_failed>>

\* Without it: everybody is to stop.  1 is a read error, 2 a wrong hash.
ReadFails(t) ==
  /\ thread[t].at = "read" /\ ~ignore_error
  /\ should_stop' = TRUE /\ retval' \in {1, 2}
  /\ thread' = NotifyAll([thread EXCEPT ![t].at = "ended"])
  /\ UNCHANGED <<have, adding, pieces_downloading, hash_failed_pieces, ignore_error,
                 hash_failed>>

Download(t) ==
  \/ GetUndownloadedPiece(t) \/ GetHashFailedPiece(t) \/ NothingToGet(t) \/ Wait(t)
  \/ Leave(t) \/ Read(t) \/ ReadSucceeds(t) \/ ReadFailsIgnored(t) \/ ReadFails(t)

-----------------------------------------------------------------------------
StopDownload ==
  /\ should_stop' = TRUE
  /\ thread' = IF StopNotifies THEN NotifyAll(thread) ELSE thread
  /\ UNCHANGED <<have, adding, pieces_downloading, hash_failed_pieces, ignore_error,
                 retval, hash_failed>>

(***************************************************************************)
(* libtorrent: a piece added passes its check, or one comes from a peer.   *)
(***************************************************************************)
PieceChecked(p) ==
  /\ p \in adding
  /\ adding' = adding \ {p} /\ have' = have \cup {p}
  /\ UNCHANGED <<pieces_downloading, hash_failed_pieces, thread, ignore_error, should_stop,
                 retval, hash_failed>>

PieceFromPeers(p) ==
  /\ p \notin have
  /\ have' = have \cup {p}
  /\ UNCHANGED <<adding, pieces_downloading, hash_failed_pieces, thread, ignore_error,
                 should_stop, retval, hash_failed>>

(***************************************************************************)
(* A piece of peers is wrong: AddHashFailedPiece, and notify_one.          *)
(***************************************************************************)
AddHashFailedPiece(p) ==
  /\ MutexFree /\ p \notin have /\ hash_failed < MaxHashFailed
  /\ hash_failed' = hash_failed + 1
  /\ hash_failed_pieces' = Append(hash_failed_pieces, p)
  /\ \/ \E t \in Thread : thread[t].at = "wait" /\ thread' = [thread EXCEPT ![t].at = "woken"]
     \/ (\A t \in Thread : thread[t].at # "wait") /\ UNCHANGED thread
  /\ UNCHANGED <<have, adding, pieces_downloading, ignore_error, should_stop, retval>>

SpuriousWakeup(t) ==
  /\ thread[t].at = "wait"
  /\ thread' = [thread EXCEPT ![t].at = "woken"]
  /\ UNCHANGED <<have, adding, pieces_downloading, hash_failed_pieces, ignore_error,
                 should_stop, retval, hash_failed>>

Next ==
  \/ \E t \in Thread : CreateThread(t) \/ Download(t) \/ SpuriousWakeup(t)
  \/ \E p \in Piece : PieceChecked(p) \/ PieceFromPeers(p) \/ AddHashFailedPiece(p)
  \/ StopDownload

Spec == Init /\ [][Next]_vars

(***************************************************************************)
(* Threads are created and run; who waits for the mutex gets it.  Of the   *)
(* outside: a read that is tried again and again succeeds some time, and   *)
(* libtorrent checks what it is given.                                     *)
(***************************************************************************)
FairSpec ==
  /\ Spec
  /\ \A t \in Thread : WF_vars(CreateThread(t)) /\ SF_vars(Download(t)) /\ SF_vars(ReadSucceeds(t))
  /\ \A p \in Piece : WF_vars(PieceChecked(p))

-----------------------------------------------------------------------------
(***************************************************************************)
(* In particular what is given to add_piece is a piece: no thread comes    *)
(* out of the loop around cond_.wait with -1.                              *)
(***************************************************************************)
TypeOK ==
  /\ have \subseteq Piece /\ adding \subseteq Piece /\ pieces_downloading \subseteq Piece
  /\ hash_failed_pieces \in Seq(Piece) /\ hash_failed \in 0 .. MaxHashFailed
  /\ thread \in [Thread -> Locals]
  /\ ignore_error \in BOOLEAN /\ should_stop \in BOOLEAN /\ retval \in 0 .. 2

(***************************************************************************)
(* A thread that has turned to the queue of failed pieces never looks at   *)
(* the others again, and may sleep for good: that is right only when       *)
(* libtorrent has them all, although pieces are read twice, lost in the    *)
(* queue and unmarked by one of two readers.                               *)
(***************************************************************************)
NothingOverlooked ==
  \A t \in Thread : thread[t].get_from_hash_failed => have = Piece

(***************************************************************************)
(* To the outside: whatever a thread reads, waits for or fails at, it does *)
(* not end before the task is stopped, and a failure stops it for all.     *)
(***************************************************************************)
Begun == {t \in Thread : thread[t].at # "new"}
Ended == {t \in Thread : thread[t].at = "ended"}

Lives == INSTANCE TaskThreads WITH
  Task <- {"this"},
  begun <- [t \in {"this"} |-> Cardinality(Begun)],
  ended <- [t \in {"this"} |-> Cardinality(Ended)],
  stopped <- [t \in {"this"} |-> should_stop]

ImplementsTaskThreads == Lives!Spec

(***************************************************************************)
(* Without peers too, every piece is fetched, whatever fails on the way,   *)
(* unless the download is stopped or fails.                                *)
(***************************************************************************)
EveryPieceFetched == <>(have = Piece \/ should_stop)

(***************************************************************************)
(* After a stop or a failure each thread ends that is awake, and so does   *)
(* each one the notification finds asleep.                                 *)
(***************************************************************************)
AwakeThreadsEnd ==
  \A t \in Thread :
    (should_stop /\ thread[t].at \notin {"doze", "wait"}) ~> (thread[t].at = "ended")

(***************************************************************************)
(* "tell all this cluster task's downloading thread to wake up and exit":  *)
(* after StopDownload all threads end.                                     *)
(***************************************************************************)
StopEndsThreads == \A t \in Thread : should_stop ~> (thread[t].at = "ended")
=============================================================================
