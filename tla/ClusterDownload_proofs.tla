----------------------- MODULE ClusterDownload_proofs -----------------------
(***************************************************************************)
(* Safety of ClusterDownload for any number of threads, pieces and hash    *)
(* failed alerts.                                                          *)
(***************************************************************************)
EXTENDS ClusterDownload, FiniteSetTheorems, TLAPS

\* A thread at the read has a piece, whichever of the two ways it got it.
PieceInHand == \A t \in Thread : thread[t].at \in {"got", "read"} => thread[t].piece_index \in Piece

IInv == TypeOK /\ PieceInHand /\ NothingOverlooked

-----------------------------------------------------------------------------
(***************************************************************************)
(* A step that changes no more of the pieces than libtorrent's set of      *)
(* those it has, which grows, and leaves threads where they are or moves   *)
(* them to places without a piece in hand.                                 *)
(***************************************************************************)
LEMMA MovedThread ==
  ASSUME IInv, NEW t \in Thread,
         NEW a \in {"new", "loop", "doze", "wait", "woken", "ended"},
         thread' = [thread EXCEPT ![t].at = a]
  PROVE  /\ thread' \in [Thread -> Locals]
         /\ PieceInHand'
         /\ \A u \in Thread : thread'[u].get_from_hash_failed = thread[u].get_from_hash_failed
  BY DEF IInv, TypeOK, Locals, PieceInHand

\* A notification moves threads from one such place to another.
LEMMA NotifiedThreads ==
  ASSUME NEW threads \in [Thread -> Locals]
  PROVE  /\ NotifyAll(threads) \in [Thread -> Locals]
         /\ \A u \in Thread :
              /\ NotifyAll(threads)[u].get_from_hash_failed = threads[u].get_from_hash_failed
              /\ NotifyAll(threads)[u].piece_index = threads[u].piece_index
              /\ NotifyAll(threads)[u].at \in {"got", "read"} =>
                   NotifyAll(threads)[u].at = threads[u].at
  BY DEF NotifyAll, Locals

(***************************************************************************)
(* The scan of GetUndownloadedPiece: when no piece is idle and none busy,  *)
(* libtorrent has them all.                                                *)
(***************************************************************************)
LEMMA ScanIsComplete ==
  ASSUME TypeOK, NEW t \in Thread, Idle(t) \cup Busy(t) = {}
  PROVE  have = Piece
  BY DEF TypeOK, Idle, Busy, Unmarked

-----------------------------------------------------------------------------
LEMMA InitIInv == Init => IInv
<1> SUFFICES ASSUME Init PROVE IInv
  OBVIOUS
<1> USE DEF Init
<1>1. thread \in [Thread -> Locals]
  BY DEF Locals
<1>2. /\ hash_failed_pieces \in Seq(Piece) /\ hash_failed \in 0 .. MaxHashFailed
      /\ retval \in 0 .. 2
  BY BoundsAssumption
<1>3. /\ have \subseteq Piece /\ adding \subseteq Piece /\ pieces_downloading \subseteq Piece
      /\ ignore_error \in BOOLEAN /\ should_stop \in BOOLEAN
  BY Zenon
<1>4. TypeOK
  BY <1>1, <1>2, <1>3, Zenon DEF TypeOK
<1>5. PieceInHand /\ NothingOverlooked
  BY DEF PieceInHand, NothingOverlooked
<1> QED BY <1>4, <1>5 DEF IInv

LEMMA GetUndownloadedPieceStep ==
  ASSUME IInv, NEW t \in Thread, GetUndownloadedPiece(t)
  PROVE  IInv'
<1> USE DEF IInv, GetUndownloadedPiece
<1>1. PICK p \in Piece : Get(t, p) /\ pieces_downloading' = Unmarked(t) \cup {p}
  BY DEF Idle, Busy, Unmarked, TypeOK
<1>2. TypeOK'
  <2>1. thread' \in [Thread -> Locals]
    <3>1. thread' = [thread EXCEPT ![t].at = "got", ![t].piece_index = p]
      BY <1>1 DEF Get
    <3>2. thread \in [Thread -> Locals]
      BY DEF TypeOK
    <3> HIDE DEF IInv, GetUndownloadedPiece
    <3> QED BY <3>1, <3>2 DEF Locals
  <2>2. pieces_downloading' \subseteq Piece
    BY <1>1 DEF TypeOK, Unmarked
  <2>3. UNCHANGED <<have, adding, hash_failed_pieces, ignore_error, should_stop, retval,
                    hash_failed>>
    OBVIOUS
  <2> QED BY <2>1, <2>2, <2>3 DEF TypeOK
<1>3. PieceInHand' /\ NothingOverlooked'
  BY <1>1 DEF TypeOK, Get, Locals, PieceInHand, NothingOverlooked
<1> QED BY <1>2, <1>3

\* Whoever turns to the queue has seen that nothing else is left.
LEMMA TurnsToQueueSees ==
  ASSUME IInv, NEW t \in Thread, TurnsToQueue(t)
  PROVE  have = Piece /\ pieces_downloading' \subseteq Piece
<1>1. CASE thread[t].get_from_hash_failed
  BY <1>1 DEF IInv, TypeOK, NothingOverlooked, TurnsToQueue
<1>2. CASE ~thread[t].get_from_hash_failed
  BY <1>2, ScanIsComplete DEF IInv, TypeOK, TurnsToQueue, Unmarked
<1> QED BY <1>1, <1>2

LEMMA GetHashFailedPieceStep ==
  ASSUME IInv, NEW t \in Thread, GetHashFailedPiece(t)
  PROVE  IInv'
<1> USE DEF IInv, GetHashFailedPiece
<1>1. have = Piece /\ pieces_downloading' \subseteq Piece
  BY TurnsToQueueSees
<1>2. /\ Head(hash_failed_pieces) \in Piece
      /\ Tail(hash_failed_pieces) \in Seq(Piece)
  BY DEF TypeOK
<1>3. TypeOK'
  BY <1>1, <1>2 DEF TypeOK, Locals
<1>4. PieceInHand'
  BY <1>2 DEF TypeOK, Locals, PieceInHand
<1>5. NothingOverlooked'
  BY <1>1 DEF NothingOverlooked
<1> QED BY <1>3, <1>4, <1>5

LEMMA NothingToGetStep ==
  ASSUME IInv, NEW t \in Thread, NothingToGet(t)
  PROVE  IInv'
<1> USE DEF IInv, NothingToGet, FindsNothing
<1>1. have = Piece /\ pieces_downloading' \subseteq Piece
  BY TurnsToQueueSees
<1>2. PICK a \in {"ended", "doze"} :
        thread' = [thread EXCEPT ![t].at = a, ![t].piece_index = None,
                                 ![t].get_from_hash_failed = TRUE]
  BY Zenon
<1>3. TypeOK'
  <2>1. thread' \in [Thread -> Locals]
    <3>1. thread \in [Thread -> Locals]
      BY DEF TypeOK
    <3> HIDE DEF IInv, NothingToGet, FindsNothing
    <3> QED BY <1>2, <3>1 DEF Locals
  <2>2. UNCHANGED <<have, adding, hash_failed_pieces, ignore_error, should_stop, retval,
                    hash_failed>>
    OBVIOUS
  <2> QED BY <1>1, <2>1, <2>2, Zenon DEF TypeOK
<1>4. PieceInHand'
  BY <1>2 DEF TypeOK, Locals, PieceInHand
<1>5. NothingOverlooked'
  BY <1>1 DEF NothingOverlooked
<1> QED BY <1>3, <1>4, <1>5

LEMMA ReadStep ==
  ASSUME IInv, NEW t \in Thread, Read(t) \/ ReadSucceeds(t)
  PROVE  IInv'
<1>1. CASE Read(t)
  BY <1>1 DEF IInv, Read, TypeOK, Locals, PieceInHand, NothingOverlooked
<1>2. CASE ReadSucceeds(t)
  <2>1. thread[t].piece_index \in Piece
    BY <1>2 DEF IInv, ReadSucceeds, PieceInHand
  <2> QED BY <1>2, <2>1, MovedThread DEF IInv, ReadSucceeds, TypeOK, NothingOverlooked
<1> QED BY <1>1, <1>2

LEMMA ReadFailsStep ==
  ASSUME IInv, NEW t \in Thread, ReadFails(t)
  PROVE  IInv'
<1> DEFINE ending == [thread EXCEPT ![t].at = "ended"]
<1>1. /\ ending \in [Thread -> Locals]
      /\ \A u \in Thread : /\ ending[u].get_from_hash_failed = thread[u].get_from_hash_failed
                           /\ ending[u].piece_index = thread[u].piece_index
                           /\ ending[u].at \in {"got", "read"} => ending[u].at = thread[u].at
  BY DEF IInv, TypeOK, Locals
<1>2. thread' = NotifyAll(ending)
  BY DEF ReadFails
<1> HIDE DEF ending
<1>3. /\ thread' \in [Thread -> Locals]
      /\ PieceInHand'
      /\ \A u \in Thread : thread'[u].get_from_hash_failed = thread[u].get_from_hash_failed
  BY <1>1, <1>2, NotifiedThreads DEF IInv, PieceInHand
<1>4. retval' \in 0 .. 2 /\ UNCHANGED have
  BY DEF ReadFails
<1>5. TypeOK'
  BY <1>3, <1>4, Zenon DEF IInv, ReadFails, TypeOK
<1>6. NothingOverlooked'
  BY <1>3, <1>4 DEF IInv, NothingOverlooked
<1> QED BY <1>3, <1>5, <1>6 DEF IInv

\* The steps of a thread that only move it, without a piece.
LEMMA MoveStep ==
  ASSUME IInv, NEW t \in Thread,
         \/ CreateThread(t) \/ Wait(t) \/ Leave(t) \/ ReadFailsIgnored(t)
         \/ SpuriousWakeup(t)
  PROVE  IInv'
<1>1. PICK a \in {"new", "loop", "doze", "wait", "woken", "ended"} :
        thread' = [thread EXCEPT ![t].at = a]
  BY DEF CreateThread, Wait, Leave, ReadFailsIgnored, SpuriousWakeup
<1>2. UNCHANGED <<have, adding, pieces_downloading, hash_failed_pieces, ignore_error,
                  should_stop, retval, hash_failed>>
  BY DEF CreateThread, Wait, Leave, ReadFailsIgnored, SpuriousWakeup
<1> QED BY <1>1, <1>2, MovedThread DEF IInv, TypeOK, NothingOverlooked

LEMMA StopDownloadStep ==
  ASSUME IInv, StopDownload
  PROVE  IInv'
<1>1. /\ thread' \in [Thread -> Locals]
      /\ PieceInHand'
      /\ \A u \in Thread : thread'[u].get_from_hash_failed = thread[u].get_from_hash_failed
  BY NotifiedThreads DEF IInv, TypeOK, StopDownload, PieceInHand
<1> QED BY <1>1 DEF IInv, StopDownload, TypeOK, NothingOverlooked

LEMMA LibtorrentStep ==
  ASSUME IInv, NEW p \in Piece, PieceChecked(p) \/ PieceFromPeers(p)
  PROVE  IInv'
  BY DEF IInv, PieceChecked, PieceFromPeers, TypeOK, PieceInHand, NothingOverlooked

LEMMA AddHashFailedPieceStep ==
  ASSUME IInv, NEW p \in Piece, AddHashFailedPiece(p)
  PROVE  IInv'
<1>1. /\ hash_failed_pieces' \in Seq(Piece)
      /\ hash_failed' \in 0 .. MaxHashFailed
  BY BoundsAssumption DEF IInv, TypeOK, AddHashFailedPiece
<1>2. /\ thread' \in [Thread -> Locals]
      /\ PieceInHand'
      /\ \A u \in Thread : thread'[u].get_from_hash_failed = thread[u].get_from_hash_failed
  <2>1. CASE UNCHANGED thread
    BY <2>1 DEF IInv, TypeOK, PieceInHand
  <2>2. CASE \E t \in Thread : thread' = [thread EXCEPT ![t].at = "woken"]
    BY <2>2, MovedThread
  <2> QED BY <2>1, <2>2 DEF AddHashFailedPiece
<1> QED BY <1>1, <1>2 DEF IInv, AddHashFailedPiece, TypeOK, NothingOverlooked

-----------------------------------------------------------------------------
LEMMA NextIInv == IInv /\ [Next]_vars => IInv'
<1> SUFFICES ASSUME IInv, [Next]_vars PROVE IInv'
  OBVIOUS
<1>1. ASSUME NEW t \in Thread, CreateThread(t) \/ Download(t) \/ SpuriousWakeup(t)
      PROVE  IInv'
  BY <1>1, GetUndownloadedPieceStep, GetHashFailedPieceStep, NothingToGetStep, ReadStep,
     ReadFailsStep, MoveStep DEF Download
<1>2. ASSUME NEW p \in Piece, PieceChecked(p) \/ PieceFromPeers(p) \/ AddHashFailedPiece(p)
      PROVE  IInv'
  BY <1>2, LibtorrentStep, AddHashFailedPieceStep
<1>3. CASE StopDownload
  BY <1>3, StopDownloadStep
<1>4. CASE UNCHANGED vars
  BY <1>4 DEF IInv, vars, TypeOK, PieceInHand, NothingOverlooked
<1> QED BY <1>1, <1>2, <1>3, <1>4 DEF Next

LEMMA InvariantHolds == Spec => []IInv
  BY InitIInv, NextIInv, PTL DEF Spec

\* The variables keep their types; what is given to add_piece is a piece.
THEOREM TypeCorrect == Spec => []TypeOK
<1>1. IInv => TypeOK
  BY DEF IInv
<1> QED BY <1>1, InvariantHolds, PTL

\* GetPieceToDownload: a thread turns for good to the queue of failed
\* pieces only when libtorrent has every piece.
THEOREM NoPieceOverlooked == Spec => []NothingOverlooked
<1>1. IInv => NothingOverlooked
  BY DEF IInv
<1> QED BY <1>1, InvariantHolds, PTL

-----------------------------------------------------------------------------
(***************************************************************************)
(* ClusterDownload implements TaskThreads.                                 *)
(***************************************************************************)
OfThreads == [Lives!Next]_(Lives!vars)

\* Thread t has begun, and has ended, if it had before the step.
Rests(t) ==
  /\ thread'[t].at = "new" <=> thread[t].at = "new"
  /\ thread'[t].at = "ended" <=> thread[t].at = "ended"

Begins(t) == thread[t].at = "new" /\ thread'[t].at \notin {"new", "ended"}
Ends(t)   == thread[t].at \notin {"new", "ended"} /\ thread'[t].at = "ended"

LEMMA Counts ==
  /\ IsFiniteSet(Begun) /\ Cardinality(Begun) \in Nat
  /\ IsFiniteSet(Ended) /\ Cardinality(Ended) \in Nat
<1>1. Begun \in SUBSET Thread /\ Ended \in SUBSET Thread
  BY DEF Begun, Ended
<1>2. IsFiniteSet(Begun) /\ IsFiniteSet(Ended)
  BY <1>1, ThreadAssumption, FS_Subset
<1> QED  BY <1>2, FS_CardinalityType

LEMMA AllRest ==
  ASSUME \A t \in Thread : Rests(t), should_stop \in BOOLEAN, should_stop' \in BOOLEAN,
         should_stop => should_stop'
  PROVE  OfThreads
<1>1. Begun' = Begun /\ Ended' = Ended
  BY DEF Rests, Begun, Ended
<1>2. Cardinality(Ended) <= Cardinality(Begun)
  <2>1. Ended \in SUBSET Begun
    BY DEF Begun, Ended
  <2> QED  BY <2>1, Counts, FS_Subset
<1>3. CASE should_stop' = should_stop
  <2>1. Lives!Still("this")
    BY <1>1, <1>3 DEF Lives!Still
  <2> QED  BY <2>1 DEF OfThreads, Lives!Next
<1>4. CASE ~should_stop /\ should_stop'
  <2>1. Lives!Stop("this")
    BY <1>1, <1>2, <1>4 DEF Lives!Stop
  <2> QED  BY <2>1 DEF OfThreads, Lives!Next
<1> QED  BY <1>3, <1>4

LEMMA OneBegins ==
  ASSUME NEW t \in Thread, Begins(t), \A u \in Thread : u # t => Rests(u),
         UNCHANGED should_stop
  PROVE  OfThreads
<1>1. Begun' = Begun \cup {t} /\ t \notin Begun /\ Ended' = Ended
  BY DEF Begins, Rests, Begun, Ended
<1>2. Cardinality(Begun') = Cardinality(Begun) + 1 /\ Cardinality(Ended') = Cardinality(Ended)
  BY <1>1, Counts, FS_AddElement
<1>3. Lives!Begin("this")
  BY <1>2 DEF Lives!Begin
<1> QED  BY <1>3 DEF OfThreads, Lives!Next

\* The first one to end may be the one that stops the others.
LEMMA OneEnds ==
  ASSUME NEW t \in Thread, Ends(t), \A u \in Thread : u # t => Rests(u),
         should_stop \in BOOLEAN, should_stop' = TRUE
  PROVE  OfThreads
<1>1. Begun' = Begun /\ Ended' = Ended \cup {t} /\ t \notin Ended /\ Ended' \in SUBSET Begun
  BY DEF Ends, Rests, Begun, Ended
<1>2. Cardinality(Ended') = Cardinality(Ended) + 1 /\ Cardinality(Begun') = Cardinality(Begun)
  BY <1>1, Counts, FS_AddElement
<1>3. Cardinality(Ended') <= Cardinality(Begun)
  BY <1>1, Counts, FS_Subset
<1>4. CASE should_stop
  <2>1. Cardinality(Ended) < Cardinality(Begun)
    BY <1>2, <1>3, Counts
  <2>2. Lives!End("this")
    BY <1>2, <1>4, <2>1 DEF Lives!End
  <2> QED  BY <2>2 DEF OfThreads, Lives!Next
<1>5. CASE ~should_stop
  <2>1. Lives!Stop("this")
    BY <1>2, <1>3, <1>5 DEF Lives!Stop
  <2> QED  BY <2>1 DEF OfThreads, Lives!Next
<1> QED  BY <1>4, <1>5

\* notify_all ends no thread.
LEMMA NotifyRests ==
  ASSUME NEW threads \in [Thread -> Locals], NEW t \in Thread
  PROVE  /\ NotifyAll(threads)[t].at = "new" <=> threads[t].at = "new"
         /\ NotifyAll(threads)[t].at = "ended" <=> threads[t].at = "ended"
BY DEF NotifyAll, Locals

\* The steps of a thread that neither begin nor end it.
LEMMA GoesOn ==
  ASSUME IInv, NEW t \in Thread,
         \/ GetUndownloadedPiece(t) \/ GetHashFailedPiece(t) \/ Wait(t) \/ Read(t)
         \/ ReadSucceeds(t) \/ ReadFailsIgnored(t) \/ SpuriousWakeup(t)
  PROVE  OfThreads
<1>1. thread \in [Thread -> Locals] /\ should_stop \in BOOLEAN
  BY DEF IInv, TypeOK
<1>2. ASSUME GetUndownloadedPiece(t) PROVE \A u \in Thread : Rests(u)
  BY <1>1, <1>2 DEF GetUndownloadedPiece, WantsPiece, Get, Rests, Locals
<1>3. ASSUME GetHashFailedPiece(t) PROVE \A u \in Thread : Rests(u)
  BY <1>1, <1>3 DEF GetHashFailedPiece, TurnsToQueue, WantsPiece, Rests, Locals
<1>4. ASSUME Wait(t) \/ Read(t) \/ ReadSucceeds(t) \/ ReadFailsIgnored(t) \/ SpuriousWakeup(t)
      PROVE  \A u \in Thread : Rests(u)
  BY <1>1, <1>4 DEF Wait, Read, ReadSucceeds, ReadFailsIgnored, SpuriousWakeup, Rests, Locals
<1>5. UNCHANGED should_stop
  BY DEF GetUndownloadedPiece, GetHashFailedPiece, Wait, Read, ReadSucceeds, ReadFailsIgnored,
     SpuriousWakeup
<1> QED  BY <1>1, <1>2, <1>3, <1>4, <1>5, AllRest

\* A thread that finds nothing ends only when it finds should_stop_ set.
LEMMA NothingToGetOfThreads ==
  ASSUME IInv, NEW t \in Thread, NothingToGet(t)
  PROVE  OfThreads
<1>1. thread \in [Thread -> Locals] /\ should_stop \in BOOLEAN
  BY DEF IInv, TypeOK
<1>2. thread[t].at \in {"loop", "woken"} /\ UNCHANGED should_stop
  BY DEF NothingToGet, FindsNothing, TurnsToQueue, WantsPiece
<1>3. \A u \in Thread : u # t => Rests(u)
  BY <1>1 DEF NothingToGet, FindsNothing, Rests
<1>4. CASE should_stop
  <2>1. Ends(t)
    BY <1>1, <1>2, <1>4 DEF NothingToGet, FindsNothing, Ends, Locals
  <2> QED  BY <1>1, <1>2, <1>3, <1>4, <2>1, OneEnds
<1>5. CASE ~should_stop
  <2>1. Rests(t)
    BY <1>1, <1>2, <1>5 DEF NothingToGet, FindsNothing, Rests, Locals
  <2> QED  BY <1>1, <1>2, <1>3, <2>1, AllRest
<1> QED  BY <1>4, <1>5

LEMMA EndsOfThreads ==
  ASSUME IInv, NEW t \in Thread, Leave(t) \/ ReadFails(t)
  PROVE  OfThreads
<1>1. thread \in [Thread -> Locals] /\ should_stop \in BOOLEAN
  BY DEF IInv, TypeOK
<1>2. CASE Leave(t)
  <2>1. Ends(t) /\ \A u \in Thread : u # t => Rests(u)
    BY <1>1, <1>2 DEF Leave, Ends, Rests, Locals
  <2>2. should_stop' = TRUE
    BY <1>1, <1>2 DEF Leave
  <2> QED  BY <1>1, <2>1, <2>2, OneEnds
<1>3. CASE ReadFails(t)
  <2> DEFINE ending == [thread EXCEPT ![t].at = "ended"]
  <2>1. /\ ending \in [Thread -> Locals] /\ ending[t].at = "ended"
        /\ \A u \in Thread : u # t => ending[u] = thread[u]
    BY <1>1 DEF Locals
  <2>2. thread' = NotifyAll(ending) /\ should_stop' = TRUE /\ thread[t].at = "read"
    BY <1>3 DEF ReadFails
  <2> HIDE DEF ending
  <2>3. Ends(t)
    BY <2>1, <2>2, NotifyRests DEF Ends
  <2>4. \A u \in Thread : u # t => Rests(u)
    BY <2>1, <2>2, NotifyRests DEF Rests
  <2> QED  BY <1>1, <2>2, <2>3, <2>4, OneEnds
<1> QED  BY <1>2, <1>3

LEMMA NextOfThreads == IInv /\ [Next]_vars => OfThreads
<1> SUFFICES ASSUME IInv, [Next]_vars PROVE OfThreads
  OBVIOUS
<1>0. thread \in [Thread -> Locals] /\ should_stop \in BOOLEAN
  BY DEF IInv, TypeOK
<1>1. ASSUME NEW t \in Thread, CreateThread(t) PROVE OfThreads
  <2>1. Begins(t) /\ (\A u \in Thread : u # t => Rests(u)) /\ UNCHANGED should_stop
    BY <1>0, <1>1 DEF CreateThread, Begins, Rests, Locals
  <2> QED  BY <2>1, OneBegins
<1>2. ASSUME NEW t \in Thread, Download(t) \/ SpuriousWakeup(t) PROVE OfThreads
  BY <1>2, GoesOn, NothingToGetOfThreads, EndsOfThreads DEF Download
<1>3. ASSUME NEW p \in Piece, PieceChecked(p) \/ PieceFromPeers(p) \/ AddHashFailedPiece(p)
      PROVE  OfThreads
  <2>1. CASE UNCHANGED thread
    <3>1. \A t \in Thread : Rests(t)
      BY <2>1 DEF Rests
    <3>2. UNCHANGED should_stop
      BY <1>3 DEF PieceChecked, PieceFromPeers, AddHashFailedPiece
    <3> QED  BY <1>0, <3>1, <3>2, AllRest
  <2>2. ASSUME NEW t \in Thread, thread[t].at = "wait", UNCHANGED should_stop,
               thread' = [thread EXCEPT ![t].at = "woken"]
        PROVE  OfThreads
    <3>1. \A u \in Thread : Rests(u)
      BY <1>0, <2>2 DEF Rests, Locals
    <3> QED  BY <1>0, <2>2, <3>1, AllRest
  <2> QED  BY <1>3, <2>1, <2>2 DEF PieceChecked, PieceFromPeers, AddHashFailedPiece
<1>4. CASE StopDownload
  <2>1. \A t \in Thread : Rests(t)
    BY <1>0, <1>4, NotifyRests DEF StopDownload, Rests
  <2>2. should_stop' = TRUE
    BY <1>4 DEF StopDownload
  <2> QED  BY <1>0, <2>1, <2>2, AllRest
<1>5. CASE UNCHANGED vars
  <2>1. (\A t \in Thread : Rests(t)) /\ UNCHANGED should_stop
    BY <1>5 DEF vars, Rests
  <2> QED  BY <1>0, <2>1, AllRest
<1> QED  BY <1>1, <1>2, <1>3, <1>4, <1>5 DEF Next

(***************************************************************************)
(* Whatever ClusterDownloader::Download meets, a thread ends only after    *)
(* should_stop_ was set: GroupCluster need know no more of it.             *)
(***************************************************************************)
THEOREM DownloadImplementsTaskThreads == Spec => ImplementsTaskThreads
<1>1. Init => Lives!Init
  <2>1. Init => Begun = {} /\ Ended = {} /\ should_stop = FALSE
    BY DEF Init, Begun, Ended
  <2> QED  BY <2>1, FS_EmptySet DEF Lives!Init
<1>2. IInv /\ [Next]_vars => [Lives!Next]_(Lives!vars)
  BY NextOfThreads DEF OfThreads
<1> QED  BY <1>1, <1>2, InvariantHolds, PTL DEF Spec, ImplementsTaskThreads, Lives!Spec
=============================================================================
