---------------------------- MODULE TrackerPeers ----------------------------
(***************************************************************************)
(* The peers a tracker keeps for one infohash                              *)
(* (gko-tracker-src/src/PeerHandler.cpp, InfoHashGarbageCleaner.cpp).      *)
(* UpdatePeer takes one lock after the other: of the map of infohashes, of *)
(* the infohash, of its vectors, of the infohash again.  Between them the  *)
(* thread holds shared pointers only.                                      *)
(*                                                                         *)
(* No operation relates two infohashes, so one is modelled.                *)
(***************************************************************************)
EXTENDS Integers, FiniteSets

CONSTANTS
  Handler,       \* threads that handle announces
  Peer,          \* peer ids
  Info,          \* bound: SingleInfoHashInfo objects alive at a time
  Obj,           \* bound: PeerInfo objects alive at a time
  None,          \* none of them
  CountModulus   \* remote_peer_count is unsigned: 2^64 in the code

ASSUME NoneAssumption == None \notin Peer /\ None \notin Info /\ None \notin Obj

ASSUME CountAssumption == CountModulus \in Nat \ {0}

VARIABLES
  local_map,  \* the object local_info_hash_map_ holds, None for no entry
  info,       \* SingleInfoHashInfo objects
  obj,        \* PeerInfo objects
  handler,    \* where each thread is in Handle, and what it holds
  remote,     \* the peers this tracker has in the hash of redis
  astray      \* history: peers two threads have handled at a time, or whose
              \* SingleInfoHashInfo has been collected

vars == <<local_map, info, obj, handler, remote, astray>>

\* What an announce says: downloading, seeding, a seed from the start, stopped.
Kind == {"leech", "seeding", "seed", "stop"}

(***************************************************************************)
(* peer_map gives the object of a peer, None for none.  stopped is history:   *)
(* need_stop has been set once.                                            *)
(***************************************************************************)
NewInfo == [peer_map |-> [p \in Peer |-> None], remote_peer_count |-> 0,
            need_stop |-> FALSE, stopped |-> FALSE]

(***************************************************************************)
(* initialized: UpdateInfo has been called; listed: the vectors of its     *)
(* info hold a weak pointer to it.                                         *)
(***************************************************************************)
NewObj(i, p) == [info |-> i, peer |-> p, initialized |-> FALSE, listed |-> FALSE,
                 is_set_remote |-> FALSE]

FreeInfo == NewInfo
FreeObj == NewObj(None, None)
Idle == [at |-> "idle", peer |-> None, kind |-> "stop", info |-> None, obj |-> None, new |-> FALSE]

Init ==
  /\ local_map = None
  /\ info = [i \in Info |-> FreeInfo]
  /\ obj = [o \in Obj |-> FreeObj]
  /\ handler = [h \in Handler |-> Idle]
  /\ remote = {} /\ astray = {}

-----------------------------------------------------------------------------
\* Mutant: the vectors hold shared pointers too.
ObjsAliveStrong(infos, threads) ==
  {infos[i].peer_map[p] : i \in Info, p \in Peer} \cup {threads[h].obj : h \in Handler}
    \cup {o \in Obj : obj[o].listed}

(***************************************************************************)
(* Shared pointers: an info is kept by the map and by threads, a peer by   *)
(* the info it is in and by threads.                                       *)
(***************************************************************************)
InfosAlive(map, threads) == {map} \cup {threads[h].info : h \in Handler}
ObjsAlive(infos, threads) ==
  {infos[i].peer_map[p] : i \in Info, p \in Peer} \cup {threads[h].obj : h \in Handler}

\* infos and objs are the objects before the last reference to some goes.
Keep(infos, objs) ==
  /\ info' = [i \in Info |-> IF i \in InfosAlive(local_map', handler') THEN infos[i] ELSE FreeInfo]
  /\ obj' = [o \in Obj |-> IF o \in ObjsAlive(info', handler') THEN objs[o] ELSE FreeObj]

FreshInfo == Info \ InfosAlive(local_map, handler)
FreshObj == Obj \ ObjsAlive(info, handler)

InFlight(p) == \E h \in Handler : handler[h].peer = p

\* The object of the peer of h in the info h holds.
Mine(h) == info[handler[h].info].peer_map[handler[h].peer]

-----------------------------------------------------------------------------
(***************************************************************************)
(* PreHandleInfoHashInfo, under the lock of the map.                       *)
(***************************************************************************)
PreHandleInfoHashInfo(h, p, k) ==
  /\ handler[h].at = "idle"
  /\ local_map' \in IF local_map # None THEN {local_map} ELSE FreshInfo
  /\ handler' = [handler EXCEPT ![h] =
       [at |-> "info", peer |-> p, kind |-> k, info |-> local_map', obj |-> None, new |-> FALSE]]
  /\ astray' = IF InFlight(p) THEN astray \cup {p} ELSE astray
  /\ UNCHANGED <<info, obj, remote>>

\* Mutant: a new peer is put into the vectors before it is updated.
AddPeerListed(h) ==
  LET i == handler[h].info  p == handler[h].peer IN
  /\ handler[h].at = "info" /\ handler[h].kind # "stop" /\ Mine(h) = None
  /\ \E o \in FreshObj :
       /\ info' = [info EXCEPT ![i].peer_map[p] = o]
       /\ obj' = [obj EXCEPT ![o] = [NewObj(i, p) EXCEPT !.listed = TRUE]]
       /\ handler' = [handler EXCEPT ![h].at = "peer", ![h].obj = o, ![h].new = TRUE]
  /\ UNCHANGED <<local_map, remote, astray>>

(***************************************************************************)
(* PreHandlePeerInfo, under the lock of the infohash.                      *)
(***************************************************************************)
AddPeer(h) ==
  LET i == handler[h].info  p == handler[h].peer IN
  /\ handler[h].at = "info" /\ handler[h].kind # "stop" /\ Mine(h) = None
  /\ \E o \in FreshObj :
       /\ info' = [info EXCEPT ![i].peer_map[p] = o]
       /\ obj' = [obj EXCEPT ![o] = NewObj(i, p)]
       /\ handler' = [handler EXCEPT ![h].at = "peer", ![h].obj = o, ![h].new = TRUE]
  /\ UNCHANGED <<local_map, remote, astray>>

FindPeer(h) ==
  /\ handler[h].at = "info" /\ handler[h].kind # "stop" /\ Mine(h) # None
  /\ handler' = [handler EXCEPT ![h].at = "peer", ![h].obj = Mine(h)]
  /\ UNCHANGED <<local_map, info, obj, remote, astray>>

(***************************************************************************)
(* The stop of a known peer: out of redis if it was set there, and out of  *)
(* the map.  UpdatePeer then returns.                                      *)
(***************************************************************************)
StopPeer(h) ==
  LET i == handler[h].info  p == handler[h].peer  set == obj[Mine(h)].is_set_remote IN
  /\ handler[h].at = "info" /\ handler[h].kind = "stop" /\ Mine(h) # None
  /\ remote' = IF set THEN remote \ {p} ELSE remote
  /\ handler' = [handler EXCEPT ![h] = Idle]
  /\ UNCHANGED <<local_map, astray>>
  /\ Keep([info EXCEPT ![i].peer_map[p] = None,
                       ![i].remote_peer_count = IF set THEN (@ - 1) % CountModulus ELSE @], obj)

StopUnknown(h) ==
  /\ handler[h].at = "info" /\ handler[h].kind = "stop" /\ Mine(h) = None
  /\ handler' = [handler EXCEPT ![h] = Idle]
  /\ UNCHANGED <<local_map, remote, astray>>
  /\ Keep(info, obj)

\* need_stop is set: the client is told to stop, unless it is a seed.
ToldToStop(h) ==
  /\ handler[h].at = "peer" /\ info[handler[h].info].need_stop /\ handler[h].kind # "seed"
  /\ handler' = [handler EXCEPT ![h] = Idle]
  /\ UNCHANGED <<local_map, remote, astray>>
  /\ Keep(info, obj)

\* Mutant: a peer that has been updated is taken to be listed.
UpdateInfoOnce(h) ==
  /\ handler[h].at = "peer" /\ ~(info[handler[h].info].need_stop /\ handler[h].kind # "seed")
  /\ obj' = [obj EXCEPT ![handler[h].obj].initialized = TRUE,
                        ![handler[h].obj].listed = @ \/ (handler[h].new /\ ~obj[handler[h].obj].initialized)]
  /\ handler' = [handler EXCEPT ![h].at = "updated"]
  /\ UNCHANGED <<local_map, info, remote, astray>>

\* Under the lock of the vectors: the peer is updated, and listed if new.
UpdateInfo(h) ==
  /\ handler[h].at = "peer" /\ ~(info[handler[h].info].need_stop /\ handler[h].kind # "seed")
  /\ obj' = [obj EXCEPT ![handler[h].obj].initialized = TRUE,
                        ![handler[h].obj].listed = @ \/ handler[h].new]
  /\ handler' = [handler EXCEPT ![h].at = "updated"]
  /\ UNCHANGED <<local_map, info, remote, astray>>

(***************************************************************************)
(* Without a lock: whether the peer is to be set in redis.  A number below *)
(* 2 ^ remote_peer_count is drawn, and 0 and 1 say yes; for a count of 32  *)
(* or more the shift is undefined.                                         *)
(***************************************************************************)
MustSet(h) ==
  \/ obj[handler[h].obj].is_set_remote
  \/ handler[h].kind = "seed"
  \/ handler[h].kind = "seeding" /\ info[handler[h].info].remote_peer_count < 2

MaySet(h) == MustSet(h) \/ handler[h].kind = "seeding"

SetPeerRemote(h) ==
  /\ handler[h].at = "updated" /\ MaySet(h)
  /\ remote' = remote \cup {handler[h].peer}
  /\ handler' = [handler EXCEPT ![h].at = "set"]
  /\ UNCHANGED <<local_map, info, obj, astray>>

LeaveUnset(h) ==
  /\ handler[h].at = "updated" /\ ~MustSet(h)
  /\ handler' = [handler EXCEPT ![h] = Idle]
  /\ UNCHANGED <<local_map, remote, astray>>
  /\ Keep(info, obj)

\* Mutant: the peer is set in redis, but not marked.
CountUnmarked(h) ==
  LET i == handler[h].info IN
  /\ handler[h].at = "set"
  /\ handler' = [handler EXCEPT ![h] = Idle]
  /\ UNCHANGED <<local_map, remote, astray>>
  /\ Keep([info EXCEPT ![i].remote_peer_count =
             IF handler[h].new THEN (@ + 1) % CountModulus ELSE @], obj)

\* Under the lock of the infohash again: marked, and counted if new.
Count(h) ==
  LET i == handler[h].info IN
  /\ handler[h].at = "set"
  /\ handler' = [handler EXCEPT ![h] = Idle]
  /\ UNCHANGED <<local_map, remote, astray>>
  /\ Keep([info EXCEPT ![i].remote_peer_count =
             IF handler[h].new THEN (@ + 1) % CountModulus ELSE @],
          [obj EXCEPT ![handler[h].obj].is_set_remote = TRUE])

-----------------------------------------------------------------------------
\* ControlByInfohash, under the lock of the map.
ControlByInfohash(stop) ==
  /\ local_map # None
  /\ info' = [info EXCEPT ![local_map].need_stop = stop, ![local_map].stopped = @ \/ stop]
  /\ UNCHANGED <<local_map, obj, handler, remote, astray>>

(***************************************************************************)
(* The garbage cleaner: the infohash has not been announced for an hour,   *)
(* or has no peers.                                                        *)
(***************************************************************************)
PeriodSchedule ==
  /\ local_map # None
  /\ local_map' = None
  /\ astray' = astray \cup
       {p \in Peer : info[local_map].peer_map[p] # None \/
                     \E h \in Handler : handler[h].peer = p /\ handler[h].info = local_map}
  /\ UNCHANGED <<handler, remote>>
  /\ Keep(info, obj)

UpdatePeer(h) ==
  \/ \E p \in Peer, k \in Kind : PreHandleInfoHashInfo(h, p, k)
  \/ AddPeer(h) \/ FindPeer(h) \/ StopPeer(h) \/ StopUnknown(h)
  \/ ToldToStop(h) \/ UpdateInfo(h)
  \/ SetPeerRemote(h) \/ LeaveUnset(h) \/ Count(h)

Next ==
  \/ \E h \in Handler : UpdatePeer(h)
  \/ \E stop \in BOOLEAN : ControlByInfohash(stop)
  \/ PeriodSchedule

Spec == Init /\ [][Next]_vars

-----------------------------------------------------------------------------
(***************************************************************************)
(* What ChoosePeers can find, under the lock of the vectors: the listed    *)
(* peers whose weak pointers have not expired.  It changes nothing, and    *)
(* may still hold an info that has left the map.                           *)
(***************************************************************************)
Chosen == {o \in Obj : obj[o].listed}

\* The object of a peer in the current info, None for none.
Known(p) == IF local_map = None THEN None ELSE info[local_map].peer_map[p]

(***************************************************************************)
(* The types of PeerHandler's maps and objects.                            *)
(***************************************************************************)
TypeOK ==
  /\ local_map \in Info \cup {None}
  /\ info \in [Info -> [peer_map : [Peer -> Obj \cup {None}], remote_peer_count : 0 .. CountModulus - 1,
                        need_stop : BOOLEAN, stopped : BOOLEAN]]
  /\ obj \in [Obj -> [info : Info \cup {None}, peer : Peer \cup {None}, initialized : BOOLEAN,
                      listed : BOOLEAN, is_set_remote : BOOLEAN]]
  /\ handler \in [Handler -> [at : {"idle", "info", "peer", "updated", "set"},
                              peer : Peer \cup {None}, kind : Kind,
                              info : Info \cup {None}, obj : Obj \cup {None}, new : BOOLEAN]]
  /\ remote \subseteq Peer /\ astray \subseteq Peer

(***************************************************************************)
(* "can't fetch this peer before it updated": the vectors never show a     *)
(* peer without its address, whichever thread created it, so ChoosePeers   *)
(* never warns of one.                                                     *)
(***************************************************************************)
ChosenIsInitialized == \A o \in Chosen : obj[o].initialized

(***************************************************************************)
(* A peer that has stopped is handed out to nobody, once its announces are *)
(* through, and one that has not is handed out as one peer; also by a      *)
(* thread that holds an info the cleaner has taken out of the map.         *)
(***************************************************************************)
ChosenIsKnown ==
  \A o \in Chosen : InFlight(obj[o].peer) \/ info[obj[o].info].peer_map[obj[o].peer] = o

(***************************************************************************)
(* Every peer that was answered is listed for others, whichever of two     *)
(* threads created it, unless downloads were once stopped: a peer first    *)
(* seen then is never listed.                                              *)
(***************************************************************************)
KnownIsListed ==
  \A p \in Peer :
    Known(p) # None /\ obj[Known(p)].initialized =>
      \/ obj[Known(p)].listed
      \/ info[local_map].stopped
      \/ \E h \in Handler : handler[h].obj = Known(p) /\ handler[h].new

(***************************************************************************)
(* A peer is in redis only while it is known here as set there, or being   *)
(* handled; but for infohashes that were collected, and for peers of which *)
(* two announces were handled at a time: a stop may overtake the announce  *)
(* before it, which then sets the peer in redis for good.                  *)
(***************************************************************************)
RemoteIsKnown ==
  \A p \in remote \ astray :
    InFlight(p) \/ (Known(p) # None /\ obj[Known(p)].is_set_remote)

(***************************************************************************)
(* "srn: set remote peers num": between announces the count is the number  *)
(* of known peers that are set in redis.                                   *)
(***************************************************************************)
RemoteCountExact ==
  (local_map # None /\ \A h \in Handler : handler[h].at = "idle") =>
    info[local_map].remote_peer_count =
      Cardinality({p \in Peer : Known(p) # None /\ obj[Known(p)].is_set_remote})
=============================================================================
