------------------------- MODULE TrackerPeers_proofs -------------------------
(***************************************************************************)
(* Proofs about TrackerPeers, for every number of threads, peers and       *)
(* objects and every width of the count.                                   *)
(***************************************************************************)
EXTENDS TrackerPeers, TLAPS

InfoType == [peer_map : [Peer -> Obj \cup {None}], remote_peer_count : 0 .. CountModulus - 1,
             need_stop : BOOLEAN, stopped : BOOLEAN]
ObjType == [info : Info \cup {None}, peer : Peer \cup {None}, initialized : BOOLEAN,
            listed : BOOLEAN, is_set_remote : BOOLEAN]
HandlerType == [at : {"idle", "info", "peer", "updated", "set"}, peer : Peer \cup {None},
                kind : Kind, info : Info \cup {None}, obj : Obj \cup {None}, new : BOOLEAN]

\* A thread that has an object.
Deep == {"peer", "updated", "set"}

(***************************************************************************)
(* The inductive invariant.  A thread holds the object of its peer of its  *)
(* info, and what nothing refers to is free; a peer is not listed only     *)
(* while the thread that created it has yet to do that, or was told to     *)
(* stop; and a thread whose peer is not astray has the current info, its   *)
(* peer for itself, and the object the info has for it.                    *)
(***************************************************************************)
HandlerOK(h) ==
  /\ handler[h].at = "idle" => handler[h] = Idle
  /\ handler[h].at # "idle" => handler[h].info \in Info /\ handler[h].peer \in Peer
  /\ handler[h].at = "info" => handler[h].obj = None /\ ~handler[h].new
  /\ handler[h].at \in Deep => /\ handler[h].obj \in Obj
                               /\ obj[handler[h].obj].info = handler[h].info
                               /\ obj[handler[h].obj].peer = handler[h].peer
  /\ handler[h].at \in {"updated", "set"} => obj[handler[h].obj].initialized

MapOK ==
  \A i \in Info, p \in Peer : info[i].peer_map[p] # None =>
    obj[info[i].peer_map[p]].info = i /\ obj[info[i].peer_map[p]].peer = p

FreeOK ==
  /\ \A i \in Info : i \notin InfosAlive(local_map, handler) => info[i] = FreeInfo
  /\ \A o \in Obj : o \notin ObjsAlive(info, handler) => obj[o] = FreeObj

ListedOK == \A o \in Obj : obj[o].listed => obj[o].initialized

CreatedOK ==
  \A i \in Info, p \in Peer : info[i].peer_map[p] # None =>
    \/ obj[info[i].peer_map[p]].listed
    \/ info[i].stopped
    \/ \E h \in Handler : /\ handler[h].at = "peer" /\ handler[h].new
                          /\ handler[h].obj = info[i].peer_map[p]

StopOK == \A i \in Info : info[i].need_stop => info[i].stopped

AstrayOK ==
  \A h \in Handler : handler[h].at # "idle" /\ handler[h].peer \notin astray =>
    /\ handler[h].info = local_map
    /\ \A g \in Handler \ {h} : handler[g].peer # handler[h].peer
    /\ handler[h].at \in Deep => info[local_map].peer_map[handler[h].peer] = handler[h].obj

RemoteOK ==
  \A p \in remote \ astray :
    \/ \E h \in Handler : handler[h].peer = p /\ handler[h].at = "set"
    \/ Known(p) # None /\ obj[Known(p)].is_set_remote

Objects ==
  /\ TypeOK
  /\ \A h \in Handler : HandlerOK(h)
  /\ MapOK /\ FreeOK /\ ListedOK /\ CreatedOK /\ StopOK /\ AstrayOK

IInv == Objects /\ RemoteOK

-----------------------------------------------------------------------------
LEMMA Modulo == \A x \in Int : x % CountModulus \in 0 .. CountModulus - 1
  BY CountAssumption

LEMMA FreeType == FreeInfo \in InfoType /\ FreeObj \in ObjType /\ Idle \in HandlerType
  BY CountAssumption DEF FreeInfo, NewInfo, FreeObj, NewObj, Idle, InfoType, ObjType, HandlerType, Kind

LEMMA Types ==
  TypeOK <=> /\ local_map \in Info \cup {None}
             /\ info \in [Info -> InfoType] /\ obj \in [Obj -> ObjType]
             /\ handler \in [Handler -> HandlerType]
             /\ remote \subseteq Peer /\ astray \subseteq Peer
  BY DEF TypeOK, InfoType, ObjType, HandlerType

(***************************************************************************)
(* What is left after the last references went: all that a thread or a     *)
(* map can reach is as it was.                                             *)
(***************************************************************************)
LEMMA KeepFacts ==
  ASSUME NEW infos \in [Info -> InfoType], NEW objs \in [Obj -> ObjType], Keep(infos, objs)
  PROVE  /\ info' \in [Info -> InfoType] /\ obj' \in [Obj -> ObjType] /\ FreeOK'
         /\ \A i \in Info : i = local_map' \/ (\E h \in Handler : handler'[h].info = i)
              => info'[i] = infos[i]
         /\ \A i \in Info : info'[i] = infos[i] \/ info'[i] = FreeInfo
         /\ \A i \in Info, p \in Peer : info'[i].peer_map[p] # None => info'[i] = infos[i]
         /\ \A i \in Info, p \in Peer : info'[i].peer_map[p] \in Obj =>
              obj'[info'[i].peer_map[p]] = objs[info'[i].peer_map[p]]
         /\ \A h \in Handler : handler'[h].obj \in Obj =>
              obj'[handler'[h].obj] = objs[handler'[h].obj]
         /\ \A o \in Obj : obj'[o] = objs[o] \/ obj'[o] = FreeObj
<1>1. \A i \in Info : info'[i] = IF i \in InfosAlive(local_map', handler') THEN infos[i] ELSE FreeInfo
  BY DEF Keep
<1>2. \A o \in Obj : obj'[o] = IF o \in ObjsAlive(info', handler') THEN objs[o] ELSE FreeObj
  BY DEF Keep
<1>3. info' \in [Info -> InfoType] /\ obj' \in [Obj -> ObjType]
  BY FreeType DEF Keep
<1>4. FreeOK'
  BY <1>1, <1>2 DEF FreeOK
<1>5. \A i \in Info : i = local_map' \/ (\E h \in Handler : handler'[h].info = i)
        => i \in InfosAlive(local_map', handler')
  BY DEF InfosAlive
<1>6. \A p \in Peer : FreeInfo.peer_map[p] = None
  BY DEF FreeInfo, NewInfo
<1>7. \A i \in Info, p \in Peer : info'[i].peer_map[p] \in ObjsAlive(info', handler')
  BY DEF ObjsAlive
<1>8. \A h \in Handler : handler'[h].obj \in ObjsAlive(info', handler')
  BY DEF ObjsAlive
<1> QED  BY <1>1, <1>2, <1>3, <1>4, <1>5, <1>6, <1>7, <1>8

\* A busy thread has an info and a peer, and perhaps the object of the peer.
LEMMA Held ==
  ASSUME Objects, NEW h \in Handler, handler[h].at # "idle"
  PROVE  /\ handler[h] \in HandlerType
         /\ handler[h].info \in Info /\ handler[h].peer \in Peer
         /\ handler[h].at \in Deep => handler[h].obj \in Obj
  BY Types DEF Objects, HandlerOK

(***************************************************************************)
(* The infos and objects a thread leaves behind: it may have taken its     *)
(* peer out of its info, changed the count, and marked objects.            *)
(***************************************************************************)
LeavesInfos(h, infos) ==
  /\ infos \in [Info -> InfoType]
  /\ \A i \in Info : /\ infos[i].need_stop = info[i].need_stop
                     /\ infos[i].stopped = info[i].stopped
  /\ \A i \in Info, p \in Peer :
       \/ infos[i].peer_map[p] = info[i].peer_map[p]
       \/ /\ infos[i].peer_map[p] = None
          /\ i = handler[h].info /\ p = handler[h].peer

LeavesObjs(objs) ==
  /\ objs \in [Obj -> ObjType]
  /\ \A o \in Obj : /\ objs[o].info = obj[o].info /\ objs[o].peer = obj[o].peer
                    /\ objs[o].initialized = obj[o].initialized
                    /\ objs[o].listed = obj[o].listed
                    /\ obj[o].is_set_remote => objs[o].is_set_remote

(***************************************************************************)
(* A thread is through with its announce: it may take its peer out of its  *)
(* info, and lets go of what it held.                                      *)
(***************************************************************************)
LEMMA LeaveStep ==
  ASSUME Objects, NEW h \in Handler, handler[h].at # "idle",
         handler' = [handler EXCEPT ![h] = Idle], UNCHANGED <<local_map, astray>>,
         remote' \subseteq Peer,
         NEW infos, NEW objs, LeavesInfos(h, infos), LeavesObjs(objs), Keep(infos, objs),
         handler[h].at = "peer" /\ handler[h].new => info[handler[h].info].stopped
  PROVE  Objects'
<1> USE DEF Objects, LeavesInfos, LeavesObjs
<1>1. /\ handler \in [Handler -> HandlerType] /\ info \in [Info -> InfoType]
      /\ obj \in [Obj -> ObjType] /\ local_map \in Info \cup {None} /\ astray \subseteq Peer
  BY Types
<1>2. /\ info' \in [Info -> InfoType] /\ obj' \in [Obj -> ObjType] /\ FreeOK'
      /\ \A i \in Info : i = local_map' \/ (\E g \in Handler : handler'[g].info = i)
           => info'[i] = infos[i]
      /\ \A i \in Info : info'[i] = infos[i] \/ info'[i] = FreeInfo
      /\ \A i \in Info, p \in Peer : info'[i].peer_map[p] # None => info'[i] = infos[i]
      /\ \A i \in Info, p \in Peer : info'[i].peer_map[p] \in Obj =>
           obj'[info'[i].peer_map[p]] = objs[info'[i].peer_map[p]]
      /\ \A g \in Handler : handler'[g].obj \in Obj =>
           obj'[handler'[g].obj] = objs[handler'[g].obj]
      /\ \A o \in Obj : obj'[o] = objs[o] \/ obj'[o] = FreeObj
  BY KeepFacts
<1>3. TypeOK'
  <2>1. handler' \in [Handler -> HandlerType]
    BY <1>1, FreeType
  <2> QED  BY <1>1, <1>2, <2>1 DEF TypeOK, InfoType, ObjType, HandlerType
<1>4. \A g \in Handler : g # h => handler'[g] = handler[g]
  BY <1>1
<1>5. handler'[h] = Idle /\ Idle.at = "idle" /\ Idle.obj = None
  BY <1>1 DEF Idle
<1>6. ASSUME NEW g \in Handler PROVE HandlerOK(g)'
  <2>1. CASE g = h
    BY <1>5, <2>1 DEF HandlerOK, Deep
  <2>2. CASE g # h
    <3>1. handler'[g] = handler[g] /\ HandlerOK(g)
      BY <1>4, <2>2
    <3>2. handler[g].at \in Deep => /\ handler[g].obj \in Obj
                                    /\ obj'[handler[g].obj] = objs[handler[g].obj]
      BY <1>2, <3>1 DEF HandlerOK
    <3> QED  BY <3>1, <3>2 DEF HandlerOK, Deep
  <2> QED  BY <2>1, <2>2
\* What is in a map was there, and is the object it was.
<1>7. ASSUME NEW i \in Info, NEW p \in Peer, info'[i].peer_map[p] # None
      PROVE  /\ info'[i].peer_map[p] = info[i].peer_map[p]
             /\ info[i].peer_map[p] \in Obj
             /\ obj'[info[i].peer_map[p]] = objs[info[i].peer_map[p]]
             /\ info'[i].stopped = info[i].stopped
  <2>1. info'[i] = infos[i]
    BY <1>2, <1>7
  <2>2. infos[i].peer_map[p] = info[i].peer_map[p]
    BY <1>7, <2>1
  <2>3. info[i].peer_map[p] \in Obj
    BY <1>1, <1>7, <2>1, <2>2 DEF InfoType
  <2> QED  BY <1>2, <2>1, <2>2, <2>3
<1>8. MapOK'
  BY <1>7 DEF MapOK
<1>9. ListedOK'
  BY <1>2 DEF ListedOK, FreeObj, NewObj
<1>10. StopOK'
  BY <1>2 DEF StopOK, FreeInfo, NewInfo
<1>11. CreatedOK'
  <2> SUFFICES ASSUME NEW i \in Info, NEW p \in Peer, info'[i].peer_map[p] # None
               PROVE  \/ obj'[info'[i].peer_map[p]].listed
                      \/ info'[i].stopped
                      \/ \E g \in Handler : /\ handler'[g].at = "peer" /\ handler'[g].new
                                            /\ handler'[g].obj = info'[i].peer_map[p]
    BY DEF CreatedOK
  <2> DEFINE o == info[i].peer_map[p]
  <2>1. /\ info'[i].peer_map[p] = o /\ o \in Obj /\ o # None
        /\ obj'[o] = objs[o] /\ info'[i].stopped = info[i].stopped
    BY <1>7
  <2>2. CASE obj[o].listed \/ info[i].stopped
    BY <2>1, <2>2
  <2>3. ASSUME NEW g \in Handler, handler[g].at = "peer", handler[g].new, handler[g].obj = o
        PROVE  info[i].stopped \/ (g # h)
    <3>1. obj[o].info = handler[g].info /\ obj[o].info = i
      BY <2>1, <2>3 DEF HandlerOK, Deep, MapOK
    <3> QED  BY <2>3, <3>1
  <2> QED  BY <1>4, <2>1, <2>2, <2>3 DEF CreatedOK
<1>12. AstrayOK'
  <2> SUFFICES ASSUME NEW g \in Handler, handler'[g].at # "idle", handler'[g].peer \notin astray
               PROVE  /\ handler'[g].info = local_map
                      /\ \A k \in Handler \ {g} : handler'[k].peer # handler'[g].peer
                      /\ handler'[g].at \in Deep =>
                           info'[local_map].peer_map[handler'[g].peer] = handler'[g].obj
    BY DEF AstrayOK
  <2>1. g # h /\ handler'[g] = handler[g]
    BY <1>4, <1>5
  <2>2. /\ handler[g].info = local_map
        /\ \A k \in Handler \ {g} : handler[k].peer # handler[g].peer
        /\ handler[g].at \in Deep => info[local_map].peer_map[handler[g].peer] = handler[g].obj
    BY <2>1 DEF AstrayOK
  <2>3. handler[g].peer \in Peer /\ handler[g].info \in Info
    BY <2>1 DEF HandlerOK
  <2>4. \A k \in Handler \ {g} : handler'[k].peer # handler[g].peer
    <3>1. Idle.peer \notin Peer
      BY NoneAssumption DEF Idle
    <3> QED  BY <1>4, <1>5, <2>2, <2>3, <3>1
  <2>5. info'[local_map] = infos[local_map]
    BY <1>2, <2>2, <2>3
  <2>6. infos[local_map].peer_map[handler[g].peer] = info[local_map].peer_map[handler[g].peer]
    BY <2>1, <2>2, <2>3
  <2> QED  BY <2>1, <2>2, <2>4, <2>5, <2>6
<1> QED  BY <1>2, <1>3, <1>6, <1>8, <1>9, <1>10, <1>11, <1>12

\* The peers that are in redis after it.
LEMMA LeaveRemote ==
  ASSUME IInv, NEW h \in Handler, handler[h].at # "idle",
         handler' = [handler EXCEPT ![h] = Idle], UNCHANGED <<local_map, astray>>,
         remote' \subseteq remote,
         NEW infos, NEW objs, LeavesInfos(h, infos), LeavesObjs(objs), Keep(infos, objs),
         handler[h].peer \in remote' \ astray =>
           /\ local_map # None /\ infos[local_map].peer_map[handler[h].peer] # None
           /\ objs[infos[local_map].peer_map[handler[h].peer]].is_set_remote
  PROVE  RemoteOK'
<1> USE DEF IInv, Objects, LeavesInfos, LeavesObjs
<1>1. /\ handler \in [Handler -> HandlerType] /\ info \in [Info -> InfoType]
      /\ obj \in [Obj -> ObjType] /\ local_map \in Info \cup {None}
  BY Types
<1>2. /\ \A i \in Info : i = local_map' => info'[i] = infos[i]
      /\ \A i \in Info, p \in Peer : info'[i].peer_map[p] \in Obj =>
           obj'[info'[i].peer_map[p]] = objs[info'[i].peer_map[p]]
  BY KeepFacts
<1> SUFFICES ASSUME NEW p \in remote' \ astray
             PROVE  \/ \E g \in Handler : handler'[g].peer = p /\ handler'[g].at = "set"
                    \/ Known(p)' # None /\ obj'[Known(p)'].is_set_remote
  BY DEF RemoteOK
<1>3. p \in Peer /\ p \in remote
  BY DEF TypeOK
\* What the info has for the peer, in the map after the step.
<1>4. ASSUME local_map # None, infos[local_map].peer_map[p] # None,
             objs[infos[local_map].peer_map[p]].is_set_remote
      PROVE  Known(p)' # None /\ obj'[Known(p)'].is_set_remote
  <2>1. local_map \in Info /\ info'[local_map] = infos[local_map]
    BY <1>1, <1>2, <1>4
  <2>2. infos[local_map].peer_map[p] \in Obj
    BY <1>3, <1>4, <2>1 DEF InfoType
  <2>3. Known(p)' = infos[local_map].peer_map[p]
    BY <1>4, <2>1 DEF Known
  <2> QED  BY <1>2, <1>3, <1>4, <2>1, <2>2, <2>3
<1>5. CASE p = handler[h].peer
  BY <1>4, <1>5
<1>6. CASE p # handler[h].peer
  <2>1. ASSUME NEW g \in Handler, handler[g].peer = p, handler[g].at = "set"
        PROVE  handler'[g].peer = p /\ handler'[g].at = "set"
    BY <1>1, <1>6, <2>1
  <2>2. ASSUME Known(p) # None, obj[Known(p)].is_set_remote
        PROVE  Known(p)' # None /\ obj'[Known(p)'].is_set_remote
    <3>1. local_map \in Info /\ Known(p) = info[local_map].peer_map[p]
      BY <1>1, <2>2 DEF Known
    <3>2. Known(p) \in Obj
      BY <1>1, <1>3, <2>2, <3>1 DEF InfoType
    <3>3. infos[local_map].peer_map[p] = Known(p) /\ objs[Known(p)].is_set_remote
      BY <1>3, <1>6, <2>2, <3>1, <3>2
    <3> QED  BY <1>4, <2>2, <3>1, <3>3, NoneAssumption
  <2> QED  BY <1>3, <2>1, <2>2 DEF RemoteOK
<1> QED  BY <1>5, <1>6

\* A peer that is not astray, in redis, with a thread that is not about to mark
\* it: it is known, and marked already.
LEMMA AloneIsKnown ==
  ASSUME IInv, NEW h \in Handler, handler[h].at \notin {"idle", "set"},
         handler[h].peer \in remote \ astray
  PROVE  /\ local_map \in Info /\ handler[h].info = local_map
         /\ Mine(h) # None /\ Mine(h) \in Obj /\ obj[Mine(h)].is_set_remote
<1> USE DEF IInv, Objects
<1>1. /\ handler[h].info = local_map /\ handler[h].info \in Info /\ handler[h].peer \in Peer
      /\ \A g \in Handler \ {h} : handler[g].peer # handler[h].peer
  BY DEF AstrayOK, HandlerOK
<1>2. Known(handler[h].peer) # None /\ obj[Known(handler[h].peer)].is_set_remote
  BY <1>1 DEF RemoteOK
<1>3. Known(handler[h].peer) = Mine(h)
  BY <1>1, <1>2, NoneAssumption DEF Known, Mine
<1>4. info \in [Info -> InfoType]
  BY Types
<1> QED  BY <1>1, <1>2, <1>3, <1>4 DEF InfoType, Mine

(***************************************************************************)
(* Threads that end their announce without a change.                       *)
(***************************************************************************)
LEMMA LeaveOnly ==
  ASSUME IInv, NEW h \in Handler, handler[h].at \notin {"idle", "set"},
         handler' = [handler EXCEPT ![h] = Idle], UNCHANGED <<local_map, remote, astray>>,
         Keep(info, obj),
         handler[h].at = "peer" /\ handler[h].new => info[handler[h].info].stopped
  PROVE  IInv'
<1>1. info \in [Info -> InfoType] /\ obj \in [Obj -> ObjType] /\ remote \subseteq Peer
  BY Types DEF IInv, Objects
<1>2. Objects'
  <2>1. LeavesInfos(h, info) /\ LeavesObjs(obj)
    BY <1>1 DEF LeavesInfos, LeavesObjs
  <2> QED  BY <1>1, <2>1, LeaveStep DEF IInv
<1>3. handler[h].peer \in remote' \ astray =>
           /\ local_map # None /\ info[local_map].peer_map[handler[h].peer] # None
           /\ obj[info[local_map].peer_map[handler[h].peer]].is_set_remote
  BY AloneIsKnown, NoneAssumption DEF Mine
<1>4. RemoteOK'
  <2>1. LeavesInfos(h, info) /\ LeavesObjs(obj)
    BY <1>1 DEF LeavesInfos, LeavesObjs
  <2> QED  BY <1>1, <1>3, <2>1, LeaveRemote
<1> QED  BY <1>2, <1>4 DEF IInv

LEMMA LeavesKeep ==
  ASSUME IInv, NEW h \in Handler, StopUnknown(h) \/ ToldToStop(h) \/ LeaveUnset(h)
  PROVE  IInv'
<1>1. CASE StopUnknown(h)
  BY <1>1, LeaveOnly DEF StopUnknown
<1>2. CASE ToldToStop(h)
  <2>1. handler[h].info \in Info
    BY <1>2 DEF ToldToStop, IInv, Objects, HandlerOK
  <2>2. info[handler[h].info].stopped
    BY <1>2, <2>1 DEF ToldToStop, IInv, Objects, StopOK
  <2> QED  BY <1>2, <2>2, LeaveOnly DEF ToldToStop
<1>3. CASE LeaveUnset(h)
  BY <1>3, LeaveOnly DEF LeaveUnset
<1> QED  BY <1>1, <1>2, <1>3

LEMMA StopPeerKeeps ==
  ASSUME IInv, NEW h \in Handler, StopPeer(h) PROVE IInv'
<1> DEFINE i == handler[h].info
           p == handler[h].peer
           set == obj[Mine(h)].is_set_remote
           infos == [info EXCEPT ![i].peer_map[p] = None,
                       ![i].remote_peer_count = IF set THEN (@ - 1) % CountModulus ELSE @]
<1>1. /\ handler[h].at = "info" /\ Mine(h) # None
      /\ remote' = IF set THEN remote \ {p} ELSE remote
      /\ handler' = [handler EXCEPT ![h] = Idle]
      /\ UNCHANGED <<local_map, astray>>
      /\ Keep(infos, obj)
  BY DEF StopPeer
<1>2. info \in [Info -> InfoType] /\ obj \in [Obj -> ObjType] /\ remote \subseteq Peer
  BY Types DEF IInv, Objects
<1>3. i \in Info /\ p \in Peer
  BY <1>1, Held DEF IInv
<1>4. CountModulus \in Int /\ info[i] \in InfoType
  BY <1>2, <1>3, CountAssumption
<1>5. (IF set THEN (info[i].remote_peer_count - 1) % CountModulus
               ELSE info[i].remote_peer_count) \in 0 .. CountModulus - 1
  BY <1>4, Modulo DEF InfoType
<1>6. infos \in [Info -> InfoType]
  BY <1>2, <1>3, <1>5, SMTT(30) DEF InfoType
<1>7. LeavesInfos(h, infos) /\ LeavesObjs(obj)
  <2>1. LeavesObjs(obj)
    BY <1>2 DEF LeavesObjs
  <2>2. \A j \in Info : infos[j].need_stop = info[j].need_stop /\ infos[j].stopped = info[j].stopped
    BY <1>2, <1>3 DEF InfoType
  <2>3. ASSUME NEW j \in Info, NEW q \in Peer
        PROVE  \/ infos[j].peer_map[q] = info[j].peer_map[q]
               \/ infos[j].peer_map[q] = None /\ j = i /\ q = p
    BY <1>2, <1>3 DEF InfoType
  <2> HIDE DEF infos
  <2> QED  BY <1>6, <2>1, <2>2, <2>3 DEF LeavesInfos
<1>8. remote' \subseteq remote
  BY <1>1
<1> HIDE DEF infos
<1>9. Objects'
  <2>1. /\ Objects /\ handler[h].at # "idle" /\ remote' \subseteq Peer
        /\ ~(handler[h].at = "peer" /\ handler[h].new)
    BY <1>1, <1>2, <1>8 DEF IInv
  <2> QED  BY <1>1, <1>7, <2>1, LeaveStep
<1>10. p \notin remote' \ astray
  BY <1>1, <1>8, AloneIsKnown
<1>11. RemoteOK'
  BY <1>1, <1>7, <1>8, <1>10, LeaveRemote
<1> QED  BY <1>9, <1>11 DEF IInv

LEMMA CountKeeps ==
  ASSUME IInv, NEW h \in Handler, Count(h) PROVE IInv'
<1> DEFINE i == handler[h].info
           p == handler[h].peer
           infos == [info EXCEPT ![i].remote_peer_count =
                       IF handler[h].new THEN (@ + 1) % CountModulus ELSE @]
           objs == [obj EXCEPT ![handler[h].obj].is_set_remote = TRUE]
<1>1. /\ handler[h].at = "set"
      /\ handler' = [handler EXCEPT ![h] = Idle]
      /\ UNCHANGED <<local_map, remote, astray>>
      /\ Keep(infos, objs)
  BY DEF Count
<1>2. info \in [Info -> InfoType] /\ obj \in [Obj -> ObjType] /\ remote \subseteq Peer
  BY Types DEF IInv, Objects
<1>3. i \in Info /\ p \in Peer /\ handler[h].obj \in Obj /\ handler[h].at \in Deep
  BY <1>1, Held DEF IInv, Deep
<1>4. CountModulus \in Int /\ info[i] \in InfoType
  BY <1>2, <1>3, CountAssumption
<1>5. (IF handler[h].new THEN (info[i].remote_peer_count + 1) % CountModulus
                         ELSE info[i].remote_peer_count) \in 0 .. CountModulus - 1
  <2>1. info[i].remote_peer_count \in 0 .. CountModulus - 1 /\ info[i].remote_peer_count + 1 \in Int
    BY <1>4 DEF InfoType
  <2> QED  BY <2>1, Modulo
<1>6. infos \in [Info -> InfoType]
  BY <1>2, <1>3, <1>5, SMTT(30) DEF InfoType
<1>7. objs \in [Obj -> ObjType] /\ objs[handler[h].obj].is_set_remote
  BY <1>2, <1>3 DEF ObjType
<1>8. /\ LeavesInfos(h, infos)
      /\ \A j \in Info, q \in Peer : infos[j].peer_map[q] = info[j].peer_map[q]
  BY <1>2, <1>3, <1>6 DEF InfoType, LeavesInfos
<1>9. LeavesObjs(objs)
  BY <1>2, <1>3, <1>7 DEF ObjType, LeavesObjs
<1> HIDE DEF infos, objs
<1>10. p \in remote' \ astray =>
         /\ local_map # None /\ infos[local_map].peer_map[p] # None
         /\ objs[infos[local_map].peer_map[p]].is_set_remote
  <2> SUFFICES ASSUME p \notin astray
               PROVE  /\ local_map # None /\ infos[local_map].peer_map[p] # None
                      /\ objs[infos[local_map].peer_map[p]].is_set_remote
    BY <1>1
  <2>1. i = local_map /\ info[local_map].peer_map[p] = handler[h].obj
    BY <1>1, <1>3 DEF IInv, Objects, AstrayOK
  <2> QED  BY <1>3, <1>7, <1>8, <2>1, NoneAssumption
<1>11. Objects'
  <2>1. /\ Objects /\ handler[h].at # "idle" /\ remote' \subseteq Peer
        /\ ~(handler[h].at = "peer" /\ handler[h].new)
    BY <1>1, <1>2 DEF IInv
  <2> QED  BY <1>1, <1>8, <1>9, <2>1, LeaveStep
<1>12. RemoteOK'
  <2>1. handler[h].at # "idle" /\ remote' \subseteq remote
    BY <1>1
  <2> QED  BY <1>1, <1>8, <1>9, <1>10, <2>1, LeaveRemote
<1> QED  BY <1>11, <1>12 DEF IInv

-----------------------------------------------------------------------------
(***************************************************************************)
(* The start of an announce.  A second one of the same peer makes the peer *)
(* astray.                                                                 *)
(***************************************************************************)
LEMMA PreHandleInfoHashInfoKeeps ==
  ASSUME IInv, NEW h \in Handler, NEW p \in Peer, NEW k \in Kind, PreHandleInfoHashInfo(h, p, k)
  PROVE  IInv'
<1> USE DEF IInv, Objects
<1> DEFINE s == [at |-> "info", peer |-> p, kind |-> k, info |-> local_map', obj |-> None,
                 new |-> FALSE]
<1>1. /\ handler[h].at = "idle" /\ handler[h] = Idle
      /\ handler' = [handler EXCEPT ![h] = s]
      /\ astray' = IF InFlight(p) THEN astray \cup {p} ELSE astray
      /\ UNCHANGED <<info, obj, remote>>
  BY DEF PreHandleInfoHashInfo, HandlerOK
<1>2. /\ handler \in [Handler -> HandlerType] /\ info \in [Info -> InfoType]
      /\ obj \in [Obj -> ObjType] /\ local_map \in Info \cup {None}
  BY Types
<1>3. local_map' \in Info /\ (local_map # None => local_map' = local_map)
      /\ (local_map = None => local_map' \in FreshInfo)
  BY <1>2 DEF PreHandleInfoHashInfo, FreshInfo
<1>4. s \in HandlerType
  BY <1>3 DEF HandlerType
<1>5. handler'[h] = s /\ \A g \in Handler : g # h => handler'[g] = handler[g]
  BY <1>1, <1>2
<1>6. TypeOK'
  <2>1. handler' \in [Handler -> HandlerType] /\ astray' \subseteq Peer
    BY <1>1, <1>2, <1>4 DEF TypeOK
  <2> QED  BY <1>1, <1>2, <1>3, <2>1 DEF TypeOK, HandlerType
<1>7. ASSUME NEW g \in Handler PROVE HandlerOK(g)'
  <2>1. CASE g = h
    BY <1>3, <1>5, <2>1 DEF HandlerOK, Deep
  <2>2. CASE g # h
    BY <1>1, <1>5, <2>2 DEF HandlerOK, Deep
  <2> QED  BY <2>1, <2>2
<1>8. FreeOK'
  <2>1. handler[h].info = None /\ handler[h].obj = None
    BY <1>1 DEF Idle
  <2>2. \A i \in Info : i \in InfosAlive(local_map, handler) => i \in InfosAlive(local_map', handler')
    BY <1>3, <1>5, <2>1, NoneAssumption DEF InfosAlive
  <2>3. \A o \in Obj : o \in ObjsAlive(info, handler) => o \in ObjsAlive(info', handler')
    BY <1>1, <1>5, <2>1, NoneAssumption DEF ObjsAlive
  <2> QED  BY <1>1, <2>2, <2>3 DEF FreeOK
<1>9. MapOK' /\ ListedOK' /\ StopOK'
  BY <1>1 DEF MapOK, ListedOK, StopOK
<1>10. CreatedOK'
  BY <1>1, <1>5 DEF CreatedOK
<1>11. AstrayOK'
  <2> SUFFICES ASSUME NEW g \in Handler, handler'[g].at # "idle", handler'[g].peer \notin astray'
               PROVE  /\ handler'[g].info = local_map'
                      /\ \A f \in Handler \ {g} : handler'[f].peer # handler'[g].peer
                      /\ handler'[g].at \in Deep =>
                           info'[local_map'].peer_map[handler'[g].peer] = handler'[g].obj
    BY DEF AstrayOK
  <2>1. CASE g = h
    <3>1. handler'[g] = s /\ ~InFlight(p)
      BY <1>1, <1>5, <2>1
    <3>2. s.info = local_map' /\ s.at \notin Deep /\ s.peer = p
      BY DEF Deep
    <3>3. \A f \in Handler \ {g} : handler'[f].peer # p
      BY <1>5, <2>1, <3>1 DEF InFlight
    <3> QED  BY <3>1, <3>2, <3>3
  <2>2. CASE g # h
    <3>1. handler'[g] = handler[g] /\ handler[g].peer \notin astray
      BY <1>1, <1>5, <2>2
    <3>2. /\ handler[g].info = local_map
          /\ \A f \in Handler \ {g} : handler[f].peer # handler[g].peer
          /\ handler[g].at \in Deep => info[local_map].peer_map[handler[g].peer] = handler[g].obj
      BY <3>1 DEF AstrayOK
    <3>3. local_map' = local_map
      BY <1>3, <3>1, <3>2, NoneAssumption DEF HandlerOK
    <3>4. handler[g].peer # p
      BY <1>1, <3>1 DEF InFlight
    <3>5. \A f \in Handler \ {g} : handler'[f].peer # handler[g].peer
      BY <1>5, <3>2, <3>4
    <3> QED  BY <1>1, <3>1, <3>2, <3>3, <3>5
  <2> QED  BY <2>1, <2>2
<1>12. RemoteOK'
  <2> SUFFICES ASSUME NEW q \in remote \ astray'
               PROVE  \/ \E g \in Handler : handler'[g].peer = q /\ handler'[g].at = "set"
                      \/ Known(q)' # None /\ obj'[Known(q)'].is_set_remote
    BY <1>1 DEF RemoteOK
  <2>1. q \in remote \ astray
    BY <1>1
  <2>2. ASSUME NEW g \in Handler, handler[g].peer = q, handler[g].at = "set"
        PROVE  handler'[g].peer = q /\ handler'[g].at = "set"
    BY <1>1, <1>5, <2>2
  <2>3. ASSUME Known(q) # None, obj[Known(q)].is_set_remote
        PROVE  Known(q)' # None /\ obj'[Known(q)'].is_set_remote
    BY <1>1, <1>3, <2>3 DEF Known
  <2> QED  BY <2>1, <2>2, <2>3 DEF RemoteOK
<1> QED  BY <1>6, <1>7, <1>8, <1>9, <1>10, <1>11, <1>12

-----------------------------------------------------------------------------
(***************************************************************************)
(* A thread goes on with the object of its peer, in a new state.           *)
(***************************************************************************)
LEMMA FindPeerKeeps ==
  ASSUME IInv, NEW h \in Handler, FindPeer(h) PROVE IInv'
<1> USE DEF IInv, Objects
<1> DEFINE s == [handler[h] EXCEPT !.at = "peer", !.obj = Mine(h)]
<1>1. /\ handler[h].at = "info" /\ Mine(h) # None
      /\ UNCHANGED <<local_map, info, obj, remote, astray>>
  BY DEF FindPeer
<1>2. /\ handler \in [Handler -> HandlerType] /\ info \in [Info -> InfoType]
  BY Types
<1>3. /\ handler[h] \in HandlerType /\ handler[h].info \in Info /\ handler[h].peer \in Peer
      /\ handler[h].obj = None /\ ~handler[h].new
  BY <1>1, Held DEF HandlerOK
<1>4. Mine(h) \in Obj /\ obj[Mine(h)].info = handler[h].info /\ obj[Mine(h)].peer = handler[h].peer
  BY <1>1, <1>2, <1>3 DEF Mine, InfoType, MapOK
<1>5. handler'[h] = s /\ \A g \in Handler : g # h => handler'[g] = handler[g]
  <2>1. handler' = [handler EXCEPT ![h].at = "peer", ![h].obj = Mine(h)]
    BY DEF FindPeer
  <2>2. handler' = [handler EXCEPT ![h] = s]
    BY <1>2, <2>1 DEF HandlerType
  <2> QED  BY <1>2, <2>2
<1>6. /\ s \in HandlerType /\ s.at = "peer" /\ s.obj = Mine(h)
      /\ s.peer = handler[h].peer /\ s.info = handler[h].info /\ ~s.new
  BY <1>3, <1>4 DEF HandlerType
<1> HIDE DEF s
<1>7. TypeOK'
  <2>1. handler' \in [Handler -> HandlerType]
    <3>1. handler' = [g \in Handler |-> handler'[g]]
      BY <1>2 DEF FindPeer
    <3>2. \A g \in Handler : handler'[g] \in HandlerType
      BY <1>2, <1>5, <1>6
    <3> QED  BY <3>1, <3>2
  <2> QED  BY <1>1, <2>1 DEF TypeOK, HandlerType
<1>8. ASSUME NEW g \in Handler PROVE HandlerOK(g)'
  <2>1. CASE g = h
    BY <1>1, <1>3, <1>4, <1>5, <1>6, <2>1 DEF HandlerOK, Deep
  <2>2. CASE g # h
    BY <1>1, <1>5, <2>2 DEF HandlerOK, Deep
  <2> QED  BY <2>1, <2>2
<1>9. FreeOK'
  <2>1. \A i \in Info : i \in InfosAlive(local_map, handler) => i \in InfosAlive(local_map', handler')
    BY <1>1, <1>5, <1>6 DEF InfosAlive
  <2>2. \A o \in Obj : o \in ObjsAlive(info, handler) => o \in ObjsAlive(info', handler')
    BY <1>1, <1>3, <1>5, NoneAssumption DEF ObjsAlive
  <2> QED  BY <1>1, <2>1, <2>2 DEF FreeOK
<1>10. MapOK' /\ ListedOK' /\ StopOK'
  BY <1>1 DEF MapOK, ListedOK, StopOK
<1>11. CreatedOK'
  BY <1>1, <1>5 DEF CreatedOK
<1>12. AstrayOK'
  <2>1. \A g \in Handler : handler'[g].peer = handler[g].peer /\ handler'[g].info = handler[g].info
    BY <1>5, <1>6
  <2>2. handler[h].at # "idle" /\ handler'[h].obj = info[handler[h].info].peer_map[handler[h].peer]
    BY <1>1, <1>5, <1>6 DEF Mine
  <2> QED  BY <1>1, <1>5, <2>1, <2>2 DEF AstrayOK
<1>13. RemoteOK'
  BY <1>1, <1>5 DEF RemoteOK, Known
<1> QED  BY <1>7, <1>8, <1>9, <1>10, <1>11, <1>12, <1>13

LEMMA UpdateInfoKeeps ==
  ASSUME IInv, NEW h \in Handler, UpdateInfo(h) PROVE IInv'
<1> USE DEF IInv, Objects
<1> DEFINE m == handler[h].obj
           s == [handler[h] EXCEPT !.at = "updated"]
           t == [obj[m] EXCEPT !.initialized = TRUE, !.listed = @ \/ handler[h].new]
<1>1. /\ handler[h].at = "peer" /\ UNCHANGED <<local_map, info, remote, astray>>
  BY DEF UpdateInfo
<1>2. /\ handler \in [Handler -> HandlerType] /\ info \in [Info -> InfoType]
      /\ obj \in [Obj -> ObjType]
  BY Types
<1>3. /\ handler[h] \in HandlerType /\ m \in Obj
      /\ obj[m].info = handler[h].info /\ obj[m].peer = handler[h].peer
  BY <1>1, Held DEF HandlerOK, Deep
<1>4. handler'[h] = s /\ \A g \in Handler : g # h => handler'[g] = handler[g]
  <2>1. handler' = [handler EXCEPT ![h] = s]
    BY <1>2 DEF UpdateInfo, HandlerType
  <2> QED  BY <1>2, <2>1
<1>5. obj'[m] = t /\ \A o \in Obj : o # m => obj'[o] = obj[o]
  <2>1. obj' = [obj EXCEPT ![m] = t]
    BY <1>2, <1>3 DEF UpdateInfo, ObjType
  <2> QED  BY <1>2, <1>3, <2>1
<1>6. /\ s \in HandlerType /\ s.at = "updated" /\ s.obj = m /\ s.new = handler[h].new
      /\ s.peer = handler[h].peer /\ s.info = handler[h].info
  BY <1>3 DEF HandlerType
<1>7. /\ t \in ObjType /\ t.info = obj[m].info /\ t.peer = obj[m].peer
      /\ t.initialized /\ (t.listed <=> obj[m].listed \/ handler[h].new)
      /\ t.is_set_remote = obj[m].is_set_remote
  <2>1. obj[m] \in ObjType
    BY <1>2, <1>3
  <2> QED  BY <1>3, <2>1 DEF ObjType, HandlerType
<1> HIDE DEF s, t
\* What an object is of, and whether it is marked, stays as it was.
<1>8. \A o \in Obj : /\ obj'[o].info = obj[o].info /\ obj'[o].peer = obj[o].peer
                     /\ obj'[o].is_set_remote = obj[o].is_set_remote
                     /\ obj[o].initialized => obj'[o].initialized
                     /\ obj[o].listed => obj'[o].listed
  BY <1>5, <1>7
<1>9. \A i \in Info, p \in Peer : info[i].peer_map[p] # None => info[i].peer_map[p] \in Obj
  BY <1>2 DEF InfoType
<1>10. TypeOK'
  <2>1. handler' \in [Handler -> HandlerType]
    <3>1. handler' = [g \in Handler |-> handler'[g]]
      BY <1>2 DEF UpdateInfo
    <3>2. \A g \in Handler : handler'[g] \in HandlerType
      BY <1>2, <1>4, <1>6
    <3> QED  BY <3>1, <3>2
  <2>2. obj' \in [Obj -> ObjType]
    <3>1. obj' = [o \in Obj |-> obj'[o]]
      BY <1>2 DEF UpdateInfo
    <3>2. \A o \in Obj : obj'[o] \in ObjType
      BY <1>2, <1>5, <1>7
    <3> QED  BY <3>1, <3>2
  <2> QED  BY <1>1, <2>1, <2>2 DEF TypeOK, HandlerType, ObjType
<1>11. ASSUME NEW g \in Handler PROVE HandlerOK(g)'
  <2>1. CASE g = h
    BY <1>1, <1>3, <1>4, <1>5, <1>6, <1>7, <2>1, Held DEF HandlerOK, Deep
  <2>2. CASE g # h
    <3>1. handler'[g] = handler[g] /\ HandlerOK(g)
      BY <1>4, <2>2
    <3> QED  BY <1>8, <3>1 DEF HandlerOK, Deep
  <2> QED  BY <2>1, <2>2
<1>12. FreeOK'
  <2>1. \A i \in Info : i \in InfosAlive(local_map, handler) => i \in InfosAlive(local_map', handler')
    BY <1>1, <1>4, <1>6 DEF InfosAlive
  <2>2. \A o \in Obj : o \in ObjsAlive(info, handler) <=> o \in ObjsAlive(info', handler')
    BY <1>1, <1>4, <1>6 DEF ObjsAlive
  <2>3. m \in ObjsAlive(info, handler)
    BY DEF ObjsAlive
  <2> QED  BY <1>1, <1>5, <2>1, <2>2, <2>3 DEF FreeOK
<1>13. MapOK'
  BY <1>1, <1>8, <1>9 DEF MapOK
<1>14. ListedOK'
  BY <1>5, <1>7 DEF ListedOK
<1>15. StopOK'
  BY <1>1 DEF StopOK
<1>16. CreatedOK'
  <2> SUFFICES ASSUME NEW i \in Info, NEW p \in Peer, info[i].peer_map[p] # None,
                      ~info[i].stopped
               PROVE  \/ obj'[info[i].peer_map[p]].listed
                      \/ \E g \in Handler : /\ handler'[g].at = "peer" /\ handler'[g].new
                                            /\ handler'[g].obj = info[i].peer_map[p]
    BY <1>1 DEF CreatedOK
  <2>1. ASSUME NEW g \in Handler, handler[g].at = "peer", handler[g].new,
               handler[g].obj = info[i].peer_map[p]
        PROVE  \/ obj'[info[i].peer_map[p]].listed
               \/ handler'[g] = handler[g]
    BY <1>4, <1>5, <1>7, <2>1
  <2> QED  BY <1>8, <1>9, <2>1 DEF CreatedOK
<1>17. AstrayOK'
  <2>1. \A g \in Handler : /\ handler'[g].peer = handler[g].peer /\ handler'[g].info = handler[g].info
                           /\ handler'[g].obj = handler[g].obj
                           /\ handler'[g].at # "idle" => handler[g].at # "idle"
                           /\ handler'[g].at \in Deep => handler[g].at \in Deep
    BY <1>1, <1>4, <1>6 DEF Deep
  <2> QED  BY <1>1, <2>1 DEF AstrayOK
<1>18. RemoteOK'
  <2> SUFFICES ASSUME NEW p \in remote \ astray
               PROVE  \/ \E g \in Handler : handler'[g].peer = p /\ handler'[g].at = "set"
                      \/ Known(p)' # None /\ obj'[Known(p)'].is_set_remote
    BY <1>1 DEF RemoteOK
  <2>1. ASSUME NEW g \in Handler, handler[g].peer = p, handler[g].at = "set"
        PROVE  handler'[g].peer = p /\ handler'[g].at = "set"
    BY <1>1, <1>4, <2>1
  <2>2. ASSUME Known(p) # None, obj[Known(p)].is_set_remote
        PROVE  Known(p)' # None /\ obj'[Known(p)'].is_set_remote
    <3>1. Known(p) \in Obj /\ Known(p)' = Known(p)
      BY <1>1, <1>9, <2>2 DEF Known, TypeOK
    <3> QED  BY <1>8, <2>2, <3>1
  <2> QED  BY <2>1, <2>2 DEF RemoteOK
<1> QED  BY <1>10, <1>11, <1>12, <1>13, <1>14, <1>15, <1>16, <1>17, <1>18

LEMMA SetPeerRemoteKeeps ==
  ASSUME IInv, NEW h \in Handler, SetPeerRemote(h) PROVE IInv'
<1> USE DEF IInv, Objects
<1> DEFINE s == [handler[h] EXCEPT !.at = "set"]
<1>1. /\ handler[h].at = "updated" /\ UNCHANGED <<local_map, info, obj, astray>>
      /\ remote' = remote \cup {handler[h].peer}
  BY DEF SetPeerRemote
<1>2. handler \in [Handler -> HandlerType]
  BY Types
<1>3. handler[h] \in HandlerType /\ handler[h].peer \in Peer
  BY <1>1, Held
<1>4. handler'[h] = s /\ \A g \in Handler : g # h => handler'[g] = handler[g]
  <2>1. handler' = [handler EXCEPT ![h] = s]
    BY <1>2 DEF SetPeerRemote, HandlerType
  <2> QED  BY <1>2, <2>1
<1>5. /\ s \in HandlerType /\ s.at = "set" /\ s.obj = handler[h].obj
      /\ s.peer = handler[h].peer /\ s.info = handler[h].info
  BY <1>3 DEF HandlerType
<1> HIDE DEF s
<1>6. TypeOK'
  <2>1. handler' \in [Handler -> HandlerType]
    <3>1. handler' = [g \in Handler |-> handler'[g]]
      BY <1>2 DEF SetPeerRemote
    <3>2. \A g \in Handler : handler'[g] \in HandlerType
      BY <1>2, <1>4, <1>5
    <3> QED  BY <3>1, <3>2
  <2> QED  BY <1>1, <1>3, <2>1 DEF TypeOK, HandlerType
<1>7. ASSUME NEW g \in Handler PROVE HandlerOK(g)'
  <2>1. CASE g = h
    BY <1>1, <1>3, <1>4, <1>5, <2>1, Held DEF HandlerOK, Deep
  <2>2. CASE g # h
    BY <1>1, <1>4, <2>2 DEF HandlerOK, Deep
  <2> QED  BY <2>1, <2>2
<1>8. FreeOK'
  <2>1. InfosAlive(local_map, handler) = InfosAlive(local_map', handler')
    BY <1>1, <1>4, <1>5 DEF InfosAlive
  <2>2. ObjsAlive(info, handler) = ObjsAlive(info', handler')
    BY <1>1, <1>4, <1>5 DEF ObjsAlive
  <2> QED  BY <1>1, <2>1, <2>2 DEF FreeOK
<1>9. MapOK' /\ ListedOK' /\ StopOK'
  BY <1>1 DEF MapOK, ListedOK, StopOK
<1>10. CreatedOK'
  BY <1>1, <1>4 DEF CreatedOK
<1>11. AstrayOK'
  <2>1. \A g \in Handler : /\ handler'[g].peer = handler[g].peer /\ handler'[g].info = handler[g].info
                           /\ handler'[g].obj = handler[g].obj
                           /\ handler'[g].at # "idle" => handler[g].at # "idle"
                           /\ handler'[g].at \in Deep => handler[g].at \in Deep
    BY <1>1, <1>4, <1>5 DEF Deep
  <2> QED  BY <1>1, <2>1 DEF AstrayOK
<1>12. RemoteOK'
  <2>1. \A g \in Handler : handler[g].at = "set" => handler'[g] = handler[g]
    BY <1>1, <1>4
  <2>2. \A p \in remote' \ astray' : p = handler[h].peer \/ p \in remote \ astray
    BY <1>1
  <2>3. handler'[h].peer = handler[h].peer /\ handler'[h].at = "set"
    BY <1>4, <1>5
  <2> QED  BY <1>1, <2>1, <2>2, <2>3 DEF RemoteOK, Known
<1> QED  BY <1>6, <1>7, <1>8, <1>9, <1>10, <1>11, <1>12

(***************************************************************************)
(* A new object, that no thread and no info had.                           *)
(***************************************************************************)
LEMMA AddPeerKeeps ==
  ASSUME IInv, NEW h \in Handler, AddPeer(h) PROVE IInv'
<1> USE DEF IInv, Objects
<1> DEFINE i == handler[h].info
           p == handler[h].peer
<1>1. /\ handler[h].at = "info" /\ Mine(h) = None
      /\ UNCHANGED <<local_map, remote, astray>>
  BY DEF AddPeer
<1>2. PICK n \in FreshObj :
        /\ info' = [info EXCEPT ![i].peer_map[p] = n]
        /\ obj' = [obj EXCEPT ![n] = NewObj(i, p)]
        /\ handler' = [handler EXCEPT ![h].at = "peer", ![h].obj = n, ![h].new = TRUE]
  BY DEF AddPeer
<1> DEFINE s == [handler[h] EXCEPT !.at = "peer", !.obj = n, !.new = TRUE]
<1>3. /\ handler \in [Handler -> HandlerType] /\ info \in [Info -> InfoType]
      /\ obj \in [Obj -> ObjType]
  BY Types
<1>4. /\ handler[h] \in HandlerType /\ i \in Info /\ p \in Peer
      /\ handler[h].obj = None /\ info[i].peer_map[p] = None
  BY <1>1, Held DEF HandlerOK, Mine
<1>5. n \in Obj /\ n \notin ObjsAlive(info, handler) /\ n # None
  BY <1>2, NoneAssumption DEF FreshObj
<1>6. handler'[h] = s /\ \A g \in Handler : g # h => handler'[g] = handler[g]
  <2>1. handler' = [handler EXCEPT ![h] = s]
    BY <1>2, <1>3 DEF HandlerType
  <2> QED  BY <1>3, <2>1
<1>7. /\ s \in HandlerType /\ s.at = "peer" /\ s.obj = n /\ s.new
      /\ s.peer = p /\ s.info = i
  BY <1>4, <1>5 DEF HandlerType
<1>8. /\ obj'[n].info = i /\ obj'[n].peer = p /\ ~obj'[n].listed /\ ~obj'[n].initialized
      /\ obj'[n] \in ObjType
      /\ \A o \in Obj : o # n => obj'[o] = obj[o]
  <2>1. obj'[n] = NewObj(i, p) /\ \A o \in Obj : o # n => obj'[o] = obj[o]
    BY <1>2, <1>3, <1>5
  <2> QED  BY <1>4, <2>1 DEF NewObj, ObjType
<1>9. info' \in [Info -> InfoType]
  BY <1>2, <1>3, <1>4, <1>5 DEF InfoType
<1>10. \A j \in Info : /\ info'[j].need_stop = info[j].need_stop /\ info'[j].stopped = info[j].stopped
                       /\ j # i => info'[j] = info[j]
  BY <1>2, <1>3, <1>4 DEF InfoType
<1>11. \A j \in Info, q \in Peer :
         info'[j].peer_map[q] = IF j = i /\ q = p THEN n ELSE info[j].peer_map[q]
  BY <1>2, <1>3, <1>4 DEF InfoType
<1>12. \A j \in Info, q \in Peer : info[j].peer_map[q] # n
  BY <1>5 DEF ObjsAlive
<1>13. \A g \in Handler : handler[g].obj # n
  BY <1>5 DEF ObjsAlive
<1>14. TypeOK'
  <2>1. handler' \in [Handler -> HandlerType]
    <3>1. handler' = [g \in Handler |-> handler'[g]]
      BY <1>2, <1>3
    <3>2. \A g \in Handler : handler'[g] \in HandlerType
      BY <1>3, <1>6, <1>7
    <3> QED  BY <3>1, <3>2
  <2>2. obj' \in [Obj -> ObjType]
    <3>1. obj' = [o \in Obj |-> obj'[o]]
      BY <1>2, <1>3
    <3>2. \A o \in Obj : obj'[o] \in ObjType
      BY <1>3, <1>8
    <3> QED  BY <3>1, <3>2
  <2> QED  BY <1>1, <1>9, <2>1, <2>2 DEF TypeOK, HandlerType, ObjType, InfoType
<1> HIDE DEF s
<1>15. ASSUME NEW g \in Handler PROVE HandlerOK(g)'
  <2>1. CASE g = h
    BY <1>4, <1>5, <1>6, <1>7, <1>8, <2>1 DEF HandlerOK, Deep
  <2>2. CASE g # h
    <3>1. handler'[g] = handler[g] /\ HandlerOK(g)
      BY <1>6, <2>2
    <3> QED  BY <1>8, <1>13, <3>1 DEF HandlerOK, Deep
  <2> QED  BY <2>1, <2>2
<1>16. FreeOK'
  <2>1. \A j \in Info : j \in InfosAlive(local_map, handler) <=> j \in InfosAlive(local_map', handler')
    BY <1>1, <1>6, <1>7 DEF InfosAlive
  <2>2. i \in InfosAlive(local_map, handler)
    BY DEF InfosAlive
  <2>3. ASSUME NEW o \in Obj, o \in ObjsAlive(info, handler) PROVE o \in ObjsAlive(info', handler')
    <3>1. o # None
      BY NoneAssumption
    <3>2. CASE \E j \in Info, q \in Peer : o = info[j].peer_map[q]
      BY <1>4, <1>11, <3>1, <3>2 DEF ObjsAlive
    <3>3. CASE \E g \in Handler : o = handler[g].obj
      BY <1>4, <1>6, <3>1, <3>3 DEF ObjsAlive
    <3> QED  BY <2>3, <3>2, <3>3 DEF ObjsAlive
  <2>4. n \in ObjsAlive(info', handler')
    BY <1>6, <1>7 DEF ObjsAlive
  <2> QED  BY <1>8, <1>10, <2>1, <2>2, <2>3, <2>4 DEF FreeOK
<1>17. MapOK'
  <2>1. \A j \in Info, q \in Peer : info[j].peer_map[q] # None => info[j].peer_map[q] \in Obj
    BY <1>3 DEF InfoType
  <2> QED  BY <1>8, <1>11, <1>12, <2>1 DEF MapOK
<1>18. ListedOK'
  BY <1>8 DEF ListedOK
<1>19. StopOK'
  BY <1>10 DEF StopOK
<1>20. CreatedOK'
  <2> SUFFICES ASSUME NEW j \in Info, NEW q \in Peer, info'[j].peer_map[q] # None
               PROVE  \/ obj'[info'[j].peer_map[q]].listed
                      \/ info'[j].stopped
                      \/ \E g \in Handler : /\ handler'[g].at = "peer" /\ handler'[g].new
                                            /\ handler'[g].obj = info'[j].peer_map[q]
    BY DEF CreatedOK
  <2>1. CASE j = i /\ q = p
    BY <1>6, <1>7, <1>11, <2>1
  <2>2. CASE ~(j = i /\ q = p)
    <3>1. info'[j].peer_map[q] = info[j].peer_map[q] /\ info[j].peer_map[q] \in Obj
      BY <1>3, <1>11, <2>2 DEF InfoType
    <3>2. \A g \in Handler : handler[g].at = "peer" => handler'[g] = handler[g]
      BY <1>1, <1>6
    <3> QED  BY <1>8, <1>10, <1>12, <3>1, <3>2 DEF CreatedOK
  <2> QED  BY <2>1, <2>2
<1>21. AstrayOK'
  <2> SUFFICES ASSUME NEW g \in Handler, handler'[g].at # "idle", handler'[g].peer \notin astray
               PROVE  /\ handler'[g].info = local_map
                      /\ \A f \in Handler \ {g} : handler'[f].peer # handler'[g].peer
                      /\ handler'[g].at \in Deep =>
                           info'[local_map].peer_map[handler'[g].peer] = handler'[g].obj
    BY <1>1 DEF AstrayOK
  <2>1. \A f \in Handler : handler'[f].peer = handler[f].peer /\ handler'[f].info = handler[f].info
    BY <1>6, <1>7
  <2>2. handler[g].at # "idle"
    BY <1>1, <1>6
  <2>3. /\ handler[g].info = local_map
        /\ \A f \in Handler \ {g} : handler[f].peer # handler[g].peer
        /\ handler[g].at \in Deep => info[local_map].peer_map[handler[g].peer] = handler[g].obj
    BY <2>1, <2>2 DEF AstrayOK
  <2>4. handler[g].peer \in Peer /\ handler[g].info \in Info
    BY <2>2 DEF HandlerOK
  <2>5. handler'[g].at \in Deep => info'[local_map].peer_map[handler[g].peer] = handler'[g].obj
    <3>1. CASE g = h
      BY <1>6, <1>7, <1>11, <2>3, <2>4, <3>1
    <3>2. CASE g # h
      BY <1>6, <1>11, <2>3, <2>4, <3>2
    <3> QED  BY <3>1, <3>2
  <2> QED  BY <2>1, <2>3, <2>5
<1>22. RemoteOK'
  <2> SUFFICES ASSUME NEW q \in remote \ astray
               PROVE  \/ \E g \in Handler : handler'[g].peer = q /\ handler'[g].at = "set"
                      \/ Known(q)' # None /\ obj'[Known(q)'].is_set_remote
    BY <1>1 DEF RemoteOK
  <2>1. q # p /\ q \in Peer
    BY <1>1, AloneIsKnown DEF TypeOK
  <2>2. ASSUME NEW g \in Handler, handler[g].peer = q, handler[g].at = "set"
        PROVE  handler'[g].peer = q /\ handler'[g].at = "set"
    BY <1>1, <1>6, <2>2
  <2>3. ASSUME Known(q) # None, obj[Known(q)].is_set_remote
        PROVE  Known(q)' # None /\ obj'[Known(q)'].is_set_remote
    <3>1. local_map \in Info /\ Known(q) = info[local_map].peer_map[q]
      BY <2>3 DEF Known, TypeOK
    <3>2. Known(q) \in Obj /\ Known(q) # n
      BY <1>3, <1>12, <2>1, <2>3, <3>1 DEF InfoType
    <3>3. Known(q)' = Known(q)
      BY <1>1, <1>11, <2>1, <2>3, <3>1 DEF Known
    <3> QED  BY <1>8, <2>3, <3>2, <3>3
  <2> QED  BY <2>2, <2>3 DEF RemoteOK
<1> QED  BY <1>14, <1>15, <1>16, <1>17, <1>18, <1>19, <1>20, <1>21, <1>22

-----------------------------------------------------------------------------
LEMMA ControlKeeps ==
  ASSUME IInv, NEW stop \in BOOLEAN, ControlByInfohash(stop) PROVE IInv'
<1> USE DEF IInv, Objects
<1>0. UNCHANGED <<local_map, obj, handler, remote, astray>>
  BY DEF ControlByInfohash
<1>1. /\ local_map # None /\ UNCHANGED <<local_map, obj, handler, remote, astray>>
      /\ info' = [info EXCEPT ![local_map].need_stop = stop, ![local_map].stopped = @ \/ stop]
  BY DEF ControlByInfohash
<1>2. info \in [Info -> InfoType] /\ local_map \in Info /\ handler \in [Handler -> HandlerType]
  BY <1>1, Types
<1>3. info[local_map].stopped \/ stop \in BOOLEAN
  BY <1>2 DEF InfoType
<1>4. info' \in [Info -> InfoType]
  BY <1>1, <1>2, <1>3 DEF InfoType
<1>5. \A i \in Info : /\ info'[i].peer_map = info[i].peer_map
                      /\ info[i].stopped => info'[i].stopped
                      /\ (info[i].need_stop => info[i].stopped) =>
                           (info'[i].need_stop => info'[i].stopped)
                      /\ i # local_map => info'[i] = info[i]
  BY <1>1, <1>2 DEF InfoType
<1>6. TypeOK'
  BY <1>1, <1>4 DEF TypeOK, InfoType
<1>7. \A h \in Handler : HandlerOK(h)'
  BY <1>1 DEF HandlerOK
<1>8. MapOK' /\ ListedOK' /\ StopOK'
  <2>1. \A i \in Info : info'[i].peer_map = info[i].peer_map
    BY <1>5
  <2>2. MapOK' /\ ListedOK'
    BY <1>0, <2>1 DEF MapOK, ListedOK
  <2>3. \A i \in Info : info'[i].need_stop => info'[i].stopped
    BY <1>5 DEF StopOK
  <2> QED  BY <2>2, <2>3 DEF StopOK
<1>9. FreeOK'
  <2>1. InfosAlive(local_map, handler)' = InfosAlive(local_map, handler)
    BY <1>1 DEF InfosAlive
  <2>2. \A o \in Obj : o \in ObjsAlive(info', handler') <=> o \in ObjsAlive(info, handler)
    <3>1. \A i \in Info : info'[i].peer_map = info[i].peer_map
      BY <1>5
    <3>2. \A i \in Info, p \in Peer : info'[i].peer_map[p] = info[i].peer_map[p]
      BY <3>1
    <3> QED  BY <1>0, <3>2 DEF ObjsAlive
  <2>3. local_map \in InfosAlive(local_map, handler)
    BY DEF InfosAlive
  <2> QED  BY <1>1, <1>5, <2>1, <2>2, <2>3 DEF FreeOK
<1>10. CreatedOK'
  <2>1. \A i \in Info : info'[i].peer_map = info[i].peer_map
    BY <1>5
  <2>2. \A i \in Info : info[i].stopped => info'[i].stopped
    BY <1>5
  <2> QED  BY <1>0, <2>1, <2>2 DEF CreatedOK
<1>11. AstrayOK' /\ RemoteOK'
  BY <1>1, <1>2, <1>5 DEF AstrayOK, RemoteOK, Known
<1> QED  BY <1>6, <1>7, <1>8, <1>9, <1>10, <1>11

(***************************************************************************)
(* The info leaves the map; its peers, and those of threads that hold it,  *)
(* go astray.                                                              *)
(***************************************************************************)
LEMMA PeriodScheduleKeeps ==
  ASSUME IInv, PeriodSchedule PROVE IInv'
<1> USE DEF IInv, Objects
<1>1. /\ local_map # None /\ local_map' = None /\ UNCHANGED <<handler, remote>>
      /\ Keep(info, obj)
      /\ astray' = astray \cup
           {p \in Peer : info[local_map].peer_map[p] # None \/
                         \E h \in Handler : handler[h].peer = p /\ handler[h].info = local_map}
  BY DEF PeriodSchedule
<1>2. /\ info \in [Info -> InfoType] /\ obj \in [Obj -> ObjType] /\ local_map \in Info
  BY <1>1, Types
<1>3. /\ info' \in [Info -> InfoType] /\ obj' \in [Obj -> ObjType] /\ FreeOK'
      /\ \A i \in Info : info'[i] = info[i] \/ info'[i] = FreeInfo
      /\ \A i \in Info, p \in Peer : info'[i].peer_map[p] # None => info'[i] = info[i]
      /\ \A i \in Info, p \in Peer : info'[i].peer_map[p] \in Obj =>
           obj'[info'[i].peer_map[p]] = obj[info'[i].peer_map[p]]
      /\ \A h \in Handler : handler'[h].obj \in Obj =>
           obj'[handler'[h].obj] = obj[handler'[h].obj]
      /\ \A o \in Obj : obj'[o] = obj[o] \/ obj'[o] = FreeObj
  BY <1>1, <1>2, KeepFacts
<1>4. TypeOK'
  BY <1>1, <1>3 DEF TypeOK, InfoType, ObjType
<1>5. ASSUME NEW h \in Handler PROVE HandlerOK(h)'
  <2>1. handler[h].at \in Deep => obj'[handler[h].obj] = obj[handler[h].obj]
    BY <1>1, <1>3 DEF HandlerOK
  <2> QED  BY <1>1, <2>1 DEF HandlerOK, Deep
<1>6. ASSUME NEW i \in Info, NEW p \in Peer, info'[i].peer_map[p] # None
      PROVE  info'[i] = info[i] /\ obj'[info'[i].peer_map[p]] = obj[info[i].peer_map[p]]
  <2>1. info'[i].peer_map[p] \in Obj
    BY <1>3, <1>6 DEF InfoType
  <2> QED  BY <1>3, <1>6, <2>1
<1>7. MapOK'
  BY <1>6 DEF MapOK
<1>8. ListedOK'
  BY <1>3 DEF ListedOK, FreeObj, NewObj
<1>9. StopOK'
  BY <1>3 DEF StopOK, FreeInfo, NewInfo
<1>10. CreatedOK'
  BY <1>1, <1>6 DEF CreatedOK
\* Every thread that is not idle is with a peer that is astray.
<1>11. AstrayOK'
  <2> SUFFICES ASSUME NEW h \in Handler, handler[h].at # "idle", handler[h].peer \notin astray'
               PROVE  FALSE
    BY <1>1 DEF AstrayOK
  <2>1. handler[h].info = local_map
    BY <1>1 DEF AstrayOK
  <2>2. handler[h].peer \in Peer
    BY DEF HandlerOK
  <2> QED  BY <1>1, <2>1, <2>2
<1>12. RemoteOK'
  <2> SUFFICES ASSUME NEW p \in remote \ astray'
               PROVE  \E h \in Handler : handler'[h].peer = p /\ handler'[h].at = "set"
    BY <1>1 DEF RemoteOK
  <2>1. p \in Peer /\ p \in remote \ astray
    BY <1>1 DEF TypeOK
  <2>2. Known(p) = None
    BY <1>1, <2>1 DEF Known
  <2> QED  BY <1>1, <2>1, <2>2 DEF RemoteOK
<1> QED  BY <1>4, <1>5, <1>3, <1>7, <1>8, <1>9, <1>10, <1>11, <1>12

-----------------------------------------------------------------------------
LEMMA InitIInv == Init => IInv
<1> SUFFICES ASSUME Init PROVE IInv
  OBVIOUS
<1> USE DEF Init
<1>1. /\ \A i \in Info : info[i] = FreeInfo
      /\ \A o \in Obj : obj[o] = FreeObj
      /\ \A h \in Handler : handler[h] = Idle /\ handler[h].at = "idle"
      /\ \A i \in Info, p \in Peer : info[i].peer_map[p] = None
  BY DEF FreeInfo, NewInfo, Idle
<1>2. TypeOK
  BY FreeType, Types
<1>3. \A h \in Handler : HandlerOK(h)
  BY <1>1 DEF HandlerOK, Deep
<1>4. MapOK /\ FreeOK /\ CreatedOK /\ AstrayOK /\ RemoteOK
  BY <1>1 DEF MapOK, FreeOK, CreatedOK, AstrayOK, RemoteOK
<1>5. ListedOK /\ StopOK
  BY <1>1 DEF ListedOK, StopOK, FreeObj, NewObj, FreeInfo, NewInfo
<1> QED  BY <1>2, <1>3, <1>4, <1>5 DEF IInv, Objects

LEMMA NextIInv == IInv /\ [Next]_vars => IInv'
<1> SUFFICES ASSUME IInv, [Next]_vars PROVE IInv'
  OBVIOUS
<1>1. ASSUME NEW h \in Handler, UpdatePeer(h) PROVE IInv'
  BY <1>1, PreHandleInfoHashInfoKeeps, AddPeerKeeps, FindPeerKeeps, StopPeerKeeps, LeavesKeep,
     UpdateInfoKeeps, SetPeerRemoteKeeps, CountKeeps DEF UpdatePeer
<1>2. ASSUME NEW stop \in BOOLEAN, ControlByInfohash(stop) PROVE IInv'
  BY <1>2, ControlKeeps
<1>3. CASE PeriodSchedule
  BY <1>3, PeriodScheduleKeeps
<1>4. CASE UNCHANGED vars
  BY <1>4 DEF vars, IInv, Objects, TypeOK, HandlerOK, MapOK, FreeOK, InfosAlive, ObjsAlive,
              ListedOK, CreatedOK, StopOK, AstrayOK, RemoteOK, Known
<1> QED  BY <1>1, <1>2, <1>3, <1>4 DEF Next

LEMMA InvariantHolds == Spec => []IInv
  BY InitIInv, NextIInv, PTL DEF Spec

-----------------------------------------------------------------------------
(***************************************************************************)
(* PeerHandler's maps and objects keep their types, and remote_peer_count  *)
(* its width.                                                              *)
(***************************************************************************)
THEOREM TypeCorrect == Spec => []TypeOK
<1>1. IInv => TypeOK
  BY DEF IInv, Objects
<1> QED  BY <1>1, InvariantHolds, PTL

(***************************************************************************)
(* ChoosePeers never finds a peer that UpdateInfo has not been called for, *)
(* with any number of threads.                                             *)
(***************************************************************************)
THEOREM ChosenAlwaysInitialized == Spec => []ChosenIsInitialized
<1>1. IInv => ChosenIsInitialized
  BY DEF IInv, Objects, ListedOK, ChosenIsInitialized, Chosen
<1> QED  BY <1>1, InvariantHolds, PTL

(***************************************************************************)
(* ChoosePeers never finds a peer that has been erased from peer_map, but  *)
(* for those a thread is handling: the weak pointer has expired.           *)
(***************************************************************************)
THEOREM ChosenAlwaysKnown == Spec => []ChosenIsKnown
<1>1. ASSUME IInv, NEW o \in Obj, obj[o].listed, ~InFlight(obj[o].peer)
      PROVE  info[obj[o].info].peer_map[obj[o].peer] = o
  <2> USE <1>1 DEF IInv, Objects
  <2>1. o \in ObjsAlive(info, handler)
    BY <1>1 DEF FreeOK, FreeObj, NewObj
  <2>2. ASSUME NEW h \in Handler, handler[h].obj = o PROVE FALSE
    <3>1. handler[h].at \in Deep
      <4>1. o # None /\ Idle.obj = None
        BY NoneAssumption DEF Idle
      <4>2. handler[h] \in HandlerType
        BY Types
      <4>3. handler[h].at \in {"idle", "info", "peer", "updated", "set"}
        BY <4>2 DEF HandlerType
      <4>4. handler[h].at # "idle"
        BY <2>2, <4>1 DEF HandlerOK
      <4>5. handler[h].at # "info"
        BY <2>2, <4>1 DEF HandlerOK
      <4> QED  BY <4>3, <4>4, <4>5 DEF Deep
    <3> QED  BY <1>1, <2>2, <3>1 DEF HandlerOK, InFlight
  <2>3. PICK i \in Info, p \in Peer : o = info[i].peer_map[p]
    BY <2>1, <2>2 DEF ObjsAlive
  <2>4. info[i].peer_map[p] # None
    BY <2>3, NoneAssumption
  <2>5. obj[o].info = i /\ obj[o].peer = p
    BY <2>3, <2>4 DEF MapOK
  <2> QED  BY <2>3, <2>5
<1>2. IInv => ChosenIsKnown
  BY <1>1 DEF ChosenIsKnown, Chosen
<1> QED  BY <1>2, InvariantHolds, PTL

(***************************************************************************)
(* A peer that was answered is listed, or its creator is on its way to     *)
(* list it, or downloads were stopped once: whatever the order in which    *)
(* two threads come to a new peer.                                         *)
(***************************************************************************)
THEOREM KnownAlwaysListed == Spec => []KnownIsListed
<1>1. ASSUME IInv, NEW p \in Peer, Known(p) # None
      PROVE  \/ obj[Known(p)].listed
             \/ info[local_map].stopped
             \/ \E h \in Handler : handler[h].obj = Known(p) /\ handler[h].new
  <2>1. local_map \in Info /\ Known(p) = info[local_map].peer_map[p]
    BY <1>1 DEF Known, IInv, Objects, TypeOK
  <2> QED  BY <1>1, <2>1 DEF IInv, Objects, CreatedOK
<1>2. IInv => KnownIsListed
  BY <1>1 DEF KnownIsListed
<1> QED  BY <1>2, InvariantHolds, PTL

(***************************************************************************)
(* A peer of which no two announces were handled at a time is in redis     *)
(* only while it is known here and marked, or a thread is about to mark    *)
(* it.                                                                     *)
(***************************************************************************)
THEOREM RemoteAlwaysKnown == Spec => []RemoteIsKnown
<1>1. IInv => RemoteIsKnown
  BY DEF IInv, RemoteOK, RemoteIsKnown, InFlight
<1> QED  BY <1>1, InvariantHolds, PTL
=============================================================================
