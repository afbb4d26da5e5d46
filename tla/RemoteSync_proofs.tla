------------------------- MODULE RemoteSync_proofs -------------------------
(***************************************************************************)
(* Safety of RemoteSync for any number of threads and infohashes.          *)
(***************************************************************************)
EXTENDS RemoteSync, TLAPS

(***************************************************************************)
(* A thread has an infohash exactly while it works on it.                  *)
(***************************************************************************)
KeyWhileBusy ==
  \A s \in Syncer : syncer[s].key \in Infohash <=> syncer[s].at \in Busy

(***************************************************************************)
(* Nothing is stored that redis did not answer.                            *)
(***************************************************************************)
StoredIsAnswered == \A h \in Infohash : stored[h] =< answers[h]

\* The inductive invariant.
IInv ==
  /\ TypeOK
  /\ KeyWhileBusy
  /\ OneQueryPerInfohash
  /\ StoredIsAnswered
  /\ AnswersInOrder
  /\ NoQueryForgotten

-----------------------------------------------------------------------------
\* No infohash is queried at the start (InfoHashQueue is empty).
LEMMA InitIInv == Init => IInv
<1> SUFFICES ASSUME Init PROVE IInv
  OBVIOUS
<1> USE SyncerAssumption, AnswerAssumption DEF Init, Checking
<1>0. Checking \in [at : At, key : Infohash \cup {NoKey}, answer : 0 .. MaxAnswer]
  BY DEF At
<1>1. TypeOK
  BY <1>0 DEF TypeOK
<1>2. KeyWhileBusy /\ OneQueryPerInfohash
  BY DEF KeyWhileBusy, OneQueryPerInfohash, Busy
<1>3. StoredIsAnswered /\ AnswersInOrder
  BY DEF StoredIsAnswered, AnswersInOrder
<1>4. NoQueryForgotten
  BY DEF NoQueryForgotten
<1> QED
  BY <1>1, <1>2, <1>3, <1>4 DEF IInv

-----------------------------------------------------------------------------
(***************************************************************************)
(* One lemma per action.  First the actions of a thread under the mutex.   *)
(***************************************************************************)

\* A thread goes to sleep only while the flag is down.
LEMMA WaitIInv == ASSUME IInv, NEW s \in Syncer, Wait(s) PROVE IInv'
<1> USE SyncerAssumption, AnswerAssumption DEF IInv, Wait, Waiting
<1>1. TypeOK'
  BY DEF TypeOK, At
<1>2. KeyWhileBusy'
  BY DEF TypeOK, KeyWhileBusy, Busy
<1>3. OneQueryPerInfohash'
  BY DEF TypeOK, KeyWhileBusy, OneQueryPerInfohash, Busy
<1>4. StoredIsAnswered' /\ AnswersInOrder'
  BY DEF TypeOK, StoredIsAnswered, AnswersInOrder
<1>5. NoQueryForgotten'
  BY DEF TypeOK, NoQueryForgotten
<1> QED
  BY <1>1, <1>2, <1>3, <1>4, <1>5

\* An infohash that is taken was pending, so no other thread has it.
LEMMA TakeIInv ==
  ASSUME IInv, NEW s \in Syncer, NEW h \in Infohash, Take(s, h) PROVE IInv'
<1> USE SyncerAssumption, AnswerAssumption DEF IInv, Take
<1>1. TypeOK'
  BY DEF TypeOK, At
<1>2. KeyWhileBusy'
  BY DEF TypeOK, KeyWhileBusy, Busy
<1>3. OneQueryPerInfohash'
  BY DEF TypeOK, KeyWhileBusy, OneQueryPerInfohash, Busy
<1>4. StoredIsAnswered' /\ AnswersInOrder'
  BY DEF TypeOK, StoredIsAnswered, AnswersInOrder
<1>5. NoQueryForgotten'
  BY DEF TypeOK, NoQueryForgotten
<1> QED
  BY <1>1, <1>2, <1>3, <1>4, <1>5

\* The flag is cleared only when nothing is pending.
LEMMA NothingToTakeIInv ==
  ASSUME IInv, NEW s \in Syncer, NothingToTake(s) PROVE IInv'
<1> USE DEF IInv, NothingToTake
<1>0. TypeOK'
  BY DEF TypeOK
<1>1. KeyWhileBusy' /\ OneQueryPerInfohash'
  BY DEF KeyWhileBusy, OneQueryPerInfohash
<1>2. StoredIsAnswered' /\ AnswersInOrder'
  BY DEF StoredIsAnswered, AnswersInOrder
<1>3. NoQueryForgotten'
  BY DEF NoQueryForgotten
<1> QED
  BY <1>0, <1>1, <1>2, <1>3

\* A thread woken for no reason only tests the flag again.
LEMMA SpuriousWakeupIInv ==
  ASSUME IInv, NEW s \in Syncer, SpuriousWakeup(s) PROVE IInv'
<1> USE SyncerAssumption, AnswerAssumption DEF IInv, SpuriousWakeup, Checking
<1>1. TypeOK'
  BY DEF TypeOK, At
<1>2. KeyWhileBusy'
  BY DEF TypeOK, KeyWhileBusy, Busy
<1>3. OneQueryPerInfohash'
  BY DEF TypeOK, KeyWhileBusy, OneQueryPerInfohash, Busy
<1>4. StoredIsAnswered' /\ AnswersInOrder'
  BY DEF TypeOK, StoredIsAnswered, AnswersInOrder
<1>5. NoQueryForgotten'
  BY DEF TypeOK, NoQueryForgotten
<1> QED
  BY <1>1, <1>2, <1>3, <1>4, <1>5

\* The infohash that leaves query_map leaves the hands of its only thread.
LEMMA EraseIInv == ASSUME IInv, NEW s \in Syncer, Erase(s) PROVE IInv'
<1> USE SyncerAssumption, AnswerAssumption DEF IInv, Erase, Checking
<1>0. syncer[s].key \in Infohash
  BY DEF KeyWhileBusy, Busy
<1>1. TypeOK'
  BY <1>0 DEF TypeOK, At
<1>2. KeyWhileBusy'
  BY DEF TypeOK, KeyWhileBusy, Busy
<1>3. OneQueryPerInfohash'
  BY <1>0 DEF TypeOK, OneQueryPerInfohash
<1>4. StoredIsAnswered' /\ AnswersInOrder'
  BY DEF TypeOK, StoredIsAnswered, AnswersInOrder
<1>5. NoQueryForgotten'
  BY <1>0 DEF TypeOK, NoQueryForgotten
<1> QED
  BY <1>1, <1>2, <1>3, <1>4, <1>5

-----------------------------------------------------------------------------
(***************************************************************************)
(* The actions of a thread outside the mutex: its infohash is its own.     *)
(***************************************************************************)

\* A new answer is newer than all that was stored for its infohash.
LEMMA AnswerIInv == ASSUME IInv, NEW s \in Syncer, Answer(s) PROVE IInv'
<1> USE SyncerAssumption, AnswerAssumption DEF IInv, Answer
<1>0. syncer[s].key \in Infohash
  BY DEF KeyWhileBusy, Busy
<1>1. TypeOK'
  BY <1>0 DEF TypeOK, At
<1>2. KeyWhileBusy'
  BY <1>0 DEF TypeOK, KeyWhileBusy, Busy
<1>3. OneQueryPerInfohash'
  BY <1>0 DEF TypeOK, OneQueryPerInfohash
<1>4. StoredIsAnswered' /\ AnswersInOrder'
  BY <1>0 DEF TypeOK, OneQueryPerInfohash, StoredIsAnswered, AnswersInOrder
<1>5. NoQueryForgotten'
  BY DEF TypeOK, NoQueryForgotten
<1> QED
  BY <1>1, <1>2, <1>3, <1>4, <1>5

\* A failed query keeps its infohash until Erase.
LEMMA NoAnswerIInv == ASSUME IInv, NEW s \in Syncer, NoAnswer(s) PROVE IInv'
<1> USE SyncerAssumption, AnswerAssumption DEF IInv, NoAnswer
<1>1. TypeOK'
  BY DEF TypeOK, At
<1>2. KeyWhileBusy'
  BY DEF TypeOK, KeyWhileBusy, Busy
<1>3. OneQueryPerInfohash'
  BY DEF TypeOK, OneQueryPerInfohash
<1>4. StoredIsAnswered' /\ AnswersInOrder'
  BY DEF TypeOK, StoredIsAnswered, AnswersInOrder
<1>5. NoQueryForgotten'
  BY DEF TypeOK, NoQueryForgotten
<1> QED
  BY <1>1, <1>2, <1>3, <1>4, <1>5

\* No other thread is about to store an answer for this infohash.
LEMMA StoreIInv == ASSUME IInv, NEW s \in Syncer, Store(s) PROVE IInv'
<1> USE SyncerAssumption, AnswerAssumption DEF IInv, Store
<1>0. syncer[s].key \in Infohash
  BY DEF KeyWhileBusy, Busy
<1>1. TypeOK'
  BY <1>0 DEF TypeOK, At
<1>2. KeyWhileBusy'
  BY <1>0 DEF TypeOK, KeyWhileBusy, Busy
<1>3. OneQueryPerInfohash'
  BY <1>0 DEF TypeOK, OneQueryPerInfohash
<1>4. StoredIsAnswered'
  BY <1>0 DEF TypeOK, StoredIsAnswered, AnswersInOrder
<1>5. AnswersInOrder'
  BY <1>0 DEF TypeOK, OneQueryPerInfohash, AnswersInOrder
<1>6. NoQueryForgotten'
  BY DEF TypeOK, NoQueryForgotten
<1> QED
  BY <1>1, <1>2, <1>3, <1>4, <1>5, <1>6

-----------------------------------------------------------------------------
\* notify_one moves at most one waiting thread, and leaves one awake.
LEMMA NotifyOneEffect ==
  ASSUME IInv, NotifyOne
  PROVE  /\ syncer' \in [Syncer -> [at : At, key : Infohash \cup {NoKey}, answer : 0 .. MaxAnswer]]
         /\ \A s \in Syncer : syncer'[s] = syncer[s] \/ syncer'[s] = Checking
         /\ \A s \in Syncer : syncer'[s].key = syncer[s].key
         /\ \E s \in Syncer : syncer'[s].at # "waiting"
<1> USE SyncerAssumption, AnswerAssumption DEF IInv, TypeOK, At, KeyWhileBusy, Busy, Checking
<1>1. CASE \E s \in Syncer : syncer[s].at = "waiting" /\ syncer' = [syncer EXCEPT ![s] = Checking]
  <2>1. PICK s \in Syncer : syncer[s].at = "waiting" /\ syncer' = [syncer EXCEPT ![s] = Checking]
    BY <1>1
  <2>2. syncer[s].key = NoKey
    BY <2>1
  <2> QED
    BY <2>1, <2>2
<1>2. CASE (\A s \in Syncer : syncer[s].at # "waiting") /\ UNCHANGED syncer
  BY <1>2
<1> QED
  BY <1>1, <1>2 DEF NotifyOne

\* An announce raises the flag and wakes a thread for a pending infohash.
LEMMA AddNeedInfoHashIInv ==
  ASSUME IInv, NEW h \in Infohash, AddNeedInfoHash(h) PROVE IInv'
<1> USE SyncerAssumption, AnswerAssumption DEF IInv, AddNeedInfoHash
<1>1. CASE query_map[h] = "querying"
  <2>1. UNCHANGED vars
    BY <1>1 DEF TypeOK, vars
  <2> QED
    BY <2>1 DEF vars, TypeOK, KeyWhileBusy, OneQueryPerInfohash, StoredIsAnswered,
       AnswersInOrder, NoQueryForgotten
<1>2. CASE query_map[h] # "querying"
  <2>1. have_query' /\ NotifyOne
    BY <1>2
  <2>2. /\ syncer' \in [Syncer -> [at : At, key : Infohash \cup {NoKey}, answer : 0 .. MaxAnswer]]
        /\ \A s \in Syncer : syncer'[s] = syncer[s] \/ syncer'[s] = Checking
        /\ \A s \in Syncer : syncer'[s].key = syncer[s].key
        /\ \E s \in Syncer : syncer'[s].at # "waiting"
    BY <2>1, NotifyOneEffect
  <2>3. TypeOK'
    BY <1>2, <2>2 DEF TypeOK
  <2>4. KeyWhileBusy'
    BY <2>2 DEF KeyWhileBusy, Busy, Checking
  <2>5. OneQueryPerInfohash'
    BY <1>2, <2>2 DEF TypeOK, OneQueryPerInfohash
  <2>6. StoredIsAnswered' /\ AnswersInOrder'
    BY <2>2 DEF StoredIsAnswered, AnswersInOrder, Checking
  <2>7. NoQueryForgotten'
    BY <2>1, <2>2 DEF NoQueryForgotten
  <2> QED
    BY <2>3, <2>4, <2>5, <2>6, <2>7
<1> QED
  BY <1>1, <1>2

\* The garbage cleaner touches the remote map only.
LEMMA PeriodScheduleIInv ==
  ASSUME IInv, NEW h \in Infohash, PeriodSchedule(h) PROVE IInv'
BY AnswerAssumption DEF IInv, PeriodSchedule, TypeOK, KeyWhileBusy, OneQueryPerInfohash,
   StoredIsAnswered, AnswersInOrder, NoQueryForgotten

-----------------------------------------------------------------------------
\* Every step of the queue, the threads and the cleaner preserves IInv.
LEMMA NextIInv == IInv /\ [Next]_vars => IInv'
<1> SUFFICES ASSUME IInv, [Next]_vars PROVE IInv'
  OBVIOUS
<1>1. ASSUME NEW s \in Syncer, ThreadFunc(s) PROVE IInv'
  BY <1>1, WaitIInv, NothingToTakeIInv, TakeIInv, AnswerIInv, NoAnswerIInv, StoreIInv, EraseIInv
     DEF ThreadFunc
<1>2. ASSUME NEW s \in Syncer, SpuriousWakeup(s) PROVE IInv'
  BY <1>2, SpuriousWakeupIInv
<1>3. ASSUME NEW h \in Infohash, AddNeedInfoHash(h) PROVE IInv'
  BY <1>3, AddNeedInfoHashIInv
<1>4. ASSUME NEW h \in Infohash, PeriodSchedule(h) PROVE IInv'
  BY <1>4, PeriodScheduleIInv
<1>5. CASE UNCHANGED vars
  BY <1>5 DEF IInv, vars, TypeOK, KeyWhileBusy, OneQueryPerInfohash, StoredIsAnswered,
     AnswersInOrder, NoQueryForgotten
<1> QED
  BY <1>1, <1>2, <1>3, <1>4, <1>5 DEF Next

\* IInv holds in every reachable state of the syncronizer.
THEOREM Invariance == Spec => []IInv
BY InitIInv, NextIInv, PTL DEF Spec

\* The queue, the flag, the threads and the map keep their types.
THEOREM TypeCorrect == Spec => []TypeOK
<1>1. IInv => TypeOK
  BY DEF IInv
<1> QED
  BY <1>1, Invariance, PTL

\* An infohash marked true in query_map is with exactly one thread.
THEOREM QueryExclusive == Spec => []OneQueryPerInfohash
<1>1. IInv => OneQueryPerInfohash
  BY DEF IInv
<1> QED
  BY <1>1, Invariance, PTL

\* notify_one is enough: a pending infohash always has a thread awake.
THEOREM NoLostWakeup == Spec => []NoQueryForgotten
<1>1. IInv => NoQueryForgotten
  BY DEF IInv
<1> QED
  BY <1>1, Invariance, PTL

\* UpdateInfoHashMapByReply never replaces an answer by an older one.
THEOREM StoresInOrder == Spec => []AnswersInOrder
<1>1. IInv => AnswersInOrder
  BY DEF IInv
<1> QED
  BY <1>1, Invariance, PTL

-----------------------------------------------------------------------------
(***************************************************************************)
(* RemoteSync implements QueryTable.  The stage of an infohash is where    *)
(* the one thread is that has it.                                          *)
(***************************************************************************)
LEMMA StageOf ==
  IInv => \A s \in Syncer : syncer[s].key \in Infohash =>
            /\ query_map[syncer[s].key] = "querying"
            /\ Stage(syncer[s].key) = syncer[s].at
<1> SUFFICES ASSUME IInv, NEW s \in Syncer, syncer[s].key \in Infohash
             PROVE  /\ query_map[syncer[s].key] = "querying"
                    /\ Stage(syncer[s].key) = syncer[s].at
  OBVIOUS
<1> DEFINE h == syncer[s].key
<1>1. query_map[h] = "querying" /\ \A u \in Syncer : syncer[u].key = h => u = s
  BY DEF IInv, OneQueryPerInfohash
<1>2. syncer[s].at \in Busy
  BY DEF IInv, KeyWhileBusy
<1>3. \A at \in Busy : (\E u \in Syncer : syncer[u].key = h /\ syncer[u].at = at)
                         <=> at = syncer[s].at
  BY <1>1
<1>4. (CHOOSE at \in Busy : \E u \in Syncer : syncer[u].key = h /\ syncer[u].at = at)
        = syncer[s].at
  BY <1>2, <1>3
<1> QED  BY <1>1, <1>4 DEF Stage

LEMMA NextStageOf ==
  (IInv => \A s \in Syncer : syncer[s].key \in Infohash =>
             /\ query_map[syncer[s].key] = "querying"
             /\ Stage(syncer[s].key) = syncer[s].at)'
BY StageOf, PTL

\* A step that leaves an infohash and its thread alone leaves its stage alone.
LEMMA StageKept ==
  ASSUME IInv, IInv', NEW h \in Infohash, query_map'[h] = query_map[h],
         \A s \in Syncer : syncer[s].key = h =>
           syncer'[s].key = h /\ syncer'[s].at = syncer[s].at
  PROVE  Stage(h)' = Stage(h)
<1>1. CASE query_map[h] = "querying"
  <2>1. PICK s \in Syncer : syncer[s].key = h
    BY <1>1 DEF IInv, OneQueryPerInfohash
  <2>2. Stage(h) = syncer[s].at
    BY <2>1, StageOf
  <2>3. Stage(h)' = syncer'[s].at
    BY <2>1, NextStageOf
  <2> QED  BY <2>1, <2>2, <2>3
<1>2. CASE query_map[h] # "querying"
  BY <1>2 DEF Stage
<1> QED  BY <1>1, <1>2

\* All stages stay, or that of h alone changes.
LEMMA StagesKept ==
  ASSUME IInv, IInv', \A h \in Infohash : Stage(h)' = Stage(h)
  PROVE  Stages' = Stages
BY DEF Stages

LEMMA StageMoves ==
  ASSUME NEW h \in Infohash, NEW from, NEW to, Stage(h) = from, Stage(h)' = to,
         \A g \in Infohash : g # h => Stage(g)' = Stage(g)
  PROVE  Table!Moves(h, from, to)
<1>1. Stages' = [Stages EXCEPT ![h] = to]
  BY DEF Stages
<1>2. Stages[h] = from
  BY DEF Stages
<1> QED  BY <1>1, <1>2 DEF Table!Moves, Stages

-----------------------------------------------------------------------------
\* What each step of a thread, an announce or the cleaner is to the table.
Allowed == [Table!Next]_(Table!vars)

\* A thread that works on h moves the stage of h and no other.
LEMMA OwnerMoves ==
  ASSUME IInv, IInv', NEW s \in Syncer, NEW h \in Infohash, NEW from, Stage(h) = from,
         syncer[s].key \in {h, NoKey}, syncer'[s].key = h,
         \A u \in Syncer : u # s => syncer'[u] = syncer[u],
         \A g \in Infohash : g # h => query_map'[g] = query_map[g]
  PROVE  Table!Moves(h, from, syncer'[s].at)
<1>1. Stage(h)' = syncer'[s].at
  BY NextStageOf
<1>2. ASSUME NEW g \in Infohash, g # h PROVE Stage(g)' = Stage(g)
  <2>1. \A u \in Syncer : syncer[u].key = g => syncer'[u] = syncer[u]
    BY <1>2, SyncerAssumption
  <2> QED  BY <1>2, <2>1, StageKept
<1> QED  BY <1>1, <1>2, StageMoves

LEMMA TakeAllowed ==
  ASSUME IInv, IInv', NEW s \in Syncer, NEW h \in Infohash, Take(s, h) PROVE Allowed
<1>1. Stage(h) = "pending"
  BY DEF Take, Stage
<1>2. syncer[s].key = NoKey
  BY DEF Take, IInv, TypeOK, KeyWhileBusy, Busy
<1>3. syncer'[s].key = h /\ syncer'[s].at = "query"
  BY DEF Take, IInv, TypeOK
<1>4. /\ \A u \in Syncer : u # s => syncer'[u] = syncer[u]
      /\ \A g \in Infohash : g # h => query_map'[g] = query_map[g]
  BY DEF Take, IInv, TypeOK
<1>5. Table!Moves(h, "pending", "query")
  BY <1>1, <1>2, <1>3, <1>4, OwnerMoves
<1>6. Table!Begin(h)
  BY <1>5 DEF Take, Table!Begin
<1> QED  BY <1>6 DEF Allowed, Table!Next

LEMMA AnswerAllowed == ASSUME IInv, IInv', NEW s \in Syncer, Answer(s) PROVE Allowed
<1> DEFINE h == syncer[s].key
<1>0. h \in Infohash
  BY DEF Answer, IInv, KeyWhileBusy, Busy
<1>1. Stage(h) = "query"
  BY <1>0, StageOf DEF Answer
<1>2. syncer'[s].key = h /\ syncer'[s].at = "store"
  BY DEF Answer, IInv, TypeOK
<1>3. /\ \A u \in Syncer : u # s => syncer'[u] = syncer[u]
      /\ query_map' = query_map
  BY DEF Answer, IInv, TypeOK
<1>4. Table!Moves(h, "query", "store")
  BY <1>0, <1>1, <1>2, <1>3, OwnerMoves
<1>5. Table!Answer(h)
  BY <1>4 DEF Answer, Table!Answer
<1> QED  BY <1>0, <1>5 DEF Allowed, Table!Next

LEMMA NoAnswerAllowed == ASSUME IInv, IInv', NEW s \in Syncer, NoAnswer(s) PROVE Allowed
<1> DEFINE h == syncer[s].key
<1>0. h \in Infohash
  BY DEF NoAnswer, IInv, KeyWhileBusy, Busy
<1>1. Stage(h) = "query"
  BY <1>0, StageOf DEF NoAnswer
<1>2. syncer'[s].key = h /\ syncer'[s].at = "erase"
  BY DEF NoAnswer, IInv, TypeOK
<1>3. /\ \A u \in Syncer : u # s => syncer'[u] = syncer[u]
      /\ query_map' = query_map
  BY DEF NoAnswer, IInv, TypeOK
<1>4. Table!Moves(h, "query", "erase")
  BY <1>0, <1>1, <1>2, <1>3, OwnerMoves
<1>5. Table!Fail(h)
  BY <1>4 DEF NoAnswer, Table!Fail
<1> QED  BY <1>0, <1>5 DEF Allowed, Table!Next

\* What is stored is the latest answer: AnswersInOrder.
LEMMA StoreAllowed == ASSUME IInv, IInv', NEW s \in Syncer, Store(s) PROVE Allowed
<1> DEFINE h == syncer[s].key
<1>0. h \in Infohash
  BY DEF Store, IInv, KeyWhileBusy, Busy
<1>1. Stage(h) = "store"
  BY <1>0, StageOf DEF Store
<1>2. syncer'[s].key = h /\ syncer'[s].at = "erase"
  BY DEF Store, IInv, TypeOK
<1>3. /\ \A u \in Syncer : u # s => syncer'[u] = syncer[u]
      /\ query_map' = query_map
  BY DEF Store, IInv, TypeOK
<1>4. Table!Moves(h, "store", "erase")
  BY <1>0, <1>1, <1>2, <1>3, OwnerMoves
<1>5. remote_map' = [remote_map EXCEPT ![h] = answers[h]] /\ answers' = answers
  BY DEF Store, IInv, AnswersInOrder
<1>6. Table!Store(h)
  BY <1>4, <1>5 DEF Table!Store
<1> QED  BY <1>0, <1>6 DEF Allowed, Table!Next

LEMMA EraseAllowed == ASSUME IInv, IInv', NEW s \in Syncer, Erase(s) PROVE Allowed
<1>0. PICK h \in Infohash : h = syncer[s].key
  BY DEF Erase, IInv, KeyWhileBusy, Busy
<1>1. Stage(h) = "erase"
  BY <1>0, StageOf DEF Erase
<1>2. Stage(h)' = "none"
  BY <1>0 DEF Erase, IInv, TypeOK, Stage
<1>3. ASSUME NEW g \in Infohash, g # h PROVE Stage(g)' = Stage(g)
  <2>1. query_map'[g] = query_map[g]
    BY <1>0, <1>3 DEF Erase, IInv, TypeOK
  <2>2. \A u \in Syncer : syncer[u].key = g => syncer'[u] = syncer[u]
    BY <1>0, <1>3 DEF Erase, IInv, TypeOK
  <2> QED  BY <2>1, <2>2, StageKept
<1>4. Table!Moves(h, "erase", "none")
  BY <1>1, <1>2, <1>3, StageMoves
<1>5. Table!End(h)
  BY <1>0, <1>4 DEF Erase, Table!End
<1> QED  BY <1>0, <1>5 DEF Allowed, Table!Next

\* An infohash that is pending or being queried is not asked for again.
LEMMA AddNeedInfoHashAllowed ==
  ASSUME IInv, IInv', NEW h \in Infohash, AddNeedInfoHash(h) PROVE Allowed
<1>1. \A s \in Syncer : syncer[s].key \in Infohash => syncer'[s] = syncer[s]
  <2>1. CASE query_map[h] = "querying"
    BY <2>1 DEF AddNeedInfoHash
  <2>2. CASE query_map[h] # "querying"
    <3>1. \A s \in Syncer : syncer[s].key \in Infohash => syncer[s].at # "waiting"
      BY DEF IInv, KeyWhileBusy, Busy
    <3> QED  BY <2>2, <3>1 DEF AddNeedInfoHash, NotifyOne, IInv, TypeOK
  <2> QED  BY <2>1, <2>2
<1>2. \A g \in Infohash : g # h => query_map'[g] = query_map[g]
  BY DEF AddNeedInfoHash, IInv, TypeOK
<1>3. ASSUME NEW g \in Infohash, query_map'[g] = query_map[g] PROVE Stage(g)' = Stage(g)
  BY <1>1, <1>3, StageKept
<1>4. CASE query_map[h] = "none"
  <2>1. Stage(h) = "none" /\ Stage(h)' = "pending"
    BY <1>4 DEF AddNeedInfoHash, IInv, TypeOK, Stage
  <2>2. Table!Moves(h, "none", "pending")
    BY <1>2, <1>3, <2>1, StageMoves
  <2>3. Table!Ask(h)
    BY <2>2 DEF AddNeedInfoHash, Table!Ask
  <2> QED  BY <2>3 DEF Allowed, Table!Next
<1>5. CASE query_map[h] # "none"
  <2>1. query_map'[h] = query_map[h]
    BY <1>5 DEF AddNeedInfoHash, IInv, TypeOK
  <2>2. Stages' = Stages
    BY <1>2, <1>3, <2>1, StagesKept
  <2> QED  BY <2>2 DEF AddNeedInfoHash, Allowed, Table!vars
<1> QED  BY <1>4, <1>5

LEMMA PeriodScheduleAllowed ==
  ASSUME IInv, IInv', NEW h \in Infohash, PeriodSchedule(h) PROVE Allowed
<1>1. \A g \in Infohash : Stage(g)' = Stage(g)
  BY StageKept DEF PeriodSchedule
<1>2. Stages' = Stages
  BY <1>1, StagesKept
<1>3. Table!Expire(h)
  BY <1>2 DEF PeriodSchedule, Table!Expire
<1> QED  BY <1>3 DEF Allowed, Table!Next

\* Waiting, waking and clearing the flag are nothing to the table.
LEMMA HiddenAllowed ==
  ASSUME IInv, IInv', UNCHANGED <<query_map, remote_map, answers>>,
         \A s \in Syncer : syncer[s].key \in Infohash => syncer'[s] = syncer[s]
  PROVE  Allowed
<1>1. \A g \in Infohash : Stage(g)' = Stage(g)
  BY StageKept
<1>2. Stages' = Stages
  BY <1>1, StagesKept
<1> QED  BY <1>2 DEF Allowed, Table!vars

LEMMA StepAllowed == IInv /\ IInv' /\ [Next]_vars => Allowed
<1> SUFFICES ASSUME IInv, IInv', [Next]_vars PROVE Allowed
  OBVIOUS
<1>1. ASSUME NEW s \in Syncer, Wait(s) \/ SpuriousWakeup(s) PROVE Allowed
  <2>1. syncer[s].key \notin Infohash
    BY <1>1 DEF Wait, SpuriousWakeup, IInv, KeyWhileBusy, Busy
  <2>2. \A u \in Syncer : u # s => syncer'[u] = syncer[u]
    BY <1>1 DEF Wait, SpuriousWakeup, IInv, TypeOK
  <2> QED  BY <1>1, <2>1, <2>2, HiddenAllowed DEF Wait, SpuriousWakeup
<1>2. ASSUME NEW s \in Syncer, NothingToTake(s) PROVE Allowed
  BY <1>2, HiddenAllowed DEF NothingToTake
<1>3. ASSUME NEW s \in Syncer, ThreadFunc(s) PROVE Allowed
  BY <1>1, <1>2, <1>3, TakeAllowed, AnswerAllowed, NoAnswerAllowed, StoreAllowed, EraseAllowed
     DEF ThreadFunc
<1>4. CASE UNCHANGED vars
  BY <1>4, HiddenAllowed DEF vars
<1> QED
  BY <1>1, <1>3, <1>4, AddNeedInfoHashAllowed, PeriodScheduleAllowed DEF Next

(***************************************************************************)
(* However many threads share query_map, and wherever they are between its *)
(* mutex and that of the remote map, each infohash sees one query after    *)
(* the other, and its entry the latest answer only.                        *)
(***************************************************************************)
THEOREM SyncImplementsQueryTable == Spec => ImplementsQueryTable
<1>1. Init => Table!Init
  BY DEF Init, Table!Init, Stages, Stage
<1>2. IInv /\ IInv' /\ [Next]_vars => [Table!Next]_(Table!vars)
  BY StepAllowed DEF Allowed
<1> QED
  BY <1>1, <1>2, Invariance, PTL DEF Spec, ImplementsQueryTable, Table!Spec
=============================================================================
