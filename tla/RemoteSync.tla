----------------------------- MODULE RemoteSync -----------------------------
(***************************************************************************)
(* How a tracker learns the peers of other trackers                        *)
(* (gko-tracker-src/src/RemotePeersSyncronizer.cpp, PeerHandler.cpp).  An  *)
(* announce that finds no seed puts its infohash in info_hash_queue_;      *)
(* synchronizer threads take infohashes from there, ask redis, and replace *)
(* the entry of remote_info_hash_map_ with what redis answered.  The       *)
(* garbage cleaner erases entries of the same map.                         *)
(*                                                                         *)
(* MAX_HANDLE_INFO_HASHS is 1: a thread takes one infohash at a time.      *)
(***************************************************************************)
EXTENDS Integers

CONSTANTS
  Syncer,    \* the synchronizer threads
  Infohash,  \* infohashes clients announce
  NoKey,     \* the infohash of a thread that has none
  MaxAnswer  \* bound: answers redis gives for one infohash

ASSUME SyncerAssumption == Syncer # {} /\ NoKey \notin Infohash
ASSUME AnswerAssumption == MaxAnswer \in Nat

VARIABLES
  query_map,   \* per infohash: "none", "pending" (false) or "querying" (true)
  have_query,  \* the flag the condition variable is about
  syncer,      \* what each synchronizer does, for which infohash and answer
  remote_map,  \* the answer remote_info_hash_map_ holds, 0 for no entry
  answers,     \* history: answers redis has given for an infohash
  stored       \* history: the latest answer ever stored for an infohash

vars == <<query_map, have_query, syncer, remote_map, answers, stored>>

(***************************************************************************)
(* "check": about to lock the mutex and test have_query; "waiting": in     *)
(* cond.wait; "query": in ExecuteCommand; "store": has an answer to put in *)
(* the map; "erase": about to erase its infohash from query_map.           *)
(***************************************************************************)
At == {"check", "waiting", "query", "store", "erase"}
Busy == {"query", "store", "erase"}
Checking == [at |-> "check", key |-> NoKey, answer |-> 0]
Waiting == [at |-> "waiting", key |-> NoKey, answer |-> 0]

Init ==
  /\ query_map = [h \in Infohash |-> "none"]
  /\ have_query = FALSE
  /\ syncer = [s \in Syncer |-> Checking]
  /\ remote_map = [h \in Infohash |-> 0]
  /\ answers = [h \in Infohash |-> 0]
  /\ stored = [h \in Infohash |-> 0]

-----------------------------------------------------------------------------
\* cond.notify_one: one waiting thread, if there is any, goes on.
NotifyOne ==
  \/ \E s \in Syncer : syncer[s].at = "waiting" /\ syncer' = [syncer EXCEPT ![s] = Checking]
  \/ (\A s \in Syncer : syncer[s].at # "waiting") /\ UNCHANGED syncer

\* Mutant: no thread is notified.
AddNeedInfoHashSilently(h) ==
  /\ query_map' = [query_map EXCEPT ![h] = IF @ = "none" THEN "pending" ELSE @]
  /\ have_query' = (have_query \/ query_map[h] # "querying")
  /\ UNCHANGED <<syncer, remote_map, answers, stored>>

(***************************************************************************)
(* PeerHandler::AddNeedInfoHash, under the mutex of the queue.  An         *)
(* infohash that is being queried neither changes nor notifies.            *)
(***************************************************************************)
AddNeedInfoHash(h) ==
  /\ query_map' = [query_map EXCEPT ![h] = IF @ = "none" THEN "pending" ELSE @]
  /\ IF query_map[h] = "querying"
       THEN UNCHANGED <<have_query, syncer>>
       ELSE have_query' = TRUE /\ NotifyOne
  /\ UNCHANGED <<remote_map, answers, stored>>

(***************************************************************************)
(* ThreadFunc, the critical section that looks for work.                   *)
(***************************************************************************)
Wait(s) ==
  /\ syncer[s].at = "check" /\ ~have_query
  /\ syncer' = [syncer EXCEPT ![s] = Waiting]
  /\ UNCHANGED <<query_map, have_query, remote_map, answers, stored>>

\* Mutant: the flag is cleared with the first infohash taken.
TakeClearing(s, h) ==
  /\ syncer[s].at = "check" /\ have_query
  /\ query_map[h] = "pending"
  /\ query_map' = [query_map EXCEPT ![h] = "querying"]
  /\ have_query' = FALSE
  /\ syncer' = [syncer EXCEPT ![s] = [at |-> "query", key |-> h, answer |-> 0]]
  /\ UNCHANGED <<remote_map, answers, stored>>

\* Any infohash that is not being queried may be the first in query_map.
Take(s, h) ==
  /\ syncer[s].at = "check" /\ have_query
  /\ query_map[h] = "pending"
  /\ query_map' = [query_map EXCEPT ![h] = "querying"]
  /\ syncer' = [syncer EXCEPT ![s] = [at |-> "query", key |-> h, answer |-> 0]]
  /\ UNCHANGED <<have_query, remote_map, answers, stored>>

\* Nothing left to take: the flag is cleared and the loop starts again.
NothingToTake(s) ==
  /\ syncer[s].at = "check" /\ have_query
  /\ \A h \in Infohash : query_map[h] # "pending"
  /\ have_query' = FALSE
  /\ UNCHANGED <<query_map, syncer, remote_map, answers, stored>>

\* boost::condition_variable may wake a thread that nobody notified.
SpuriousWakeup(s) ==
  /\ syncer[s].at = "waiting"
  /\ syncer' = [syncer EXCEPT ![s] = Checking]
  /\ UNCHANGED <<query_map, have_query, remote_map, answers, stored>>

(***************************************************************************)
(* ThreadFunc, outside the mutex.  ExecuteCommand asks the master, then    *)
(* the slave; without a usable reply the map stays as it is.               *)
(***************************************************************************)
Answer(s) ==
  LET h == syncer[s].key IN
  /\ syncer[s].at = "query" /\ answers[h] < MaxAnswer
  /\ answers' = [answers EXCEPT ![h] = @ + 1]
  /\ syncer' = [syncer EXCEPT ![s] = [at |-> "store", key |-> h, answer |-> answers[h] + 1]]
  /\ UNCHANGED <<query_map, have_query, remote_map, stored>>

\* Mutant: a failed query returns to the loop without erasing its infohash.
NoAnswerContinues(s) ==
  /\ syncer[s].at = "query"
  /\ syncer' = [syncer EXCEPT ![s] = Checking]
  /\ UNCHANGED <<query_map, have_query, remote_map, answers, stored>>

NoAnswer(s) ==
  /\ syncer[s].at = "query"
  /\ syncer' = [syncer EXCEPT ![s].at = "erase"]
  /\ UNCHANGED <<query_map, have_query, remote_map, answers, stored>>

\* Mutant: the infohash leaves query_map before its answer is in the map.
StoreLate(s) ==
  LET h == syncer[s].key IN
  /\ syncer[s].at = "store"
  /\ \/ /\ query_map[h] = "querying"
        /\ query_map' = [query_map EXCEPT ![h] = "none"]
        /\ UNCHANGED <<syncer, remote_map, stored>>
     \/ /\ remote_map' = [remote_map EXCEPT ![h] = syncer[s].answer]
        /\ stored' = [stored EXCEPT ![h] = syncer[s].answer]
        /\ syncer' = [syncer EXCEPT ![s] = [at |-> "erase", key |-> h, answer |-> 0]]
        /\ UNCHANGED query_map
  /\ UNCHANGED <<have_query, answers>>

\* UpdateInfoHashMapByReply, under the lock of the remote map.
Store(s) ==
  LET h == syncer[s].key IN
  /\ syncer[s].at = "store"
  /\ remote_map' = [remote_map EXCEPT ![h] = syncer[s].answer]
  /\ stored' = [stored EXCEPT ![h] = syncer[s].answer]
  /\ syncer' = [syncer EXCEPT ![s] = [at |-> "erase", key |-> h, answer |-> 0]]
  /\ UNCHANGED <<query_map, have_query, answers>>

\* The infohash leaves query_map, under the mutex of the queue.
Erase(s) ==
  /\ syncer[s].at = "erase"
  /\ query_map' = [query_map EXCEPT ![syncer[s].key] = "none"]
  /\ syncer' = [syncer EXCEPT ![s] = Checking]
  /\ UNCHANGED <<have_query, remote_map, answers, stored>>

(***************************************************************************)
(* InfoHashGarbageCleaner::PeriodSchedule, the part about this map: at any *)
(* time the local entry of h may have expired.                             *)
(***************************************************************************)
PeriodSchedule(h) ==
  /\ remote_map[h] # 0
  /\ remote_map' = [remote_map EXCEPT ![h] = 0]
  /\ UNCHANGED <<query_map, have_query, syncer, answers, stored>>

-----------------------------------------------------------------------------
\* One pass through the loop of ThreadFunc.
ThreadFunc(s) ==
  \/ Wait(s) \/ NothingToTake(s) \/ (\E h \in Infohash : Take(s, h))
  \/ Answer(s) \/ NoAnswer(s) \/ Store(s) \/ Erase(s)

Next ==
  \/ \E s \in Syncer : ThreadFunc(s) \/ SpuriousWakeup(s)
  \/ \E h \in Infohash : AddNeedInfoHash(h) \/ PeriodSchedule(h)

Spec == Init /\ [][Next]_vars

(***************************************************************************)
(* A synchronizer that is not waiting runs, and redis answers or the       *)
(* connection breaks.  Announces, the cleaner and spurious wakeups owe     *)
(* nothing.  Strong fairness: other threads may take the mutex meanwhile.  *)
(***************************************************************************)
FairSpec == Spec /\ \A s \in Syncer : SF_vars(ThreadFunc(s))

-----------------------------------------------------------------------------
TypeOK ==
  /\ query_map \in [Infohash -> {"none", "pending", "querying"}]
  /\ have_query \in BOOLEAN
  /\ syncer \in [Syncer -> [at : At, key : Infohash \cup {NoKey}, answer : 0 .. MaxAnswer]]
  /\ remote_map \in [Infohash -> 0 .. MaxAnswer]
  /\ answers \in [Infohash -> 0 .. MaxAnswer]
  /\ stored \in [Infohash -> 0 .. MaxAnswer]

(***************************************************************************)
(* An infohash marked as being queried is in the hands of exactly one      *)
(* thread, and no other infohash is in anybody's: neither can two threads  *)
(* race on one infohash nor can a mark stay behind that shuts it out of    *)
(* the queue for ever.                                                     *)
(***************************************************************************)
OneQueryPerInfohash ==
  \A h \in Infohash :
    /\ query_map[h] = "querying" => \E s \in Syncer : syncer[s].key = h
    /\ \A s \in Syncer : syncer[s].key = h =>
         query_map[h] = "querying" /\ \A u \in Syncer : syncer[u].key = h => u = s

(***************************************************************************)
(* No wakeup is lost: while an infohash is pending the flag is up, and     *)
(* while the flag is up some thread is awake to see it.                    *)
(***************************************************************************)
NoQueryForgotten ==
  /\ (\E h \in Infohash : query_map[h] = "pending") => have_query
  /\ have_query => \E s \in Syncer : syncer[s].at # "waiting"

(***************************************************************************)
(* UpdateInfoHashMapByReply stores the latest answer redis gave for the    *)
(* infohash, and none twice, although it runs without the mutex of the     *)
(* queue: no entry is overwritten by an older answer.                      *)
(***************************************************************************)
AnswersInOrder ==
  \A s \in Syncer : syncer[s].at = "store" =>
    /\ syncer[s].answer = answers[syncer[s].key]
    /\ syncer[s].answer > stored[syncer[s].key]

(***************************************************************************)
(* To the outside there are no threads: each infohash has one query, which *)
(* goes through its stages in order, and its entry is only ever replaced   *)
(* by the answer to that query.                                            *)
(***************************************************************************)
Stage(h) ==
  IF query_map[h] = "querying"
    THEN CHOOSE at \in Busy : \E s \in Syncer : syncer[s].key = h /\ syncer[s].at = at
    ELSE query_map[h]

Stages == [h \in Infohash |-> Stage(h)]

Table == INSTANCE QueryTable WITH flight <- Stages, entry <- remote_map

ImplementsQueryTable == Table!Spec

(***************************************************************************)
(* As long as an infohash is pending threads keep querying (which of       *)
(* several infohashes comes first is up to the hash table).                *)
(***************************************************************************)
PendingIsWorkedOn ==
  \A h \in Infohash :
    query_map[h] = "pending" ~>
      (query_map[h] # "pending" \/ \E s \in Syncer : syncer[s].at = "query")

\* Every query ends, answered or not, and its infohash may be asked again.
QueriesEnd ==
  \A h \in Infohash : query_map[h] = "querying" ~> query_map[h] # "querying"
=============================================================================
