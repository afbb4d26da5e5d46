----------------------------- MODULE QueryTable -----------------------------
(***************************************************************************)
(* What the queue of needed infohashes, its threads and the remote map     *)
(* come to for one infohash: one query at a time, from the announce that   *)
(* needs it to the step that lets it be asked again, and an entry that is  *)
(* always what redis answered last, or gone.  RemoteSync implements it     *)
(* (RemoteSync!Table).                                                     *)
(***************************************************************************)
EXTENDS Integers

CONSTANT Infohash  \* infohashes that are asked for

VARIABLES
  flight,   \* how far the query for each infohash is
  answers,  \* how many answers redis has given
  entry     \* which of them the map holds, 0 for none

vars == <<flight, answers, entry>>

Init ==
  /\ flight = [h \in Infohash |-> "none"]
  /\ answers = [h \in Infohash |-> 0] /\ entry = [h \in Infohash |-> 0]

Moves(h, from, to) == flight[h] = from /\ flight' = [flight EXCEPT ![h] = to]

Ask(h)   == Moves(h, "none", "pending") /\ UNCHANGED <<answers, entry>>
Begin(h) == Moves(h, "pending", "query") /\ UNCHANGED <<answers, entry>>
Fail(h)  == Moves(h, "query", "erase") /\ UNCHANGED <<answers, entry>>
End(h)   == Moves(h, "erase", "none") /\ UNCHANGED <<answers, entry>>

Answer(h) ==
  /\ Moves(h, "query", "store")
  /\ answers' = [answers EXCEPT ![h] = @ + 1]
  /\ UNCHANGED entry

Store(h) ==
  /\ Moves(h, "store", "erase")
  /\ entry' = [entry EXCEPT ![h] = answers[h]]
  /\ UNCHANGED answers

Expire(h) == entry' = [entry EXCEPT ![h] = 0] /\ UNCHANGED <<flight, answers>>

Next ==
  \E h \in Infohash :
    Ask(h) \/ Begin(h) \/ Answer(h) \/ Fail(h) \/ Store(h) \/ End(h) \/ Expire(h)

Spec == Init /\ [][Next]_vars
=============================================================================
