---------------------------- MODULE CommandChannel ----------------------------
(***************************************************************************)
(* What the pipeline of a tracker to a redis server promises of the        *)
(* commands, whatever its threads, connections and mutexes do: while the   *)
(* channel is up, commands are executed once each in the order in which    *)
(* they were charged; what is under way when it goes down is lost, but for *)
(* a first part, and so is what is charged before it is up again.          *)
(* RedisPipeline implements it (RedisPipeline!Channel).                    *)
(***************************************************************************)
EXTENDS Integers, Sequences

VARIABLES
  up,       \* the channel is up
  next,     \* commands are numbered in the order they are charged
  pending,  \* the commands under way
  done      \* the commands executed

vars == <<up, next, pending, done>>

Init == up \in BOOLEAN /\ next = 1 /\ pending = <<>> /\ done = <<>>

Charge ==
  /\ next' = next + 1
  /\ pending' = IF up THEN Append(pending, next) ELSE pending
  /\ UNCHANGED <<up, done>>

Execute ==
  /\ up /\ pending # <<>>
  /\ done' = Append(done, Head(pending))
  /\ pending' = Tail(pending)
  /\ UNCHANGED <<up, next>>

GoDown ==
  /\ up /\ up' = FALSE
  /\ \E k \in 0 .. Len(pending) : done' = done \o SubSeq(pending, 1, k)
  /\ pending' = <<>>
  /\ UNCHANGED next

ComeUp == ~up /\ up' = TRUE /\ UNCHANGED <<next, pending, done>>

Next == Charge \/ Execute \/ GoDown \/ ComeUp

Spec == Init /\ [][Next]_vars
=============================================================================
