--------------------------- MODULE RedisPipeline ---------------------------
(***************************************************************************)
(* The pipeline of a tracker to one redis server                           *)
(* (gko-tracker-src/src/RedisManager.cpp).  Announce threads charge        *)
(* commands on one connection while the sender thread flushes another; the *)
(* two are swapped when the flush is done.  When it fails, the flag goes   *)
(* down and the connection thread builds both connections anew.            *)
(*                                                                         *)
(* ContextManager objects are independent of each other, but for the       *)
(* connection thread that serves them one after the other: one is modelled.*)
(***************************************************************************)
EXTENDS Integers, Sequences, Functions

CONSTANTS
  Handler,      \* threads that announce
  MaxCommands,  \* bound: commands charged
  MaxFailures   \* bound: broken connections, error replies, failed connects

ASSUME BoundsAssumption == MaxCommands \in Nat /\ MaxFailures \in Nat

VARIABLES
  flag,              \* the context is connected, as far as is known
  charge, release,   \* charge_context, release_context: state, and the
                     \* commands appended that are not answered
  charged_commands,
  release_commands,
  handler,           \* what each announce thread does in AppendCommand
  sender,            \* where SendToRedis is, and i of FlushPipeline
  connector,         \* where DoConnection is
  crashed,           \* the tracker is gone: a command for a NULL context
  next,              \* commands are numbered in the order they are charged
  applied,           \* history: the commands redis has executed
  failures,          \* number of failures so far
  resets             \* history: how often DoConnection dropped both contexts

contexts == <<charge, release, charged_commands, release_commands>>
threads == <<handler, sender, connector>>
history == <<next, applied, failures, resets>>
vars == <<flag, contexts, threads, crashed, history>>

Command == 1 .. MaxCommands
None == [conn |-> "none", buf |-> <<>>]
Connected == [conn |-> "up", buf |-> <<>>]
Idle == [at |-> "idle", i |-> 0]

(***************************************************************************)
(* SendToRedis holds release_mutex while it is not idle; DoConnection      *)
(* holds it too, and charge_mutex as well once it connects.                *)
(***************************************************************************)
ReleaseMutexFree == sender.at = "idle" /\ connector = "idle"
ChargeMutexFree == connector \notin {"connect_release", "connect_charge"}

\* RedisManager::Start tries to connect before it creates the threads.
Init ==
  /\ \/ flag = TRUE /\ charge = Connected /\ release = Connected
     \/ flag = FALSE /\ charge = None /\ release \in {None, Connected}
  /\ charged_commands = 0 /\ release_commands = 0
  /\ handler = [h \in Handler |-> "idle"]
  /\ sender = Idle
  /\ connector = "idle"
  /\ crashed = FALSE
  /\ next = 1 /\ applied = <<>> /\ failures = 0 /\ resets = 0

Fail == failures < MaxFailures /\ failures' = failures + 1

-----------------------------------------------------------------------------
(***************************************************************************)
(* AppendCommand: the flag is read before the mutex is taken.  With the    *)
(* flag down the command is ignored, which changes nothing.                *)
(***************************************************************************)
Check(h) ==
  /\ handler[h] = "idle" /\ flag /\ next \in Command
  /\ handler' = [handler EXCEPT ![h] = "checked"]
  /\ UNCHANGED <<flag, contexts, sender, connector, crashed, history>>

AppendCommand(h) ==
  /\ handler[h] = "checked" /\ ChargeMutexFree /\ charge.conn # "none" /\ next \in Command
  /\ charge' = [charge EXCEPT !.buf = Append(@, next)]
  /\ charged_commands' = charged_commands + 1
  /\ next' = next + 1
  /\ handler' = [handler EXCEPT ![h] = "idle"]
  /\ UNCHANGED <<flag, release, release_commands, sender, connector, crashed,
                 applied, failures, resets>>

\* redisAppendCommand writes into the context: a NULL context is a crash.
AppendToNull(h) ==
  /\ handler[h] = "checked" /\ ChargeMutexFree /\ charge.conn = "none"
  /\ crashed' = TRUE
  /\ UNCHANGED <<flag, contexts, threads, history>>

-----------------------------------------------------------------------------
(***************************************************************************)
(* SendToRedis.  A flag found up stays up until the mutex is held: only    *)
(* this thread lowers it.                                                  *)
(***************************************************************************)
StartFlush ==
  /\ sender.at = "idle" /\ flag /\ ReleaseMutexFree
  /\ sender' = [at |-> "flush", i |-> 0]
  /\ UNCHANGED <<flag, contexts, handler, connector, crashed, history>>

\* FlushPipeline: redis executes the next command and replies.
FlushReply ==
  /\ sender.at = "flush" /\ sender.i < release_commands
  /\ release.conn = "up" /\ release.buf # <<>>
  /\ applied' = Append(applied, Head(release.buf))
  /\ release' = [release EXCEPT !.buf = Tail(@)]
  /\ sender' = [sender EXCEPT !.i = @ + 1]
  /\ UNCHANGED <<flag, charge, charged_commands, release_commands, handler, connector,
                 crashed, next, failures, resets>>

(***************************************************************************)
(* No reply, because the connection is broken, or an error for the next    *)
(* command.  The whole buffer may have been written by then: redis has     *)
(* executed some of the commands, in order, without anybody knowing.       *)
(***************************************************************************)
FlushFails ==
  /\ sender.at = "flush" /\ sender.i < release_commands
  /\ \/ release.conn = "broken" /\ UNCHANGED failures
     \/ release.conn = "up" /\ release.buf # <<>> /\ Fail
  /\ \E k \in 0 .. Len(release.buf) : applied' = applied \o SubSeq(release.buf, 1, k)
  /\ flag' = FALSE
  /\ sender' = Idle
  /\ UNCHANGED <<contexts, handler, connector, crashed, next, resets>>

\* Mutant: charged_commands is not reset.
SwapKeepsCount ==
  /\ sender.at = "flush" /\ sender.i >= release_commands /\ ChargeMutexFree
  /\ charge' = release /\ release' = charge
  /\ release_commands' = charged_commands
  /\ sender' = Idle
  /\ UNCHANGED <<flag, charged_commands, handler, connector, crashed, history>>

\* Mutant: swaps without waiting for the replies to the last commands.
SwapUnflushed ==
  /\ sender.at = "flush" /\ ChargeMutexFree
  /\ charge' = release /\ release' = charge
  /\ release_commands' = charged_commands
  /\ charged_commands' = release_commands - sender.i
  /\ sender' = Idle
  /\ UNCHANGED <<flag, handler, connector, crashed, history>>

Swap ==
  /\ sender.at = "flush" /\ sender.i >= release_commands /\ ChargeMutexFree
  /\ charge' = release /\ release' = charge
  /\ release_commands' = charged_commands
  /\ charged_commands' = 0
  /\ sender' = Idle
  /\ UNCHANGED <<flag, handler, connector, crashed, history>>

-----------------------------------------------------------------------------
(***************************************************************************)
(* DoConnection, one context.                                              *)
(***************************************************************************)
LockContext ==
  /\ connector = "idle" /\ ~flag /\ ReleaseMutexFree
  /\ connector' = "connect_release"
  /\ charge' = None /\ release' = None
  /\ charged_commands' = 0 /\ release_commands' = 0
  /\ resets' = resets + 1
  /\ UNCHANGED <<flag, handler, sender, crashed, next, applied, failures>>

ConnectRelease ==
  /\ connector = "connect_release"
  /\ release' = Connected
  /\ connector' = "connect_charge"
  /\ UNCHANGED <<flag, charge, charged_commands, release_commands, handler, sender, crashed,
                 history>>

ConnectCharge ==
  /\ connector = "connect_charge"
  /\ charge' = Connected
  /\ flag' = TRUE
  /\ connector' = "idle"
  /\ UNCHANGED <<release, charged_commands, release_commands, handler, sender, crashed, history>>

\* Mutant: the flag goes up although a connection failed.
ConnectFailsFlagged ==
  /\ ~ChargeMutexFree /\ Fail
  /\ flag' = TRUE
  /\ connector' = "idle"
  /\ UNCHANGED <<contexts, handler, sender, crashed, next, applied, resets>>

\* Mutant: returns with the mutexes locked when a connection fails.
ConnectFailsLocked ==
  /\ ~ChargeMutexFree /\ Fail
  /\ connector' = "gave_up"
  /\ UNCHANGED <<flag, contexts, handler, sender, crashed, next, applied, resets>>

\* Either connection fails: tried again two seconds later.
ConnectFails ==
  /\ ~ChargeMutexFree /\ Fail
  /\ connector' = "idle"
  /\ UNCHANGED <<flag, contexts, handler, sender, crashed, next, applied, resets>>

\* A connection breaks; nobody sees it before it is flushed.
Break ==
  /\ Fail
  /\ \/ charge.conn = "up" /\ charge' = [charge EXCEPT !.conn = "broken"] /\ UNCHANGED release
     \/ release.conn = "up" /\ release' = [release EXCEPT !.conn = "broken"] /\ UNCHANGED charge
  /\ UNCHANGED <<flag, charged_commands, release_commands, threads, crashed, next, applied, resets>>

-----------------------------------------------------------------------------
SendToRedis == StartFlush \/ FlushReply \/ FlushFails \/ Swap
DoConnection == LockContext \/ ConnectRelease \/ ConnectCharge \/ ConnectFails
Handle(h) == Check(h) \/ AppendCommand(h) \/ AppendToNull(h)

Next ==
  \/ ~crashed /\ (SendToRedis \/ DoConnection \/ Break \/ \E h \in Handler : Handle(h))
  \/ crashed /\ UNCHANGED vars

Spec == Init /\ [][Next]_vars

(***************************************************************************)
(* Both threads run, and redis answers or the connection breaks.  A thread *)
(* that waits for a mutex finds it free in the end.                        *)
(***************************************************************************)
FairSpec ==
  /\ Spec
  /\ WF_vars(~crashed /\ SendToRedis)
  /\ WF_vars(~crashed /\ DoConnection)

-----------------------------------------------------------------------------
Context == [conn : {"none", "up", "broken"}, buf : Seq(Command)]

TypeOK ==
  /\ flag \in BOOLEAN /\ crashed \in BOOLEAN
  /\ charge \in Context /\ release \in Context
  /\ charged_commands \in 0 .. MaxCommands /\ release_commands \in 0 .. MaxCommands
  /\ handler \in [Handler -> {"idle", "checked"}]
  /\ sender \in [at : {"idle", "flush"}, i : 0 .. MaxCommands]
  /\ connector \in {"idle", "connect_release", "connect_charge"}
  /\ next \in 1 .. MaxCommands + 1 /\ applied \in Seq(Command)
  /\ failures \in 0 .. MaxFailures /\ resets \in Nat

(***************************************************************************)
(* FlushPipeline asks for as many replies as there will be: one more would *)
(* block the sender for ever, one less would be taken for the reply to a   *)
(* command of the next round.                                              *)
(***************************************************************************)
CountsExact ==
  flag => /\ release_commands = sender.i + Len(release.buf)
          /\ charged_commands = Len(charge.buf)

Increasing(s) == \A j, k \in 1 .. Len(s) : j < k => s[j] < s[k]

(***************************************************************************)
(* redis executes commands in the order they were charged and none twice,  *)
(* although they travel on two connections and may be lost with either:    *)
(* a peer that is set and then deleted is not there in the end.            *)
(***************************************************************************)
AppliedInOrder == Increasing(applied)

\* The flag vouches for two contexts that are not NULL.
FlagMeansConnected == flag => charge.conn # "none" /\ release.conn # "none"

(***************************************************************************)
(* Through two connections, their swap and any failure the pipeline is one *)
(* channel that is up while the flag is: with the flag up, what is charged *)
(* follows what is being released.                                         *)
(***************************************************************************)
Pending == IF flag THEN release.buf \o charge.buf ELSE <<>>

Channel == INSTANCE CommandChannel WITH up <- flag, pending <- Pending, done <- applied

ImplementsChannel == Channel!Spec

(***************************************************************************)
(* A charged command reaches redis unless the contexts are dropped after-  *)
(* wards, or the tracker crashes.                                          *)
(***************************************************************************)
ChargedReachesRedis ==
  \A c \in Command, r \in 0 .. MaxFailures :
    (c \in Range(charge.buf \o release.buf) /\ resets = r) ~>
      (c \in Range(applied) \/ resets > r \/ crashed)

\* When failures end, a context that is down comes up again.
Reconnects == ~flag ~> (flag \/ crashed)
=============================================================================
