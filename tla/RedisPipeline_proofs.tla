------------------------ MODULE RedisPipeline_proofs ------------------------
(***************************************************************************)
(* Safety of RedisPipeline, for any number of threads and commands and any *)
(* number of failures.                                                     *)
(***************************************************************************)
EXTENDS RedisPipeline, SequenceTheorems, TLAPS

\* The three threads exclude each other as their mutexes and the flag say.
Exclusion ==
  /\ sender.at = "flush" => flag /\ connector = "idle"
  /\ sender.at = "idle" => sender.i = 0
  /\ connector # "idle" => ~flag

\* What DoConnection has done so far.
Connecting ==
  /\ connector # "idle" =>
       /\ charge = None /\ release.buf = <<>>
       /\ charged_commands = 0 /\ release_commands = 0
  /\ connector = "connect_charge" => release.conn # "none"

\* All numbers of s are below n, above n, below those of t.
Below(s, n) == \A j \in 1 .. Len(s) : s[j] < n
Above(s, n) == \A j \in 1 .. Len(s) : n < s[j]
Before(s, t) == \A j \in 1 .. Len(s) : Above(t, s[j])

\* Commands get greater from one stage of the pipeline to the next.
StagesInOrder ==
  flag => /\ Increasing(release.buf) /\ Increasing(charge.buf)
          /\ Before(applied, release.buf) /\ Before(applied, charge.buf)
          /\ Before(release.buf, charge.buf)

\* Numbers not yet given out are nowhere, and no count exceeds them.
NextIsNew ==
  /\ charged_commands < next /\ release_commands < next
  /\ Below(applied, next) /\ Below(release.buf, next) /\ Below(charge.buf, next)

\* The inductive invariant.
IInv ==
  /\ TypeOK
  /\ Exclusion
  /\ Connecting
  /\ CountsExact
  /\ FlagMeansConnected
  /\ StagesInOrder
  /\ NextIsNew
  /\ AppliedInOrder

-----------------------------------------------------------------------------
(***************************************************************************)
(* Sequences of numbers: what Append, Head, Tail and a prefix do to them.  *)
(***************************************************************************)
LEMMA AppendInOrder ==
  ASSUME NEW s \in Seq(Int), NEW n \in Int, Increasing(s), Below(s, n)
  PROVE  Increasing(Append(s, n))
BY DEF Increasing, Below

LEMMA AppendBelow ==
  ASSUME NEW s \in Seq(Int), NEW n \in Int, Below(s, n)
  PROVE  Below(Append(s, n), n + 1)
BY DEF Below

LEMMA BelowNext ==
  ASSUME NEW s \in Seq(Int), NEW n \in Int, Below(s, n)
  PROVE  Below(s, n + 1)
BY DEF Below

LEMMA AppendStaysBelow ==
  ASSUME NEW s \in Seq(Int), NEW m \in Int, NEW n \in Int, Below(s, n), m < n
  PROVE  Below(Append(s, m), n)
BY DEF Below

LEMMA AppendAfter ==
  ASSUME NEW s \in Seq(Int), NEW t \in Seq(Int), NEW n \in Int, Before(s, t), Below(s, n)
  PROVE  Before(s, Append(t, n))
BY DEF Before, Above, Below

LEMMA AppendBefore ==
  ASSUME NEW s \in Seq(Int), NEW t \in Seq(Int), NEW n \in Int, Before(s, t), Above(t, n)
  PROVE  Before(Append(s, n), t)
BY DEF Before, Above

LEMMA TailInOrder ==
  ASSUME NEW s \in Seq(Int), s # <<>>, Increasing(s)
  PROVE  Increasing(Tail(s)) /\ Above(Tail(s), Head(s))
BY DEF Increasing, Above

LEMMA TailAfter ==
  ASSUME NEW s \in Seq(Int), NEW t \in Seq(Int), t # <<>>, Before(s, t)
  PROVE  Before(s, Tail(t)) /\ Below(s, Head(t))
BY DEF Before, Above, Below

LEMMA TailBefore ==
  ASSUME NEW s \in Seq(Int), NEW t \in Seq(Int), s # <<>>, Before(s, t)
  PROVE  Before(Tail(s), t) /\ Above(t, Head(s))
<1>1. Len(Tail(s)) = Len(s) - 1 /\ \A j \in 1 .. Len(s) - 1 : Tail(s)[j] = s[j + 1]
  OBVIOUS
<1>2. Len(s) > 0 /\ Head(s) = s[1]
  OBVIOUS
<1> QED
  BY <1>1, <1>2 DEF Before

LEMMA TailBelow ==
  ASSUME NEW s \in Seq(Int), NEW n \in Int, s # <<>>, Below(s, n)
  PROVE  Below(Tail(s), n) /\ Head(s) < n
BY DEF Below

LEMMA PrefixElements ==
  ASSUME NEW s \in Seq(Int), NEW t \in Seq(Int), NEW k \in 0 .. Len(t)
  PROVE  LET u == s \o SubSeq(t, 1, k) IN
         /\ u \in Seq(Int) /\ Len(u) = Len(s) + k
         /\ \A j \in 1 .. Len(s) : u[j] = s[j]
         /\ \A j \in Len(s) + 1 .. Len(s) + k : u[j] = t[j - Len(s)]
<1> DEFINE v == SubSeq(t, 1, k)
<1>1. v \in Seq(Int) /\ Len(v) = k /\ \A j \in 1 .. k : v[j] = t[j]
  OBVIOUS
<1> HIDE DEF v
<1>2. /\ s \o v \in Seq(Int) /\ Len(s \o v) = Len(s) + Len(v)
      /\ \A j \in 1 .. Len(s) + Len(v) :
           (s \o v)[j] = IF j <= Len(s) THEN s[j] ELSE v[j - Len(s)]
  BY <1>1, ConcatProperties
<1>3. ASSUME NEW j \in Len(s) + 1 .. Len(s) + k
      PROVE  (s \o v)[j] = t[j - Len(s)]
  <2>1. j - Len(s) \in 1 .. k /\ j \in 1 .. Len(s) + Len(v) /\ ~(j <= Len(s))
    BY <1>1
  <2> QED
    BY <1>1, <1>2, <2>1
<1>4. ASSUME NEW j \in 1 .. Len(s) PROVE (s \o v)[j] = s[j]
  <2>1. j \in 1 .. Len(s) + Len(v) /\ j <= Len(s)
    BY <1>1
  <2> QED
    BY <1>2, <2>1
<1> QED
  BY <1>1, <1>2, <1>3, <1>4 DEF v

LEMMA PrefixInOrder ==
  ASSUME NEW s \in Seq(Int), NEW t \in Seq(Int), NEW k \in 0 .. Len(t), NEW n \in Int,
         Increasing(s), Increasing(t), Before(s, t), Below(s, n), Below(t, n)
  PROVE  Increasing(s \o SubSeq(t, 1, k)) /\ Below(s \o SubSeq(t, 1, k), n)
<1> DEFINE u == s \o SubSeq(t, 1, k)
<1>1. /\ u \in Seq(Int) /\ Len(u) = Len(s) + k
      /\ \A j \in 1 .. Len(s) : u[j] = s[j]
      /\ \A j \in Len(s) + 1 .. Len(s) + k : u[j] = t[j - Len(s)]
  BY PrefixElements
<1> HIDE DEF u
<1>2. ASSUME NEW i \in 1 .. Len(u), NEW j \in 1 .. Len(u), i < j PROVE u[i] < u[j]
  <2>1. CASE j \in 1 .. Len(s)
    <3>1. i \in 1 .. Len(s)
      BY <1>2, <2>1
    <3>2. s[i] < s[j]
      BY <1>2, <2>1, <3>1 DEF Increasing
    <3> QED
      BY <1>1, <2>1, <3>1, <3>2
  <2>2. CASE i \in 1 .. Len(s) /\ j \in Len(s) + 1 .. Len(s) + k
    <3>1. j - Len(s) \in 1 .. Len(t)
      BY <2>2
    <3> QED
      BY <1>1, <2>2, <3>1 DEF Before, Above
  <2>3. CASE i \in Len(s) + 1 .. Len(s) + k /\ j \in Len(s) + 1 .. Len(s) + k
    <3>1. i - Len(s) \in 1 .. Len(t) /\ j - Len(s) \in 1 .. Len(t) /\ i - Len(s) < j - Len(s)
      BY <1>2, <2>3
    <3> QED
      BY <1>1, <2>3, <3>1 DEF Increasing
  <2> QED
    BY <1>1, <1>2, <2>1, <2>2, <2>3
<1>3. ASSUME NEW j \in 1 .. Len(u) PROVE u[j] < n
  <2>1. CASE j \in 1 .. Len(s)
    BY <1>1, <2>1 DEF Below
  <2>2. CASE j \in Len(s) + 1 .. Len(s) + k
    <3>1. j - Len(s) \in 1 .. Len(t)
      BY <2>2
    <3> QED
      BY <1>1, <2>2, <3>1 DEF Below
  <2> QED
    BY <1>1, <1>3, <2>1, <2>2
<1> QED
  BY <1>2, <1>3 DEF u, Increasing, Below

-----------------------------------------------------------------------------
(***************************************************************************)
(* The invariant, action by action.                                        *)
(***************************************************************************)

\* Buffers hold numbers, whatever else is known of them.
LEMMA BuffersAreNumbers ==
  ASSUME TypeOK
  PROVE  /\ applied \in Seq(Int) /\ charge.buf \in Seq(Int) /\ release.buf \in Seq(Int)
         /\ next \in Int
BY BoundsAssumption DEF TypeOK, Context, Command

\* Start has connected both contexts or left the flag down.
LEMMA InitIInv == Init => IInv
<1> SUFFICES ASSUME Init PROVE IInv
  OBVIOUS
<1> USE BoundsAssumption DEF Init, Connected, None, Idle
<1>0. /\ Connected \in Context /\ None \in Context /\ <<>> \in Seq(Command)
      /\ Idle \in [at : {"idle", "flush"}, i : 0 .. MaxCommands]
  BY DEF Context
<1>a. /\ 1 \in 1 .. MaxCommands + 1 /\ 0 \in 0 .. MaxCommands /\ 0 \in 0 .. MaxFailures
      /\ handler \in [Handler -> {"idle", "checked"}]
  OBVIOUS
<1> HIDE DEF Connected, None, Idle
<1>1. TypeOK
  BY <1>0, <1>a DEF TypeOK
<1> USE DEF Connected, None, Idle
<1>2. Exclusion /\ Connecting /\ CountsExact /\ FlagMeansConnected
  BY DEF Exclusion, Connecting, CountsExact, FlagMeansConnected
<1>3. StagesInOrder /\ NextIsNew /\ AppliedInOrder
  BY DEF StagesInOrder, NextIsNew, AppliedInOrder, Increasing, Before, Above, Below
<1> QED
  BY <1>1, <1>2, <1>3 DEF IInv

\* Reading the flag commits to nothing.
LEMMA CheckIInv == ASSUME IInv, NEW h \in Handler, Check(h) PROVE IInv'
BY DEF Check, IInv, TypeOK, Exclusion, Connecting, CountsExact, FlagMeansConnected, StagesInOrder,
   NextIsNew, AppliedInOrder, contexts, history

\* A charged command has a new number: it goes after all others.
LEMMA AppendCommandIInv == ASSUME IInv, NEW h \in Handler, AppendCommand(h) PROVE IInv'
<1> USE BoundsAssumption DEF AppendCommand, IInv
<1>0. /\ applied \in Seq(Int) /\ charge.buf \in Seq(Int) /\ release.buf \in Seq(Int)
      /\ next \in Int /\ next \in Command
  BY BuffersAreNumbers
<1>1. charge' = [conn |-> charge.conn, buf |-> Append(charge.buf, next)]
  BY DEF TypeOK, Context
<1>2. TypeOK'
  <2>1. Append(charge.buf, next) \in Seq(Command)
    BY <1>0 DEF TypeOK, Context
  <2>2. charge' \in Context
    BY <1>1, <2>1 DEF TypeOK, Context
  <2>a. charged_commands \in Nat /\ charged_commands < next /\ next \in 1 .. MaxCommands
    BY <1>0 DEF TypeOK, NextIsNew, Command
  <2>b. charged_commands' = charged_commands + 1 /\ next' = next + 1
    OBVIOUS
  <2> HIDE DEF AppendCommand, IInv
  <2>3. charged_commands' \in 0 .. MaxCommands /\ next' \in 1 .. MaxCommands + 1
    BY <2>a, <2>b
  <2> USE DEF AppendCommand, IInv
  <2> QED
    BY <2>2, <2>3 DEF TypeOK
<1>3. Exclusion' /\ Connecting' /\ FlagMeansConnected'
  BY <1>1 DEF Exclusion, Connecting, FlagMeansConnected, ChargeMutexFree, TypeOK
<1>4. CountsExact'
  BY <1>0, <1>1 DEF CountsExact, TypeOK
<1>5. StagesInOrder'
  BY <1>0, <1>1, AppendInOrder, AppendAfter DEF StagesInOrder, NextIsNew
<1>6. NextIsNew' /\ AppliedInOrder'
  <2>1. Below(charge'.buf, next + 1)
    BY <1>0, <1>1, AppendBelow DEF NextIsNew
  <2>2. Below(applied, next + 1) /\ Below(release.buf, next + 1)
    BY <1>0, BelowNext DEF NextIsNew
  <2> QED
    BY <1>0, <2>1, <2>2 DEF NextIsNew, AppliedInOrder, TypeOK
<1> QED
  BY <1>2, <1>3, <1>4, <1>5, <1>6

\* A crash leaves the variables as they were.
LEMMA AppendToNullIInv == ASSUME IInv, NEW h \in Handler, AppendToNull(h) PROVE IInv'
BY DEF AppendToNull, IInv, TypeOK, Exclusion, Connecting, CountsExact, FlagMeansConnected,
   StagesInOrder, NextIsNew, AppliedInOrder, contexts, threads, history

\* The sender takes release_mutex with the flag up.
LEMMA StartFlushIInv == ASSUME IInv, StartFlush PROVE IInv'
BY BoundsAssumption DEF StartFlush, ReleaseMutexFree, IInv, TypeOK, Exclusion, Connecting,
   CountsExact, FlagMeansConnected, StagesInOrder, NextIsNew, AppliedInOrder, contexts, history

\* The oldest command not yet answered is executed.
LEMMA FlushReplyIInv == ASSUME IInv, FlushReply PROVE IInv'
<1> USE BoundsAssumption DEF FlushReply, IInv
<1>0. /\ applied \in Seq(Int) /\ charge.buf \in Seq(Int) /\ release.buf \in Seq(Int)
      /\ next \in Int /\ release.buf # <<>>
  BY BuffersAreNumbers
<1>a. Head(release.buf) \in Int /\ Tail(release.buf) \in Seq(Int)
  BY <1>0
<1>1. /\ release' = [conn |-> release.conn, buf |-> Tail(release.buf)]
      /\ sender' = [at |-> "flush", i |-> sender.i + 1]
      /\ flag /\ connector = "idle"
  BY DEF TypeOK, Context, Exclusion
<1>2. TypeOK'
  <2>1. Tail(release.buf) \in Seq(Command) /\ Append(applied, Head(release.buf)) \in Seq(Command)
    BY <1>0 DEF TypeOK, Context
  <2>2. release' \in Context
    BY <1>1, <2>1 DEF TypeOK, Context
  <2>a. sender.i + 1 \in 0 .. MaxCommands
    BY DEF TypeOK
  <2>3. sender' \in [at : {"idle", "flush"}, i : 0 .. MaxCommands]
    BY <1>1, <2>a
  <2> QED
    BY <2>1, <2>2, <2>3 DEF TypeOK
<1>3. Exclusion' /\ Connecting' /\ FlagMeansConnected'
  BY <1>1 DEF Exclusion, Connecting, FlagMeansConnected
<1>4. CountsExact'
  BY <1>0, <1>1 DEF CountsExact, TypeOK
<1>5. StagesInOrder'
  <2>1. Increasing(Tail(release.buf)) /\ Above(Tail(release.buf), Head(release.buf))
    BY <1>0, <1>1, TailInOrder DEF StagesInOrder
  <2>2. Before(applied, Tail(release.buf))
    BY <1>0, <1>1, TailAfter DEF StagesInOrder
  <2>3. Before(Tail(release.buf), charge.buf) /\ Above(charge.buf, Head(release.buf))
    BY <1>0, <1>1, TailBefore DEF StagesInOrder
  <2>4. /\ Before(Append(applied, Head(release.buf)), Tail(release.buf))
        /\ Before(Append(applied, Head(release.buf)), charge.buf)
    BY <1>0, <1>a, <1>1, <2>1, <2>2, <2>3, AppendBefore DEF StagesInOrder
  <2> QED
    BY <1>1, <2>1, <2>3, <2>4 DEF StagesInOrder
<1>6. Below(applied, Head(release.buf))
  BY <1>0, <1>1, TailAfter DEF StagesInOrder
<1>7. AppliedInOrder'
  BY <1>0, <1>a, <1>6, AppendInOrder DEF AppliedInOrder
<1>8. NextIsNew'
  <2>1. Below(Tail(release.buf), next) /\ Head(release.buf) < next
    BY <1>0, TailBelow DEF NextIsNew
  <2>2. Below(Append(applied, Head(release.buf)), next)
    BY <1>0, <1>a, <2>1, AppendStaysBelow DEF NextIsNew
  <2> QED
    BY <1>1, <2>1, <2>2 DEF NextIsNew
<1> QED
  BY <1>2, <1>3, <1>4, <1>5, <1>7, <1>8

\* After a failed flush redis has executed a prefix of the buffer.
LEMMA FlushFailsIInv == ASSUME IInv, FlushFails PROVE IInv'
<1> USE BoundsAssumption DEF FlushFails, IInv, Fail
<1>0. /\ applied \in Seq(Int) /\ charge.buf \in Seq(Int) /\ release.buf \in Seq(Int)
      /\ next \in Int /\ flag /\ connector = "idle"
  BY BuffersAreNumbers DEF Exclusion
<1>1. PICK k \in 0 .. Len(release.buf) : applied' = applied \o SubSeq(release.buf, 1, k)
  OBVIOUS
<1>2. Increasing(applied') /\ Below(applied', next)
  BY <1>0, <1>1, PrefixInOrder DEF StagesInOrder, NextIsNew, AppliedInOrder
<1>3. applied' \in Seq(Command)
  <2>1. SubSeq(release.buf, 1, k) \in Seq(Command) /\ applied \in Seq(Command)
    BY <1>1 DEF TypeOK, Context
  <2> QED
    BY <1>1, <2>1, ConcatProperties
<1>4. failures' \in 0 .. MaxFailures /\ sender' \in [at : {"idle", "flush"}, i : 0 .. MaxCommands]
  BY DEF TypeOK, Idle
<1>5. TypeOK'
  BY <1>3, <1>4 DEF TypeOK, contexts
<1>6. /\ Exclusion' /\ Connecting' /\ CountsExact' /\ FlagMeansConnected' /\ StagesInOrder'
  BY <1>0 DEF Exclusion, Connecting, CountsExact, FlagMeansConnected, StagesInOrder, contexts, Idle
<1>7. NextIsNew' /\ AppliedInOrder'
  BY <1>2 DEF NextIsNew, AppliedInOrder, contexts
<1> QED
  BY <1>5, <1>6, <1>7

\* The context that becomes the charged one has been emptied.
LEMMA SwapIInv == ASSUME IInv, Swap PROVE IInv'
<1> USE BoundsAssumption DEF Swap, IInv
<1>0. /\ applied \in Seq(Int) /\ charge.buf \in Seq(Int) /\ release.buf \in Seq(Int)
      /\ flag /\ connector = "idle" /\ next \in Int /\ next >= 1
  BY BuffersAreNumbers DEF Exclusion, TypeOK
<1>1. release_commands = sender.i + Len(release.buf) /\ charged_commands = Len(charge.buf)
  BY <1>0 DEF CountsExact
<1>2. Len(release.buf) = 0
  BY <1>0, <1>1 DEF TypeOK
<1>3. TypeOK'
  BY DEF TypeOK, Idle, history
<1>4. Exclusion' /\ Connecting' /\ FlagMeansConnected'
  BY <1>0 DEF Exclusion, Connecting, FlagMeansConnected, Idle
<1>5. CountsExact'
  BY <1>0, <1>1, <1>2 DEF CountsExact, Idle
<1>6. StagesInOrder'
  BY <1>0, <1>2 DEF StagesInOrder, Increasing, Before, Above, history
<1>7. NextIsNew' /\ AppliedInOrder'
  BY <1>0 DEF NextIsNew, AppliedInOrder, history
<1> QED
  BY <1>3, <1>4, <1>5, <1>6, <1>7

\* Both contexts are dropped, with what they held.
LEMMA LockContextIInv == ASSUME IInv, LockContext PROVE IInv'
<1> USE BoundsAssumption DEF LockContext, IInv, None
<1>0. <<>> \in Seq(Command) /\ sender.at = "idle"
  BY DEF ReleaseMutexFree
<1>1. TypeOK'
  BY <1>0 DEF TypeOK, Context
<1>2. Exclusion' /\ Connecting' /\ CountsExact' /\ FlagMeansConnected' /\ StagesInOrder'
  BY <1>0 DEF Exclusion, Connecting, CountsExact, FlagMeansConnected, StagesInOrder
<1>3. NextIsNew' /\ AppliedInOrder'
  BY DEF TypeOK, NextIsNew, AppliedInOrder, Below
<1> QED
  BY <1>1, <1>2, <1>3

\* The first of two connections.
LEMMA ConnectReleaseIInv == ASSUME IInv, ConnectRelease PROVE IInv'
<1> USE DEF ConnectRelease, IInv, Connected, history
<1>0. <<>> \in Seq(Command) /\ ~flag
  BY DEF Exclusion
<1>1. TypeOK'
  BY <1>0 DEF TypeOK, Context
<1>2. Exclusion' /\ Connecting' /\ CountsExact' /\ FlagMeansConnected' /\ StagesInOrder'
  BY <1>0 DEF Exclusion, Connecting, CountsExact, FlagMeansConnected, StagesInOrder
<1>3. NextIsNew' /\ AppliedInOrder'
  BY DEF NextIsNew, AppliedInOrder, Below
<1> QED
  BY <1>1, <1>2, <1>3

\* The second: the flag goes up over two empty contexts.
LEMMA ConnectChargeIInv == ASSUME IInv, ConnectCharge PROVE IInv'
<1> USE DEF ConnectCharge, IInv, Connected, history
<1>0. /\ <<>> \in Seq(Command) /\ sender.at # "flush" /\ sender.i = 0
      /\ release.buf = <<>> /\ release.conn # "none"
      /\ charged_commands = 0 /\ release_commands = 0
  BY DEF Exclusion, Connecting, TypeOK
<1>1. TypeOK'
  BY <1>0 DEF TypeOK, Context
<1>2. Exclusion' /\ Connecting' /\ CountsExact' /\ FlagMeansConnected'
  BY <1>0 DEF Exclusion, Connecting, CountsExact, FlagMeansConnected
<1>3. StagesInOrder'
  BY <1>0 DEF StagesInOrder, Increasing, Before, Above
<1>4. NextIsNew' /\ AppliedInOrder'
  BY DEF NextIsNew, AppliedInOrder, Below
<1> QED
  BY <1>1, <1>2, <1>3, <1>4

\* The mutexes are released with the flag down.
LEMMA ConnectFailsIInv == ASSUME IInv, ConnectFails PROVE IInv'
<1> USE DEF ConnectFails, IInv, Fail, contexts
<1>0. ~flag /\ sender.at # "flush"
  BY DEF Exclusion, ChargeMutexFree
<1>1. TypeOK'
  BY BoundsAssumption DEF TypeOK
<1>2. Exclusion' /\ Connecting' /\ CountsExact' /\ FlagMeansConnected' /\ StagesInOrder'
  BY <1>0 DEF Exclusion, Connecting, CountsExact, FlagMeansConnected, StagesInOrder
<1>3. NextIsNew' /\ AppliedInOrder'
  BY DEF NextIsNew, AppliedInOrder
<1> QED
  BY <1>1, <1>2, <1>3

\* A connection that breaks keeps its buffer, and nobody notices.
LEMMA BreakIInv == ASSUME IInv, Break PROVE IInv'
<1> USE DEF Break, IInv, Fail, threads
<1>0. /\ charge' \in Context /\ charge'.buf = charge.buf
      /\ charge'.conn = "none" <=> charge.conn = "none"
      /\ release' \in Context /\ release'.buf = release.buf
      /\ release'.conn = "none" <=> release.conn = "none"
      /\ charge = None => charge' = None
  BY DEF TypeOK, Context, None
<1>1. TypeOK'
  BY <1>0, BoundsAssumption DEF TypeOK
<1>2. Exclusion' /\ Connecting' /\ CountsExact' /\ FlagMeansConnected'
  BY <1>0 DEF Exclusion, Connecting, CountsExact, FlagMeansConnected
<1>3. StagesInOrder' /\ NextIsNew' /\ AppliedInOrder'
  BY <1>0 DEF StagesInOrder, NextIsNew, AppliedInOrder
<1> QED
  BY <1>1, <1>2, <1>3

-----------------------------------------------------------------------------
\* Every step of the threads and of the network preserves IInv.
LEMMA NextIInv == IInv /\ [Next]_vars => IInv'
<1> SUFFICES ASSUME IInv, [Next]_vars PROVE IInv'
  OBVIOUS
<1>1. CASE SendToRedis
  BY <1>1, StartFlushIInv, FlushReplyIInv, FlushFailsIInv, SwapIInv DEF SendToRedis
<1>2. CASE DoConnection
  BY <1>2, LockContextIInv, ConnectReleaseIInv, ConnectChargeIInv, ConnectFailsIInv
     DEF DoConnection
<1>3. CASE Break
  BY <1>3, BreakIInv
<1>4. ASSUME NEW h \in Handler, Handle(h) PROVE IInv'
  BY <1>4, CheckIInv, AppendCommandIInv, AppendToNullIInv DEF Handle
<1>5. CASE UNCHANGED vars
  BY <1>5 DEF vars, contexts, threads, history, IInv, TypeOK, Exclusion, Connecting, CountsExact,
     FlagMeansConnected, StagesInOrder, NextIsNew, AppliedInOrder
<1> QED
  BY <1>1, <1>2, <1>3, <1>4, <1>5 DEF Next

\* IInv holds in every reachable state of the pipeline.
THEOREM Invariance == Spec => []IInv
BY InitIInv, NextIInv, PTL DEF Spec

\* Flags, contexts, counts and positions keep their types.
THEOREM TypeCorrect == Spec => []TypeOK
<1>1. IInv => TypeOK
  BY DEF IInv
<1> QED
  BY <1>1, Invariance, PTL

\* FlushPipeline asks for as many replies as redis will send.
THEOREM CountsAlwaysExact == Spec => []CountsExact
<1>1. IInv => CountsExact
  BY DEF IInv
<1> QED
  BY <1>1, Invariance, PTL

\* redis executes the commands of PipelineCommand in order, none twice.
THEOREM ExecutedInOrder == Spec => []AppliedInOrder
<1>1. IInv => AppliedInOrder
  BY DEF IInv
<1> QED
  BY <1>1, Invariance, PTL

\* A context whose flag is up has two connections.
THEOREM FlagVouches == Spec => []FlagMeansConnected
<1>1. IInv => FlagMeansConnected
  BY DEF IInv
<1> QED
  BY <1>1, Invariance, PTL

-----------------------------------------------------------------------------
(***************************************************************************)
(* RedisPipeline implements CommandChannel.  First the sequences: charging *)
(* adds at the end of the two buffers taken together, releasing takes from *)
(* their front.                                                            *)
(***************************************************************************)
LEMMA AppendToSecond ==
  ASSUME NEW s \in Seq(Int), NEW t \in Seq(Int), NEW n \in Int
  PROVE  s \o Append(t, n) = Append(s \o t, n)
<1>1. <<n>> \in Seq(Int) /\ s \o t \in Seq(Int)
  BY ConcatProperties
<1>2. Append(t, n) = t \o <<n>> /\ Append(s \o t, n) = (s \o t) \o <<n>>
  BY <1>1, AppendIsConcat
<1>3. (s \o t) \o <<n>> = s \o (t \o <<n>>)
  BY <1>1, ConcatAssociative
<1> QED  BY <1>2, <1>3

LEMMA TakeFromFirst ==
  ASSUME NEW s \in Seq(Int), NEW t \in Seq(Int), s # <<>>
  PROVE  /\ s \o t # <<>> /\ Head(s \o t) = Head(s)
         /\ Tail(s \o t) = Tail(s) \o t
<1> DEFINE u == s \o t
<1>1. /\ u \in Seq(Int) /\ Len(u) = Len(s) + Len(t)
      /\ \A i \in 1 .. Len(s) + Len(t) : u[i] = IF i <= Len(s) THEN s[i] ELSE t[i - Len(s)]
  BY ConcatProperties
<1>2. /\ Tail(s) \in Seq(Int) /\ Len(Tail(s)) = Len(s) - 1
      /\ \A i \in 1 .. Len(Tail(s)) : Tail(s)[i] = s[i + 1]
  BY HeadTailProperties
<1>3. Len(s) \in Nat /\ Len(t) \in Nat /\ Len(s) > 0
  BY EmptySeq
<1>4. u # <<>>
  BY <1>1, <1>3
<1>5. Head(u) = Head(s)
  BY <1>1, <1>3, <1>4
<1>6. /\ Tail(u) \in Seq(Int) /\ Len(Tail(u)) = Len(u) - 1
      /\ \A i \in 1 .. Len(Tail(u)) : Tail(u)[i] = u[i + 1]
  BY <1>1, <1>4, HeadTailProperties
<1> DEFINE v == Tail(s) \o t
<1>7. /\ v \in Seq(Int) /\ Len(v) = Len(Tail(s)) + Len(t)
      /\ \A i \in 1 .. Len(Tail(s)) + Len(t) :
           v[i] = IF i <= Len(Tail(s)) THEN Tail(s)[i] ELSE t[i - Len(Tail(s))]
  BY <1>2, ConcatProperties
<1> HIDE DEF u, v
<1>8. ASSUME NEW i \in 1 .. Len(Tail(u)) PROVE Tail(u)[i] = v[i]
  <2>1. i + 1 \in 1 .. Len(s) + Len(t) /\ i \in 1 .. Len(Tail(s)) + Len(t)
    BY <1>1, <1>2, <1>3, <1>6
  <2>2. CASE i <= Len(s) - 1
    <3>1. i \in 1 .. Len(Tail(s)) /\ i + 1 <= Len(s)
      BY <1>2, <1>3, <2>2
    <3>2. Tail(u)[i] = u[i + 1]
      BY <1>6
    <3>3. u[i + 1] = s[i + 1]
      BY <1>1, <2>1, <3>1
    <3>4. v[i] = Tail(s)[i]
      BY <1>2, <1>3, <1>7, <2>1, <3>1
    <3>5. Tail(s)[i] = s[i + 1]
      BY <1>2, <3>1
    <3> QED  BY <3>2, <3>3, <3>4, <3>5
  <2>3. CASE ~(i <= Len(s) - 1)
    <3>1. ~(i + 1 <= Len(s)) /\ ~(i <= Len(Tail(s))) /\ (i + 1) - Len(s) = i - Len(Tail(s))
      BY <1>2, <1>3, <2>3
    <3>2. Tail(u)[i] = u[i + 1]
      BY <1>6
    <3>3. u[i + 1] = t[(i + 1) - Len(s)]
      BY <1>1, <2>1, <3>1
    <3>4. v[i] = t[i - Len(Tail(s))]
      BY <1>7, <2>1, <3>1
    <3> QED  BY <3>1, <3>2, <3>3, <3>4
  <2> QED  BY <2>2, <2>3
<1>9. Tail(u) = v
  <2>1. Len(Tail(u)) = Len(v)
    BY <1>1, <1>2, <1>3, <1>6, <1>7
  <2> QED  BY <1>6, <1>7, <1>8, <2>1, SeqEqual
<1> QED  BY <1>4, <1>5, <1>9 DEF u, v

LEMMA PrefixOfFirst ==
  ASSUME NEW s \in Seq(Int), NEW t \in Seq(Int), NEW k \in 0 .. Len(s)
  PROVE  SubSeq(s \o t, 1, k) = SubSeq(s, 1, k) /\ k \in 0 .. Len(s \o t)
<1>1. Len(s \o t) = Len(s) + Len(t)
  BY ConcatProperties
<1>2. CASE k = 0
  BY <1>1, <1>2, SubSeqEmpty, ConcatProperties
<1>3. CASE k # 0
  <2>1. k \in 1 .. Len(s) /\ 1 \in 1 .. Len(s)
    BY <1>3
  <2> QED  BY <1>1, <2>1, SubSeqOfConcat1
<1> QED  BY <1>2, <1>3

-----------------------------------------------------------------------------
\* What each step of the tracker is to the channel.
Allowed == [Channel!Next]_(Channel!vars)

LEMMA AppendCommandAllowed == ASSUME IInv, NEW h \in Handler, AppendCommand(h) PROVE Allowed
<1>0. charge.buf \in Seq(Int) /\ release.buf \in Seq(Int) /\ next \in Int
  BY BuffersAreNumbers DEF IInv
<1>1. charge'.buf = Append(charge.buf, next)
  BY DEF AppendCommand, IInv, TypeOK, Context
<1>2. Pending' = IF flag THEN Append(Pending, next) ELSE Pending
  BY <1>0, <1>1, AppendToSecond DEF AppendCommand, Pending
<1>3. Channel!Charge
  BY <1>2 DEF AppendCommand, Channel!Charge
<1> QED  BY <1>3 DEF Allowed, Channel!Next

LEMMA FlushReplyAllowed == ASSUME IInv, FlushReply PROVE Allowed
<1>0. charge.buf \in Seq(Int) /\ release.buf \in Seq(Int) /\ release.buf # <<>> /\ flag
  BY BuffersAreNumbers DEF IInv, Exclusion, FlushReply
<1>1. release'.buf = Tail(release.buf)
  BY DEF FlushReply, IInv, TypeOK, Context
<1>2. Pending # <<>> /\ Head(Pending) = Head(release.buf) /\ Pending' = Tail(Pending)
  BY <1>0, <1>1, TakeFromFirst DEF FlushReply, Pending
<1>3. Channel!Execute
  BY <1>0, <1>2 DEF FlushReply, Channel!Execute
<1> QED  BY <1>3 DEF Allowed, Channel!Next

LEMMA FlushFailsAllowed == ASSUME IInv, FlushFails PROVE Allowed
<1>0. charge.buf \in Seq(Int) /\ release.buf \in Seq(Int) /\ flag
  BY BuffersAreNumbers DEF IInv, Exclusion, FlushFails
<1>1. PICK k \in 0 .. Len(release.buf) : applied' = applied \o SubSeq(release.buf, 1, k)
  BY DEF FlushFails
<1>2. SubSeq(Pending, 1, k) = SubSeq(release.buf, 1, k) /\ k \in 0 .. Len(Pending)
  BY <1>0, PrefixOfFirst DEF Pending
<1>3. Pending' = <<>>
  BY DEF FlushFails, Pending
<1>4. Channel!GoDown
  BY <1>0, <1>1, <1>2, <1>3 DEF FlushFails, Channel!GoDown
<1> QED  BY <1>4 DEF Allowed, Channel!Next

\* The released buffer is empty when it becomes the charged one.
LEMMA SwapAllowed == ASSUME IInv, Swap PROVE Allowed
<1>0. charge.buf \in Seq(Int) /\ release.buf \in Seq(Int) /\ flag
  BY BuffersAreNumbers DEF IInv, Exclusion, Swap
<1>1. release_commands = sender.i + Len(release.buf) /\ sender.i >= release_commands
  BY <1>0 DEF Swap, IInv, CountsExact
<1>2. Len(release.buf) = 0
  BY <1>0, <1>1 DEF IInv, TypeOK
<1>3. release.buf = <<>>
  BY <1>0, <1>2, EmptySeq
<1>4. Pending' = Pending
  BY <1>0, <1>3, ConcatEmptySeq DEF Swap, Pending
<1> QED  BY <1>4 DEF Swap, history, Allowed, Channel!vars

LEMMA ConnectChargeAllowed == ASSUME IInv, ConnectCharge PROVE Allowed
<1>1. ~flag /\ release.buf = <<>>
  BY DEF IInv, Exclusion, Connecting, ConnectCharge
<1>2. Pending = <<>> /\ Pending' = <<>>
  <2>1. <<>> \o <<>> = <<>>
    BY EmptySeq, ConcatEmptySeq
  <2> QED  BY <1>1, <2>1 DEF ConnectCharge, Connected, Pending
<1>3. Channel!ComeUp
  BY <1>1, <1>2 DEF ConnectCharge, history, Channel!ComeUp
<1> QED  BY <1>3 DEF Allowed, Channel!Next

\* With the flag down, the contexts are nothing to the channel.
LEMMA HiddenAllowed ==
  ASSUME UNCHANGED <<flag, next, applied>>,
         flag => charge'.buf = charge.buf /\ release'.buf = release.buf
  PROVE  Allowed
<1>1. Pending' = Pending
  BY DEF Pending
<1> QED  BY <1>1 DEF Allowed, Channel!vars

LEMMA StepAllowed == IInv /\ [Next]_vars => Allowed
<1> SUFFICES ASSUME IInv, [Next]_vars PROVE Allowed
  OBVIOUS
<1>1. CASE StartFlush
  BY <1>1, HiddenAllowed DEF StartFlush, contexts, history
<1>2. CASE LockContext \/ ConnectRelease \/ ConnectFails
  <2>1. ~flag
    BY <1>2 DEF IInv, Exclusion, LockContext, ConnectRelease, ConnectFails, ChargeMutexFree
  <2> QED  BY <1>2, <2>1, HiddenAllowed DEF LockContext, ConnectRelease, ConnectFails, history
<1>3. CASE Break
  <2>1. charge'.buf = charge.buf /\ release'.buf = release.buf
    BY <1>3 DEF IInv, TypeOK, Context, Break
  <2> QED  BY <1>3, <2>1, HiddenAllowed DEF Break
<1>4. ASSUME NEW h \in Handler, Check(h) \/ AppendToNull(h) PROVE Allowed
  BY <1>4, HiddenAllowed DEF Check, AppendToNull, contexts, history
<1>5. CASE UNCHANGED vars
  BY <1>5, HiddenAllowed DEF vars, contexts, history
<1> QED
  BY <1>1, <1>2, <1>3, <1>4, <1>5, AppendCommandAllowed, FlushReplyAllowed, FlushFailsAllowed,
     SwapAllowed, ConnectChargeAllowed DEF Next, SendToRedis, DoConnection, Handle

(***************************************************************************)
(* Over any number of swaps, broken connections and reconnections, the     *)
(* pipeline of RedisManager is one channel that loses commands only when   *)
(* it goes down and while it is down.                                      *)
(***************************************************************************)
THEOREM PipelineImplementsChannel == Spec => ImplementsChannel
<1>1. Init => Channel!Init
  <2>1. <<>> \o <<>> = <<>>
    BY EmptySeq, ConcatEmptySeq
  <2>2. Init /\ flag => charge.buf = <<>> /\ release.buf = <<>>
    BY DEF Init, Connected
  <2>3. Init => Pending = <<>>
    BY <2>1, <2>2, Zenon DEF Pending
  <2>4. Init => flag \in BOOLEAN
    BY DEF Init
  <2> QED  BY <2>3, <2>4 DEF Init, Channel!Init
<1>2. IInv /\ [Next]_vars => [Channel!Next]_(Channel!vars)
  BY StepAllowed DEF Allowed
<1> QED  BY <1>1, <1>2, Invariance, PTL DEF Spec, ImplementsChannel, Channel!Spec
=============================================================================
