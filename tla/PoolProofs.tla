----------------------------- MODULE PoolProofs -----------------------------
(***************************************************************************)
(* Safety of the process pool for every set of processes, goroutines and   *)
(* requests, every pool size and every breaker limit; and below, of its    *)
(* request registry.                                                       *)
(***************************************************************************)
EXTENDS Pool, Pending, TLAPS, SequenceTheorems

(***************************************************************************)
(* The channel Warm as a sequence.                                         *)
(***************************************************************************)

\* Sending on the channel adds one process to its contents.
LEMMA AppendElements ==
    ASSUME NEW S, NEW q \in Seq(S), NEW p \in S
    PROVE  /\ Append(q, p) \in Seq(S)
           /\ Elements(Append(q, p)) = Elements(q) \cup {p}
           /\ Distinct(q) /\ p \notin Elements(q) => Distinct(Append(q, p))
<1> DEFINE r == Append(q, p)
<1>1. /\ r \in Seq(S) /\ Len(r) = Len(q) + 1
      /\ \A i \in 1..Len(q) : r[i] = q[i]
      /\ r[Len(q) + 1] = p
  BY AppendProperties
<1>2. /\ Len(q) \in Nat /\ DOMAIN q = 1..Len(q) /\ DOMAIN r = 1..(Len(q) + 1)
  BY <1>1, LenProperties
<1> HIDE DEF r
<1>3. ASSUME NEW x PROVE x \in Elements(r) <=> x \in Elements(q) \cup {p}
  BY <1>1, <1>2 DEF Elements
<1>4. ASSUME Distinct(q), p \notin Elements(q) PROVE Distinct(r)
  BY <1>1, <1>2, <1>4 DEF Distinct, Elements
<1>5. QED
  BY <1>1, <1>3, <1>4 DEF r

\* Receiving takes the oldest process out and leaves the others.
LEMMA TailElements ==
    ASSUME NEW S, NEW q \in Seq(S), q # <<>>
    PROVE  /\ Tail(q) \in Seq(S) /\ Head(q) \in S
           /\ Elements(q) = Elements(Tail(q)) \cup {Head(q)}
           /\ Distinct(q) => Distinct(Tail(q)) /\ Head(q) \notin Elements(Tail(q))
<1> DEFINE r == Tail(q)
           x0 == Head(q)
<1>1. /\ r \in Seq(S) /\ x0 \in S /\ Len(r) = Len(q) - 1
      /\ \A i \in 1..Len(r) : r[i] = q[i + 1]
  BY HeadTailProperties
<1>2. /\ Len(q) \in Nat \ {0} /\ x0 = q[1]
      /\ DOMAIN q = 1..Len(q) /\ DOMAIN r = 1..(Len(q) - 1)
  BY <1>1, LenProperties, EmptySeq
<1> HIDE DEF r, x0
<1>3. ASSUME NEW i \in 1..Len(q), i # 1
      PROVE  i - 1 \in 1..(Len(q) - 1) /\ r[i - 1] = q[i]
  BY <1>1, <1>2, <1>3
<1>4. ASSUME NEW j \in 1..(Len(q) - 1)
      PROVE  j + 1 \in 1..Len(q) /\ j + 1 # 1 /\ r[j] = q[j + 1]
  BY <1>1, <1>2
<1>5. ASSUME NEW x \in Elements(q) PROVE x \in Elements(r) \cup {x0}
  <2>1. PICK i \in 1..Len(q) : x = q[i]
    BY <1>2 DEF Elements
  <2>2. CASE i = 1
    BY <1>2, <2>1, <2>2
  <2>3. CASE i # 1
    BY <1>2, <1>3, <2>1, <2>3 DEF Elements
  <2>4. QED BY <2>2, <2>3
<1>6. ASSUME NEW x \in Elements(r) \cup {x0} PROVE x \in Elements(q)
  <2>1. CASE x = x0
    BY <1>2, <2>1 DEF Elements
  <2>2. CASE x \in Elements(r)
    <3>1. PICK j \in 1..(Len(q) - 1) : x = r[j]
      BY <1>2, <2>2 DEF Elements
    <3>2. QED BY <1>2, <1>4, <3>1 DEF Elements
  <2>3. QED BY <2>1, <2>2
<1>7. ASSUME Distinct(q) PROVE Distinct(r) /\ x0 \notin Elements(r)
  <2>1. ASSUME NEW j \in 1..(Len(q) - 1), NEW k \in 1..(Len(q) - 1), r[j] = r[k]
        PROVE  j = k
    <3>1. j + 1 = k + 1
      BY <1>2, <1>4, <1>7, <2>1 DEF Distinct
    <3>2. QED BY <3>1
  <2>2. ASSUME NEW j \in 1..(Len(q) - 1) PROVE r[j] # x0
    BY <1>2, <1>4, <1>7 DEF Distinct
  <2>3. QED BY <1>2, <2>1, <2>2 DEF Distinct, Elements
<1>8. Elements(q) = Elements(r) \cup {x0}
  BY <1>5, <1>6
<1>9. QED
  BY <1>1, <1>7, <1>8 DEF r, x0

(***************************************************************************)
(* The inductive invariant.                                                *)
(***************************************************************************)

\* A goroutine refers to a process exactly between taking and giving it away.
HeldProcesses ==
    /\ \A s \in Spawners :
          spc[s] \in {"spawned", "handshake", "push"} <=> sproc[s] # NoProc
    /\ \A h \in Handlers :
          hpc[h] \in {"count", "write", "use", "return", "offer", "push"} <=> hproc[h] # NoProc

\* The wait group counts the goroutines that run, not those a timer will start.
WaitGroupIsExact == wg = {s \in Spawners : spc[s] \notin {"off", "timer"}}

\* Shutdown sets closed before it closes the channel.
ClosesAfterClosed == warmClosed => closed

IndInv ==
    /\ TypeOK /\ HeldProcesses /\ WaitGroupIsExact
    /\ ClosesAfterClosed /\ SpawnersSendOnOpenChannel /\ ExclusiveUse /\ NoOrphans

\* A receive gives the handler a process, never nil.
LEMMA ReceiveTypes ==
    ASSUME TypeOK, NEW h \in Handlers, NEW pt, Receive(h, pt)
    PROVE  /\ warm' \in Seq(Procs) /\ Head(warm) \in Procs
           /\ hproc' = [hproc EXCEPT ![h] = Head(warm)]
           /\ hproc' \in [Handlers -> Procs \cup {NoProc}]
<1>1. warm' \in Seq(Procs) /\ Head(warm) \in Procs
  BY TailElements DEF TypeOK, Receive
<1>2. QED
  BY <1>1 DEF TypeOK, Receive

\* The kind that a handler without a request keeps is one of them.
LEMMA CallIsAKind == "call" \in AllKinds
BY DEF AllKinds

\* Each step keeps the types: in particular no nil process enters Warm.
LEMMA TypeStep ==
    ASSUME TypeOK, HeldProcesses, [Next]_vars
    PROVE  TypeOK'
<1>1. ASSUME NEW s \in Spawners, SpawnStep(s) PROVE TypeOK'
  <2>1. CASE SpawnStart(s)
    BY <2>1 DEF SpawnStart, Exit, Goto, TypeOK, spawnVars, handlerVars, others
  <2>2. CASE AcquireSlot(s)
    BY <2>2 DEF AcquireSlot, TypeOK, spawnVars, handlerVars, others
  <2>3. CASE SlotTimeout(s)
    BY <2>3 DEF SlotTimeout, Exit, Goto, TypeOK, spawnVars, handlerVars, others
  <2>4. CASE CheckClosed(s)
    BY <2>4 DEF CheckClosed, Exit, Goto, TypeOK, spawnVars, handlerVars, others
  <2>5. CASE SpawnFails(s)
    BY <2>5 DEF SpawnFails, Exit, CountFailure, TypeOK, spawnVars, handlerVars, others
  <2>6. CASE SpawnProcess(s)
    BY <2>6 DEF SpawnProcess, TypeOK, spawnVars, handlerVars, others
  <2>7. CASE AfterSpawn(s)
    BY <2>7 DEF AfterSpawn, Exit, Goto, TypeOK, spawnVars, handlerVars, others
  <2>8. CASE HandshakeAnswered(s)
    BY <2>8 DEF HandshakeAnswered, Goto, TypeOK, spawnVars, handlerVars, others
  <2>9. CASE HandshakeChannelClosed(s)
    BY <2>9 DEF HandshakeChannelClosed, Goto, TypeOK, spawnVars, handlerVars, others
  <2>10. CASE HandshakeTimeout(s)
    BY <2>10
      DEF HandshakeTimeout, Exit, CountFailure, TypeOK, spawnVars, handlerVars, others
  <2>11. CASE PushWarm(s)
    <3>1. sproc[s] \in Procs
      BY <2>11 DEF PushWarm, TypeOK, HeldProcesses, others
    <3>2. warm' \in Seq(Procs)
      BY <2>11, <3>1, AppendElements DEF PushWarm, TypeOK, others
    <3>3. QED
      BY <2>11, <3>2 DEF PushWarm, TypeOK, handlerVars, others
  <2>12. CASE SpawnDone(s)
    BY <2>12 DEF SpawnDone, Exit, TypeOK, spawnVars, handlerVars, others
  <2>13. CASE TimerFires(s)
    BY <2>13 DEF TimerFires, TypeOK, spawnVars, handlerVars, others
  <2>14. QED
    BY <1>1, <2>1, <2>2, <2>3, <2>4, <2>5, <2>6, <2>7, <2>8, <2>9, <2>10, <2>11,
       <2>12, <2>13
      DEF SpawnStep
<1>2. ASSUME NEW h \in Handlers, HandlerStep(h) PROVE TypeOK'
  <2>1. CASE TryAcquireWarm(h)
    <3>1. CASE Receive(h, "count")
      BY <2>1, <3>1, ReceiveTypes DEF TryAcquireWarm, Receive, TypeOK, spawnVars, others
    <3>2. CASE \E pt \in {"decide", "idle", "panicked"} : HandlerGoto(h, pt) /\ UNCHANGED warm
      BY <2>1, <3>2, CallIsAKind DEF TryAcquireWarm, HandlerGoto, TypeOK, spawnVars, others
    <3>3. QED
      BY <2>1, <3>1, <3>2 DEF TryAcquireWarm
  <2>2. CASE DecideSpawn(h)
    <3>1. CASE spc' = spc /\ wg' = wg
      BY <2>2, <3>1 DEF DecideSpawn, HandlerGoto, TypeOK, others
    <3>2. CASE \E s \in Spawners : Launch(s)
      <4>1. PICK s \in Spawners : Launch(s)
        BY <3>2
      <4>2. QED
        BY <2>2, <4>1 DEF DecideSpawn, Launch, HandlerGoto, TypeOK, others
    <3>3. QED
      BY <2>2, <3>1, <3>2 DEF DecideSpawn
  <2>3. CASE WaitForWarmWithMax(h)
    BY <2>3, CallIsAKind DEF WaitForWarmWithMax, HandlerGoto, TypeOK, spawnVars, others
  <2>4. CASE WaitForWarm(h)
    BY <2>4, CallIsAKind DEF WaitForWarm, HandlerGoto, TypeOK, spawnVars, handlerVars, others
  <2>5. CASE ReceiveWarm(h)
    <3>1. CASE Receive(h, "write")
      BY <2>5, <3>1, ReceiveTypes DEF ReceiveWarm, Receive, TypeOK, spawnVars, others
    <3>2. CASE \E pt \in {"decide", "idle", "panicked"} : HandlerGoto(h, pt) /\ UNCHANGED warm
      BY <2>5, <3>2, CallIsAKind DEF ReceiveWarm, HandlerGoto, TypeOK, spawnVars, others
    <3>3. QED
      BY <2>5, <3>1, <3>2 DEF ReceiveWarm
  <2>6. CASE Reply(h)
    BY <2>6 DEF Reply, GiveBack, HandlerGoto, TypeOK, spawnVars, handlerVars, others
  <2>7. CASE ResponseClosed(h)
    BY <2>7, CallIsAKind
      DEF ResponseClosed, GiveBack, HandlerGoto, HandlerEnds, TypeOK, spawnVars,
          handlerVars, others
  <2>8. CASE RequestTimeout(h)
    BY <2>8, CallIsAKind
      DEF RequestTimeout, GiveBack, HandlerGoto, HandlerEnds, TypeOK, spawnVars,
          handlerVars, others
  <2>9. CASE ReleaseWarm(h)
    <3>1. hproc[h] \in Procs
      BY <2>9 DEF ReleaseWarm, TypeOK, HeldProcesses, others
    <3>2. warm' \in Seq(Procs)
      <4>1. warm \in Seq(Procs) /\ Append(warm, hproc[h]) \in Seq(Procs)
        BY <3>1, AppendElements DEF TypeOK
      <4>2. warm' \in {warm, Append(warm, hproc[h])}
        BY <2>9 DEF ReleaseWarm
      <4>3. QED
        BY <4>1, <4>2
    <3>3. QED
      BY <2>9, <3>2, CallIsAKind DEF ReleaseWarm, TypeOK, HandlerEnds, spawnVars, others
  <2>10. CASE SendWarm(h)
    <3>1. hproc[h] \in Procs
      BY <2>10 DEF SendWarm, TypeOK, HeldProcesses, others
    <3>2. warm' \in Seq(Procs)
      <4>1. warm \in Seq(Procs) /\ Append(warm, hproc[h]) \in Seq(Procs)
        BY <3>1, AppendElements DEF TypeOK
      <4>2. warm' \in {warm, Append(warm, hproc[h])}
        BY <2>10 DEF SendWarm
      <4>3. QED
        BY <4>1, <4>2
    <3>3. QED
      BY <2>10, <3>2, CallIsAKind DEF SendWarm, TypeOK, HandlerEnds, spawnVars, others
  <2>11. CASE PollWarm(h)
    <3>1. CASE Receive(h, "count")
      BY <2>11, <3>1, ReceiveTypes DEF PollWarm, Receive, TypeOK, spawnVars, others
    <3>2. CASE \E pt \in {"wait", "idle", "panicked"} : HandlerGoto(h, pt) /\ UNCHANGED warm
      BY <2>11, <3>2, CallIsAKind DEF PollWarm, HandlerGoto, TypeOK, spawnVars, others
    <3>3. QED
      BY <2>11, <3>1, <3>2 DEF PollWarm
  <2>12. CASE CountSize(h)
    BY <2>12 DEF CountSize, HandlerGoto, TypeOK, spawnVars, others
  <2>13. CASE DrainWarm(h)
    <3>1. CASE warm # <<>> /\ drained' = Append(drained, Head(warm)) /\ warm' = Tail(warm)
      <4>1. warm' \in Seq(Procs) /\ drained' \in Seq(Procs)
        BY <3>1, TailElements, AppendElements DEF TypeOK
      <4>2. UNCHANGED handlerVars
        BY <2>13, <3>1 DEF DrainWarm
      <4>3. QED
        BY <2>13, <4>1, <4>2 DEF DrainWarm, TypeOK, spawnVars, handlerVars
    <3>2. CASE HandlerGoto(h, "refill") /\ UNCHANGED <<warm, drained>>
      BY <2>13, <3>2 DEF DrainWarm, HandlerGoto, TypeOK, spawnVars
    <3>3. QED
      BY <2>13, <3>1, <3>2 DEF DrainWarm
  <2>14. CASE RefillWarm(h)
    <3>1. CASE /\ \E pt \in {"idle", "panicked"} : HandlerEnds(h, pt)
               /\ drained' = <<>> /\ UNCHANGED warm
      BY <2>14, <3>1, EmptySeq, CallIsAKind DEF RefillWarm, HandlerEnds, TypeOK, spawnVars
    <3>2. CASE /\ drained # <<>> /\ warm' = Append(warm, Head(drained))
               /\ drained' = Tail(drained) /\ UNCHANGED handlerVars
      <4>1. warm' \in Seq(Procs) /\ drained' \in Seq(Procs)
        BY <3>2, TailElements, AppendElements DEF TypeOK
      <4>2. QED
        BY <2>14, <3>2, <4>1 DEF RefillWarm, TypeOK, spawnVars, handlerVars
    <3>3. QED
      BY <2>14, <3>1, <3>2 DEF RefillWarm
  <2>15. QED
    BY <1>2, <2>1, <2>2, <2>3, <2>4, <2>5, <2>6, <2>7, <2>8, <2>9, <2>10, <2>11,
       <2>12, <2>13, <2>14
      DEF HandlerStep
<1>3. ASSUME NEW h \in Handlers, NEW k \in Kinds, Arrive(h, k) PROVE TypeOK'
  BY KindsAssumption, BoundsAssumption, <1>3
    DEF Arrive, UsesRetry, UsesWait, AllKinds, TypeOK, spawnVars, handlerVars, others
<1>4. CASE ResetSpawnAttempts
  <2>1. CASE spc' = spc /\ wg' = wg
    BY <1>4, <2>1, BoundsAssumption DEF ResetSpawnAttempts, TypeOK, handlerVars
  <2>2. CASE \E s \in Spawners : Launch(s)
    <3>1. PICK s \in Spawners : Launch(s)
      BY <2>2
    <3>2. QED
      BY <1>4, <3>1, BoundsAssumption
        DEF ResetSpawnAttempts, Launch, TypeOK, handlerVars
  <2>3. QED
    BY <1>4, <2>1, <2>2 DEF ResetSpawnAttempts
<1>5. CASE ShutdownBegin
  BY <1>5 DEF ShutdownBegin, TypeOK, spawnVars, handlerVars, others
<1>6. CASE ShutdownEnd
  BY <1>6 DEF ShutdownEnd, TypeOK, spawnVars, handlerVars, others
<1>7. ASSUME NEW p \in Procs, Crash(p) PROVE TypeOK'
  BY <1>7 DEF Crash, TypeOK, spawnVars, handlerVars, others
<1>8. CASE UNCHANGED vars
  BY <1>8 DEF vars, TypeOK, spawnVars, handlerVars
<1>9. ASSUME NEW h \in Handlers, StdinWrite(h)
      PROVE  TypeOK'
  BY <1>9 DEF StdinWrite, HandlerGoto, TypeOK, spawnVars, others
<1>10. QED
  BY <1>1, <1>2, <1>3, <1>4, <1>5, <1>6, <1>7, <1>8, <1>9 DEF Next

\* Each step moves program counters and processes together.
LEMMA HeldStep ==
    ASSUME TypeOK, HeldProcesses, [Next]_vars
    PROVE  HeldProcesses'
<1>1. ASSUME NEW s \in Spawners, SpawnStep(s) PROVE HeldProcesses'
  <2>1. CASE SpawnStart(s)
    BY <2>1
      DEF SpawnStart, Exit, Goto, TypeOK, HeldProcesses, spawnVars, handlerVars
  <2>2. CASE AcquireSlot(s)
    BY <2>2 DEF AcquireSlot, TypeOK, HeldProcesses, spawnVars, handlerVars
  <2>3. CASE SlotTimeout(s)
    BY <2>3
      DEF SlotTimeout, Exit, Goto, TypeOK, HeldProcesses, spawnVars, handlerVars
  <2>4. CASE CheckClosed(s)
    BY <2>4
      DEF CheckClosed, Exit, Goto, TypeOK, HeldProcesses, spawnVars, handlerVars
  <2>5. CASE SpawnFails(s)
    BY <2>5
      DEF SpawnFails, Exit, CountFailure, TypeOK, HeldProcesses, spawnVars, handlerVars
  <2>6. CASE SpawnProcess(s)
    BY SetsAssumption, <2>6
      DEF SpawnProcess, TypeOK, HeldProcesses, spawnVars, handlerVars
  <2>7. CASE AfterSpawn(s)
    BY <2>7
      DEF AfterSpawn, Exit, Goto, TypeOK, HeldProcesses, spawnVars, handlerVars
  <2>8. CASE HandshakeAnswered(s)
    BY <2>8
      DEF HandshakeAnswered, Goto, TypeOK, HeldProcesses, spawnVars, handlerVars
  <2>9. CASE HandshakeChannelClosed(s)
    BY <2>9
      DEF HandshakeChannelClosed, Goto, TypeOK, HeldProcesses, spawnVars, handlerVars
  <2>10. CASE HandshakeTimeout(s)
    BY <2>10
      DEF HandshakeTimeout, Exit, CountFailure, TypeOK, HeldProcesses, spawnVars,
          handlerVars
  <2>11. CASE PushWarm(s)
    BY <2>11 DEF PushWarm, TypeOK, HeldProcesses, spawnVars, handlerVars
  <2>12. CASE SpawnDone(s)
    BY <2>12 DEF SpawnDone, Exit, TypeOK, HeldProcesses, spawnVars, handlerVars
  <2>13. CASE TimerFires(s)
    BY <2>13 DEF TimerFires, TypeOK, HeldProcesses, spawnVars, handlerVars
  <2>14. QED
    BY <1>1, <2>1, <2>2, <2>3, <2>4, <2>5, <2>6, <2>7, <2>8, <2>9, <2>10, <2>11,
       <2>12, <2>13
      DEF SpawnStep
<1>2. ASSUME NEW h \in Handlers, HandlerStep(h) PROVE HeldProcesses'
  <2>1. CASE TryAcquireWarm(h)
    <3>1. CASE Receive(h, "count")
      BY <2>1, <3>1, ReceiveTypes, SetsAssumption
        DEF TryAcquireWarm, Receive, TypeOK, HeldProcesses, spawnVars
    <3>2. CASE \E pt \in {"decide", "idle", "panicked"} : HandlerGoto(h, pt) /\ UNCHANGED warm
      BY <2>1, <3>2 DEF TryAcquireWarm, HandlerGoto, TypeOK, HeldProcesses, spawnVars
    <3>3. QED
      BY <2>1, <3>1, <3>2 DEF TryAcquireWarm
  <2>2. CASE DecideSpawn(h)
    <3>1. CASE spc' = spc /\ wg' = wg
      BY <2>2, <3>1 DEF DecideSpawn, HandlerGoto, TypeOK, HeldProcesses
    <3>2. CASE \E s \in Spawners : Launch(s)
      <4>1. PICK s \in Spawners : Launch(s)
        BY <3>2
      <4>2. QED
        BY <2>2, <4>1 DEF DecideSpawn, Launch, HandlerGoto, TypeOK, HeldProcesses
    <3>3. QED
      BY <2>2, <3>1, <3>2 DEF DecideSpawn
  <2>3. CASE WaitForWarmWithMax(h)
    BY <2>3 DEF WaitForWarmWithMax, HandlerGoto, TypeOK, HeldProcesses, spawnVars
  <2>4. CASE WaitForWarm(h)
    BY <2>4
      DEF WaitForWarm, HandlerGoto, TypeOK, HeldProcesses, spawnVars, handlerVars
  <2>5. CASE ReceiveWarm(h)
    <3>1. CASE Receive(h, "write")
      BY <2>5, <3>1, ReceiveTypes, SetsAssumption
        DEF ReceiveWarm, Receive, TypeOK, HeldProcesses, spawnVars
    <3>2. CASE \E pt \in {"decide", "idle", "panicked"} : HandlerGoto(h, pt) /\ UNCHANGED warm
      BY <2>5, <3>2 DEF ReceiveWarm, HandlerGoto, TypeOK, HeldProcesses, spawnVars
    <3>3. QED
      BY <2>5, <3>1, <3>2 DEF ReceiveWarm
  <2>6. CASE Reply(h)
    BY <2>6
      DEF Reply, GiveBack, HandlerGoto, TypeOK, HeldProcesses, spawnVars, handlerVars
  <2>7. CASE ResponseClosed(h)
    BY <2>7
      DEF ResponseClosed, GiveBack, HandlerGoto, HandlerEnds, TypeOK, HeldProcesses,
          spawnVars, handlerVars
  <2>8. CASE RequestTimeout(h)
    BY <2>8
      DEF RequestTimeout, GiveBack, HandlerGoto, HandlerEnds, TypeOK, HeldProcesses,
          spawnVars, handlerVars
  <2>9. CASE ReleaseWarm(h)
    BY <2>9
      DEF ReleaseWarm, HandlerEnds, TypeOK, HeldProcesses, spawnVars, handlerVars
  <2>10. CASE SendWarm(h)
    BY <2>10
      DEF SendWarm, HandlerEnds, TypeOK, HeldProcesses, spawnVars, handlerVars
  <2>11. CASE PollWarm(h)
    <3>1. CASE Receive(h, "count")
      BY <2>11, <3>1, ReceiveTypes, SetsAssumption
        DEF PollWarm, Receive, TypeOK, HeldProcesses, spawnVars
    <3>2. CASE \E pt \in {"wait", "idle", "panicked"} : HandlerGoto(h, pt) /\ UNCHANGED warm
      BY <2>11, <3>2
        DEF PollWarm, HandlerGoto, TypeOK, HeldProcesses, spawnVars
    <3>3. QED
      BY <2>11, <3>1, <3>2 DEF PollWarm
  <2>12. CASE CountSize(h)
    BY <2>12 DEF CountSize, HandlerGoto, TypeOK, HeldProcesses, spawnVars
  <2>13. CASE DrainWarm(h)
    BY <2>13 DEF DrainWarm, HandlerGoto, TypeOK, HeldProcesses, spawnVars, handlerVars
  <2>14. CASE RefillWarm(h)
    BY <2>14 DEF RefillWarm, HandlerEnds, TypeOK, HeldProcesses, spawnVars, handlerVars
  <2>15. QED
    BY <1>2, <2>1, <2>2, <2>3, <2>4, <2>5, <2>6, <2>7, <2>8, <2>9, <2>10, <2>11,
       <2>12, <2>13, <2>14
      DEF HandlerStep
<1>3. ASSUME NEW h \in Handlers, NEW k \in Kinds, Arrive(h, k) PROVE HeldProcesses'
  BY KindsAssumption, <1>3
    DEF Arrive, UsesRetry, UsesWait, AllKinds, TypeOK, HeldProcesses, spawnVars,
        handlerVars
<1>4. CASE ResetSpawnAttempts
  <2>1. CASE spc' = spc /\ wg' = wg
    BY <1>4, <2>1 DEF ResetSpawnAttempts, TypeOK, HeldProcesses, handlerVars
  <2>2. CASE \E s \in Spawners : Launch(s)
    <3>1. PICK s \in Spawners : Launch(s)
      BY <2>2
    <3>2. QED
      BY <1>4, <3>1 DEF ResetSpawnAttempts, Launch, TypeOK, HeldProcesses, handlerVars
  <2>3. QED
    BY <1>4, <2>1, <2>2 DEF ResetSpawnAttempts
<1>5. CASE ShutdownBegin
  BY <1>5 DEF ShutdownBegin, TypeOK, HeldProcesses, spawnVars, handlerVars
<1>6. CASE ShutdownEnd
  BY <1>6 DEF ShutdownEnd, TypeOK, HeldProcesses, spawnVars, handlerVars
<1>7. ASSUME NEW p \in Procs, Crash(p) PROVE HeldProcesses'
  BY <1>7 DEF Crash, TypeOK, HeldProcesses, spawnVars, handlerVars
<1>8. CASE UNCHANGED vars
  BY <1>8 DEF vars, TypeOK, HeldProcesses, spawnVars, handlerVars
<1>9. ASSUME NEW h \in Handlers, StdinWrite(h)
      PROVE  HeldProcesses'
  BY <1>9 DEF StdinWrite, HandlerGoto, TypeOK, HeldProcesses, spawnVars
<1>10. QED
  BY <1>1, <1>2, <1>3, <1>4, <1>5, <1>6, <1>7, <1>8, <1>9 DEF Next

\* Each step keeps the wait group exact, retry timers included.
LEMMA WaitGroupStep ==
    ASSUME TypeOK, WaitGroupIsExact, [Next]_vars
    PROVE  WaitGroupIsExact'
<1>1. ASSUME NEW s \in Spawners, SpawnStep(s) PROVE WaitGroupIsExact'
  <2>1. CASE SpawnStart(s)
    BY <2>1 DEF SpawnStart, Exit, Goto, TypeOK, WaitGroupIsExact, spawnVars
  <2>2. CASE AcquireSlot(s)
    BY <2>2 DEF AcquireSlot, TypeOK, WaitGroupIsExact, spawnVars
  <2>3. CASE SlotTimeout(s)
    BY <2>3 DEF SlotTimeout, Exit, Goto, TypeOK, WaitGroupIsExact, spawnVars
  <2>4. CASE CheckClosed(s)
    BY <2>4 DEF CheckClosed, Exit, Goto, TypeOK, WaitGroupIsExact, spawnVars
  <2>5. CASE SpawnFails(s)
    BY <2>5
      DEF SpawnFails, Exit, CountFailure, TypeOK, WaitGroupIsExact, spawnVars
  <2>6. CASE SpawnProcess(s)
    BY <2>6 DEF SpawnProcess, TypeOK, WaitGroupIsExact, spawnVars
  <2>7. CASE AfterSpawn(s)
    BY <2>7 DEF AfterSpawn, Exit, Goto, TypeOK, WaitGroupIsExact, spawnVars
  <2>8. CASE HandshakeAnswered(s)
    BY <2>8 DEF HandshakeAnswered, Goto, TypeOK, WaitGroupIsExact, spawnVars
  <2>9. CASE HandshakeChannelClosed(s)
    BY <2>9 DEF HandshakeChannelClosed, Goto, TypeOK, WaitGroupIsExact, spawnVars
  <2>10. CASE HandshakeTimeout(s)
    BY <2>10
      DEF HandshakeTimeout, Exit, CountFailure, TypeOK, WaitGroupIsExact, spawnVars
  <2>11. CASE PushWarm(s)
    BY <2>11 DEF PushWarm, TypeOK, WaitGroupIsExact, spawnVars
  <2>12. CASE SpawnDone(s)
    BY <2>12 DEF SpawnDone, Exit, TypeOK, WaitGroupIsExact, spawnVars
  <2>13. CASE TimerFires(s)
    BY <2>13 DEF TimerFires, TypeOK, WaitGroupIsExact, spawnVars
  <2>14. QED
    BY <1>1, <2>1, <2>2, <2>3, <2>4, <2>5, <2>6, <2>7, <2>8, <2>9, <2>10, <2>11,
       <2>12, <2>13
      DEF SpawnStep
<1>2. ASSUME NEW h \in Handlers, HandlerStep(h) PROVE WaitGroupIsExact'
  <2>1. CASE TryAcquireWarm(h)
    BY <2>1
      DEF TryAcquireWarm, TypeOK, WaitGroupIsExact, spawnVars
  <2>2. CASE DecideSpawn(h)
    <3>1. CASE spc' = spc /\ wg' = wg
      BY <2>2, <3>1 DEF DecideSpawn, TypeOK, WaitGroupIsExact
    <3>2. CASE \E s \in Spawners : Launch(s)
      <4>1. PICK s \in Spawners : Launch(s)
        BY <3>2
      <4>2. QED
        BY <2>2, <4>1 DEF DecideSpawn, Launch, TypeOK, WaitGroupIsExact
    <3>3. QED
      BY <2>2, <3>1, <3>2 DEF DecideSpawn
  <2>3. CASE WaitForWarmWithMax(h)
    BY <2>3 DEF WaitForWarmWithMax, HandlerGoto, TypeOK, WaitGroupIsExact, spawnVars
  <2>4. CASE WaitForWarm(h)
    BY <2>4 DEF WaitForWarm, TypeOK, WaitGroupIsExact, spawnVars
  <2>5. CASE ReceiveWarm(h)
    BY <2>5
      DEF ReceiveWarm, TypeOK, WaitGroupIsExact, spawnVars
  <2>6. CASE Reply(h)
    BY <2>6 DEF Reply, TypeOK, WaitGroupIsExact, spawnVars
  <2>7. CASE ResponseClosed(h)
    BY <2>7
      DEF ResponseClosed, TypeOK, WaitGroupIsExact, spawnVars
  <2>8. CASE RequestTimeout(h)
    BY <2>8
      DEF RequestTimeout, TypeOK, WaitGroupIsExact, spawnVars
  <2>9. CASE ReleaseWarm(h)
    BY <2>9 DEF ReleaseWarm, TypeOK, WaitGroupIsExact, spawnVars
  <2>10. CASE SendWarm(h)
    BY <2>10 DEF SendWarm, TypeOK, WaitGroupIsExact, spawnVars
  <2>11. CASE PollWarm(h)
    BY <2>11
      DEF PollWarm, TypeOK, WaitGroupIsExact, spawnVars
  <2>12. CASE CountSize(h)
    BY <2>12 DEF CountSize, HandlerGoto, TypeOK, WaitGroupIsExact, spawnVars
  <2>13. CASE DrainWarm(h)
    BY <2>13 DEF DrainWarm, TypeOK, WaitGroupIsExact, spawnVars
  <2>14. CASE RefillWarm(h)
    BY <2>14 DEF RefillWarm, TypeOK, WaitGroupIsExact, spawnVars
  <2>15. QED
    BY <1>2, <2>1, <2>2, <2>3, <2>4, <2>5, <2>6, <2>7, <2>8, <2>9, <2>10, <2>11,
       <2>12, <2>13, <2>14
      DEF HandlerStep
<1>3. ASSUME NEW h \in Handlers, NEW k \in Kinds, Arrive(h, k) PROVE WaitGroupIsExact'
  BY <1>3 DEF Arrive, TypeOK, WaitGroupIsExact, spawnVars
<1>4. CASE ResetSpawnAttempts
  <2>1. CASE spc' = spc /\ wg' = wg
    BY <1>4, <2>1 DEF ResetSpawnAttempts, TypeOK, WaitGroupIsExact
  <2>2. CASE \E s \in Spawners : Launch(s)
    <3>1. PICK s \in Spawners : Launch(s)
      BY <2>2
    <3>2. QED
      BY <1>4, <3>1 DEF ResetSpawnAttempts, Launch, TypeOK, WaitGroupIsExact
  <2>3. QED
    BY <1>4, <2>1, <2>2 DEF ResetSpawnAttempts
<1>5. CASE ShutdownBegin
  BY <1>5 DEF ShutdownBegin, TypeOK, WaitGroupIsExact, spawnVars
<1>6. CASE ShutdownEnd
  BY <1>6 DEF ShutdownEnd, TypeOK, WaitGroupIsExact, spawnVars
<1>7. ASSUME NEW p \in Procs, Crash(p) PROVE WaitGroupIsExact'
  BY <1>7 DEF Crash, TypeOK, WaitGroupIsExact, spawnVars
<1>8. CASE UNCHANGED vars
  BY <1>8 DEF vars, TypeOK, WaitGroupIsExact, spawnVars
<1>9. ASSUME NEW h \in Handlers, StdinWrite(h)
      PROVE  WaitGroupIsExact'
  BY <1>9 DEF StdinWrite, HandlerGoto, TypeOK, WaitGroupIsExact, spawnVars
<1>10. QED
  BY <1>1, <1>2, <1>3, <1>4, <1>5, <1>6, <1>7, <1>8, <1>9 DEF Next

\* Each step keeps the order of Shutdown: closed, then no goroutine past its
\* first check, then the channel closed.
LEMMA CloseStep ==
    ASSUME TypeOK, WaitGroupIsExact, ClosesAfterClosed, SpawnersSendOnOpenChannel, [Next]_vars
    PROVE  (ClosesAfterClosed /\ SpawnersSendOnOpenChannel)'
<1>1. ASSUME NEW s \in Spawners, SpawnStep(s)
      PROVE  (ClosesAfterClosed /\ SpawnersSendOnOpenChannel)'
  <2>1. CASE SpawnStart(s)
    BY <2>1
      DEF SpawnStart, Exit, Goto, TypeOK, ClosesAfterClosed, SpawnersSendOnOpenChannel,
          spawnVars
  <2>2. CASE AcquireSlot(s)
    BY <2>2
      DEF AcquireSlot, TypeOK, ClosesAfterClosed, SpawnersSendOnOpenChannel, spawnVars
  <2>3. CASE SlotTimeout(s)
    BY <2>3
      DEF SlotTimeout, Exit, Goto, TypeOK, ClosesAfterClosed, SpawnersSendOnOpenChannel,
          spawnVars
  <2>4. CASE CheckClosed(s)
    BY <2>4
      DEF CheckClosed, Exit, Goto, TypeOK, ClosesAfterClosed, SpawnersSendOnOpenChannel,
          spawnVars
  <2>5. CASE SpawnFails(s)
    BY <2>5
      DEF SpawnFails, Exit, CountFailure, TypeOK, ClosesAfterClosed,
          SpawnersSendOnOpenChannel, spawnVars
  <2>6. CASE SpawnProcess(s)
    BY <2>6
      DEF SpawnProcess, TypeOK, ClosesAfterClosed, SpawnersSendOnOpenChannel, spawnVars
  <2>7. CASE AfterSpawn(s)
    BY <2>7
      DEF AfterSpawn, Exit, Goto, TypeOK, ClosesAfterClosed, SpawnersSendOnOpenChannel,
          spawnVars
  <2>8. CASE HandshakeAnswered(s)
    BY <2>8
      DEF HandshakeAnswered, Goto, TypeOK, ClosesAfterClosed, SpawnersSendOnOpenChannel,
          spawnVars
  <2>9. CASE HandshakeChannelClosed(s)
    BY <2>9
      DEF HandshakeChannelClosed, Goto, TypeOK, ClosesAfterClosed,
          SpawnersSendOnOpenChannel, spawnVars
  <2>10. CASE HandshakeTimeout(s)
    BY <2>10
      DEF HandshakeTimeout, Exit, CountFailure, TypeOK, ClosesAfterClosed,
          SpawnersSendOnOpenChannel, spawnVars
  <2>11. CASE PushWarm(s)
    BY <2>11
      DEF PushWarm, TypeOK, ClosesAfterClosed, SpawnersSendOnOpenChannel, spawnVars
  <2>12. CASE SpawnDone(s)
    BY <2>12
      DEF SpawnDone, Exit, TypeOK, ClosesAfterClosed, SpawnersSendOnOpenChannel,
          spawnVars
  <2>13. CASE TimerFires(s)
    BY <2>13
      DEF TimerFires, TypeOK, ClosesAfterClosed, SpawnersSendOnOpenChannel, spawnVars
  <2>14. QED
    BY <1>1, <2>1, <2>2, <2>3, <2>4, <2>5, <2>6, <2>7, <2>8, <2>9, <2>10, <2>11,
       <2>12, <2>13
      DEF SpawnStep
<1>2. ASSUME NEW h \in Handlers, HandlerStep(h)
      PROVE  (ClosesAfterClosed /\ SpawnersSendOnOpenChannel)'
  <2>1. CASE TryAcquireWarm(h)
    BY <2>1
      DEF TryAcquireWarm, TypeOK, ClosesAfterClosed, SpawnersSendOnOpenChannel,
          spawnVars
  <2>2. CASE DecideSpawn(h)
    <3>1. CASE spc' = spc /\ wg' = wg
      BY <2>2, <3>1
        DEF DecideSpawn, TypeOK, ClosesAfterClosed, SpawnersSendOnOpenChannel
    <3>2. CASE \E s \in Spawners : Launch(s)
      <4>1. PICK s \in Spawners : Launch(s)
        BY <3>2
      <4>2. QED
        BY <2>2, <4>1
          DEF DecideSpawn, Launch, TypeOK, ClosesAfterClosed, SpawnersSendOnOpenChannel
    <3>3. QED
      BY <2>2, <3>1, <3>2 DEF DecideSpawn
  <2>3. CASE WaitForWarmWithMax(h)
    BY <2>3
      DEF WaitForWarmWithMax, HandlerGoto, TypeOK, ClosesAfterClosed, SpawnersSendOnOpenChannel,
          spawnVars
  <2>4. CASE WaitForWarm(h)
    BY <2>4
      DEF WaitForWarm, TypeOK, ClosesAfterClosed, SpawnersSendOnOpenChannel, spawnVars
  <2>5. CASE ReceiveWarm(h)
    BY <2>5
      DEF ReceiveWarm, TypeOK, ClosesAfterClosed, SpawnersSendOnOpenChannel, spawnVars
  <2>6. CASE Reply(h)
    BY <2>6
      DEF Reply, TypeOK, ClosesAfterClosed, SpawnersSendOnOpenChannel, spawnVars
  <2>7. CASE ResponseClosed(h)
    BY <2>7
      DEF ResponseClosed, TypeOK, ClosesAfterClosed, SpawnersSendOnOpenChannel,
          spawnVars
  <2>8. CASE RequestTimeout(h)
    BY <2>8
      DEF RequestTimeout, TypeOK, ClosesAfterClosed, SpawnersSendOnOpenChannel,
          spawnVars
  <2>9. CASE ReleaseWarm(h)
    BY <2>9
      DEF ReleaseWarm, TypeOK, ClosesAfterClosed, SpawnersSendOnOpenChannel, spawnVars
  <2>10. CASE SendWarm(h)
    BY <2>10
      DEF SendWarm, TypeOK, ClosesAfterClosed, SpawnersSendOnOpenChannel, spawnVars
  <2>11. CASE PollWarm(h)
    BY <2>11
      DEF PollWarm, TypeOK, ClosesAfterClosed, SpawnersSendOnOpenChannel,
          spawnVars
  <2>12. CASE CountSize(h)
    BY <2>12
      DEF CountSize, HandlerGoto, TypeOK, ClosesAfterClosed, SpawnersSendOnOpenChannel,
          spawnVars
  <2>13. CASE DrainWarm(h)
    BY <2>13 DEF DrainWarm, TypeOK, ClosesAfterClosed, SpawnersSendOnOpenChannel, spawnVars
  <2>14. CASE RefillWarm(h)
    BY <2>14 DEF RefillWarm, TypeOK, ClosesAfterClosed, SpawnersSendOnOpenChannel, spawnVars
  <2>15. QED
    BY <1>2, <2>1, <2>2, <2>3, <2>4, <2>5, <2>6, <2>7, <2>8, <2>9, <2>10, <2>11,
       <2>12, <2>13, <2>14
      DEF HandlerStep
<1>3. ASSUME NEW h \in Handlers, NEW k \in Kinds, Arrive(h, k)
      PROVE  (ClosesAfterClosed /\ SpawnersSendOnOpenChannel)'
  BY <1>3
    DEF Arrive, TypeOK, ClosesAfterClosed, SpawnersSendOnOpenChannel, spawnVars
<1>4. CASE ResetSpawnAttempts
  <2>1. CASE spc' = spc /\ wg' = wg
    BY <1>4, <2>1
      DEF ResetSpawnAttempts, TypeOK, ClosesAfterClosed, SpawnersSendOnOpenChannel
  <2>2. CASE \E s \in Spawners : Launch(s)
    <3>1. PICK s \in Spawners : Launch(s)
      BY <2>2
    <3>2. QED
      BY <1>4, <3>1
        DEF ResetSpawnAttempts, Launch, TypeOK, ClosesAfterClosed,
            SpawnersSendOnOpenChannel
  <2>3. QED
    BY <1>4, <2>1, <2>2 DEF ResetSpawnAttempts
<1>5. CASE ShutdownBegin
  BY <1>5
    DEF ShutdownBegin, TypeOK, ClosesAfterClosed, SpawnersSendOnOpenChannel, spawnVars
<1>6. CASE ShutdownEnd
  BY <1>6
    DEF ShutdownEnd, WaitGroupIsExact, TypeOK, ClosesAfterClosed,
        SpawnersSendOnOpenChannel, spawnVars
<1>7. ASSUME NEW p \in Procs, Crash(p)
      PROVE  (ClosesAfterClosed /\ SpawnersSendOnOpenChannel)'
  BY <1>7
    DEF Crash, TypeOK, ClosesAfterClosed, SpawnersSendOnOpenChannel, spawnVars
<1>8. CASE UNCHANGED vars
  BY <1>8
    DEF vars, TypeOK, ClosesAfterClosed, SpawnersSendOnOpenChannel, spawnVars
<1>9. ASSUME NEW h \in Handlers, StdinWrite(h)
      PROVE  (ClosesAfterClosed /\ SpawnersSendOnOpenChannel)'
  BY <1>9
    DEF StdinWrite, HandlerGoto, TypeOK, ClosesAfterClosed, SpawnersSendOnOpenChannel,
        spawnVars
<1>10. QED
  BY <1>1, <1>2, <1>3, <1>4, <1>5, <1>6, <1>7, <1>8, <1>9 DEF Next

\* What a receive does to the channel and to the handler.
LEMMA ReceiveMoves ==
    ASSUME TypeOK, NEW h \in Handlers, NEW pt, Receive(h, pt)
    PROVE  /\ Elements(warm) = Elements(warm') \cup {Head(warm)}
           /\ Distinct(warm) => Distinct(warm') /\ Head(warm) \notin Elements(warm')
  BY TailElements DEF TypeOK, Receive

\* A receive moves one process from Warm to its handler.
LEMMA ReceiveExclusive ==
    ASSUME TypeOK, ExclusiveUse, NEW h \in Handlers, NEW pt, Receive(h, pt),
           UNCHANGED <<sproc, drained>>
    PROVE  ExclusiveUse'
<1>1. PICK p : p = Head(warm)
  OBVIOUS
<1>2. /\ p \in Procs /\ p # NoProc
      /\ hproc'[h] = p /\ \A g \in Handlers : g # h => hproc'[g] = hproc[g]
  BY <1>1, ReceiveTypes, SetsAssumption DEF TypeOK
<1>3. /\ Elements(warm) = Elements(warm') \cup {p} /\ Distinct(warm')
      /\ p \notin Elements(warm')
  BY <1>1, ReceiveMoves DEF ExclusiveUse
<1>4. /\ p \notin Elements(drained)
      /\ \A s \in Spawners : sproc[s] # p
      /\ \A g \in Handlers : hproc[g] # p
  BY <1>2, <1>3 DEF ExclusiveUse
<1>5. (/\ Distinct(warm) /\ Distinct(drained)
       /\ Elements(warm) \cap Elements(drained) = {})'
  BY <1>3 DEF ExclusiveUse
<1>6. ASSUME NEW s \in Spawners, sproc'[s] # NoProc
      PROVE  (/\ sproc[s] \notin Elements(warm) \cup Elements(drained)
              /\ \A t \in Spawners : sproc[t] = sproc[s] => t = s
              /\ \A g \in Handlers : hproc[g] # sproc[s])'
  BY <1>2, <1>3, <1>4, <1>6 DEF ExclusiveUse
<1>7. ASSUME NEW f \in Handlers, hproc'[f] # NoProc
      PROVE  (/\ hproc[f] \notin Elements(warm) \cup Elements(drained)
              /\ \A g \in Handlers : hproc[g] = hproc[f] => g = f)'
  BY <1>2, <1>3, <1>4, <1>7 DEF ExclusiveUse
<1>8. QED BY <1>5, <1>6, <1>7 DEF ExclusiveUse

\* Each step keeps every process in one place.
LEMMA ExclusiveStep ==
    ASSUME TypeOK, HeldProcesses, ExclusiveUse, [Next]_vars
    PROVE  ExclusiveUse'
<1>1. ASSUME NEW s \in Spawners, SpawnStep(s) PROVE ExclusiveUse'
  <2>1. CASE SpawnStart(s)
    BY <2>1
      DEF SpawnStart, Exit, Goto, TypeOK, ExclusiveUse, spawnVars, handlerVars, others
  <2>2. CASE AcquireSlot(s)
    BY <2>2 DEF AcquireSlot, TypeOK, ExclusiveUse, spawnVars, handlerVars, others
  <2>3. CASE SlotTimeout(s)
    BY <2>3
      DEF SlotTimeout, Exit, Goto, TypeOK, ExclusiveUse, spawnVars, handlerVars, others
  <2>4. CASE CheckClosed(s)
    BY <2>4
      DEF CheckClosed, Exit, Goto, TypeOK, ExclusiveUse, spawnVars, handlerVars, others
  <2>5. CASE SpawnFails(s)
    BY <2>5
      DEF SpawnFails, Exit, CountFailure, TypeOK, ExclusiveUse, spawnVars, handlerVars, others
  <2>6. CASE SpawnProcess(s)
    BY <2>6 DEF SpawnProcess, Referenced, TypeOK, ExclusiveUse, spawnVars, handlerVars, others
  <2>7. CASE AfterSpawn(s)
    BY <2>7
      DEF AfterSpawn, Exit, Goto, TypeOK, ExclusiveUse, spawnVars, handlerVars, others
  <2>8. CASE HandshakeAnswered(s)
    BY <2>8
      DEF HandshakeAnswered, Goto, TypeOK, ExclusiveUse, spawnVars, handlerVars, others
  <2>9. CASE HandshakeChannelClosed(s)
    BY <2>9
      DEF HandshakeChannelClosed, Goto, TypeOK, ExclusiveUse, spawnVars, handlerVars, others
  <2>10. CASE HandshakeTimeout(s)
    BY <2>10
      DEF HandshakeTimeout, Exit, CountFailure, TypeOK, ExclusiveUse, spawnVars,
          handlerVars, others
  <2>11. CASE PushWarm(s)
    <3>1. sproc[s] \in Procs /\ sproc[s] # NoProc
      BY <2>11, SetsAssumption DEF PushWarm, TypeOK, HeldProcesses, others
    <3>2. CASE warm' = warm
      BY <2>11, <3>2 DEF PushWarm, TypeOK, ExclusiveUse, handlerVars, others
    <3>3. CASE warm' = Append(warm, sproc[s])
      <4>1. /\ Elements(warm') = Elements(warm) \cup {sproc[s]}
            /\ Distinct(warm) /\ sproc[s] \notin Elements(warm) => Distinct(warm')
        BY <3>1, <3>3, AppendElements DEF TypeOK
      <4>2. QED
        BY <2>11, <3>1, <4>1 DEF PushWarm, TypeOK, ExclusiveUse, handlerVars, others
    <3>4. QED
      BY <2>11, <3>2, <3>3 DEF PushWarm
  <2>12. CASE SpawnDone(s)
    BY <2>12 DEF SpawnDone, Exit, TypeOK, ExclusiveUse, spawnVars, handlerVars, others
  <2>13. CASE TimerFires(s)
    BY <2>13 DEF TimerFires, TypeOK, ExclusiveUse, spawnVars, handlerVars, others
  <2>14. QED
    BY <1>1, <2>1, <2>2, <2>3, <2>4, <2>5, <2>6, <2>7, <2>8, <2>9, <2>10, <2>11,
       <2>12, <2>13
      DEF SpawnStep
<1>2. ASSUME NEW h \in Handlers, HandlerStep(h) PROVE ExclusiveUse'
  <2>1. CASE TryAcquireWarm(h)
    <3>1. CASE Receive(h, "count")
      BY <2>1, <3>1, ReceiveExclusive DEF TryAcquireWarm, spawnVars, others
    <3>2. CASE \E pt \in {"decide", "idle", "panicked"} : HandlerGoto(h, pt) /\ UNCHANGED warm
      BY <2>1, <3>2 DEF TryAcquireWarm, HandlerGoto, ExclusiveUse, spawnVars, others
    <3>3. QED
      BY <2>1, <3>1, <3>2 DEF TryAcquireWarm
  <2>2. CASE DecideSpawn(h)
    BY <2>2
      DEF DecideSpawn, HandlerGoto, TypeOK, ExclusiveUse, spawnVars, handlerVars, others
  <2>3. CASE WaitForWarmWithMax(h)
    BY <2>3 DEF WaitForWarmWithMax, HandlerGoto, TypeOK, ExclusiveUse, spawnVars, others
  <2>4. CASE WaitForWarm(h)
    BY <2>4
      DEF WaitForWarm, HandlerGoto, TypeOK, ExclusiveUse, spawnVars, handlerVars, others
  <2>5. CASE ReceiveWarm(h)
    <3>1. CASE Receive(h, "write")
      BY <2>5, <3>1, ReceiveExclusive DEF ReceiveWarm, spawnVars, others
    <3>2. CASE \E pt \in {"decide", "idle", "panicked"} : HandlerGoto(h, pt) /\ UNCHANGED warm
      BY <2>5, <3>2 DEF ReceiveWarm, HandlerGoto, ExclusiveUse, spawnVars, others
    <3>3. QED
      BY <2>5, <3>1, <3>2 DEF ReceiveWarm
  <2>6. CASE Reply(h)
    BY <2>6
      DEF Reply, GiveBack, HandlerGoto, TypeOK, ExclusiveUse, spawnVars, handlerVars, others
  <2>7. CASE ResponseClosed(h)
    BY <2>7
      DEF ResponseClosed, GiveBack, HandlerGoto, HandlerEnds, TypeOK, ExclusiveUse,
          spawnVars, handlerVars, others
  <2>8. CASE RequestTimeout(h)
    BY <2>8
      DEF RequestTimeout, GiveBack, HandlerGoto, HandlerEnds, TypeOK, ExclusiveUse,
          spawnVars, handlerVars, others
  <2>9. CASE ReleaseWarm(h)
    <3>1. hproc[h] \in Procs /\ hproc[h] # NoProc
      BY <2>9, SetsAssumption DEF ReleaseWarm, TypeOK, HeldProcesses, others
    <3>2. CASE warm' = warm
      BY <2>9, <3>2 DEF ReleaseWarm, HandlerEnds, TypeOK, ExclusiveUse, spawnVars, others
    <3>3. CASE warm' = Append(warm, hproc[h])
      <4>1. /\ Elements(warm') = Elements(warm) \cup {hproc[h]}
            /\ Distinct(warm) /\ hproc[h] \notin Elements(warm) => Distinct(warm')
        BY <3>1, <3>3, AppendElements DEF TypeOK
      <4>2. /\ UNCHANGED <<sproc, drained>> /\ hproc \in [Handlers -> Procs \cup {NoProc}]
            /\ hproc' = [hproc EXCEPT ![h] = NoProc]
        BY <2>9 DEF ReleaseWarm, HandlerEnds, TypeOK, spawnVars, others
      <4>3. QED
        BY <3>1, <4>1, <4>2 DEF ExclusiveUse
    <3>4. QED
      BY <2>9, <3>2, <3>3 DEF ReleaseWarm
  <2>10. CASE SendWarm(h)
    <3>1. hproc[h] \in Procs /\ hproc[h] # NoProc
      BY <2>10, SetsAssumption DEF SendWarm, TypeOK, HeldProcesses, others
    <3>2. CASE warm' = warm
      BY <2>10, <3>2 DEF SendWarm, HandlerEnds, TypeOK, ExclusiveUse, spawnVars, others
    <3>3. CASE warm' = Append(warm, hproc[h])
      <4>1. /\ Elements(warm') = Elements(warm) \cup {hproc[h]}
            /\ Distinct(warm) /\ hproc[h] \notin Elements(warm) => Distinct(warm')
        BY <3>1, <3>3, AppendElements DEF TypeOK
      <4>2. QED
        BY <2>10, <3>1, <4>1 DEF SendWarm, HandlerEnds, TypeOK, ExclusiveUse, spawnVars, others
    <3>4. QED
      BY <2>10, <3>2, <3>3 DEF SendWarm
  <2>11. CASE PollWarm(h)
    <3>1. CASE Receive(h, "count")
      BY <2>11, <3>1, ReceiveExclusive DEF PollWarm, spawnVars, others
    <3>2. CASE \E pt \in {"wait", "idle", "panicked"} : HandlerGoto(h, pt) /\ UNCHANGED warm
      BY <2>11, <3>2 DEF PollWarm, HandlerGoto, ExclusiveUse, spawnVars, others
    <3>3. QED
      BY <2>11, <3>1, <3>2 DEF PollWarm
  <2>12. CASE CountSize(h)
    BY <2>12 DEF CountSize, HandlerGoto, TypeOK, ExclusiveUse, spawnVars, others
  <2>13. CASE DrainWarm(h)
    <3>1. CASE warm # <<>> /\ drained' = Append(drained, Head(warm)) /\ warm' = Tail(warm)
      <4>1. /\ Head(warm) \in Procs
            /\ Elements(warm) = Elements(warm') \cup {Head(warm)}
            /\ Distinct(warm) => Distinct(warm') /\ Head(warm) \notin Elements(warm')
        BY <3>1, TailElements DEF TypeOK
      <4>2. /\ Elements(drained') = Elements(drained) \cup {Head(warm)}
            /\ Distinct(drained) /\ Head(warm) \notin Elements(drained) => Distinct(drained')
        BY <3>1, <4>1, AppendElements DEF TypeOK
      <4>3. UNCHANGED <<sproc, hproc, live, warmClosed>>
        BY <2>13, <3>1 DEF DrainWarm, spawnVars, handlerVars, HandlerGoto
      <4>4. QED
        BY <4>1, <4>2, <4>3 DEF ExclusiveUse
    <3>2. CASE HandlerGoto(h, "refill") /\ UNCHANGED <<warm, drained>>
      BY <2>13, <3>2 DEF DrainWarm, HandlerGoto, ExclusiveUse, spawnVars
    <3>3. QED
      BY <2>13, <3>1, <3>2 DEF DrainWarm
  <2>14. CASE RefillWarm(h)
    <3>1. CASE /\ \E pt \in {"idle", "panicked"} : HandlerEnds(h, pt)
               /\ drained' = <<>> /\ UNCHANGED warm
      <4>1. Elements(drained') = {} /\ Distinct(drained')
        BY <3>1 DEF Elements, Distinct
      <4>2. QED
        BY <2>14, <3>1, <4>1 DEF RefillWarm, HandlerEnds, TypeOK, ExclusiveUse, spawnVars
    <3>2. CASE /\ drained # <<>> /\ warm' = Append(warm, Head(drained))
               /\ drained' = Tail(drained) /\ UNCHANGED handlerVars
      <4>1. /\ Head(drained) \in Procs
            /\ Elements(drained) = Elements(drained') \cup {Head(drained)}
            /\ Distinct(drained) => Distinct(drained') /\ Head(drained) \notin Elements(drained')
        BY <3>2, TailElements DEF TypeOK
      <4>2. /\ Elements(warm') = Elements(warm) \cup {Head(drained)}
            /\ Distinct(warm) /\ Head(drained) \notin Elements(warm) => Distinct(warm')
        BY <3>2, <4>1, AppendElements DEF TypeOK
      <4>3. UNCHANGED <<sproc, hproc, live, warmClosed>>
        BY <2>14, <3>2 DEF RefillWarm, spawnVars, handlerVars
      <4>4. QED
        BY <4>1, <4>2, <4>3 DEF ExclusiveUse
    <3>3. QED
      BY <2>14, <3>1, <3>2 DEF RefillWarm
  <2>15. QED
    BY <1>2, <2>1, <2>2, <2>3, <2>4, <2>5, <2>6, <2>7, <2>8, <2>9, <2>10, <2>11,
       <2>12, <2>13, <2>14
      DEF HandlerStep
<1>3. ASSUME NEW h \in Handlers, NEW k \in Kinds, Arrive(h, k) PROVE ExclusiveUse'
  BY <1>3 DEF Arrive, TypeOK, ExclusiveUse, spawnVars, handlerVars, others
<1>4. CASE ResetSpawnAttempts
  BY <1>4
    DEF ResetSpawnAttempts, TypeOK, ExclusiveUse, spawnVars, handlerVars
<1>5. CASE ShutdownBegin
  BY <1>5 DEF ShutdownBegin, TypeOK, ExclusiveUse, spawnVars, handlerVars, others
<1>6. CASE ShutdownEnd
  BY <1>6 DEF ShutdownEnd, TypeOK, ExclusiveUse, spawnVars, handlerVars, others
<1>7. ASSUME NEW p \in Procs, Crash(p) PROVE ExclusiveUse'
  BY <1>7 DEF Crash, TypeOK, ExclusiveUse, spawnVars, handlerVars, others
<1>8. CASE UNCHANGED vars
  BY <1>8 DEF vars, TypeOK, ExclusiveUse, spawnVars, handlerVars
<1>9. ASSUME NEW h \in Handlers, StdinWrite(h)
      PROVE  ExclusiveUse'
  BY <1>9 DEF StdinWrite, HandlerGoto, TypeOK, ExclusiveUse, spawnVars, others
<1>10. QED
  BY <1>1, <1>2, <1>3, <1>4, <1>5, <1>6, <1>7, <1>8, <1>9 DEF Next

\* Each step kills the process it drops.
LEMMA OrphanStep ==
    ASSUME TypeOK, HeldProcesses, NoOrphans, [Next]_vars
    PROVE  NoOrphans'
<1>1. ASSUME NEW s \in Spawners, SpawnStep(s) PROVE NoOrphans'
  <2>1. CASE SpawnStart(s)
    BY <2>1
      DEF SpawnStart, Exit, Goto, TypeOK, HeldProcesses, NoOrphans, Referenced,
          spawnVars, handlerVars, others
  <2>2. CASE AcquireSlot(s)
    BY <2>2
      DEF AcquireSlot, TypeOK, HeldProcesses, NoOrphans, Referenced, spawnVars,
          handlerVars, others
  <2>3. CASE SlotTimeout(s)
    BY <2>3
      DEF SlotTimeout, Exit, Goto, TypeOK, HeldProcesses, NoOrphans, Referenced,
          spawnVars, handlerVars, others
  <2>4. CASE CheckClosed(s)
    BY <2>4
      DEF CheckClosed, Exit, Goto, TypeOK, HeldProcesses, NoOrphans, Referenced,
          spawnVars, handlerVars, others
  <2>5. CASE SpawnFails(s)
    <3>1. UNCHANGED <<sproc, warm, drained, hproc, live, warmClosed>>
      BY <2>5
        DEF SpawnFails, Exit, CountFailure, TypeOK, HeldProcesses, handlerVars, others
    <3>2. QED
      BY <3>1 DEF NoOrphans, Referenced
  <2>6. CASE SpawnProcess(s)
    <3>1. PICK p \in Procs : sproc' = [sproc EXCEPT ![s] = p] /\ live' = live \cup {p}
      BY <2>6 DEF SpawnProcess
    <3>2. sproc[s] = NoProc /\ sproc'[s] = p /\ \A t \in Spawners \ {s} : sproc'[t] = sproc[t]
      BY <2>6, <3>1 DEF SpawnProcess, HeldProcesses, TypeOK, others
    <3>3. ASSUME NEW q \in live', ~warmClosed PROVE q \in Referenced'
      <4>1. CASE q = p
        BY <3>2, <4>1 DEF Referenced
      <4>2. CASE q \in live
        <5>1. q \in Referenced /\ q # NoProc
          BY <3>3, <4>2, SetsAssumption DEF NoOrphans, TypeOK
        <5>2. UNCHANGED <<warm, hproc, drained>>
          BY <2>6 DEF SpawnProcess, handlerVars, others
        <5>3. QED BY <3>2, <5>1, <5>2 DEF Referenced
      <4>3. QED BY <3>1, <3>3, <4>1, <4>2
    <3>4. QED
      BY <2>6, <3>3 DEF SpawnProcess, NoOrphans, others
  <2>7. CASE AfterSpawn(s)
    BY <2>7
      DEF AfterSpawn, Exit, Goto, TypeOK, HeldProcesses, NoOrphans, Referenced,
          spawnVars, handlerVars, others
  <2>8. CASE HandshakeAnswered(s)
    BY <2>8
      DEF HandshakeAnswered, Goto, TypeOK, HeldProcesses, NoOrphans, Referenced,
          spawnVars, handlerVars, others
  <2>9. CASE HandshakeChannelClosed(s)
    BY <2>9
      DEF HandshakeChannelClosed, Goto, TypeOK, HeldProcesses, NoOrphans, Referenced,
          spawnVars, handlerVars, others
  <2>10. CASE HandshakeTimeout(s)
    BY <2>10
      DEF HandshakeTimeout, Exit, CountFailure, TypeOK, HeldProcesses, NoOrphans,
          Referenced, spawnVars, handlerVars, others
  <2>11. CASE PushWarm(s)
    <3>1. sproc[s] \in Procs
      BY <2>11 DEF PushWarm, TypeOK, HeldProcesses, others
    <3>2. Elements(warm') = Elements(warm) \cup {sproc[s]}
      BY <2>11, <3>1, AppendElements DEF PushWarm, TypeOK, others
    <3>3. QED
      BY <2>11, <3>2 DEF PushWarm, TypeOK, NoOrphans, Referenced, handlerVars, others
  <2>12. CASE SpawnDone(s)
    BY <2>12
      DEF SpawnDone, Exit, TypeOK, HeldProcesses, NoOrphans, Referenced, spawnVars,
          handlerVars, others
  <2>13. CASE TimerFires(s)
    BY <2>13
      DEF TimerFires, TypeOK, HeldProcesses, NoOrphans, Referenced, spawnVars,
          handlerVars, others
  <2>14. QED
    BY <1>1, <2>1, <2>2, <2>3, <2>4, <2>5, <2>6, <2>7, <2>8, <2>9, <2>10, <2>11,
       <2>12, <2>13
      DEF SpawnStep
<1>2. ASSUME NEW h \in Handlers, HandlerStep(h) PROVE NoOrphans'
  <2>1. CASE TryAcquireWarm(h)
    <3>1. CASE Receive(h, "count")
      <4>1. /\ hproc[h] = NoProc /\ hproc' = [hproc EXCEPT ![h] = Head(warm)]
            /\ Elements(warm) = Elements(warm') \cup {Head(warm)}
        BY <2>1, <3>1, ReceiveTypes, ReceiveMoves
          DEF TryAcquireWarm, HeldProcesses, TypeOK, others
      <4>2. /\ live' = live /\ warmClosed' = warmClosed /\ sproc' = sproc
            /\ drained' = drained /\ live \subseteq Procs
        BY <2>1 DEF TryAcquireWarm, spawnVars, TypeOK, others
      <4>3. ASSUME NEW p \in live, ~warmClosed PROVE p \in Referenced'
        BY <4>1, <4>2, <4>3, SetsAssumption DEF NoOrphans, Referenced, TypeOK
      <4>4. QED BY <4>2, <4>3 DEF NoOrphans
    <3>2. CASE \E pt \in {"decide", "idle", "panicked"} : HandlerGoto(h, pt) /\ UNCHANGED warm
      BY <2>1, <3>2 DEF TryAcquireWarm, HandlerGoto, NoOrphans, Referenced, spawnVars, others
    <3>3. QED
      BY <2>1, <3>1, <3>2 DEF TryAcquireWarm
  <2>2. CASE DecideSpawn(h)
    BY <2>2
      DEF DecideSpawn, HandlerGoto, TypeOK, HeldProcesses, NoOrphans, Referenced,
          spawnVars, handlerVars, others
  <2>3. CASE WaitForWarmWithMax(h)
    BY <2>3 DEF WaitForWarmWithMax, HandlerGoto, TypeOK, NoOrphans, Referenced, spawnVars, others
  <2>4. CASE WaitForWarm(h)
    BY <2>4
      DEF WaitForWarm, HandlerGoto, TypeOK, HeldProcesses, NoOrphans, Referenced,
          spawnVars, handlerVars, others
  <2>5. CASE ReceiveWarm(h)
    <3>1. CASE Receive(h, "write")
      <4>1. /\ hproc[h] = NoProc /\ hproc' = [hproc EXCEPT ![h] = Head(warm)]
            /\ Elements(warm) = Elements(warm') \cup {Head(warm)}
        BY <2>5, <3>1, ReceiveTypes, ReceiveMoves DEF ReceiveWarm, HeldProcesses, TypeOK, others
      <4>2. /\ live' = live /\ warmClosed' = warmClosed /\ sproc' = sproc
            /\ drained' = drained /\ live \subseteq Procs
        BY <2>5 DEF ReceiveWarm, spawnVars, TypeOK, others
      <4>3. ASSUME NEW p \in live, ~warmClosed PROVE p \in Referenced'
        BY <4>1, <4>2, <4>3, SetsAssumption DEF NoOrphans, Referenced, TypeOK
      <4>4. QED BY <4>2, <4>3 DEF NoOrphans
    <3>2. CASE \E pt \in {"decide", "idle", "panicked"} : HandlerGoto(h, pt) /\ UNCHANGED warm
      BY <2>5, <3>2 DEF ReceiveWarm, HandlerGoto, NoOrphans, Referenced, spawnVars, others
    <3>3. QED
      BY <2>5, <3>1, <3>2 DEF ReceiveWarm
  <2>6. CASE Reply(h)
    BY <2>6
      DEF Reply, GiveBack, HandlerGoto, TypeOK, HeldProcesses, NoOrphans, Referenced,
          spawnVars, handlerVars, others
  <2>7. CASE ResponseClosed(h)
    <3>1. CASE HandlerEnds(h, "idle") /\ live' = live \ {hproc[h]}
      BY <2>7, <3>1
        DEF ResponseClosed, HandlerEnds, TypeOK, NoOrphans, Referenced, spawnVars, others
    <3>2. CASE GiveBack(h) /\ live' \subseteq live
      BY <2>7, <3>2
        DEF ResponseClosed, GiveBack, HandlerGoto, NoOrphans, Referenced, spawnVars, others
    <3>3. QED
      BY <2>7, <3>1, <3>2 DEF ResponseClosed, KillsOnClosed, DropsOnClosed
  <2>8. CASE RequestTimeout(h)
    <3>1. CASE HandlerEnds(h, "idle") /\ live' = live \ {hproc[h]}
      BY <2>8, <3>1
        DEF RequestTimeout, HandlerEnds, TypeOK, NoOrphans, Referenced, spawnVars, others
    <3>2. CASE GiveBack(h) /\ live' \subseteq live
      BY <2>8, <3>2
        DEF RequestTimeout, GiveBack, HandlerGoto, NoOrphans, Referenced, spawnVars, others
    <3>3. QED
      BY <2>8, <3>1, <3>2 DEF RequestTimeout, KillsOnTimeout, DropsOnTimeout
  <2>9. CASE ReleaseWarm(h)
    <3>1. hproc[h] \in Procs /\ hproc[h] # NoProc
      BY <2>9, SetsAssumption DEF ReleaseWarm, TypeOK, HeldProcesses, others
    <3>2. CASE warm' = warm
      BY <2>9, <3>2
        DEF ReleaseWarm, HandlerEnds, TypeOK, NoOrphans, Referenced, spawnVars, others
    <3>3. CASE warm' = Append(warm, hproc[h])
      <4>1. /\ Elements(warm') = Elements(warm) \cup {hproc[h]}
            /\ Distinct(warm) /\ hproc[h] \notin Elements(warm) => Distinct(warm')
        BY <3>1, <3>3, AppendElements DEF TypeOK
      <4>2. /\ hproc' = [hproc EXCEPT ![h] = NoProc] /\ hproc \in [Handlers -> Procs \cup {NoProc}]
            /\ live' \subseteq live /\ UNCHANGED <<sproc, drained, warmClosed>>
        BY <2>9 DEF ReleaseWarm, HandlerEnds, TypeOK, spawnVars, others
      <4>3. QED
        BY <3>1, <4>1, <4>2 DEF NoOrphans, Referenced
    <3>4. QED
      BY <2>9, <3>2, <3>3 DEF ReleaseWarm
  <2>10. CASE SendWarm(h)
    <3>1. hproc[h] \in Procs /\ hproc[h] # NoProc
      BY <2>10, SetsAssumption DEF SendWarm, TypeOK, HeldProcesses, others
    <3>2. CASE warm' = warm
      BY <2>10, <3>2 DEF SendWarm, HandlerEnds, TypeOK, NoOrphans, Referenced, spawnVars, others
    <3>3. CASE warm' = Append(warm, hproc[h])
      <4>1. /\ Elements(warm') = Elements(warm) \cup {hproc[h]}
            /\ Distinct(warm) /\ hproc[h] \notin Elements(warm) => Distinct(warm')
        BY <3>1, <3>3, AppendElements DEF TypeOK
      <4>2. QED
        BY <2>10, <3>1, <4>1
          DEF SendWarm, HandlerEnds, TypeOK, NoOrphans, Referenced, spawnVars, others
    <3>4. QED
      BY <2>10, <3>2, <3>3 DEF SendWarm
  <2>11. CASE PollWarm(h)
    <3>1. CASE Receive(h, "count")
      <4>1. /\ hproc[h] = NoProc /\ hproc' = [hproc EXCEPT ![h] = Head(warm)]
            /\ Elements(warm) = Elements(warm') \cup {Head(warm)}
        BY <2>11, <3>1, ReceiveTypes, ReceiveMoves
          DEF PollWarm, HeldProcesses, TypeOK, others
      <4>2. /\ live' = live /\ warmClosed' = warmClosed /\ sproc' = sproc
            /\ drained' = drained /\ live \subseteq Procs
        BY <2>11 DEF PollWarm, spawnVars, TypeOK, others
      <4>3. ASSUME NEW p \in live, ~warmClosed PROVE p \in Referenced'
        BY <4>1, <4>2, <4>3, SetsAssumption DEF NoOrphans, Referenced, TypeOK
      <4>4. QED BY <4>2, <4>3 DEF NoOrphans
    <3>2. CASE \E pt \in {"wait", "idle", "panicked"} : HandlerGoto(h, pt) /\ UNCHANGED warm
      BY <2>11, <3>2
        DEF PollWarm, HandlerGoto, NoOrphans, Referenced, spawnVars, others
    <3>3. QED
      BY <2>11, <3>1, <3>2 DEF PollWarm
  <2>12. CASE CountSize(h)
    BY <2>12 DEF CountSize, HandlerGoto, TypeOK, NoOrphans, Referenced, spawnVars, others
  <2>13. CASE DrainWarm(h)
    <3>1. CASE warm # <<>> /\ drained' = Append(drained, Head(warm)) /\ warm' = Tail(warm)
      <4>1. /\ Head(warm) \in Procs
            /\ Elements(warm) = Elements(warm') \cup {Head(warm)}
            /\ Distinct(warm) => Distinct(warm') /\ Head(warm) \notin Elements(warm')
        BY <3>1, TailElements DEF TypeOK
      <4>2. /\ Elements(drained') = Elements(drained) \cup {Head(warm)}
            /\ Distinct(drained) /\ Head(warm) \notin Elements(drained) => Distinct(drained')
        BY <3>1, <4>1, AppendElements DEF TypeOK
      <4>3. UNCHANGED <<sproc, hproc, live, warmClosed>>
        BY <2>13, <3>1 DEF DrainWarm, spawnVars, handlerVars, HandlerGoto
      <4>4. QED
        BY <4>1, <4>2, <4>3 DEF NoOrphans, Referenced
    <3>2. CASE HandlerGoto(h, "refill") /\ UNCHANGED <<warm, drained>>
      BY <2>13, <3>2 DEF DrainWarm, HandlerGoto, NoOrphans, Referenced, spawnVars
    <3>3. QED
      BY <2>13, <3>1, <3>2 DEF DrainWarm
  <2>14. CASE RefillWarm(h)
    <3>1. CASE /\ drained = <<>> \/ warmClosed
               /\ \E pt \in {"idle", "panicked"} : HandlerEnds(h, pt)
               /\ drained' = <<>> /\ UNCHANGED warm
      <4>1. hproc' = hproc
        BY <2>14, <3>1 DEF RefillWarm, HandlerEnds, TypeOK, HeldProcesses
      <4>2. QED
        BY <2>14, <3>1, <4>1 DEF RefillWarm, NoOrphans, Referenced, spawnVars
    <3>2. CASE /\ drained # <<>> /\ warm' = Append(warm, Head(drained))
               /\ drained' = Tail(drained) /\ UNCHANGED handlerVars
      <4>1. /\ Head(drained) \in Procs
            /\ Elements(drained) = Elements(drained') \cup {Head(drained)}
            /\ Distinct(drained) => Distinct(drained') /\ Head(drained) \notin Elements(drained')
        BY <3>2, TailElements DEF TypeOK
      <4>2. /\ Elements(warm') = Elements(warm) \cup {Head(drained)}
            /\ Distinct(warm) /\ Head(drained) \notin Elements(warm) => Distinct(warm')
        BY <3>2, <4>1, AppendElements DEF TypeOK
      <4>3. UNCHANGED <<sproc, hproc, live, warmClosed>>
        BY <2>14, <3>2 DEF RefillWarm, spawnVars, handlerVars
      <4>4. QED
        BY <4>1, <4>2, <4>3 DEF NoOrphans, Referenced
    <3>3. QED
      BY <2>14, <3>1, <3>2 DEF RefillWarm
  <2>15. QED
    BY <1>2, <2>1, <2>2, <2>3, <2>4, <2>5, <2>6, <2>7, <2>8, <2>9, <2>10, <2>11,
       <2>12, <2>13, <2>14
      DEF HandlerStep
<1>3. ASSUME NEW h \in Handlers, NEW k \in Kinds, Arrive(h, k) PROVE NoOrphans'
  BY <1>3
    DEF Arrive, TypeOK, HeldProcesses, NoOrphans, Referenced, spawnVars, handlerVars, others
<1>4. CASE ResetSpawnAttempts
  BY <1>4
    DEF ResetSpawnAttempts, TypeOK, HeldProcesses, NoOrphans, Referenced, spawnVars,
        handlerVars
<1>5. CASE ShutdownBegin
  BY <1>5
    DEF ShutdownBegin, TypeOK, HeldProcesses, NoOrphans, Referenced, spawnVars,
        handlerVars, others
<1>6. CASE ShutdownEnd
  BY <1>6
    DEF ShutdownEnd, TypeOK, HeldProcesses, NoOrphans, Referenced, spawnVars,
        handlerVars, others
<1>7. ASSUME NEW p \in Procs, Crash(p) PROVE NoOrphans'
  BY <1>7
    DEF Crash, TypeOK, HeldProcesses, NoOrphans, Referenced, spawnVars, handlerVars, others
<1>8. CASE UNCHANGED vars
  BY <1>8
    DEF vars, TypeOK, HeldProcesses, NoOrphans, Referenced, spawnVars, handlerVars
<1>9. ASSUME NEW h \in Handlers, StdinWrite(h)
      PROVE  NoOrphans'
  BY <1>9 DEF StdinWrite, HandlerGoto, TypeOK, NoOrphans, Referenced, spawnVars, others
<1>10. QED
  BY <1>1, <1>2, <1>3, <1>4, <1>5, <1>6, <1>7, <1>8, <1>9 DEF Next

(***************************************************************************)
(* Theorems.                                                               *)
(***************************************************************************)

\* NewPoolWithEnv establishes the inductive invariant.
LEMMA InitIndInv ==
    ASSUME Init PROVE IndInv
<1>1. TypeOK
  <2>1. \E S \in SUBSET Spawners :
           wg = S /\ spc = [s \in Spawners |-> IF s \in S THEN "start" ELSE "off"]
    BY DEF Init
  <2>2. warm \in Seq(Procs) /\ drained \in Seq(Procs)
    BY EmptySeq DEF Init
  <2>3. /\ wg \in SUBSET Spawners
        /\ spc \in [Spawners -> {"off", "timer", "start", "slot", "check", "spawn",
                               "spawned", "handshake", "push", "finish"}]
    BY <2>1
  <2>4. hkind \in [Handlers -> AllKinds]
    BY DEF Init, AllKinds
  <2>5. /\ sproc \in [Spawners -> Procs \cup {NoProc}]
        /\ hpc \in [Handlers -> {"idle", "try", "decide", "wait", "warmwait", "receive",
                                "write", "use", "return", "push", "panicked", "poll",
                                "count", "offer", "drain", "refill"}]
        /\ hproc \in [Handlers -> Procs \cup {NoProc}]
    BY DEF Init
  <2>6. /\ warmClosed = FALSE /\ closed = FALSE /\ slots = {} /\ spawnAttempts = 0
        /\ live = {} /\ calls = 0 /\ resets = 0
    BY DEF Init
  <2>7. calls \in 0..MaxCalls /\ resets \in 0..MaxResets
    BY <2>6, BoundsAssumption
  <2>8. warmClosed \in BOOLEAN /\ closed \in BOOLEAN
    BY Zenon DEF Init
  <2>9. /\ slots \in SUBSET Spawners /\ live \in SUBSET Procs
        /\ spawnAttempts \in Nat
    BY <2>6
  <2>10. QED
    BY <2>2, <2>3, <2>4, <2>5, <2>7, <2>8, <2>9, Zenon DEF TypeOK
<1>2. HeldProcesses /\ WaitGroupIsExact
  BY DEF Init, HeldProcesses, WaitGroupIsExact
<1>3. ClosesAfterClosed /\ SpawnersSendOnOpenChannel
  BY DEF Init, ClosesAfterClosed, SpawnersSendOnOpenChannel
<1>4. ExclusiveUse /\ NoOrphans
  BY DEF Init, ExclusiveUse, NoOrphans, Distinct, Elements
<1>5. QED
  BY <1>1, <1>2, <1>3, <1>4 DEF IndInv

\* The inductive invariant holds in every state of the pool.
THEOREM Invariance == Spec => []IndInv
<1>1. Init => IndInv
  BY InitIndInv
<1>2. IndInv /\ [Next]_vars => IndInv'
  BY TypeStep, HeldStep, WaitGroupStep, CloseStep, ExclusiveStep, OrphanStep DEF IndInv
<1>3. QED
  BY <1>1, <1>2, PTL DEF Spec

\* Type correctness: among others, Warm never holds a nil process.
THEOREM PoolTypes == Spec => []TypeOK
<1>1. IndInv => TypeOK
  BY DEF IndInv
<1>2. QED
  BY <1>1, Invariance, PTL

\* No backend process is ever shared by two requests, in Warm twice, or in
\* Warm while somebody uses it.
THEOREM PoolExclusiveUse == Spec => []ExclusiveUse
<1>1. IndInv => ExclusiveUse
  BY DEF IndInv
<1>2. QED
  BY <1>1, Invariance, PTL

\* No spawn goroutine, retry timers included, sends on the closed channel.
THEOREM PoolSendsOnOpenChannel == Spec => []SpawnersSendOnOpenChannel
<1>1. IndInv => SpawnersSendOnOpenChannel
  BY DEF IndInv
<1>2. QED
  BY <1>1, Invariance, PTL

\* While the pool is open no running process is lost.
THEOREM PoolNoOrphans == Spec => []NoOrphans
<1>1. IndInv => NoOrphans
  BY DEF IndInv
<1>2. QED
  BY <1>1, Invariance, PTL

(***************************************************************************)
(* The pool's request registry, for every set of requests and ids, all     *)
(* timeouts and any capacity of the broadcast channel.                     *)
(***************************************************************************)

\* An entry is a request that has registered, under the id it carries.
EntriesInOrder ==
    \A i \in Ids : pending[i] # NoRequest => id[pending[i]] = i /\ pc[pending[i]] # "idle"

\* A channel is closed after its request has registered.
ClosedWasRegistered == \A r \in chClosed : pc[r] # "idle"

\* What waits in the channel of a request with an id of its own is its answer.
OwnBuffered == \A r \in Requests : Alone(r) => respCh[r] \in {r, NoRequest}

RegistryInv ==
    /\ RegistryTypeOK /\ EntriesInOrder /\ ClosedWasRegistered /\ OwnBuffered
    /\ RegisteredIsOpen /\ OwnAnswer

\* Each step keeps the types.
LEMMA RegistryTypeStep ==
    ASSUME RegistryInv, [RegistryNext]_registryVars
    PROVE  RegistryTypeOK'
<1>1. ASSUME NEW r \in Requests, RegisterRequest(r) PROVE RegistryTypeOK'
  BY <1>1, RequestsAssumption DEF RegisterRequest, config, clocks, RegistryInv, RegistryTypeOK
<1>2. ASSUME NEW r \in Requests, RequestStep(r) PROVE RegistryTypeOK'
  <2>1. CASE SelectResponse(r)
    BY <2>1, RequestsAssumption
      DEF SelectResponse, Leave, config, clocks, RegistryInv, RegistryTypeOK
  <2>2. CASE SelectClosed(r)
    BY <2>2, RequestsAssumption DEF SelectClosed, Leave, config, clocks, RegistryInv, RegistryTypeOK
  <2>3. CASE SelectTimeout(r)
    BY <2>3, RequestsAssumption
      DEF SelectTimeout, Leave, config, clocks, RegistryInv, RegistryTypeOK
  <2>4. CASE UnregisterRequest(r)
    BY <2>4, RequestsAssumption DEF UnregisterRequest, config, clocks, RegistryInv, RegistryTypeOK
  <2>5. QED
    BY <1>2, <2>1, <2>2, <2>3, <2>4 DEF RequestStep
<1>3. ASSUME NEW r \in Requests, RegisterTimerFires(r) PROVE RegistryTypeOK'
  BY <1>3, RequestsAssumption DEF RegisterTimerFires, config, clocks, RegistryInv, RegistryTypeOK
<1>4. ASSUME NEW r \in Requests, BackendAnswers(r) PROVE RegistryTypeOK'
  BY <1>4, RequestsAssumption DEF BackendAnswers, config, clocks, RegistryInv, RegistryTypeOK
<1>5. ASSUME NEW r \in Requests, BackendDies(r) PROVE RegistryTypeOK'
  BY <1>5, RequestsAssumption DEF BackendDies, config, clocks, RegistryInv, RegistryTypeOK
<1>6. CASE ResponseDispatcher
  BY <1>6, RequestsAssumption DEF ResponseDispatcher, config, clocks, RegistryInv, RegistryTypeOK
<1>7. CASE Shutdown
  BY <1>7, RequestsAssumption DEF Shutdown, config, clocks, RegistryInv, RegistryTypeOK
<1>8. CASE Tick
  BY <1>8, RequestsAssumption DEF Tick, config, clocks, RegistryInv, RegistryTypeOK
<1>9. CASE UNCHANGED registryVars
  BY <1>9 DEF registryVars, config, clocks, RegistryInv, RegistryTypeOK
<1>10. ASSUME NEW r \in Requests, WriteRequest(r) PROVE RegistryTypeOK'
  BY <1>10, RequestsAssumption DEF WriteRequest, config, clocks, RegistryInv, RegistryTypeOK
<1>11. QED
  BY <1>1, <1>2, <1>3, <1>4, <1>5, <1>6, <1>7, <1>8, <1>9, <1>10 DEF RegistryNext

\* Each step keeps EntriesInOrder.
LEMMA EntriesStep ==
    ASSUME RegistryInv, [RegistryNext]_registryVars
    PROVE  EntriesInOrder'
<1>1. ASSUME NEW r \in Requests, RegisterRequest(r) PROVE EntriesInOrder'
  BY <1>1, RequestsAssumption
    DEF RegisterRequest, config, clocks, RegistryInv, RegistryTypeOK, EntriesInOrder
<1>2. ASSUME NEW r \in Requests, RequestStep(r) PROVE EntriesInOrder'
  <2>1. CASE SelectResponse(r)
    BY <2>1, RequestsAssumption
      DEF SelectResponse, Leave, config, clocks, RegistryInv, RegistryTypeOK, EntriesInOrder
  <2>2. CASE SelectClosed(r)
    BY <2>2, RequestsAssumption
      DEF SelectClosed, Leave, config, clocks, RegistryInv, RegistryTypeOK, EntriesInOrder
  <2>3. CASE SelectTimeout(r)
    BY <2>3, RequestsAssumption
      DEF SelectTimeout, Leave, config, clocks, RegistryInv, RegistryTypeOK, EntriesInOrder
  <2>4. CASE UnregisterRequest(r)
    BY <2>4, RequestsAssumption
      DEF UnregisterRequest, config, clocks, RegistryInv, RegistryTypeOK, EntriesInOrder
  <2>5. QED
    BY <1>2, <2>1, <2>2, <2>3, <2>4 DEF RequestStep
<1>3. ASSUME NEW r \in Requests, RegisterTimerFires(r) PROVE EntriesInOrder'
  BY <1>3, RequestsAssumption
    DEF RegisterTimerFires, config, clocks, RegistryInv, RegistryTypeOK, EntriesInOrder
<1>4. ASSUME NEW r \in Requests, BackendAnswers(r) PROVE EntriesInOrder'
  BY <1>4, RequestsAssumption
    DEF BackendAnswers, config, clocks, RegistryInv, RegistryTypeOK, EntriesInOrder
<1>5. ASSUME NEW r \in Requests, BackendDies(r) PROVE EntriesInOrder'
  BY <1>5, RequestsAssumption
    DEF BackendDies, config, clocks, RegistryInv, RegistryTypeOK, EntriesInOrder
<1>6. CASE ResponseDispatcher
  BY <1>6, RequestsAssumption
    DEF ResponseDispatcher, config, clocks, RegistryInv, RegistryTypeOK, EntriesInOrder
<1>7. CASE Shutdown
  BY <1>7, RequestsAssumption
    DEF Shutdown, config, clocks, RegistryInv, RegistryTypeOK, EntriesInOrder
<1>8. CASE Tick
  BY <1>8, RequestsAssumption
    DEF Tick, config, clocks, RegistryInv, RegistryTypeOK, EntriesInOrder
<1>9. CASE UNCHANGED registryVars
  BY <1>9 DEF registryVars, config, clocks, RegistryInv, RegistryTypeOK, EntriesInOrder
<1>10. ASSUME NEW r \in Requests, WriteRequest(r) PROVE EntriesInOrder'
  BY <1>10, RequestsAssumption
    DEF WriteRequest, config, clocks, RegistryInv, RegistryTypeOK, EntriesInOrder
<1>11. QED
  BY <1>1, <1>2, <1>3, <1>4, <1>5, <1>6, <1>7, <1>8, <1>9, <1>10 DEF RegistryNext

\* Each step keeps ClosedWasRegistered.
LEMMA ClosedStep ==
    ASSUME RegistryInv, [RegistryNext]_registryVars
    PROVE  ClosedWasRegistered'
<1>1. ASSUME NEW r \in Requests, RegisterRequest(r) PROVE ClosedWasRegistered'
  BY <1>1
    DEF RegisterRequest, config, clocks, RegistryInv, RegistryTypeOK, EntriesInOrder,
      ClosedWasRegistered
<1>2. ASSUME NEW r \in Requests, RequestStep(r) PROVE ClosedWasRegistered'
  <2>1. CASE SelectResponse(r)
    BY <2>1
      DEF SelectResponse, Leave, config, clocks, RegistryInv, RegistryTypeOK, EntriesInOrder,
        ClosedWasRegistered
  <2>2. CASE SelectClosed(r)
    BY <2>2
      DEF SelectClosed, Leave, config, clocks, RegistryInv, RegistryTypeOK, EntriesInOrder,
        ClosedWasRegistered
  <2>3. CASE SelectTimeout(r)
    BY <2>3
      DEF SelectTimeout, Leave, config, clocks, RegistryInv, RegistryTypeOK, EntriesInOrder,
        ClosedWasRegistered
  <2>4. CASE UnregisterRequest(r)
    BY <2>4
      DEF UnregisterRequest, config, clocks, RegistryInv, RegistryTypeOK, EntriesInOrder,
        ClosedWasRegistered
  <2>5. QED
    BY <1>2, <2>1, <2>2, <2>3, <2>4 DEF RequestStep
<1>3. ASSUME NEW r \in Requests, RegisterTimerFires(r) PROVE ClosedWasRegistered'
  BY <1>3
    DEF RegisterTimerFires, config, clocks, RegistryInv, RegistryTypeOK, EntriesInOrder,
      ClosedWasRegistered
<1>4. ASSUME NEW r \in Requests, BackendAnswers(r) PROVE ClosedWasRegistered'
  BY <1>4
    DEF BackendAnswers, config, clocks, RegistryInv, RegistryTypeOK, EntriesInOrder,
      ClosedWasRegistered
<1>5. ASSUME NEW r \in Requests, BackendDies(r) PROVE ClosedWasRegistered'
  BY <1>5
    DEF BackendDies, config, clocks, RegistryInv, RegistryTypeOK, EntriesInOrder,
      ClosedWasRegistered
<1>6. CASE ResponseDispatcher
  BY <1>6
    DEF ResponseDispatcher, config, clocks, RegistryInv, RegistryTypeOK, EntriesInOrder,
      ClosedWasRegistered
<1>7. CASE Shutdown
  BY <1>7
    DEF Shutdown, config, clocks, RegistryInv, RegistryTypeOK, EntriesInOrder, ClosedWasRegistered
<1>8. CASE Tick
  BY <1>8
    DEF Tick, config, clocks, RegistryInv, RegistryTypeOK, EntriesInOrder, ClosedWasRegistered
<1>9. CASE UNCHANGED registryVars
  BY <1>9
    DEF registryVars, config, clocks, RegistryInv, RegistryTypeOK, EntriesInOrder,
      ClosedWasRegistered
<1>10. ASSUME NEW r \in Requests, WriteRequest(r) PROVE ClosedWasRegistered'
  BY <1>10
    DEF WriteRequest, config, clocks, RegistryInv, RegistryTypeOK, EntriesInOrder,
      ClosedWasRegistered
<1>11. QED
  BY <1>1, <1>2, <1>3, <1>4, <1>5, <1>6, <1>7, <1>8, <1>9, <1>10 DEF RegistryNext

\* Each step keeps RegisteredIsOpen.
LEMMA OpenStep ==
    ASSUME RegistryInv, [RegistryNext]_registryVars
    PROVE  RegisteredIsOpen'
<1>1. ASSUME NEW r \in Requests, RegisterRequest(r) PROVE RegisteredIsOpen'
  BY <1>1, RequestsAssumption
    DEF RegisterRequest, config, clocks, RegistryInv, RegistryTypeOK, EntriesInOrder,
      ClosedWasRegistered, RegisteredIsOpen
<1>2. ASSUME NEW r \in Requests, RequestStep(r) PROVE RegisteredIsOpen'
  <2>1. CASE SelectResponse(r)
    BY <2>1, RequestsAssumption
      DEF SelectResponse, Leave, config, clocks, RegistryInv, RegistryTypeOK, EntriesInOrder,
        ClosedWasRegistered, RegisteredIsOpen
  <2>2. CASE SelectClosed(r)
    BY <2>2, RequestsAssumption
      DEF SelectClosed, Leave, config, clocks, RegistryInv, RegistryTypeOK, EntriesInOrder,
        ClosedWasRegistered, RegisteredIsOpen
  <2>3. CASE SelectTimeout(r)
    BY <2>3, RequestsAssumption
      DEF SelectTimeout, Leave, config, clocks, RegistryInv, RegistryTypeOK, EntriesInOrder,
        ClosedWasRegistered, RegisteredIsOpen
  <2>4. CASE UnregisterRequest(r)
    BY <2>4, RequestsAssumption
      DEF UnregisterRequest, config, clocks, RegistryInv, RegistryTypeOK, EntriesInOrder,
        ClosedWasRegistered, RegisteredIsOpen
  <2>5. QED
    BY <1>2, <2>1, <2>2, <2>3, <2>4 DEF RequestStep
<1>3. ASSUME NEW r \in Requests, RegisterTimerFires(r) PROVE RegisteredIsOpen'
  BY <1>3, RequestsAssumption
    DEF RegisterTimerFires, config, clocks, RegistryInv, RegistryTypeOK, EntriesInOrder,
      ClosedWasRegistered, RegisteredIsOpen
<1>4. ASSUME NEW r \in Requests, BackendAnswers(r) PROVE RegisteredIsOpen'
  BY <1>4, RequestsAssumption
    DEF BackendAnswers, config, clocks, RegistryInv, RegistryTypeOK, EntriesInOrder,
      ClosedWasRegistered, RegisteredIsOpen
<1>5. ASSUME NEW r \in Requests, BackendDies(r) PROVE RegisteredIsOpen'
  BY <1>5, RequestsAssumption
    DEF BackendDies, config, clocks, RegistryInv, RegistryTypeOK, EntriesInOrder,
      ClosedWasRegistered,
    RegisteredIsOpen
<1>6. CASE ResponseDispatcher
  BY <1>6, RequestsAssumption
    DEF ResponseDispatcher, config, clocks, RegistryInv, RegistryTypeOK, EntriesInOrder,
      ClosedWasRegistered, RegisteredIsOpen
<1>7. CASE Shutdown
  BY <1>7, RequestsAssumption
    DEF Shutdown, config, clocks, RegistryInv, RegistryTypeOK, EntriesInOrder, ClosedWasRegistered,
    RegisteredIsOpen
<1>8. CASE Tick
  BY <1>8, RequestsAssumption
    DEF Tick, config, clocks, RegistryInv, RegistryTypeOK, EntriesInOrder, ClosedWasRegistered,
    RegisteredIsOpen
<1>9. CASE UNCHANGED registryVars
  BY <1>9
    DEF registryVars, config, clocks, RegistryInv, RegistryTypeOK, EntriesInOrder,
      ClosedWasRegistered,
      RegisteredIsOpen
<1>10. ASSUME NEW r \in Requests, WriteRequest(r) PROVE RegisteredIsOpen'
  BY <1>10, RequestsAssumption
    DEF WriteRequest, config, clocks, RegistryInv, RegistryTypeOK, EntriesInOrder,
      ClosedWasRegistered,
    RegisteredIsOpen
<1>11. QED
  BY <1>1, <1>2, <1>3, <1>4, <1>5, <1>6, <1>7, <1>8, <1>9, <1>10 DEF RegistryNext

\* Each step keeps OwnBuffered.
LEMMA BufferedStep ==
    ASSUME RegistryInv, [RegistryNext]_registryVars
    PROVE  OwnBuffered'
<1>1. ASSUME NEW r \in Requests, RegisterRequest(r) PROVE OwnBuffered'
  BY <1>1, RequestsAssumption
    DEF RegisterRequest, config, clocks, RegistryInv, RegistryTypeOK, EntriesInOrder,
      OwnBuffered, Alone
<1>2. ASSUME NEW r \in Requests, RequestStep(r) PROVE OwnBuffered'
  <2>1. CASE SelectResponse(r)
    BY <2>1, RequestsAssumption
      DEF SelectResponse, Leave, config, clocks, RegistryInv, RegistryTypeOK, EntriesInOrder,
        OwnBuffered, Alone
  <2>2. CASE SelectClosed(r)
    BY <2>2, RequestsAssumption
      DEF SelectClosed, Leave, config, clocks, RegistryInv, RegistryTypeOK, EntriesInOrder,
        OwnBuffered,
        Alone
  <2>3. CASE SelectTimeout(r)
    BY <2>3, RequestsAssumption
      DEF SelectTimeout, Leave, config, clocks, RegistryInv, RegistryTypeOK, EntriesInOrder,
        OwnBuffered, Alone
  <2>4. CASE UnregisterRequest(r)
    BY <2>4, RequestsAssumption
      DEF UnregisterRequest, config, clocks, RegistryInv, RegistryTypeOK, EntriesInOrder,
        OwnBuffered,
        Alone
  <2>5. QED
    BY <1>2, <2>1, <2>2, <2>3, <2>4 DEF RequestStep
<1>3. ASSUME NEW r \in Requests, RegisterTimerFires(r) PROVE OwnBuffered'
  BY <1>3, RequestsAssumption
    DEF RegisterTimerFires, config, clocks, RegistryInv, RegistryTypeOK, EntriesInOrder,
      OwnBuffered,
      Alone
<1>4. ASSUME NEW r \in Requests, BackendAnswers(r) PROVE OwnBuffered'
  BY <1>4, RequestsAssumption
    DEF BackendAnswers, config, clocks, RegistryInv, RegistryTypeOK, EntriesInOrder, OwnBuffered,
      Alone
<1>5. ASSUME NEW r \in Requests, BackendDies(r) PROVE OwnBuffered'
  BY <1>5, RequestsAssumption
    DEF BackendDies, config, clocks, RegistryInv, RegistryTypeOK, EntriesInOrder, OwnBuffered, Alone
<1>6. CASE ResponseDispatcher
  BY <1>6, RequestsAssumption
    DEF ResponseDispatcher, config, clocks, RegistryInv, RegistryTypeOK, EntriesInOrder,
      OwnBuffered,
      Alone
<1>7. CASE Shutdown
  BY <1>7, RequestsAssumption
    DEF Shutdown, config, clocks, RegistryInv, RegistryTypeOK, EntriesInOrder, OwnBuffered, Alone
<1>8. CASE Tick
  BY <1>8, RequestsAssumption
    DEF Tick, config, clocks, RegistryInv, RegistryTypeOK, EntriesInOrder, OwnBuffered, Alone
<1>9. CASE UNCHANGED registryVars
  BY <1>9
    DEF registryVars, config, clocks, RegistryInv, RegistryTypeOK, EntriesInOrder, OwnBuffered,
      Alone
<1>10. ASSUME NEW r \in Requests, WriteRequest(r) PROVE OwnBuffered'
  BY <1>10, RequestsAssumption
    DEF WriteRequest, config, clocks, RegistryInv, RegistryTypeOK, EntriesInOrder, OwnBuffered,
      Alone
<1>11. QED
  BY <1>1, <1>2, <1>3, <1>4, <1>5, <1>6, <1>7, <1>8, <1>9, <1>10 DEF RegistryNext

\* Each step keeps OwnAnswer.
LEMMA AnswerStep ==
    ASSUME RegistryInv, [RegistryNext]_registryVars
    PROVE  OwnAnswer'
<1>1. ASSUME NEW r \in Requests, RegisterRequest(r) PROVE OwnAnswer'
  BY <1>1
    DEF RegisterRequest, config, clocks, RegistryInv, RegistryTypeOK, OwnBuffered, OwnAnswer, Alone
<1>2. ASSUME NEW r \in Requests, RequestStep(r) PROVE OwnAnswer'
  <2>1. CASE SelectResponse(r)
    BY <2>1
      DEF SelectResponse, Leave, config, clocks, RegistryInv, RegistryTypeOK, OwnBuffered,
        OwnAnswer,
        Alone
  <2>2. CASE SelectClosed(r)
    BY <2>2
      DEF SelectClosed, Leave, config, clocks, RegistryInv, RegistryTypeOK, OwnBuffered, OwnAnswer,
        Alone
  <2>3. CASE SelectTimeout(r)
    BY <2>3
      DEF SelectTimeout, Leave, config, clocks, RegistryInv, RegistryTypeOK, OwnBuffered, OwnAnswer,
        Alone
  <2>4. CASE UnregisterRequest(r)
    BY <2>4
      DEF UnregisterRequest, config, clocks, RegistryInv, RegistryTypeOK, OwnBuffered, OwnAnswer,
        Alone
  <2>5. QED
    BY <1>2, <2>1, <2>2, <2>3, <2>4 DEF RequestStep
<1>3. ASSUME NEW r \in Requests, RegisterTimerFires(r) PROVE OwnAnswer'
  BY <1>3
    DEF RegisterTimerFires, config, clocks, RegistryInv, RegistryTypeOK, OwnBuffered, OwnAnswer,
      Alone
<1>4. ASSUME NEW r \in Requests, BackendAnswers(r) PROVE OwnAnswer'
  BY <1>4
    DEF BackendAnswers, config, clocks, RegistryInv, RegistryTypeOK, OwnBuffered, OwnAnswer, Alone
<1>5. ASSUME NEW r \in Requests, BackendDies(r) PROVE OwnAnswer'
  BY <1>5
    DEF BackendDies, config, clocks, RegistryInv, RegistryTypeOK, OwnBuffered, OwnAnswer, Alone
<1>6. CASE ResponseDispatcher
  BY <1>6
    DEF ResponseDispatcher, config, clocks, RegistryInv, RegistryTypeOK, OwnBuffered, OwnAnswer,
      Alone
<1>7. CASE Shutdown
  BY <1>7 DEF Shutdown, config, clocks, RegistryInv, RegistryTypeOK, OwnBuffered, OwnAnswer, Alone
<1>8. CASE Tick
  BY <1>8 DEF Tick, config, clocks, RegistryInv, RegistryTypeOK, OwnBuffered, OwnAnswer, Alone
<1>9. CASE UNCHANGED registryVars
  BY <1>9
    DEF registryVars, config, clocks, RegistryInv, RegistryTypeOK, OwnBuffered, OwnAnswer, Alone
<1>10. ASSUME NEW r \in Requests, WriteRequest(r) PROVE OwnAnswer'
  BY <1>10
    DEF WriteRequest, config, clocks, RegistryInv, RegistryTypeOK, OwnBuffered, OwnAnswer, Alone
<1>11. QED
  BY <1>1, <1>2, <1>3, <1>4, <1>5, <1>6, <1>7, <1>8, <1>9, <1>10 DEF RegistryNext

\* The registry starts empty.
LEMMA InitRegistryInv == RegistryInit => RegistryInv
<1>1. RegistryInit => RegistryTypeOK
  <2>1. RegistryInit => shut \in BOOLEAN
    BY Zenon DEF RegistryInit
  <2>2. QED
    BY <2>1 DEF RegistryInit, RegistryTypeOK
<1>2. RegistryInit => EntriesInOrder /\ ClosedWasRegistered /\ OwnBuffered /\ RegisteredIsOpen
  BY DEF RegistryInit, EntriesInOrder, ClosedWasRegistered, OwnBuffered, RegisteredIsOpen
<1>3. RegistryInit => OwnAnswer
  BY DEF RegistryInit, OwnAnswer
<1>4. QED BY <1>1, <1>2, <1>3 DEF RegistryInv

\* RegistryInv is an inductive invariant of the registry.
THEOREM PendingInvariance == RegistrySpec => []RegistryInv
<1>1. RegistryInit => RegistryInv
  BY InitRegistryInv
<1>2. RegistryInv /\ [RegistryNext]_registryVars => RegistryInv'
  BY RegistryTypeStep, EntriesStep, ClosedStep, BufferedStep, OpenStep, AnswerStep
    DEF RegistryInv
<1>3. QED BY <1>1, <1>2, PTL DEF RegistrySpec

\* The types hold always.
THEOREM PendingTypes == RegistrySpec => []RegistryTypeOK
<1>1. RegistryInv => RegistryTypeOK
  BY DEF RegistryInv
<1>2. QED BY <1>1, PendingInvariance, PTL

\* No channel in the registry is closed, however many requests share an id: no
\* send and no close panics.
THEOREM PendingOpen == RegistrySpec => []RegisteredIsOpen
<1>1. RegistryInv => RegisteredIsOpen
  BY DEF RegistryInv
<1>2. QED BY <1>1, PendingInvariance, PTL

\* A request with an id of its own receives its own answer or none.
THEOREM PendingOwnAnswer == RegistrySpec => []OwnAnswer
<1>1. RegistryInv => OwnAnswer
  BY DEF RegistryInv
<1>2. QED BY <1>1, PendingInvariance, PTL
=============================================================================
