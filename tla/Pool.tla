-------------------------------- MODULE Pool --------------------------------
(***************************************************************************)
(* The process pool of one backend (poolmgr/pool.go): the buffered channel *)
(* Warm, the spawnAndHandshake goroutines that fill it, the circuit        *)
(* breaker spawnAttempts, the request handlers that take a process out of  *)
(* Warm and give it back, and Shutdown.                                    *)
(*                                                                         *)
(* Goroutines step independently between their accesses to shared state.   *)
(* The wait group is the set of goroutines counted by wg.Add and not yet   *)
(* by wg.Done; the semaphore channel Spawning is the set of goroutines     *)
(* holding one of its slots.  Time is abstracted: a timer that can expire  *)
(* is an action that may be taken.  The mutex pool.mu matters to the       *)
(* others while GetProcessMemory holds it, which waits on Warm meanwhile;  *)
(* a step that locks it is not taken then.  CurrentSize, which only status *)
(* pages read, is left out, the locking for it is not.                     *)
(***************************************************************************)
EXTENDS Integers, Sequences, FiniteSets

CONSTANTS
    Procs,            \* identities of backend processes
    Spawners,         \* identities of spawnAndHandshake goroutines
    Handlers,         \* identities of request-handling goroutines
    Kinds,            \* the handlers that are exercised, a subset of AllKinds
    NoProc,           \* the nil *ManagedProcess
    MinPoolSize, MaxPoolSize,
    SpawnSlots,       \* capacity of the channel Spawning
    MaxSpawnAttempts, \* maxSpawnAttempts
    SimpleCommand,    \* isSimpleCommand(pool.Command): no MCP handshake
    MaxCalls,         \* bound: requests that arrive in a behaviour
    MaxResets         \* bound: calls of ResetSpawnAttempts in a behaviour

AllKinds == {"call", "default", "v2call", "list", "expand", "exec", "tools", "memory"}

ASSUME SetsAssumption == NoProc \notin Procs /\ IsFiniteSet(Procs)
ASSUME SizeAssumption ==
    MinPoolSize \in Nat /\ MaxPoolSize \in Nat /\ SpawnSlots \in Nat \ {0}
ASSUME BreakerAssumption == MaxSpawnAttempts \in Nat \ {0}
ASSUME BoundsAssumption == MaxCalls \in Nat /\ MaxResets \in Nat
ASSUME KindsAssumption == Kinds \subseteq AllKinds /\ SimpleCommand \in BOOLEAN

VARIABLES
    warm,          \* contents of the channel Warm, oldest first
    warmClosed,    \* close(pool.Warm) has run
    closed,        \* pool.closed
    wg,            \* goroutines counted by pool.wg
    slots,         \* goroutines holding a slot of pool.Spawning
    spawnAttempts, \* consecutive failed spawns
    spc, sproc,    \* program counter and process of each spawn goroutine
    hpc, hproc,    \* program counter and process of each request handler
    hkind,         \* which handler the goroutine runs
    live,          \* processes that are running
    drained,       \* processes GetProcessMemory has taken out of Warm
    calls, resets  \* environment counters, bounded

vars == <<warm, warmClosed, closed, wg, slots, spawnAttempts, spc,
          sproc, hpc, hproc, hkind, live, drained, calls, resets>>

spawnVars == <<spc, sproc, wg, slots, spawnAttempts>>
handlerVars == <<hpc, hproc, hkind, calls>>
others == <<drained, resets>>

(***************************************************************************)
(* Sizes and predicates.                                                   *)
(***************************************************************************)

\* NewPoolWithEnv: a maximum of 0 becomes the minimum, and the channel
\* always has room for one process.
WarmCap ==
    LET max == IF MaxPoolSize = 0 THEN MinPoolSize ELSE MaxPoolSize
    IN  IF max < 1 THEN 1 ELSE max

IsUnavailable == spawnAttempts >= MaxSpawnAttempts

IsSpawning == Cardinality(slots) >= SpawnSlots

Elements(seq) == {seq[i] : i \in DOMAIN seq}

\* Processes some goroutine or the channel still refers to.
Referenced == Elements(warm) \cup Elements(drained)
                  \cup {sproc[s] : s \in Spawners} \cup {hproc[h] : h \in Handlers}

\* The identities of processes that are gone, and of handlers that are idle, are
\* as good as each other: one of them is used next.
NewProc == CHOOSE p \in Procs \ Referenced : TRUE
IdleHandler == CHOOSE h \in Handlers : hpc[h] = "idle"

\* GetProcessMemory holds pool.mu.
Locked == \E h \in Handlers : hpc[h] \in {"drain", "refill"}

\* Handlers that leave through ReleaseWarm; the others send on Warm directly.
ReleasesWithReleaseWarm(k) == k \in {"call", "default", "v2call"}

\* Handlers that start with GetWarmWithRetry, with WaitForWarmWithMax, with
\* WaitForWarm followed by a receive, and with a single non-blocking receive.
UsesRetry(k) == k \in {"call", "default", "v2call"}
UsesWait(k) == k \in {"list", "expand"}
ReceivesDirectly(k) == k \in {"exec", "tools"}

\* What becomes of the process when the response channel is closed.
KillsOnClosed(k) == k = "call"
DropsOnClosed(k) == k = "call"

\* What becomes of the process when the handler's own timeout expires.  The
\* timeout of "v2call" is longer than the 30 s after which its response
\* channel is closed, and its request id is its own: it never expires.
CanTimeOut(k) == k # "v2call"
\* Mutant of KillsOnTimeout: tools/call forgets to kill.
KillsOnTimeoutMutant(k) == k \notin {"tools", "call"}

KillsOnTimeout(k) == k # "tools"
DropsOnTimeout(k) == k \in {"call", "default", "list"}

TypeOK ==
    /\ warm \in Seq(Procs)
    /\ warmClosed \in BOOLEAN /\ closed \in BOOLEAN
    /\ wg \in SUBSET Spawners /\ slots \in SUBSET Spawners
    /\ spawnAttempts \in Nat
    /\ spc \in [Spawners -> {"off", "timer", "start", "slot", "check", "spawn",
                             "spawned", "handshake", "push", "finish"}]
    /\ sproc \in [Spawners -> Procs \cup {NoProc}]
    /\ hpc \in [Handlers -> {"idle", "try", "decide", "wait", "warmwait", "receive",
                             "write", "use", "return", "push", "panicked", "poll",
                             "count", "offer", "drain", "refill"}]
    /\ hproc \in [Handlers -> Procs \cup {NoProc}]
    /\ hkind \in [Handlers -> AllKinds]
    /\ live \in SUBSET Procs /\ drained \in Seq(Procs)
    /\ calls \in 0..MaxCalls /\ resets \in 0..MaxResets

\* NewPoolWithEnv starts MinPoolSize goroutines.
Init ==
    /\ warm = <<>> /\ warmClosed = FALSE /\ closed = FALSE
    /\ \E S \in SUBSET Spawners :
          /\ Cardinality(S) = MinPoolSize
          /\ wg = S
          /\ spc = [s \in Spawners |-> IF s \in S THEN "start" ELSE "off"]
    /\ slots = {} /\ spawnAttempts = 0
    /\ sproc = [s \in Spawners |-> NoProc]
    /\ hpc = [h \in Handlers |-> "idle"] /\ hproc = [h \in Handlers |-> NoProc]
    /\ hkind = [h \in Handlers |-> "call"]
    /\ live = {} /\ drained = <<>> /\ calls = 0 /\ resets = 0

(***************************************************************************)
(* spawnAndHandshake.                                                      *)
(***************************************************************************)

\* wg.Add(1); go pool.spawnAndHandshake()
Launch(s) ==
    /\ spc[s] = "off"
    /\ spc' = [spc EXCEPT ![s] = "start"]
    /\ wg' = wg \cup {s}

\* Mutant: wg.Done is forgotten on return.
ExitMutant(s, pc) ==
    /\ spc' = [spc EXCEPT ![s] = pc]
    /\ sproc' = [sproc EXCEPT ![s] = NoProc]
    /\ slots' = slots \ {s}
    /\ UNCHANGED wg

\* The goroutine returns: the deferred calls free its slot and call wg.Done.
Exit(s, pc) ==
    /\ spc' = [spc EXCEPT ![s] = pc]
    /\ sproc' = [sproc EXCEPT ![s] = NoProc]
    /\ wg' = wg \ {s}
    /\ slots' = slots \ {s}

Goto(s, pc) ==
    /\ spc' = [spc EXCEPT ![s] = pc]
    /\ UNCHANGED <<sproc, wg, slots>>

SpawnStart(s) ==
    /\ spc[s] = "start" /\ ~Locked
    /\ IF closed THEN Exit(s, "off") ELSE Goto(s, "slot")
    /\ UNCHANGED <<warm, warmClosed, closed, spawnAttempts,
                   handlerVars, live, others>>

AcquireSlot(s) ==
    /\ spc[s] = "slot" /\ ~IsSpawning
    /\ slots' = slots \cup {s}
    /\ spc' = [spc EXCEPT ![s] = "check"]
    /\ UNCHANGED <<warm, warmClosed, closed, wg, spawnAttempts, sproc,
                   handlerVars, live, others>>

\* No slot within 100 ms: a fresh goroutine replaces this one.
SlotTimeout(s) ==
    /\ spc[s] = "slot" /\ IsSpawning /\ ~Locked
    /\ IF closed THEN Exit(s, "off") ELSE Goto(s, "start")
    /\ UNCHANGED <<warm, warmClosed, closed, spawnAttempts,
                   handlerVars, live, others>>

CheckClosed(s) ==
    /\ spc[s] = "check" /\ ~Locked
    /\ IF closed THEN Exit(s, "off") ELSE Goto(s, "spawn")
    /\ UNCHANGED <<warm, warmClosed, closed, spawnAttempts,
                   handlerVars, live, others>>

\* Mutant: the failed attempt is not counted.
CountFailureMutant(s) ==
    /\ UNCHANGED spawnAttempts
    /\ Exit(s, IF IsUnavailable \/ closed THEN "off" ELSE "timer")

\* A failed attempt is counted; below the limit a timer restarts the
\* goroutine, at the limit nothing does.
CountFailure(s) ==
    /\ spawnAttempts' = spawnAttempts + 1
    /\ Exit(s, IF spawnAttempts' >= MaxSpawnAttempts \/ closed THEN "off" ELSE "timer")

\* SpawnProcess returns an error.
SpawnFails(s) ==
    /\ spc[s] = "spawn" /\ ~Locked
    /\ IF closed THEN Exit(s, "off") /\ UNCHANGED spawnAttempts ELSE CountFailure(s)
    /\ UNCHANGED <<warm, warmClosed, closed, handlerVars, live, others>>

SpawnProcess(s) ==
    /\ spc[s] = "spawn"
    /\ \E p \in Procs \ Referenced :
          /\ p = NewProc
          /\ sproc' = [sproc EXCEPT ![s] = p]
          /\ live' = live \cup {p}
    /\ spc' = [spc EXCEPT ![s] = "spawned"]
    /\ UNCHANGED <<warm, warmClosed, closed, wg, slots, spawnAttempts,
                   handlerVars, others>>

\* Closed meanwhile: kill.  Otherwise run the handshake, unless the command
\* does not speak MCP.
AfterSpawn(s) ==
    /\ spc[s] = "spawned" /\ ~Locked
    /\ IF closed
       THEN Exit(s, "off") /\ live' = live \ {sproc[s]}
       ELSE Goto(s, IF SimpleCommand THEN "push" ELSE "handshake") /\ UNCHANGED live
    /\ UNCHANGED <<warm, warmClosed, closed, spawnAttempts, handlerVars, others>>

\* performMCPHandshake receives the answer to initialize.
HandshakeAnswered(s) ==
    /\ spc[s] = "handshake" /\ sproc[s] \in live /\ ~Locked
    /\ Goto(s, "push")
    /\ UNCHANGED <<warm, warmClosed, closed, spawnAttempts,
                   handlerVars, live, others>>

\* RegisterRequest closes the response channel after 30 s, handshakeTimeout
\* is 30 s as well: the select may take the closed channel, and the handshake
\* then counts as done.
HandshakeChannelClosed(s) ==
    /\ spc[s] = "handshake" /\ ~Locked
    /\ Goto(s, "push")
    /\ UNCHANGED <<warm, warmClosed, closed, spawnAttempts,
                   handlerVars, live, others>>

\* handshakeTimeout: kill, count the failure, retry below the limit.
HandshakeTimeout(s) ==
    /\ spc[s] = "handshake" /\ ~Locked
    /\ live' = live \ {sproc[s]}
    /\ CountFailure(s)
    /\ UNCHANGED <<warm, warmClosed, closed, handlerVars, others>>

\* pool.Warm <- proc blocks while the channel is full.
PushWarm(s) ==
    /\ spc[s] = "push" /\ ~warmClosed /\ Len(warm) < WarmCap
    /\ warm' = Append(warm, sproc[s])
    /\ spc' = [spc EXCEPT ![s] = "finish"]
    /\ sproc' = [sproc EXCEPT ![s] = NoProc]
    /\ UNCHANGED <<warmClosed, closed, wg, slots, spawnAttempts,
                   handlerVars, live, others>>

\* A handshake resets the failure count, a simple command does not.
SpawnDone(s) ==
    /\ spc[s] = "finish" /\ ~Locked
    /\ spawnAttempts' = IF SimpleCommand THEN spawnAttempts ELSE 0
    /\ Exit(s, "off")
    /\ UNCHANGED <<warm, warmClosed, closed, handlerVars, live, others>>

\* The retry timer: wg.Add(1) and go, whether or not the pool was closed.
TimerFires(s) ==
    /\ spc[s] = "timer"
    /\ spc' = [spc EXCEPT ![s] = "start"]
    /\ wg' = wg \cup {s}
    /\ UNCHANGED <<warm, warmClosed, closed, slots, spawnAttempts, sproc,
                   handlerVars, live, others>>

\* ResetSpawnAttempts, also ForceReconnect: an open breaker is closed and one
\* goroutine started.
ResetSpawnAttempts ==
    /\ ~Locked /\ resets < MaxResets /\ resets' = resets + 1
    /\ spawnAttempts' = 0
    /\ IF IsUnavailable THEN \E s \in Spawners : Launch(s) ELSE UNCHANGED <<spc, wg>>
    /\ UNCHANGED <<warm, warmClosed, closed, slots, sproc, handlerVars, live, drained>>

(***************************************************************************)
(* Request handlers.                                                       *)
(***************************************************************************)

\* The kind of a handler that has returned is forgotten.
HandlerGoto(h, pc) ==
    /\ hpc' = [hpc EXCEPT ![h] = pc]
    /\ hkind' = [hkind EXCEPT ![h] = IF pc \in {"idle", "panicked"} THEN "call" ELSE hkind[h]]
    /\ UNCHANGED <<hproc, calls>>

\* The handler returns, or panics, without a process.
HandlerEnds(h, pc) ==
    /\ hpc' = [hpc EXCEPT ![h] = pc]
    /\ hproc' = [hproc EXCEPT ![h] = NoProc]
    /\ hkind' = [hkind EXCEPT ![h] = "call"]
    /\ UNCHANGED calls

\* proc := <-pool.Warm with a process in the channel.
Receive(h, pc) ==
    /\ warm # <<>>
    /\ warm' = Tail(warm)
    /\ hproc' = [hproc EXCEPT ![h] = Head(warm)]
    /\ hpc' = [hpc EXCEPT ![h] = pc]
    /\ UNCHANGED <<hkind, calls>>

\* A request starts; GetProcessMemory does with the mutex.
Arrive(h, k) ==
    /\ hpc[h] = "idle" /\ h = IdleHandler /\ calls < MaxCalls
    /\ k = "memory" => ~Locked
    /\ calls' = calls + 1
    /\ hkind' = [hkind EXCEPT ![h] = k]
    /\ hpc' = [hpc EXCEPT ![h] = CASE UsesRetry(k) -> "try"
                                   [] UsesWait(k) -> "wait"
                                   [] k = "exec" -> "warmwait"
                                   [] k = "tools" -> "receive"
                                   [] k = "memory" -> "drain"]
    /\ UNCHANGED <<warm, warmClosed, closed, spawnVars, hproc, live, others>>

\* TryAcquireWarm: IsAlive looks at Cmd.ProcessState, which only Cmd.Wait sets
\* and nothing calls, so no received process is ever found dead.  A receive
\* from the closed, drained channel yields nil, which is dereferenced.
TryAcquireWarm(h) ==
    /\ hpc[h] = "try"
    /\ \/ Receive(h, "count")
       \/ /\ warm = <<>> /\ UNCHANGED warm
          /\ HandlerGoto(h, IF warmClosed THEN "panicked" ELSE "decide")
    /\ UNCHANGED <<warmClosed, closed, spawnVars, live, others>>

\* GetWarmWithRetry found no process: start a goroutine unless the breaker is
\* open or every slot is taken, then wait.
DecideSpawn(h) ==
    /\ hpc[h] = "decide" /\ ~Locked
    /\ IF ~IsUnavailable /\ ~IsSpawning
       THEN \E s \in Spawners : Launch(s)
       ELSE UNCHANGED <<spc, wg>>
    /\ HandlerGoto(h, "wait")
    /\ UNCHANGED <<warm, warmClosed, closed, slots, spawnAttempts, sproc,
                   live, others>>

\* A turn of WaitForWarmWithMax looks at the breaker first.
WaitForWarmWithMax(h) ==
    /\ hpc[h] = "wait" /\ ~Locked
    /\ HandlerGoto(h, IF IsUnavailable THEN "idle" ELSE "poll")
    /\ UNCHANGED <<warm, warmClosed, closed, spawnVars, live, others>>

\* Then at the channel; one that is empty leads to another turn or, after the
\* deadline, to an error.
PollWarm(h) ==
    /\ hpc[h] = "poll"
    /\ \/ Receive(h, "count")
       \/ /\ warm = <<>> /\ UNCHANGED warm
          /\ \E pc \in (IF warmClosed THEN {"panicked"} ELSE {"wait", "idle"}) : HandlerGoto(h, pc)
    /\ UNCHANGED <<warmClosed, closed, spawnVars, live, others>>

\* CurrentSize is changed under the mutex, after a receive and before ReleaseWarm
\* offers the process.
CountSize(h) ==
    /\ hpc[h] \in {"count", "return"} /\ ~Locked
    /\ HandlerGoto(h, IF hpc[h] = "count" THEN "write" ELSE "offer")
    /\ UNCHANGED <<warm, warmClosed, closed, spawnVars, live, others>>

\* WaitForWarm only looks at len(pool.Warm).
WaitForWarm(h) ==
    /\ hpc[h] = "warmwait"
    /\ HandlerGoto(h, IF warm # <<>> THEN "receive" ELSE "idle")
    /\ UNCHANGED <<warm, warmClosed, closed, spawnVars, live, others>>

\* A single non-blocking receive.
ReceiveWarm(h) ==
    /\ hpc[h] = "receive"
    /\ \/ Receive(h, "write")
       \/ /\ warm = <<>> /\ UNCHANGED warm
          /\ HandlerGoto(h, IF warmClosed THEN "panicked" ELSE "idle")
    /\ UNCHANGED <<warmClosed, closed, spawnVars, live, others>>

\* proc.Stdin.Write has no deadline: it returns when the process has read enough
\* of its pipe, or has exited.
StdinWrite(h) ==
    /\ hpc[h] = "write"
    /\ HandlerGoto(h, "use")
    /\ UNCHANGED <<warm, warmClosed, closed, spawnVars, live, others>>

\* Give the process back, the way this handler does.
GiveBack(h) == HandlerGoto(h, IF ReleasesWithReleaseWarm(hkind[h]) THEN "return" ELSE "push")

Reply(h) ==
    /\ hpc[h] = "use" /\ hproc[h] \in live
    /\ GiveBack(h)
    /\ UNCHANGED <<warm, warmClosed, closed, spawnVars, live, others>>

\* No answer: the response channel is closed by its timer.
ResponseClosed(h) ==
    /\ hpc[h] = "use"
    /\ live' = IF KillsOnClosed(hkind[h]) THEN live \ {hproc[h]} ELSE live
    /\ IF DropsOnClosed(hkind[h]) THEN HandlerEnds(h, "idle") ELSE GiveBack(h)
    /\ UNCHANGED <<warm, warmClosed, closed, spawnVars, others>>

RequestTimeout(h) ==
    /\ hpc[h] = "use" /\ CanTimeOut(hkind[h])
    /\ live' = IF KillsOnTimeout(hkind[h]) THEN live \ {hproc[h]} ELSE live
    /\ IF DropsOnTimeout(hkind[h]) THEN HandlerEnds(h, "idle") ELSE GiveBack(h)
    /\ UNCHANGED <<warm, warmClosed, closed, spawnVars, others>>

\* Mutant: the handler goes on to a second, deferred release.
ReleaseTwiceMutant(h) ==
    /\ hpc[h] = "offer" /\ ~warmClosed /\ Len(warm) < WarmCap
    /\ warm' = Append(warm, hproc[h])
    /\ HandlerGoto(h, "offer")
    /\ UNCHANGED <<warmClosed, closed, spawnVars, live, others>>

\* ReleaseWarm offers the process without blocking; a full channel kills it and
\* a closed one panics.
ReleaseWarm(h) ==
    /\ hpc[h] = "offer"
    /\ \/ /\ warmClosed /\ HandlerEnds(h, "panicked") /\ UNCHANGED <<warm, live>>
       \/ /\ ~warmClosed /\ Len(warm) < WarmCap
          /\ warm' = Append(warm, hproc[h])
          /\ HandlerEnds(h, "idle") /\ UNCHANGED live
       \/ /\ ~warmClosed /\ Len(warm) >= WarmCap
          /\ live' = live \ {hproc[h]}
          /\ HandlerEnds(h, "idle") /\ UNCHANGED warm
    /\ UNCHANGED <<warmClosed, closed, spawnVars, others>>

\* pool.Warm <- proc, blocking while full, in the handlers that do not call
\* ReleaseWarm.
SendWarm(h) ==
    /\ hpc[h] = "push"
    /\ \/ warmClosed /\ HandlerEnds(h, "panicked") /\ UNCHANGED warm
       \/ /\ ~warmClosed /\ Len(warm) < WarmCap
          /\ warm' = Append(warm, hproc[h])
          /\ HandlerEnds(h, "idle")
    /\ UNCHANGED <<warmClosed, closed, spawnVars, live, others>>

(***************************************************************************)
(* GetProcessMemory.                                                       *)
(***************************************************************************)

\* Mutant: the select has no default, so the last receive waits for a process.
DrainWarmMutant(h) ==
    /\ hpc[h] = "drain" /\ warm # <<>>
    /\ drained' = Append(drained, Head(warm)) /\ warm' = Tail(warm)
    /\ UNCHANGED <<warmClosed, closed, spawnVars, handlerVars, live, resets>>

\* Receives until the channel is empty.  A closed channel always has another
\* nil to receive: there the loop does not end.
DrainWarm(h) ==
    /\ hpc[h] = "drain"
    /\ \/ /\ warm # <<>>
          /\ drained' = Append(drained, Head(warm)) /\ warm' = Tail(warm)
          /\ UNCHANGED handlerVars
       \/ /\ warm = <<>> /\ ~warmClosed
          /\ HandlerGoto(h, "refill")
          /\ UNCHANGED <<warm, drained>>
    /\ UNCHANGED <<warmClosed, closed, spawnVars, live, resets>>

\* Puts them back, blocking while the channel is full, with the mutex held; a
\* send on a closed channel panics.
RefillWarm(h) ==
    /\ hpc[h] = "refill"
    /\ \/ /\ drained = <<>> \/ warmClosed
          /\ HandlerEnds(h, IF drained = <<>> THEN "idle" ELSE "panicked")
          /\ drained' = <<>> /\ UNCHANGED warm
       \/ /\ drained # <<>> /\ ~warmClosed /\ Len(warm) < WarmCap
          /\ warm' = Append(warm, Head(drained)) /\ drained' = Tail(drained)
          /\ UNCHANGED handlerVars
    /\ UNCHANGED <<warmClosed, closed, spawnVars, live, resets>>

(***************************************************************************)
(* Shutdown and the environment.                                           *)
(***************************************************************************)

ShutdownBegin ==
    /\ ~Locked /\ ~closed /\ closed' = TRUE
    /\ UNCHANGED <<warm, warmClosed, spawnVars, handlerVars, live, others>>

\* Mutant: Shutdown closes Warm without waiting for the goroutines.
ShutdownEndMutant ==
    /\ closed /\ ~warmClosed
    /\ warmClosed' = TRUE
    /\ UNCHANGED <<warm, closed, spawnVars, handlerVars, live, others>>

\* wg.Wait() returned: close(pool.Warm).  The processes in it keep running.
ShutdownEnd ==
    /\ closed /\ ~warmClosed /\ wg = {}
    /\ warmClosed' = TRUE
    /\ UNCHANGED <<warm, closed, spawnVars, handlerVars, live, others>>

\* A backend process exits by itself.
Crash(p) ==
    /\ p \in live
    /\ live' = live \ {p}
    /\ UNCHANGED <<warm, warmClosed, closed, spawnVars, handlerVars, others>>

SpawnStep(s) ==
    \/ SpawnStart(s) \/ AcquireSlot(s) \/ SlotTimeout(s) \/ CheckClosed(s)
    \/ SpawnFails(s) \/ SpawnProcess(s) \/ AfterSpawn(s)
    \/ HandshakeAnswered(s) \/ HandshakeChannelClosed(s) \/ HandshakeTimeout(s)
    \/ PushWarm(s) \/ SpawnDone(s) \/ TimerFires(s)

HandlerStep(h) ==
    \/ TryAcquireWarm(h) \/ DecideSpawn(h) \/ WaitForWarmWithMax(h)
    \/ PollWarm(h) \/ CountSize(h) \/ WaitForWarm(h) \/ ReceiveWarm(h)
    \/ Reply(h) \/ ResponseClosed(h) \/ RequestTimeout(h)
    \/ ReleaseWarm(h) \/ SendWarm(h)
    \/ DrainWarm(h) \/ RefillWarm(h)

Next ==
    \/ \E s \in Spawners : SpawnStep(s)
    \/ \E h \in Handlers : HandlerStep(h) \/ StdinWrite(h) \/ \E k \in Kinds : Arrive(h, k)
    \/ ResetSpawnAttempts \/ ShutdownBegin \/ ShutdownEnd
    \/ \E p \in Procs : Crash(p)

Spec == Init /\ [][Next]_vars

\* Go schedules every runnable goroutine, every timer fires, and the goroutine
\* in Shutdown resumes when the wait group is empty.  A write returns when the
\* process is dead; a live one need not read.  (The few hundred bytes of the
\* handshake fit the empty pipe of a new process.)
Fairness ==
    /\ \A s \in Spawners : WF_vars(SpawnStep(s))
    /\ \A h \in Handlers : WF_vars(HandlerStep(h) \/ (hproc[h] \notin live /\ StdinWrite(h)))
    /\ WF_vars(ShutdownEnd)

FairSpec == Spec /\ Fairness

(***************************************************************************)
(* Properties.                                                             *)
(***************************************************************************)

Distinct(seq) == \A i, j \in DOMAIN seq : seq[i] = seq[j] => i = j

\* A process is in one place: it is not twice in Warm or in the hands of
\* GetProcessMemory, not held by two goroutines, and not in Warm while somebody
\* holds it.  Two requests would otherwise share the stdin of one process.
ExclusiveUse ==
    /\ Distinct(warm) /\ Distinct(drained) /\ Elements(warm) \cap Elements(drained) = {}
    /\ \A s \in Spawners : sproc[s] # NoProc =>
          /\ sproc[s] \notin Elements(warm) \cup Elements(drained)
          /\ \A t \in Spawners : sproc[t] = sproc[s] => t = s
          /\ \A h \in Handlers : hproc[h] # sproc[s]
    /\ \A h \in Handlers : hproc[h] # NoProc =>
          /\ hproc[h] \notin Elements(warm) \cup Elements(drained)
          /\ \A g \in Handlers : hproc[g] = hproc[h] => g = h

\* Shutdown closes Warm only after every spawn goroutine that can still send
\* on it has finished, however timers, retries and requests interleave: a
\* goroutine about to send always finds the channel open.
SpawnersSendOnOpenChannel ==
    warmClosed => \A s \in Spawners : spc[s] \in {"off", "timer", "start"}

\* While the pool is open every running process is in Warm or held by a
\* goroutine: each path that drops a process (timeout, closed response channel,
\* full Warm, failed handshake, late spawn) kills it.
NoOrphans == ~warmClosed => live \subseteq Referenced

\* The send on a full Warm that a spawn goroutine cannot finish.
Blocked(s) == spc[s] = "push" /\ Len(warm) = WarmCap

\* GetProcessMemory cannot go on: somebody has filled Warm behind its back, or
\* Warm is closed and it reads nil for ever.  It holds the mutex meanwhile.
MemoryStuck ==
    \E h \in Handlers :
        \/ hpc[h] = "refill" /\ drained # <<>> /\ Len(warm) = WarmCap
        \/ hpc[h] = "drain" /\ warm = <<>> /\ warmClosed

\* Shutdown returns, unless a spawn goroutine is blocked on a full Warm or the
\* mutex is never given back.
ShutdownFinishes ==
    closed ~> (warmClosed \/ MemoryStuck \/ \E s \in Spawners : Blocked(s))

\* Retries come to an end: the breaker stops every chain of failing spawns, so
\* finally each spawn goroutine is gone, is blocked on a full Warm, or keeps
\* asking for a slot because blocked goroutines hold all of them.
RetriesSettle ==
    <>[](\/ MemoryStuck
         \/ \A s \in Spawners :
               \/ spc[s] = "off"
               \/ Blocked(s)
               \/ spc[s] \in {"start", "slot"} /\ IsSpawning /\ \A t \in slots : Blocked(t))

\* A request that was written to its process, or whose process died under the
\* write, ends, and so does GetProcessMemory, unless the handler sends on Warm
\* without ReleaseWarm and finds the channel full, or needs the mutex that
\* GetProcessMemory does not give back.  (The write has no deadline: nothing ends
\* a request whose process lives and does not read.)
CallsFinish ==
    \A h \in Handlers :
        (hpc[h] \in {"use", "drain"} \/ (hpc[h] = "write" /\ hproc[h] \notin live)) ~>
            \/ hpc[h] \in {"idle", "panicked"}
            \/ hpc[h] = "push" /\ Len(warm) = WarmCap
            \/ hpc[h] \in {"return", "drain", "refill"} /\ MemoryStuck
=============================================================================
