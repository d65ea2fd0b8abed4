---------------------------- MODULE PoolManager ----------------------------
(***************************************************************************)
(* The pool manager (poolmgr/manager.go): the map from "backend:user" to a *)
(* pool, requests that look a pool up or create it for the environment     *)
(* their user has now, and the sweeps that shut pools down: the idle       *)
(* garbage collector, the removal of a changed backend's pools, and        *)
(* ShutdownAll; and the status pages, which read every pool's memory.      *)
(*                                                                         *)
(* pm.mu is a reader-writer lock.  A section that never blocks is one step *)
(* taken while nobody holds the lock against it; a sweep holds it across   *)
(* the Shutdowns it calls, a status page (for reading) across the memory   *)
(* reports, each of which also holds its pool's mutex.  Pool.Shutdown is   *)
(* two steps: it marks the pool and waits for its goroutines.  No caller   *)
(* in the bridge passes secrets.                                           *)
(***************************************************************************)
EXTENDS Naturals, FiniteSets

CONSTANTS
    Backends, Users,
    Envs,        \* environments of a user, that is, credentials
    Pools,       \* identities of Pool objects
    NoPool,
    Callers,     \* request goroutines
    Pages,       \* goroutines that serve a status page
    Sweeps,      \* kinds of sweep exercised, a subset of AllSweeps
    MaxGets,     \* bound: lookups in a behaviour
    MaxSweeps,   \* bound: sweeps in a behaviour
    MaxReports   \* bound: status pages in a behaviour

Keys == Backends \X Users
AllSweeps == {"gc", "backend", "shutdown"}

ASSUME PoolsAssumption == NoPool \notin Pools /\ Sweeps \subseteq AllSweeps
ASSUME NonEmptyAssumption == Backends # {} /\ Users # {} /\ Envs # {}
ASSUME BoundsAssumption == MaxGets \in Nat /\ MaxSweeps \in Nat /\ MaxReports \in Nat

VARIABLES
    pools,       \* pm.pools
    state,       \* of each pool: "new", "open", "closing", "closed"
    owner, env,  \* the key and the environment a pool was created with
    idle,        \* pools unused for longer than idleTimeout
    pc, want, wantEnv, held,  \* of each caller: counter, key, environment, pool
    sweep,       \* the sweep holding pm.mu, or "none"
    todo,        \* keys it has yet to visit
    visiting,    \* the key whose pool it is shutting down, as a set
    reporting,   \* pages that hold pm.mu for reading
    toReport,    \* of each page: keys it has yet to report on
    reading,     \* of each page: the key whose pool's mutex it holds, as a set
    gets, sweeps, reports

vars == <<pools, state, owner, env, idle, pc, want, wantEnv, held, sweep, todo,
          visiting, reporting, toReport, reading, gets, sweeps, reports>>
callerVars == <<pc, want, wantEnv, held, gets>>
sweepVars == <<sweep, todo, visiting, sweeps>>
pageVars == <<reporting, toReport, reading, reports>>

TypeOK ==
    /\ pools \in [Keys -> Pools \cup {NoPool}]
    /\ state \in [Pools -> {"new", "open", "closing", "closed"}]
    /\ owner \in [Pools -> Keys] /\ env \in [Pools -> Envs]
    /\ idle \in SUBSET Pools
    /\ pc \in [Callers -> {"idle", "lookup", "touch", "shutdown", "closing", "delete",
                           "create", "have"}]
    /\ want \in [Callers -> Keys] /\ wantEnv \in [Callers -> Envs]
    /\ held \in [Callers -> Pools \cup {NoPool}]
    /\ \A c \in Callers : pc[c] \notin {"idle", "lookup", "create"} => held[c] \in Pools
    /\ sweep \in AllSweeps \cup {"none"} /\ todo \in SUBSET Keys /\ visiting \in SUBSET Keys
    /\ reporting \in SUBSET Pages /\ toReport \in [Pages -> SUBSET Keys]
    /\ reading \in [Pages -> SUBSET Keys]
    /\ gets \in 0..MaxGets /\ sweeps \in 0..MaxSweeps /\ reports \in 0..MaxReports

\* What an unmade pool and an idle caller have for a key and an environment.
AnyKey == CHOOSE k \in Keys : TRUE
AnyEnv == CHOOSE e \in Envs : TRUE

Init ==
    /\ pools = [k \in Keys |-> NoPool]
    /\ state = [p \in Pools |-> "new"]
    /\ owner = [p \in Pools |-> AnyKey] /\ env = [p \in Pools |-> AnyEnv]
    /\ idle = {}
    /\ pc = [c \in Callers |-> "idle"]
    /\ want = [c \in Callers |-> AnyKey] /\ wantEnv = [c \in Callers |-> AnyEnv]
    /\ held = [c \in Callers |-> NoPool]
    /\ sweep = "none" /\ todo = {} /\ visiting = {}
    /\ reporting = {} /\ toReport = [g \in Pages |-> {}] /\ reading = [g \in Pages |-> {}]
    /\ gets = 0 /\ sweeps = 0 /\ reports = 0

(***************************************************************************)
(* GetOrCreateUserPoolWithSecrets.                                         *)
(***************************************************************************)

\* pm.mu can be taken for reading, and for writing.
Readable == sweep = "none"
Unlocked == Readable /\ reporting = {}

\* p.mu is free: no status page is inside GetProcessMemory of p.
PoolUnlocked(p) == \A g \in Pages, k \in Keys : k \in reading[g] => pools[k] # p

CallerGoto(c, to, p) ==
    /\ pc' = [pc EXCEPT ![c] = to]
    /\ held' = [held EXCEPT ![c] = p]

\* Callers that are idle are as good as each other: one of them takes the request.
IdleCaller == CHOOSE c \in Callers : pc[c] = "idle"

\* A request starts with the environment its user has at this moment.
Get(c, k, e) ==
    /\ pc[c] = "idle" /\ c = IdleCaller /\ gets < MaxGets
    /\ gets' = gets + 1
    /\ want' = [want EXCEPT ![c] = k] /\ wantEnv' = [wantEnv EXCEPT ![c] = e]
    /\ CallerGoto(c, "lookup", NoPool)
    /\ UNCHANGED <<pools, state, owner, env, idle, sweepVars, pageVars>>

\* Under the read lock: a pool with another environment is to be replaced.
\* EnvMatches takes the pool's mutex.
Lookup(c) ==
    /\ pc[c] = "lookup" /\ Readable
    /\ LET p == pools[want[c]]
       IN  IF p = NoPool THEN CallerGoto(c, "create", NoPool)
           ELSE /\ PoolUnlocked(p)
                /\ CallerGoto(c, IF env[p] = wantEnv[c] THEN "touch" ELSE "shutdown", p)
    /\ UNCHANGED <<pools, state, owner, env, idle, want, wantEnv, gets, sweepVars, pageVars>>

\* TouchLastUsed runs after the read lock is released.
TouchLastUsed(c) ==
    /\ pc[c] = "touch"
    /\ idle' = idle \ {held[c]}
    /\ CallerGoto(c, "have", held[c])
    /\ UNCHANGED <<pools, state, owner, env, want, wantEnv, gets, sweepVars, pageVars>>

\* Shutdown of the outdated pool, with no lock held; it returns at once when
\* somebody else has started it.
ShutdownBegin(c) ==
    /\ pc[c] = "shutdown" /\ PoolUnlocked(held[c])
    /\ IF state[held[c]] = "open"
       THEN /\ state' = [state EXCEPT ![held[c]] = "closing"]
            /\ CallerGoto(c, "closing", held[c])
       ELSE CallerGoto(c, "delete", held[c]) /\ UNCHANGED state
    /\ UNCHANGED <<pools, owner, env, idle, want, wantEnv, gets, sweepVars, pageVars>>

ShutdownEnd(c) ==
    /\ pc[c] = "closing"
    /\ state' = [state EXCEPT ![held[c]] = "closed"]
    /\ CallerGoto(c, "delete", held[c])
    /\ UNCHANGED <<pools, owner, env, idle, want, wantEnv, gets, sweepVars, pageVars>>

\* Whatever pool the key has by now leaves the map.
Delete(c) ==
    /\ pc[c] = "delete" /\ Unlocked
    /\ pools' = [pools EXCEPT ![want[c]] = NoPool]
    /\ CallerGoto(c, "create", NoPool)
    /\ UNCHANGED <<state, owner, env, idle, want, wantEnv, gets, sweepVars, pageVars>>

Unmade == {p \in Pools : state[p] = "new"}

\* A new Pool object; which identity it gets makes no difference.
NewPoolWithEnv(c, k) ==
    /\ Unmade # {}
    /\ LET p == CHOOSE q \in Unmade : TRUE IN
          /\ pools' = [pools EXCEPT ![k] = p]
          /\ state' = [state EXCEPT ![p] = "open"]
          /\ owner' = [owner EXCEPT ![p] = k] /\ env' = [env EXCEPT ![p] = wantEnv[c]]
          /\ CallerGoto(c, "have", p)

\* Mutant: the second check does not compare environments.
CreateMutant(c) ==
    /\ pc[c] = "create" /\ Unlocked
    /\ LET k == want[c] IN
       IF pools[k] # NoPool
       THEN /\ idle' = idle \ {pools[k]}
            /\ CallerGoto(c, "have", pools[k])
            /\ UNCHANGED <<pools, state, owner, env>>
       ELSE NewPoolWithEnv(c, k) /\ UNCHANGED idle
    /\ UNCHANGED <<want, wantEnv, gets, sweepVars, pageVars>>

\* Mutant: the map is not looked at again under the write lock.
CreateUncheckedMutant(c) ==
    /\ pc[c] = "create" /\ Unlocked
    /\ NewPoolWithEnv(c, want[c])
    /\ UNCHANGED <<idle, want, wantEnv, gets, sweepVars, pageVars>>

\* Under the write lock: take a pool somebody else created for the same
\* environment; one with another environment is overwritten.
Create(c) ==
    /\ pc[c] = "create" /\ Unlocked
    /\ LET k == want[c] IN
       IF pools[k] # NoPool /\ env[pools[k]] = wantEnv[c]
       THEN /\ idle' = idle \ {pools[k]}
            /\ CallerGoto(c, "have", pools[k])
            /\ UNCHANGED <<pools, state, owner, env>>
       ELSE NewPoolWithEnv(c, k) /\ UNCHANGED idle
    /\ UNCHANGED <<want, wantEnv, gets, sweepVars, pageVars>>

\* The request is over.
Return(c) ==
    /\ pc[c] = "have"
    /\ CallerGoto(c, "idle", NoPool)
    /\ want' = [want EXCEPT ![c] = AnyKey] /\ wantEnv' = [wantEnv EXCEPT ![c] = AnyEnv]
    /\ UNCHANGED <<pools, state, owner, env, idle, gets, sweepVars, pageVars>>

\* idleTimeout passes without a use of p.
IdleTooLong(p) ==
    /\ state[p] = "open" /\ p \notin idle
    /\ idle' = idle \cup {p}
    /\ UNCHANGED <<pools, state, owner, env, callerVars, sweepVars, pageVars>>

(***************************************************************************)
(* Sweeps: collectIdlePools, RemovePoolsByBackend, ShutdownAll.            *)
(***************************************************************************)

\* The sweep takes pm.mu; b is the backend that changed.
SweepBegin(kind, b) ==
    /\ Unlocked /\ sweeps < MaxSweeps
    /\ sweeps' = sweeps + 1
    /\ sweep' = kind /\ visiting' = {}
    /\ todo' = {k \in Keys : pools[k] # NoPool /\ (kind = "backend" => k[1] = b)}
    /\ UNCHANGED <<pools, state, owner, env, idle, callerVars, pageVars>>

\* The next pool: passed over, or already being shut down, or Shutdown begins.
SweepVisits(k) ==
    /\ sweep # "none" /\ visiting = {} /\ k \in todo
    /\ todo' = todo \ {k}
    /\ IF sweep = "gc" /\ pools[k] \notin idle
       THEN UNCHANGED <<pools, state, visiting>>
       ELSE IF state[pools[k]] = "open"
       THEN /\ state' = [state EXCEPT ![pools[k]] = "closing"]
            /\ visiting' = {k} /\ UNCHANGED pools
       ELSE /\ pools' = [pools EXCEPT ![k] = NoPool]
            /\ UNCHANGED <<state, visiting>>
    /\ UNCHANGED <<owner, env, idle, callerVars, sweep, sweeps, pageVars>>

\* Mutant: the pool is shut down and stays in the map.
SweepShutsMutant(k) ==
    /\ k \in visiting
    /\ state' = [state EXCEPT ![pools[k]] = "closed"]
    /\ visiting' = {}
    /\ UNCHANGED <<pools, owner, env, idle, callerVars, sweep, todo, sweeps, pageVars>>

\* Shutdown returns, the pool leaves the map.
SweepShuts(k) ==
    /\ k \in visiting
    /\ state' = [state EXCEPT ![pools[k]] = "closed"]
    /\ pools' = [pools EXCEPT ![k] = NoPool]
    /\ visiting' = {}
    /\ UNCHANGED <<owner, env, idle, callerVars, sweep, todo, sweeps, pageVars>>

\* Mutant: an early return leaves the lock held.
SweepEndMutant ==
    /\ sweep = "gc" /\ todo = {} /\ visiting = {}
    /\ sweep' = "none"
    /\ UNCHANGED <<pools, state, owner, env, idle, callerVars, todo, visiting, sweeps, pageVars>>

SweepEnd ==
    /\ sweep # "none" /\ todo = {} /\ visiting = {}
    /\ sweep' = "none"
    /\ UNCHANGED <<pools, state, owner, env, idle, callerVars, todo, visiting, sweeps, pageVars>>

(***************************************************************************)
(* Status pages: GetPoolsForUser and GetAllPools.                          *)
(***************************************************************************)

\* The page takes the read lock, for the pools of the users us.
ReportBegin(g, us) ==
    /\ g \notin reporting /\ Readable /\ reports < MaxReports
    /\ reports' = reports + 1
    /\ reporting' = reporting \cup {g}
    /\ toReport' = [toReport EXCEPT ![g] = {k \in Keys : pools[k] # NoPool /\ k[2] \in us}]
    /\ UNCHANGED <<pools, state, owner, env, idle, callerVars, sweepVars, reading>>

\* GetProcessMemory takes the pool's mutex.
ReportVisits(g, k) ==
    /\ reading[g] = {} /\ k \in toReport[g] /\ PoolUnlocked(pools[k])
    /\ toReport' = [toReport EXCEPT ![g] = @ \ {k}]
    /\ reading' = [reading EXCEPT ![g] = {k}]
    /\ UNCHANGED <<pools, state, owner, env, idle, callerVars, sweepVars, reporting, reports>>

\* GetProcessMemory returns; on a closed Warm its drain loop never ends.
ReportReads(g, k) ==
    /\ k \in reading[g] /\ state[pools[k]] # "closed"
    /\ reading' = [reading EXCEPT ![g] = {}]
    /\ UNCHANGED <<pools, state, owner, env, idle, callerVars, sweepVars, reporting, toReport,
                   reports>>

ReportEnd(g) ==
    /\ g \in reporting /\ toReport[g] = {} /\ reading[g] = {}
    /\ reporting' = reporting \ {g}
    /\ UNCHANGED <<pools, state, owner, env, idle, callerVars, sweepVars, toReport, reading,
                   reports>>

\* What a request, a sweep and a page do of themselves: the end of a Shutdown
\* and of a memory report is up to the pool.
CallerRuns(c) ==
    \/ Lookup(c) \/ TouchLastUsed(c) \/ ShutdownBegin(c)
    \/ Delete(c) \/ Create(c) \/ Return(c)
SweepRuns == (\E k \in Keys : SweepVisits(k)) \/ SweepEnd
PageRuns(g) == (\E k \in Keys : ReportVisits(g, k)) \/ ReportEnd(g)

CallerStep(c) == CallerRuns(c) \/ ShutdownEnd(c)
SweepStep == SweepRuns \/ \E k \in Keys : SweepShuts(k)
PageStep(g) ==
    \/ PageRuns(g)
    \/ \E k \in Keys : ReportReads(g, k)
    \/ \E us \in {Users} \cup {{u} : u \in Users} : ReportBegin(g, us)

Next ==
    \/ \E c \in Callers :
          CallerStep(c) \/ \E k \in Keys, e \in Envs : Get(c, k, e)
    \/ \E p \in Pools : IdleTooLong(p)
    \/ \E kind \in Sweeps, b \in Backends : SweepBegin(kind, b)
    \/ SweepStep
    \/ \E g \in Pages : PageStep(g)

Spec == Init /\ [][Next]_vars

\* Goroutines run; a goroutine that waits for pm.mu gets it when it keeps coming
\* free (a waiting writer keeps new readers out).  Nothing says that a Shutdown
\* or a memory report ends.
FairSpec ==
    /\ Spec /\ WF_vars(SweepRuns)
    /\ \A c \in Callers : SF_vars(CallerRuns(c))
    /\ \A g \in Pages : WF_vars(PageRuns(g))

(***************************************************************************)
(* Properties.                                                             *)
(***************************************************************************)

\* A request works with a pool of its own user and backend, started with the
\* environment the request asked for, however lookups, replacements and sweeps
\* interleave.
OwnPool ==
    \A c \in Callers : pc[c] \in {"touch", "have"} =>
        owner[held[c]] = want[c] /\ env[held[c]] = wantEnv[c]

\* The map offers no dead pool: a mapped pool is open, unless the goroutine
\* that is shutting it down has yet to take it out.
MappedIsOpen ==
    \A k \in Keys : pools[k] # NoPool =>
        \/ state[pools[k]] = "open"
        \/ k \in visiting
        \/ \E c \in Callers : pc[c] \in {"closing", "delete"} /\ held[c] = pools[k]

\* Shutdowns return, and memory reports do.  Neither is sure: a Shutdown waits
\* for goroutines that may be blocked on Warm, and a report for room in Warm.
ShutdownsReturn ==
    /\ []<>(visiting = {})
    /\ \A c \in Callers : []<>(pc[c] # "closing")
ReportsReturn == \A g \in Pages : []<>(reading[g] = {})

\* Every lookup ends with a pool, whatever sweeps, replacements and status pages
\* hold the manager's lock or the pool's meanwhile, as long as the Shutdowns and
\* the memory reports these wait for return.
GetReturns ==
    ShutdownsReturn /\ ReportsReturn =>
        \A c \in Callers : (pc[c] = "lookup") ~> (pc[c] = "have")

\* An open pool, whose backend processes run, is in the map, where a sweep can
\* reach it; only a user whose environment has changed can have one that is not:
\* requests that replace the same outdated pool at a time take each other's new
\* pool out of the map and leave it open.
LostOnlyToNewEnvironment ==
    \A p \in Pools : state[p] = "open" =>
        \/ \E k \in Keys : pools[k] = p
        \/ \E q \in Pools : state[q] # "new" /\ owner[q] = owner[p] /\ env[q] # env[p]
        \/ \E c \in Callers : want[c] = owner[p] /\ wantEnv[c] # env[p]
=============================================================================
