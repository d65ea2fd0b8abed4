------------------------------ MODULE Backends ------------------------------
(***************************************************************************)
(* A backend under administration: its row, the prefix map of the muxer,   *)
(* a user's pool for it, the cached tools (backend_capabilities), its      *)
(* status (backend_status) and the goroutines that write them without a    *)
(* common lock: the handlers of web/admin.go with OnBackendChange, the     *)
(* precache, tools/list with its refresh in the background, and the retry  *)
(* loop.                                                                   *)
(*                                                                         *)
(* A configuration is a version number: 0 is none, or echo, the command of *)
(* a pool without a row, which gives no answer.  Every SQL statement is a  *)
(* step; both tables refer to the row and go with it.  How long a retry is *)
(* put off is left out: next_retry comes.  What the pool does with its     *)
(* processes is in Pool, how it is replaced for a new environment in       *)
(* PoolManager: edits here change the command, which a pool is never       *)
(* compared with.                                                          *)
(***************************************************************************)
EXTENDS Naturals

CONSTANTS
    Admins,       \* sessions of administrators
    Workers,      \* goroutines of requests and precaches
    Listers,      \* bound: the workers that serve tools/list, not RefreshTools
    None,
    MaxVersion, MaxRestarts  \* bounds

Versions == 1..MaxVersion
Row == [cfg : Versions, enabled : BOOLEAN]

\* Tasks of a worker.  tools/list answers from the cache or waits for the backend, and
\* reconnects if the status says unavailable; a refresh follows one from the cache.
Kinds == {"precache", "list", "reconnect", "cached", "reconnect cached", "refresh"}
Counters == {"idle", "start", "read", "pool", "fetch", "cache", "available", "clear",
             "unavailable", "failed", "report"}

ASSUME WorkersAssumption == Workers # {} /\ Listers \subseteq Workers
ASSUME NoneAssumption == None \notin Row \cup (0..MaxVersion)
ASSUME BoundsAssumption == MaxVersion \in Nat /\ MaxRestarts \in Nat

VARIABLES
    row,          \* the row of backends
    error,        \* its precache_error is set
    version,      \* the last configuration given
    caps,         \* row of backend_capabilities: the configuration its tools are from,
                  \* 0 for a list without tools, None without a row
    status,       \* backend_status: "none", "available", "unavailable"
    routes,       \* configuration the prefix map was built from
    pool,         \* configuration of the pool in the manager's map, None without one
    tripped,      \* the pool's breaker is open: IsUnavailable
    admin,        \* of each administrator: what OnBackendChange does next
    pc, kind, cfg,    \* of each worker: counter, task, configuration it works with
    loop,         \* StartBackendRetryLoop
    restarts,
    late,         \* ghost: the pool was made from a row that was no longer current
    cleared       \* ghost: the error was cleared with no list cached

backendVars == <<row, error, version, cleared>>
poolVars == <<pool, tripped, late>>
workerVars == <<pc, kind, cfg>>
vars == <<backendVars, caps, status, routes, poolVars, admin, workerVars, loop, restarts>>

TypeOK ==
    /\ row \in Row \cup {None} /\ error \in BOOLEAN /\ version \in 0..MaxVersion
    /\ caps \in (0..MaxVersion) \cup {None} /\ (row = None => caps = None /\ status = "none")
    /\ status \in {"none", "available", "unavailable"}
    /\ routes \in 0..MaxVersion
    /\ pool \in (0..MaxVersion) \cup {None} /\ tripped \in BOOLEAN
    /\ admin \in [Admins -> {"idle", "refresh", "remove"}]
    /\ pc \in [Workers -> Counters]
    /\ kind \in [Workers -> Kinds] /\ cfg \in [Workers -> 0..MaxVersion]
    /\ loop \in {"sleep", "probe", "failed", "available", "clear"}
    /\ restarts \in 0..MaxRestarts
    /\ late \in BOOLEAN /\ cleared \in BOOLEAN

\* The bridge has started and the backend is yet to be created.
Init ==
    /\ row = None /\ error = FALSE /\ version = 0 /\ cleared = FALSE
    /\ caps = None /\ status = "none"
    /\ routes = 0 /\ pool = None /\ tripped = FALSE /\ late = FALSE
    /\ admin = [a \in Admins |-> "idle"]
    /\ pc = [w \in Workers |-> "idle"] /\ kind = [w \in Workers |-> "precache"]
    /\ cfg = [w \in Workers |-> 0]
    /\ loop = "sleep" /\ restarts = 0

Current == IF row = None THEN 0 ELSE row.cfg
-----------------------------------------------------------------------------
(* Administrators.                                                         *)

AdminGoto(a, to) == admin' = [admin EXCEPT ![a] = to]

NewVersion == version < MaxVersion /\ version' = version + 1

\* AdminBackendsCreateHandler; an id that exists is refused.
Create(a, on) ==
    /\ admin[a] = "idle" /\ row = None /\ NewVersion
    /\ row' = [cfg |-> version', enabled |-> on] /\ error' = FALSE /\ cleared' = FALSE
    /\ AdminGoto(a, "refresh")
    /\ UNCHANGED <<caps, status, routes, poolVars, workerVars, loop, restarts>>

\* AdminBackendsEditHandler: the cached tools and the status stay.  An edit of a
\* backend that somebody deleted changes no row and is not noticed.
Edit(a, on) ==
    /\ admin[a] = "idle" /\ NewVersion
    /\ row' = IF row = None THEN None ELSE [cfg |-> version', enabled |-> on]
    /\ AdminGoto(a, "refresh")
    /\ UNCHANGED <<error, cleared, caps, status, routes, poolVars, workerVars, loop, restarts>>

\* AdminBackendsDeleteHandler: tools and status go with the row.
Delete(a) ==
    /\ admin[a] = "idle"
    /\ row' = None /\ error' = FALSE /\ cleared' = FALSE
    /\ caps' = None /\ status' = "none"
    /\ AdminGoto(a, "refresh")
    /\ UNCHANGED <<version, routes, poolVars, workerVars, loop, restarts>>

\* The map is rebuilt from the table under the muxer's lock.
RefreshPrefixes(a) ==
    /\ admin[a] = "refresh"
    /\ routes' = Current
    /\ AdminGoto(a, "remove")
    /\ UNCHANGED <<backendVars, caps, status, poolVars, workerVars, loop, restarts>>

WorkerGoto(w, to, k, c) ==
    /\ pc' = [pc EXCEPT ![w] = to]
    /\ kind' = [kind EXCEPT ![w] = IF to \in {"start", "read", "pool", "fetch", "cache"}
                                  THEN k ELSE "precache"]
    /\ cfg' = [cfg EXCEPT ![w] = c]

End(w) == WorkerGoto(w, "idle", kind[w], 0)

Precaches(w) == kind[w] = "precache"

\* The pool is shut down, and a request that holds it gets no answer any more.
Shut(c) == [w \in Workers |-> IF pc[w] = "fetch" /\ ~Precaches(w) THEN 0 ELSE c[w]]

\* The rest of OnBackendChange: it ends by starting a precache.
RemovePoolsByBackend(a, w) ==
    /\ admin[a] = "remove" /\ pc[w] = "idle"
    /\ pool' = None /\ tripped' = FALSE /\ late' = FALSE
    /\ AdminGoto(a, "idle")
    /\ pc' = [pc EXCEPT ![w] = "start"] /\ cfg' = Shut(cfg)
    /\ UNCHANGED <<backendVars, caps, status, routes, kind, loop, restarts>>

\* AdminBackendsRefreshToolsHandler precaches by itself.
RefreshTools(w) ==
    /\ pc[w] = "idle"
    /\ WorkerGoto(w, "start", "precache", 0)
    /\ UNCHANGED <<backendVars, caps, status, routes, poolVars, admin, loop, restarts>>
-----------------------------------------------------------------------------
(* Workers: precaches.                                                     *)

\* RunPrecacheForBackend reads the row.
PrecacheStart(w) ==
    /\ pc[w] = "start"
    /\ IF row = None THEN WorkerGoto(w, "report", kind[w], 0)
       ELSE IF row.enabled THEN WorkerGoto(w, "fetch", kind[w], row.cfg)
       ELSE End(w)
    /\ UNCHANGED <<backendVars, caps, status, routes, poolVars, admin, loop, restarts>>

\* SetBackendPrecacheError, of which a row that is gone notes nothing.
SetBackendPrecacheError ==
    /\ error' = (row # None)
    /\ cleared' = FALSE
    /\ UNCHANGED <<row, version>>

\* The precache notes its failure and returns it; the start-up chain of credentials
\* notes it and returns none.
PrecacheFailed(w) ==
    /\ pc[w] = "failed"
    /\ SetBackendPrecacheError
    /\ WorkerGoto(w, "report", kind[w], 0) \/ End(w)
    /\ UNCHANGED <<caps, status, routes, poolVars, admin, loop, restarts>>

\* Its caller notes the failure, in most cases once more: a row or tokens that
\* cannot be read are left to the caller.
PrecacheReport(w) ==
    /\ pc[w] = "report"
    /\ SetBackendPrecacheError
    /\ End(w)
    /\ UNCHANGED <<caps, status, routes, poolVars, admin, loop, restarts>>
-----------------------------------------------------------------------------
(* Workers: tools/list.                                                    *)

\* handleToolsList passes over a disabled backend.  It reads the cached tools and
\* the status.
ListTools(w) ==
    /\ pc[w] = "idle"
    /\ row # None /\ row.enabled
    /\ WorkerGoto(w, "read",
                  IF caps \in {None, 0}
                  THEN IF status = "unavailable" THEN "reconnect" ELSE "list"
                  ELSE IF status = "unavailable" THEN "reconnect cached" ELSE "cached", 0)
    /\ UNCHANGED <<backendVars, caps, status, routes, poolVars, admin, loop, restarts>>

\* getPoolForUser reads the row; without one the command is echo.
ReadBackend(w) ==
    /\ pc[w] = "read"
    /\ WorkerGoto(w, "pool", kind[w], Current)
    /\ UNCHANGED <<backendVars, caps, status, routes, poolVars, admin, loop, restarts>>

\* GetOrCreateUserPool: a pool that is there is taken as it is.  ForceReconnect
\* closes its breaker; the request ends at one that stays open.  With tools in the
\* cache the handler answers with these and starts refreshBackendTools, which gets
\* the pool once more; without, it asks the backend itself.
GetPool(w) ==
    /\ pc[w] = "pool"
    /\ IF pool = None
       THEN pool' = cfg[w] /\ tripped' = FALSE /\ late' = (cfg[w] # Current)
       ELSE /\ tripped' = (tripped /\ kind[w] \notin {"reconnect", "reconnect cached"})
            /\ UNCHANGED <<pool, late>>
    /\ IF tripped' THEN End(w)
       ELSE IF kind[w] \in {"cached", "reconnect cached"} THEN WorkerGoto(w, "read", "refresh", 0)
       ELSE WorkerGoto(w, "fetch", IF kind[w] = "refresh" THEN "refresh" ELSE "list", pool')
    /\ UNCHANGED <<backendVars, caps, status, routes, admin, loop, restarts>>

\* The backend answers with its tools, or with an empty list, which only the handler
\* caches: a refresh passes it over and to a precache it is a failure.  Or it fails:
\* no process starts, or comes free within 15 s or below max_pool_size, the breaker
\* has opened, the answer is an error or comes late.  The step may also never come:
\* neither the write to a process nor the wait for a precache's to end has a deadline.
Fetch(w) ==
    /\ pc[w] = "fetch"
    /\ \/ /\ cfg[w] # 0
          /\ \/ WorkerGoto(w, "cache", kind[w], cfg[w])
             \/ kind[w] = "list" /\ WorkerGoto(w, "cache", kind[w], 0)
       \/ /\ Precaches(w)
          /\ \E to \in {"failed", "report"} : WorkerGoto(w, to, kind[w], 0)
       \/ /\ ~Precaches(w)
          /\ End(w) \/ WorkerGoto(w, "unavailable", kind[w], 0)
    /\ UNCHANGED <<backendVars, caps, status, routes, poolVars, admin, loop, restarts>>

\* Mutant: tools that are cached are kept.
CacheToolsMutant(w) ==
    /\ pc[w] = "cache"
    /\ IF row = None
       THEN /\ WorkerGoto(w, IF Precaches(w) THEN "failed" ELSE "available", kind[w], 0)
            /\ UNCHANGED <<caps, cleared>>
       ELSE /\ caps' = (IF caps \in {None, 0} THEN cfg[w] ELSE caps) /\ cleared' = FALSE
            /\ WorkerGoto(w, "available", kind[w], 0)
    /\ UNCHANGED <<row, error, version, status, routes, poolVars, admin, loop, restarts>>

\* SetBackendCapabilities, refused without the row.
CacheTools(w) ==
    /\ pc[w] = "cache"
    /\ IF row = None
       THEN /\ WorkerGoto(w, IF Precaches(w) THEN "failed" ELSE "available", kind[w], 0)
            /\ UNCHANGED <<caps, cleared>>
       ELSE /\ caps' = cfg[w] /\ cleared' = FALSE
            /\ WorkerGoto(w, "available", kind[w], 0)
    /\ UNCHANGED <<row, error, version, status, routes, poolVars, admin, loop, restarts>>
-----------------------------------------------------------------------------
(* The status, written by workers and by the retry loop.                   *)

\* SetBackendAvailable: first the status, refused without the row ...
MarkAvailable == status' = IF row = None THEN status ELSE "available"

\* ... then the error is cleared.
ClearError ==
    /\ error' = FALSE /\ cleared' = (row # None /\ caps = None)
    /\ UNCHANGED <<row, version>>

WorkerAvailable(w) ==
    /\ pc[w] = "available"
    /\ MarkAvailable
    /\ IF row = None THEN End(w) ELSE WorkerGoto(w, "clear", kind[w], 0)
    /\ UNCHANGED <<backendVars, caps, routes, poolVars, admin, loop, restarts>>

WorkerClears(w) ==
    /\ pc[w] = "clear"
    /\ ClearError
    /\ End(w)
    /\ UNCHANGED <<caps, status, routes, poolVars, admin, loop, restarts>>

\* SetBackendUnavailable puts the next retry off.
SetBackendUnavailable(w) ==
    /\ pc[w] = "unavailable"
    /\ status' = IF row = None THEN status ELSE "unavailable"
    /\ End(w)
    /\ UNCHANGED <<backendVars, caps, routes, poolVars, admin, loop, restarts>>

LoopGoto(to) == loop' = to

\* Mutant: backends that are disabled are not retried.
RetryTickMutant ==
    /\ loop = "sleep"
    /\ status = "unavailable" /\ row.enabled
    /\ LoopGoto("probe")
    /\ UNCHANGED <<backendVars, caps, status, routes, poolVars, admin, workerVars, restarts>>

\* The ticker fires when next_retry has come, and GetBackendsNeedingRetry names
\* the backend, enabled or not.
RetryTick ==
    /\ loop = "sleep"
    /\ status = "unavailable"
    /\ LoopGoto("probe")
    /\ UNCHANGED <<backendVars, caps, status, routes, poolVars, admin, workerVars, restarts>>

\* GetBackend and ProbeBackend, which starts a process of its own, without tokens.
RetryProbe ==
    /\ loop = "probe"
    /\ IF row = None THEN LoopGoto("sleep")
       ELSE \E to \in {"available", "failed"} : LoopGoto(to)
    /\ UNCHANGED <<backendVars, caps, status, routes, poolVars, admin, workerVars, restarts>>

\* A probe that fails changes nothing.
RetryFails ==
    /\ loop = "failed"
    /\ LoopGoto("sleep")
    /\ UNCHANGED <<backendVars, caps, status, routes, poolVars, admin, workerVars, restarts>>

RetryAvailable ==
    /\ loop = "available"
    /\ MarkAvailable
    /\ LoopGoto(IF row = None THEN "sleep" ELSE "clear")
    /\ UNCHANGED <<backendVars, caps, routes, poolVars, admin, workerVars, restarts>>

RetryClears ==
    /\ loop = "clear"
    /\ ClearError
    /\ LoopGoto("sleep")
    /\ UNCHANGED <<caps, status, routes, poolVars, admin, workerVars, restarts>>
-----------------------------------------------------------------------------
\* Spawn after spawn of the pool fails (Pool).  The processes of echo start.
BreakerOpens ==
    /\ pool \notin {None, 0}
    /\ tripped' = TRUE
    /\ UNCHANGED <<backendVars, caps, status, routes, pool, late, admin, workerVars, loop,
                   restarts>>

\* The bridge stops anywhere and starts, with these workers precaching.
Restarted(tasks) ==
    /\ restarts < MaxRestarts /\ restarts' = restarts + 1
    /\ routes' = Current
    /\ pool' = None /\ tripped' = FALSE /\ late' = FALSE
    /\ admin' = [a \in Admins |-> "idle"]
    /\ pc' = [w \in Workers |-> IF w \in tasks THEN "start" ELSE "idle"]
    /\ kind' = [w \in Workers |-> "precache"] /\ cfg' = [w \in Workers |-> 0]
    /\ loop' = "sleep"
    /\ UNCHANGED <<backendVars, caps, status>>

\* Mutant: a start precaches nothing.
RestartMutant == Restarted({})

\* A start precaches the backend if it is enabled and GetUncachedBackends finds no
\* row of capabilities for it.
Restart ==
    Restarted(IF row # None /\ row.enabled /\ caps = None
              THEN {CHOOSE w \in Workers : TRUE} ELSE {})

AdminStep(a) ==
    RefreshPrefixes(a) \/ \E w \in Workers : RemovePoolsByBackend(a, w)

\* What a worker does without waiting for a backend's process.
WorkerRuns(w) ==
    \/ PrecacheStart(w) \/ PrecacheFailed(w) \/ PrecacheReport(w)
    \/ ReadBackend(w) \/ GetPool(w) \/ CacheTools(w)
    \/ WorkerAvailable(w) \/ WorkerClears(w) \/ SetBackendUnavailable(w)

WorkerStep(w) == WorkerRuns(w) \/ Fetch(w)

LoopStep == RetryTick \/ RetryProbe \/ RetryFails \/ RetryAvailable \/ RetryClears

Next ==
    \/ \E a \in Admins :
         Delete(a) \/ AdminStep(a) \/ \E on \in BOOLEAN : Create(a, on) \/ Edit(a, on)
    \/ \E w \in Workers : WorkerStep(w)
    \/ \E w \in Workers \ Listers : RefreshTools(w)
    \/ \E w \in Listers : ListTools(w)
    \/ LoopStep \/ BreakerOpens \/ Restart

Spec == Init /\ [][Next]_vars

\* Goroutines run, the ticker fires and time passes.  Nothing is assumed of Fetch.  A
\* handler can always start a goroutine: that it waits for a worker to be idle comes
\* from the bound on Workers.
FairSpec ==
    /\ Spec
    /\ \A a \in Admins : SF_vars(AdminStep(a))
    /\ \A w \in Workers : WF_vars(WorkerRuns(w))
    /\ WF_vars(LoopStep)
-----------------------------------------------------------------------------
(* Properties.                                                             *)

\* However many administrators edit at a time, the prefix map is the table's as
\* soon as none of them is between the statement and RefreshPrefixes.
RoutesFollowTable == (\A a \in Admins : admin[a] # "refresh") => routes = Current

\* A backend that is enabled and of which no list of tools is cached shows why, or a
\* precache is under way, also after a restart in the middle of one: unless a
\* SetBackendAvailable that came with no list has cleared the error.
UncachedIsExplained ==
    row # None /\ row.enabled /\ caps = None
    /\ (\A a \in Admins : admin[a] = "idle")
    /\ (\A w \in Workers :
            /\ pc[w] \notin {"start", "failed", "report"}
            /\ pc[w] \in {"fetch", "cache"} => ~Precaches(w))
    => error \/ cleared

\* As long as requests go on being answered with tools, an enabled backend comes to
\* have the tools of its present configuration cached, even if a precache of an
\* earlier one was the last to write, or never ends, or an empty list was cached:
\* unless a late pool answers for it or the backend is disabled or deleted.
CacheCatchesUp ==
    ([]<>(\E w \in Workers : pc[w] = "cache" /\ ~Precaches(w) /\ cfg[w] # 0)) =>
        (row # None /\ row.enabled) ~> (row = None \/ ~row.enabled \/ caps = row.cfg \/ late)

\* A backend noted as unavailable is noted as available, or a probe of it fails,
\* whether or not anybody uses it, whether or not it is enabled, and whatever edits
\* and requests write meanwhile.
UnavailableRecovers == (status = "unavailable") ~> (status # "unavailable" \/ loop = "failed")
=============================================================================
