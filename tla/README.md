# Verification of the MCP bridge

The bridge accepts JSON-RPC requests of MCP clients over HTTP, starts backend
processes for each user, and forwards requests to their standard input. On the
way it decides whether a tool call is allowed, needs a person's approval or has
used up its budget. Users sign in through a web interface or through OAuth.

This directory holds TLA+ models of the parts of the bridge whose correctness
depends on order: goroutines that share a channel or a map without a lock, web
handlers that run several SQL statements without a transaction, timers that
race answers, and restarts that keep the database and lose the memory. TLC
checks each model on a small instance; TLAPS proves every safety property the
passing runs check for every instance, and for the approval queue that it
implements its abstract specification.

`tlc -config X.cfg M` runs a check (the table below says which `M` goes with
which `X`); `tlapm XProofs.tla` checks a module of proofs (section 4 says which
module's). `PROJECT.json` lists the components, the source lines of every
definition, the hazards, the findings, and for every checked property a small
change of the code model under which TLC finds that property violated.

## 1. Inventory

| Component | State it keeps | Operations | What is hard about it |
|---|---|---|---|
| Process pool (`poolmgr/pool.go`, `process.go`) | channel `Warm`, semaphore channel `Spawning`, `spawnAttempts`, `closed`, wait group | `spawnAndHandshake`, the retry timer, `TryAcquireWarm`, `GetWarmWithRetry`, `WaitForWarm`, `ReleaseWarm`, direct sends and receives, `GetProcessMemory`, `ResetSpawnAttempts`, `Shutdown` | goroutines that take and return processes on eight code paths; a channel that is closed while others may send; a breaker that is reset while timers run; a mutex held across channel operations; writes to a process without a deadline |
| Request registry (`poolmgr/pool.go`) | `pendingRequests`, response channels, timers, `broadcastCh` | `RegisterRequest`, `UnregisterRequest`, `BroadcastToSSE`, `responseDispatcher`, the handlers' selects, `Shutdown` | ids chosen by clients may collide; three timeouts race the answer; a full channel drops answers, a closed one loses them |
| Pool manager (`poolmgr/manager.go`) | map `backend:user` to pool, idle times | `GetOrCreateUserPoolWithSecrets`, `collectIdlePools`, `RemovePoolsByBackend`, `ShutdownAll`, `GetPoolsForUser`, `GetAllPools` | one lookup is up to four critical sections; `Shutdown` waits, and a status page reports, with the lock held |
| Approval queue (`enforcer/enforcer.go`, `store/enforcer_store.go`, `web/enforcer_handlers.go`) | rows with a status and deadlines | request, approve and execute, deny, expire, purge | decisions from pages that are out of date, two deciders, an executor that may block or panic, failing statements and restarts during execution |
| Rate limiter (`ratelimit/ratelimit.go`) | two buckets per user and backend, saved levels | check and consume, refill ticker, save, load, reset, configure | bucket fields without a lock, two roundings, of the time and of the units, restarts between saves |
| Policy engine (`enforcer/cel_engine.go`, `enforcer.go`) | policy rows, the maps `programs` and `policies`, kill switches | edit, reload, evaluate, decide | two unguarded maps written while calls range over them; reloads that stop in the middle |
| OAuth, API keys, invitations (`auth/auth.go`, `store/*`, `web/invite.go`) | rows of users, codes, sessions, keys, invitations | authorize, exchange, refresh, create and delete, invite, sign up, revoke | read, check and write are separate statements; errors of three of them are ignored |
| Account (`web/auth.go`, `twofa.go`, `user.go`) | session cookies, in-memory keys, pending logins and setups, wrapped secrets | login, second factor, tokens, password change, logout | byte slices shared by several maps and overwritten by some handlers; a login that writes back the row it has read, a password change of six statements |
| Request routing, muxer (`mcpbridge*.go`, `v2handler.go`, `muxer/`) | none of their own besides the prefix map | one handler per method | they are the callers of everything above |
| Safety profile resolver (`enforcer/resolver.go`, `scan.go`, `web/enforcer_handlers.go`) | override rows, the resolver's map, scanned profiles | administrators' and users' edits, load at start-up, `ResolveForUser` | table and map are written one after the other; the load runs in the background of a bridge in use |
| Backends (`web/admin.go`, `precache.go`, `main.go`, `store/backend*.go`) | the row with its error, cached tools, status, prefix map, a user's pool | create, edit, delete, `OnBackendChange`, precache, `tools/list` and its refresh, the retry loop | five kinds of goroutines write them without a common lock, each from what it read earlier |
| Cryptography, schema, mail, configuration, command line tools | | | data transformation and I/O |

The components interact as follows. A tool call is first decided by the policy
engine, which consumes from the rate limiter when the decision is to allow; a
decision to ask creates a row in the approval queue. An allowed call gets its
user's pool from the pool manager, takes a process out of `Warm`, registers its
id with that pool's registry, writes to the process, waits for the dispatcher
and gives the process back. An approved request is replayed by the web handler
the same way (handler kind `exec` of `Pool`). The pool manager compares the
environment a pool was started with against the user's tokens, which the
account pages store under keys derived from the password. The profile a call is
decided with comes from the resolver. When an administrator changes a backend,
the prefix map is rebuilt, the backend's pools are removed and a precache fills
the tool cache; `tools/list` answers from that cache and refreshes it through a
pool; a failure marks the backend unavailable and the retry loop probes it.

What makes each component correct:

- pool: a process has one owner; no send on a closed channel; a process that
  nobody refers to does not run; requests, retries and shutdowns come to an end;
- registry: no send on or close of a closed channel; answers reach the request
  they belong to; every request ends and leaves nothing behind;
- manager: a request gets a pool of its own user and environment; the map holds
  no dead pool and knows every open one; lookups return;
- approvals: a request runs only when granted and once per grant; a handler whose
  execution returns records its result; nothing waits for ever;
- limiter: nobody gets more than was credited (violated when goroutines meet);
  refills keep up with time;
- policy engine: the most restrictive matching policy wins; no policy is missing;
  edits take effect;
- identity: credentials die with their account and belong to their grant; a
  settled invitation stays settled; a code is used once (violated);
- account: tokens survive password changes; no handler overwrites the key of
  another browser; a required second factor is passed before a session is handed
  out;
- overrides: the map the calls look at comes to say what the table says; no call
  passes over an override in force; what is stored comes into force;
- backends: what runs and what is cached comes to be the configuration in the
  table; a backend without tools says why; an unavailable one that works again
  is used again.

## 2. Modules

| Module | Models | Remarks |
|---|---|---|
| `Pool` | one pool with its goroutines and handlers | `MCPool`, `PoolProofs` |
| `Pending` | the registry of one pool | `MCPending`, `PoolProofs` |
| `PoolManager` | the map of pools | checked directly, `PoolManagerProofs` |
| `Approval` | rows, deciders, cleanup, restarts | implements `ApprovalLifecycle`; `EnforcerProofs` |
| `ApprovalLifecycle` | what the queue promises | abstract specification |
| `RateLimit` | the buckets of one user and backend | `MCRateLimit`, `RateLimitProofs` |
| `Enforcer` | policy table, engine, tool calls | `MCEnforcer`, `EnforcerProofs` |
| `Overrides` | override table, resolver's map, resolution | checked directly, `OverridesProofs` |
| `Identity` | users, codes, sessions, keys, invitations | `MCIdentity`, `IdentityProofs` |
| `Account` | one user's logins, keys, tokens, second factor | `MCAccount`, `AccountProofs` |
| `Backends` | a backend under administration, its tools, status and pool | checked directly, `BackendsProofs` |

The MC modules hold the constants' values that a configuration cannot write; no
configuration replaces a definition.

### Pool

`warm` is the contents of the channel, `warmClosed` and `closed` are the two
steps of `Shutdown`. The wait group `wg` is the set of goroutines it counts and
`slots` the set of those that hold a place of the channel `Spawning`. `spc` and
`sproc` follow each spawn goroutine from start over slot, second look at
`closed`, spawn and handshake to the blocking send. A failed attempt is counted;
below the limit the goroutine becomes a timer (`"timer"`, not counted by the
wait group) which starts it again.

Handlers differ in how they get a process, what they do with it when the
answer does not come and how they give it back. `Kinds` names them by their
function: `call` (`handleToolsCall`), `default` (`handleDefaultBackend`),
`v2call` (`v2toolCall`), `list` (`handleToolsList`), `expand`
(`v2namespaceExpand`), `exec` (`ExecuteRequest`), `tools`
(`handleRefreshToolsTool`) and `memory` (`GetProcessMemory`, below);
`refreshBackendTools` treats its process as `expand` does. The predicates `UsesRetry`, `KillsOnTimeout` and so
on say what each does, one per decision in the code. Between taking a process and
waiting for its answer a handler writes to its standard input (`"write"`,
`StdinWrite`). The write has no deadline: a process that lives and does not read
keeps the handler there, and nothing is assumed about when it returns.

`GetProcessMemory`, called for an administrator's page, receives everything in
`Warm` (`DrainWarm`) and sends it back (`RefillWarm`) with `pool.mu` held. Every
other section under that mutex is short, so the mutex is modelled by what
matters: a step that locks it is not taken while `Locked`. `drained` is what the
report has in its hands. When a spawner or another handler fills `Warm` behind
its back, or `Shutdown` closes `Warm` while it drains (a closed channel always
has another nil), it stays where it is with the mutex (`MemoryStuck`).

Time is abstracted: a timer that runs may fire. The one place where durations
matter is `CanTimeOut`: a `v2call` waits for 60 s on a channel that is closed
after 30 s and never sees its own timeout.

`IsAlive` looks at `Cmd.ProcessState`, which is set by `Cmd.Wait`, which nothing
calls; so `TryAcquireWarm` never finds a dead process. `SpawnProcess` picks an
identity that nothing refers to: identities of processes that are gone are used
again, so `Procs` bounds the processes in existence at one time, not in a
behaviour. `Spawners` likewise bounds the goroutines at one time; a handler
that wants to start one waits until an identity is free. `CurrentSize` is left
out: it is shown on status pages and read by no decision.

### Pending

Requests carry an id and a timeout chosen in the initial state, ids possibly
the same. After `RegisterRequest` a handler is `"writing"`; `WriteRequest` may
never happen while the process lives, so the 30 s timer (`age`) can close the
channel of a request whose own timeout (`waited`) has not begun to run. A tick
of time passes only when nothing that is due remains to be done; within a tick
everything that can run runs in any order, which is the race between the 30 s
timer, the answer and the handler's timeout. `UnregisterRequest` that stops the
timer too late finds its function running behind it. `Shutdown` closes the
broadcast channel at any time: what it holds is still dispatched, an answer that
comes later is lost with the reader goroutine that panicked.

### PoolManager

A section under `pm.mu` that does not block is one step; a sweep holds the lock
over several. `GetOrCreateUserPoolWithSecrets` is `Lookup` (read lock, and with it
the pool's own mutex in `EnvMatches`), `TouchLastUsed` (after the
read lock is released) or, when the environment has changed, `ShutdownBegin` and `ShutdownEnd`
(no lock of the manager), `Delete` and `Create` (a lock each). A status page
(`GetPoolsForUser`, `GetAllPools`) holds the read lock from `ReportBegin` to
`ReportEnd`, over a memory report of every pool it visits; a report holds that
pool's mutex, and whatever needs it waits (`PoolUnlocked`).

### Approval and ApprovalLifecycle

A decider is a handler of the web interface. It starts from a page that showed
the request as PENDING; when the button is pressed the row may have changed. Every
statement is a step and has the conditions of the SQL, that is none for
decisions; the ones whose error is handled, logged or ignored may fail. The
executor writes to the process (`StdinWrite`), where it may stay, waits and puts
the process back into `Warm` itself, where it may stay (a full channel) or panic (a
closed one: `SendPanics`). `executions` and `grants` count, as history, how often
the tool call reached the backend and how often a button was pressed; `lost` is the
set of requests of which a handler ended before it could record.

`ApprovalLifecycle` says what the queue promises although decisions are not final:
a request waits once, runs at most once per grant, has a result only if granted and
a success only if it ran, expires only while it waits, is purged only when decided,
and does not come back. The refinement maps a status to a phase.

### RateLimit

`BucketState` has no lock, so every load and every store of `CurrentLevel` and
`LastRefillAt` is a step. `Interleaved = FALSE` lets a goroutine into the
buckets only when no other is there. The clock counts fractions of a second:
`Refill` truncates the time since the last refill to whole seconds and the units
for them to whole units (`Units`), and when there are any it moves `LastRefillAt`
to now, so that both remainders are lost. `Second` is the fractions in a second,
`Minute` the seconds in a minute; the instances have two of each, and the rates
are scaled with them.

### Enforcer

A policy's expression is the set of tools it matches. An edit writes the row,
lists the enabled rows and adds them one by one, first to `programs` and then to
`policies`; an evaluation ranges over `programs` in any order and looks the
policy up afterwards. As in Go, an entry added during the range may be visited
or not (`left`, `must`). `stable` is history: the policies that have been in the
engine, unchanged, since the evaluation began.

### Identity

A row's number stands for the random value that names it. A handler's
statements are steps; a request that is refused changes nothing and is no step.
`DeleteOAuthCode`, `DeleteOAuthSession` and `MarkInviteAccepted` may fail, after
which their handlers go on (`Faults` names the statements of which the instance
allows it), and a restart may end all handlers between two statements. `grant`,
`chain` and `births` are history: for whom a code was issued, from which code a
session comes, how many accounts an invitation has led to.

### Account

A key derived from a password and a salt is the pair of the two. A byte slice is
an identity (`Refs`) with contents (`mem`): `completeLogin`, the pending login
and the pending setup share a slice, and `Zeroize` changes what all of them see.
A login reads the user's row (`LoginRead`) and later checks the password against
it and, when it has no salt yet, writes the whole of it back (`LoginPost`), with
whatever has changed in between undone. It creates a session row and a key in the
map before it looks at the second factor; when one is due, that session's id is
sent to nobody, and the session of the completed login is another one (`unsent`
says that such rows and keys are there). `PasswordHandler` is six steps. Whether a
second factor is required, and the bypass, may change at every restart. `saved`,
`overlap` and `factor` are history: the value saved last, whether it was changed
between the reads and the write of a password change, and how a session was
obtained and whether a factor was due then. The maps of `web/auth.go` are written
by concurrent handlers without a lock; the Go runtime aborts the program when it
notices, which is the step `Restart`.

### Overrides

One tool, under its two names: `/mcp` calls it with the backend's prefix,
`/mcp/v2` without. A handler of an administrator writes the table (`StartEdit`)
and then the map (`OverrideRegister`, `OverrideRemove`); a user's handler writes
the table only. Every start lists the table and registers row after row in the
background (`LoadList`, `LoadNext`), or fails to list it and loads nothing
(`LoadFails`). A call holds the read lock from the map over
the two queries that follow (`Resolve`, `ResolvePersonal`, `ResolveStored`), and
writers of the map wait (`Unread`). `tainted` is history: names whose row was
written out of step with the map, or was not loaded.

### Backends

One backend. A configuration is a version number, since nothing but the question
"of which edit is this" is asked of it. An administrator's handler is a statement
followed by `OnBackendChange`: the prefix map, then the pools, then a precache. A
worker is a goroutine that precaches (row, fetch, cache, status, error) or serves
`tools/list` (row, pool, fetch, cache, status). Its kind says whether the answer
came from the cache, in which case the refresh in the background asks for the pool
again, and whether the status it has read makes it reconnect. `Fetch` gives tools,
an empty list, which is cached all the same (`caps = 0`), or a failure; or it never
comes, since neither the wait for the process of a precache nor the write to a
process has a deadline. `SetBackendAvailable` is two statements with room between
them. The pool's breaker (`tripped`) opens while spawns fail, ends requests, and is
closed by `ForceReconnect` when the request has read an unavailable status. The
retry loop asks for due backends, probes, and marks what the probe has reached.
Both tables have a foreign key on the row: without the row their statements are
refused, and they go with it. `late` and `cleared` are history for the two cases
the properties name.

## 3. Runs

| Run | Module, configuration | Distinct states | Checks |
|---|---|---|---|
| `pool` | `MCPool`, `Pool.cfg` | 268 000 | `ExclusiveUse SpawnersSendOnOpenChannel NoOrphans ShutdownFinishes RetriesSettle CallsFinish` |
| `pending` | `MCPending`, `Pending.cfg` | 346 000 | `RegisteredIsOpen OwnAnswer RequestsEnd RegistryDrains` |
| `manager` | `PoolManager`, `Manager.cfg` | 806 000 | `OwnPool MappedIsOpen LostOnlyToNewEnvironment GetReturns` |
| `approval` | `Approval`, `Approval.cfg` | 35 000 | `ExecutionsAreGranted ImplementsLifecycle OverdueSettles ExecutingEnds` |
| `ratelimit_sequential` | `MCRateLimit`, `RateLimitSequential.cfg` | 6 683 000 | `TypeOK WithinBudget RefillKeepsUp` |
| `ratelimit_race` | `MCRateLimit`, `RateLimitRace.cfg` | | `WithinBudget`, violated |
| `enforcer` | `MCEnforcer`, `Enforcer.cfg` | 185 000 | `MostRestrictiveWins NoPolicyIsMissing EditTakesEffect` |
| `identity` | `MCIdentity`, `Identity.cfg` | 1 465 000 | `NothingOutlivesAccount SessionKeepsGrant SettledForGood` |
| `identity_race` | `MCIdentity`, `IdentityRace.cfg` | | `CodeIsUsedOnce`, violated |
| `account` | `MCAccount`, `Account.cfg` | 734 000 | `TypeOK TokenIsLastSaved KeysAreApart SecondFactorIsPassed` |
| `overrides` | `Overrides`, `Overrides.cfg` | 226 000 | `MapFollowsTable NoOverridePassedOver StoredComesIntoForce` |
| `backends` | `Backends`, `Backends.cfg` | 822 000 | `UncachedIsExplained CacheCatchesUp UnavailableRecovers` |

`TypeOK` is proved of every module (section 4); of the runs only those of
`RateLimit` and `Account` check it.

### What the passing runs show, and their bounds

**pool.** Two handlers, two spawn goroutines, two processes, a channel for one
process, one spawn slot, a breaker at two failures, two requests and one reset.
With two processes and room for one, the channel is full and empty, a send
blocks and `ReleaseWarm` kills; with one slot a second goroutine waits for it;
with two failures the breaker opens, and one reset closes it while a timer may
run. The three handlers exercised are one of each shape: `call` starts
goroutines, waits and drops what it kills, `exec` looks first, receives later and
sends the process back itself, `memory` empties and refills `Warm` under the
mutex. The theorems of section 4 cover all eight kinds and all sizes. The
liveness properties name what the code really does not guarantee: a spawn
goroutine whose send finds `Warm` full is not woken by `Shutdown`, which waits
for it; a handler that sends on `Warm` itself can find it full as well; the
memory report can keep the mutex; and a handler that writes to a process which
does not read stays there until the process dies (`CallsFinish` is about requests
that were written).

**pending.** Two requests with one id or two, timeouts shorter than, equal to
and longer than the 30 s, a broadcast channel of one. When ids collide, a
request may get the other's answer or lose its channel; still nothing is sent on
or closed twice, every request ends whose write returns, and the map drains even
where a write does not return, also when the pool is shut down under the requests. `OwnAnswer` says "alone": no other request of the
pool carries the id.

**manager.** Two users of a backend, two environments, three pools, two callers
with three lookups, one sweep of any of the three kinds, one status page with one
report. `GetReturns` says of what a lookup may have to wait for (a `Shutdown`, a
memory report) that it returns; neither is sure (section 5). With two callers that
find an outdated pool the map can lose an open pool (section 5);
`LostOnlyToNewEnvironment` says that this is the only way.

**approval.** One row and two deciders whose pages may be out of date, deadlines of
one or two ticks, a retention of one, statements that fail, an executor that blocks
or panics, and a restart anywhere. That covers the second approval of a request
(it runs once per grant, which is what `ExecutionsAreGranted` says), the approval of
a denied or expired one, and the decision on a row that is being executed or was
purged. `ExecutingEnds` has the executor's return as a premise and excepts what was
`lost`: no step looks at EXECUTING rows again.

**ratelimit_sequential.** Two calls, one reset or change of configuration, one
save and one restart in four seconds of two fractions each; rates that do not
divide a minute, refills between two seconds, costs multiplied for risk and for
inferred profiles, two buckets.

**enforcer.** Two policies with any of four bodies in the table at start, one
edit, one call, kill switches at any time and restarts anywhere. The bodies are
a denial of low severity, an approval of critical severity (so that action and
severity disagree), an expression that does not compile and a policy that is
switched off. The run has one administrator. `NoPolicyIsMissing` is proved for any
number whose edits and reloads overlap in any way (section 4); which version of a
policy two overlapping reloads leave in the engine is not determined (section 5).

**identity.** Two requests at the same time, two addresses and two accounts, one
code, two sessions, one key, one invitation, time for everything to expire, failing
statements and restarts. Requests and clients are symmetric.

**account.** Two browsers of one user, two passwords, two token values, five
requests, expiries or restarts between which the steps of logins and password
changes run; every start with any configuration of the second factor.
Browsers, passwords and values are symmetric. The salts and slices suffice for
what can be referred to at the same time.

**overrides.** Two administrators, two users, one call at a time, two complete
values and an incomplete one, two edits, a load that may fail and a restart
anywhere: enough for two edits of
one name to overlap each other, the load or a call, for a user to take over an
administrator's row, and for the next start to load what is left. One caller
suffices because calls only meet writers, through the read lock.

**backends.** One administrator, two configurations, a goroutine that precaches
and one that serves `tools/list` besides precaching, a restart anywhere, and
processes that answer, answer with nothing, fail or hang at any time. That is enough for a request
to create a pool of the first configuration after the edit to the second, for two
precaches to write in the wrong order, for the breaker to open between them, and
for the retry loop to meet a deleted row.

Bounds on counters (`MaxCalls`, `MaxResets`, `MaxGets`, `MaxSweeps`, `MaxTime`,
`MaxRestarts`, `MaxEdits`, `MaxVersion`, `MaxBegun` and the like) make behaviours end; the
configurations of those models say `CHECK_DEADLOCK FALSE`, because a model whose
requests are used up stops. `Enforcer` does not stop and is checked for deadlock.

### Fairness

- `Pool`: every spawn goroutine, every handler and the goroutine in `Shutdown`
  keeps running when it can (Go schedules runnable goroutines, timers fire). A
  write to a process returns when the process is dead. Nothing is assumed of writes
  to living processes, of requests, crashes, resets or the backend's answers.
- `Pending`: handlers, timers, the dispatcher and time go on; a backend need not
  answer. A write returns when the request was answered or its process died;
  otherwise `RequestsEnd` has its return as a premise.
- `PoolManager`: the sweep and the status pages go on (weak fairness), callers get
  the lock although pages keep coming (strong fairness, as for `Overrides`). The end
  of a `Shutdown` and of a memory report is not assumed; `GetReturns` has both as
  premises. `ShutdownFinishes` of `Pool` says when the first holds.
- `Approval`: a handler goes from statement to statement, the cleanup ticker fires,
  time passes. Nobody must decide, and the executor need not return: `ExecutingEnds`
  has this as a premise.
- `Enforcer`: a handler that has written its row ends its reload, unless the
  bridge stops.
- `Overrides`: a call that holds the read lock goes on (weak fairness); the load
  and an administrator's handler get the write lock although calls keep coming
  (strong fairness), because Go's `RWMutex` lets no new reader in before a writer
  that waits.
- `Backends`: workers and the retry loop go on from one statement to the next (weak
  fairness), and the ticker fires; of `Fetch` nothing is assumed. A handler in
  `OnBackendChange` goes on under strong fairness, because in the code it can always
  start its goroutine; that it waits for an idle worker comes from the bound.
  `CacheCatchesUp` has in its statement that requests go on being answered with
  tools.

The other runs check invariants and action properties and assume no fairness.

### What the violated runs show

`ratelimit_race`: two calls read a level that covers one of them and both consume.
`ratelimit.go:406`: "CheckAndConsume checks if the call is allowed and consumes
from buckets".

`identity_race`: two token requests read one authorization code before either has
deleted it, and each inserts a session. `DeleteOAuthCode` does not say whether it
found a row, and its error is ignored. `auth.go:427`: "Consume the code (one-time
use)".

## 4. Proofs

Every theorem is about the specification of one module, without fairness, and
holds for every value of the constants that satisfies the module's named
assumptions: constants for "none" are no member of the set they are added to, bounds, durations and costs
are natural numbers, a second and a minute are not empty, a few sets are not empty, for `Pool` the processes are finite
and there are a slot and a breaker limit, and for `RateLimit` finitely many forms
can be posted, so that there is a greatest rate. The sets of goroutines, requests,
browsers and users are arbitrary (in `Approval` the deciders are finite). Costs are
the 1 to 10 of a profile (`enforcer/types.go:79`); `scanner.go:115` takes what a
backend reports without a look at its range, and for a negative cost the budget
would make no sense.

One hypothesis is left: `WithinBudget` and `RefillKeepsUp` are proved with
`~Interleaved`, since the fields of a bucket have no lock, and `ratelimit_race`
shows what happens when goroutines meet there.

Each proof module states an inductive invariant `IndInv`, one lemma per conjunct
(`...Step`: one step per action), `InitIndInv`, a theorem of invariance, and the
properties as corollaries; types are part of each (`PoolTypes` and so on). Where one
invariant rests on another they come in layers (`IdentityProofs`, `EnforcerProofs`,
`RateLimitProofs`). The registry is part of a pool and the approval queue part of
the enforcer: `PoolProofs` and `EnforcerProofs` also hold the proofs about `Pending`
and `Approval`, whose specifications have names of their own for that
(`RegistrySpec` with `RegistryInv`, `QueueSpec` with `QueueInv`).

| Module | Proved | What the invariant adds, and why |
|---|---|---|
| `PoolProofs` | `ExclusiveUse`, `SpawnersSendOnOpenChannel`, `NoOrphans` | A goroutine refers to a process exactly between taking and giving it away (`HeldProcesses`), or a second owner could appear. The wait group is exact (`WaitGroupIsExact`): goroutines waiting for a timer are not counted and may start after `Warm` was closed, but then find `closed` set (`ClosesAfterClosed`). `AppendElements` and `TailElements` say what a send and a receive do to a channel's contents. |
| `PoolProofs`, of `Pending` | `RegisteredIsOpen`, `OwnAnswer` | An entry is registered under the id its request carries (`EntriesInOrder`), a channel is closed after registration (`ClosedWasRegistered`), and what waits in the channel of a request alone with its id is its answer (`OwnBuffered`). |
| `PoolManagerProofs` | `OwnPool`, `MappedIsOpen`, `LostOnlyToNewEnvironment` | Owners of mapped and of held pools (`MappedIsOwned`, `HeldIsOwned`), a map that stands still under a sweep (`SweptIsMapped`), and that a caller replaces only what has another environment (`ReplacedDiffers`); `LostIsOutdated` strengthens the last property to name the caller that took the pool out. Status pages change none of this (`PagesOnlyRead`). |
| `EnforcerProofs`, of `Approval` | `ExecutionsAreGranted`, `CompletedWasExecuted`, `ImplementsLifecycle` | Executions plus handlers that were granted and have not run yet never exceed the grants (`GrantsCover`, a cardinality argument). A handler at work has a grant (`WorkIsGranted`), a page shows a request that was made (`PagesHaveRows`), and a handler that is to record success has reached the backend (`SuccessWasRun`), although the row may have been decided by others since. |
| `EnforcerProofs` | `MostRestrictiveWins`, `NoPolicyIsMissing` | A stable policy is in both maps in one version (`StableInEngine`), is not skipped (`StableIsVisited`), and is yet to come, looked at or no stricter than the decision (`DecisionIsStrict`); `ShouldUpdateDecision` and the gates after it never weaken (`StricterStays`, `GatesRespect`). For `NoPolicyIsMissing`, an enabled policy that compiles is in the engine or on its way with some administrator's reload (`KnownInv`). Both for any number of administrators. |
| `IdentityProofs` | `NothingOutlivesAccount`, `SessionKeepsGrant`, `SettledForGood` | What a request has read still agrees with the grant it read it from (`GrantsOK`, `HeldOK`), although the row may be gone, and new rows have new numbers (`SerialsOK`). `SettledForGood` is an action property; it needs that the numbers of invitations have no gaps (`DenseInvites`), so that a new invitation is not an old one. |
| `AccountProofs` | `TypeOK`, `TokenIsLastSaved`, `KeysAreApart`, `SecondFactorIsPassed` | What a password change is about to write back is what the row holds (`TokenUnderChange`). A browser's session, pending login, setup and password change refer to slices that are its own, and a new slice is one that nothing refers to. A browser without a password change has an empty job (`JobsOK`). |
| `RateLimitProofs` | `TypeOK`, `WithinBudget`, `RefillKeepsUp` | `BudgetInv`: what a bucket has plus what it gave is covered by its credit and by what the greatest rate allows up to the time of its last refill, not up to now (`Covered`); the same of snapshots, which a restart makes buckets again, and of what a goroutine is about to store (`Snapshots`, `Registers`). Units for whole seconds are no more than units for the time itself (`WholeIsLess`), and two amounts rounded down apart no more than rounded together (`DivAdd`). `KeepInv`: a bucket is full or has a unit for every period that began before its last refill (`PaidUp`), and less than a period is uncredited once the ticker has been there (`Due`). |
| `OverridesProofs` | `MapFollowsTable`, `NoOverridePassedOver` | Handlers carry administrators' rows (`EditsAreAdmins`), and whoever is about to write the map for an untainted name carries the row that is in the table (`InStep`). |
| `BackendsProofs` | `RoutesFollowTable`, `UncachedIsExplained` | Workers that are idle or about to start count as precaches, and what is about to be cached has a configuration (`WorkersInOrder`). |

`ApprovalImplementsLifecycle` proves the refinement without a hypothesis: the initial
states map to initial states, and under `QueueInv` every step maps to a step of
`ApprovalLifecycle` or to a stutter (`LifeStep`).

Only model-checked is liveness (`ShutdownFinishes`, `RetriesSettle`, `CallsFinish`,
`RequestsEnd`, `RegistryDrains`, `GetReturns`, `OverdueSettles`, `ExecutingEnds`,
`EditTakesEffect`, `StoredComesIntoForce`, `CacheCatchesUp`,
`UnavailableRecovers`): fairness and ENABLED are out of reach of the installed
provers. Every invariant of a passing run, `SettledForGood` and the refinement are
theorems.

## 5. Behaviour that differs from documents and comments

Two disagreements are the subject of violated runs (section 3). The others were met
while reading and modelling; they are part of the models where the state is
modelled, and the properties say of which of them they make no claim:

- `USAGE.md:402` says a process is "returned to the pool (or replaced if
  unhealthy)"; `v2handler.go:967` returns one that has exited.
- `pool.go:306` says `WaitForWarm` only returns processes that have completed the
  handshake; a response channel closed by its timer counts as an answer
  (`pool.go:437`, action `HandshakeChannelClosed`).
- `pool.go:40` calls `CurrentSize` the "number of warm + spawning processes"; it
  is adjusted only on some of the paths that take or return a process.
- `approval_executor.go:99` says of an empty `Warm` "This shouldn't happen after
  WaitForWarm succeeded"; another handler may have received the process.
- `mcpbridge_routing.go:523` says a closed channel "means the backend process died
  unexpectedly"; it is closed by the 30 s timer.
- The registry is keyed by the client's id alone (`pool.go:634`), so two requests
  with one id can receive each other's answer.
- `enforcer_handlers.go:1017` "approves a user's own pending request"; the UPDATE
  does not look at the status, and approving twice executes twice.
- No step looks at EXECUTING rows after a restart; `mcpbridge_tools.go:372` tells
  the client to "check back shortly".
- `types.go:343` documents "0 (no timeout for admin queue)"; `enforcer.go:650`
  falls back to the general timeout.
- A refill truncates to whole seconds and whole units and moves `LastRefillAt` to
  now, so 40 per minute refills 30 per minute under the 1 s ticker, and at 60 per
  minute a ticker that fires a little early credits one unit in two seconds
  (`ratelimit.go:143`, "per minute"). `RefillKeepsUp` states what the code does
  guarantee: a unit every ceil(60 / rate) + 2 seconds.
- A call that one bucket refuses has been charged to the other
  (`ratelimit.go:511`).
- The multiplier table has the key "med", profiles carry "medium"
  (`ratelimit.go:11`, `types.go:64`).
- `HandleToolCall` reports an active kill switch by an error that its callers log
  before they forward the call (`mcpbridge_routing.go:330`).
- Deleting or disabling a policy does not take it out of the engine before a
  restart (`enforcer.go:978`); overlapping reloads can leave an older version; and
  during a reload the expression of one version meets the action of another.
- `AdminUsersEditHandler` writes the row without `PasswordSalt`.
- `web/auth.go:19` says keys are "cleared on logout/session expiry"; expiry leaves
  them in the map. `web/auth.go:178` says "do not create a session yet", after a
  session row and its key were created; its id is sent to nobody, and both stay.
- A login of a user without a salt writes back the whole row it has read
  (`web/auth.go:147`) and undoes a password change made in between.
- `Middleware` deletes an expired session together with its refresh token.
- `MarkInviteAccepted` does not say whether it changed a row, and its error is only
  logged (`invite.go:288`): after a failure, or a stop before it, the invitation is
  still pending although it has led to an account; and a signup that found the
  invitation pending makes an account, and a revoked invitation accepted, after a
  revocation. `SettledForGood` says where this ends. The `DeleteExpired*` statements
  are never called.
- A password change writes the name and role read when the request began.
- `manager.go:96` says that when the environment has changed "the existing pool is
  shut down and recreated". It is shut down in one critical section and the new
  pool stored in another without looking again: of two lookups that find the
  change, the second deletes or overwrites the pool the first has stored, which
  stays open, with its processes, where no sweep will find it.
- `web/user.go:327`: "Re-encrypt the user's 2FA secret with the new DEK so a
  password change does not orphan it." After the tokens page has overwritten the
  key the session holds (`user.go:164`), the secret cannot be unwrapped; this is
  logged, the change goes on, and the secret stays under a key nobody can derive.
- `Stdin.Write` has no deadline (`mcpbridge_routing.go:175` and `512`,
  `approval_executor.go:154`): a process that does not read blocks the handler, whose
  timeout begins after the write. The executor also sends the process back to `Warm`
  itself: a full channel blocks it, a closed one panics, and the row stays EXECUTING.
- `GetProcessMemory` can keep `pool.mu` for ever: on a `Warm` that was filled
  meanwhile, or in its loop on a closed one (`pool.go:786`). `GetPoolsForUser` and
  `GetAllPools` call it with the manager's read lock (`manager.go:300` and `331`), so
  that the lookups of all users may hang with it.
- `refreshBackendTools` and `exec` return a process they have killed to `Warm`.
- An empty list of tools is cached, and `GetUncachedBackends` counts it as cached
  (`mcpbridge_routing.go:195`): such a backend shows no tools and no reason.
- `execCmd.Wait()` of a precache (`precache.go:370`) has no timeout of its own.
- `resolver.go:110` lists "Admin overrides (in-memory, no user_id)";
  `loadOverridesIntoResolver` registers every row, so after a restart a personal
  override is everybody's. `enforcer_test.go:328` says a user's override is "picked
  up by ResolveForUser but NOT by the admin Resolve".
- A user's upsert replaces an administrator's row of the same tool
  (`enforcer_store.go:357`); the map still has the administrator's value until the
  next start.
- `UserOverrideCreateHandler` stores the stripped name, and the `/mcp` route
  resolves the prefixed one (`mcpbridge_routing.go:329`), where a personal override
  is not found.
- The repository's `README.md:54` says "users can escalate specific tools"; any
  risk and impact are accepted, lower ones too.
- `main.go:366` says that subsequent requests "pick up the new configuration
  immediately"; a request that had read the row before creates a pool of the old
  command that stays until it is idle (`late`).
- `AdminBackendsEditHandler` does not carry `StdioFraming` over, and an edit loses
  it.
- The retry loop clears `precache_error` although no tools were cached
  (`cleared`), probes disabled backends too, and probes without a user's tokens.
- Once the retry loop has marked a backend available, `tools/list` no longer calls
  `ForceReconnect`, and a pool whose breaker is open stays so: its tools say "will
  retry automatically" (`mcpbridge_routing.go:105`).
- `next_retry` is written in the local zone and compared as text with
  `CURRENT_TIMESTAMP`, which is UTC; and `1 << retryCount` is negative or 0 from 63
  failures on (`backend_status.go:110`), so that a retry is no longer put off.
  `Backends` only assumes that `next_retry` comes.

## 6. Not modelled

- The value of `CurrentSize`, which is only displayed, and `IsReady`, which nothing
  calls.
- Heuristic patterns, the text of reported profiles, credentials a precache tries,
  retry delays, template expansion: data that no property tells apart.
- Client registration, justification events, audit rows, pages that only show.
- Cryptography: a key is what it is derived from. The schema: the statements used
  by a component are part of its module.
- The recycler and the legacy HTTP handlers are not reached by the program.
- JSON-RPC framing, tool names, templates, mail, configuration, logging: data and
  I/O.
- Clocks are discrete and do not go backwards; SQL statements are atomic.

## 7. Plan

Done, in this order: `Pool`, `Pending`, `PoolManager`; `Approval` with its abstract
life cycle, `RateLimit`, `Enforcer`; `Identity`, `Account`; `Overrides`, `Backends`;
the proofs of section 4.

What is left, most useful first:

1. Which versions of a policy overlapping reloads may leave in the engine.
2. Violated runs for the lines of section 5 that claim more than the code does:
   `manager.go:96`, `enforcer_handlers.go:1017`, `web/user.go:327`,
   `resolver.go:110`, `main.go:366`.
3. `Backends` with a pool per user, so that the manager's environment comparison and
   the administrator's removal meet in one module.
