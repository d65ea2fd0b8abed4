-------------------------- MODULE PoolManagerProofs --------------------------
(***************************************************************************)
(* Safety of the pool manager for every set of backends, users,            *)
(* environments and requests, and any number of pools and sweeps.          *)
(***************************************************************************)
EXTENDS PoolManager, TLAPS

\* A pool in the map has been made, and made for the key it is under.
MappedIsOwned ==
    \A k \in Keys : pools[k] # NoPool => state[pools[k]] # "new" /\ owner[pools[k]] = k

\* A pool a request has got hold of was made for the request's key; the request
\* that replaces it has seen or started its Shutdown.
HeldIsOwned ==
    \A c \in Callers : held[c] # NoPool =>
        /\ state[held[c]] # "new" /\ owner[held[c]] = want[c]
        /\ pc[c] \in {"closing", "delete"} => state[held[c]] # "open"

\* The map does not change under a sweep, which holds the lock.
SweptIsMapped ==
    /\ sweep = "none" => todo = {} /\ visiting = {}
    /\ \A k \in todo \cup visiting : pools[k] # NoPool
    /\ \A k \in visiting : visiting = {k} /\ k \notin todo

\* A request that replaces a pool asks for another environment than the pool's.
ReplacedDiffers ==
    \A c \in Callers : pc[c] \in {"shutdown", "closing", "delete"} => env[held[c]] # wantEnv[c]

\* An open pool the map has lost has another environment than a pool of the same
\* key, or than the pool that the request which took it out is about to create.
LostIsOutdated ==
    \A p \in Pools : state[p] = "open" /\ (\A k \in Keys : pools[k] # p) =>
        \/ \E q \in Pools : state[q] # "new" /\ owner[q] = owner[p] /\ env[q] # env[p]
        \/ \E c \in Callers : pc[c] = "create" /\ want[c] = owner[p] /\ wantEnv[c] # env[p]

IndInv ==
    /\ TypeOK /\ MappedIsOwned /\ HeldIsOwned /\ SweptIsMapped /\ ReplacedDiffers
    /\ OwnPool /\ MappedIsOpen /\ LostIsOutdated

\* There are a key and an environment.
LEMMA AnyFacts == AnyKey \in Keys /\ AnyEnv \in Envs
<1>1. PICK b \in Backends, u \in Users : TRUE
  BY NonEmptyAssumption
<1>2. <<b, u>> \in Keys
  BY <1>1 DEF Keys
<1>3. QED
  BY <1>2, NonEmptyAssumption DEF AnyKey, AnyEnv

\* A pool that is created is one that nobody has made before.
LEMMA NewPoolIsUnmade ==
    ASSUME NEW c \in Callers, NEW k \in Keys, NewPoolWithEnv(c, k)
    PROVE  \E p \in Pools :
              /\ state[p] = "new"
              /\ pools' = [pools EXCEPT ![k] = p]
              /\ state' = [state EXCEPT ![p] = "open"]
              /\ owner' = [owner EXCEPT ![p] = k] /\ env' = [env EXCEPT ![p] = wantEnv[c]]
              /\ CallerGoto(c, "have", p)
<1> DEFINE p == CHOOSE q \in Unmade : TRUE
<1>1. p \in Unmade
  BY DEF NewPoolWithEnv
<1>2. p \in Pools /\ state[p] = "new"
  BY <1>1 DEF Unmade
<1>3. QED
  BY <1>2 DEF NewPoolWithEnv

\* All but what the status pages keep.
served == <<pools, state, owner, env, idle, callerVars, sweepVars>>

\* A status page changes nothing but its own state.
LEMMA PagesOnlyRead ==
    ASSUME (\E g \in Pages : PageStep(g)) \/ UNCHANGED vars
    PROVE  UNCHANGED served
BY DEF PageStep, PageRuns, ReportBegin, ReportVisits, ReportReads, ReportEnd, vars, served,
       callerVars, sweepVars

\* Each step keeps the types.
LEMMA TypeStep ==
    ASSUME TypeOK, SweptIsMapped, [Next]_vars
    PROVE  TypeOK'
<1>1. ASSUME NEW c \in Callers, CallerStep(c) PROVE TypeOK'
  <2>1. CASE Lookup(c)
    BY <2>1, PoolsAssumption DEF Lookup, TypeOK, CallerGoto, callerVars, sweepVars, pageVars
  <2>2. CASE TouchLastUsed(c)
    BY <2>2, PoolsAssumption
      DEF TouchLastUsed, TypeOK, CallerGoto, callerVars, sweepVars, pageVars
  <2>3. CASE ShutdownBegin(c)
    BY <2>3, PoolsAssumption
      DEF ShutdownBegin, TypeOK, CallerGoto, callerVars, sweepVars, pageVars
  <2>4. CASE ShutdownEnd(c)
    BY <2>4, PoolsAssumption
      DEF ShutdownEnd, TypeOK, CallerGoto, callerVars, sweepVars, pageVars
  <2>5. CASE Delete(c)
    BY <2>5, PoolsAssumption DEF Delete, TypeOK, CallerGoto, callerVars, sweepVars, pageVars
  <2>6. CASE Create(c)
    <3>1. CASE pools[want[c]] # NoPool /\ env[pools[want[c]]] = wantEnv[c]
      BY <2>6, <3>1, PoolsAssumption
        DEF Create, TypeOK, CallerGoto, callerVars, sweepVars, pageVars
    <3>2. CASE ~(pools[want[c]] # NoPool /\ env[pools[want[c]]] = wantEnv[c])
      <4>1. want[c] \in Keys /\ NewPoolWithEnv(c, want[c])
            /\ UNCHANGED <<idle, want, wantEnv, gets, sweepVars, pageVars>>
        BY <2>6, <3>2 DEF Create, TypeOK, IndInv
      <4>2. PICK p \in Pools :
                  /\ state[p] = "new"
                  /\ pools' = [pools EXCEPT ![want[c]] = p]
                  /\ state' = [state EXCEPT ![p] = "open"]
                  /\ owner' = [owner EXCEPT ![p] = want[c]]
                  /\ env' = [env EXCEPT ![p] = wantEnv[c]]
                  /\ CallerGoto(c, "have", p)
        BY <4>1, NewPoolIsUnmade
      <4>3. QED
        BY <2>6, <4>1, <4>2, PoolsAssumption
          DEF Create, TypeOK, CallerGoto, callerVars, sweepVars, pageVars
    <3>3. QED BY <3>1, <3>2
  <2>7. CASE Return(c)
    BY <2>7, PoolsAssumption, AnyFacts
      DEF Return, TypeOK, CallerGoto, callerVars, sweepVars, pageVars
  <2>8. QED
    BY <1>1, <2>1, <2>2, <2>3, <2>4, <2>5, <2>6, <2>7 DEF CallerStep, CallerRuns
<1>2. ASSUME NEW c \in Callers, NEW k \in Keys, NEW e \in Envs, Get(c, k, e) PROVE TypeOK'
  BY <1>2, PoolsAssumption, BoundsAssumption
    DEF Get, TypeOK, CallerGoto, callerVars, sweepVars, pageVars
<1>3. ASSUME NEW p \in Pools, IdleTooLong(p) PROVE TypeOK'
  BY <1>3, PoolsAssumption DEF IdleTooLong, TypeOK, CallerGoto, callerVars, sweepVars, pageVars
<1>4. ASSUME NEW kind \in Sweeps, NEW b \in Backends, SweepBegin(kind, b) PROVE TypeOK'
  BY <1>4, PoolsAssumption, BoundsAssumption
    DEF SweepBegin, TypeOK, CallerGoto, callerVars, sweepVars, pageVars
<1>5. CASE SweepStep
  <2>1. ASSUME NEW k \in Keys, SweepVisits(k) PROVE TypeOK'
    BY <2>1, PoolsAssumption
      DEF SweepVisits, TypeOK, CallerGoto, callerVars, sweepVars, pageVars, SweptIsMapped
  <2>2. ASSUME NEW k \in Keys, SweepShuts(k) PROVE TypeOK'
    BY <2>2, PoolsAssumption
      DEF SweepShuts, TypeOK, CallerGoto, callerVars, sweepVars, pageVars, SweptIsMapped
  <2>3. CASE SweepEnd
    BY <2>3, PoolsAssumption DEF SweepEnd, TypeOK, CallerGoto, callerVars, sweepVars, pageVars
  <2>4. QED
    BY <1>5, <2>1, <2>2, <2>3 DEF SweepStep, SweepRuns
<1>6. ASSUME NEW g \in Pages, PageStep(g) PROVE TypeOK'
  BY <1>6, BoundsAssumption
    DEF PageStep, PageRuns, ReportBegin, ReportVisits, ReportReads, ReportEnd, TypeOK,
        callerVars, sweepVars
<1>7. CASE UNCHANGED vars
  BY <1>7 DEF vars, pageVars, TypeOK, CallerGoto, callerVars, sweepVars, pageVars
<1>8. QED
  BY <1>1, <1>2, <1>3, <1>4, <1>5, <1>6, <1>7 DEF Next

\* Pools keep their owners: a new pool is one nobody refers to.
LEMMA OwnedStep ==
    ASSUME IndInv, [Next]_vars
    PROVE  (MappedIsOwned /\ HeldIsOwned)'
<1>1. ASSUME NEW c \in Callers, CallerStep(c) PROVE (MappedIsOwned /\ HeldIsOwned)'
  <2>1. CASE Lookup(c)
    BY <2>1, PoolsAssumption
      DEF Lookup, IndInv, TypeOK, CallerGoto, callerVars, sweepVars, MappedIsOwned,
      HeldIsOwned, SweptIsMapped
  <2>2. CASE TouchLastUsed(c)
    BY <2>2, PoolsAssumption
      DEF TouchLastUsed, IndInv, TypeOK, CallerGoto, callerVars, sweepVars, MappedIsOwned,
      HeldIsOwned, SweptIsMapped
  <2>3. CASE ShutdownBegin(c)
    BY <2>3, PoolsAssumption
      DEF ShutdownBegin, IndInv, TypeOK, CallerGoto, callerVars, sweepVars, MappedIsOwned,
      HeldIsOwned, SweptIsMapped
  <2>4. CASE ShutdownEnd(c)
    BY <2>4, PoolsAssumption
      DEF ShutdownEnd, IndInv, TypeOK, CallerGoto, callerVars, sweepVars, MappedIsOwned,
      HeldIsOwned, SweptIsMapped
  <2>5. CASE Delete(c)
    BY <2>5, PoolsAssumption
      DEF Delete, IndInv, TypeOK, CallerGoto, callerVars, sweepVars, MappedIsOwned,
      HeldIsOwned, SweptIsMapped
  <2>6. CASE Create(c)
    <3>1. CASE pools[want[c]] # NoPool /\ env[pools[want[c]]] = wantEnv[c]
      BY <2>6, <3>1, PoolsAssumption
        DEF Create, IndInv, TypeOK, CallerGoto, callerVars, sweepVars, MappedIsOwned,
           HeldIsOwned, SweptIsMapped
    <3>2. CASE ~(pools[want[c]] # NoPool /\ env[pools[want[c]]] = wantEnv[c])
      <4>1. want[c] \in Keys /\ NewPoolWithEnv(c, want[c])
            /\ UNCHANGED <<idle, want, wantEnv, gets, sweepVars, pageVars>>
        BY <2>6, <3>2 DEF Create, TypeOK, IndInv
      <4>2. PICK p \in Pools :
                  /\ state[p] = "new"
                  /\ pools' = [pools EXCEPT ![want[c]] = p]
                  /\ state' = [state EXCEPT ![p] = "open"]
                  /\ owner' = [owner EXCEPT ![p] = want[c]]
                  /\ env' = [env EXCEPT ![p] = wantEnv[c]]
                  /\ CallerGoto(c, "have", p)
        BY <4>1, NewPoolIsUnmade
      <4>3. QED
        BY <2>6, <4>1, <4>2, PoolsAssumption
          DEF Create, IndInv, TypeOK, CallerGoto, callerVars, sweepVars, MappedIsOwned,
             HeldIsOwned, SweptIsMapped
    <3>3. QED BY <3>1, <3>2
  <2>7. CASE Return(c)
    BY <2>7, PoolsAssumption
      DEF Return, IndInv, TypeOK, CallerGoto, callerVars, sweepVars, MappedIsOwned,
      HeldIsOwned, SweptIsMapped
  <2>8. QED
    BY <1>1, <2>1, <2>2, <2>3, <2>4, <2>5, <2>6, <2>7 DEF CallerStep, CallerRuns
<1>2. ASSUME NEW c \in Callers, NEW k \in Keys, NEW e \in Envs, Get(c, k, e)
      PROVE  (MappedIsOwned /\ HeldIsOwned)'
  BY <1>2, PoolsAssumption
    DEF Get, IndInv, TypeOK, CallerGoto, callerVars, sweepVars, MappedIsOwned, HeldIsOwned,
    SweptIsMapped
<1>3. ASSUME NEW p \in Pools, IdleTooLong(p) PROVE (MappedIsOwned /\ HeldIsOwned)'
  BY <1>3, PoolsAssumption
    DEF IdleTooLong, IndInv, TypeOK, CallerGoto, callerVars, sweepVars, MappedIsOwned,
    HeldIsOwned, SweptIsMapped
<1>4. ASSUME NEW kind \in Sweeps, NEW b \in Backends, SweepBegin(kind, b)
      PROVE  (MappedIsOwned /\ HeldIsOwned)'
  BY <1>4, PoolsAssumption
    DEF SweepBegin, IndInv, TypeOK, CallerGoto, callerVars, sweepVars, MappedIsOwned,
    HeldIsOwned, SweptIsMapped, Unlocked, Readable, AllSweeps
<1>5. CASE SweepStep
  <2>1. ASSUME NEW k \in Keys, SweepVisits(k) PROVE (MappedIsOwned /\ HeldIsOwned)'
    BY <2>1, PoolsAssumption
      DEF SweepVisits, IndInv, TypeOK, CallerGoto, callerVars, sweepVars, MappedIsOwned,
      HeldIsOwned, SweptIsMapped
  <2>2. ASSUME NEW k \in Keys, SweepShuts(k) PROVE (MappedIsOwned /\ HeldIsOwned)'
    BY <2>2, PoolsAssumption
      DEF SweepShuts, IndInv, TypeOK, CallerGoto, callerVars, sweepVars, MappedIsOwned,
      HeldIsOwned, SweptIsMapped
  <2>3. CASE SweepEnd
    BY <2>3, PoolsAssumption
      DEF SweepEnd, IndInv, TypeOK, CallerGoto, callerVars, sweepVars, MappedIsOwned,
      HeldIsOwned, SweptIsMapped
  <2>4. QED
    BY <1>5, <2>1, <2>2, <2>3 DEF SweepStep, SweepRuns
<1>6. CASE UNCHANGED served
  BY <1>6
    DEF served, IndInv, TypeOK, CallerGoto, callerVars, sweepVars, MappedIsOwned, HeldIsOwned,
    SweptIsMapped
<1>7. QED
  BY <1>1, <1>2, <1>3, <1>4, <1>5, <1>6, PagesOnlyRead DEF Next

\* Nobody else touches the map during a sweep.
LEMMA SweptStep ==
    ASSUME IndInv, [Next]_vars
    PROVE  SweptIsMapped'
<1>1. ASSUME NEW c \in Callers, CallerStep(c) PROVE SweptIsMapped'
  <2>1. CASE Lookup(c)
    BY <2>1, PoolsAssumption
      DEF Lookup, IndInv, TypeOK, CallerGoto, callerVars, sweepVars, SweptIsMapped, Unlocked,
          Readable
  <2>2. CASE TouchLastUsed(c)
    BY <2>2, PoolsAssumption
      DEF TouchLastUsed, IndInv, TypeOK, CallerGoto, callerVars, sweepVars, SweptIsMapped,
      Unlocked, Readable
  <2>3. CASE ShutdownBegin(c)
    BY <2>3, PoolsAssumption
      DEF ShutdownBegin, IndInv, TypeOK, CallerGoto, callerVars, sweepVars, SweptIsMapped,
      Unlocked, Readable
  <2>4. CASE ShutdownEnd(c)
    BY <2>4, PoolsAssumption
      DEF ShutdownEnd, IndInv, TypeOK, CallerGoto, callerVars, sweepVars, SweptIsMapped,
      Unlocked, Readable
  <2>5. CASE Delete(c)
    BY <2>5, PoolsAssumption
      DEF Delete, IndInv, TypeOK, CallerGoto, callerVars, sweepVars, SweptIsMapped, Unlocked,
          Readable
  <2>6. CASE Create(c)
    <3>1. CASE pools[want[c]] # NoPool /\ env[pools[want[c]]] = wantEnv[c]
      BY <2>6, <3>1, PoolsAssumption
        DEF Create, IndInv, TypeOK, CallerGoto, callerVars, sweepVars, SweptIsMapped,
            Unlocked, Readable
    <3>2. CASE ~(pools[want[c]] # NoPool /\ env[pools[want[c]]] = wantEnv[c])
      <4>1. want[c] \in Keys /\ NewPoolWithEnv(c, want[c])
            /\ UNCHANGED <<idle, want, wantEnv, gets, sweepVars, pageVars>>
        BY <2>6, <3>2 DEF Create, TypeOK, IndInv
      <4>2. PICK p \in Pools :
                  /\ state[p] = "new"
                  /\ pools' = [pools EXCEPT ![want[c]] = p]
                  /\ state' = [state EXCEPT ![p] = "open"]
                  /\ owner' = [owner EXCEPT ![p] = want[c]]
                  /\ env' = [env EXCEPT ![p] = wantEnv[c]]
                  /\ CallerGoto(c, "have", p)
        BY <4>1, NewPoolIsUnmade
      <4>3. QED
        BY <2>6, <4>1, <4>2, PoolsAssumption
          DEF Create, IndInv, TypeOK, CallerGoto, callerVars, sweepVars, SweptIsMapped,
              Unlocked, Readable
    <3>3. QED BY <3>1, <3>2
  <2>7. CASE Return(c)
    BY <2>7, PoolsAssumption
      DEF Return, IndInv, TypeOK, CallerGoto, callerVars, sweepVars, SweptIsMapped, Unlocked,
          Readable
  <2>8. QED
    BY <1>1, <2>1, <2>2, <2>3, <2>4, <2>5, <2>6, <2>7 DEF CallerStep, CallerRuns
<1>2. ASSUME NEW c \in Callers, NEW k \in Keys, NEW e \in Envs, Get(c, k,
e) PROVE SweptIsMapped'
  BY <1>2, PoolsAssumption
    DEF Get, IndInv, TypeOK, CallerGoto, callerVars, sweepVars, SweptIsMapped, Unlocked,
        Readable
<1>3. ASSUME NEW p \in Pools, IdleTooLong(p) PROVE SweptIsMapped'
  BY <1>3, PoolsAssumption
    DEF IdleTooLong, IndInv, TypeOK, CallerGoto, callerVars, sweepVars, SweptIsMapped,
    Unlocked, Readable
<1>4. ASSUME NEW kind \in Sweeps, NEW b \in Backends, SweepBegin(kind, b) PROVE SweptIsMapped'
  BY <1>4, PoolsAssumption
    DEF SweepBegin, IndInv, TypeOK, CallerGoto, callerVars, sweepVars, SweptIsMapped,
    Unlocked, Readable, AllSweeps
<1>5. CASE SweepStep
  <2>1. ASSUME NEW k \in Keys, SweepVisits(k) PROVE SweptIsMapped'
    BY <2>1, PoolsAssumption
      DEF SweepVisits, IndInv, TypeOK, CallerGoto, callerVars, sweepVars, SweptIsMapped,
      Unlocked, Readable
  <2>2. ASSUME NEW k \in Keys, SweepShuts(k) PROVE SweptIsMapped'
    BY <2>2, PoolsAssumption
      DEF SweepShuts, IndInv, TypeOK, CallerGoto, callerVars, sweepVars, SweptIsMapped,
      Unlocked, Readable
  <2>3. CASE SweepEnd
    BY <2>3, PoolsAssumption
      DEF SweepEnd, IndInv, TypeOK, CallerGoto, callerVars, sweepVars, SweptIsMapped,
          Unlocked, Readable
  <2>4. QED
    BY <1>5, <2>1, <2>2, <2>3 DEF SweepStep, SweepRuns
<1>6. CASE UNCHANGED served
  BY <1>6
    DEF served, IndInv, TypeOK, CallerGoto, callerVars, sweepVars, SweptIsMapped, Unlocked,
        Readable
<1>7. QED
  BY <1>1, <1>2, <1>3, <1>4, <1>5, <1>6, PagesOnlyRead DEF Next

\* Each step keeps OwnPool.
LEMMA OwnPoolStep ==
    ASSUME IndInv, [Next]_vars
    PROVE  OwnPool'
<1>1. ASSUME NEW c \in Callers, CallerStep(c) PROVE OwnPool'
  <2>1. CASE Lookup(c)
    BY <2>1, PoolsAssumption
      DEF Lookup, IndInv, TypeOK, CallerGoto, callerVars, sweepVars, OwnPool, MappedIsOwned,
      HeldIsOwned, SweptIsMapped
  <2>2. CASE TouchLastUsed(c)
    BY <2>2, PoolsAssumption
      DEF TouchLastUsed, IndInv, TypeOK, CallerGoto, callerVars, sweepVars, OwnPool,
      MappedIsOwned, HeldIsOwned, SweptIsMapped
  <2>3. CASE ShutdownBegin(c)
    BY <2>3, PoolsAssumption
      DEF ShutdownBegin, IndInv, TypeOK, CallerGoto, callerVars, sweepVars, OwnPool,
      MappedIsOwned, HeldIsOwned, SweptIsMapped
  <2>4. CASE ShutdownEnd(c)
    BY <2>4, PoolsAssumption
      DEF ShutdownEnd, IndInv, TypeOK, CallerGoto, callerVars, sweepVars, OwnPool,
      MappedIsOwned, HeldIsOwned, SweptIsMapped
  <2>5. CASE Delete(c)
    BY <2>5, PoolsAssumption
      DEF Delete, IndInv, TypeOK, CallerGoto, callerVars, sweepVars, OwnPool, MappedIsOwned,
      HeldIsOwned, SweptIsMapped
  <2>6. CASE Create(c)
    <3>1. CASE pools[want[c]] # NoPool /\ env[pools[want[c]]] = wantEnv[c]
      BY <2>6, <3>1, PoolsAssumption
        DEF Create, IndInv, TypeOK, CallerGoto, callerVars, sweepVars, OwnPool, MappedIsOwned,
           HeldIsOwned, SweptIsMapped
    <3>2. CASE ~(pools[want[c]] # NoPool /\ env[pools[want[c]]] = wantEnv[c])
      <4>1. want[c] \in Keys /\ NewPoolWithEnv(c, want[c])
            /\ UNCHANGED <<idle, want, wantEnv, gets, sweepVars, pageVars>>
        BY <2>6, <3>2 DEF Create, TypeOK, IndInv
      <4>2. PICK p \in Pools :
                  /\ state[p] = "new"
                  /\ pools' = [pools EXCEPT ![want[c]] = p]
                  /\ state' = [state EXCEPT ![p] = "open"]
                  /\ owner' = [owner EXCEPT ![p] = want[c]]
                  /\ env' = [env EXCEPT ![p] = wantEnv[c]]
                  /\ CallerGoto(c, "have", p)
        BY <4>1, NewPoolIsUnmade
      <4>3. QED
        BY <2>6, <4>1, <4>2, PoolsAssumption
          DEF Create, IndInv, TypeOK, CallerGoto, callerVars, sweepVars, OwnPool, MappedIsOwned,
             HeldIsOwned, SweptIsMapped
    <3>3. QED BY <3>1, <3>2
  <2>7. CASE Return(c)
    BY <2>7, PoolsAssumption
      DEF Return, IndInv, TypeOK, CallerGoto, callerVars, sweepVars, OwnPool, MappedIsOwned,
      HeldIsOwned, SweptIsMapped
  <2>8. QED
    BY <1>1, <2>1, <2>2, <2>3, <2>4, <2>5, <2>6, <2>7 DEF CallerStep, CallerRuns
<1>2. ASSUME NEW c \in Callers, NEW k \in Keys, NEW e \in Envs, Get(c, k, e) PROVE OwnPool'
  BY <1>2, PoolsAssumption
    DEF Get, IndInv, TypeOK, CallerGoto, callerVars, sweepVars, OwnPool, MappedIsOwned,
    HeldIsOwned, SweptIsMapped
<1>3. ASSUME NEW p \in Pools, IdleTooLong(p) PROVE OwnPool'
  BY <1>3, PoolsAssumption
    DEF IdleTooLong, IndInv, TypeOK, CallerGoto, callerVars, sweepVars, OwnPool,
    MappedIsOwned, HeldIsOwned, SweptIsMapped
<1>4. ASSUME NEW kind \in Sweeps, NEW b \in Backends, SweepBegin(kind, b) PROVE OwnPool'
  BY <1>4, PoolsAssumption
    DEF SweepBegin, IndInv, TypeOK, CallerGoto, callerVars, sweepVars, OwnPool, MappedIsOwned,
    HeldIsOwned, SweptIsMapped, Unlocked, Readable, AllSweeps
<1>5. CASE SweepStep
  <2>1. ASSUME NEW k \in Keys, SweepVisits(k) PROVE OwnPool'
    BY <2>1, PoolsAssumption
      DEF SweepVisits, IndInv, TypeOK, CallerGoto, callerVars, sweepVars, OwnPool,
      MappedIsOwned, HeldIsOwned, SweptIsMapped
  <2>2. ASSUME NEW k \in Keys, SweepShuts(k) PROVE OwnPool'
    BY <2>2, PoolsAssumption
      DEF SweepShuts, IndInv, TypeOK, CallerGoto, callerVars, sweepVars, OwnPool,
      MappedIsOwned, HeldIsOwned, SweptIsMapped
  <2>3. CASE SweepEnd
    BY <2>3, PoolsAssumption
      DEF SweepEnd, IndInv, TypeOK, CallerGoto, callerVars, sweepVars, OwnPool, MappedIsOwned,
      HeldIsOwned, SweptIsMapped
  <2>4. QED
    BY <1>5, <2>1, <2>2, <2>3 DEF SweepStep, SweepRuns
<1>6. CASE UNCHANGED served
  BY <1>6
    DEF served, IndInv, TypeOK, CallerGoto, callerVars, sweepVars, OwnPool, MappedIsOwned,
    HeldIsOwned, SweptIsMapped
<1>7. QED
  BY <1>1, <1>2, <1>3, <1>4, <1>5, <1>6, PagesOnlyRead DEF Next

\* Each step keeps ReplacedDiffers.
LEMMA ReplacedStep ==
    ASSUME IndInv, [Next]_vars
    PROVE  ReplacedDiffers'
<1>1. ASSUME NEW c \in Callers, CallerStep(c) PROVE ReplacedDiffers'
  <2>1. CASE Lookup(c)
    BY <2>1, PoolsAssumption
      DEF Lookup, IndInv, TypeOK, CallerGoto, callerVars, sweepVars, ReplacedDiffers,
      HeldIsOwned, MappedIsOwned
  <2>2. CASE TouchLastUsed(c)
    BY <2>2, PoolsAssumption
      DEF TouchLastUsed, IndInv, TypeOK, CallerGoto, callerVars, sweepVars, ReplacedDiffers,
      HeldIsOwned, MappedIsOwned
  <2>3. CASE ShutdownBegin(c)
    BY <2>3, PoolsAssumption
      DEF ShutdownBegin, IndInv, TypeOK, CallerGoto, callerVars, sweepVars, ReplacedDiffers,
      HeldIsOwned, MappedIsOwned
  <2>4. CASE ShutdownEnd(c)
    BY <2>4, PoolsAssumption
      DEF ShutdownEnd, IndInv, TypeOK, CallerGoto, callerVars, sweepVars, ReplacedDiffers,
      HeldIsOwned, MappedIsOwned
  <2>5. CASE Delete(c)
    BY <2>5, PoolsAssumption
      DEF Delete, IndInv, TypeOK, CallerGoto, callerVars, sweepVars, ReplacedDiffers,
      HeldIsOwned, MappedIsOwned
  <2>6. CASE Create(c)
    <3>1. CASE pools[want[c]] # NoPool /\ env[pools[want[c]]] = wantEnv[c]
      BY <2>6, <3>1, PoolsAssumption
        DEF Create, IndInv, TypeOK, CallerGoto, callerVars, sweepVars, ReplacedDiffers,
           HeldIsOwned, MappedIsOwned
    <3>2. CASE ~(pools[want[c]] # NoPool /\ env[pools[want[c]]] = wantEnv[c])
      <4>1. want[c] \in Keys /\ NewPoolWithEnv(c, want[c])
            /\ UNCHANGED <<idle, want, wantEnv, gets, sweepVars, pageVars>>
        BY <2>6, <3>2 DEF Create, TypeOK, IndInv
      <4>2. PICK p \in Pools :
                  /\ state[p] = "new"
                  /\ pools' = [pools EXCEPT ![want[c]] = p]
                  /\ state' = [state EXCEPT ![p] = "open"]
                  /\ owner' = [owner EXCEPT ![p] = want[c]]
                  /\ env' = [env EXCEPT ![p] = wantEnv[c]]
                  /\ CallerGoto(c, "have", p)
        BY <4>1, NewPoolIsUnmade
      <4>3. QED
        BY <2>6, <4>1, <4>2, PoolsAssumption
          DEF Create, IndInv, TypeOK, CallerGoto, callerVars, sweepVars, ReplacedDiffers,
             HeldIsOwned, MappedIsOwned
    <3>3. QED BY <3>1, <3>2
  <2>7. CASE Return(c)
    BY <2>7, PoolsAssumption
      DEF Return, IndInv, TypeOK, CallerGoto, callerVars, sweepVars, ReplacedDiffers,
      HeldIsOwned, MappedIsOwned
  <2>8. QED
    BY <1>1, <2>1, <2>2, <2>3, <2>4, <2>5, <2>6, <2>7 DEF CallerStep, CallerRuns
<1>2. ASSUME NEW c \in Callers, NEW k \in Keys, NEW e \in Envs, Get(c, k, e)
      PROVE  ReplacedDiffers'
  BY <1>2, PoolsAssumption
    DEF Get, IndInv, TypeOK, CallerGoto, callerVars, sweepVars, ReplacedDiffers, HeldIsOwned,
    MappedIsOwned
<1>3. ASSUME NEW p \in Pools, IdleTooLong(p) PROVE ReplacedDiffers'
  BY <1>3, PoolsAssumption
    DEF IdleTooLong, IndInv, TypeOK, CallerGoto, callerVars, sweepVars, ReplacedDiffers,
    HeldIsOwned, MappedIsOwned
<1>4. ASSUME NEW kind \in Sweeps, NEW b \in Backends, SweepBegin(kind, b) PROVE ReplacedDiffers'
  BY <1>4, PoolsAssumption
    DEF SweepBegin, IndInv, TypeOK, CallerGoto, callerVars, sweepVars, ReplacedDiffers,
    HeldIsOwned, MappedIsOwned, Unlocked, Readable, AllSweeps
<1>5. CASE SweepStep
  <2>1. ASSUME NEW k \in Keys, SweepVisits(k) PROVE ReplacedDiffers'
    BY <2>1, PoolsAssumption
      DEF SweepVisits, IndInv, TypeOK, CallerGoto, callerVars, sweepVars, ReplacedDiffers,
      HeldIsOwned, MappedIsOwned
  <2>2. ASSUME NEW k \in Keys, SweepShuts(k) PROVE ReplacedDiffers'
    BY <2>2, PoolsAssumption
      DEF SweepShuts, IndInv, TypeOK, CallerGoto, callerVars, sweepVars, ReplacedDiffers,
      HeldIsOwned, MappedIsOwned
  <2>3. CASE SweepEnd
    BY <2>3, PoolsAssumption
      DEF SweepEnd, IndInv, TypeOK, CallerGoto, callerVars, sweepVars, ReplacedDiffers,
      HeldIsOwned, MappedIsOwned
  <2>4. QED
    BY <1>5, <2>1, <2>2, <2>3 DEF SweepStep, SweepRuns
<1>6. CASE UNCHANGED served
  BY <1>6
    DEF served, IndInv, TypeOK, CallerGoto, callerVars, sweepVars, ReplacedDiffers, HeldIsOwned,
    MappedIsOwned
<1>7. QED
  BY <1>1, <1>2, <1>3, <1>4, <1>5, <1>6, PagesOnlyRead DEF Next

\* Each step keeps LostIsOutdated.
LEMMA LostStep ==
    ASSUME IndInv, [Next]_vars
    PROVE  LostIsOutdated'
<1>1. ASSUME NEW c \in Callers, CallerStep(c) PROVE LostIsOutdated'
  <2>1. CASE Lookup(c)
    BY <2>1, PoolsAssumption
      DEF Lookup, IndInv, TypeOK, CallerGoto, callerVars, sweepVars, LostIsOutdated,
      ReplacedDiffers, OwnPool, MappedIsOwned, HeldIsOwned, SweptIsMapped
  <2>2. CASE TouchLastUsed(c)
    BY <2>2, PoolsAssumption
      DEF TouchLastUsed, IndInv, TypeOK, CallerGoto, callerVars, sweepVars, LostIsOutdated,
      ReplacedDiffers, OwnPool, MappedIsOwned, HeldIsOwned, SweptIsMapped
  <2>3. CASE ShutdownBegin(c)
    BY <2>3, PoolsAssumption
      DEF ShutdownBegin, IndInv, TypeOK, CallerGoto, callerVars, sweepVars, LostIsOutdated,
      ReplacedDiffers, OwnPool, MappedIsOwned, HeldIsOwned, SweptIsMapped
  <2>4. CASE ShutdownEnd(c)
    BY <2>4, PoolsAssumption
      DEF ShutdownEnd, IndInv, TypeOK, CallerGoto, callerVars, sweepVars, LostIsOutdated,
      ReplacedDiffers, OwnPool, MappedIsOwned, HeldIsOwned, SweptIsMapped
  <2>5. CASE Delete(c)
    BY <2>5, PoolsAssumption
      DEF Delete, IndInv, TypeOK, CallerGoto, callerVars, sweepVars, LostIsOutdated,
      ReplacedDiffers, OwnPool, MappedIsOwned, HeldIsOwned, SweptIsMapped
  <2>6. CASE Create(c)
    <3>1. CASE pools[want[c]] # NoPool /\ env[pools[want[c]]] = wantEnv[c]
      BY <2>6, <3>1, PoolsAssumption
        DEF Create, IndInv, TypeOK, CallerGoto, callerVars, sweepVars, LostIsOutdated,
           ReplacedDiffers, OwnPool, MappedIsOwned, HeldIsOwned, SweptIsMapped
    <3>2. CASE ~(pools[want[c]] # NoPool /\ env[pools[want[c]]] = wantEnv[c])
      <4>1. want[c] \in Keys /\ NewPoolWithEnv(c, want[c])
            /\ UNCHANGED <<idle, want, wantEnv, gets, sweepVars, pageVars>>
        BY <2>6, <3>2 DEF Create, TypeOK, IndInv
      <4>2. PICK p \in Pools :
                  /\ state[p] = "new"
                  /\ pools' = [pools EXCEPT ![want[c]] = p]
                  /\ state' = [state EXCEPT ![p] = "open"]
                  /\ owner' = [owner EXCEPT ![p] = want[c]]
                  /\ env' = [env EXCEPT ![p] = wantEnv[c]]
                  /\ CallerGoto(c, "have", p)
        BY <4>1, NewPoolIsUnmade
      <4>3. QED
        BY <2>6, <4>1, <4>2, PoolsAssumption
          DEF Create, IndInv, TypeOK, CallerGoto, callerVars, sweepVars, LostIsOutdated,
             ReplacedDiffers, OwnPool, MappedIsOwned, HeldIsOwned, SweptIsMapped
    <3>3. QED BY <3>1, <3>2
  <2>7. CASE Return(c)
    BY <2>7, PoolsAssumption
      DEF Return, IndInv, TypeOK, CallerGoto, callerVars, sweepVars, LostIsOutdated,
      ReplacedDiffers, OwnPool, MappedIsOwned, HeldIsOwned, SweptIsMapped
  <2>8. QED
    BY <1>1, <2>1, <2>2, <2>3, <2>4, <2>5, <2>6, <2>7 DEF CallerStep, CallerRuns
<1>2. ASSUME NEW c \in Callers, NEW k \in Keys, NEW e \in Envs, Get(c, k,
e) PROVE LostIsOutdated'
  BY <1>2, PoolsAssumption
    DEF Get, IndInv, TypeOK, CallerGoto, callerVars, sweepVars, LostIsOutdated,
    ReplacedDiffers, OwnPool, MappedIsOwned, HeldIsOwned, SweptIsMapped
<1>3. ASSUME NEW p \in Pools, IdleTooLong(p) PROVE LostIsOutdated'
  BY <1>3, PoolsAssumption
    DEF IdleTooLong, IndInv, TypeOK, CallerGoto, callerVars, sweepVars, LostIsOutdated,
    ReplacedDiffers, OwnPool, MappedIsOwned, HeldIsOwned, SweptIsMapped
<1>4. ASSUME NEW kind \in Sweeps, NEW b \in Backends, SweepBegin(kind, b) PROVE LostIsOutdated'
  BY <1>4, PoolsAssumption
    DEF SweepBegin, IndInv, TypeOK, CallerGoto, callerVars, sweepVars, LostIsOutdated,
    ReplacedDiffers, OwnPool, MappedIsOwned, HeldIsOwned, SweptIsMapped, Unlocked, Readable,
    AllSweeps
<1>5. CASE SweepStep
  <2>1. ASSUME NEW k \in Keys, SweepVisits(k) PROVE LostIsOutdated'
    BY <2>1, PoolsAssumption
      DEF SweepVisits, IndInv, TypeOK, CallerGoto, callerVars, sweepVars, LostIsOutdated,
      ReplacedDiffers, OwnPool, MappedIsOwned, HeldIsOwned, SweptIsMapped
  <2>2. ASSUME NEW k \in Keys, SweepShuts(k) PROVE LostIsOutdated'
    BY <2>2, PoolsAssumption
      DEF SweepShuts, IndInv, TypeOK, CallerGoto, callerVars, sweepVars, LostIsOutdated,
      ReplacedDiffers, OwnPool, MappedIsOwned, HeldIsOwned, SweptIsMapped
  <2>3. CASE SweepEnd
    BY <2>3, PoolsAssumption
      DEF SweepEnd, IndInv, TypeOK, CallerGoto, callerVars, sweepVars, LostIsOutdated,
      ReplacedDiffers, OwnPool, MappedIsOwned, HeldIsOwned, SweptIsMapped
  <2>4. QED
    BY <1>5, <2>1, <2>2, <2>3 DEF SweepStep, SweepRuns
<1>6. CASE UNCHANGED served
  BY <1>6
    DEF served, IndInv, TypeOK, CallerGoto, callerVars, sweepVars, LostIsOutdated,
    ReplacedDiffers, OwnPool, MappedIsOwned, HeldIsOwned, SweptIsMapped
<1>7. QED
  BY <1>1, <1>2, <1>3, <1>4, <1>5, <1>6, PagesOnlyRead DEF Next

\* Each step keeps MappedIsOpen.
LEMMA OpenStep ==
    ASSUME IndInv, [Next]_vars
    PROVE  MappedIsOpen'
<1>1. ASSUME NEW c \in Callers, CallerStep(c) PROVE MappedIsOpen'
  <2>1. CASE Lookup(c)
    BY <2>1, PoolsAssumption
      DEF Lookup, IndInv, TypeOK, CallerGoto, callerVars, sweepVars, MappedIsOpen,
      MappedIsOwned, HeldIsOwned, SweptIsMapped
  <2>2. CASE TouchLastUsed(c)
    BY <2>2, PoolsAssumption
      DEF TouchLastUsed, IndInv, TypeOK, CallerGoto, callerVars, sweepVars, MappedIsOpen,
      MappedIsOwned, HeldIsOwned, SweptIsMapped
  <2>3. CASE ShutdownBegin(c)
    BY <2>3, PoolsAssumption
      DEF ShutdownBegin, IndInv, TypeOK, CallerGoto, callerVars, sweepVars, MappedIsOpen,
      MappedIsOwned, HeldIsOwned, SweptIsMapped
  <2>4. CASE ShutdownEnd(c)
    BY <2>4, PoolsAssumption
      DEF ShutdownEnd, IndInv, TypeOK, CallerGoto, callerVars, sweepVars, MappedIsOpen,
      MappedIsOwned, HeldIsOwned, SweptIsMapped
  <2>5. CASE Delete(c)
    BY <2>5, PoolsAssumption
      DEF Delete, IndInv, TypeOK, CallerGoto, callerVars, sweepVars, MappedIsOpen,
      MappedIsOwned, HeldIsOwned, SweptIsMapped
  <2>6. CASE Create(c)
    <3>1. CASE pools[want[c]] # NoPool /\ env[pools[want[c]]] = wantEnv[c]
      BY <2>6, <3>1, PoolsAssumption
        DEF Create, IndInv, TypeOK, CallerGoto, callerVars, sweepVars, MappedIsOpen,
           MappedIsOwned, HeldIsOwned, SweptIsMapped
    <3>2. CASE ~(pools[want[c]] # NoPool /\ env[pools[want[c]]] = wantEnv[c])
      <4>1. want[c] \in Keys /\ NewPoolWithEnv(c, want[c])
            /\ UNCHANGED <<idle, want, wantEnv, gets, sweepVars, pageVars>>
        BY <2>6, <3>2 DEF Create, TypeOK, IndInv
      <4>2. PICK p \in Pools :
                  /\ state[p] = "new"
                  /\ pools' = [pools EXCEPT ![want[c]] = p]
                  /\ state' = [state EXCEPT ![p] = "open"]
                  /\ owner' = [owner EXCEPT ![p] = want[c]]
                  /\ env' = [env EXCEPT ![p] = wantEnv[c]]
                  /\ CallerGoto(c, "have", p)
        BY <4>1, NewPoolIsUnmade
      <4>3. QED
        BY <2>6, <4>1, <4>2, PoolsAssumption
          DEF Create, IndInv, TypeOK, CallerGoto, callerVars, sweepVars, MappedIsOpen,
             MappedIsOwned, HeldIsOwned, SweptIsMapped
    <3>3. QED BY <3>1, <3>2
  <2>7. CASE Return(c)
    BY <2>7, PoolsAssumption
      DEF Return, IndInv, TypeOK, CallerGoto, callerVars, sweepVars, MappedIsOpen,
      MappedIsOwned, HeldIsOwned, SweptIsMapped
  <2>8. QED
    BY <1>1, <2>1, <2>2, <2>3, <2>4, <2>5, <2>6, <2>7 DEF CallerStep, CallerRuns
<1>2. ASSUME NEW c \in Callers, NEW k \in Keys, NEW e \in Envs, Get(c, k, e) PROVE MappedIsOpen'
  BY <1>2, PoolsAssumption
    DEF Get, IndInv, TypeOK, CallerGoto, callerVars, sweepVars, MappedIsOpen, MappedIsOwned,
    HeldIsOwned, SweptIsMapped
<1>3. ASSUME NEW p \in Pools, IdleTooLong(p) PROVE MappedIsOpen'
  BY <1>3, PoolsAssumption
    DEF IdleTooLong, IndInv, TypeOK, CallerGoto, callerVars, sweepVars, MappedIsOpen,
    MappedIsOwned, HeldIsOwned, SweptIsMapped
<1>4. ASSUME NEW kind \in Sweeps, NEW b \in Backends, SweepBegin(kind, b) PROVE MappedIsOpen'
  BY <1>4, PoolsAssumption
    DEF SweepBegin, IndInv, TypeOK, CallerGoto, callerVars, sweepVars, MappedIsOpen,
    MappedIsOwned, HeldIsOwned, SweptIsMapped, Unlocked, Readable, AllSweeps
<1>5. CASE SweepStep
  <2>1. ASSUME NEW k \in Keys, SweepVisits(k) PROVE MappedIsOpen'
    BY <2>1, PoolsAssumption
      DEF SweepVisits, IndInv, TypeOK, CallerGoto, callerVars, sweepVars, MappedIsOpen,
      MappedIsOwned, HeldIsOwned, SweptIsMapped
  <2>2. ASSUME NEW k \in Keys, SweepShuts(k) PROVE MappedIsOpen'
    BY <2>2, PoolsAssumption
      DEF SweepShuts, IndInv, TypeOK, CallerGoto, callerVars, sweepVars, MappedIsOpen,
      MappedIsOwned, HeldIsOwned, SweptIsMapped
  <2>3. CASE SweepEnd
    BY <2>3, PoolsAssumption
      DEF SweepEnd, IndInv, TypeOK, CallerGoto, callerVars, sweepVars, MappedIsOpen,
      MappedIsOwned, HeldIsOwned, SweptIsMapped
  <2>4. QED
    BY <1>5, <2>1, <2>2, <2>3 DEF SweepStep, SweepRuns
<1>6. CASE UNCHANGED served
  BY <1>6
    DEF served, IndInv, TypeOK, CallerGoto, callerVars, sweepVars, MappedIsOpen, MappedIsOwned,
    HeldIsOwned, SweptIsMapped
<1>7. QED
  BY <1>1, <1>2, <1>3, <1>4, <1>5, <1>6, PagesOnlyRead DEF Next

\* A manager without pools satisfies the invariant.
LEMMA InitIndInv == Init => IndInv
BY AnyFacts, PoolsAssumption, BoundsAssumption
    DEF Init, IndInv, TypeOK, MappedIsOwned, HeldIsOwned, SweptIsMapped, OwnPool, MappedIsOpen,
        ReplacedDiffers, LostIsOutdated

\* IndInv is an inductive invariant of the manager.
THEOREM ManagerInvariance == Spec => []IndInv
<1>1. Init => IndInv
  BY InitIndInv
<1>2. IndInv /\ [Next]_vars => IndInv'
  BY TypeStep, OwnedStep, SweptStep, OwnPoolStep, OpenStep,
     ReplacedStep, LostStep
    DEF IndInv
<1>3. QED BY <1>1, <1>2, PTL DEF Spec

\* The types hold always.
THEOREM ManagerTypes == Spec => []TypeOK
<1>1. IndInv => TypeOK
  BY DEF IndInv
<1>2. QED BY <1>1, ManagerInvariance, PTL

\* Every request works with a pool of its own user, backend and environment, for
\* any number of requests, pools and sweeps.
THEOREM ManagerOwnPool == Spec => []OwnPool
<1>1. IndInv => OwnPool
  BY DEF IndInv
<1>2. QED BY <1>1, ManagerInvariance, PTL

\* The map never offers a dead pool.
THEOREM ManagerMappedIsOpen == Spec => []MappedIsOpen
<1>1. IndInv => MappedIsOpen
  BY DEF IndInv
<1>2. QED BY <1>1, ManagerInvariance, PTL

\* Only a user whose environment has changed can have an open pool that the map
\* has lost.
THEOREM ManagerLoses == Spec => []LostOnlyToNewEnvironment
<1>1. IndInv => LostOnlyToNewEnvironment
  BY DEF IndInv, LostIsOutdated, LostOnlyToNewEnvironment
<1>2. QED BY <1>1, ManagerInvariance, PTL
=============================================================================
