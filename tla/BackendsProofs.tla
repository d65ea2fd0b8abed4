--------------------------- MODULE BackendsProofs ---------------------------
(***************************************************************************)
(* Safety of a backend's administration for every set of administrators    *)
(* and workers and any number of configurations and restarts.              *)
(***************************************************************************)
EXTENDS Backends, TLAPS

\* The parts of TypeOK: the tables, the flags, the workers, and what else is in the
\* bridge's memory.
TableTypes ==
    /\ row \in Row \cup {None} /\ version \in 0..MaxVersion
    /\ caps \in (0..MaxVersion) \cup {None} /\ (row = None => caps = None /\ status = "none")
    /\ status \in {"none", "available", "unavailable"}

FlagTypes == error \in BOOLEAN /\ tripped \in BOOLEAN /\ late \in BOOLEAN /\ cleared \in BOOLEAN

WorkerTypes ==
    /\ pc \in [Workers -> Counters] /\ kind \in [Workers -> Kinds]
    /\ cfg \in [Workers -> 0..MaxVersion]

MemoryTypes ==
    /\ routes \in 0..MaxVersion /\ pool \in (0..MaxVersion) \cup {None}
    /\ admin \in [Admins -> {"idle", "refresh", "remove"}]
    /\ loop \in {"sleep", "probe", "failed", "available", "clear"}
    /\ restarts \in 0..MaxRestarts

\* A worker that is idle or starts counts as precaching.
WorkersInOrder == \A w \in Workers : pc[w] \in {"idle", "start"} => Precaches(w)

IndInv ==
    /\ TableTypes /\ FlagTypes /\ WorkerTypes /\ MemoryTypes
    /\ WorkersInOrder /\ RoutesFollowTable /\ UncachedIsExplained

\* The parts together are TypeOK.
LEMMA TypeParts == TypeOK <=> TableTypes /\ FlagTypes /\ WorkerTypes /\ MemoryTypes
BY DEF TypeOK, TableTypes, FlagTypes, WorkerTypes, MemoryTypes

\* The tasks and places of a worker that the actions name.
LEMMA PartsOfKinds ==
    /\ {"precache", "list", "reconnect", "cached", "reconnect cached", "refresh"} \subseteq Kinds
    /\ {"idle", "start", "read", "pool", "fetch", "cache"} \subseteq Counters
    /\ {"available", "clear", "unavailable", "failed", "report"} \subseteq Counters
    /\ 0 \in 0..MaxVersion
BY BoundsAssumption DEF Kinds, Counters

\* A worker that goes on in its task keeps the workers' types.
LEMMA GotoTypes ==
    ASSUME WorkerTypes, NEW w \in Workers, NEW to \in Counters, NEW k \in Kinds,
           NEW c \in 0..MaxVersion, WorkerGoto(w, to, k, c)
    PROVE  WorkerTypes'
<1>1. (pc \in [Workers -> Counters])'
  BY DEF WorkerTypes, WorkerGoto
<1>2. (kind \in [Workers -> Kinds])'
  BY PartsOfKinds DEF WorkerTypes, WorkerGoto
<1>3. (cfg \in [Workers -> 0..MaxVersion])'
  BY DEF WorkerTypes, WorkerGoto
<1>4. QED BY <1>1, <1>2, <1>3 DEF WorkerTypes

\* The configuration of the row is a version, or 0 without a row.
LEMMA CurrentType == TableTypes => Current \in 0..MaxVersion
BY NoneAssumption, BoundsAssumption DEF TableTypes, Current, Row, Versions

\* Each step keeps the types of the tables.
LEMMA TableStep ==
    ASSUME IndInv, [Next]_vars
    PROVE  TableTypes'
<1>1. ASSUME NEW a \in Admins, NEW on \in BOOLEAN, Create(a, on) PROVE TableTypes'
  BY <1>1, NoneAssumption, BoundsAssumption
    DEF Create, NewVersion, AdminGoto, backendVars, poolVars, workerVars, IndInv, TableTypes,
      Row, Versions
<1>2. ASSUME NEW a \in Admins, NEW on \in BOOLEAN, Edit(a, on) PROVE TableTypes'
  BY <1>2, NoneAssumption, BoundsAssumption
    DEF Edit, NewVersion, AdminGoto, backendVars, poolVars, workerVars, IndInv, TableTypes, Row,
      Versions
<1>3. ASSUME NEW a \in Admins, Delete(a) PROVE TableTypes'
  BY <1>3, NoneAssumption, BoundsAssumption
    DEF Delete, AdminGoto, backendVars, poolVars, workerVars, IndInv, TableTypes
<1>4. ASSUME NEW a \in Admins, AdminStep(a) PROVE TableTypes'
  <2>1. CASE RefreshPrefixes(a)
    BY <2>1, NoneAssumption, BoundsAssumption
      DEF RefreshPrefixes, AdminGoto, Current, backendVars, poolVars, workerVars, IndInv,
        TableTypes
  <2>2. ASSUME NEW w \in Workers, RemovePoolsByBackend(a, w) PROVE TableTypes'
    BY <2>2, NoneAssumption, BoundsAssumption
      DEF RemovePoolsByBackend, AdminGoto, Shut, backendVars, poolVars, workerVars, IndInv,
        TableTypes
  <2>3. QED BY <1>4, <2>1, <2>2 DEF AdminStep
<1>5. ASSUME NEW w \in Workers \ Listers, RefreshTools(w) PROVE TableTypes'
  BY <1>5, NoneAssumption, BoundsAssumption
    DEF RefreshTools, WorkerGoto, backendVars, poolVars, workerVars, IndInv, TableTypes
<1>6. ASSUME NEW w \in Workers, WorkerStep(w) PROVE TableTypes'
  <2>1. CASE PrecacheStart(w)
    BY <2>1, NoneAssumption, BoundsAssumption
      DEF PrecacheStart, WorkerGoto, End, backendVars, poolVars, workerVars, IndInv, TableTypes
  <2>2. CASE PrecacheFailed(w)
    BY <2>2, NoneAssumption, BoundsAssumption
      DEF PrecacheFailed, SetBackendPrecacheError, WorkerGoto, End, backendVars, poolVars,
        workerVars, IndInv, TableTypes
  <2>3. CASE PrecacheReport(w)
    BY <2>3, NoneAssumption, BoundsAssumption
      DEF PrecacheReport, SetBackendPrecacheError, WorkerGoto, End, backendVars, poolVars,
        workerVars, IndInv, TableTypes
  <2>4. CASE ReadBackend(w)
    BY <2>4, NoneAssumption, BoundsAssumption
      DEF ReadBackend, WorkerGoto, Current, backendVars, poolVars, workerVars, IndInv,
        TableTypes
  <2>5. CASE GetPool(w)
    BY <2>5, NoneAssumption, BoundsAssumption
      DEF GetPool, WorkerGoto, End, Current, backendVars, poolVars, workerVars, IndInv,
        TableTypes
  <2>6. CASE Fetch(w)
    BY <2>6, NoneAssumption, BoundsAssumption
      DEF Fetch, WorkerGoto, End, backendVars, poolVars, workerVars, IndInv, TableTypes
  <2>7. CASE CacheTools(w)
    BY <2>7, NoneAssumption, BoundsAssumption DEF CacheTools, IndInv, TableTypes, WorkerTypes
  <2>8. CASE WorkerAvailable(w)
    BY <2>8, NoneAssumption, BoundsAssumption
      DEF WorkerAvailable, MarkAvailable, WorkerGoto, End, backendVars, poolVars, workerVars,
        IndInv, TableTypes
  <2>9. CASE WorkerClears(w)
    BY <2>9, NoneAssumption, BoundsAssumption
      DEF WorkerClears, ClearError, WorkerGoto, End, backendVars, poolVars, workerVars, IndInv,
        TableTypes
  <2>10. CASE SetBackendUnavailable(w)
    BY <2>10, NoneAssumption, BoundsAssumption
      DEF SetBackendUnavailable, WorkerGoto, End, backendVars, poolVars, workerVars, IndInv,
        TableTypes
  <2>11. QED
    BY <1>6, <2>1, <2>2, <2>3, <2>4, <2>5, <2>6, <2>7, <2>8, <2>9, <2>10
      DEF WorkerStep, WorkerRuns
<1>7. ASSUME NEW w \in Listers, ListTools(w) PROVE TableTypes'
  BY <1>7, NoneAssumption, BoundsAssumption
    DEF ListTools, WorkerGoto, backendVars, poolVars, workerVars, IndInv, TableTypes
<1>8. CASE LoopStep
  <2>1. CASE RetryTick
    BY <2>1, NoneAssumption, BoundsAssumption
      DEF RetryTick, LoopGoto, backendVars, poolVars, workerVars, IndInv, TableTypes
  <2>2. CASE RetryProbe
    BY <2>2, NoneAssumption, BoundsAssumption
      DEF RetryProbe, LoopGoto, backendVars, poolVars, workerVars, IndInv, TableTypes
  <2>3. CASE RetryFails
    BY <2>3, NoneAssumption, BoundsAssumption
      DEF RetryFails, LoopGoto, backendVars, poolVars, workerVars, IndInv, TableTypes
  <2>4. CASE RetryAvailable
    BY <2>4, NoneAssumption, BoundsAssumption
      DEF RetryAvailable, MarkAvailable, LoopGoto, backendVars, poolVars, workerVars, IndInv,
        TableTypes
  <2>5. CASE RetryClears
    BY <2>5, NoneAssumption, BoundsAssumption
      DEF RetryClears, ClearError, LoopGoto, backendVars, poolVars, workerVars, IndInv,
        TableTypes
  <2>6. QED BY <1>8, <2>1, <2>2, <2>3, <2>4, <2>5 DEF LoopStep
<1>9. CASE BreakerOpens
  BY <1>9, NoneAssumption, BoundsAssumption
    DEF BreakerOpens, backendVars, poolVars, workerVars, IndInv, TableTypes
<1>10. CASE Restart
  BY <1>10, NoneAssumption, BoundsAssumption
    DEF Restart, Restarted, Current, backendVars, poolVars, workerVars, IndInv, TableTypes
<1>11. CASE UNCHANGED vars
  BY <1>11 DEF vars, backendVars, poolVars, workerVars, IndInv, TableTypes
<1>12. QED
  BY <1>1, <1>2, <1>3, <1>4, <1>5, <1>6, <1>7, <1>8, <1>9, <1>10, <1>11 DEF Next

\* Each step keeps the flags Boolean.
LEMMA FlagStep ==
    ASSUME IndInv, [Next]_vars
    PROVE  FlagTypes'
<1>1. ASSUME NEW a \in Admins, NEW on \in BOOLEAN, Create(a, on) PROVE FlagTypes'
  BY <1>1 DEF Create, NewVersion, backendVars, poolVars, workerVars, IndInv, FlagTypes
<1>2. ASSUME NEW a \in Admins, NEW on \in BOOLEAN, Edit(a, on) PROVE FlagTypes'
  BY <1>2 DEF Edit, NewVersion, backendVars, poolVars, workerVars, IndInv, FlagTypes
<1>3. ASSUME NEW a \in Admins, Delete(a) PROVE FlagTypes'
  BY <1>3 DEF Delete, backendVars, poolVars, workerVars, IndInv, FlagTypes
<1>4. ASSUME NEW a \in Admins, AdminStep(a) PROVE FlagTypes'
  <2>1. CASE RefreshPrefixes(a)
    BY <2>1 DEF RefreshPrefixes, Current, backendVars, poolVars, workerVars, IndInv, FlagTypes
  <2>2. ASSUME NEW w \in Workers, RemovePoolsByBackend(a, w) PROVE FlagTypes'
    BY <2>2 DEF RemovePoolsByBackend, backendVars, poolVars, workerVars, IndInv, FlagTypes
  <2>3. QED BY <1>4, <2>1, <2>2 DEF AdminStep
<1>5. ASSUME NEW w \in Workers \ Listers, RefreshTools(w) PROVE FlagTypes'
  BY <1>5 DEF RefreshTools, backendVars, poolVars, workerVars, IndInv, FlagTypes
<1>6. ASSUME NEW w \in Workers, WorkerStep(w) PROVE FlagTypes'
  <2>1. CASE PrecacheStart(w)
    BY <2>1 DEF PrecacheStart, backendVars, poolVars, workerVars, IndInv, FlagTypes
  <2>2. CASE PrecacheFailed(w)
    BY <2>2
      DEF PrecacheFailed, SetBackendPrecacheError, backendVars, poolVars, workerVars, IndInv,
        FlagTypes
  <2>3. CASE PrecacheReport(w)
    BY <2>3
      DEF PrecacheReport, SetBackendPrecacheError, backendVars, poolVars, workerVars, IndInv,
        FlagTypes
  <2>4. CASE ReadBackend(w)
    BY <2>4 DEF ReadBackend, Current, backendVars, poolVars, workerVars, IndInv, FlagTypes
  <2>5. CASE GetPool(w)
    BY <2>5 DEF GetPool, Current, backendVars, poolVars, workerVars, IndInv, FlagTypes
  <2>6. CASE Fetch(w)
    BY <2>6 DEF Fetch, backendVars, poolVars, workerVars, IndInv, FlagTypes
  <2>7. CASE CacheTools(w)
    BY <2>7 DEF CacheTools, backendVars, poolVars, workerVars, IndInv, FlagTypes
  <2>8. CASE WorkerAvailable(w)
    BY <2>8
      DEF WorkerAvailable, MarkAvailable, backendVars, poolVars, workerVars, IndInv, FlagTypes
  <2>9. CASE WorkerClears(w)
    BY <2>9 DEF WorkerClears, ClearError, backendVars, poolVars, workerVars, IndInv, FlagTypes
  <2>10. CASE SetBackendUnavailable(w)
    BY <2>10 DEF SetBackendUnavailable, backendVars, poolVars, workerVars, IndInv, FlagTypes
  <2>11. QED
    BY <1>6, <2>1, <2>2, <2>3, <2>4, <2>5, <2>6, <2>7, <2>8, <2>9, <2>10
      DEF WorkerStep, WorkerRuns
<1>7. ASSUME NEW w \in Listers, ListTools(w) PROVE FlagTypes'
  BY <1>7 DEF ListTools, backendVars, poolVars, workerVars, IndInv, FlagTypes
<1>8. CASE LoopStep
  <2>1. CASE RetryTick
    BY <2>1 DEF RetryTick, backendVars, poolVars, workerVars, IndInv, FlagTypes
  <2>2. CASE RetryProbe
    BY <2>2 DEF RetryProbe, backendVars, poolVars, workerVars, IndInv, FlagTypes
  <2>3. CASE RetryFails
    BY <2>3 DEF RetryFails, backendVars, poolVars, workerVars, IndInv, FlagTypes
  <2>4. CASE RetryAvailable
    BY <2>4
      DEF RetryAvailable, MarkAvailable, backendVars, poolVars, workerVars, IndInv, FlagTypes
  <2>5. CASE RetryClears
    BY <2>5 DEF RetryClears, ClearError, backendVars, poolVars, workerVars, IndInv, FlagTypes
  <2>6. QED BY <1>8, <2>1, <2>2, <2>3, <2>4, <2>5 DEF LoopStep
<1>9. CASE BreakerOpens
  BY <1>9 DEF BreakerOpens, backendVars, poolVars, workerVars, IndInv, FlagTypes
<1>10. CASE Restart
  BY <1>10 DEF Restart, Restarted, Current, backendVars, poolVars, workerVars, IndInv, FlagTypes
<1>11. CASE UNCHANGED vars
  BY <1>11 DEF vars, backendVars, poolVars, workerVars, IndInv, FlagTypes
<1>12. QED
  BY <1>1, <1>2, <1>3, <1>4, <1>5, <1>6, <1>7, <1>8, <1>9, <1>10, <1>11 DEF Next

\* Each step keeps the workers' types.
LEMMA WorkerTypesStep ==
    ASSUME IndInv, [Next]_vars
    PROVE  WorkerTypes'
<1>1. ASSUME NEW a \in Admins, NEW on \in BOOLEAN, Create(a, on) PROVE WorkerTypes'
  BY <1>1, PartsOfKinds
    DEF Create, NewVersion, AdminGoto, backendVars, poolVars, workerVars, IndInv, WorkerTypes
<1>2. ASSUME NEW a \in Admins, NEW on \in BOOLEAN, Edit(a, on) PROVE WorkerTypes'
  BY <1>2, PartsOfKinds
    DEF Edit, NewVersion, AdminGoto, backendVars, poolVars, workerVars, IndInv, WorkerTypes
<1>3. ASSUME NEW a \in Admins, Delete(a) PROVE WorkerTypes'
  BY <1>3, PartsOfKinds
    DEF Delete, AdminGoto, backendVars, poolVars, workerVars, IndInv, WorkerTypes
<1>4. ASSUME NEW a \in Admins, AdminStep(a) PROVE WorkerTypes'
  <2>1. CASE RefreshPrefixes(a)
    BY <2>1, PartsOfKinds
      DEF RefreshPrefixes, AdminGoto, Current, backendVars, poolVars, workerVars, IndInv,
        WorkerTypes
  <2>2. ASSUME NEW w \in Workers, RemovePoolsByBackend(a, w) PROVE WorkerTypes'
    BY <2>2, PartsOfKinds
      DEF RemovePoolsByBackend, AdminGoto, Shut, backendVars, poolVars, workerVars, IndInv,
        WorkerTypes
  <2>3. QED BY <1>4, <2>1, <2>2 DEF AdminStep
<1>5. ASSUME NEW w \in Workers \ Listers, RefreshTools(w) PROVE WorkerTypes'
  BY <1>5, GotoTypes, PartsOfKinds DEF RefreshTools, IndInv, WorkerTypes
<1>6. ASSUME NEW w \in Workers, WorkerStep(w) PROVE WorkerTypes'
  <2>1. CASE PrecacheStart(w)
    BY <2>1, GotoTypes, PartsOfKinds, CurrentType
      DEF PrecacheStart, End, IndInv, WorkerTypes, Current
  <2>2. CASE PrecacheFailed(w)
    BY <2>2, GotoTypes, PartsOfKinds
      DEF PrecacheFailed, SetBackendPrecacheError, End, IndInv, WorkerTypes
  <2>3. CASE PrecacheReport(w)
    BY <2>3, GotoTypes, PartsOfKinds
      DEF PrecacheReport, SetBackendPrecacheError, End, IndInv, WorkerTypes
  <2>4. CASE ReadBackend(w)
    BY <2>4, GotoTypes, PartsOfKinds, CurrentType DEF ReadBackend, IndInv, WorkerTypes
  <2>5. CASE GetPool(w)
    <3>1. pool' \in (0..MaxVersion) \cup {None} /\ pool' # None
      BY <2>5, NoneAssumption DEF GetPool, IndInv, WorkerTypes, MemoryTypes
    <3>2. kind[w] \in Kinds
      BY DEF IndInv, WorkerTypes
    <3>3. QED
      BY <2>5, <3>1, <3>2, GotoTypes, PartsOfKinds DEF GetPool, End, IndInv
  <2>6. CASE Fetch(w)
    BY <2>6, GotoTypes, PartsOfKinds DEF Fetch, End, IndInv, WorkerTypes
  <2>7. CASE CacheTools(w)
    BY <2>7, GotoTypes, PartsOfKinds DEF CacheTools, IndInv, WorkerTypes
  <2>8. CASE WorkerAvailable(w)
    BY <2>8, GotoTypes, PartsOfKinds
      DEF WorkerAvailable, MarkAvailable, End, IndInv, WorkerTypes
  <2>9. CASE WorkerClears(w)
    BY <2>9, GotoTypes, PartsOfKinds DEF WorkerClears, ClearError, End, IndInv, WorkerTypes
  <2>10. CASE SetBackendUnavailable(w)
    BY <2>10, GotoTypes, PartsOfKinds DEF SetBackendUnavailable, End, IndInv, WorkerTypes
  <2>11. QED
    BY <1>6, <2>1, <2>2, <2>3, <2>4, <2>5, <2>6, <2>7, <2>8, <2>9, <2>10
      DEF WorkerStep, WorkerRuns
<1>7. ASSUME NEW w \in Listers, ListTools(w) PROVE WorkerTypes'
  BY <1>7, GotoTypes, PartsOfKinds, WorkersAssumption DEF ListTools, IndInv, WorkerTypes
<1>8. CASE LoopStep
  <2>1. CASE RetryTick
    BY <2>1, PartsOfKinds
      DEF RetryTick, LoopGoto, backendVars, poolVars, workerVars, IndInv, WorkerTypes
  <2>2. CASE RetryProbe
    BY <2>2, PartsOfKinds
      DEF RetryProbe, LoopGoto, backendVars, poolVars, workerVars, IndInv, WorkerTypes
  <2>3. CASE RetryFails
    BY <2>3, PartsOfKinds
      DEF RetryFails, LoopGoto, backendVars, poolVars, workerVars, IndInv, WorkerTypes
  <2>4. CASE RetryAvailable
    BY <2>4, PartsOfKinds
      DEF RetryAvailable, MarkAvailable, LoopGoto, backendVars, poolVars, workerVars, IndInv,
        WorkerTypes
  <2>5. CASE RetryClears
    BY <2>5, PartsOfKinds
      DEF RetryClears, ClearError, LoopGoto, backendVars, poolVars, workerVars, IndInv,
        WorkerTypes
  <2>6. QED BY <1>8, <2>1, <2>2, <2>3, <2>4, <2>5 DEF LoopStep
<1>9. CASE BreakerOpens
  BY <1>9, PartsOfKinds DEF BreakerOpens, backendVars, poolVars, workerVars, IndInv, WorkerTypes
<1>10. CASE Restart
  BY <1>10, PartsOfKinds
    DEF Restart, Restarted, Current, backendVars, poolVars, workerVars, IndInv, WorkerTypes
<1>11. CASE UNCHANGED vars
  BY <1>11 DEF vars, backendVars, poolVars, workerVars, IndInv, WorkerTypes
<1>12. QED
  BY <1>1, <1>2, <1>3, <1>4, <1>5, <1>6, <1>7, <1>8, <1>9, <1>10, <1>11 DEF Next

\* Each step keeps the types of what is in the bridge's memory.
LEMMA MemoryStep ==
    ASSUME IndInv, [Next]_vars
    PROVE  MemoryTypes'
<1>1. ASSUME NEW a \in Admins, NEW on \in BOOLEAN, Create(a, on) PROVE MemoryTypes'
  BY <1>1, CurrentType, NoneAssumption, BoundsAssumption
    DEF Create, NewVersion, AdminGoto, backendVars, poolVars, workerVars, IndInv, MemoryTypes
<1>2. ASSUME NEW a \in Admins, NEW on \in BOOLEAN, Edit(a, on) PROVE MemoryTypes'
  BY <1>2, CurrentType, NoneAssumption, BoundsAssumption
    DEF Edit, NewVersion, AdminGoto, backendVars, poolVars, workerVars, IndInv, MemoryTypes
<1>3. ASSUME NEW a \in Admins, Delete(a) PROVE MemoryTypes'
  BY <1>3, CurrentType, NoneAssumption, BoundsAssumption
    DEF Delete, AdminGoto, backendVars, poolVars, workerVars, IndInv, MemoryTypes
<1>4. ASSUME NEW a \in Admins, AdminStep(a) PROVE MemoryTypes'
  <2>1. CASE RefreshPrefixes(a)
    BY <2>1, CurrentType DEF RefreshPrefixes, AdminGoto, poolVars, IndInv, MemoryTypes
  <2>2. ASSUME NEW w \in Workers, RemovePoolsByBackend(a, w) PROVE MemoryTypes'
    BY <2>2, CurrentType, NoneAssumption, BoundsAssumption
      DEF RemovePoolsByBackend, AdminGoto, Shut, backendVars, poolVars, workerVars, IndInv,
        MemoryTypes
  <2>3. QED BY <1>4, <2>1, <2>2 DEF AdminStep
<1>5. ASSUME NEW w \in Workers \ Listers, RefreshTools(w) PROVE MemoryTypes'
  BY <1>5, CurrentType, NoneAssumption, BoundsAssumption
    DEF RefreshTools, WorkerGoto, backendVars, poolVars, workerVars, IndInv, MemoryTypes
<1>6. ASSUME NEW w \in Workers, WorkerStep(w) PROVE MemoryTypes'
  <2>1. CASE PrecacheStart(w)
    BY <2>1, CurrentType, NoneAssumption, BoundsAssumption
      DEF PrecacheStart, WorkerGoto, End, backendVars, poolVars, workerVars, IndInv, MemoryTypes
  <2>2. CASE PrecacheFailed(w)
    BY <2>2, CurrentType, NoneAssumption, BoundsAssumption
      DEF PrecacheFailed, SetBackendPrecacheError, WorkerGoto, End, backendVars, poolVars,
        workerVars, IndInv, MemoryTypes
  <2>3. CASE PrecacheReport(w)
    BY <2>3, CurrentType, NoneAssumption, BoundsAssumption
      DEF PrecacheReport, SetBackendPrecacheError, WorkerGoto, End, backendVars, poolVars,
        workerVars, IndInv, MemoryTypes
  <2>4. CASE ReadBackend(w)
    BY <2>4, CurrentType, NoneAssumption, BoundsAssumption
      DEF ReadBackend, WorkerGoto, backendVars, poolVars, workerVars, IndInv, MemoryTypes
  <2>5. CASE GetPool(w)
    BY <2>5, NoneAssumption, BoundsAssumption DEF GetPool, IndInv, MemoryTypes, WorkerTypes
  <2>6. CASE Fetch(w)
    BY <2>6, CurrentType, NoneAssumption, BoundsAssumption
      DEF Fetch, WorkerGoto, End, backendVars, poolVars, workerVars, IndInv, MemoryTypes
  <2>7. CASE CacheTools(w)
    BY <2>7, CurrentType, NoneAssumption, BoundsAssumption
      DEF CacheTools, WorkerGoto, backendVars, poolVars, workerVars, IndInv, MemoryTypes
  <2>8. CASE WorkerAvailable(w)
    BY <2>8, CurrentType, NoneAssumption, BoundsAssumption
      DEF WorkerAvailable, MarkAvailable, WorkerGoto, End, backendVars, poolVars, workerVars,
        IndInv, MemoryTypes
  <2>9. CASE WorkerClears(w)
    BY <2>9, CurrentType, NoneAssumption, BoundsAssumption
      DEF WorkerClears, ClearError, WorkerGoto, End, backendVars, poolVars, workerVars, IndInv,
        MemoryTypes
  <2>10. CASE SetBackendUnavailable(w)
    BY <2>10, CurrentType, NoneAssumption, BoundsAssumption
      DEF SetBackendUnavailable, WorkerGoto, End, backendVars, poolVars, workerVars, IndInv,
        MemoryTypes
  <2>11. QED
    BY <1>6, <2>1, <2>2, <2>3, <2>4, <2>5, <2>6, <2>7, <2>8, <2>9, <2>10
      DEF WorkerStep, WorkerRuns
<1>7. ASSUME NEW w \in Listers, ListTools(w) PROVE MemoryTypes'
  BY <1>7, CurrentType, NoneAssumption, BoundsAssumption
    DEF ListTools, WorkerGoto, backendVars, poolVars, workerVars, IndInv, MemoryTypes
<1>8. CASE LoopStep
  <2>1. CASE RetryTick
    BY <2>1, CurrentType, NoneAssumption, BoundsAssumption
      DEF RetryTick, LoopGoto, backendVars, poolVars, workerVars, IndInv, MemoryTypes
  <2>2. CASE RetryProbe
    BY <2>2, CurrentType, NoneAssumption, BoundsAssumption
      DEF RetryProbe, LoopGoto, backendVars, poolVars, workerVars, IndInv, MemoryTypes
  <2>3. CASE RetryFails
    BY <2>3, CurrentType, NoneAssumption, BoundsAssumption
      DEF RetryFails, LoopGoto, backendVars, poolVars, workerVars, IndInv, MemoryTypes
  <2>4. CASE RetryAvailable
    BY <2>4, CurrentType, NoneAssumption, BoundsAssumption
      DEF RetryAvailable, MarkAvailable, LoopGoto, backendVars, poolVars, workerVars, IndInv,
        MemoryTypes
  <2>5. CASE RetryClears
    BY <2>5, CurrentType, NoneAssumption, BoundsAssumption
      DEF RetryClears, ClearError, LoopGoto, backendVars, poolVars, workerVars, IndInv,
        MemoryTypes
  <2>6. QED BY <1>8, <2>1, <2>2, <2>3, <2>4, <2>5 DEF LoopStep
<1>9. CASE BreakerOpens
  BY <1>9, CurrentType, NoneAssumption, BoundsAssumption
    DEF BreakerOpens, backendVars, poolVars, workerVars, IndInv, MemoryTypes
<1>10. CASE Restart
  BY <1>10, CurrentType, NoneAssumption, BoundsAssumption
    DEF Restart, Restarted, IndInv, MemoryTypes
<1>11. CASE UNCHANGED vars
  BY <1>11 DEF vars, backendVars, poolVars, workerVars, IndInv, MemoryTypes
<1>12. QED
  BY <1>1, <1>2, <1>3, <1>4, <1>5, <1>6, <1>7, <1>8, <1>9, <1>10, <1>11 DEF Next

\* Each step keeps WorkersInOrder.
LEMMA OrderStep ==
    ASSUME IndInv, [Next]_vars
    PROVE  WorkersInOrder'
<1>1. ASSUME NEW a \in Admins, NEW on \in BOOLEAN, Create(a, on) PROVE WorkersInOrder'
  BY <1>1, WorkersAssumption
    DEF Create, NewVersion, AdminGoto, backendVars, poolVars, workerVars, IndInv, WorkerTypes,
      WorkersInOrder, Precaches
<1>2. ASSUME NEW a \in Admins, NEW on \in BOOLEAN, Edit(a, on) PROVE WorkersInOrder'
  BY <1>2, WorkersAssumption
    DEF Edit, NewVersion, AdminGoto, backendVars, poolVars, workerVars, IndInv, WorkerTypes,
      WorkersInOrder, Precaches
<1>3. ASSUME NEW a \in Admins, Delete(a) PROVE WorkersInOrder'
  BY <1>3, WorkersAssumption
    DEF Delete, AdminGoto, backendVars, poolVars, workerVars, IndInv, WorkerTypes,
      WorkersInOrder, Precaches
<1>4. ASSUME NEW a \in Admins, AdminStep(a) PROVE WorkersInOrder'
  <2>1. CASE RefreshPrefixes(a)
    BY <2>1, WorkersAssumption
      DEF RefreshPrefixes, AdminGoto, Current, backendVars, poolVars, workerVars, IndInv,
        WorkerTypes, WorkersInOrder, Precaches
  <2>2. ASSUME NEW w \in Workers, RemovePoolsByBackend(a, w) PROVE WorkersInOrder'
    BY <2>2, WorkersAssumption
      DEF RemovePoolsByBackend, AdminGoto, Shut, backendVars, poolVars, workerVars, IndInv,
        WorkerTypes, WorkersInOrder, Precaches
  <2>3. QED BY <1>4, <2>1, <2>2 DEF AdminStep
<1>5. ASSUME NEW w \in Workers \ Listers, RefreshTools(w) PROVE WorkersInOrder'
  BY <1>5, WorkersAssumption
    DEF RefreshTools, WorkerGoto, backendVars, poolVars, workerVars, IndInv, WorkerTypes,
      WorkersInOrder, Precaches
<1>6. ASSUME NEW w \in Workers, WorkerStep(w) PROVE WorkersInOrder'
  <2>1. CASE PrecacheStart(w)
    BY <2>1, WorkersAssumption
      DEF PrecacheStart, WorkerGoto, End, backendVars, poolVars, workerVars, IndInv,
        WorkerTypes, WorkersInOrder, Precaches
  <2>2. CASE PrecacheFailed(w)
    BY <2>2, WorkersAssumption
      DEF PrecacheFailed, SetBackendPrecacheError, WorkerGoto, End, backendVars, poolVars,
        workerVars, IndInv, WorkerTypes, WorkersInOrder, Precaches
  <2>3. CASE PrecacheReport(w)
    BY <2>3, WorkersAssumption
      DEF PrecacheReport, SetBackendPrecacheError, WorkerGoto, End, backendVars, poolVars,
        workerVars, IndInv, WorkerTypes, WorkersInOrder, Precaches
  <2>4. CASE ReadBackend(w)
    BY <2>4, WorkersAssumption
      DEF ReadBackend, WorkerGoto, Current, backendVars, poolVars, workerVars, IndInv,
        WorkerTypes, WorkersInOrder, Precaches
  <2>5. CASE GetPool(w)
    BY <2>5, WorkersAssumption
      DEF GetPool, WorkerGoto, End, Current, backendVars, poolVars, workerVars, IndInv,
        WorkerTypes, WorkersInOrder, Precaches
  <2>6. CASE Fetch(w)
    BY <2>6, WorkersAssumption
      DEF Fetch, WorkerGoto, End, backendVars, poolVars, workerVars, IndInv, WorkerTypes,
        WorkersInOrder, Precaches
  <2>7. CASE CacheTools(w)
    BY <2>7, WorkersAssumption
      DEF CacheTools, WorkerGoto, backendVars, poolVars, workerVars, IndInv, WorkerTypes,
        WorkersInOrder, Precaches
  <2>8. CASE WorkerAvailable(w)
    BY <2>8, WorkersAssumption
      DEF WorkerAvailable, MarkAvailable, WorkerGoto, End, backendVars, poolVars, workerVars,
        IndInv, WorkerTypes, WorkersInOrder, Precaches
  <2>9. CASE WorkerClears(w)
    BY <2>9, WorkersAssumption
      DEF WorkerClears, ClearError, WorkerGoto, End, backendVars, poolVars, workerVars, IndInv,
        WorkerTypes, WorkersInOrder, Precaches
  <2>10. CASE SetBackendUnavailable(w)
    BY <2>10, WorkersAssumption
      DEF SetBackendUnavailable, WorkerGoto, End, backendVars, poolVars, workerVars, IndInv,
        WorkerTypes, WorkersInOrder, Precaches
  <2>11. QED
    BY <1>6, <2>1, <2>2, <2>3, <2>4, <2>5, <2>6, <2>7, <2>8, <2>9, <2>10
      DEF WorkerStep, WorkerRuns
<1>7. ASSUME NEW w \in Listers, ListTools(w) PROVE WorkersInOrder'
  BY <1>7, WorkersAssumption
    DEF ListTools, WorkerGoto, backendVars, poolVars, workerVars, IndInv, WorkerTypes,
      WorkersInOrder, Precaches
<1>8. CASE LoopStep
  <2>1. CASE RetryTick
    BY <2>1, WorkersAssumption
      DEF RetryTick, LoopGoto, backendVars, poolVars, workerVars, IndInv, WorkerTypes,
        WorkersInOrder, Precaches
  <2>2. CASE RetryProbe
    BY <2>2, WorkersAssumption
      DEF RetryProbe, LoopGoto, backendVars, poolVars, workerVars, IndInv, WorkerTypes,
        WorkersInOrder, Precaches
  <2>3. CASE RetryFails
    BY <2>3, WorkersAssumption
      DEF RetryFails, LoopGoto, backendVars, poolVars, workerVars, IndInv, WorkerTypes,
        WorkersInOrder, Precaches
  <2>4. CASE RetryAvailable
    BY <2>4, WorkersAssumption
      DEF RetryAvailable, MarkAvailable, LoopGoto, backendVars, poolVars, workerVars, IndInv,
        WorkerTypes, WorkersInOrder, Precaches
  <2>5. CASE RetryClears
    BY <2>5, WorkersAssumption
      DEF RetryClears, ClearError, LoopGoto, backendVars, poolVars, workerVars, IndInv,
        WorkerTypes, WorkersInOrder, Precaches
  <2>6. QED BY <1>8, <2>1, <2>2, <2>3, <2>4, <2>5 DEF LoopStep
<1>9. CASE BreakerOpens
  BY <1>9, WorkersAssumption
    DEF BreakerOpens, backendVars, poolVars, workerVars, IndInv, WorkerTypes, WorkersInOrder,
      Precaches
<1>10. CASE Restart
  BY <1>10, WorkersAssumption
    DEF Restart, Restarted, Current, backendVars, poolVars, workerVars, IndInv, WorkerTypes,
      WorkersInOrder, Precaches
<1>11. CASE UNCHANGED vars
  BY <1>11
    DEF vars, backendVars, poolVars, workerVars, IndInv, WorkerTypes, WorkersInOrder, Precaches
<1>12. QED
  BY <1>1, <1>2, <1>3, <1>4, <1>5, <1>6, <1>7, <1>8, <1>9, <1>10, <1>11 DEF Next

\* Each step keeps RoutesFollowTable.
LEMMA RoutesStep ==
    ASSUME IndInv, [Next]_vars
    PROVE  RoutesFollowTable'
<1>1. ASSUME NEW a \in Admins, NEW on \in BOOLEAN, Create(a, on) PROVE RoutesFollowTable'
  BY <1>1
    DEF Create, NewVersion, AdminGoto, backendVars, poolVars, workerVars, IndInv, MemoryTypes,
      RoutesFollowTable, Current
<1>2. ASSUME NEW a \in Admins, NEW on \in BOOLEAN, Edit(a, on) PROVE RoutesFollowTable'
  BY <1>2
    DEF Edit, NewVersion, AdminGoto, backendVars, poolVars, workerVars, IndInv, MemoryTypes,
      RoutesFollowTable, Current
<1>3. ASSUME NEW a \in Admins, Delete(a) PROVE RoutesFollowTable'
  BY <1>3
    DEF Delete, AdminGoto, backendVars, poolVars, workerVars, IndInv, MemoryTypes,
      RoutesFollowTable, Current
<1>4. ASSUME NEW a \in Admins, AdminStep(a) PROVE RoutesFollowTable'
  <2>1. CASE RefreshPrefixes(a)
    BY <2>1
      DEF RefreshPrefixes, AdminGoto, Current, backendVars, poolVars, workerVars, IndInv,
        MemoryTypes, RoutesFollowTable
  <2>2. ASSUME NEW w \in Workers, RemovePoolsByBackend(a, w) PROVE RoutesFollowTable'
    BY <2>2
      DEF RemovePoolsByBackend, AdminGoto, Shut, backendVars, poolVars, workerVars, IndInv,
        MemoryTypes, RoutesFollowTable, Current
  <2>3. QED BY <1>4, <2>1, <2>2 DEF AdminStep
<1>5. ASSUME NEW w \in Workers \ Listers, RefreshTools(w) PROVE RoutesFollowTable'
  BY <1>5
    DEF RefreshTools, WorkerGoto, backendVars, poolVars, workerVars, IndInv, MemoryTypes,
      RoutesFollowTable, Current
<1>6. ASSUME NEW w \in Workers, WorkerStep(w) PROVE RoutesFollowTable'
  <2>1. CASE PrecacheStart(w)
    BY <2>1
      DEF PrecacheStart, WorkerGoto, End, backendVars, poolVars, workerVars, IndInv,
        MemoryTypes, RoutesFollowTable, Current
  <2>2. CASE PrecacheFailed(w)
    BY <2>2
      DEF PrecacheFailed, SetBackendPrecacheError, WorkerGoto, End, backendVars, poolVars,
        workerVars, IndInv, MemoryTypes, RoutesFollowTable, Current
  <2>3. CASE PrecacheReport(w)
    BY <2>3
      DEF PrecacheReport, SetBackendPrecacheError, WorkerGoto, End, backendVars, poolVars,
        workerVars, IndInv, MemoryTypes, RoutesFollowTable, Current
  <2>4. CASE ReadBackend(w)
    BY <2>4
      DEF ReadBackend, WorkerGoto, Current, backendVars, poolVars, workerVars, IndInv,
        MemoryTypes, RoutesFollowTable
  <2>5. CASE GetPool(w)
    BY <2>5
      DEF GetPool, WorkerGoto, End, Current, backendVars, poolVars, workerVars, IndInv,
        MemoryTypes, RoutesFollowTable
  <2>6. CASE Fetch(w)
    BY <2>6
      DEF Fetch, WorkerGoto, End, backendVars, poolVars, workerVars, IndInv, MemoryTypes,
        RoutesFollowTable, Current
  <2>7. CASE CacheTools(w)
    BY <2>7
      DEF CacheTools, WorkerGoto, backendVars, poolVars, workerVars, IndInv, MemoryTypes,
        RoutesFollowTable, Current
  <2>8. CASE WorkerAvailable(w)
    BY <2>8
      DEF WorkerAvailable, MarkAvailable, WorkerGoto, End, backendVars, poolVars, workerVars,
        IndInv, MemoryTypes, RoutesFollowTable, Current
  <2>9. CASE WorkerClears(w)
    BY <2>9
      DEF WorkerClears, ClearError, WorkerGoto, End, backendVars, poolVars, workerVars, IndInv,
        MemoryTypes, RoutesFollowTable, Current
  <2>10. CASE SetBackendUnavailable(w)
    BY <2>10
      DEF SetBackendUnavailable, WorkerGoto, End, backendVars, poolVars, workerVars, IndInv,
        MemoryTypes, RoutesFollowTable, Current
  <2>11. QED
    BY <1>6, <2>1, <2>2, <2>3, <2>4, <2>5, <2>6, <2>7, <2>8, <2>9, <2>10
      DEF WorkerStep, WorkerRuns
<1>7. ASSUME NEW w \in Listers, ListTools(w) PROVE RoutesFollowTable'
  BY <1>7
    DEF ListTools, WorkerGoto, backendVars, poolVars, workerVars, IndInv, MemoryTypes,
      RoutesFollowTable, Current
<1>8. CASE LoopStep
  <2>1. CASE RetryTick
    BY <2>1
      DEF RetryTick, LoopGoto, backendVars, poolVars, workerVars, IndInv, MemoryTypes,
        RoutesFollowTable, Current
  <2>2. CASE RetryProbe
    BY <2>2
      DEF RetryProbe, LoopGoto, backendVars, poolVars, workerVars, IndInv, MemoryTypes,
        RoutesFollowTable, Current
  <2>3. CASE RetryFails
    BY <2>3
      DEF RetryFails, LoopGoto, backendVars, poolVars, workerVars, IndInv, MemoryTypes,
        RoutesFollowTable, Current
  <2>4. CASE RetryAvailable
    BY <2>4
      DEF RetryAvailable, MarkAvailable, LoopGoto, backendVars, poolVars, workerVars, IndInv,
        MemoryTypes, RoutesFollowTable, Current
  <2>5. CASE RetryClears
    BY <2>5
      DEF RetryClears, ClearError, LoopGoto, backendVars, poolVars, workerVars, IndInv,
        MemoryTypes, RoutesFollowTable, Current
  <2>6. QED BY <1>8, <2>1, <2>2, <2>3, <2>4, <2>5 DEF LoopStep
<1>9. CASE BreakerOpens
  BY <1>9
    DEF BreakerOpens, backendVars, poolVars, workerVars, IndInv, MemoryTypes, RoutesFollowTable,
      Current
<1>10. CASE Restart
  BY <1>10
    DEF Restart, Restarted, Current, backendVars, poolVars, workerVars, IndInv, MemoryTypes,
      RoutesFollowTable
<1>11. CASE UNCHANGED vars
  BY <1>11
    DEF vars, backendVars, poolVars, workerVars, IndInv, MemoryTypes, RoutesFollowTable, Current
<1>12. QED
  BY <1>1, <1>2, <1>3, <1>4, <1>5, <1>6, <1>7, <1>8, <1>9, <1>10, <1>11 DEF Next

\* Each step keeps UncachedIsExplained.
LEMMA ExplainedStep ==
    ASSUME IndInv, [Next]_vars
    PROVE  UncachedIsExplained'
<1>1. ASSUME NEW a \in Admins, NEW on \in BOOLEAN, Create(a, on) PROVE UncachedIsExplained'
  BY <1>1, WorkersAssumption
    DEF Create, NewVersion, AdminGoto, backendVars, poolVars, workerVars, IndInv, TableTypes,
      MemoryTypes, WorkerTypes, WorkersInOrder, UncachedIsExplained, Precaches
<1>2. ASSUME NEW a \in Admins, NEW on \in BOOLEAN, Edit(a, on) PROVE UncachedIsExplained'
  BY <1>2, WorkersAssumption
    DEF Edit, NewVersion, AdminGoto, backendVars, poolVars, workerVars, IndInv, TableTypes,
      MemoryTypes, WorkerTypes, WorkersInOrder, UncachedIsExplained, Precaches
<1>3. ASSUME NEW a \in Admins, Delete(a) PROVE UncachedIsExplained'
  BY <1>3, WorkersAssumption
    DEF Delete, AdminGoto, backendVars, poolVars, workerVars, IndInv, TableTypes, MemoryTypes,
      WorkerTypes, WorkersInOrder, UncachedIsExplained, Precaches
<1>4. ASSUME NEW a \in Admins, AdminStep(a) PROVE UncachedIsExplained'
  <2>1. CASE RefreshPrefixes(a)
    BY <2>1, WorkersAssumption
      DEF RefreshPrefixes, AdminGoto, Current, backendVars, poolVars, workerVars, IndInv,
        TableTypes, MemoryTypes, WorkerTypes, WorkersInOrder, UncachedIsExplained, Precaches
  <2>2. ASSUME NEW w \in Workers, RemovePoolsByBackend(a, w) PROVE UncachedIsExplained'
    BY <2>2, WorkersAssumption
      DEF RemovePoolsByBackend, AdminGoto, Shut, backendVars, poolVars, workerVars, IndInv,
        TableTypes, MemoryTypes, WorkerTypes, WorkersInOrder, UncachedIsExplained, Precaches
  <2>3. QED BY <1>4, <2>1, <2>2 DEF AdminStep
<1>5. ASSUME NEW w \in Workers \ Listers, RefreshTools(w) PROVE UncachedIsExplained'
  BY <1>5, WorkersAssumption
    DEF RefreshTools, WorkerGoto, backendVars, poolVars, workerVars, IndInv, TableTypes,
      MemoryTypes, WorkerTypes, WorkersInOrder, UncachedIsExplained, Precaches
<1>6. ASSUME NEW w \in Workers, WorkerStep(w) PROVE UncachedIsExplained'
  <2>1. CASE PrecacheStart(w)
    BY <2>1, WorkersAssumption
      DEF PrecacheStart, WorkerGoto, End, backendVars, poolVars, workerVars, IndInv, TableTypes,
        MemoryTypes, WorkerTypes, WorkersInOrder, UncachedIsExplained, Precaches
  <2>2. CASE PrecacheFailed(w)
    BY <2>2, WorkersAssumption
      DEF PrecacheFailed, SetBackendPrecacheError, WorkerGoto, End, backendVars, poolVars,
        workerVars, IndInv, TableTypes, MemoryTypes, WorkerTypes, WorkersInOrder,
        UncachedIsExplained, Precaches
  <2>3. CASE PrecacheReport(w)
    BY <2>3, WorkersAssumption
      DEF PrecacheReport, SetBackendPrecacheError, WorkerGoto, End, backendVars, poolVars,
        workerVars, IndInv, TableTypes, MemoryTypes, WorkerTypes, WorkersInOrder,
        UncachedIsExplained, Precaches
  <2>4. CASE ReadBackend(w)
    BY <2>4, WorkersAssumption
      DEF ReadBackend, WorkerGoto, Current, backendVars, poolVars, workerVars, IndInv,
        TableTypes, MemoryTypes, WorkerTypes, WorkersInOrder, UncachedIsExplained, Precaches
  <2>5. CASE GetPool(w)
    BY <2>5, WorkersAssumption
      DEF GetPool, WorkerGoto, End, Current, backendVars, poolVars, workerVars, IndInv,
        TableTypes, MemoryTypes, WorkerTypes, WorkersInOrder, UncachedIsExplained, Precaches
  <2>6. CASE Fetch(w)
    BY <2>6, WorkersAssumption
      DEF Fetch, WorkerGoto, End, backendVars, poolVars, workerVars, IndInv, TableTypes,
        MemoryTypes, WorkerTypes, WorkersInOrder, UncachedIsExplained, Precaches
  <2>7. CASE CacheTools(w)
    BY <2>7, NoneAssumption
      DEF CacheTools, WorkerGoto, IndInv, WorkerTypes, UncachedIsExplained, Precaches
  <2>8. CASE WorkerAvailable(w)
    BY <2>8, WorkersAssumption
      DEF WorkerAvailable, MarkAvailable, WorkerGoto, End, backendVars, poolVars, workerVars,
        IndInv, TableTypes, MemoryTypes, WorkerTypes, WorkersInOrder, UncachedIsExplained,
        Precaches
  <2>9. CASE WorkerClears(w)
    BY <2>9, WorkersAssumption
      DEF WorkerClears, ClearError, WorkerGoto, End, backendVars, poolVars, workerVars, IndInv,
        TableTypes, MemoryTypes, WorkerTypes, WorkersInOrder, UncachedIsExplained, Precaches
  <2>10. CASE SetBackendUnavailable(w)
    BY <2>10, WorkersAssumption
      DEF SetBackendUnavailable, WorkerGoto, End, backendVars, poolVars, workerVars, IndInv,
        TableTypes, MemoryTypes, WorkerTypes, WorkersInOrder, UncachedIsExplained, Precaches
  <2>11. QED
    BY <1>6, <2>1, <2>2, <2>3, <2>4, <2>5, <2>6, <2>7, <2>8, <2>9, <2>10
      DEF WorkerStep, WorkerRuns
<1>7. ASSUME NEW w \in Listers, ListTools(w) PROVE UncachedIsExplained'
  BY <1>7, WorkersAssumption
    DEF ListTools, WorkerGoto, backendVars, poolVars, workerVars, IndInv, TableTypes,
      MemoryTypes, WorkerTypes, WorkersInOrder, UncachedIsExplained, Precaches
<1>8. CASE LoopStep
  <2>1. CASE RetryTick
    BY <2>1, WorkersAssumption
      DEF RetryTick, LoopGoto, backendVars, poolVars, workerVars, IndInv, TableTypes,
        MemoryTypes, WorkerTypes, WorkersInOrder, UncachedIsExplained, Precaches
  <2>2. CASE RetryProbe
    BY <2>2, WorkersAssumption
      DEF RetryProbe, LoopGoto, backendVars, poolVars, workerVars, IndInv, TableTypes,
        MemoryTypes, WorkerTypes, WorkersInOrder, UncachedIsExplained, Precaches
  <2>3. CASE RetryFails
    BY <2>3, WorkersAssumption
      DEF RetryFails, LoopGoto, backendVars, poolVars, workerVars, IndInv, TableTypes,
        MemoryTypes, WorkerTypes, WorkersInOrder, UncachedIsExplained, Precaches
  <2>4. CASE RetryAvailable
    BY <2>4, WorkersAssumption
      DEF RetryAvailable, MarkAvailable, LoopGoto, backendVars, poolVars, workerVars, IndInv,
        TableTypes, MemoryTypes, WorkerTypes, WorkersInOrder, UncachedIsExplained, Precaches
  <2>5. CASE RetryClears
    BY <2>5, WorkersAssumption
      DEF RetryClears, ClearError, LoopGoto, backendVars, poolVars, workerVars, IndInv,
        TableTypes, MemoryTypes, WorkerTypes, WorkersInOrder, UncachedIsExplained, Precaches
  <2>6. QED BY <1>8, <2>1, <2>2, <2>3, <2>4, <2>5 DEF LoopStep
<1>9. CASE BreakerOpens
  BY <1>9, WorkersAssumption
    DEF BreakerOpens, backendVars, poolVars, workerVars, IndInv, TableTypes, MemoryTypes,
      WorkerTypes, WorkersInOrder, UncachedIsExplained, Precaches
<1>10. CASE Restart
  BY <1>10, WorkersAssumption
    DEF Restart, Restarted, Current, backendVars, poolVars, workerVars, IndInv, TableTypes,
      MemoryTypes, WorkerTypes, WorkersInOrder, UncachedIsExplained, Precaches
<1>11. CASE UNCHANGED vars
  BY <1>11
    DEF vars, backendVars, poolVars, workerVars, IndInv, TableTypes, MemoryTypes, WorkerTypes,
      WorkersInOrder, UncachedIsExplained, Precaches
<1>12. QED
  BY <1>1, <1>2, <1>3, <1>4, <1>5, <1>6, <1>7, <1>8, <1>9, <1>10, <1>11 DEF Next

\* The first start, with an empty table, satisfies the invariant.
LEMMA InitIndInv == Init => IndInv
<1>1. SUFFICES ASSUME Init PROVE IndInv
  OBVIOUS
<1>2. TableTypes
  BY <1>1, BoundsAssumption DEF Init, TableTypes
<1>3. WorkerTypes
  BY <1>1, PartsOfKinds DEF Init, WorkerTypes
<1>4. MemoryTypes
  BY <1>1, BoundsAssumption DEF Init, MemoryTypes
<1>5. WorkersInOrder /\ RoutesFollowTable /\ UncachedIsExplained
  BY <1>1 DEF Init, WorkersInOrder, RoutesFollowTable, UncachedIsExplained, Current, Precaches
<1>6. FlagTypes
  BY <1>1 DEF Init, FlagTypes
<1>7. QED BY <1>2, <1>3, <1>4, <1>5, <1>6 DEF IndInv

\* IndInv is an inductive invariant of the administration of a backend.
THEOREM BackendsInvariance == Spec => []IndInv
<1>1. Init => IndInv
  BY InitIndInv
<1>2. IndInv /\ [Next]_vars => IndInv'
  BY TableStep, FlagStep, WorkerTypesStep, MemoryStep, OrderStep, RoutesStep, ExplainedStep
    DEF IndInv
<1>3. QED BY <1>1, <1>2, PTL DEF Spec

\* The types hold always.
THEOREM BackendsTypes == Spec => []TypeOK
<1>1. IndInv => TypeOK
  BY TypeParts DEF IndInv
<1>2. QED BY <1>1, BackendsInvariance, PTL

\* With no administrator between a statement and RefreshPrefixes the prefix map is
\* the table's, however many of them edit at a time.
THEOREM BackendsRoutes == Spec => []RoutesFollowTable
<1>1. IndInv => RoutesFollowTable
  BY DEF IndInv
<1>2. QED BY <1>1, BackendsInvariance, PTL

\* An enabled backend of which no list is cached shows why, or a precache is under
\* way, or its error was cleared by a SetBackendAvailable that came with no list.
THEOREM BackendsExplained == Spec => []UncachedIsExplained
<1>1. IndInv => UncachedIsExplained
  BY DEF IndInv
<1>2. QED BY <1>1, BackendsInvariance, PTL
=============================================================================
