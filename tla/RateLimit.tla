----------------------------- MODULE RateLimit -----------------------------
(***************************************************************************)
(* The rate-limit buckets of one user and one backend                      *)
(* (ratelimit/ratelimit.go): tool calls that consume from the risk and the *)
(* resource bucket, the ticker that refills them every second, the ticker  *)
(* that saves them, the admin pages that reset them or change the          *)
(* configuration, and restarts of the bridge.                              *)
(*                                                                         *)
(* BucketState has no lock: Refill and Consume read and write              *)
(* CurrentLevel and LastRefillAt of a bucket that other goroutines use at  *)
(* the same time.  Each load and each store is a step.  With Interleaved   *)
(* FALSE a goroutine starts only when no other one is in the buckets.      *)
(*                                                                         *)
(* Time is counted in fractions of a second, which Refill drops: it counts *)
(* whole seconds, and LastRefillAt moves to the present.                   *)
(***************************************************************************)
EXTENDS Integers, FiniteSetsExt

CONSTANTS
    Callers,                \* tool calls, each handled by a goroutine
    Ticker,                 \* the goroutine of StartRefillTicker
    Second,                 \* fractions in a second
    Minute,                 \* seconds in a minute
    DefaultConfig,          \* capacity and refill rate of a bucket, per type
    Forms,                  \* configurations an admin may submit
    FormDefaults,           \* what replaces a value that is not positive
    Profiles,               \* safety profiles: cost, risk, impact, source
    InferredCostMultiplier,
    Interleaved,            \* goroutines meet in the buckets
    MaxTime, MaxCalls, MaxAdmin, MaxRestarts, MaxSaves  \* bounds

Types == {"risk", "resource"}
BucketConfigs == [capacity : Nat \ {0}, refillRate : Nat \ {0}]

ASSUME ClockAssumption == Second \in Nat \ {0} /\ Minute \in Nat \ {0}
ASSUME MultiplierAssumption == InferredCostMultiplier \in Nat
ASSUME TickerAssumption == Ticker \notin Callers /\ Interleaved \in BOOLEAN
ASSUME ConfigAssumption ==
    /\ DefaultConfig \in [Types -> BucketConfigs]
    /\ FormDefaults \in [Types -> BucketConfigs]
    /\ Forms \subseteq [Types -> [capacity : Int, refillRate : Int]] /\ IsFiniteSet(Forms)
\* The costs are the 1 to 10 of SafetyProfile and what the heuristics make of them.
ASSUME ProfilesAssumption == Profiles # {} /\ \A p \in Profiles : p.cost \in Nat
ASSUME BoundAssumption == MaxTime \in Nat

VARIABLES
    config,     \* BucketManager.config for this backend
    exists,     \* the buckets created so far
    level, last, capacity, refillRate,  \* the fields of each BucketState
    pc, bucket, reg,   \* program counter, bucket and register of each goroutine
    profile,    \* the profile of each call
    todo,       \* buckets the refill ticker has still to visit
    beat,       \* time since the refill ticker's channel fired
    ticked,     \* the refill ticker has run since then
    saving,     \* snapshot the save goroutine has still to store
    db,         \* rate_limit_states: bucket type -> saved level and time
    now, calls, admin, restarts, saves,
    granted,    \* units taken from each bucket
    credit,     \* units put into it other than by Refill
    base, since \* level and time when the bucket was last taken from or set

fields == <<level, last, capacity, refillRate>>
ghosts == <<granted, credit, base, since>>
control == <<pc, bucket, reg, profile>>
ticker == <<beat, ticked>>
saved == <<saving, db>>
counters == <<calls, admin, restarts, saves>>
vars == <<config, exists, fields, control, todo, ticker, saved, now, counters, ghosts>>

Goroutines == Callers \cup {Ticker}
States == [level : Int, last : Nat, granted : Nat]

TypeOK ==
    /\ config \in [Types -> BucketConfigs] /\ exists \in SUBSET Types
    /\ level \in [Types -> Int] /\ last \in [Types -> Nat]
    /\ capacity \in [Types -> Nat] /\ refillRate \in [Types -> Nat]
    /\ pc \in [Goroutines -> {"idle", "refill", "credit", "stamp", "check", "take", "put"}]
    /\ bucket \in [Goroutines -> Types] /\ reg \in [Goroutines -> Int]
    /\ profile \in [Callers -> Profiles]
    /\ todo \subseteq exists /\ ticked \in BOOLEAN /\ beat \in 0..(Second - 1)
    /\ DOMAIN saving \subseteq exists /\ DOMAIN db \subseteq Types
    /\ \A t \in DOMAIN db : db[t] \in States
    /\ now \in 0..MaxTime
    /\ granted \in [Types -> Nat] /\ credit \in [Types -> Nat]
    /\ base \in [Types -> Int] /\ since \in [Types -> Nat]

Zero == [t \in Types |-> 0]
Nothing == [t \in {} |-> 0]

Init ==
    /\ config = DefaultConfig /\ exists = {}
    /\ level = Zero /\ last = Zero /\ capacity = Zero /\ refillRate = Zero
    /\ pc = [g \in Goroutines |-> "idle"] /\ bucket = [g \in Goroutines |-> "risk"]
    /\ reg = [g \in Goroutines |-> 0]
    /\ profile = [c \in Callers |-> CHOOSE p \in Profiles : TRUE]
    /\ todo = {} /\ beat = 0 /\ ticked = TRUE /\ saving = Nothing /\ db = Nothing
    /\ now = 0 /\ calls = 0 /\ admin = 0 /\ restarts = 0 /\ saves = 0
    /\ granted = Zero /\ credit = Zero /\ base = Zero /\ since = Zero

(***************************************************************************)
(* Costs.                                                                  *)
(***************************************************************************)

GetRiskMultiplier(risk) ==
    CASE risk = "low" -> 1 [] risk = "med" -> 2 [] risk = "high" -> 4 [] OTHER -> 1

IsRiskScoped(impact) == impact \in {"write", "delete"}

\* CalculateCost, and the factor HandleToolCall applies to inferred profiles.
Cost(p, t) ==
    LET factor == IF p.source = "inferred" /\ InferredCostMultiplier > 1
                  THEN InferredCostMultiplier ELSE 1
    IN  factor * (IF t = "resource" THEN p.cost
                  ELSE IF IsRiskScoped(p.impact) THEN p.cost * GetRiskMultiplier(p.risk)
                  ELSE 0)

(***************************************************************************)
(* Refill, Consume and CheckAndConsume.                                    *)
(***************************************************************************)

AllIdle == \A g \in Goroutines : pc[g] = "idle"

Free(g) == Interleaved \/ \A o \in Goroutines \ {g} : pc[o] = "idle"

\* The bucket is taken from or set: what RefillKeepsUp counts from.
Touch(t, new) ==
    /\ base' = [base EXCEPT ![t] = new]
    /\ since' = [since EXCEPT ![t] = now]

\* GetOrCreate: a missing bucket is created full, with the configuration of
\* this moment.
GetOrCreate(T) ==
    LET fresh == T \ exists IN
    /\ exists' = exists \cup T
    /\ capacity' = [t \in Types |-> IF t \in fresh THEN config[t].capacity ELSE capacity[t]]
    /\ refillRate' = [t \in Types |->
                         IF t \in fresh THEN config[t].refillRate ELSE refillRate[t]]
    /\ level' = [t \in Types |-> IF t \in fresh THEN config[t].capacity ELSE level[t]]
    /\ last' = [t \in Types |-> IF t \in fresh THEN now ELSE last[t]]
    /\ credit' = [t \in Types |->
                     IF t \in fresh THEN credit[t] + config[t].capacity ELSE credit[t]]
    /\ base' = [t \in Types |-> IF t \in fresh THEN config[t].capacity ELSE base[t]]
    /\ since' = [t \in Types |-> IF t \in fresh THEN now ELSE since[t]]

\* CheckAndConsume finds both buckets and starts with the risk bucket.
CheckAndConsume(c, p) ==
    /\ pc[c] = "idle" /\ calls < MaxCalls /\ Free(c)
    /\ calls' = calls + 1
    /\ profile' = [profile EXCEPT ![c] = p]
    /\ GetOrCreate(Types)
    /\ pc' = [pc EXCEPT ![c] = "refill"] /\ bucket' = [bucket EXCEPT ![c] = "risk"]
    /\ UNCHANGED <<config, reg, todo, ticker, saved, now, admin, restarts,
                   saves, granted>>

\* int(elapsed.Seconds()) * RefillRate / 60
Units(t) == (((now - last[t]) \div Second) * refillRate[t]) \div Minute

\* What follows Refill: a call checks the level, the ticker takes the next bucket.
AfterRefill(g) == IF g = Ticker THEN "idle" ELSE "check"

\* Mutant: LastRefillAt moves on although nothing was credited.
RefillReadMutant(g) ==
    /\ pc[g] = "refill"
    /\ reg' = [reg EXCEPT ![g] = Min({capacity[bucket[g]],
                                      level[bucket[g]] + Units(bucket[g])})]
    /\ pc' = [pc EXCEPT ![g] = "credit"]
    /\ UNCHANGED <<config, exists, fields, bucket, profile, todo, ticker,
                   saved, now, counters, ghosts>>

\* Refill: the time since the last refill, and the level it leads to.
RefillRead(g) ==
    /\ pc[g] = "refill"
    /\ LET t == bucket[g] IN
       IF Units(t) > 0
       THEN /\ reg' = [reg EXCEPT ![g] = Min({capacity[t], level[t] + Units(t)})]
            /\ pc' = [pc EXCEPT ![g] = "credit"]
       ELSE /\ pc' = [pc EXCEPT ![g] = AfterRefill(g)] /\ UNCHANGED reg
    /\ UNCHANGED <<config, exists, fields, bucket, profile, todo, ticker,
                   saved, now, counters, ghosts>>

RefillCredit(g) ==
    /\ pc[g] = "credit"
    /\ level' = [level EXCEPT ![bucket[g]] = reg[g]] /\ reg' = [reg EXCEPT ![g] = 0]
    /\ pc' = [pc EXCEPT ![g] = "stamp"]
    /\ UNCHANGED <<config, exists, last, capacity, refillRate, bucket, profile,
                   todo, ticker, saved, now, counters, ghosts>>

\* Mutant: LastRefillAt is not set.
RefillStampMutant(g) ==
    /\ pc[g] = "stamp"
    /\ pc' = [pc EXCEPT ![g] = AfterRefill(g)]
    /\ UNCHANGED <<config, exists, fields, bucket, reg, profile,
                   todo, ticker, saved, now, counters, ghosts>>

RefillStamp(g) ==
    /\ pc[g] = "stamp"
    /\ last' = [last EXCEPT ![bucket[g]] = now]
    /\ pc' = [pc EXCEPT ![g] = AfterRefill(g)]
    /\ UNCHANGED <<config, exists, level, capacity, refillRate, bucket, reg, profile,
                   todo, ticker, saved, now, counters, ghosts>>

\* Consume is done with a bucket, whatever it said: on to the resource bucket,
\* or the call is decided.  A refusal by one bucket returns nothing to the other.
NextBucket(c) ==
    /\ bucket' = [bucket EXCEPT ![c] = "resource"]
    /\ pc' = [pc EXCEPT ![c] = IF bucket[c] = "risk" THEN "refill" ELSE "idle"]

CanConsume(c) ==
    /\ pc[c] = "check"
    /\ IF level[bucket[c]] >= Cost(profile[c], bucket[c])
       THEN pc' = [pc EXCEPT ![c] = "take"] /\ UNCHANGED bucket
       ELSE NextBucket(c)
    /\ UNCHANGED <<config, exists, fields, reg, profile, todo, ticker, saved, now,
                   counters, ghosts>>

\* CurrentLevel -= cost: the load ...
Load(c) ==
    /\ pc[c] = "take"
    /\ reg' = [reg EXCEPT ![c] = level[bucket[c]] - Cost(profile[c], bucket[c])]
    /\ pc' = [pc EXCEPT ![c] = "put"]
    /\ UNCHANGED <<config, exists, fields, bucket, profile, todo, ticker,
                   saved, now, counters, ghosts>>

\* ... and the store.
Store(c) ==
    /\ pc[c] = "put"
    /\ level' = [level EXCEPT ![bucket[c]] = reg[c]] /\ reg' = [reg EXCEPT ![c] = 0]
    /\ granted' = [granted EXCEPT ![bucket[c]] = @ + Cost(profile[c], bucket[c])]
    /\ Touch(bucket[c], reg[c])
    /\ NextBucket(c)
    /\ UNCHANGED <<config, exists, last, capacity, refillRate, profile, todo, ticker,
                   saved, now, counters, credit>>

(***************************************************************************)
(* The tickers, the admin pages, time and restarts.                        *)
(***************************************************************************)

\* RefillAll, once a second: copy the buckets, then refill one after another.
RefillAll ==
    /\ ~ticked /\ pc[Ticker] = "idle" /\ Free(Ticker)
    /\ ticked' = TRUE /\ todo' = exists
    /\ UNCHANGED <<config, exists, fields, control, beat, saved, now, counters, ghosts>>

RefillNext(t) ==
    /\ t \in todo /\ pc[Ticker] = "idle" /\ Free(Ticker)
    /\ todo' = todo \ {t}
    /\ pc' = [pc EXCEPT ![Ticker] = "refill"] /\ bucket' = [bucket EXCEPT ![Ticker] = t]
    /\ UNCHANGED <<config, exists, fields, reg, profile, ticker, saved, now,
                   counters, ghosts>>

\* SaveRateLimitStates: a snapshot of every bucket ...
GetAllStates ==
    /\ saves < MaxSaves /\ saves' = saves + 1
    /\ DOMAIN saving = {} /\ exists # {} /\ (Interleaved \/ AllIdle)
    /\ saving' = [t \in exists |->
                     [level |-> level[t], last |-> last[t], granted |-> granted[t]]]
    /\ UNCHANGED <<config, exists, fields, control, todo, ticker, db, now, calls, admin,
                   restarts, ghosts>>

\* ... stored row by row.
UpsertRateLimitState(t) ==
    /\ t \in DOMAIN saving
    /\ db' = [u \in DOMAIN db \cup {t} |-> IF u = t THEN saving[t] ELSE db[u]]
    /\ saving' = [u \in DOMAIN saving \ {t} |-> saving[u]]
    /\ UNCHANGED <<config, exists, fields, control, todo, ticker, now, counters, ghosts>>

\* The admin page refills every bucket of the user.
ResetUserBuckets ==
    /\ admin < MaxAdmin /\ admin' = admin + 1
    /\ exists # {} /\ (Interleaved \/ AllIdle)
    /\ level' = [t \in Types |-> IF t \in exists THEN capacity[t] ELSE level[t]]
    /\ last' = [t \in Types |-> IF t \in exists THEN now ELSE last[t]]
    /\ credit' = [t \in Types |->
                     IF t \in exists /\ level[t] < capacity[t]
                     THEN credit[t] + capacity[t] - level[t] ELSE credit[t]]
    /\ base' = [t \in Types |-> IF t \in exists THEN capacity[t] ELSE base[t]]
    /\ since' = [t \in Types |-> IF t \in exists THEN now ELSE since[t]]
    /\ UNCHANGED <<config, exists, capacity, refillRate, control, todo, ticker, saved, now,
                   calls, restarts, saves, granted>>

\* Mutant: the values of the form are taken as they are.
UpdateRateLimitConfigMutant(form) ==
    /\ admin < MaxAdmin /\ admin' = admin + 1
    /\ config' = form
    /\ UNCHANGED <<exists, fields, control, todo, ticker, saved, now, calls, restarts,
                   saves, ghosts>>

\* The admin page changes the configuration; buckets that exist keep theirs.
UpdateRateLimitConfig(form) ==
    /\ admin < MaxAdmin /\ admin' = admin + 1
    /\ config' = [t \in Types |->
                     [capacity |-> IF form[t].capacity <= 0
                                   THEN FormDefaults[t].capacity ELSE form[t].capacity,
                      refillRate |-> IF form[t].refillRate <= 0
                                     THEN FormDefaults[t].refillRate
                                     ELSE form[t].refillRate]]
    /\ UNCHANGED <<exists, fields, control, todo, ticker, saved, now, calls, restarts,
                   saves, ghosts>>

\* Time passes, none of it while a goroutine is in the buckets.  The ticker's
\* channel fires every second; RefillAll follows before it fires again.
Tick ==
    /\ now < MaxTime /\ now' = now + 1
    /\ AllIdle
    /\ IF beat < Second - 1
       THEN beat' = beat + 1 /\ UNCHANGED ticked
       ELSE ticked /\ todo = {} /\ beat' = 0 /\ ticked' = FALSE
    /\ UNCHANGED <<config, exists, fields, control, todo, saved, counters, ghosts>>

\* The bridge stops without saving and starts again: LoadStates creates the
\* saved buckets from the default configuration and sets level and time.
LoadStates ==
    /\ restarts < MaxRestarts /\ restarts' = restarts + 1
    /\ config' = DefaultConfig /\ exists' = DOMAIN db
    /\ level' = [t \in Types |-> IF t \in DOMAIN db THEN db[t].level ELSE 0]
    /\ last' = [t \in Types |-> IF t \in DOMAIN db THEN db[t].last ELSE 0]
    /\ capacity' = [t \in Types |-> IF t \in DOMAIN db THEN DefaultConfig[t].capacity ELSE 0]
    /\ refillRate' = [t \in Types |->
                         IF t \in DOMAIN db THEN DefaultConfig[t].refillRate ELSE 0]
    /\ pc' = [g \in Goroutines |-> "idle"] /\ saving' = Nothing
    /\ todo' = {} /\ beat' = 0 /\ ticked' = TRUE
    \* consumption after the snapshot is forgotten
    /\ credit' = [t \in Types |->
                     IF t \in DOMAIN db THEN credit[t] + granted[t] - db[t].granted
                     ELSE credit[t]]
    /\ base' = level' /\ since' = [t \in Types |-> now]
    /\ UNCHANGED <<bucket, reg, profile, db, now, calls, admin,
                   saves, granted>>

RefillStep(g) == RefillRead(g) \/ RefillCredit(g) \/ RefillStamp(g)

Next ==
    \/ \E g \in Goroutines : RefillStep(g)
    \/ \E c \in Callers :
          \/ \E p \in Profiles : CheckAndConsume(c, p)
          \/ CanConsume(c) \/ Load(c) \/ Store(c)
    \/ RefillAll \/ GetAllStates
    \/ \E t \in Types : RefillNext(t) \/ UpsertRateLimitState(t)
    \/ ResetUserBuckets \/ (\E form \in Forms : UpdateRateLimitConfig(form))
    \/ Tick \/ LoadStates

Spec == Init /\ [][Next]_vars

(***************************************************************************)
(* Properties.                                                             *)
(***************************************************************************)

MaxRate(t) == Max({DefaultConfig[t].refillRate, FormDefaults[t].refillRate}
                      \cup {form[t].refillRate : form \in Forms})

\* What calls take from a bucket is covered by its capacity, by resets, by what
\* a restart forgot and by refills at no more than the configured rate: the
\* ticker, the refill in Consume and the refill after a restart never credit
\* the same second twice.
WithinBudget ==
    \A t \in Types : granted[t] <= credit[t] + (MaxRate(t) * now) \div (Minute * Second)

\* Whole seconds for which Refill credits something.
WholeSeconds(rate) == (Minute + rate - 1) \div rate

\* Refill drops fractions, of a second and of a unit, each time it credits
\* something, and it is up to a call or the ticker to run it.  Still a bucket
\* below its capacity gains a unit every ceil(60 / rate) + 2 seconds, however
\* often Refill runs in between: one of the two is lost to the fraction of a
\* second, the other to a ticker that is late.
RefillKeepsUp ==
    \A t \in exists :
        LET period == Second * (WholeSeconds(refillRate[t]) + 2)
        IN  level[t] >= Min({capacity[t], base[t] + ((now - since[t]) \div period)})
=============================================================================
