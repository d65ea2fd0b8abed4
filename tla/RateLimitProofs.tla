--------------------------- MODULE RateLimitProofs ---------------------------
(***************************************************************************)
(* The rate-limit buckets, for any number of calls, any configuration, any *)
(* costs and any grain of the clock: their   types however goroutines meet *)
(* in them, and the two promises of Refill where they do not meet.         *)
(***************************************************************************)
EXTENDS RateLimit, TLAPS, FiniteSetTheorems, WellFoundedInduction

\* The parts of TypeOK, with what snapshots are.
FieldsOK ==
    /\ config \in [Types -> BucketConfigs] /\ exists \in SUBSET Types
    /\ level \in [Types -> Int] /\ last \in [Types -> Nat]
    /\ capacity \in [Types -> Nat] /\ refillRate \in [Types -> Nat]
    /\ now \in 0..MaxTime

ControlOK ==
    /\ pc \in [Goroutines -> {"idle", "refill", "credit", "stamp", "check", "take", "put"}]
    /\ bucket \in [Goroutines -> Types] /\ reg \in [Goroutines -> Int]
    /\ profile \in [Callers -> Profiles]
    /\ todo \subseteq exists /\ ticked \in BOOLEAN /\ beat \in 0..(Second - 1)

GhostsOK ==
    /\ granted \in [Types -> Nat] /\ credit \in [Types -> Nat]
    /\ base \in [Types -> Int] /\ since \in [Types -> Nat]

\* A snapshot was taken of a bucket that has given no less since.
SavedOK ==
    /\ DOMAIN saving \subseteq exists /\ DOMAIN db \subseteq Types
    /\ \A t \in DOMAIN saving : saving[t] \in States /\ saving[t].granted <= granted[t]
    /\ \A t \in DOMAIN db : db[t] \in States /\ db[t].granted <= granted[t]

TypeInv == FieldsOK /\ ControlOK /\ GhostsOK /\ SavedOK

-----------------------------------------------------------------------------
(* Facts about numbers, costs and rates.                                   *)

\* Rounding down.
LEMMA DivBound ==
    ASSUME NEW a \in Int, NEW m \in Nat \ {0}
    PROVE  a \div m \in Int /\ m * (a \div m) <= a /\ a < m * (a \div m) + m
OBVIOUS

\* A common factor can be cancelled.
LEMMA TimesLess ==
    ASSUME NEW q \in Int, NEW r \in Int, NEW m \in Nat \ {0}, m * q < m * r
    PROVE  q < r
OBVIOUS

\* Two amounts that are rounded down apart are no more than when rounded together.
LEMMA DivAdd ==
    ASSUME NEW a \in Int, NEW b \in Int, NEW m \in Nat \ {0}
    PROVE  (a \div m) + (b \div m) <= (a + b) \div m
<1> DEFINE q == a \div m
           r == b \div m
           s == (a + b) \div m
<1>1. /\ q \in Int /\ r \in Int /\ s \in Int
      /\ m * q <= a /\ m * r <= b /\ a + b < m * s + m
  BY DivBound
<1> HIDE DEF q, r, s
<1>2. m * (q + r) < m * (s + 1)
  BY <1>1
<1>3. q + r < s + 1
  BY <1>1, <1>2, TimesLess
<1>4. q + r <= s
  BY <1>1, <1>3
<1>5. QED BY <1>4 DEF q, r, s

\* What is more stays no less when rounded down.
LEMMA DivMono ==
    ASSUME NEW a \in Int, NEW b \in Int, NEW m \in Nat \ {0}, a <= b
    PROVE  a \div m <= b \div m
OBVIOUS

\* The lesser of two numbers.
LEMMA MinTwo ==
    ASSUME NEW a \in Int, NEW b \in Int
    PROVE  Min({a, b}) = IF a <= b THEN a ELSE b
BY DEF Min

\* A set of numbers has a least element.
LEMMA LeastNumber ==
    ASSUME NEW S, S \subseteq Nat, S # {}
    PROVE  \E n \in S : \A m \in S : n <= m
<1>1. PICK n \in S : \A m \in S : <<m, n>> \notin OpToRel(<, Nat)
  BY NatLessThanWellFounded, WFMin, Zenon
<1>2. ASSUME NEW m \in S PROVE n <= m
  <2>1. ~(m < n)
    BY <1>1, Zenon DEF OpToRel
  <2>2. QED BY <2>1
<1>3. QED BY <1>2

\* A finite set of integers has a greatest element: of the sets that had none, one with
\* the fewest elements would have one once an element is taken away.
LEMMA GreatestNumber ==
    ASSUME NEW S, S \subseteq Int, S # {}, IsFiniteSet(S)
    PROVE  \E n \in S : \A m \in S : n >= m
<1> DEFINE Greatest(T) == \E n \in T : \A m \in T : n >= m
           Bad == {n \in Nat : \E T \in SUBSET Int : IsFiniteSet(T) /\ T # {}
                                    /\ Cardinality(T) = n /\ ~Greatest(T)}
<1>1. SUFFICES ASSUME ~Greatest(S) PROVE FALSE
  OBVIOUS
<1>2. Cardinality(S) \in Bad
  BY <1>1, FS_CardinalityType
<1>3. PICK n \in Bad : \A m \in Bad : n <= m
  BY <1>2, LeastNumber
<1>4. PICK T \in SUBSET Int : IsFiniteSet(T) /\ T # {} /\ Cardinality(T) = n /\ ~Greatest(T)
  BY <1>3
<1>5. PICK x \in T : TRUE
  BY <1>4
<1>6. /\ IsFiniteSet(T \ {x}) /\ Cardinality(T \ {x}) = n - 1
      /\ Cardinality(T \ {x}) \in Nat
  BY <1>4, <1>5, FS_RemoveElement, FS_CardinalityType
<1>7. Greatest(T \ {x}) \/ T \ {x} = {}
  <2>1. n - 1 \notin Bad
    BY <1>3
  <2>2. QED BY <1>6, <2>1
<1>8. CASE T \ {x} = {}
  <2>1. T = {x} /\ x \in Int
    BY <1>5, <1>8
  <2>2. QED BY <1>4, <2>1
<1>9. CASE Greatest(T \ {x})
  <2>1. PICK y \in T \ {x} : \A m \in T \ {x} : y >= m
    BY <1>9
  <2>2. x \in Int /\ y \in Int /\ \A m \in T : m \in Int
    BY <1>4, <1>5, <2>1
  <2>3. CASE x >= y
    <3>1. \A m \in T : x >= m
      BY <2>1, <2>2, <2>3
    <3>2. QED BY <1>4, <1>5, <3>1
  <2>4. CASE y >= x
    <3>1. \A m \in T : y >= m
      BY <2>1, <2>2, <2>4
    <3>2. QED BY <1>4, <2>1, <3>1
  <2>5. QED BY <2>2, <2>3, <2>4
<1>10. QED BY <1>7, <1>8, <1>9

\* MaxRate bounds the rates that a bucket can be created with.
LEMMA MaxRateFacts ==
    ASSUME NEW t \in Types
    PROVE  /\ MaxRate(t) \in Nat
           /\ DefaultConfig[t].refillRate <= MaxRate(t)
           /\ FormDefaults[t].refillRate <= MaxRate(t)
           /\ \A form \in Forms : form[t].refillRate <= MaxRate(t)
<1> DEFINE submitted == {form[t].refillRate : form \in Forms}
           rates == {DefaultConfig[t].refillRate, FormDefaults[t].refillRate} \cup submitted
<1>1. /\ DefaultConfig[t].refillRate \in Nat \ {0} /\ FormDefaults[t].refillRate \in Nat \ {0}
      /\ \A form \in Forms : form[t].refillRate \in Int
  BY ConfigAssumption DEF BucketConfigs
<1>2. IsFiniteSet(submitted)
  <2> DEFINE f == [form \in Forms |-> form[t].refillRate]
  <2>1. f \in Surjection(Forms, submitted)
    BY DEF Surjection
  <2>2. QED BY <2>1, FS_Surjection, ConfigAssumption
<1>3. IsFiniteSet(rates)
  <2>1. IsFiniteSet(submitted \cup {DefaultConfig[t].refillRate})
    BY <1>2, FS_AddElement
  <2>2. IsFiniteSet((submitted \cup {DefaultConfig[t].refillRate})
                       \cup {FormDefaults[t].refillRate})
    BY <2>1, FS_AddElement
  <2>3. (submitted \cup {DefaultConfig[t].refillRate}) \cup {FormDefaults[t].refillRate} = rates
    OBVIOUS
  <2>4. QED BY <2>2, <2>3
<1>4. rates \subseteq Int /\ rates # {}
  BY <1>1
<1>5. MaxRate(t) = Max(rates)
  BY DEF MaxRate
<1>6. DefaultConfig[t].refillRate \in rates /\ FormDefaults[t].refillRate \in rates
      /\ \A form \in Forms : form[t].refillRate \in rates
  OBVIOUS
<1> HIDE DEF rates
<1>7. Max(rates) \in rates /\ \A y \in rates : Max(rates) >= y
  BY <1>3, <1>4, GreatestNumber DEF Max
<1>8. \A y \in rates : y \in Int /\ y <= MaxRate(t) /\ MaxRate(t) \in Int
  BY <1>4, <1>5, <1>7
<1>9. MaxRate(t) \in Nat
  BY <1>1, <1>6, <1>8
<1>10. QED BY <1>6, <1>8, <1>9

\* A call takes no negative amount.
LEMMA CostFacts ==
    ASSUME NEW p \in Profiles, NEW t \in Types
    PROVE  Cost(p, t) \in Nat
<1> DEFINE factor == IF p.source = "inferred" /\ InferredCostMultiplier > 1
                     THEN InferredCostMultiplier ELSE 1
           amount == IF t = "resource" THEN p.cost
                     ELSE IF IsRiskScoped(p.impact) THEN p.cost * GetRiskMultiplier(p.risk)
                     ELSE 0
<1>1. factor \in Nat
  BY MultiplierAssumption
<1>2. GetRiskMultiplier(p.risk) \in Nat
  BY DEF GetRiskMultiplier
<1>3. p.cost * GetRiskMultiplier(p.risk) \in Nat
  BY <1>2, ProfilesAssumption
<1>4. amount \in Nat
  BY <1>3, ProfilesAssumption
<1>5. Cost(p, t) = factor * amount
  BY DEF Cost
<1> HIDE DEF factor, amount
<1>6. QED BY <1>1, <1>4, <1>5

\* What Refill credits is a number.
LEMMA UnitsFacts ==
    ASSUME FieldsOK, NEW t \in Types
    PROVE  Units(t) \in Int
<1> DEFINE seconds == (now - last[t]) \div Second
<1>1. now - last[t] \in Int /\ refillRate[t] \in Int
  BY BoundAssumption DEF FieldsOK
<1>2. seconds \in Int
  BY <1>1, DivBound, ClockAssumption
<1> HIDE DEF seconds
<1>3. seconds * refillRate[t] \in Int
  BY <1>1, <1>2
<1>4. QED BY <1>3, DivBound, ClockAssumption DEF Units, seconds

-----------------------------------------------------------------------------
(* Types, however goroutines meet.                                         *)

\* Ticker and calls.
LEMMA GoroutineFacts ==
    Ticker \in Goroutines /\ Callers \subseteq Goroutines /\ Ticker \notin Callers
BY TickerAssumption DEF Goroutines


\* Each step keeps the types of the buckets.
LEMMA FieldsStep ==
    ASSUME TypeInv, [Next]_vars
    PROVE  FieldsOK'
<1>1. ASSUME NEW g \in Goroutines, RefillRead(g) PROVE FieldsOK'
  BY <1>1, BoundAssumption, GoroutineFacts
    DEF RefillRead, TypeInv, FieldsOK, ControlOK, AfterRefill, fields, saved, counters, ghosts
<1>2. ASSUME NEW g \in Goroutines, RefillCredit(g) PROVE FieldsOK'
  BY <1>2, BoundAssumption, GoroutineFacts
    DEF RefillCredit, TypeInv, FieldsOK, ControlOK, saved, counters, ghosts
<1>3. ASSUME NEW g \in Goroutines, RefillStamp(g) PROVE FieldsOK'
  BY <1>3, BoundAssumption, GoroutineFacts
    DEF RefillStamp, TypeInv, FieldsOK, ControlOK, AfterRefill, saved, counters, ghosts
<1>4. ASSUME NEW c \in Callers, NEW p \in Profiles, CheckAndConsume(c, p) PROVE FieldsOK'
  BY <1>4, BoundAssumption, GoroutineFacts
    DEF CheckAndConsume, TypeInv, FieldsOK, ControlOK, GetOrCreate, saved, BucketConfigs
<1>5. ASSUME NEW c \in Callers, CanConsume(c) PROVE FieldsOK'
  BY <1>5, BoundAssumption, GoroutineFacts
    DEF CanConsume, TypeInv, FieldsOK, ControlOK, NextBucket, fields, saved, counters, ghosts
<1>6. ASSUME NEW c \in Callers, Load(c) PROVE FieldsOK'
  BY <1>6, BoundAssumption, GoroutineFacts
    DEF Load, TypeInv, FieldsOK, ControlOK, fields, saved, counters, ghosts
<1>7. ASSUME NEW c \in Callers, Store(c) PROVE FieldsOK'
  BY <1>7, BoundAssumption, GoroutineFacts
    DEF Store, TypeInv, FieldsOK, ControlOK, NextBucket, Touch, saved, counters
<1>8. CASE RefillAll
  BY <1>8, BoundAssumption, GoroutineFacts
    DEF RefillAll, TypeInv, FieldsOK, ControlOK, fields, control, saved, counters, ghosts
<1>9. CASE GetAllStates
  BY <1>9, BoundAssumption, GoroutineFacts
    DEF GetAllStates, TypeInv, FieldsOK, ControlOK, fields, control, ghosts
<1>10. ASSUME NEW t \in Types, RefillNext(t) PROVE FieldsOK'
  BY <1>10, BoundAssumption, GoroutineFacts
    DEF RefillNext, TypeInv, FieldsOK, ControlOK, fields, saved, counters, ghosts
<1>11. ASSUME NEW t \in Types, UpsertRateLimitState(t) PROVE FieldsOK'
  BY <1>11, BoundAssumption, GoroutineFacts
    DEF UpsertRateLimitState, TypeInv, FieldsOK, ControlOK, fields, control, counters, ghosts
<1>12. CASE ResetUserBuckets
  BY <1>12, BoundAssumption, GoroutineFacts
    DEF ResetUserBuckets, TypeInv, FieldsOK, ControlOK, control, saved
<1>13. ASSUME NEW form \in Forms, UpdateRateLimitConfig(form) PROVE FieldsOK'
  BY <1>13, BoundAssumption, GoroutineFacts, ConfigAssumption
    DEF UpdateRateLimitConfig, TypeInv, FieldsOK, ControlOK, fields, control, saved, ghosts,
       BucketConfigs
<1>14. CASE Tick
  BY <1>14, BoundAssumption, GoroutineFacts
    DEF Tick, TypeInv, FieldsOK, ControlOK, fields, control, saved, counters, ghosts
<1>15. CASE LoadStates
  BY <1>15, BoundAssumption, GoroutineFacts, ConfigAssumption
    DEF LoadStates, TypeInv, FieldsOK, ControlOK, Nothing, SavedOK, States, BucketConfigs
<1>16. CASE UNCHANGED vars
  BY <1>16, BoundAssumption, GoroutineFacts
    DEF TypeInv, FieldsOK, ControlOK, vars, fields, control, saved, counters, ghosts
<1>17. QED
  BY <1>1, <1>2, <1>3, <1>4, <1>5, <1>6, <1>7, <1>8, <1>9, <1>10, <1>11, <1>12, <1>13, <1>14,
     <1>15, <1>16
    DEF Next, RefillStep

\* Each step keeps the types of the goroutines.
LEMMA ControlStep ==
    ASSUME TypeInv, [Next]_vars
    PROVE  ControlOK'
<1>1. ASSUME NEW g \in Goroutines, RefillRead(g) PROVE ControlOK'
  <2> DEFINE t == bucket[g]
  <2>1. t \in Types /\ Units(t) \in Int /\ capacity[t] \in Int /\ level[t] \in Int
    BY <1>1, UnitsFacts DEF TypeInv, FieldsOK, ControlOK
  <2>2. Min({capacity[t], level[t] + Units(t)}) \in Int
    BY <2>1, MinTwo
  <2>3. reg' \in [Goroutines -> Int]
    BY <1>1, <2>2 DEF RefillRead, TypeInv, ControlOK, ticker
  <2> HIDE DEF t
  <2>4. pc' \in [Goroutines -> {"idle", "refill", "credit", "stamp", "check", "take", "put"}]
    BY <1>1 DEF RefillRead, AfterRefill, TypeInv, ControlOK, ticker
  <2>5. QED BY <1>1, <2>3, <2>4 DEF RefillRead, fields, TypeInv, ControlOK, ticker
<1>2. ASSUME NEW g \in Goroutines, RefillCredit(g) PROVE ControlOK'
  BY <1>2, GoroutineFacts
    DEF RefillCredit, TypeInv, FieldsOK, ControlOK, ticker, saved, counters, ghosts
<1>3. ASSUME NEW g \in Goroutines, RefillStamp(g) PROVE ControlOK'
  BY <1>3, GoroutineFacts
    DEF RefillStamp, TypeInv, FieldsOK, ControlOK, ticker, AfterRefill, saved, counters, ghosts
<1>4. ASSUME NEW c \in Callers, NEW p \in Profiles, CheckAndConsume(c, p) PROVE ControlOK'
  <2>1. c \in Goroutines
    BY GoroutineFacts
  <2>2. /\ pc' \in [Goroutines -> {"idle", "refill", "credit", "stamp", "check", "take", "put"}]
        /\ bucket' \in [Goroutines -> Types]
    BY <1>4, <2>1 DEF CheckAndConsume, Types, TypeInv, ControlOK, ticker
  <2>3. profile' \in [Callers -> Profiles] /\ todo' \subseteq exists'
    BY <1>4 DEF CheckAndConsume, GetOrCreate, TypeInv, ControlOK, ticker
  <2>4. QED BY <1>4, <2>2, <2>3 DEF CheckAndConsume, TypeInv, ControlOK, ticker
<1>5. ASSUME NEW c \in Callers, CanConsume(c) PROVE ControlOK'
  <2>1. c \in Goroutines
    BY GoroutineFacts
  <2>2. /\ pc' \in [Goroutines -> {"idle", "refill", "credit", "stamp", "check", "take", "put"}]
        /\ bucket' \in [Goroutines -> Types]
    BY <1>5, <2>1 DEF CanConsume, NextBucket, Types, TypeInv, ControlOK, ticker
  <2>3. reg' = reg /\ profile' = profile
    BY <1>5 DEF CanConsume
  <2>4. QED BY <1>5, <2>2, <2>3 DEF CanConsume, fields, TypeInv, ControlOK, ticker
<1>6. ASSUME NEW c \in Callers, Load(c) PROVE ControlOK'
  <2>1. c \in Goroutines
    BY GoroutineFacts
  <2>2. /\ pc' \in [Goroutines -> {"idle", "refill", "credit", "stamp", "check", "take", "put"}]
        /\ bucket' \in [Goroutines -> Types]
    BY <1>6, <2>1 DEF Load, Types, TypeInv, ControlOK, ticker
  <2>3. reg' \in [Goroutines -> Int]
    <3>1. level[bucket[c]] \in Int /\ Cost(profile[c], bucket[c]) \in Nat
      BY <2>1, CostFacts DEF TypeInv, FieldsOK, ControlOK, ticker
    <3>2. level[bucket[c]] - Cost(profile[c], bucket[c]) \in Int
      BY <3>1
    <3>3. QED BY <1>6, <3>2 DEF Load, TypeInv, ControlOK, ticker
  <2>4. QED BY <1>6, <2>2, <2>3 DEF Load, fields, TypeInv, ControlOK, ticker
<1>7. ASSUME NEW c \in Callers, Store(c) PROVE ControlOK'
  <2>1. c \in Goroutines
    BY GoroutineFacts
  <2>2. /\ pc' \in [Goroutines -> {"idle", "refill", "credit", "stamp", "check", "take", "put"}]
        /\ bucket' \in [Goroutines -> Types]
    BY <1>7, <2>1 DEF Store, NextBucket, Types, TypeInv, ControlOK, ticker
  <2>3. reg' \in [Goroutines -> Int] /\ profile' = profile
    <3>1. reg' = [reg EXCEPT ![c] = 0] /\ profile' = profile
      BY <1>7 DEF Store
    <3>2. reg \in [Goroutines -> Int]
      BY DEF TypeInv, ControlOK
    <3>3. [reg EXCEPT ![c] = 0] \in [Goroutines -> Int]
      BY <2>1, <3>2
    <3>4. QED BY <3>1, <3>3
  <2>4. QED BY <1>7, <2>2, <2>3 DEF Store, TypeInv, ControlOK, ticker
<1>8. CASE RefillAll
  BY <1>8, GoroutineFacts
    DEF RefillAll, TypeInv, FieldsOK, ControlOK, ticker, fields, control, saved, counters, ghosts
<1>9. CASE GetAllStates
  BY <1>9, GoroutineFacts
    DEF GetAllStates, TypeInv, FieldsOK, ControlOK, ticker, fields, control, ghosts
<1>10. ASSUME NEW t \in Types, RefillNext(t) PROVE ControlOK'
  BY <1>10, GoroutineFacts
    DEF RefillNext, TypeInv, FieldsOK, ControlOK, ticker, fields, saved, counters, ghosts
<1>11. ASSUME NEW t \in Types, UpsertRateLimitState(t) PROVE ControlOK'
  BY <1>11, GoroutineFacts
    DEF UpsertRateLimitState, TypeInv, FieldsOK, ControlOK, ticker, fields, control, counters,
       ghosts
<1>12. CASE ResetUserBuckets
  BY <1>12, GoroutineFacts
    DEF ResetUserBuckets, TypeInv, FieldsOK, ControlOK, ticker, control, saved
<1>13. ASSUME NEW form \in Forms, UpdateRateLimitConfig(form) PROVE ControlOK'
  BY <1>13, GoroutineFacts
    DEF UpdateRateLimitConfig, TypeInv, FieldsOK, ControlOK, ticker, fields, control, saved, ghosts
<1>14. CASE Tick
  <2>1. beat' \in 0..(Second - 1)
    BY <1>14, ClockAssumption DEF Tick, TypeInv, ControlOK
  <2>2. ticked' \in BOOLEAN
    BY <1>14, Zenon DEF Tick, TypeInv, ControlOK
  <2>3. QED BY <1>14, <2>1, <2>2, GoroutineFacts DEF Tick, TypeInv, ControlOK, fields, control
<1>15. CASE LoadStates
  BY <1>15, GoroutineFacts, ClockAssumption
    DEF LoadStates, TypeInv, FieldsOK, ControlOK, ticker, Nothing
<1>16. CASE UNCHANGED vars
  BY <1>16, GoroutineFacts
    DEF TypeInv, FieldsOK, ControlOK, ticker, vars, fields, control, saved, counters, ghosts
<1>17. QED
  BY <1>1, <1>2, <1>3, <1>4, <1>5, <1>6, <1>7, <1>8, <1>9, <1>10, <1>11, <1>12, <1>13, <1>14,
     <1>15, <1>16
    DEF Next, RefillStep

\* Each step keeps the types of what is counted.
LEMMA GhostsStep ==
    ASSUME TypeInv, [Next]_vars
    PROVE  GhostsOK'
<1>1. ASSUME NEW g \in Goroutines, RefillRead(g) PROVE GhostsOK'
  BY <1>1, GoroutineFacts, CostFacts
    DEF RefillRead, TypeInv, FieldsOK, ControlOK, GhostsOK, AfterRefill, fields, saved,
       counters, ghosts
<1>2. ASSUME NEW g \in Goroutines, RefillCredit(g) PROVE GhostsOK'
  BY <1>2, GoroutineFacts, CostFacts
    DEF RefillCredit, TypeInv, FieldsOK, ControlOK, GhostsOK, saved, counters, ghosts
<1>3. ASSUME NEW g \in Goroutines, RefillStamp(g) PROVE GhostsOK'
  BY <1>3, GoroutineFacts, CostFacts
    DEF RefillStamp, TypeInv, FieldsOK, ControlOK, GhostsOK, AfterRefill, saved, counters,
       ghosts
<1>4. ASSUME NEW c \in Callers, NEW p \in Profiles, CheckAndConsume(c, p) PROVE GhostsOK'
  BY <1>4, GoroutineFacts, CostFacts
    DEF CheckAndConsume, TypeInv, FieldsOK, ControlOK, GhostsOK, GetOrCreate, saved,
       BucketConfigs
<1>5. ASSUME NEW c \in Callers, CanConsume(c) PROVE GhostsOK'
  BY <1>5, GoroutineFacts, CostFacts
    DEF CanConsume, TypeInv, FieldsOK, ControlOK, GhostsOK, NextBucket, fields, saved, counters,
       ghosts
<1>6. ASSUME NEW c \in Callers, Load(c) PROVE GhostsOK'
  BY <1>6, GoroutineFacts, CostFacts
    DEF Load, TypeInv, FieldsOK, ControlOK, GhostsOK, fields, saved, counters, ghosts
<1>7. ASSUME NEW c \in Callers, Store(c) PROVE GhostsOK'
  BY <1>7, GoroutineFacts, CostFacts
    DEF Store, TypeInv, FieldsOK, ControlOK, GhostsOK, NextBucket, Touch, saved, counters
<1>8. CASE RefillAll
  BY <1>8, GoroutineFacts, CostFacts
    DEF RefillAll, TypeInv, FieldsOK, ControlOK, GhostsOK, fields, control, saved, counters,
       ghosts
<1>9. CASE GetAllStates
  BY <1>9, GoroutineFacts, CostFacts
    DEF GetAllStates, TypeInv, FieldsOK, ControlOK, GhostsOK, fields, control, ghosts
<1>10. ASSUME NEW t \in Types, RefillNext(t) PROVE GhostsOK'
  BY <1>10, GoroutineFacts, CostFacts
    DEF RefillNext, TypeInv, FieldsOK, ControlOK, GhostsOK, fields, saved, counters, ghosts
<1>11. ASSUME NEW t \in Types, UpsertRateLimitState(t) PROVE GhostsOK'
  BY <1>11, GoroutineFacts, CostFacts
    DEF UpsertRateLimitState, TypeInv, FieldsOK, ControlOK, GhostsOK, fields, control, counters,
       ghosts
<1>12. CASE ResetUserBuckets
  BY <1>12, GoroutineFacts, CostFacts
    DEF ResetUserBuckets, TypeInv, FieldsOK, ControlOK, GhostsOK, control, saved
<1>13. ASSUME NEW form \in Forms, UpdateRateLimitConfig(form) PROVE GhostsOK'
  BY <1>13, GoroutineFacts, CostFacts
    DEF UpdateRateLimitConfig, TypeInv, FieldsOK, ControlOK, GhostsOK, fields, control, saved,
       ghosts
<1>14. CASE Tick
  BY <1>14, GoroutineFacts, CostFacts
    DEF Tick, TypeInv, FieldsOK, ControlOK, GhostsOK, fields, control, saved, counters, ghosts
<1>15. CASE LoadStates
  <2>1. \A t \in DOMAIN db : t \in Types /\ db[t].level \in Int /\ db[t].granted \in Nat
                            /\ db[t].granted <= granted[t]
    BY DEF TypeInv, SavedOK, States
  <2>2. \A t \in Types : credit[t] \in Nat /\ granted[t] \in Nat
    BY DEF TypeInv, GhostsOK
  <2>3. \A t \in DOMAIN db : credit[t] + granted[t] - db[t].granted \in Nat
    BY <2>1, <2>2
  <2>4. credit' \in [Types -> Nat]
    BY <1>15, <2>2, <2>3 DEF LoadStates
  <2>5. level' \in [Types -> Int]
    BY <1>15, <2>1 DEF LoadStates
  <2>6. now \in Nat
    BY BoundAssumption DEF TypeInv, FieldsOK
  <2>7. QED BY <1>15, <2>4, <2>5, <2>6 DEF LoadStates, TypeInv, GhostsOK
<1>16. CASE UNCHANGED vars
  BY <1>16, GoroutineFacts, CostFacts
    DEF TypeInv, FieldsOK, ControlOK, GhostsOK, vars, fields, control, saved, counters, ghosts
<1>17. QED
  BY <1>1, <1>2, <1>3, <1>4, <1>5, <1>6, <1>7, <1>8, <1>9, <1>10, <1>11, <1>12, <1>13, <1>14,
     <1>15, <1>16
    DEF Next, RefillStep

\* Each step keeps the types of snapshots, and what buckets have given only grows.
LEMMA SavedStep ==
    ASSUME TypeInv, [Next]_vars
    PROVE  SavedOK'
<1>1. ASSUME NEW g \in Goroutines, RefillRead(g) PROVE SavedOK'
  BY <1>1, GoroutineFacts, CostFacts
    DEF RefillRead, TypeInv, FieldsOK, ControlOK, GhostsOK, SavedOK, AfterRefill, fields, saved,
       counters, ghosts
<1>2. ASSUME NEW g \in Goroutines, RefillCredit(g) PROVE SavedOK'
  BY <1>2, GoroutineFacts, CostFacts
    DEF RefillCredit, TypeInv, FieldsOK, ControlOK, GhostsOK, SavedOK, saved, counters, ghosts
<1>3. ASSUME NEW g \in Goroutines, RefillStamp(g) PROVE SavedOK'
  BY <1>3, GoroutineFacts, CostFacts
    DEF RefillStamp, TypeInv, FieldsOK, ControlOK, GhostsOK, SavedOK, AfterRefill, saved,
       counters, ghosts
<1>4. ASSUME NEW c \in Callers, NEW p \in Profiles, CheckAndConsume(c, p) PROVE SavedOK'
  BY <1>4, GoroutineFacts, CostFacts
    DEF CheckAndConsume, TypeInv, FieldsOK, ControlOK, GhostsOK, SavedOK, GetOrCreate, saved
<1>5. ASSUME NEW c \in Callers, CanConsume(c) PROVE SavedOK'
  BY <1>5, GoroutineFacts, CostFacts
    DEF CanConsume, TypeInv, FieldsOK, ControlOK, GhostsOK, SavedOK, NextBucket, fields, saved,
       counters, ghosts
<1>6. ASSUME NEW c \in Callers, Load(c) PROVE SavedOK'
  BY <1>6, GoroutineFacts, CostFacts
    DEF Load, TypeInv, FieldsOK, ControlOK, GhostsOK, SavedOK, fields, saved, counters, ghosts
<1>7. ASSUME NEW c \in Callers, Store(c) PROVE SavedOK'
  <2>1. Cost(profile[c], bucket[c]) \in Nat /\ bucket[c] \in Types
    BY <1>7, GoroutineFacts, CostFacts DEF TypeInv, ControlOK
  <2>2. \A t \in Types : granted[t] \in Nat /\ granted[t] <= granted'[t]
    BY <1>7, <2>1 DEF Store, TypeInv, GhostsOK
  <2>3. \A t \in Types : granted'[t] \in Nat
    BY <1>7, <2>1 DEF Store, TypeInv, GhostsOK
  <2>4. exists' = exists /\ saving' = saving /\ db' = db
    BY <1>7 DEF Store, saved
  <2>5. QED
    BY <2>2, <2>3, <2>4 DEF TypeInv, FieldsOK, SavedOK, States
<1>8. CASE RefillAll
  BY <1>8, GoroutineFacts, CostFacts
    DEF RefillAll, TypeInv, FieldsOK, ControlOK, GhostsOK, SavedOK, fields, control, saved,
       counters, ghosts
<1>9. CASE GetAllStates
  <2>1. \A t \in exists : /\ t \in Types
                         /\ level[t] \in Int /\ last[t] \in Nat /\ granted[t] \in Nat
    BY DEF TypeInv, FieldsOK, GhostsOK
  <2>2. /\ saving' = [t \in exists |->
                        [level |-> level[t], last |-> last[t], granted |-> granted[t]]]
        /\ exists' = exists /\ db' = db /\ granted' = granted
    BY <1>9 DEF GetAllStates, ghosts
  <2>3. \A t \in exists : saving'[t] \in States /\ saving'[t].granted <= granted[t]
    BY <2>1, <2>2 DEF States
  <2>4. QED BY <2>2, <2>3 DEF TypeInv, SavedOK
<1>10. ASSUME NEW t \in Types, RefillNext(t) PROVE SavedOK'
  BY <1>10, GoroutineFacts, CostFacts
    DEF RefillNext, TypeInv, FieldsOK, ControlOK, GhostsOK, SavedOK, fields, saved, counters,
       ghosts
<1>11. ASSUME NEW t \in Types, UpsertRateLimitState(t) PROVE SavedOK'
  BY <1>11, GoroutineFacts, CostFacts
    DEF UpsertRateLimitState, TypeInv, FieldsOK, ControlOK, GhostsOK, SavedOK, fields, control,
       counters, ghosts
<1>12. CASE ResetUserBuckets
  BY <1>12, GoroutineFacts, CostFacts
    DEF ResetUserBuckets, TypeInv, FieldsOK, ControlOK, GhostsOK, SavedOK, control, saved
<1>13. ASSUME NEW form \in Forms, UpdateRateLimitConfig(form) PROVE SavedOK'
  BY <1>13, GoroutineFacts, CostFacts
    DEF UpdateRateLimitConfig, TypeInv, FieldsOK, ControlOK, GhostsOK, SavedOK, fields, control,
       saved, ghosts
<1>14. CASE Tick
  BY <1>14, GoroutineFacts, CostFacts
    DEF Tick, TypeInv, FieldsOK, ControlOK, GhostsOK, SavedOK, fields, control, saved, counters,
       ghosts
<1>15. CASE LoadStates
  BY <1>15, GoroutineFacts, CostFacts
    DEF LoadStates, TypeInv, FieldsOK, ControlOK, GhostsOK, SavedOK, Nothing
<1>16. CASE UNCHANGED vars
  BY <1>16, GoroutineFacts, CostFacts
    DEF TypeInv, FieldsOK, ControlOK, GhostsOK, SavedOK, vars, fields, control, saved, counters,
       ghosts
<1>17. QED
  BY <1>1, <1>2, <1>3, <1>4, <1>5, <1>6, <1>7, <1>8, <1>9, <1>10, <1>11, <1>12, <1>13, <1>14,
     <1>15, <1>16
    DEF Next, RefillStep

\* The types hold of the first state.
LEMMA InitTypes == Init => TypeInv
<1> SUFFICES ASSUME Init PROVE TypeInv
  OBVIOUS
<1>1. FieldsOK
  BY ConfigAssumption, BoundAssumption DEF Init, FieldsOK, Zero
<1>2. ControlOK
  <2>1. profile \in [Callers -> Profiles]
    BY ProfilesAssumption DEF Init
  <2>2. /\ pc \in [Goroutines -> {"idle", "refill", "credit", "stamp", "check", "take", "put"}]
        /\ bucket \in [Goroutines -> Types] /\ reg \in [Goroutines -> Int]
    BY DEF Init, Types
  <2>3. todo \subseteq exists /\ ticked \in BOOLEAN
    BY Zenon DEF Init
  <2>4. beat \in 0..(Second - 1)
    BY ClockAssumption DEF Init
  <2>5. QED BY <2>1, <2>2, <2>3, <2>4 DEF ControlOK
<1>3. GhostsOK
  BY DEF Init, GhostsOK, Zero
<1>4. SavedOK
  BY DEF Init, SavedOK, Nothing
<1>5. QED BY <1>1, <1>2, <1>3, <1>4 DEF TypeInv

\* Every step preserves the types.
LEMMA TypeStep ==
    ASSUME TypeInv, [Next]_vars
    PROVE  TypeInv'
BY FieldsStep, ControlStep, GhostsStep, SavedStep DEF TypeInv

\* The buckets, the goroutines of CheckAndConsume and RefillAll, and the snapshots of
\* SaveRateLimitStates keep their types, also where goroutines meet in a bucket; what
\* a restart credits is no negative amount.
THEOREM RateLimitTypes == Spec => []TypeOK
<1>1. TypeInv => TypeOK
  BY DEF TypeInv, FieldsOK, ControlOK, GhostsOK, SavedOK, TypeOK
<1>2. TypeInv /\ [Next]_vars => TypeInv'
  BY TypeStep
<1>3. QED BY InitTypes, <1>1, <1>2, PTL DEF Spec

-----------------------------------------------------------------------------
(* The budget, where goroutines do not meet.                               *)

OneInside == \A g, h \in Goroutines : pc[g] # "idle" /\ pc[h] # "idle" => g = h

\* A goroutine inside finds its bucket; a call finds both.
InsideExists ==
    /\ \A c \in Callers : pc[c] # "idle" => exists = Types
    /\ pc[Ticker] # "idle" => bucket[Ticker] \in exists
    /\ pc[Ticker] \in {"idle", "refill", "credit", "stamp"}

\* No bucket is refilled at more than the configured rate.
Rates == \A t \in Types : config[t].refillRate <= MaxRate(t) /\ refillRate[t] <= MaxRate(t)

\* What refills can have credited by time x.
Allow(t, x) == (MaxRate(t) * x) \div (Minute * Second)

\* The time up to which a bucket is refilled: now between RefillCredit and RefillStamp.
Stamped(t) == IF \E g \in Goroutines : pc[g] = "stamp" /\ bucket[g] = t THEN now ELSE last[t]

\* What a bucket has and what it gave is covered up to the time of its last refill.
Covered ==
    \A t \in exists :
        /\ level[t] >= 0 /\ last[t] <= now
        /\ level[t] + granted[t] <= credit[t] + Allow(t, Stamped(t))

\* The same of a snapshot, which a restart makes the bucket again.
Kept(t, s) ==
    /\ s.level >= 0 /\ s.last <= now
    /\ s.level + s.granted <= credit[t] + Allow(t, s.last)
Snapshots ==
    /\ \A t \in DOMAIN saving : Kept(t, saving[t])
    /\ \A t \in DOMAIN db : Kept(t, db[t])

\* The same of what a goroutine is about to store.
Registers ==
    \A g \in Goroutines :
        /\ pc[g] = "credit" =>
              /\ reg[g] >= 0
              /\ reg[g] + granted[bucket[g]] <= credit[bucket[g]] + Allow(bucket[g], now)
        /\ pc[g] = "take" => level[bucket[g]] >= Cost(profile[g], bucket[g])
        /\ pc[g] = "put" =>
              reg[g] >= 0 /\ reg[g] = level[bucket[g]] - Cost(profile[g], bucket[g])

BudgetInv ==
    /\ TypeInv /\ OneInside /\ InsideExists /\ Rates
    /\ Covered /\ Snapshots /\ Registers /\ WithinBudget

\* A step leaves of time, of credit and of what was given no less than there was.
Grows ==
    /\ now <= now' /\ now' \in Nat
    /\ \A t \in Types : /\ credit[t] <= credit'[t] /\ granted[t] <= granted'[t]
                        /\ credit'[t] \in Nat /\ granted'[t] \in Nat

\* The fractions in a minute.
LEMMA MinuteFacts == Minute * Second \in Nat \ {0}
<1>1. Minute \in Nat /\ Second \in Nat /\ Minute >= 1 /\ Second >= 1
  BY ClockAssumption
<1>2. Minute * Second >= 1
  BY <1>1
<1>3. QED BY <1>1, <1>2

\* Dropping the fraction of a second first credits no more.
LEMMA WholeIsLess ==
    ASSUME NEW d \in Nat, NEW r \in Nat
    PROVE  ((d \div Second) * r) \div Minute <= (d * r) \div (Minute * Second)
<1> DEFINE q == d \div Second
           u == (q * r) \div Minute
           v == (d * r) \div (Minute * Second)
<1>1. Minute \in Nat \ {0} /\ Second \in Nat \ {0} /\ Minute * Second \in Nat \ {0}
  BY ClockAssumption, MinuteFacts
<1>2. q \in Int /\ Second * q <= d
  BY <1>1, DivBound
<1> HIDE DEF q
<1>3. q * r \in Int /\ d * r \in Int
  BY <1>2
<1>4. u \in Int /\ Minute * u <= q * r
  BY <1>1, <1>3, DivBound
<1>5. v \in Int /\ d * r < (Minute * Second) * v + Minute * Second
  BY <1>1, <1>3, DivBound
<1> HIDE DEF u, v
<1>6. Second * (Minute * u) <= Second * (q * r)
  BY <1>1, <1>3, <1>4
<1>7. Second * (q * r) = (Second * q) * r /\ (Second * q) * r <= d * r
  BY <1>1, <1>2
<1>8. Second * (Minute * u) = (Minute * Second) * u
  BY <1>1, <1>4
<1>9. (Minute * Second) * u < (Minute * Second) * (v + 1)
  <2> DEFINE m == Minute * Second
  <2>1. m \in Int /\ m * u <= d * r /\ d * r < m * v + m
    BY <1>1, <1>2, <1>3, <1>4, <1>5, <1>6, <1>7, <1>8
  <2> HIDE DEF m
  <2>2. m * u < m * (v + 1)
    BY <1>3, <1>4, <1>5, <2>1
  <2>3. QED BY <2>2 DEF m
<1>10. u < v + 1
  BY <1>1, <1>4, <1>5, <1>9, TimesLess
<1>11. u <= v
  BY <1>4, <1>5, <1>10
<1>12. QED BY <1>11 DEF u, v, q

\* More time allows more, and a refill that rounds down stays within it.
LEMMA AllowFacts ==
    ASSUME NEW t \in Types, NEW x \in Nat, NEW y \in Nat, x <= y
    PROVE  /\ Allow(t, x) \in Nat /\ Allow(t, y) \in Nat /\ Allow(t, x) <= Allow(t, y)
           /\ \A r \in Nat : r <= MaxRate(t) =>
                 Allow(t, x) + ((((y - x) \div Second) * r) \div Minute) <= Allow(t, y)
<1> DEFINE m == MaxRate(t)
           n == Minute * Second
<1>1. m \in Nat /\ n \in Nat \ {0}
  BY MaxRateFacts, MinuteFacts
<1> HIDE DEF m, n
<1>2. m * x \in Nat /\ m * y \in Nat /\ m * x <= m * y
  BY <1>1
<1>3. /\ (m * x) \div n \in Nat /\ (m * y) \div n \in Nat
      /\ (m * x) \div n <= (m * y) \div n
  BY <1>1, <1>2, DivMono
<1>4. ASSUME NEW r \in Nat, r <= m
      PROVE  ((m * x) \div n) + (((y - x) * r) \div n) <= (m * y) \div n
  <2>1. y - x \in Nat /\ (y - x) * r \in Nat /\ (y - x) * r <= (y - x) * m
    BY <1>4, <1>1
  <2>2. m * x + (y - x) * m = m * y
    BY <1>1
  <2>3. m * x + (y - x) * r <= m * y
    BY <1>1, <1>2, <2>1, <2>2
  <2>4. ((m * x) \div n) + (((y - x) * r) \div n) <= (m * x + (y - x) * r) \div n
    BY <1>1, <1>2, <2>1, DivAdd
  <2>5. (m * x + (y - x) * r) \div n <= (m * y) \div n
    BY <1>1, <1>2, <2>1, <2>3, DivMono
  <2>6. /\ ((m * x) \div n) \in Int /\ (((y - x) * r) \div n) \in Int
        /\ (m * x + (y - x) * r) \div n \in Int /\ (m * y) \div n \in Int
    BY <1>1, <1>2, <2>1, DivBound
  <2>7. QED BY <2>4, <2>5, <2>6
<1>5. ASSUME NEW r \in Nat, r <= m
      PROVE  ((m * x) \div n) + ((((y - x) \div Second) * r) \div Minute) <= (m * y) \div n
  <2> DEFINE whole == (((y - x) \div Second) * r) \div Minute
             all == ((y - x) * r) \div n
  <2>1. y - x \in Nat /\ (y - x) * r \in Nat
    OBVIOUS
  <2>2. whole <= all
    BY <2>1, WholeIsLess DEF n
  <2>3. all \in Int
    BY <1>1, <2>1, DivBound
  <2>4. whole \in Int
    <3>1. (y - x) \div Second \in Int
      BY <2>1, DivBound, ClockAssumption
    <3>2. ((y - x) \div Second) * r \in Int
      BY <3>1
    <3>3. QED BY <3>2, DivBound, ClockAssumption
  <2>5. ((m * x) \div n) + all <= (m * y) \div n
    BY <1>4, <1>5
  <2> HIDE DEF whole, all
  <2>6. ((m * x) \div n) + whole <= (m * y) \div n
    BY <1>3, <2>2, <2>3, <2>4, <2>5
  <2>7. QED BY <2>6 DEF whole
<1>6. QED BY <1>3, <1>5 DEF Allow, m, n

\* The numbers of a bucket.
LEMMA Numbers ==
    ASSUME TypeInv
    PROVE  /\ now \in Nat
           /\ \A t \in Types : /\ level[t] \in Int /\ last[t] \in Nat /\ capacity[t] \in Nat
                               /\ refillRate[t] \in Nat /\ granted[t] \in Nat
                               /\ credit[t] \in Nat /\ base[t] \in Int /\ since[t] \in Nat
                               /\ config[t].capacity \in Nat \ {0}
                               /\ config[t].refillRate \in Nat \ {0}
BY BoundAssumption DEF TypeInv, FieldsOK, GhostsOK, BucketConfigs

\* Nobody but a goroutine between its two stores has a bucket ahead of its time.
LEMMA StampedFacts ==
    OneInside =>
        /\ AllIdle => \A t \in Types : Stamped(t) = last[t]
        /\ \A g \in Goroutines :
              /\ pc[g] \notin {"idle", "stamp"} => \A t \in Types : Stamped(t) = last[t]
              /\ pc[g] = "stamp" => \A t \in Types :
                    Stamped(t) = IF t = bucket[g] THEN now ELSE last[t]
BY DEF OneInside, AllIdle, Stamped

\* The same after a step.
LEMMA StampedNext ==
    (OneInside =>
        /\ AllIdle => \A t \in Types : Stamped(t) = last[t]
        /\ \A g \in Goroutines :
              /\ pc[g] \notin {"idle", "stamp"} => \A t \in Types : Stamped(t) = last[t]
              /\ pc[g] = "stamp" => \A t \in Types :
                    Stamped(t) = IF t = bucket[g] THEN now ELSE last[t])'
BY StampedFacts, PTL

\* Time, credit and what was given never become less.
LEMMA GrowthStep ==
    ASSUME TypeInv, [Next]_vars
    PROVE  Grows
<1>1. ASSUME NEW g \in Goroutines, RefillRead(g) PROVE Grows
  BY <1>1, Numbers, TypeStep
    DEF RefillRead, Grows, TypeInv, FieldsOK, GhostsOK, AfterRefill, fields, saved, counters,
       ghosts
<1>2. ASSUME NEW g \in Goroutines, RefillCredit(g) PROVE Grows
  BY <1>2, Numbers, TypeStep
    DEF RefillCredit, Grows, TypeInv, FieldsOK, GhostsOK, saved, counters, ghosts
<1>3. ASSUME NEW g \in Goroutines, RefillStamp(g) PROVE Grows
  BY <1>3, Numbers, TypeStep
    DEF RefillStamp, Grows, TypeInv, FieldsOK, GhostsOK, AfterRefill, saved, counters, ghosts
<1>4. ASSUME NEW c \in Callers, NEW p \in Profiles, CheckAndConsume(c, p) PROVE Grows
  BY <1>4, Numbers, TypeStep
    DEF CheckAndConsume, Grows, TypeInv, FieldsOK, GhostsOK, GetOrCreate, saved
<1>5. ASSUME NEW c \in Callers, CanConsume(c) PROVE Grows
  BY <1>5, Numbers, TypeStep
    DEF CanConsume, Grows, TypeInv, FieldsOK, GhostsOK, NextBucket, fields, saved, counters,
       ghosts
<1>6. ASSUME NEW c \in Callers, Load(c) PROVE Grows
  BY <1>6, Numbers, TypeStep
    DEF Load, Grows, TypeInv, FieldsOK, GhostsOK, fields, saved, counters, ghosts
<1>7. ASSUME NEW c \in Callers, Store(c) PROVE Grows
  <2>1. Cost(profile[c], bucket[c]) \in Nat /\ bucket[c] \in Types
    BY <1>7, GoroutineFacts, CostFacts DEF TypeInv, ControlOK
  <2>2. \A t \in Types : granted[t] <= granted'[t]
    BY <1>7, <2>1 DEF Store, TypeInv, GhostsOK
  <2>3. now' = now /\ credit' = credit
    BY <1>7 DEF Store
  <2>4. QED BY <2>2, <2>3, Numbers, TypeStep DEF Grows, TypeInv, GhostsOK
<1>8. CASE RefillAll
  BY <1>8, Numbers, TypeStep
    DEF RefillAll, Grows, TypeInv, FieldsOK, GhostsOK, fields, control, saved, counters, ghosts
<1>9. CASE GetAllStates
  <2>1. now' = now /\ credit' = credit /\ granted' = granted
    BY <1>9 DEF GetAllStates, ghosts
  <2>2. QED BY <2>1, Numbers DEF Grows
<1>10. ASSUME NEW t \in Types, RefillNext(t) PROVE Grows
  BY <1>10, Numbers, TypeStep
    DEF RefillNext, Grows, TypeInv, FieldsOK, GhostsOK, fields, saved, counters, ghosts
<1>11. ASSUME NEW t \in Types, UpsertRateLimitState(t) PROVE Grows
  BY <1>11, Numbers, TypeStep
    DEF UpsertRateLimitState, Grows, TypeInv, FieldsOK, GhostsOK, fields, control, counters,
       ghosts
<1>12. CASE ResetUserBuckets
  BY <1>12, Numbers, TypeStep
    DEF ResetUserBuckets, Grows, TypeInv, FieldsOK, GhostsOK, control, saved
<1>13. ASSUME NEW form \in Forms, UpdateRateLimitConfig(form) PROVE Grows
  BY <1>13, Numbers, TypeStep
    DEF UpdateRateLimitConfig, Grows, TypeInv, FieldsOK, GhostsOK, fields, control, saved,
       ghosts
<1>14. CASE Tick
  BY <1>14, Numbers, TypeStep
    DEF Tick, Grows, TypeInv, FieldsOK, GhostsOK, fields, control, saved, counters, ghosts
<1>15. CASE LoadStates
  <2>1. \A t \in DOMAIN db : t \in Types /\ db[t].granted \in Nat
                            /\ db[t].granted <= granted[t]
    BY DEF TypeInv, SavedOK, States
  <2>2. /\ now' = now /\ granted' = granted
        /\ \A t \in Types : credit'[t] = IF t \in DOMAIN db
                                         THEN credit[t] + granted[t] - db[t].granted ELSE credit[t]
    BY <1>15 DEF LoadStates
  <2>3. \A t \in Types : credit[t] <= credit'[t]
    BY <2>1, <2>2, Numbers
  <2>4. QED BY <2>2, <2>3, Numbers, TypeStep DEF Grows, TypeInv, GhostsOK
<1>16. CASE UNCHANGED vars
  BY <1>16, Numbers, TypeStep
    DEF Grows, TypeInv, FieldsOK, GhostsOK, vars, fields, control, saved, counters, ghosts
<1>17. QED
  BY <1>1, <1>2, <1>3, <1>4, <1>5, <1>6, <1>7, <1>8, <1>9, <1>10, <1>11, <1>12, <1>13, <1>14,
     <1>15, <1>16
    DEF Next, RefillStep

\* Where goroutines do not meet, one at most is inside, with its buckets in place.
LEMMA InsideStep ==
    ASSUME ~Interleaved, BudgetInv, [Next]_vars
    PROVE  (OneInside /\ InsideExists)'
<1>1. ASSUME NEW g \in Goroutines, RefillRead(g) PROVE (OneInside /\ InsideExists)'
  BY <1>1, GoroutineFacts
    DEF RefillRead, BudgetInv, TypeInv, ControlOK, FieldsOK, OneInside, InsideExists, Free,
       AllIdle, AfterRefill, fields, saved, counters, ghosts
<1>2. ASSUME NEW g \in Goroutines, RefillCredit(g) PROVE (OneInside /\ InsideExists)'
  BY <1>2, GoroutineFacts
    DEF RefillCredit, BudgetInv, TypeInv, ControlOK, FieldsOK, OneInside, InsideExists, Free,
       AllIdle, saved, counters, ghosts
<1>3. ASSUME NEW g \in Goroutines, RefillStamp(g) PROVE (OneInside /\ InsideExists)'
  BY <1>3, GoroutineFacts
    DEF RefillStamp, BudgetInv, TypeInv, ControlOK, FieldsOK, OneInside, InsideExists, Free,
       AllIdle, AfterRefill, saved, counters, ghosts
<1>4. ASSUME NEW c \in Callers, NEW p \in Profiles,
             CheckAndConsume(c, p)
      PROVE  (OneInside /\ InsideExists)'
  BY <1>4, GoroutineFacts
    DEF CheckAndConsume, BudgetInv, TypeInv, ControlOK, FieldsOK, OneInside, InsideExists, Free,
       AllIdle, GetOrCreate, saved
<1>5. ASSUME NEW c \in Callers, CanConsume(c) PROVE (OneInside /\ InsideExists)'
  BY <1>5, GoroutineFacts
    DEF CanConsume, BudgetInv, TypeInv, ControlOK, FieldsOK, OneInside, InsideExists, Free,
       AllIdle, NextBucket, fields, saved, counters, ghosts
<1>6. ASSUME NEW c \in Callers, Load(c) PROVE (OneInside /\ InsideExists)'
  BY <1>6, GoroutineFacts
    DEF Load, BudgetInv, TypeInv, ControlOK, FieldsOK, OneInside, InsideExists, Free, AllIdle,
       fields, saved, counters, ghosts
<1>7. ASSUME NEW c \in Callers, Store(c) PROVE (OneInside /\ InsideExists)'
  BY <1>7, GoroutineFacts
    DEF Store, BudgetInv, TypeInv, ControlOK, FieldsOK, OneInside, InsideExists, Free, AllIdle,
       NextBucket, Touch, saved, counters
<1>8. CASE RefillAll
  BY <1>8, GoroutineFacts
    DEF RefillAll, BudgetInv, TypeInv, ControlOK, FieldsOK, OneInside, InsideExists, Free,
       AllIdle, fields, control, saved, counters, ghosts
<1>9. CASE GetAllStates
  BY <1>9, GoroutineFacts
    DEF GetAllStates, BudgetInv, TypeInv, ControlOK, FieldsOK, OneInside, InsideExists, Free,
       AllIdle, fields, control, ghosts
<1>10. ASSUME NEW t \in Types, RefillNext(t) PROVE (OneInside /\ InsideExists)'
  BY <1>10, GoroutineFacts
    DEF RefillNext, BudgetInv, TypeInv, ControlOK, FieldsOK, OneInside, InsideExists, Free,
       AllIdle, fields, saved, counters, ghosts
<1>11. ASSUME NEW t \in Types, UpsertRateLimitState(t) PROVE (OneInside /\ InsideExists)'
  BY <1>11, GoroutineFacts
    DEF UpsertRateLimitState, BudgetInv, TypeInv, ControlOK, FieldsOK, OneInside, InsideExists,
       Free, AllIdle, fields, control, counters, ghosts
<1>12. CASE ResetUserBuckets
  BY <1>12, GoroutineFacts
    DEF ResetUserBuckets, BudgetInv, TypeInv, ControlOK, FieldsOK, OneInside, InsideExists,
       Free, AllIdle, control, saved
<1>13. ASSUME NEW form \in Forms, UpdateRateLimitConfig(form) PROVE (OneInside /\ InsideExists)'
  BY <1>13, GoroutineFacts
    DEF UpdateRateLimitConfig, BudgetInv, TypeInv, ControlOK, FieldsOK, OneInside, InsideExists,
       Free, AllIdle, fields, control, saved, ghosts
<1>14. CASE Tick
  BY <1>14, GoroutineFacts
    DEF Tick, BudgetInv, TypeInv, ControlOK, FieldsOK, OneInside, InsideExists, Free, AllIdle,
       fields, control, saved, counters, ghosts
<1>15. CASE LoadStates
  BY <1>15, GoroutineFacts
    DEF LoadStates, BudgetInv, TypeInv, ControlOK, FieldsOK, OneInside, InsideExists, Free,
       AllIdle, Nothing
<1>16. CASE UNCHANGED vars
  BY <1>16, GoroutineFacts
    DEF BudgetInv, TypeInv, ControlOK, FieldsOK, OneInside, InsideExists, Free, AllIdle, vars,
       fields, control, saved, counters, ghosts
<1>17. QED
  BY <1>1, <1>2, <1>3, <1>4, <1>5, <1>6, <1>7, <1>8, <1>9, <1>10, <1>11, <1>12, <1>13, <1>14,
     <1>15, <1>16
    DEF Next, RefillStep

\* No bucket is created with more than the configured rate.
LEMMA RatesStep ==
    ASSUME ~Interleaved, BudgetInv, [Next]_vars
    PROVE  Rates'
<1>1. ASSUME NEW g \in Goroutines, RefillRead(g) PROVE Rates'
  BY <1>1, MaxRateFacts, ConfigAssumption
    DEF RefillRead, BudgetInv, TypeInv, FieldsOK, Rates, AfterRefill, fields, saved, counters,
       ghosts
<1>2. ASSUME NEW g \in Goroutines, RefillCredit(g) PROVE Rates'
  BY <1>2, MaxRateFacts, ConfigAssumption
    DEF RefillCredit, BudgetInv, TypeInv, FieldsOK, Rates, saved, counters, ghosts
<1>3. ASSUME NEW g \in Goroutines, RefillStamp(g) PROVE Rates'
  BY <1>3, MaxRateFacts, ConfigAssumption
    DEF RefillStamp, BudgetInv, TypeInv, FieldsOK, Rates, AfterRefill, saved, counters, ghosts
<1>4. ASSUME NEW c \in Callers, NEW p \in Profiles, CheckAndConsume(c, p) PROVE Rates'
  BY <1>4, MaxRateFacts, ConfigAssumption
    DEF CheckAndConsume, BudgetInv, TypeInv, FieldsOK, Rates, GetOrCreate, saved
<1>5. ASSUME NEW c \in Callers, CanConsume(c) PROVE Rates'
  BY <1>5, MaxRateFacts, ConfigAssumption
    DEF CanConsume, BudgetInv, TypeInv, FieldsOK, Rates, NextBucket, fields, saved, counters,
       ghosts
<1>6. ASSUME NEW c \in Callers, Load(c) PROVE Rates'
  BY <1>6, MaxRateFacts, ConfigAssumption
    DEF Load, BudgetInv, TypeInv, FieldsOK, Rates, fields, saved, counters, ghosts
<1>7. ASSUME NEW c \in Callers, Store(c) PROVE Rates'
  BY <1>7, MaxRateFacts, ConfigAssumption
    DEF Store, BudgetInv, TypeInv, FieldsOK, Rates, NextBucket, Touch, saved, counters
<1>8. CASE RefillAll
  BY <1>8, MaxRateFacts, ConfigAssumption
    DEF RefillAll, BudgetInv, TypeInv, FieldsOK, Rates, fields, control, saved, counters, ghosts
<1>9. CASE GetAllStates
  BY <1>9, MaxRateFacts, ConfigAssumption
    DEF GetAllStates, BudgetInv, TypeInv, FieldsOK, Rates, fields, control, ghosts
<1>10. ASSUME NEW t \in Types, RefillNext(t) PROVE Rates'
  BY <1>10, MaxRateFacts, ConfigAssumption
    DEF RefillNext, BudgetInv, TypeInv, FieldsOK, Rates, fields, saved, counters, ghosts
<1>11. ASSUME NEW t \in Types, UpsertRateLimitState(t) PROVE Rates'
  BY <1>11, MaxRateFacts, ConfigAssumption
    DEF UpsertRateLimitState, BudgetInv, TypeInv, FieldsOK, Rates, fields, control, counters,
       ghosts
<1>12. CASE ResetUserBuckets
  BY <1>12, MaxRateFacts, ConfigAssumption
    DEF ResetUserBuckets, BudgetInv, TypeInv, FieldsOK, Rates, control, saved
<1>13. ASSUME NEW form \in Forms, UpdateRateLimitConfig(form) PROVE Rates'
  BY <1>13, MaxRateFacts, ConfigAssumption
    DEF UpdateRateLimitConfig, BudgetInv, TypeInv, FieldsOK, Rates, fields, control, saved,
       ghosts, BucketConfigs
<1>14. CASE Tick
  BY <1>14, MaxRateFacts, ConfigAssumption
    DEF Tick, BudgetInv, TypeInv, FieldsOK, Rates, fields, control, saved, counters, ghosts
<1>15. CASE LoadStates
  BY <1>15, MaxRateFacts, ConfigAssumption
    DEF LoadStates, BudgetInv, TypeInv, FieldsOK, Rates, Nothing, SavedOK, BucketConfigs
<1>16. CASE UNCHANGED vars
  BY <1>16, MaxRateFacts, ConfigAssumption
    DEF BudgetInv, TypeInv, FieldsOK, Rates, vars, fields, control, saved, counters, ghosts
<1>17. QED
  BY <1>1, <1>2, <1>3, <1>4, <1>5, <1>6, <1>7, <1>8, <1>9, <1>10, <1>11, <1>12, <1>13, <1>14,
     <1>15, <1>16
    DEF Next, RefillStep

\* A snapshot stays covered.
LEMMA KeptGrows ==
    ASSUME TypeInv, Grows, NEW t \in Types, NEW s \in States, Kept(t, s)
    PROVE  /\ s.level >= 0 /\ s.last <= now'
           /\ s.level + s.granted <= credit'[t] + Allow(t, s.last)
<1>1. s.level \in Int /\ s.last \in Nat /\ s.granted \in Nat
  BY DEF States
<1>2. Allow(t, s.last) \in Nat
  BY <1>1, AllowFacts
<1>3. QED BY <1>1, <1>2, Numbers DEF Kept, Grows

\* Each step keeps the snapshots covered.
LEMMA SnapshotsStep ==
    ASSUME ~Interleaved, BudgetInv, [Next]_vars
    PROVE  Snapshots'
<1> DEFINE after(t, s) == /\ s.level >= 0 /\ s.last <= now'
                        /\ s.level + s.granted <= credit'[t] + Allow(t, s.last)
<1>a. \A t \in DOMAIN saving : after(t, saving[t])
  BY GrowthStep, KeptGrows DEF BudgetInv, TypeInv, FieldsOK, SavedOK, Snapshots
<1>b. \A t \in DOMAIN db : after(t, db[t])
  BY GrowthStep, KeptGrows DEF BudgetInv, TypeInv, SavedOK, Snapshots
<1>1. ASSUME NEW g \in Goroutines, RefillRead(g) PROVE Snapshots'
  BY <1>1, <1>a, <1>b DEF RefillRead, saved, Kept, Snapshots
<1>2. ASSUME NEW g \in Goroutines, RefillCredit(g) PROVE Snapshots'
  BY <1>2, <1>a, <1>b DEF RefillCredit, saved, Kept, Snapshots
<1>3. ASSUME NEW g \in Goroutines, RefillStamp(g) PROVE Snapshots'
  BY <1>3, <1>a, <1>b DEF RefillStamp, saved, Kept, Snapshots
<1>4. ASSUME NEW c \in Callers, NEW p \in Profiles, CheckAndConsume(c, p) PROVE Snapshots'
  BY <1>4, <1>a, <1>b DEF CheckAndConsume, saved, Kept, Snapshots
<1>5. ASSUME NEW c \in Callers, CanConsume(c) PROVE Snapshots'
  BY <1>5, <1>a, <1>b DEF CanConsume, saved, Kept, Snapshots
<1>6. ASSUME NEW c \in Callers, Load(c) PROVE Snapshots'
  BY <1>6, <1>a, <1>b DEF Load, saved, Kept, Snapshots
<1>7. ASSUME NEW c \in Callers, Store(c) PROVE Snapshots'
  BY <1>7, <1>a, <1>b DEF Store, saved, Kept, Snapshots
<1>8. CASE RefillAll
  BY <1>8, <1>a, <1>b DEF RefillAll, saved, Kept, Snapshots
<1>9. CASE GetAllStates
  <2>1. \A t \in exists : t \in Types /\ Stamped(t) = last[t]
    BY <1>9, StampedFacts DEF GetAllStates, BudgetInv, TypeInv, FieldsOK
  <2>2. /\ saving' = [t \in exists |->
                        [level |-> level[t], last |-> last[t], granted |-> granted[t]]]
        /\ db' = db /\ now' = now /\ credit' = credit
    BY <1>9 DEF GetAllStates, ghosts
  <2>3. \A t \in exists : after(t, saving'[t])
    BY <2>1, <2>2 DEF BudgetInv, Covered
  <2>4. QED BY <1>b, <2>2, <2>3 DEF Kept, Snapshots
<1>10. ASSUME NEW t \in Types, RefillNext(t) PROVE Snapshots'
  BY <1>10, <1>a, <1>b DEF RefillNext, saved, Kept, Snapshots
<1>11. ASSUME NEW t \in Types, UpsertRateLimitState(t) PROVE Snapshots'
  BY <1>11, <1>a, <1>b DEF UpsertRateLimitState, Kept, Snapshots
<1>12. CASE ResetUserBuckets
  BY <1>12, <1>a, <1>b DEF ResetUserBuckets, saved, Kept, Snapshots
<1>13. ASSUME NEW form \in Forms, UpdateRateLimitConfig(form) PROVE Snapshots'
  BY <1>13, <1>a, <1>b DEF UpdateRateLimitConfig, saved, Kept, Snapshots
<1>14. CASE Tick
  BY <1>14, <1>a, <1>b DEF Tick, saved, Kept, Snapshots
<1>15. CASE LoadStates
  BY <1>15, <1>b DEF LoadStates, Nothing, Kept, Snapshots
<1>16. CASE UNCHANGED vars
  BY <1>16, <1>a, <1>b DEF vars, saved, Kept, Snapshots
<1>17. QED
  BY <1>1, <1>2, <1>3, <1>4, <1>5, <1>6, <1>7, <1>8, <1>9, <1>10, <1>11, <1>12, <1>13, <1>14,
     <1>15, <1>16
    DEF Next, RefillStep

\* Each step keeps the buckets covered.
LEMMA CoveredStep ==
    ASSUME ~Interleaved, BudgetInv, [Next]_vars
    PROVE  Covered'
<1>1. ASSUME NEW g \in Goroutines, RefillRead(g) PROVE Covered'
  <2>1. (\A t \in Types : Stamped(t) = last[t]) /\ OneInside'
    BY <1>1, StampedFacts, InsideStep, GoroutineFacts DEF RefillRead, Free, AllIdle, BudgetInv
  <2>2. (\A t \in Types : Stamped(t) = last[t])'
    <3>1. AllIdle' \/ \E h \in Goroutines : pc'[h] \notin {"idle", "stamp"}
      BY <1>1, GoroutineFacts
        DEF RefillRead, AfterRefill, AllIdle, BudgetInv, OneInside, TypeInv, ControlOK
    <3>2. QED BY <2>1, <3>1, StampedNext
  <2>3. level' = level /\ last' = last /\ granted' = granted /\ credit' = credit
        /\ now' = now /\ exists' = exists
    BY <1>1 DEF RefillRead, fields, ghosts
  <2>4. QED BY <2>1, <2>2, <2>3 DEF BudgetInv, TypeInv, FieldsOK, Covered
<1>2. ASSUME NEW g \in Goroutines, RefillCredit(g) PROVE Covered'
  <2>1. /\ OneInside' /\ pc'[g] = "stamp" /\ bucket[g] \in Types /\ bucket' = bucket
        /\ last' = last /\ granted' = granted /\ credit' = credit /\ now' = now
        /\ exists' = exists
        /\ level' = [level EXCEPT ![bucket[g]] = reg[g]] /\ pc[g] = "credit"
    BY <1>2, InsideStep DEF RefillCredit, ghosts, BudgetInv, TypeInv, ControlOK
  <2>2. \A t \in Types : Stamped(t) = last[t]
    BY <2>1, StampedFacts DEF BudgetInv
  <2>3. (\A t \in Types : Stamped(t) = IF t = bucket[g] THEN now ELSE last[t])'
    BY <2>1, StampedNext
  <2>4. /\ reg[g] >= 0
        /\ reg[g] + granted[bucket[g]] <= credit[bucket[g]] + Allow(bucket[g], now)
    BY <2>1 DEF BudgetInv, Registers
  <2>5. QED BY <2>1, <2>2, <2>3, <2>4 DEF BudgetInv, TypeInv, FieldsOK, Covered
<1>3. ASSUME NEW g \in Goroutines, RefillStamp(g) PROVE Covered'
  <2>1. /\ OneInside' /\ pc[g] = "stamp" /\ bucket[g] \in Types
        /\ last' = [last EXCEPT ![bucket[g]] = now] /\ granted' = granted /\ credit' = credit
        /\ now' = now /\ exists' = exists /\ level' = level
    BY <1>3, InsideStep DEF RefillStamp, ghosts, BudgetInv, TypeInv, ControlOK
  <2>2. \A t \in Types : Stamped(t) = IF t = bucket[g] THEN now ELSE last[t]
    BY <2>1, StampedFacts DEF BudgetInv
  <2>3. (\A t \in Types : Stamped(t) = last[t])'
    <3>1. AllIdle' \/ \E h \in Goroutines : pc'[h] \notin {"idle", "stamp"}
      BY <1>3, GoroutineFacts
        DEF RefillStamp, AfterRefill, AllIdle, BudgetInv, OneInside, TypeInv, ControlOK
    <3>2. QED BY <2>1, <3>1, StampedNext
  <2>4. \A t \in Types : last'[t] = IF t = bucket[g] THEN now ELSE last[t]
    BY <2>1 DEF BudgetInv, TypeInv, FieldsOK
  <2>5. now \in Nat
    BY Numbers DEF BudgetInv
  <2>6. QED BY <2>1, <2>2, <2>3, <2>4, <2>5 DEF BudgetInv, TypeInv, FieldsOK, Covered
<1>4. ASSUME NEW c \in Callers, NEW p \in Profiles, CheckAndConsume(c, p) PROVE Covered'
  <2>1. (\A t \in Types : Stamped(t) = last[t]) /\ OneInside'
    BY <1>4, StampedFacts, InsideStep, GoroutineFacts DEF CheckAndConsume, Free, AllIdle, BudgetInv
  <2>2. (\A t \in Types : Stamped(t) = last[t])'
    <3>1. AllIdle' \/ \E h \in Goroutines : pc'[h] \notin {"idle", "stamp"}
      BY <1>4, GoroutineFacts DEF CheckAndConsume, AllIdle, BudgetInv, OneInside, TypeInv, ControlOK
    <3>2. QED BY <2>1, <3>1, StampedNext
  <2>3. /\ exists' = Types /\ now' = now /\ granted' = granted
        /\ \A t \in Types :
              IF t \in exists
              THEN level'[t] = level[t] /\ last'[t] = last[t] /\ credit'[t] = credit[t]
              ELSE /\ level'[t] = config[t].capacity /\ last'[t] = now
                   /\ credit'[t] = credit[t] + config[t].capacity
    BY <1>4 DEF CheckAndConsume, GetOrCreate, BudgetInv, TypeInv, FieldsOK
  <2>4. \A t \in Types : granted[t] <= credit[t] + Allow(t, now) /\ Allow(t, now) \in Nat
    BY Numbers, AllowFacts DEF BudgetInv, WithinBudget, Allow
  <2>5. QED BY <2>1, <2>2, <2>3, <2>4, Numbers DEF BudgetInv, Covered
<1>5. ASSUME NEW c \in Callers, CanConsume(c) PROVE Covered'
  <2>1. (\A t \in Types : Stamped(t) = last[t]) /\ OneInside'
    BY <1>5, StampedFacts, InsideStep, GoroutineFacts DEF CanConsume, Free, AllIdle, BudgetInv
  <2>2. (\A t \in Types : Stamped(t) = last[t])'
    <3>1. AllIdle' \/ \E h \in Goroutines : pc'[h] \notin {"idle", "stamp"}
      BY <1>5, GoroutineFacts
        DEF CanConsume, NextBucket, AllIdle, BudgetInv, OneInside, TypeInv, ControlOK
    <3>2. QED BY <2>1, <3>1, StampedNext
  <2>3. level' = level /\ last' = last /\ granted' = granted /\ credit' = credit
        /\ now' = now /\ exists' = exists
    BY <1>5 DEF CanConsume, fields, ghosts
  <2>4. QED BY <2>1, <2>2, <2>3 DEF BudgetInv, TypeInv, FieldsOK, Covered
<1>6. ASSUME NEW c \in Callers, Load(c) PROVE Covered'
  <2>1. (\A t \in Types : Stamped(t) = last[t]) /\ OneInside'
    BY <1>6, StampedFacts, InsideStep, GoroutineFacts DEF Load, Free, AllIdle, BudgetInv
  <2>2. (\A t \in Types : Stamped(t) = last[t])'
    <3>1. AllIdle' \/ \E h \in Goroutines : pc'[h] \notin {"idle", "stamp"}
      BY <1>6, GoroutineFacts DEF Load, AllIdle, BudgetInv, OneInside, TypeInv, ControlOK
    <3>2. QED BY <2>1, <3>1, StampedNext
  <2>3. level' = level /\ last' = last /\ granted' = granted /\ credit' = credit
        /\ now' = now /\ exists' = exists
    BY <1>6 DEF Load, fields, ghosts
  <2>4. QED BY <2>1, <2>2, <2>3 DEF BudgetInv, TypeInv, FieldsOK, Covered
<1>7. ASSUME NEW c \in Callers, Store(c) PROVE Covered'
  <2>1. (\A t \in Types : Stamped(t) = last[t]) /\ OneInside'
    BY <1>7, StampedFacts, InsideStep, GoroutineFacts DEF Store, Free, AllIdle, BudgetInv
  <2>2. (\A t \in Types : Stamped(t) = last[t])'
    <3>1. AllIdle' \/ \E h \in Goroutines : pc'[h] \notin {"idle", "stamp"}
      BY <1>7, GoroutineFacts
        DEF Store, NextBucket, AllIdle, BudgetInv, OneInside, TypeInv, ControlOK
    <3>2. QED BY <2>1, <3>1, StampedNext
  <2>3. /\ bucket[c] \in Types /\ pc[c] = "put" /\ Cost(profile[c], bucket[c]) \in Nat
        /\ reg[c] >= 0 /\ reg[c] = level[bucket[c]] - Cost(profile[c], bucket[c])
        /\ exists' = exists /\ now' = now /\ credit' = credit /\ last' = last
    BY <1>7, GoroutineFacts, CostFacts DEF Store, BudgetInv, TypeInv, ControlOK, Registers
  <2>4. \A t \in Types :
           /\ level'[t] = IF t = bucket[c] THEN reg[c] ELSE level[t]
           /\ granted'[t] = IF t = bucket[c]
                            THEN granted[t] + Cost(profile[c], bucket[c]) ELSE granted[t]
    BY <1>7, <2>3 DEF Store, BudgetInv, TypeInv, FieldsOK, GhostsOK
  <2>5. \A t \in Types : level'[t] + granted'[t] = level[t] + granted[t]
    BY <2>3, <2>4, Numbers DEF BudgetInv
  <2>6. \A t \in exists : t \in Types /\ level'[t] >= 0
    BY <2>3, <2>4 DEF BudgetInv, TypeInv, FieldsOK, Covered
  <2>7. QED BY <2>1, <2>2, <2>3, <2>5, <2>6 DEF BudgetInv, Covered
<1>8. CASE RefillAll
  <2>1. /\ level' = level /\ last' = last /\ granted' = granted /\ credit' = credit
        /\ now' = now /\ exists' = exists /\ pc' = pc /\ bucket' = bucket
    BY <1>8 DEF RefillAll, fields, control, ghosts
  <2>2. QED BY <2>1 DEF BudgetInv, Covered, Stamped
<1>9. CASE GetAllStates
  <2>1. /\ level' = level /\ last' = last /\ granted' = granted /\ credit' = credit
        /\ now' = now /\ exists' = exists /\ pc' = pc /\ bucket' = bucket
    BY <1>9 DEF GetAllStates, fields, control, ghosts
  <2>2. QED BY <2>1 DEF BudgetInv, Covered, Stamped
<1>10. ASSUME NEW t \in Types, RefillNext(t) PROVE Covered'
  <2>1. (\A u \in Types : Stamped(u) = last[u]) /\ OneInside'
    BY <1>10, StampedFacts, InsideStep, GoroutineFacts DEF RefillNext, Free, AllIdle, BudgetInv
  <2>2. (\A u \in Types : Stamped(u) = last[u])'
    <3>1. AllIdle' \/ \E h \in Goroutines : pc'[h] \notin {"idle", "stamp"}
      BY <1>10, GoroutineFacts DEF RefillNext, AllIdle, BudgetInv, OneInside, TypeInv, ControlOK
    <3>2. QED BY <2>1, <3>1, StampedNext
  <2>3. level' = level /\ last' = last /\ granted' = granted /\ credit' = credit
        /\ now' = now /\ exists' = exists
    BY <1>10 DEF RefillNext, fields, ghosts
  <2>4. QED BY <2>1, <2>2, <2>3 DEF BudgetInv, TypeInv, FieldsOK, Covered
<1>11. ASSUME NEW t \in Types, UpsertRateLimitState(t) PROVE Covered'
  <2>1. /\ level' = level /\ last' = last /\ granted' = granted /\ credit' = credit
        /\ now' = now /\ exists' = exists /\ pc' = pc /\ bucket' = bucket
    BY <1>11 DEF UpsertRateLimitState, fields, control, ghosts
  <2>2. QED BY <2>1 DEF BudgetInv, Covered, Stamped
<1>12. CASE ResetUserBuckets
  <2>1. /\ \A t \in Types : Stamped(t) = last[t]
        /\ (\A t \in Types : Stamped(t) = last[t])'
    <3>1. OneInside' /\ AllIdle /\ AllIdle'
      BY <1>12, InsideStep DEF ResetUserBuckets, control, AllIdle
    <3>2. QED BY <3>1, StampedFacts, StampedNext DEF BudgetInv
  <2>2. /\ now' = now /\ granted' = granted /\ exists' = exists
        /\ \A t \in exists :
              /\ t \in Types /\ level'[t] = capacity[t] /\ last'[t] = now
              /\ credit'[t] = IF level[t] < capacity[t] THEN credit[t] + capacity[t] - level[t]
                              ELSE credit[t]
    BY <1>12 DEF ResetUserBuckets, BudgetInv, TypeInv, FieldsOK
  <2>3. \A t \in exists : /\ level[t] + granted[t] <= credit[t] + Allow(t, last[t])
                          /\ last[t] <= now
    BY <2>1, <2>2 DEF BudgetInv, Covered
  <2>4. \A t \in exists : /\ Allow(t, last[t]) \in Nat /\ Allow(t, now) \in Nat
                          /\ Allow(t, last[t]) <= Allow(t, now)
    BY <2>2, <2>3, Numbers, AllowFacts DEF BudgetInv
  <2>5. ASSUME NEW t \in exists
        PROVE  /\ level'[t] >= 0 /\ last'[t] <= now
               /\ level'[t] + granted[t] <= credit'[t] + Allow(t, now)
    BY <2>2, <2>3, <2>4, Numbers DEF BudgetInv
  <2>6. QED BY <2>1, <2>2, <2>5 DEF Covered
<1>13. ASSUME NEW form \in Forms, UpdateRateLimitConfig(form) PROVE Covered'
  <2>1. /\ level' = level /\ last' = last /\ granted' = granted /\ credit' = credit
        /\ now' = now /\ exists' = exists /\ pc' = pc /\ bucket' = bucket
    BY <1>13 DEF UpdateRateLimitConfig, fields, control, ghosts
  <2>2. QED BY <2>1 DEF BudgetInv, Covered, Stamped
<1>14. CASE Tick
  <2>1. /\ \A t \in Types : Stamped(t) = last[t]
        /\ (\A t \in Types : Stamped(t) = last[t])'
    <3>1. OneInside' /\ AllIdle /\ AllIdle'
      BY <1>14, InsideStep DEF Tick, control, AllIdle
    <3>2. QED BY <3>1, StampedFacts, StampedNext DEF BudgetInv
  <2>2. /\ level' = level /\ last' = last /\ granted' = granted /\ credit' = credit
        /\ now' = now + 1 /\ exists' = exists
    BY <1>14 DEF Tick, fields, ghosts
  <2>3. QED BY <2>1, <2>2, Numbers DEF BudgetInv, TypeInv, FieldsOK, Covered
<1>15. CASE LoadStates
  <2>1. (\A t \in Types : Stamped(t) = last[t])'
    <3>1. OneInside' /\ AllIdle'
      BY <1>15, InsideStep DEF LoadStates, AllIdle
    <3>2. QED BY <3>1, StampedNext
  <2>2. \A t \in DOMAIN db : /\ t \in Types /\ db[t].level \in Int /\ db[t].last \in Nat
                             /\ db[t].granted \in Nat
    BY DEF BudgetInv, TypeInv, SavedOK, States
  <2>3. /\ now' = now /\ granted' = granted /\ exists' = DOMAIN db
        /\ \A t \in DOMAIN db :
              /\ level'[t] = db[t].level /\ last'[t] = db[t].last
              /\ credit'[t] = credit[t] + granted[t] - db[t].granted
    BY <1>15, <2>2 DEF LoadStates
  <2>4. \A t \in DOMAIN db :
           /\ db[t].level >= 0 /\ db[t].last <= now
           /\ db[t].level + db[t].granted <= credit[t] + Allow(t, db[t].last)
           /\ Allow(t, db[t].last) \in Nat
    BY <2>2, AllowFacts DEF BudgetInv, Snapshots, Kept
  <2>5. \A t \in DOMAIN db :
           level'[t] + granted[t] <= credit'[t] + Allow(t, last'[t])
    BY <2>2, <2>3, <2>4, Numbers DEF BudgetInv
  <2>6. QED BY <2>1, <2>2, <2>3, <2>4, <2>5 DEF Covered
<1>16. CASE UNCHANGED vars
  <2>1. /\ level' = level /\ last' = last /\ granted' = granted /\ credit' = credit
        /\ now' = now /\ exists' = exists /\ pc' = pc /\ bucket' = bucket
    BY <1>16 DEF vars, fields, control, ghosts
  <2>2. QED BY <2>1 DEF BudgetInv, Covered, Stamped
<1>17. QED
  BY <1>1, <1>2, <1>3, <1>4, <1>5, <1>6, <1>7, <1>8, <1>9, <1>10, <1>11, <1>12, <1>13, <1>14,
     <1>15, <1>16
    DEF Next, RefillStep

\* Each step keeps covered what goroutines are about to store.
LEMMA RegistersStep ==
    ASSUME ~Interleaved, BudgetInv, [Next]_vars
    PROVE  Registers'
<1>1. ASSUME NEW g \in Goroutines, RefillRead(g) PROVE Registers'
  <2> DEFINE t == bucket[g]
             units == Units(t)
  <2>1. /\ t \in Types /\ pc[g] = "refill" /\ bucket' = bucket /\ now' = now
        /\ granted' = granted /\ credit' = credit /\ t \in exists
    BY <1>1, GoroutineFacts
      DEF RefillRead, ghosts, BudgetInv, TypeInv, ControlOK, InsideExists, Goroutines
  <2>2. \A h \in Goroutines : h # g => pc'[h] = "idle"
    BY <1>1 DEF RefillRead, BudgetInv, OneInside, TypeInv, ControlOK
  <2>3. CASE pc'[g] # "credit"
    <3>1. pc'[g] \in {"idle", "check"}
      BY <1>1, <2>3 DEF RefillRead, AfterRefill, BudgetInv, TypeInv, ControlOK
    <3>2. QED BY <2>2, <3>1 DEF Registers
  <2>4. CASE pc'[g] = "credit"
    <3>1. units > 0 /\ reg'[g] = Min({capacity[t], level[t] + units})
      BY <1>1, <2>4 DEF RefillRead, AfterRefill, BudgetInv, TypeInv, ControlOK
    <3>2. units \in Int
      BY <2>1, UnitsFacts DEF BudgetInv, TypeInv
    <3>3. /\ level[t] >= 0 /\ last[t] <= now
          /\ level[t] + granted[t] <= credit[t] + Allow(t, last[t])
      BY <2>1, StampedFacts DEF BudgetInv, Covered
    <3>4. refillRate[t] <= MaxRate(t)
      BY <2>1 DEF BudgetInv, Rates
    <3>5. /\ Allow(t, last[t]) + units <= Allow(t, now)
          /\ Allow(t, last[t]) \in Nat /\ Allow(t, now) \in Nat
      BY <2>1, <3>3, <3>4, Numbers, AllowFacts DEF Units, BudgetInv
    <3>6. /\ level[t] \in Int /\ capacity[t] \in Nat /\ granted[t] \in Nat /\ credit[t] \in Nat
      BY <2>1, Numbers DEF BudgetInv
    <3> HIDE DEF units, t
    <3>7. /\ reg'[g] = IF capacity[t] <= level[t] + units THEN capacity[t] ELSE level[t] + units
      BY <3>1, <3>2, <3>6, MinTwo
    <3>8. reg'[g] >= 0 /\ reg'[g] + granted[t] <= credit[t] + Allow(t, now)
      BY <3>1, <3>2, <3>3, <3>5, <3>6, <3>7
    <3>9. QED BY <2>1, <2>2, <2>4, <3>8 DEF Registers, t
  <2>5. QED BY <2>3, <2>4
<1>2. ASSUME NEW g \in Goroutines, RefillCredit(g) PROVE Registers'
  <2>1. \A h \in Goroutines : pc'[h] \notin {"credit", "take", "put"}
    BY <1>2, GoroutineFacts DEF RefillCredit, BudgetInv, OneInside, TypeInv, ControlOK
  <2>2. QED BY <2>1 DEF Registers
<1>3. ASSUME NEW g \in Goroutines, RefillStamp(g) PROVE Registers'
  <2>1. \A h \in Goroutines : pc'[h] \notin {"credit", "take", "put"}
    BY <1>3, GoroutineFacts DEF RefillStamp, AfterRefill, BudgetInv, OneInside, TypeInv, ControlOK
  <2>2. QED BY <2>1 DEF Registers
<1>4. ASSUME NEW c \in Callers, NEW p \in Profiles, CheckAndConsume(c, p) PROVE Registers'
  <2>1. \A h \in Goroutines : pc'[h] \notin {"credit", "take", "put"}
    BY <1>4, GoroutineFacts DEF CheckAndConsume, Free, BudgetInv, OneInside, TypeInv, ControlOK
  <2>2. QED BY <2>1 DEF Registers
<1>5. ASSUME NEW c \in Callers, CanConsume(c) PROVE Registers'
  <2>1. /\ level' = level /\ profile' = profile
        /\ \A h \in Goroutines : h # c => pc'[h] = "idle"
        /\ pc'[c] \in {"take", "refill", "idle"}
        /\ pc'[c] = "take" => bucket'[c] = bucket[c]
                              /\ level[bucket[c]] >= Cost(profile[c], bucket[c])
    BY <1>5, GoroutineFacts
      DEF CanConsume, NextBucket, fields, BudgetInv, OneInside, TypeInv, ControlOK
  <2>2. QED BY <2>1 DEF Registers
<1>6. ASSUME NEW c \in Callers, Load(c) PROVE Registers'
  <2>1. /\ level' = level /\ profile' = profile /\ bucket' = bucket
        /\ \A h \in Goroutines : h # c => pc'[h] = "idle"
        /\ pc'[c] = "put" /\ pc[c] = "take" /\ bucket[c] \in Types
        /\ reg'[c] = level[bucket[c]] - Cost(profile[c], bucket[c])
    BY <1>6, GoroutineFacts DEF Load, fields, BudgetInv, OneInside, TypeInv, ControlOK
  <2>2. level[bucket[c]] \in Int /\ Cost(profile[c], bucket[c]) \in Nat
    BY <2>1, Numbers, CostFacts DEF BudgetInv, TypeInv, ControlOK
  <2>3. level[bucket[c]] >= Cost(profile[c], bucket[c])
    BY <2>1, GoroutineFacts DEF BudgetInv, Registers
  <2>4. reg'[c] >= 0
    BY <2>1, <2>2, <2>3
  <2>5. QED BY <2>1, <2>4 DEF Registers
<1>7. ASSUME NEW c \in Callers, Store(c) PROVE Registers'
  <2>1. \A h \in Goroutines : pc'[h] \notin {"credit", "take", "put"}
    BY <1>7, GoroutineFacts DEF Store, NextBucket, BudgetInv, OneInside, TypeInv, ControlOK
  <2>2. QED BY <2>1 DEF Registers
<1>8. CASE RefillAll
  <2>1. \A h \in Goroutines : pc'[h] \notin {"credit", "take", "put"}
    BY <1>8, GoroutineFacts DEF RefillAll, Free, control, BudgetInv, OneInside, TypeInv, ControlOK
  <2>2. QED BY <2>1 DEF Registers
<1>9. CASE GetAllStates
  <2>1. /\ level' = level /\ granted' = granted /\ credit' = credit /\ profile' = profile
        /\ now' = now /\ pc' = pc /\ bucket' = bucket /\ reg' = reg
    BY <1>9 DEF GetAllStates, fields, control, ghosts
  <2>2. QED BY <2>1 DEF BudgetInv, Registers
<1>10. ASSUME NEW t \in Types, RefillNext(t) PROVE Registers'
  <2>1. \A h \in Goroutines : pc'[h] \notin {"credit", "take", "put"}
    BY <1>10, GoroutineFacts DEF RefillNext, Free, BudgetInv, OneInside, TypeInv, ControlOK
  <2>2. QED BY <2>1 DEF Registers
<1>11. ASSUME NEW t \in Types, UpsertRateLimitState(t) PROVE Registers'
  <2>1. /\ level' = level /\ granted' = granted /\ credit' = credit /\ profile' = profile
        /\ now' = now /\ pc' = pc /\ bucket' = bucket /\ reg' = reg
    BY <1>11 DEF UpsertRateLimitState, fields, control, ghosts
  <2>2. QED BY <2>1 DEF BudgetInv, Registers
<1>12. CASE ResetUserBuckets
  <2>1. \A h \in Goroutines : pc'[h] \notin {"credit", "take", "put"}
    BY <1>12, GoroutineFacts
      DEF ResetUserBuckets, AllIdle, control, BudgetInv, OneInside, TypeInv, ControlOK
  <2>2. QED BY <2>1 DEF Registers
<1>13. ASSUME NEW form \in Forms, UpdateRateLimitConfig(form) PROVE Registers'
  <2>1. /\ level' = level /\ granted' = granted /\ credit' = credit /\ profile' = profile
        /\ now' = now /\ pc' = pc /\ bucket' = bucket /\ reg' = reg
    BY <1>13 DEF UpdateRateLimitConfig, fields, control, ghosts
  <2>2. QED BY <2>1 DEF BudgetInv, Registers
<1>14. CASE Tick
  <2>1. \A h \in Goroutines : pc'[h] \notin {"credit", "take", "put"}
    BY <1>14, GoroutineFacts DEF Tick, AllIdle, control, BudgetInv, OneInside, TypeInv, ControlOK
  <2>2. QED BY <2>1 DEF Registers
<1>15. CASE LoadStates
  <2>1. \A h \in Goroutines : pc'[h] \notin {"credit", "take", "put"}
    BY <1>15, GoroutineFacts DEF LoadStates, BudgetInv, OneInside, TypeInv, ControlOK
  <2>2. QED BY <2>1 DEF Registers
<1>16. CASE UNCHANGED vars
  <2>1. /\ level' = level /\ granted' = granted /\ credit' = credit /\ profile' = profile
        /\ now' = now /\ pc' = pc /\ bucket' = bucket /\ reg' = reg
    BY <1>16 DEF vars, fields, control, ghosts
  <2>2. QED BY <2>1 DEF BudgetInv, Registers
<1>17. QED
  BY <1>1, <1>2, <1>3, <1>4, <1>5, <1>6, <1>7, <1>8, <1>9, <1>10, <1>11, <1>12, <1>13, <1>14,
     <1>15, <1>16
    DEF Next, RefillStep

\* No step takes more than is covered.
LEMMA WithinStep ==
    ASSUME ~Interleaved, BudgetInv, [Next]_vars
    PROVE  WithinBudget'
<1>a. ASSUME granted' = granted PROVE WithinBudget'
  <2>1. \A t \in Types : /\ Allow(t, now) <= Allow(t, now')
                         /\ Allow(t, now) \in Nat /\ Allow(t, now') \in Nat
    BY GrowthStep, Numbers, AllowFacts DEF BudgetInv, Grows
  <2>2. \A t \in Types : granted[t] <= credit[t] + Allow(t, now)
    BY DEF BudgetInv, WithinBudget, Allow
  <2>3. \A t \in Types : granted'[t] <= credit'[t] + Allow(t, now')
    BY <1>a, <2>1, <2>2, GrowthStep, Numbers DEF BudgetInv, Grows
  <2>4. QED BY <2>3 DEF WithinBudget, Allow
<1>1. ASSUME NEW g \in Goroutines, RefillRead(g) PROVE WithinBudget'
  BY <1>1, <1>a DEF RefillRead, ghosts
<1>2. ASSUME NEW g \in Goroutines, RefillCredit(g) PROVE WithinBudget'
  BY <1>2, <1>a DEF RefillCredit, ghosts
<1>3. ASSUME NEW g \in Goroutines, RefillStamp(g) PROVE WithinBudget'
  BY <1>3, <1>a DEF RefillStamp, ghosts
<1>4. ASSUME NEW c \in Callers, NEW p \in Profiles, CheckAndConsume(c, p) PROVE WithinBudget'
  BY <1>4, <1>a DEF CheckAndConsume
<1>5. ASSUME NEW c \in Callers, CanConsume(c) PROVE WithinBudget'
  BY <1>5, <1>a DEF CanConsume, ghosts
<1>6. ASSUME NEW c \in Callers, Load(c) PROVE WithinBudget'
  BY <1>6, <1>a DEF Load, ghosts
<1>7. ASSUME NEW c \in Callers, Store(c) PROVE WithinBudget'
  <2>1. /\ bucket[c] \in Types /\ pc[c] = "put" /\ Cost(profile[c], bucket[c]) \in Nat
        /\ reg[c] >= 0 /\ reg[c] = level[bucket[c]] - Cost(profile[c], bucket[c])
        /\ exists = Types /\ now' = now /\ credit' = credit
    BY <1>7, GoroutineFacts, CostFacts
      DEF Store, BudgetInv, TypeInv, ControlOK, Registers, InsideExists
  <2>2. \A t \in Types :
           /\ level[t] + granted[t] <= credit[t] + Allow(t, last[t])
           /\ level[t] >= 0 /\ last[t] <= now
    BY <2>1, GoroutineFacts, StampedFacts DEF BudgetInv, Covered
  <2>3. \A t \in Types : /\ Allow(t, last[t]) <= Allow(t, now)
                         /\ Allow(t, last[t]) \in Nat /\ Allow(t, now) \in Nat
    BY <2>2, Numbers, AllowFacts DEF BudgetInv
  <2>4. \A t \in Types :
           granted'[t] = IF t = bucket[c]
                         THEN granted[t] + Cost(profile[c], bucket[c]) ELSE granted[t]
    BY <1>7, <2>1 DEF Store, BudgetInv, TypeInv, GhostsOK
  <2>5. \A t \in Types : granted'[t] <= credit[t] + Allow(t, now)
    BY <2>1, <2>2, <2>3, <2>4, Numbers DEF BudgetInv
  <2>6. QED BY <2>1, <2>5 DEF WithinBudget, Allow
<1>8. CASE RefillAll
  BY <1>8, <1>a DEF RefillAll, ghosts
<1>9. CASE GetAllStates
  BY <1>9, <1>a DEF GetAllStates, ghosts
<1>10. ASSUME NEW t \in Types, RefillNext(t) PROVE WithinBudget'
  BY <1>10, <1>a DEF RefillNext, ghosts
<1>11. ASSUME NEW t \in Types, UpsertRateLimitState(t) PROVE WithinBudget'
  BY <1>11, <1>a DEF UpsertRateLimitState, ghosts
<1>12. CASE ResetUserBuckets
  BY <1>12, <1>a DEF ResetUserBuckets
<1>13. ASSUME NEW form \in Forms, UpdateRateLimitConfig(form) PROVE WithinBudget'
  BY <1>13, <1>a DEF UpdateRateLimitConfig, ghosts
<1>14. CASE Tick
  BY <1>14, <1>a DEF Tick, ghosts
<1>15. CASE LoadStates
  BY <1>15, <1>a DEF LoadStates
<1>16. CASE UNCHANGED vars
  BY <1>16, <1>a DEF vars, ghosts
<1>17. QED
  BY <1>1, <1>2, <1>3, <1>4, <1>5, <1>6, <1>7, <1>8, <1>9, <1>10, <1>11, <1>12, <1>13, <1>14,
     <1>15, <1>16
    DEF Next, RefillStep

\* The budget holds of the first state.
LEMMA InitBudget == Init => BudgetInv
<1> SUFFICES ASSUME Init PROVE BudgetInv
  OBVIOUS
<1>1. TypeInv
  BY InitTypes
<1>2. OneInside /\ InsideExists
  BY GoroutineFacts DEF Init, OneInside, InsideExists
<1>3. Rates
  BY MaxRateFacts DEF Init, Rates, Zero
<1>4. Covered /\ Snapshots /\ Registers
  BY DEF Init, Covered, Snapshots, Registers, Nothing
<1>5. WithinBudget
  <2>1. \A t \in Types : granted[t] = 0 /\ credit[t] = 0 /\ Allow(t, now) \in Nat
    BY AllowFacts DEF Init, Zero
  <2>2. QED BY <2>1 DEF WithinBudget, Allow
<1>6. QED BY <1>1, <1>2, <1>3, <1>4, <1>5 DEF BudgetInv

\* Where goroutines do not meet in the buckets, every step preserves the budget.
LEMMA BudgetStep ==
    ASSUME ~Interleaved, BudgetInv, [Next]_vars
    PROVE  BudgetInv'
<1>1. TypeInv'
  BY TypeStep DEF BudgetInv
<1>2. QED
  BY <1>1, InsideStep, RatesStep, CoveredStep, SnapshotsStep, RegistersStep, WithinStep
    DEF BudgetInv

\* Where goroutines do not meet in the buckets, no calls take more than the capacity, the
\* resets, what restarts forgot and the configured rate allow: the ticker, the refill in
\* Consume and the refill after a restart never credit the same second twice.
THEOREM RateLimitBudget ==
    ASSUME ~Interleaved
    PROVE  Spec => []WithinBudget
<1>1. BudgetInv => WithinBudget
  BY DEF BudgetInv
<1>2. BudgetInv /\ [Next]_vars => BudgetInv'
  BY BudgetStep
<1>3. QED BY InitBudget, <1>1, <1>2, PTL DEF Spec

-----------------------------------------------------------------------------
(* Refills that round down, where goroutines do not meet.                  *)

\* The time after which Refill credits something, and the time in which a bucket
\* gains a unit.
Wait(rate) == Second * WholeSeconds(rate)
Period(rate) == Second * (WholeSeconds(rate) + 2)

\* A bucket that had bs units at time sn is full, or has gained a unit for every period
\* that has begun by time x.
Paid(cap, bs, sn, period, lv, x) ==
    \E j \in Nat : (lv >= cap \/ lv >= bs + j) /\ x <= sn + j * period

Rising == \A t \in exists : refillRate[t] >= 1 /\ since[t] <= now

PaidUp ==
    /\ \A t \in exists :
          Paid(capacity[t], base[t], since[t], Period(refillRate[t]), level[t], Stamped(t))
    /\ \A g \in Goroutines : pc[g] = "credit" =>
          Paid(capacity[bucket[g]], base[bucket[g]], since[bucket[g]],
               Period(refillRate[bucket[g]]), reg[g], now)

\* The ticker has been at the bucket since its channel fired, or had nothing to do
\* yet.
Visited(t) == ticked /\ t \notin todo /\ ~(pc[Ticker] # "idle" /\ bucket[Ticker] = t)

\* The ticker came, or was due, this long ago at most.
Late(t) == IF Visited(t) THEN beat ELSE beat + Second

\* When the ticker came last, less time was uncredited than Refill needs; or the bridge
\* has only just started again.
Timely(x, stamped, sn, wait, late) == x - stamped < wait + late \/ x - sn <= late

Due ==
    \A t \in exists : Timely(now, Stamped(t), since[t], Wait(refillRate[t]), Late(t))

KeepInv == BudgetInv /\ Rising /\ PaidUp /\ Due

\* WholeSeconds is the least number of seconds for which Refill credits something.
LEMMA WholeSecondsFacts ==
    ASSUME NEW rate \in Nat, rate >= 1
    PROVE  /\ WholeSeconds(rate) \in Nat /\ WholeSeconds(rate) >= 1
           /\ \A d \in Nat : (d * rate) \div Minute <= 0 => d < WholeSeconds(rate)
<1> DEFINE per == WholeSeconds(rate)
<1>1. Minute \in Nat \ {0}
  BY ClockAssumption
<1>2. per \in Int /\ Minute + rate - 1 < rate * per + rate
  BY <1>1, DivBound DEF WholeSeconds
<1> HIDE DEF per
<1>3. Minute <= rate * per
  BY <1>1, <1>2
<1>4. rate * 0 < rate * per
  BY <1>1, <1>2, <1>3
<1>5. 0 < per
  BY <1>2, <1>4, TimesLess
<1>6. ASSUME NEW d \in Nat, (d * rate) \div Minute <= 0 PROVE d < per
  <2>1. d * rate \in Int /\ d * rate < Minute * ((d * rate) \div Minute) + Minute
        /\ (d * rate) \div Minute \in Int
    BY <1>1, DivBound
  <2>2. Minute * ((d * rate) \div Minute) <= 0
    BY <1>1, <1>6, <2>1
  <2>3. rate * d < rate * per
    BY <1>1, <1>2, <1>3, <2>1, <2>2
  <2>4. QED BY <1>2, <2>3, TimesLess
<1>7. QED BY <1>2, <1>5, <1>6 DEF per

\* Wait is the least time for which Refill credits something.
LEMMA PeriodFacts ==
    ASSUME NEW rate \in Nat, rate >= 1
    PROVE  /\ Wait(rate) \in Nat /\ Wait(rate) >= 1
           /\ Period(rate) \in Nat /\ Period(rate) = Wait(rate) + 2 * Second
           /\ \A d \in Nat : ((d \div Second) * rate) \div Minute <= 0 => d < Wait(rate)
<1> DEFINE w == WholeSeconds(rate)
<1>1. Second \in Nat \ {0}
  BY ClockAssumption
<1>2. w \in Nat /\ w >= 1
  BY WholeSecondsFacts
<1> HIDE DEF w
<1>3. Second * w \in Nat /\ Second * w >= 1 /\ Second * (w + 2) = Second * w + 2 * Second
  BY <1>1, <1>2
<1>4. ASSUME NEW d \in Nat, ((d \div Second) * rate) \div Minute <= 0
      PROVE  d < Second * w
  <2> DEFINE q == d \div Second
  <2>1. q \in Int /\ Second * q <= d /\ d < Second * q + Second
    BY <1>1, DivBound
  <2>2. q \in Nat
    <3>1. Second * (-1) < Second * q
      BY <1>1, <2>1
    <3>2. -1 < q
      BY <1>1, <2>1, <3>1, TimesLess
    <3>3. QED BY <2>1, <3>2
  <2>3. q < w
    BY <1>4, <2>2, WholeSecondsFacts DEF w
  <2> HIDE DEF q
  <2>4. Second * (q + 1) <= Second * w
    BY <1>1, <1>2, <2>2, <2>3
  <2>5. QED BY <1>1, <1>2, <2>1, <2>2, <2>4
<1>5. \A d \in Nat : ((d \div Second) * rate) \div Minute <= 0 => d < Second * w
  BY <1>4
<1>6. Wait(rate) = Second * w /\ Period(rate) = Second * (w + 2)
  BY DEF Wait, Period, w
<1>7. /\ Wait(rate) \in Nat /\ Wait(rate) >= 1
      /\ Period(rate) \in Nat /\ Period(rate) = Wait(rate) + 2 * Second
  BY <1>1, <1>3, <1>6
<1>8. QED BY <1>5, <1>6, <1>7, Zenon

\* The ticker is less than two seconds late.
LEMMA LateFacts ==
    ASSUME KeepInv, NEW t \in Types
    PROVE  Late(t) \in Nat /\ Late(t) < 2 * Second /\ beat \in Nat
BY ClockAssumption DEF KeepInv, BudgetInv, TypeInv, ControlOK, Late

\* A step that makes the ticker no less late keeps a bucket's due.
LEMMA LateFrame ==
    ASSUME KeepInv, NEW t \in Types, beat' = beat, Visited(t)' => Visited(t)
    PROVE  Late(t)' \in Nat /\ Late(t) <= Late(t)'
<1>1. beat \in Nat /\ Second \in Nat
  BY LateFacts, ClockAssumption
<1>2. Late(t) = (IF Visited(t) THEN beat ELSE beat + Second)
  BY DEF Late
<1>3. Late(t)' = (IF Visited(t)' THEN beat' ELSE beat' + Second)
  BY DEF Late
<1>4. QED BY <1>1, <1>2, <1>3

\* A bucket that is set starts anew.
LEMMA PaidAnew ==
    ASSUME NEW cap \in Nat, NEW bs \in Int, NEW sn \in Nat, NEW period \in Nat, NEW x \in Nat,
           x <= sn
    PROVE  Paid(cap, bs, sn, period, bs, x)
<1>1. bs >= bs + 0 /\ x <= sn + 0 * period
  OBVIOUS
<1>2. QED BY <1>1 DEF Paid

\* A refill that credits something pays for the period that has begun.
LEMMA PaidMore ==
    ASSUME NEW cap \in Nat, NEW bs \in Int, NEW sn \in Nat, NEW period \in Nat, NEW lv \in Int,
           NEW x \in Nat, NEW y \in Nat, NEW units \in Int, units > 0,
           y - x <= period \/ y - sn <= period,
           Paid(cap, bs, sn, period, lv, x)
    PROVE  Paid(cap, bs, sn, period, Min({cap, lv + units}), y)
<1>1. PICK j \in Nat : (lv >= cap \/ lv >= bs + j) /\ x <= sn + j * period
  BY DEF Paid
<1>2. j * period \in Nat /\ (j + 1) * period = j * period + period
  OBVIOUS
<1>3. y <= sn + (j + 1) * period
  BY <1>1, <1>2
<1>4. Min({cap, lv + units}) = IF cap <= lv + units THEN cap ELSE lv + units
  BY MinTwo
<1>5. Min({cap, lv + units}) >= cap \/ Min({cap, lv + units}) >= bs + (j + 1)
  BY <1>1, <1>4
<1>6. j + 1 \in Nat
  OBVIOUS
<1>7. QED BY <1>3, <1>5, <1>6 DEF Paid

\* Each bucket has a rate, and was last set in the past.
LEMMA RisingStep ==
    ASSUME ~Interleaved, KeepInv, [Next]_vars
    PROVE  Rising'
<1>1. ASSUME NEW g \in Goroutines, RefillRead(g) PROVE Rising'
  <2>1. refillRate' = refillRate /\ since' = since /\ exists' = exists /\ now' = now
    BY <1>1 DEF RefillRead, fields, ghosts
  <2>2. QED BY <2>1 DEF KeepInv, Rising
<1>2. ASSUME NEW g \in Goroutines, RefillCredit(g) PROVE Rising'
  <2>1. refillRate' = refillRate /\ since' = since /\ exists' = exists /\ now' = now
    BY <1>2 DEF RefillCredit, ghosts
  <2>2. QED BY <2>1 DEF KeepInv, Rising
<1>3. ASSUME NEW g \in Goroutines, RefillStamp(g) PROVE Rising'
  <2>1. refillRate' = refillRate /\ since' = since /\ exists' = exists /\ now' = now
    BY <1>3 DEF RefillStamp, ghosts
  <2>2. QED BY <2>1 DEF KeepInv, Rising
<1>4. ASSUME NEW c \in Callers, NEW p \in Profiles, CheckAndConsume(c, p) PROVE Rising'
  <2>1. \A t \in Types : /\ refillRate'[t] = IF t \in exists THEN refillRate[t]
                                             ELSE config[t].refillRate
                         /\ since'[t] = IF t \in exists THEN since[t] ELSE now
    BY <1>4 DEF CheckAndConsume, GetOrCreate
  <2>2. exists' = Types /\ now' = now
    BY <1>4 DEF CheckAndConsume, GetOrCreate, KeepInv, BudgetInv, TypeInv, FieldsOK
  <2>3. QED BY <2>1, <2>2, Numbers DEF KeepInv, BudgetInv, Rising
<1>5. ASSUME NEW c \in Callers, CanConsume(c) PROVE Rising'
  <2>1. refillRate' = refillRate /\ since' = since /\ exists' = exists /\ now' = now
    BY <1>5 DEF CanConsume, fields, ghosts
  <2>2. QED BY <2>1 DEF KeepInv, Rising
<1>6. ASSUME NEW c \in Callers, Load(c) PROVE Rising'
  <2>1. refillRate' = refillRate /\ since' = since /\ exists' = exists /\ now' = now
    BY <1>6 DEF Load, fields, ghosts
  <2>2. QED BY <2>1 DEF KeepInv, Rising
<1>7. ASSUME NEW c \in Callers, Store(c) PROVE Rising'
  <2>1. /\ refillRate' = refillRate /\ exists' = exists /\ now' = now
        /\ \A t \in Types : since'[t] \in {since[t], now}
    BY <1>7 DEF Store, Touch, KeepInv, BudgetInv, TypeInv, GhostsOK
  <2>2. QED BY <2>1, Numbers DEF KeepInv, BudgetInv, TypeInv, FieldsOK, Rising
<1>8. CASE RefillAll
  <2>1. refillRate' = refillRate /\ since' = since /\ exists' = exists /\ now' = now
    BY <1>8 DEF RefillAll, fields, ghosts
  <2>2. QED BY <2>1 DEF KeepInv, Rising
<1>9. CASE GetAllStates
  <2>1. refillRate' = refillRate /\ since' = since /\ exists' = exists /\ now' = now
    BY <1>9 DEF GetAllStates, fields, ghosts
  <2>2. QED BY <2>1 DEF KeepInv, Rising
<1>10. ASSUME NEW t \in Types, RefillNext(t) PROVE Rising'
  <2>1. refillRate' = refillRate /\ since' = since /\ exists' = exists /\ now' = now
    BY <1>10 DEF RefillNext, fields, ghosts
  <2>2. QED BY <2>1 DEF KeepInv, Rising
<1>11. ASSUME NEW t \in Types, UpsertRateLimitState(t) PROVE Rising'
  <2>1. refillRate' = refillRate /\ since' = since /\ exists' = exists /\ now' = now
    BY <1>11 DEF UpsertRateLimitState, fields, ghosts
  <2>2. QED BY <2>1 DEF KeepInv, Rising
<1>12. CASE ResetUserBuckets
  <2>1. /\ refillRate' = refillRate /\ exists' = exists /\ now' = now
        /\ \A t \in Types : since'[t] \in {since[t], now}
    BY <1>12 DEF ResetUserBuckets
  <2>2. QED BY <2>1, Numbers DEF KeepInv, BudgetInv, TypeInv, FieldsOK, Rising
<1>13. ASSUME NEW form \in Forms, UpdateRateLimitConfig(form) PROVE Rising'
  <2>1. refillRate' = refillRate /\ since' = since /\ exists' = exists /\ now' = now
    BY <1>13 DEF UpdateRateLimitConfig, fields, ghosts
  <2>2. QED BY <2>1 DEF KeepInv, Rising
<1>14. CASE Tick
  <2>1. refillRate' = refillRate /\ exists' = exists /\ since' = since /\ now' = now + 1
    BY <1>14 DEF Tick, fields, ghosts
  <2>2. QED BY <2>1, Numbers DEF KeepInv, BudgetInv, TypeInv, FieldsOK, Rising
<1>15. CASE LoadStates
  <2>1. /\ exists' = DOMAIN db /\ now' = now
        /\ \A t \in Types : since'[t] = now
        /\ \A t \in DOMAIN db : t \in Types
    BY <1>15 DEF LoadStates, KeepInv, BudgetInv, TypeInv, SavedOK
  <2>2. \A t \in DOMAIN db : refillRate'[t] = DefaultConfig[t].refillRate
    BY <1>15, <2>1 DEF LoadStates
  <2>3. \A t \in Types : DefaultConfig[t].refillRate \in Nat \ {0}
    BY ConfigAssumption DEF BucketConfigs
  <2>4. QED BY <2>1, <2>2, <2>3, Numbers DEF KeepInv, BudgetInv, Rising
<1>16. CASE UNCHANGED vars
  <2>1. refillRate' = refillRate /\ since' = since /\ exists' = exists /\ now' = now
    BY <1>16 DEF vars, fields, ghosts
  <2>2. QED BY <2>1 DEF KeepInv, Rising
<1>17. QED
  BY <1>1, <1>2, <1>3, <1>4, <1>5, <1>6, <1>7, <1>8, <1>9, <1>10, <1>11, <1>12, <1>13, <1>14,
     <1>15, <1>16
    DEF Next, RefillStep

\* Where the buckets stay as they are and nobody is between the stores of a refill, and
\* where nobody moves, the time up to which a bucket is refilled stays.
LEMMA StampedFrame ==
    ASSUME ~Interleaved, KeepInv, [Next]_vars, pc' = pc, bucket' = bucket, last' = last,
           now' = now
    PROVE  \A t \in Types : Stamped(t)' = Stamped(t)
BY DEF Stamped

\* Each step keeps the buckets paid up.
LEMMA PaidStep ==
    ASSUME ~Interleaved, KeepInv, [Next]_vars
    PROVE  PaidUp'
<1>1. ASSUME NEW g \in Goroutines, RefillRead(g) PROVE PaidUp'
  <2>1. (\A t \in Types : Stamped(t) = last[t]) /\ OneInside'
    BY <1>1, StampedFacts, InsideStep, GoroutineFacts
      DEF RefillRead, Free, AllIdle, KeepInv, BudgetInv
  <2>2. (\A t \in Types : Stamped(t) = last[t])'
    <3>1. AllIdle' \/ \E h \in Goroutines : pc'[h] \notin {"idle", "stamp"}
      BY <1>1, GoroutineFacts
        DEF RefillRead, AfterRefill, AllIdle, KeepInv, BudgetInv, OneInside, TypeInv, ControlOK
    <3>2. QED BY <2>1, <3>1, StampedNext
  <2>3. /\ level' = level /\ last' = last /\ capacity' = capacity /\ refillRate' = refillRate
        /\ base' = base /\ since' = since /\ exists' = exists /\ now' = now
        /\ bucket' = bucket /\ pc[g] = "refill" /\ bucket[g] \in Types
        /\ bucket[g] \in exists
        /\ \A h \in Goroutines : h # g => pc'[h] = "idle"
    BY <1>1, GoroutineFacts
      DEF RefillRead, fields, ghosts, KeepInv, BudgetInv, TypeInv, OneInside, ControlOK,
      InsideExists, Goroutines
  <2>4. \A t \in exists : t \in Types
    BY DEF KeepInv, BudgetInv, TypeInv, FieldsOK
  <2>5. pc'[g] = "credit" =>
           Paid(capacity[bucket[g]], base[bucket[g]], since[bucket[g]],
                Period(refillRate[bucket[g]]), reg'[g], now)
    <3> SUFFICES ASSUME pc'[g] = "credit"
                 PROVE  Paid(capacity[bucket[g]], base[bucket[g]], since[bucket[g]],
                             Period(refillRate[bucket[g]]), reg'[g], now)
      OBVIOUS
    <3> DEFINE t == bucket[g]
    <3>1. Units(t) > 0 /\ reg'[g] = Min({capacity[t], level[t] + Units(t)})
      BY <1>1 DEF RefillRead, AfterRefill, KeepInv, BudgetInv, TypeInv, ControlOK
    <3>2. Units(t) \in Int
      BY <2>3, UnitsFacts DEF KeepInv, BudgetInv, TypeInv
    <3>3. /\ level[t] \in Int /\ last[t] \in Nat /\ capacity[t] \in Nat /\ base[t] \in Int
          /\ since[t] \in Nat /\ now \in Nat
      BY <2>3, Numbers DEF KeepInv, BudgetInv
    <3>4. Period(refillRate[t]) \in Nat
      BY <2>3, Numbers, PeriodFacts DEF KeepInv, BudgetInv, Rising
    <3>5. now - last[t] <= Period(refillRate[t]) \/ now - since[t] <= Period(refillRate[t])
      <4>1. /\ Wait(refillRate[t]) \in Nat
            /\ Period(refillRate[t]) = Wait(refillRate[t]) + 2 * Second
            /\ Late(t) \in Nat /\ Late(t) < 2 * Second /\ Second \in Nat
        BY <2>3, Numbers, PeriodFacts, LateFacts, ClockAssumption DEF KeepInv, BudgetInv, Rising
      <4>2. now - last[t] < Wait(refillRate[t]) + Late(t) \/ now - since[t] <= Late(t)
        BY <2>1, <2>3 DEF KeepInv, Due, Timely
      <4>3. QED BY <3>3, <4>1, <4>2
    <3>6. Paid(capacity[t], base[t], since[t], Period(refillRate[t]), level[t], last[t])
      BY <2>1, <2>3 DEF KeepInv, PaidUp
    <3> HIDE DEF t
    <3>7. Paid(capacity[t], base[t], since[t], Period(refillRate[t]),
               Min({capacity[t], level[t] + Units(t)}), now)
      BY <3>1, <3>2, <3>3, <3>4, <3>5, <3>6, PaidMore
    <3>8. QED BY <3>1, <3>7 DEF t
  <2>6. QED BY <2>1, <2>2, <2>3, <2>4, <2>5 DEF KeepInv, PaidUp
<1>2. ASSUME NEW g \in Goroutines, RefillCredit(g) PROVE PaidUp'
  <2>1. /\ OneInside' /\ pc'[g] = "stamp" /\ bucket[g] \in Types /\ bucket' = bucket
        /\ last' = last /\ capacity' = capacity /\ refillRate' = refillRate
        /\ base' = base /\ since' = since /\ exists' = exists /\ now' = now
        /\ pc[g] = "credit"
        /\ \A h \in Goroutines : pc'[h] # "credit"
    BY <1>2, InsideStep
      DEF RefillCredit, ghosts, KeepInv, BudgetInv, TypeInv, ControlOK, OneInside
  <2>2. \A t \in Types : Stamped(t) = last[t]
    BY <2>1, StampedFacts DEF KeepInv, BudgetInv
  <2>3. (\A t \in Types : Stamped(t) = IF t = bucket[g] THEN now ELSE last[t])'
    BY <2>1, StampedNext
  <2>4. \A t \in Types : level'[t] = IF t = bucket[g] THEN reg[g] ELSE level[t]
    BY <1>2, <2>1 DEF RefillCredit, KeepInv, BudgetInv, TypeInv, FieldsOK
  <2>5. \A t \in exists : t \in Types
    BY DEF KeepInv, BudgetInv, TypeInv, FieldsOK
  <2>6. QED BY <2>1, <2>2, <2>3, <2>4, <2>5 DEF KeepInv, PaidUp
<1>3. ASSUME NEW g \in Goroutines, RefillStamp(g) PROVE PaidUp'
  <2>1. /\ OneInside' /\ pc[g] = "stamp" /\ bucket[g] \in Types
        /\ capacity' = capacity /\ refillRate' = refillRate /\ level' = level
        /\ base' = base /\ since' = since /\ exists' = exists /\ now' = now
        /\ \A h \in Goroutines : pc'[h] # "credit"
    BY <1>3, InsideStep
      DEF RefillStamp, AfterRefill, ghosts, KeepInv, BudgetInv, TypeInv, ControlOK, OneInside
  <2>2. \A t \in Types : Stamped(t) = IF t = bucket[g] THEN now ELSE last[t]
    BY <2>1, StampedFacts DEF KeepInv, BudgetInv
  <2>3. (\A t \in Types : Stamped(t) = last[t])'
    <3>1. AllIdle' \/ \E h \in Goroutines : pc'[h] \notin {"idle", "stamp"}
      BY <1>3, GoroutineFacts
        DEF RefillStamp, AfterRefill, AllIdle, KeepInv, BudgetInv, OneInside, TypeInv, ControlOK
    <3>2. QED BY <2>1, <3>1, StampedNext
  <2>4. \A t \in Types : last'[t] = IF t = bucket[g] THEN now ELSE last[t]
    BY <1>3, <2>1 DEF RefillStamp, KeepInv, BudgetInv, TypeInv, FieldsOK
  <2>5. \A t \in exists : t \in Types
    BY DEF KeepInv, BudgetInv, TypeInv, FieldsOK
  <2>6. QED BY <2>1, <2>2, <2>3, <2>4, <2>5 DEF KeepInv, PaidUp
<1>4. ASSUME NEW c \in Callers, NEW p \in Profiles, CheckAndConsume(c, p) PROVE PaidUp'
  <2>1. (\A t \in Types : Stamped(t) = last[t]) /\ OneInside'
    BY <1>4, StampedFacts, InsideStep, GoroutineFacts
      DEF CheckAndConsume, Free, AllIdle, KeepInv, BudgetInv
  <2>2. (\A t \in Types : Stamped(t) = last[t])'
    <3>1. AllIdle' \/ \E h \in Goroutines : pc'[h] \notin {"idle", "stamp"}
      BY <1>4, GoroutineFacts
        DEF CheckAndConsume, AllIdle, KeepInv, BudgetInv, OneInside, TypeInv, ControlOK
    <3>2. QED BY <2>1, <3>1, StampedNext
  <2>3. /\ exists' = Types
        /\ \A h \in Goroutines : pc'[h] # "credit"
    BY <1>4, GoroutineFacts
      DEF CheckAndConsume, GetOrCreate, Free, KeepInv, BudgetInv, TypeInv, FieldsOK, ControlOK
  <2>4. \A t \in exists :
           /\ level'[t] = level[t] /\ last'[t] = last[t] /\ capacity'[t] = capacity[t]
           /\ refillRate'[t] = refillRate[t] /\ base'[t] = base[t] /\ since'[t] = since[t]
    BY <1>4 DEF CheckAndConsume, GetOrCreate, KeepInv, BudgetInv, TypeInv, FieldsOK
  <2>5. \A t \in Types \ exists :
           /\ level'[t] = config[t].capacity /\ last'[t] = now
           /\ base'[t] = config[t].capacity /\ since'[t] = now
           /\ capacity'[t] = config[t].capacity /\ refillRate'[t] = config[t].refillRate
    BY <1>4 DEF CheckAndConsume, GetOrCreate
  <2>6. \A t \in Types : Period(config[t].refillRate) \in Nat
    BY Numbers, PeriodFacts DEF KeepInv, BudgetInv
  <2>7. \A t \in Types \ exists :
           Paid(capacity'[t], base'[t], since'[t], Period(refillRate'[t]), level'[t], last'[t])
    BY <2>5, <2>6, Numbers, PaidAnew DEF KeepInv, BudgetInv
  <2>8. \A t \in exists :
           Paid(capacity'[t], base'[t], since'[t], Period(refillRate'[t]), level'[t], last'[t])
    BY <2>1, <2>4 DEF KeepInv, BudgetInv, TypeInv, FieldsOK, PaidUp
  <2>9. QED BY <2>2, <2>3, <2>7, <2>8 DEF PaidUp
<1>5. ASSUME NEW c \in Callers, CanConsume(c) PROVE PaidUp'
  <2>1. (\A t \in Types : Stamped(t) = last[t]) /\ OneInside'
    BY <1>5, StampedFacts, InsideStep, GoroutineFacts
      DEF CanConsume, Free, AllIdle, KeepInv, BudgetInv
  <2>2. (\A t \in Types : Stamped(t) = last[t])'
    <3>1. AllIdle' \/ \E h \in Goroutines : pc'[h] \notin {"idle", "stamp"}
      BY <1>5, GoroutineFacts
        DEF CanConsume, NextBucket, AllIdle, KeepInv, BudgetInv, OneInside, TypeInv, ControlOK
    <3>2. QED BY <2>1, <3>1, StampedNext
  <2>3. /\ level' = level /\ last' = last /\ capacity' = capacity /\ refillRate' = refillRate
        /\ base' = base /\ since' = since /\ exists' = exists /\ now' = now
        /\ \A h \in Goroutines : pc'[h] # "credit"
    BY <1>5, GoroutineFacts
      DEF CanConsume, NextBucket, fields, ghosts, Free, KeepInv, BudgetInv, TypeInv, OneInside,
      ControlOK
  <2>4. \A t \in exists : t \in Types
    BY DEF KeepInv, BudgetInv, TypeInv, FieldsOK
  <2>5. QED BY <2>1, <2>2, <2>3, <2>4 DEF KeepInv, PaidUp
<1>6. ASSUME NEW c \in Callers, Load(c) PROVE PaidUp'
  <2>1. (\A t \in Types : Stamped(t) = last[t]) /\ OneInside'
    BY <1>6, StampedFacts, InsideStep, GoroutineFacts
      DEF Load, Free, AllIdle, KeepInv, BudgetInv
  <2>2. (\A t \in Types : Stamped(t) = last[t])'
    <3>1. AllIdle' \/ \E h \in Goroutines : pc'[h] \notin {"idle", "stamp"}
      BY <1>6, GoroutineFacts
        DEF Load, AllIdle, KeepInv, BudgetInv, OneInside, TypeInv, ControlOK
    <3>2. QED BY <2>1, <3>1, StampedNext
  <2>3. /\ level' = level /\ last' = last /\ capacity' = capacity /\ refillRate' = refillRate
        /\ base' = base /\ since' = since /\ exists' = exists /\ now' = now
        /\ \A h \in Goroutines : pc'[h] # "credit"
    BY <1>6, GoroutineFacts
      DEF Load, fields, ghosts, Free, KeepInv, BudgetInv, TypeInv, OneInside, ControlOK
  <2>4. \A t \in exists : t \in Types
    BY DEF KeepInv, BudgetInv, TypeInv, FieldsOK
  <2>5. QED BY <2>1, <2>2, <2>3, <2>4 DEF KeepInv, PaidUp
<1>7. ASSUME NEW c \in Callers, Store(c) PROVE PaidUp'
  <2>1. (\A t \in Types : Stamped(t) = last[t]) /\ OneInside'
    BY <1>7, StampedFacts, InsideStep, GoroutineFacts
      DEF Store, Free, AllIdle, KeepInv, BudgetInv
  <2>2. (\A t \in Types : Stamped(t) = last[t])'
    <3>1. AllIdle' \/ \E h \in Goroutines : pc'[h] \notin {"idle", "stamp"}
      BY <1>7, GoroutineFacts
        DEF Store, NextBucket, AllIdle, KeepInv, BudgetInv, OneInside, TypeInv, ControlOK
    <3>2. QED BY <2>1, <3>1, StampedNext
  <2>3. /\ capacity' = capacity /\ refillRate' = refillRate /\ last' = last
        /\ exists' = exists /\ bucket[c] \in Types /\ reg[c] \in Int
        /\ \A h \in Goroutines : pc'[h] # "credit"
    BY <1>7, GoroutineFacts
      DEF Store, NextBucket, KeepInv, BudgetInv, TypeInv, OneInside, ControlOK
  <2>4. \A t \in Types :
           IF t = bucket[c]
           THEN level'[t] = reg[c] /\ base'[t] = reg[c] /\ since'[t] = now
           ELSE level'[t] = level[t] /\ base'[t] = base[t] /\ since'[t] = since[t]
    BY <1>7, <2>3 DEF Store, Touch, KeepInv, BudgetInv, TypeInv, FieldsOK, GhostsOK
  <2>5. \A t \in exists : /\ t \in Types /\ Period(refillRate[t]) \in Nat /\ last[t] <= now
                          /\ now \in Nat /\ last[t] \in Nat /\ capacity[t] \in Nat
    BY Numbers, PeriodFacts DEF KeepInv, BudgetInv, TypeInv, FieldsOK, Covered, Rising
  <2>6. ASSUME NEW t \in exists
        PROVE  Paid(capacity[t], base'[t], since'[t], Period(refillRate[t]), level'[t], last[t])
    <3>1. CASE t = bucket[c]
      BY <2>3, <2>4, <2>5, <3>1, PaidAnew
    <3>2. CASE t # bucket[c]
      BY <2>1, <2>4, <2>5, <3>2 DEF KeepInv, PaidUp
    <3>3. QED BY <3>1, <3>2
  <2>7. QED BY <2>2, <2>3, <2>5, <2>6 DEF PaidUp
<1>8. CASE RefillAll
  <2>1. /\ level' = level /\ last' = last /\ capacity' = capacity /\ refillRate' = refillRate
        /\ base' = base /\ since' = since /\ exists' = exists /\ now' = now
        /\ pc' = pc /\ bucket' = bucket /\ reg' = reg
    BY <1>8 DEF RefillAll, fields, control, ghosts
  <2>2. \A t \in Types : Stamped(t)' = Stamped(t)
    BY <2>1, StampedFrame
  <2>3. \A t \in exists : t \in Types
    BY DEF KeepInv, BudgetInv, TypeInv, FieldsOK
  <2>4. QED BY <2>1, <2>2, <2>3 DEF KeepInv, PaidUp
<1>9. CASE GetAllStates
  <2>1. /\ level' = level /\ last' = last /\ capacity' = capacity /\ refillRate' = refillRate
        /\ base' = base /\ since' = since /\ exists' = exists /\ now' = now
        /\ pc' = pc /\ bucket' = bucket /\ reg' = reg
    BY <1>9 DEF GetAllStates, fields, control, ghosts
  <2>2. \A t \in Types : Stamped(t)' = Stamped(t)
    BY <2>1, StampedFrame
  <2>3. \A t \in exists : t \in Types
    BY DEF KeepInv, BudgetInv, TypeInv, FieldsOK
  <2>4. QED BY <2>1, <2>2, <2>3 DEF KeepInv, PaidUp
<1>10. ASSUME NEW t \in Types, RefillNext(t) PROVE PaidUp'
  <2>1. (\A u \in Types : Stamped(u) = last[u]) /\ OneInside'
    BY <1>10, StampedFacts, InsideStep, GoroutineFacts
      DEF RefillNext, Free, AllIdle, KeepInv, BudgetInv
  <2>2. (\A u \in Types : Stamped(u) = last[u])'
    <3>1. AllIdle' \/ \E h \in Goroutines : pc'[h] \notin {"idle", "stamp"}
      BY <1>10, GoroutineFacts
        DEF RefillNext, AllIdle, KeepInv, BudgetInv, OneInside, TypeInv, ControlOK
    <3>2. QED BY <2>1, <3>1, StampedNext
  <2>3. /\ level' = level /\ last' = last /\ capacity' = capacity /\ refillRate' = refillRate
        /\ base' = base /\ since' = since /\ exists' = exists /\ now' = now
        /\ \A h \in Goroutines : pc'[h] # "credit"
    BY <1>10, GoroutineFacts
      DEF RefillNext, fields, ghosts, Free, KeepInv, BudgetInv, TypeInv, OneInside, ControlOK
  <2>4. \A u \in exists : u \in Types
    BY DEF KeepInv, BudgetInv, TypeInv, FieldsOK
  <2>5. QED BY <2>1, <2>2, <2>3, <2>4 DEF KeepInv, PaidUp
<1>11. ASSUME NEW t \in Types, UpsertRateLimitState(t) PROVE PaidUp'
  <2>1. /\ level' = level /\ last' = last /\ capacity' = capacity /\ refillRate' = refillRate
        /\ base' = base /\ since' = since /\ exists' = exists /\ now' = now
        /\ pc' = pc /\ bucket' = bucket /\ reg' = reg
    BY <1>11 DEF UpsertRateLimitState, fields, control, ghosts
  <2>2. \A u \in Types : Stamped(u)' = Stamped(u)
    BY <2>1, StampedFrame
  <2>3. \A u \in exists : u \in Types
    BY DEF KeepInv, BudgetInv, TypeInv, FieldsOK
  <2>4. QED BY <2>1, <2>2, <2>3 DEF KeepInv, PaidUp
<1>12. CASE ResetUserBuckets
  <2>1. /\ \A t \in Types : Stamped(t) = last[t]
        /\ (\A t \in Types : Stamped(t) = last[t])'
        /\ AllIdle'
    <3>1. OneInside' /\ AllIdle /\ AllIdle'
      BY <1>12, InsideStep DEF ResetUserBuckets, control, AllIdle, KeepInv
    <3>2. QED BY <3>1, StampedFacts, StampedNext DEF KeepInv, BudgetInv
  <2>2. /\ capacity' = capacity /\ refillRate' = refillRate /\ exists' = exists
        /\ \A t \in exists :
              /\ t \in Types /\ level'[t] = capacity[t] /\ last'[t] = now
              /\ base'[t] = capacity[t] /\ since'[t] = now
    BY <1>12 DEF ResetUserBuckets, KeepInv, BudgetInv, TypeInv, FieldsOK
  <2>3. \A t \in exists : Period(refillRate[t]) \in Nat /\ now \in Nat /\ capacity[t] \in Nat
    BY <2>2, Numbers, PeriodFacts DEF KeepInv, BudgetInv, Rising
  <2>4. \A t \in exists :
           Paid(capacity[t], base'[t], since'[t], Period(refillRate[t]), level'[t], last'[t])
    BY <2>2, <2>3, PaidAnew
  <2>5. QED BY <2>1, <2>2, <2>4 DEF PaidUp, AllIdle
<1>13. ASSUME NEW form \in Forms, UpdateRateLimitConfig(form) PROVE PaidUp'
  <2>1. /\ level' = level /\ last' = last /\ capacity' = capacity /\ refillRate' = refillRate
        /\ base' = base /\ since' = since /\ exists' = exists /\ now' = now
        /\ pc' = pc /\ bucket' = bucket /\ reg' = reg
    BY <1>13 DEF UpdateRateLimitConfig, fields, control, ghosts
  <2>2. \A t \in Types : Stamped(t)' = Stamped(t)
    BY <2>1, StampedFrame
  <2>3. \A t \in exists : t \in Types
    BY DEF KeepInv, BudgetInv, TypeInv, FieldsOK
  <2>4. QED BY <2>1, <2>2, <2>3 DEF KeepInv, PaidUp
<1>14. CASE Tick
  <2>1. /\ \A t \in Types : Stamped(t) = last[t]
        /\ (\A t \in Types : Stamped(t) = last[t])'
        /\ AllIdle'
    <3>1. OneInside' /\ AllIdle /\ AllIdle'
      BY <1>14, InsideStep DEF Tick, control, AllIdle, KeepInv
    <3>2. QED BY <3>1, StampedFacts, StampedNext DEF KeepInv, BudgetInv
  <2>2. /\ level' = level /\ last' = last /\ capacity' = capacity /\ refillRate' = refillRate
        /\ base' = base /\ since' = since /\ exists' = exists
    BY <1>14 DEF Tick, fields, ghosts
  <2>3. \A t \in exists : t \in Types
    BY DEF KeepInv, BudgetInv, TypeInv, FieldsOK
  <2>4. QED BY <2>1, <2>2, <2>3 DEF KeepInv, PaidUp, AllIdle
<1>15. CASE LoadStates
  <2>1. (\A t \in Types : Stamped(t) = last[t])' /\ AllIdle'
    <3>1. OneInside' /\ AllIdle'
      BY <1>15, InsideStep DEF LoadStates, AllIdle, KeepInv
    <3>2. QED BY <3>1, StampedNext
  <2>2. \A t \in DOMAIN db : /\ t \in Types /\ db[t].level \in Int /\ db[t].last \in Nat
                             /\ db[t].last <= now
    BY DEF KeepInv, BudgetInv, TypeInv, SavedOK, States, Snapshots, Kept
  <2>3. /\ exists' = DOMAIN db
        /\ \A t \in DOMAIN db :
              /\ level'[t] = db[t].level /\ last'[t] = db[t].last
              /\ capacity'[t] = DefaultConfig[t].capacity
              /\ refillRate'[t] = DefaultConfig[t].refillRate
              /\ base'[t] = db[t].level /\ since'[t] = now
    BY <1>15, <2>2 DEF LoadStates
  <2>4. /\ \A t \in Types : /\ Period(DefaultConfig[t].refillRate) \in Nat
                            /\ DefaultConfig[t].capacity \in Nat
        /\ now \in Nat
    BY ConfigAssumption, PeriodFacts, Numbers DEF BucketConfigs, KeepInv, BudgetInv
  <2>5. \A t \in DOMAIN db :
           Paid(capacity'[t], base'[t], since'[t], Period(refillRate'[t]), level'[t], last'[t])
    BY <2>2, <2>3, <2>4, PaidAnew
  <2>6. QED BY <2>1, <2>2, <2>3, <2>5 DEF PaidUp, AllIdle
<1>16. CASE UNCHANGED vars
  <2>1. /\ level' = level /\ last' = last /\ capacity' = capacity /\ refillRate' = refillRate
        /\ base' = base /\ since' = since /\ exists' = exists /\ now' = now
        /\ pc' = pc /\ bucket' = bucket /\ reg' = reg
    BY <1>16 DEF vars, fields, control, ghosts
  <2>2. \A t \in Types : Stamped(t)' = Stamped(t)
    BY <2>1, StampedFrame
  <2>3. \A t \in exists : t \in Types
    BY DEF KeepInv, BudgetInv, TypeInv, FieldsOK
  <2>4. QED BY <2>1, <2>2, <2>3 DEF KeepInv, PaidUp
<1>17. QED
  BY <1>1, <1>2, <1>3, <1>4, <1>5, <1>6, <1>7, <1>8, <1>9, <1>10, <1>11, <1>12, <1>13, <1>14,
     <1>15, <1>16
    DEF Next, RefillStep

\* A ticker that is later keeps a bucket's due.
LEMMA TimelyStays ==
    ASSUME NEW x \in Int, NEW stamped \in Int, NEW sn \in Int, NEW wait \in Int,
           NEW late \in Int, NEW later \in Int, late <= later,
           Timely(x, stamped, sn, wait, late)
    PROVE  Timely(x, stamped, sn, wait, later)
BY DEF Timely

\* A bucket that is refilled, or set, at this moment has its due.
LEMMA TimelyNow ==
    ASSUME NEW x \in Nat, NEW stamped \in Nat, NEW sn \in Nat, NEW wait \in Nat, wait >= 1,
           NEW late \in Nat, stamped = x \/ sn = x
    PROVE  Timely(x, stamped, sn, wait, late)
BY DEF Timely

\* Where time, rates and refills stay and the ticker is no less late, buckets have
\* their due as before.
LEMMA DueFrame ==
    ASSUME KeepInv, NEW t \in exists, now' = now, beat' = beat,
           refillRate'[t] = refillRate[t], Stamped(t)' = Stamped(t), since'[t] = since[t],
           Visited(t)' => Visited(t)
    PROVE  Timely(now', Stamped(t)', since'[t], Wait(refillRate'[t]), Late(t)')
<1>1. t \in Types
  BY DEF KeepInv, BudgetInv, TypeInv, FieldsOK
<1>2. /\ Late(t)' \in Nat /\ Late(t) <= Late(t)' /\ Late(t) \in Nat
      /\ Wait(refillRate[t]) \in Nat /\ now \in Nat /\ since[t] \in Nat
  BY <1>1, LateFrame, LateFacts, Numbers, PeriodFacts DEF KeepInv, BudgetInv, Rising
<1>3. Stamped(t) \in Nat
  BY <1>1, <1>2, Numbers DEF Stamped, KeepInv, BudgetInv
<1>4. Timely(now, Stamped(t), since[t], Wait(refillRate[t]), Late(t))
  BY DEF KeepInv, Due
<1>5. Timely(now, Stamped(t), since[t], Wait(refillRate[t]), Late(t)')
  BY <1>2, <1>3, <1>4, TimelyStays
<1>6. QED BY <1>5

\* Every step leaves the buckets their due.
LEMMA DueStep ==
    ASSUME ~Interleaved, KeepInv, [Next]_vars
    PROVE  Due'
<1>a. /\ now \in Nat /\ beat \in Nat /\ Second \in Nat
      /\ \A t \in exists : /\ t \in Types /\ Wait(refillRate[t]) \in Nat
                           /\ Wait(refillRate[t]) >= 1 /\ since[t] \in Nat /\ last[t] \in Nat
                           /\ refillRate[t] \in Nat /\ last[t] <= now
  BY Numbers, PeriodFacts, ClockAssumption
    DEF KeepInv, BudgetInv, TypeInv, FieldsOK, ControlOK, Covered, Rising
<1>b. ASSUME beat' \in Nat, NEW t \in Types PROVE Late(t)' \in Nat
  <2>1. Late(t)' = (IF Visited(t)' THEN beat' ELSE beat' + Second)
    BY DEF Late
  <2>2. QED BY <1>a, <1>b, <2>1
<1>1. ASSUME NEW g \in Goroutines, RefillRead(g) PROVE Due'
  <2>1. (\A t \in Types : Stamped(t) = last[t]) /\ OneInside'
    BY <1>1, StampedFacts, InsideStep, GoroutineFacts
      DEF RefillRead, Free, AllIdle, KeepInv, BudgetInv
  <2>2. (\A t \in Types : Stamped(t) = last[t])'
    <3>1. AllIdle' \/ \E h \in Goroutines : pc'[h] \notin {"idle", "stamp"}
      BY <1>1, GoroutineFacts
        DEF RefillRead, AfterRefill, AllIdle, KeepInv, BudgetInv, OneInside, TypeInv, ControlOK
    <3>2. QED BY <2>1, <3>1, StampedNext
  <2>3. /\ last' = last /\ refillRate' = refillRate /\ since' = since /\ exists' = exists
        /\ now' = now /\ todo' = todo /\ ticked' = ticked /\ beat' = beat
        /\ bucket' = bucket /\ pc[g] = "refill" /\ bucket[g] \in exists
    BY <1>1, GoroutineFacts
      DEF RefillRead, fields, ghosts, ticker, KeepInv, BudgetInv, TypeInv, OneInside, ControlOK,
      InsideExists, Goroutines
  <2>4. \A t \in exists : t \in Types /\ Stamped(t)' = Stamped(t)
    BY <2>1, <2>2, <2>3 DEF KeepInv, BudgetInv, TypeInv, FieldsOK
  <2>5. CASE g # Ticker \/ pc'[g] # "idle"
    <3>1. pc'[Ticker] = pc[Ticker] \/ (pc'[Ticker] # "idle" /\ pc[Ticker] # "idle")
      BY <1>1, <2>3, <2>5, GoroutineFacts DEF RefillRead, KeepInv, BudgetInv, TypeInv, ControlOK
    <3>2. \A t \in exists : Visited(t)' => Visited(t)
      BY <2>3, <3>1 DEF Visited
    <3>3. QED BY <2>3, <2>4, <3>2, DueFrame DEF Due
  <2>6. CASE g = Ticker /\ pc'[g] = "idle"
    <3>1. PICK b \in exists : b = bucket[g]
      BY <2>3
    <3>2. Units(b) \in Int /\ ~(Units(b) > 0)
      BY <1>1, <2>4, <2>6, <3>1, UnitsFacts
        DEF RefillRead, KeepInv, BudgetInv, TypeInv, ControlOK
    <3>3. now - last[b] < Wait(refillRate[b])
      <4>1. (((now - last[b]) \div Second) * refillRate[b]) \div Minute <= 0
        BY <3>2 DEF Units
      <4>2. now - last[b] \in Nat /\ refillRate[b] \in Nat /\ refillRate[b] >= 1
        BY <1>a, <3>1 DEF KeepInv, Rising
      <4>3. QED BY <4>1, <4>2, PeriodFacts
    <3>4. Timely(now', Stamped(b)', since'[b], Wait(refillRate'[b]), Late(b)')
      <4>1. now' = now /\ Stamped(b)' = last[b] /\ refillRate'[b] = refillRate[b]
        BY <2>1, <2>3, <2>4, <3>1
      <4>2. Late(b)' \in Nat /\ Wait(refillRate[b]) \in Nat /\ now \in Nat /\ last[b] \in Nat
        BY <1>a, <1>b, <2>3, <3>1
      <4>3. QED BY <3>3, <4>1, <4>2 DEF Timely
    <3>5. ASSUME NEW t \in exists, t # b
          PROVE  Timely(now', Stamped(t)', since'[t], Wait(refillRate'[t]), Late(t)')
      <4>1. Visited(t)' => Visited(t)
        BY <2>3, <2>6, <3>1, <3>5 DEF Visited
      <4>2. QED BY <2>3, <2>4, <4>1, DueFrame
    <3>6. QED BY <2>3, <3>4, <3>5 DEF Due
  <2>7. QED BY <2>5, <2>6
<1>2. ASSUME NEW g \in Goroutines, RefillCredit(g) PROVE Due'
  <2>1. /\ OneInside' /\ pc'[g] = "stamp" /\ bucket[g] \in Types /\ bucket' = bucket
        /\ last' = last /\ refillRate' = refillRate /\ since' = since /\ exists' = exists
        /\ now' = now /\ todo' = todo /\ ticked' = ticked /\ beat' = beat /\ pc[g] = "credit"
        /\ pc'[Ticker] = pc[Ticker] \/ g = Ticker
    BY <1>2, InsideStep, GoroutineFacts
      DEF RefillCredit, ghosts, ticker, KeepInv, BudgetInv, TypeInv, ControlOK
  <2>2. \A t \in Types : Stamped(t) = last[t]
    BY <2>1, StampedFacts DEF KeepInv, BudgetInv
  <2>3. (\A t \in Types : Stamped(t) = IF t = bucket[g] THEN now ELSE last[t])'
    BY <2>1, StampedNext
  <2>4. ASSUME NEW t \in exists
        PROVE  Timely(now', Stamped(t)', since'[t], Wait(refillRate'[t]), Late(t)')
    <3>1. CASE t = bucket[g]
      <4>1. Stamped(t)' = now /\ Late(t)' \in Nat
        BY <1>a, <1>b, <2>1, <2>3, <3>1
      <4>2. QED BY <1>a, <2>1, <4>1, TimelyNow
    <3>2. CASE t # bucket[g]
      <4>1. Stamped(t)' = Stamped(t) /\ (Visited(t)' => Visited(t))
        BY <1>a, <2>1, <2>2, <2>3, <3>2 DEF Visited
      <4>2. QED BY <2>1, <4>1, DueFrame
    <3>3. QED BY <3>1, <3>2
  <2>5. QED BY <2>1, <2>4 DEF Due
<1>3. ASSUME NEW g \in Goroutines, RefillStamp(g) PROVE Due'
  <2>1. /\ OneInside' /\ pc[g] = "stamp" /\ bucket[g] \in Types /\ bucket' = bucket
        /\ refillRate' = refillRate /\ since' = since /\ exists' = exists /\ now' = now
        /\ todo' = todo /\ ticked' = ticked /\ beat' = beat
        /\ pc'[Ticker] = pc[Ticker] \/ g = Ticker
    BY <1>3, InsideStep, GoroutineFacts
      DEF RefillStamp, ghosts, ticker, KeepInv, BudgetInv, TypeInv, ControlOK
  <2>2. \A t \in Types : Stamped(t) = IF t = bucket[g] THEN now ELSE last[t]
    BY <2>1, StampedFacts DEF KeepInv, BudgetInv
  <2>3. (\A t \in Types : Stamped(t) = last[t])'
    <3>1. AllIdle' \/ \E h \in Goroutines : pc'[h] \notin {"idle", "stamp"}
      BY <1>3, GoroutineFacts
        DEF RefillStamp, AfterRefill, AllIdle, KeepInv, BudgetInv, OneInside, TypeInv, ControlOK
    <3>2. QED BY <2>1, <3>1, StampedNext
  <2>4. \A t \in Types : last'[t] = IF t = bucket[g] THEN now ELSE last[t]
    BY <1>3, <2>1 DEF RefillStamp, KeepInv, BudgetInv, TypeInv, FieldsOK
  <2>5. ASSUME NEW t \in exists
        PROVE  Timely(now', Stamped(t)', since'[t], Wait(refillRate'[t]), Late(t)')
    <3>1. CASE t = bucket[g]
      <4>1. Stamped(t)' = now /\ Late(t)' \in Nat
        BY <1>a, <1>b, <2>1, <2>3, <2>4, <3>1
      <4>2. QED BY <1>a, <2>1, <4>1, TimelyNow
    <3>2. CASE t # bucket[g]
      <4>1. Stamped(t)' = Stamped(t) /\ (Visited(t)' => Visited(t))
        BY <1>a, <2>1, <2>2, <2>3, <2>4, <3>2 DEF Visited
      <4>2. QED BY <2>1, <4>1, DueFrame
    <3>3. QED BY <3>1, <3>2
  <2>6. QED BY <2>1, <2>5 DEF Due
<1>4. ASSUME NEW c \in Callers, NEW p \in Profiles, CheckAndConsume(c, p) PROVE Due'
  <2>1. (\A t \in Types : Stamped(t) = last[t]) /\ OneInside'
    BY <1>4, StampedFacts, InsideStep, GoroutineFacts
      DEF CheckAndConsume, Free, AllIdle, KeepInv, BudgetInv
  <2>2. (\A t \in Types : Stamped(t) = last[t])'
    <3>1. AllIdle' \/ \E h \in Goroutines : pc'[h] \notin {"idle", "stamp"}
      BY <1>4, GoroutineFacts
        DEF CheckAndConsume, AllIdle, KeepInv, BudgetInv, OneInside, TypeInv, ControlOK
    <3>2. QED BY <2>1, <3>1, StampedNext
  <2>3. /\ exists' = Types /\ now' = now /\ todo' = todo /\ ticked' = ticked /\ beat' = beat
        /\ pc'[Ticker] = pc[Ticker] /\ bucket'[Ticker] = bucket[Ticker]
    BY <1>4, GoroutineFacts
      DEF CheckAndConsume, GetOrCreate, ticker, KeepInv, BudgetInv, TypeInv, FieldsOK, ControlOK
  <2>4. \A t \in exists :
           /\ last'[t] = last[t] /\ refillRate'[t] = refillRate[t] /\ since'[t] = since[t]
    BY <1>4, <1>a DEF CheckAndConsume, GetOrCreate
  <2>5. \A t \in Types \ exists :
           last'[t] = now /\ since'[t] = now /\ refillRate'[t] = config[t].refillRate
    BY <1>4 DEF CheckAndConsume, GetOrCreate
  <2>6. \A t \in Types : Wait(config[t].refillRate) \in Nat /\ Wait(config[t].refillRate) >= 1
    BY Numbers, PeriodFacts DEF KeepInv, BudgetInv
  <2>7. \A t \in Types : Visited(t)' <=> Visited(t)
    BY <2>3 DEF Visited
  <2>8. ASSUME NEW t \in Types
        PROVE  Timely(now', Stamped(t)', since'[t], Wait(refillRate'[t]), Late(t)')
    <3>1. CASE t \in exists
      <4>1. Stamped(t)' = Stamped(t)
        BY <2>1, <2>2, <2>4, <3>1
      <4>2. QED BY <2>3, <2>4, <2>7, <3>1, <4>1, DueFrame
    <3>2. CASE t \notin exists
      <4>1. Stamped(t)' = now /\ since'[t] = now /\ Late(t)' \in Nat
        BY <1>a, <1>b, <2>2, <2>3, <2>5, <3>2
      <4>2. QED BY <1>a, <2>3, <2>5, <2>6, <3>2, <4>1, TimelyNow
    <3>3. QED BY <3>1, <3>2
  <2>9. QED BY <2>3, <2>8 DEF Due
<1>5. ASSUME NEW c \in Callers, CanConsume(c) PROVE Due'
  <2>1. (\A t \in Types : Stamped(t) = last[t]) /\ OneInside'
    BY <1>5, StampedFacts, InsideStep, GoroutineFacts
      DEF CanConsume, Free, AllIdle, KeepInv, BudgetInv
  <2>2. (\A t \in Types : Stamped(t) = last[t])'
    <3>1. AllIdle' \/ \E h \in Goroutines : pc'[h] \notin {"idle", "stamp"}
      BY <1>5, GoroutineFacts
        DEF CanConsume, NextBucket, AllIdle, KeepInv, BudgetInv, OneInside, TypeInv, ControlOK
    <3>2. QED BY <2>1, <3>1, StampedNext
  <2>3. /\ last' = last /\ refillRate' = refillRate /\ since' = since /\ exists' = exists
        /\ now' = now /\ todo' = todo /\ ticked' = ticked /\ beat' = beat
        /\ pc'[Ticker] = pc[Ticker] /\ bucket'[Ticker] = bucket[Ticker]
    BY <1>5, GoroutineFacts
      DEF CanConsume, NextBucket, fields, ghosts, ticker, KeepInv, BudgetInv, TypeInv, ControlOK
  <2>4. \A t \in exists : t \in Types /\ Stamped(t)' = Stamped(t) /\ (Visited(t)' => Visited(t))
    BY <2>1, <2>2, <2>3 DEF Visited, KeepInv, BudgetInv, TypeInv, FieldsOK
  <2>5. QED BY <2>3, <2>4, DueFrame DEF Due
<1>6. ASSUME NEW c \in Callers, Load(c) PROVE Due'
  <2>1. (\A t \in Types : Stamped(t) = last[t]) /\ OneInside'
    BY <1>6, StampedFacts, InsideStep, GoroutineFacts
      DEF Load, Free, AllIdle, KeepInv, BudgetInv
  <2>2. (\A t \in Types : Stamped(t) = last[t])'
    <3>1. AllIdle' \/ \E h \in Goroutines : pc'[h] \notin {"idle", "stamp"}
      BY <1>6, GoroutineFacts
        DEF Load, AllIdle, KeepInv, BudgetInv, OneInside, TypeInv, ControlOK
    <3>2. QED BY <2>1, <3>1, StampedNext
  <2>3. /\ last' = last /\ refillRate' = refillRate /\ since' = since /\ exists' = exists
        /\ now' = now /\ todo' = todo /\ ticked' = ticked /\ beat' = beat
        /\ pc'[Ticker] = pc[Ticker] /\ bucket'[Ticker] = bucket[Ticker]
    BY <1>6, GoroutineFacts
      DEF Load, fields, ghosts, ticker, KeepInv, BudgetInv, TypeInv, ControlOK
  <2>4. \A t \in exists : t \in Types /\ Stamped(t)' = Stamped(t) /\ (Visited(t)' => Visited(t))
    BY <2>1, <2>2, <2>3 DEF Visited, KeepInv, BudgetInv, TypeInv, FieldsOK
  <2>5. QED BY <2>3, <2>4, DueFrame DEF Due
<1>7. ASSUME NEW c \in Callers, Store(c) PROVE Due'
  <2>1. (\A t \in Types : Stamped(t) = last[t]) /\ OneInside'
    BY <1>7, StampedFacts, InsideStep, GoroutineFacts
      DEF Store, Free, AllIdle, KeepInv, BudgetInv
  <2>2. (\A t \in Types : Stamped(t) = last[t])'
    <3>1. AllIdle' \/ \E h \in Goroutines : pc'[h] \notin {"idle", "stamp"}
      BY <1>7, GoroutineFacts
        DEF Store, NextBucket, AllIdle, KeepInv, BudgetInv, OneInside, TypeInv, ControlOK
    <3>2. QED BY <2>1, <3>1, StampedNext
  <2>3. /\ refillRate' = refillRate /\ last' = last /\ exists' = exists /\ now' = now
        /\ todo' = todo /\ ticked' = ticked /\ beat' = beat
        /\ pc'[Ticker] = pc[Ticker] /\ bucket'[Ticker] = bucket[Ticker]
        /\ \A t \in Types : since'[t] \in {since[t], now}
    BY <1>7, GoroutineFacts
      DEF Store, NextBucket, Touch, ticker, KeepInv, BudgetInv, TypeInv, ControlOK, GhostsOK
  <2>4. \A t \in exists : Stamped(t)' = Stamped(t) /\ (Visited(t)' => Visited(t))
    BY <1>a, <2>1, <2>2, <2>3 DEF Visited
  <2>5. ASSUME NEW t \in exists
        PROVE  Timely(now', Stamped(t)', since'[t], Wait(refillRate'[t]), Late(t)')
    <3>1. CASE since'[t] = since[t]
      BY <2>3, <2>4, <3>1, DueFrame
    <3>2. CASE since'[t] = now
      <4>1. Late(t)' \in Nat /\ Stamped(t)' \in Nat
        BY <1>a, <1>b, <2>1, <2>3, <2>4
      <4>2. QED BY <1>a, <2>3, <3>2, <4>1, TimelyNow
    <3>3. QED BY <1>a, <2>3, <3>1, <3>2
  <2>6. QED BY <2>3, <2>5 DEF Due
<1>8. CASE RefillAll
  <2>1. /\ refillRate' = refillRate /\ last' = last /\ exists' = exists /\ now' = now
        /\ since' = since /\ pc' = pc /\ bucket' = bucket /\ beat' = beat
    BY <1>8 DEF RefillAll, fields, control, ghosts, ticker
  <2>2. \A t \in Types : Stamped(t)' = Stamped(t)
    BY <2>1, StampedFrame
  <2>3. \A t \in exists : t \in Types /\ (Visited(t)' => Visited(t))
    BY <1>8, <2>1 DEF RefillAll, ticker, Visited, KeepInv, BudgetInv, TypeInv, FieldsOK
  <2>4. QED BY <2>1, <2>2, <2>3, DueFrame DEF Due
<1>9. CASE GetAllStates
  <2>1. /\ refillRate' = refillRate /\ last' = last /\ exists' = exists /\ now' = now
        /\ since' = since /\ pc' = pc /\ bucket' = bucket /\ beat' = beat
    BY <1>9 DEF GetAllStates, fields, control, ghosts, ticker
  <2>2. \A t \in Types : Stamped(t)' = Stamped(t)
    BY <2>1, StampedFrame
  <2>3. \A t \in exists : t \in Types /\ (Visited(t)' => Visited(t))
    BY <1>9, <2>1 DEF GetAllStates, ticker, Visited, KeepInv, BudgetInv, TypeInv, FieldsOK
  <2>4. QED BY <2>1, <2>2, <2>3, DueFrame DEF Due
<1>10. ASSUME NEW t \in Types, RefillNext(t) PROVE Due'
  <2>1. (\A u \in Types : Stamped(u) = last[u]) /\ OneInside'
    BY <1>10, StampedFacts, InsideStep, GoroutineFacts
      DEF RefillNext, Free, AllIdle, KeepInv, BudgetInv
  <2>2. (\A u \in Types : Stamped(u) = last[u])'
    <3>1. AllIdle' \/ \E h \in Goroutines : pc'[h] \notin {"idle", "stamp"}
      BY <1>10, GoroutineFacts
        DEF RefillNext, AllIdle, KeepInv, BudgetInv, OneInside, TypeInv, ControlOK
    <3>2. QED BY <2>1, <3>1, StampedNext
  <2>3. /\ refillRate' = refillRate /\ last' = last /\ exists' = exists /\ now' = now
        /\ since' = since /\ ticked' = ticked /\ beat' = beat /\ todo' = todo \ {t}
        /\ pc[Ticker] = "idle" /\ pc'[Ticker] = "refill" /\ bucket'[Ticker] = t
    BY <1>10, GoroutineFacts
      DEF RefillNext, fields, ghosts, ticker, KeepInv, BudgetInv, TypeInv, ControlOK
  <2>4. \A u \in exists : Stamped(u)' = Stamped(u) /\ (Visited(u)' => Visited(u))
    BY <1>a, <2>1, <2>2, <2>3 DEF Visited
  <2>5. QED BY <2>3, <2>4, DueFrame DEF Due
<1>11. ASSUME NEW t \in Types, UpsertRateLimitState(t) PROVE Due'
  <2>1. /\ refillRate' = refillRate /\ last' = last /\ exists' = exists /\ now' = now
        /\ since' = since /\ pc' = pc /\ bucket' = bucket /\ beat' = beat
    BY <1>11 DEF UpsertRateLimitState, fields, control, ghosts, ticker
  <2>2. \A u \in Types : Stamped(u)' = Stamped(u)
    BY <2>1, StampedFrame
  <2>3. \A u \in exists : u \in Types /\ (Visited(u)' => Visited(u))
    BY <1>11, <2>1 DEF UpsertRateLimitState, ticker, Visited, KeepInv, BudgetInv, TypeInv, FieldsOK
  <2>4. QED BY <2>1, <2>2, <2>3, DueFrame DEF Due
<1>12. CASE ResetUserBuckets
  <2>1. /\ refillRate' = refillRate /\ exists' = exists /\ now' = now /\ beat' = beat
        /\ \A t \in exists : since'[t] = now /\ last'[t] = now
    BY <1>12, <1>a DEF ResetUserBuckets, ticker
  <2>2. \A t \in exists : Stamped(t)' \in Nat /\ Late(t)' \in Nat
    BY <1>a, <1>b, <2>1 DEF Stamped
  <2>3. QED BY <1>a, <2>1, <2>2, TimelyNow DEF Due
<1>13. ASSUME NEW form \in Forms, UpdateRateLimitConfig(form) PROVE Due'
  <2>1. /\ refillRate' = refillRate /\ last' = last /\ exists' = exists /\ now' = now
        /\ since' = since /\ pc' = pc /\ bucket' = bucket /\ beat' = beat
    BY <1>13 DEF UpdateRateLimitConfig, fields, control, ghosts, ticker
  <2>2. \A t \in Types : Stamped(t)' = Stamped(t)
    BY <2>1, StampedFrame
  <2>3. \A t \in exists : t \in Types /\ (Visited(t)' => Visited(t))
    BY <1>13, <2>1 DEF UpdateRateLimitConfig, ticker, Visited, KeepInv, BudgetInv, TypeInv, FieldsOK
  <2>4. QED BY <2>1, <2>2, <2>3, DueFrame DEF Due
<1>14. CASE Tick
  <2>1. /\ \A t \in Types : Stamped(t) = last[t]
        /\ (\A t \in Types : Stamped(t) = last[t])'
    <3>1. OneInside' /\ AllIdle /\ AllIdle'
      BY <1>14, InsideStep DEF Tick, control, AllIdle, KeepInv
    <3>2. QED BY <3>1, StampedFacts, StampedNext DEF KeepInv, BudgetInv
  <2>2. /\ last' = last /\ refillRate' = refillRate /\ exists' = exists /\ now' = now + 1
        /\ since' = since /\ pc' = pc /\ bucket' = bucket /\ todo' = todo
        /\ pc[Ticker] = "idle"
    BY <1>14, GoroutineFacts DEF Tick, fields, ghosts, control, AllIdle
  <2>3. ASSUME NEW t \in exists PROVE Late(t)' = Late(t) + 1
    <3>1. CASE beat < Second - 1
      <4>1. beat' = beat + 1 /\ ticked' = ticked
        BY <1>14, <3>1 DEF Tick
      <4>2. Visited(t)' <=> Visited(t)
        BY <2>2, <4>1 DEF Visited
      <4>3. QED BY <1>a, <4>1, <4>2 DEF Late
    <3>2. CASE ~(beat < Second - 1)
      <4>1. beat' = 0 /\ ticked' = FALSE /\ ticked /\ todo = {}
        BY <1>14, <3>2 DEF Tick
      <4>2. Visited(t) /\ ~Visited(t)'
        BY <2>2, <4>1 DEF Visited
      <4>3. beat = Second - 1
        BY <3>2, ClockAssumption DEF KeepInv, BudgetInv, TypeInv, ControlOK
      <4>4. QED BY <1>a, <4>1, <4>2, <4>3 DEF Late
    <3>3. QED BY <3>1, <3>2
  <2>4. ASSUME NEW t \in exists
        PROVE  Timely(now', Stamped(t)', since'[t], Wait(refillRate'[t]), Late(t)')
    <3>1. Timely(now, last[t], since[t], Wait(refillRate[t]), Late(t))
      BY <1>a, <2>1 DEF KeepInv, Due
    <3>2. Late(t) \in Nat /\ Stamped(t)' = last[t] /\ Late(t)' = Late(t) + 1
      BY <1>a, <2>1, <2>2, <2>3, LateFacts
    <3>3. Timely(now + 1, last[t], since[t], Wait(refillRate[t]), Late(t) + 1)
      BY <1>a, <3>1, <3>2 DEF Timely
    <3>4. QED BY <2>2, <3>2, <3>3
  <2>5. QED BY <2>2, <2>4 DEF Due
<1>15. CASE LoadStates
  <2>1. /\ exists' = DOMAIN db /\ now' = now /\ beat' = 0
        /\ \A t \in DOMAIN db :
              /\ t \in Types /\ since'[t] = now /\ last'[t] = db[t].last /\ db[t].last \in Nat
              /\ refillRate'[t] = DefaultConfig[t].refillRate
    BY <1>15 DEF LoadStates, KeepInv, BudgetInv, TypeInv, SavedOK, States
  <2>2. \A t \in DOMAIN db : Stamped(t)' \in Nat /\ Late(t)' \in Nat
    BY <1>a, <1>b, <2>1 DEF Stamped
  <2>3. \A t \in Types : /\ Wait(DefaultConfig[t].refillRate) \in Nat
                         /\ Wait(DefaultConfig[t].refillRate) >= 1
    BY ConfigAssumption, PeriodFacts DEF BucketConfigs
  <2>4. QED BY <1>a, <2>1, <2>2, <2>3, TimelyNow DEF Due
<1>16. CASE UNCHANGED vars
  <2>1. /\ refillRate' = refillRate /\ last' = last /\ exists' = exists /\ now' = now
        /\ since' = since /\ pc' = pc /\ bucket' = bucket /\ beat' = beat
    BY <1>16 DEF vars, fields, control, ghosts, ticker
  <2>2. \A t \in Types : Stamped(t)' = Stamped(t)
    BY <2>1, StampedFrame
  <2>3. \A t \in exists : t \in Types /\ (Visited(t)' => Visited(t))
    BY <1>16, <2>1 DEF vars, ticker, Visited, KeepInv, BudgetInv, TypeInv, FieldsOK
  <2>4. QED BY <2>1, <2>2, <2>3, DueFrame DEF Due
<1>17. QED
  BY <1>1, <1>2, <1>3, <1>4, <1>5, <1>6, <1>7, <1>8, <1>9, <1>10, <1>11, <1>12, <1>13, <1>14,
     <1>15, <1>16
    DEF Next, RefillStep

\* Where goroutines do not meet in the buckets, a bucket below its capacity gains a unit
\* every ceil(60 / rate) + 2 seconds, although Refill drops fractions whenever a call or
\* the ticker runs it.
THEOREM RateLimitKeepsUp ==
    ASSUME ~Interleaved
    PROVE  Spec => []RefillKeepsUp
<1>1. Init => KeepInv
  BY InitBudget DEF KeepInv, Init, Rising, PaidUp, Due
<1>2. KeepInv /\ [Next]_vars => KeepInv'
  BY BudgetStep, RisingStep, PaidStep, DueStep DEF KeepInv
<1>3. KeepInv => RefillKeepsUp
  <2> SUFFICES ASSUME KeepInv, NEW t \in exists
               PROVE  level[t] >= Min({capacity[t],
                         base[t] + ((now - since[t]) \div Period(refillRate[t]))})
    BY DEF RefillKeepsUp, Period
  <2> DEFINE per == Period(refillRate[t])
             q == (now - since[t]) \div per
             x == Stamped(t)
             wait == Wait(refillRate[t])
  <2>1. /\ t \in Types /\ now \in Nat /\ level[t] \in Int /\ last[t] \in Nat
        /\ capacity[t] \in Nat /\ base[t] \in Int /\ since[t] \in Nat
    BY Numbers DEF KeepInv, BudgetInv, TypeInv, FieldsOK
  <2>2. wait \in Nat /\ wait >= 1 /\ per \in Nat /\ per = wait + 2 * Second /\ Second \in Nat
    BY <2>1, Numbers, PeriodFacts, ClockAssumption DEF KeepInv, BudgetInv, Rising
  <2>3. x \in Nat /\ Late(t) \in Nat /\ Late(t) < 2 * Second
    BY <2>1, LateFacts DEF Stamped
  <2>4. now - x < wait + Late(t) \/ now - since[t] <= Late(t)
    BY DEF KeepInv, Due, Timely
  <2>5. PICK j \in Nat :
           (level[t] >= capacity[t] \/ level[t] >= base[t] + j) /\ x <= since[t] + j * per
    BY DEF KeepInv, PaidUp, Paid
  <2> HIDE DEF per, x, wait
  <2>6. now - x < per \/ now - since[t] < per
    BY <2>1, <2>2, <2>3, <2>4
  <2>7. per \in Nat \ {0}
    BY <2>2
  <2>8. q \in Int /\ per * q <= now - since[t]
    <3>1. now - since[t] \in Int
      BY <2>1
    <3>2. QED BY <2>7, <3>1, DivBound
  <2>9. now - since[t] < per * (j + 1)
    <3>1. j * per \in Nat /\ per * (j + 1) = j * per + per
      BY <2>7
    <3>2. QED BY <2>1, <2>3, <2>5, <2>6, <2>7, <3>1
  <2> HIDE DEF q
  <2>10. per * q < per * (j + 1)
    BY <2>1, <2>7, <2>8, <2>9
  <2>11. q <= j
    BY <2>7, <2>8, <2>10, TimesLess
  <2>12. Min({capacity[t], base[t] + q})
           = IF capacity[t] <= base[t] + q THEN capacity[t] ELSE base[t] + q
    BY <2>1, <2>8, MinTwo
  <2>13. level[t] >= Min({capacity[t], base[t] + q})
    BY <2>1, <2>5, <2>8, <2>11, <2>12
  <2>14. QED BY <2>13 DEF q, per
<1>4. QED BY <1>1, <1>2, <1>3, PTL DEF Spec
=============================================================================
