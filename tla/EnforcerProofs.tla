--------------------------- MODULE EnforcerProofs ---------------------------
(***************************************************************************)
(* Decisions of the policy engine, for every set of policies, tools and    *)
(* profiles, any number of calls and administrators at work at the same    *)
(* time, and restarts; and below, safety of the approval queue.            *)
(***************************************************************************)
EXTENDS Enforcer, Approval, FiniteSetTheorems, TLAPS

\* A policy that is half added has its program, and one that is being looked at
\* is a policy.
StepsInOrder ==
    /\ \A a \in Admins : admin[a] = "policy" => programs[adding[a]] # None
    /\ \A c \in Callers : pc[c] = "policy" => program[c] \in Policies

\* What a call relies on is in both maps, in the same version.
StableInEngine ==
    \A c \in Callers : \A p \in stable[c] : programs[p] # None /\ policies[p] = programs[p]

\* A call relies on nothing before its evaluation, and skips nothing it relies on.
StableIsVisited ==
    \A c \in Callers :
        /\ pc[c] \in {"idle", "scope", "global"} => stable[c] = {}
        /\ pc[c] \in {"evaluate", "policy"} => stable[c] \subseteq must[c]

\* A matching policy the call relies on is yet to come, is being looked at, or is no
\* stricter than the decision.
Considered(c, p) ==
    \/ pc[c] # "decide" /\ p \in left[c]
    \/ pc[c] = "policy" /\ program[c] = p
    \/ ActionPriority(policies[p].action) <= ActionPriority(decision[c].action)

DecisionIsStrict ==
    \A c \in Callers : pc[c] \in {"evaluate", "policy", "decide"} =>
        \A p \in stable[c] : tool[c] \in programs[p].match => Considered(c, p)

IndInv ==
    /\ TypeOK /\ StepsInOrder /\ StableInEngine /\ StableIsVisited /\ DecisionIsStrict
    /\ MostRestrictiveWins

-----------------------------------------------------------------------------
(* Facts about the operators.                                              *)

\* A policy body gives a typed decision.
LEMMA BodyFacts ==
    ASSUME NEW b \in Bodies
    PROVE  /\ b # None /\ b.action \in Actions /\ b.severity \in Severities
           /\ b.priority \in Nat /\ DecisionOf(b) \in Decisions
           /\ DecisionOf(b).action = b.action
BY BodiesAssumption DEF PolicyBodies, DecisionOf, Decisions

\* A function from policies to bodies is a list of an evaluation.
LEMMA IsList ==
    ASSUME NEW P \in SUBSET Policies, NEW l \in [P -> Bodies]
    PROVE  l \in Lists
BY DEF Lists

\* What a list holds, and that it stays one when a policy is taken off.
LEMMA ListFacts ==
    ASSUME NEW l \in Lists
    PROVE  /\ DOMAIN l \subseteq Policies
           /\ \A p \in DOMAIN l : l[p] \in Bodies
           /\ \A p : [q \in DOMAIN l \ {p} |-> l[q]] \in Lists
<1>1. PICK P \in SUBSET Policies : l \in [P -> Bodies]
  BY DEF Lists
<1>2. ASSUME NEW p PROVE [q \in DOMAIN l \ {p} |-> l[q]] \in Lists
  <2>1. P \ {p} \in SUBSET Policies /\ [q \in P \ {p} |-> l[q]] \in [P \ {p} -> Bodies]
    BY <1>1
  <2>2. QED BY <1>1, <2>1, IsList
<1>3. QED BY <1>1, <1>2

\* The empty list.
LEMMA NoRowsIsList == NoRows \in Lists
<1>1. {} \in SUBSET Policies /\ NoRows \in [{} -> Bodies]
  BY DEF NoRows
<1>2. QED BY <1>1, IsList

\* What a caller holds between requests is typed.
LEMMA IdleFacts == AnyTool \in Tools /\ AnyProfile \in Profiles /\ NoDecision \in Decisions
BY NonEmptyAssumption DEF AnyTool, AnyProfile, NoDecision, Decisions

\* The engine a start builds has its types and no policy without a program.
LEMMA LoadedFacts ==
    ASSUME rows \in [Policies -> Maybe(Bodies)]
    PROVE  Loaded \in [Policies -> Maybe(Bodies)]
BY DEF Loaded, Maybe

\* ActionPriority of any string is a number from 0 to 5.
LEMMA PriorityRange == \A action : ActionPriority(action) \in 0..5
BY DEF ActionPriority

\* A decision gives way to one that is at least as strict, and stands against
\* those that are no stricter.
LEMMA StricterStays ==
    ASSUME NEW current, NEW new
    PROVE  /\ ShouldUpdateDecision(current, new) =>
                 ActionPriority(current.action) <= ActionPriority(new.action)
           /\ ~ShouldUpdateDecision(current, new) =>
                 ActionPriority(new.action) <= ActionPriority(current.action)
BY PriorityRange DEF ShouldUpdateDecision

\* An action that is no stricter than the decision asks for no more than it.
LEMMA AtMost ==
    ASSUME NEW action, NEW d, ActionPriority(action) <= ActionPriority(d)
    PROVE  /\ ActionPriority(d) \in {0, 1, 2} => ActionPriority(action) \notin {3, 4, 5}
           /\ ActionPriority(d) = 3 => ActionPriority(action) \notin {4, 5}
           /\ ActionPriority(d) = 4 => ActionPriority(action) # 5
BY PriorityRange

\* The gates after the evaluation and the switch of the handlers keep to whatever
\* the decision forbids.
LEMMA GatesRespect ==
    ASSUME NEW action, NEW d \in Actions \cup {""}, NEW f \in Profiles, NEW room \in BOOLEAN,
           ActionPriority(action) <= ActionPriority(d), NEW what,
           what \in Outcomes(Limited(Tightened(Permitted(d, f), f), room))
    PROVE  Respects(what, action)
<1>1. CASE d \in {"WARN", "ALLOW", ""}
  <2>1. ActionPriority(d) \in {0, 1, 2}
    BY <1>1 DEF ActionPriority
  <2>2. QED BY <2>1, AtMost DEF Respects
<1>2. CASE d \in {"DENY", "PENDING_ADMIN_APPROVAL", "PENDING_APPROVAL", "PENDING_USER_APPROVAL"}
  <2>1. Limited(Tightened(Permitted(d, f), f), room) = d
    BY <1>2 DEF Limited, Tightened, Permitted
  <2>2. CASE d = "DENY"
    BY <2>1, <2>2 DEF Outcomes, Respects
  <2>3. CASE d \in {"PENDING_ADMIN_APPROVAL", "PENDING_APPROVAL"}
    <3>1. ActionPriority(d) = 4
      BY <2>3 DEF ActionPriority
    <3>2. what \in {"admin", "failed"}
      BY <2>1, <2>3 DEF Outcomes
    <3>3. QED BY <3>1, <3>2, AtMost DEF Respects
  <2>4. CASE d = "PENDING_USER_APPROVAL"
    <3>1. ActionPriority(d) = 3
      BY <2>4 DEF ActionPriority
    <3>2. what \in {"user", "failed"}
      BY <2>1, <2>4 DEF Outcomes
    <3>3. QED BY <3>1, <3>2, AtMost DEF Respects
  <2>5. QED BY <1>2, <2>2, <2>3, <2>4
<1>3. QED BY <1>1, <1>2 DEF Actions

\* A request ends in one of five ways.
LEMMA OutcomeTypes ==
    \A action : Outcomes(action) \subseteq {"forwarded", "denied", "admin", "user", "failed"}
BY DEF Outcomes
-----------------------------------------------------------------------------
(* Each step keeps each part of IndInv.                                    *)

\* Each step keeps the types.
LEMMA TypeStep ==
    ASSUME IndInv, [Next]_vars
    PROVE  TypeOK'
<1>1. ASSUME NEW a \in Admins, NEW p \in Policies, NEW b \in Bodies, CreatePolicy(a, p, b)
      PROVE  TypeOK'
  <2>1. (IF b.enabled THEN [q \in {p} |-> b] ELSE NoRows) \in Lists
    <3>1. {p} \in SUBSET Policies /\ [q \in {p} |-> b] \in [{p} -> Bodies]
      OBVIOUS
    <3>2. [q \in {p} |-> b] \in Lists
      BY <3>1, IsList
    <3>3. QED BY <3>2, NoRowsIsList
  <2>2. (todo \in [Admins -> Lists] /\ rows \in [Policies -> Maybe(Bodies)])'
    BY <1>1, <2>1 DEF CreatePolicy, IndInv, TypeOK, Maybe
  <2>3. (edits \in 0..MaxEdits /\ admin \in [Admins -> {"idle", "list", "load", "policy"}])'
    BY <1>1, EditsAssumption DEF CreatePolicy, IndInv, TypeOK
  <2>4. (\A x \in Admins : admin[x] = "policy" => adding[x] \in DOMAIN todo[x])'
    BY <1>1 DEF CreatePolicy, IndInv, TypeOK
  <2>5. QED BY <1>1, <2>2, <2>3, <2>4 DEF CreatePolicy, IndInv, TypeOK, engine, callerVars
<1>2. ASSUME NEW a \in Admins, NEW p \in Policies, NEW b \in Bodies, UpdatePolicy(a, p, b)
      PROVE  TypeOK'
  BY <1>2, BodiesAssumption, EditsAssumption
    DEF UpdatePolicy, engine, callerVars, IndInv, TypeOK, Maybe
<1>3. ASSUME NEW a \in Admins, NEW p \in Policies, DeletePolicy(a, p) PROVE TypeOK'
  BY <1>3, BodiesAssumption, EditsAssumption
    DEF DeletePolicy, engine, callerVars, IndInv, TypeOK, Maybe
<1>4. ASSUME NEW a \in Admins, Load(a) PROVE TypeOK'
  <2>1. CASE ListPolicies(a)
    <3>1. [p \in {q \in Policies : rows[q] # None /\ rows[q].enabled} |-> rows[p]] \in Lists
      <4> DEFINE P == {q \in Policies : rows[q] # None /\ rows[q].enabled}
      <4>1. P \in SUBSET Policies /\ [p \in P |-> rows[p]] \in [P -> Bodies]
        BY DEF IndInv, TypeOK, Maybe
      <4>2. QED BY <4>1, IsList
    <3>2. (todo \in [Admins -> Lists])'
      BY <2>1, <3>1 DEF ListPolicies, IndInv, TypeOK
    <3>3. (\A x \in Admins : admin[x] = "policy" => adding[x] \in DOMAIN todo[x])'
      BY <2>1 DEF ListPolicies, IndInv, TypeOK
    <3>4. (admin \in [Admins -> {"idle", "list", "load", "policy"}])'
      BY <2>1 DEF ListPolicies, IndInv, TypeOK
    <3>5. QED
      BY <2>1, <3>2, <3>3, <3>4 DEF ListPolicies, IndInv, TypeOK, stored, engine, callerVars
  <2>2. CASE AddProgram(a)
    <3>1. PICK p \in DOMAIN todo[a] :
             IF todo[a][p].valid
             THEN /\ programs' = [programs EXCEPT ![p] = todo[a][p]]
                  /\ Disturb(p, programs[p], todo[a][p])
                  /\ adding' = [adding EXCEPT ![a] = p]
                  /\ admin' = [admin EXCEPT ![a] = "policy"]
                  /\ UNCHANGED todo
             ELSE /\ todo' = [todo EXCEPT ![a] = Skip(a, p)]
                  /\ UNCHANGED <<programs, stable, adding, admin>>
      BY <2>2 DEF AddProgram
    <3>2. todo[a] \in Lists /\ admin[a] = "load"
      BY <2>2 DEF AddProgram, IndInv, TypeOK
    <3>3. p \in Policies /\ todo[a][p] \in Bodies /\ todo[a][p] # None
      BY <3>1, <3>2, ListFacts, BodyFacts
    <3>4. CASE todo[a][p].valid
      <4>1. (programs \in [Policies -> Maybe(Bodies)])'
        BY <3>1, <3>3, <3>4 DEF IndInv, TypeOK, Maybe
      <4>2. (\A q \in Policies : policies[q] # None => programs[q] # None)'
        BY <2>2, <3>1, <3>3, <3>4 DEF AddProgram, IndInv, TypeOK
      <4>3. (adding \in [Admins -> Maybe(Policies)] /\ todo \in [Admins -> Lists])'
        BY <3>1, <3>3, <3>4 DEF IndInv, TypeOK, Maybe
      <4>4. (admin \in [Admins -> {"idle", "list", "load", "policy"}])'
        BY <3>1, <3>4 DEF IndInv, TypeOK
      <4>5. (\A x \in Admins : admin[x] = "policy" => adding[x] \in DOMAIN todo[x])'
        BY <3>1, <3>4 DEF IndInv, TypeOK
      <4>6. (stable \in [Callers -> SUBSET Policies])'
        BY <3>1, <3>4 DEF Disturb, IndInv, TypeOK
      <4>7. QED
        BY <2>2, <4>1, <4>2, <4>3, <4>4, <4>5, <4>6
          DEF AddProgram, IndInv, TypeOK, stored, callerVars
    <3>5. CASE ~todo[a][p].valid
      <4>1. (todo \in [Admins -> Lists])'
        <5>1. Skip(a, p) \in Lists
          BY <3>2, ListFacts DEF Skip
        <5>2. QED BY <3>1, <3>5, <5>1 DEF IndInv, TypeOK
      <4>2. (\A x \in Admins : admin[x] = "policy" => adding[x] \in DOMAIN todo[x])'
        BY <3>1, <3>2, <3>5 DEF IndInv, TypeOK
      <4>3. QED
        BY <2>2, <3>1, <3>5, <4>1, <4>2 DEF AddProgram, IndInv, TypeOK, stored, callerVars
    <3>6. QED BY <3>4, <3>5
  <2>3. CASE AddPolicy(a)
    <3>1. /\ admin[a] = "policy" /\ todo[a] \in Lists /\ adding[a] \in DOMAIN todo[a]
          /\ programs[adding[a]] # None
      BY <2>3 DEF AddPolicy, IndInv, TypeOK, StepsInOrder
    <3>2. adding[a] \in Policies /\ todo[a][adding[a]] \in Bodies /\ Skip(a, adding[a]) \in Lists
      BY <3>1, ListFacts DEF Skip
    <3>3. (policies \in [Policies -> Maybe(Bodies)])'
      BY <2>3, <3>2 DEF AddPolicy, IndInv, TypeOK, Maybe
    <3>4. (\A q \in Policies : policies[q] # None => programs[q] # None)'
      BY <2>3, <3>1, <3>2 DEF AddPolicy, IndInv, TypeOK
    <3>5. (todo \in [Admins -> Lists] /\ adding \in [Admins -> Maybe(Policies)])'
      BY <2>3, <3>2 DEF AddPolicy, IndInv, TypeOK, Maybe
    <3>6. (admin \in [Admins -> {"idle", "list", "load", "policy"}])'
      BY <2>3 DEF AddPolicy, IndInv, TypeOK
    <3>7. (\A x \in Admins : admin[x] = "policy" => adding[x] \in DOMAIN todo[x])'
      BY <2>3 DEF AddPolicy, IndInv, TypeOK
    <3>8. (stable \in [Callers -> SUBSET Policies])'
      BY <2>3 DEF AddPolicy, Disturb, IndInv, TypeOK
    <3>9. QED
      BY <2>3, <3>3, <3>4, <3>5, <3>6, <3>7, <3>8 DEF AddPolicy, IndInv, TypeOK, stored,
         callerVars
  <2>4. CASE LoadEnd(a)
    BY <2>4, BodiesAssumption, EditsAssumption
      DEF LoadEnd, stored, engine, callerVars, IndInv, TypeOK, Maybe
  <2>5. QED
    BY <1>4, <2>1, <2>2, <2>3, <2>4 DEF Load
<1>5. ASSUME NEW scope \in Scopes, EnableKillSwitch(scope) PROVE TypeOK'
  BY <1>5, BodiesAssumption, EditsAssumption
    DEF EnableKillSwitch, engine, callerVars, adminVars, IndInv, TypeOK, Maybe
<1>6. ASSUME NEW scope \in Scopes, DisableKillSwitch(scope) PROVE TypeOK'
  BY <1>6, BodiesAssumption, EditsAssumption
    DEF DisableKillSwitch, engine, callerVars, adminVars, IndInv, TypeOK, Maybe
<1>7. ASSUME NEW c \in Callers, NEW t \in Tools, NEW f \in Profiles, NEW j \in BOOLEAN,
             HandleToolCall(c, t, f, j)
      PROVE  TypeOK'
  BY <1>7, BodiesAssumption, EditsAssumption
    DEF HandleToolCall, Goto, Answer, stored, engine, adminVars, IndInv, TypeOK, Maybe
<1>8. ASSUME NEW c \in Callers, CallStep(c) PROVE TypeOK'
  <2>1. CASE KillSwitchScope(c)
    BY <2>1, BodiesAssumption, EditsAssumption
      DEF KillSwitchScope, Goto, Answer, stored, engine, adminVars, IndInv, TypeOK, Maybe
  <2>2. CASE KillSwitchGlobal(c)
    BY <2>2, BodiesAssumption, EditsAssumption
      DEF KillSwitchGlobal, Goto, Answer, stored, engine, adminVars, IndInv, TypeOK, Maybe
  <2>3. ASSUME NEW p \in Policies, EvaluateProgram(c, p) PROVE TypeOK'
    BY <2>3, BodiesAssumption, EditsAssumption
      DEF EvaluateProgram, Goto, stored, engine, adminVars, IndInv, TypeOK, Maybe
  <2>4. CASE EvaluatePolicy(c)
    <3>1. DecisionOf(policies[program[c]]) \in Decisions
      BY <2>4, BodyFacts, IdleFacts DEF EvaluatePolicy, IndInv, TypeOK, StepsInOrder, Maybe,
         DecisionOf
    <3>2. (decision \in [Callers -> Decisions])'
      BY <2>4, <3>1 DEF EvaluatePolicy, IndInv, TypeOK
    <3>3. QED
      BY <2>4, <3>2 DEF EvaluatePolicy, Goto, IndInv, TypeOK, Maybe, stored, engine, adminVars
  <2>5. CASE EvaluateEnd(c)
    BY <2>5, BodiesAssumption, EditsAssumption
      DEF EvaluateEnd, Goto, stored, engine, adminVars, IndInv, TypeOK, Maybe
  <2>6. ASSUME NEW room \in BOOLEAN, Decide(c, room) PROVE TypeOK'
    <3>1. PICK what \in {"forwarded", "denied", "admin", "user", "failed"} : Answer(c, what)
      BY <2>6, OutcomeTypes DEF Decide
    <3>2. QED BY <2>6, <3>1 DEF Decide, Answer, Goto, IndInv, TypeOK, stored, engine, adminVars
  <2>7. QED
    BY <1>8, <2>1, <2>2, <2>3, <2>4, <2>5, <2>6 DEF CallStep
<1>9. ASSUME NEW c \in Callers, Return(c) PROVE TypeOK'
  BY <1>9, IdleFacts DEF Return, Goto, stored, engine, adminVars, IndInv, TypeOK, Maybe
<1>10. CASE Restart
  <2>1. (programs \in [Policies -> Maybe(Bodies)] /\ policies \in [Policies -> Maybe(Bodies)])'
    BY <1>10, LoadedFacts DEF Restart, IndInv, TypeOK
  <2>2. (todo \in [Admins -> Lists] /\ adding \in [Admins -> Maybe(Policies)])'
    BY <1>10, NoRowsIsList DEF Restart, Maybe
  <2>3. (/\ tool \in [Callers -> Tools] /\ profile \in [Callers -> Profiles]
         /\ decision \in [Callers -> Decisions])'
    BY <1>10, IdleFacts DEF Restart
  <2>4. (/\ left \in [Callers -> SUBSET Policies] /\ must \in [Callers -> SUBSET Policies]
         /\ program \in [Callers -> Maybe(Policies)] /\ stable \in [Callers -> SUBSET Policies])'
    BY <1>10 DEF Restart, Maybe
  <2>5. QED BY <1>10, <2>1, <2>2, <2>3, <2>4 DEF Restart, IndInv, TypeOK, stored
<1>11. CASE UNCHANGED vars
  BY <1>11 DEF vars, stored, engine, callerVars, adminVars, IndInv, TypeOK, Maybe
<1>12. QED
  BY <1>1, <1>2, <1>3, <1>4, <1>5, <1>6, <1>7, <1>8, <1>9, <1>10, <1>11 DEF Next, Edit

\* Each step keeps StepsInOrder.
LEMMA OrderStep ==
    ASSUME IndInv, [Next]_vars
    PROVE  StepsInOrder'
<1>1. ASSUME NEW a \in Admins, NEW p \in Policies, NEW b \in Bodies, CreatePolicy(a, p, b)
      PROVE  StepsInOrder'
  BY <1>1, BodiesAssumption
    DEF CreatePolicy, engine, callerVars, NoRows, IndInv, TypeOK, Maybe, StepsInOrder
<1>2. ASSUME NEW a \in Admins, NEW p \in Policies, NEW b \in Bodies, UpdatePolicy(a, p, b)
      PROVE  StepsInOrder'
  BY <1>2, BodiesAssumption
    DEF UpdatePolicy, engine, callerVars, IndInv, TypeOK, Maybe, StepsInOrder
<1>3. ASSUME NEW a \in Admins, NEW p \in Policies, DeletePolicy(a, p) PROVE StepsInOrder'
  BY <1>3, BodiesAssumption
    DEF DeletePolicy, engine, callerVars, IndInv, TypeOK, Maybe, StepsInOrder
<1>4. ASSUME NEW a \in Admins, Load(a) PROVE StepsInOrder'
  <2>1. CASE ListPolicies(a)
    BY <2>1, BodiesAssumption
      DEF ListPolicies, stored, engine, callerVars, IndInv, TypeOK, Maybe, StepsInOrder
  <2>2. CASE AddProgram(a)
    BY <2>2, ListFacts, BodyFacts
      DEF AddProgram, Disturb, Skip, stored, callerVars, IndInv, TypeOK, Maybe, StepsInOrder
  <2>3. CASE AddPolicy(a)
    BY <2>3, BodiesAssumption
      DEF AddPolicy, Disturb, Skip, stored, callerVars, IndInv, TypeOK, Maybe, StepsInOrder
  <2>4. CASE LoadEnd(a)
    BY <2>4, BodiesAssumption
      DEF LoadEnd, stored, engine, callerVars, IndInv, TypeOK, Maybe, StepsInOrder
  <2>5. QED
    BY <1>4, <2>1, <2>2, <2>3, <2>4 DEF Load
<1>5. ASSUME NEW scope \in Scopes, EnableKillSwitch(scope) PROVE StepsInOrder'
  BY <1>5, BodiesAssumption
    DEF EnableKillSwitch, engine, callerVars, adminVars, IndInv, TypeOK, Maybe, StepsInOrder
<1>6. ASSUME NEW scope \in Scopes, DisableKillSwitch(scope) PROVE StepsInOrder'
  BY <1>6, BodiesAssumption
    DEF DisableKillSwitch, engine, callerVars, adminVars, IndInv, TypeOK, Maybe, StepsInOrder
<1>7. ASSUME NEW c \in Callers, NEW t \in Tools, NEW f \in Profiles, NEW j \in BOOLEAN,
             HandleToolCall(c, t, f, j)
      PROVE  StepsInOrder'
  BY <1>7, BodiesAssumption
    DEF HandleToolCall, Goto, Answer, stored, engine, adminVars, IndInv, TypeOK, Maybe,
    StepsInOrder
<1>8. ASSUME NEW c \in Callers, CallStep(c) PROVE StepsInOrder'
  <2>1. CASE KillSwitchScope(c)
    BY <2>1, BodiesAssumption
      DEF KillSwitchScope, Goto, Answer, stored, engine, adminVars, IndInv, TypeOK, Maybe,
      StepsInOrder
  <2>2. CASE KillSwitchGlobal(c)
    BY <2>2, BodiesAssumption
      DEF KillSwitchGlobal, Goto, Answer, stored, engine, adminVars, IndInv, TypeOK, Maybe,
      StepsInOrder
  <2>3. ASSUME NEW p \in Policies, EvaluateProgram(c, p) PROVE StepsInOrder'
    BY <2>3, BodiesAssumption
      DEF EvaluateProgram, Goto, stored, engine, adminVars, IndInv, TypeOK, Maybe,
      StepsInOrder
  <2>4. CASE EvaluatePolicy(c)
    BY <2>4, BodiesAssumption
      DEF EvaluatePolicy, Goto, stored, engine, adminVars, IndInv, TypeOK, Maybe, StepsInOrder
  <2>5. CASE EvaluateEnd(c)
    BY <2>5, BodiesAssumption
      DEF EvaluateEnd, Goto, stored, engine, adminVars, IndInv, TypeOK, Maybe, StepsInOrder
  <2>6. ASSUME NEW room \in BOOLEAN, Decide(c, room) PROVE StepsInOrder'
    BY <2>6, BodiesAssumption
      DEF Decide, Goto, Answer, stored, engine, adminVars, IndInv, TypeOK, Maybe, StepsInOrder
  <2>7. QED
    BY <1>8, <2>1, <2>2, <2>3, <2>4, <2>5, <2>6 DEF CallStep
<1>9. ASSUME NEW c \in Callers, Return(c) PROVE StepsInOrder'
  BY <1>9, BodiesAssumption
    DEF Return, Goto, stored, engine, adminVars, IndInv, TypeOK, Maybe, StepsInOrder
<1>10. CASE Restart
  BY <1>10, BodiesAssumption DEF Restart, stored, IndInv, TypeOK, Maybe, StepsInOrder
<1>11. CASE UNCHANGED vars
  BY <1>11 DEF vars, stored, engine, callerVars, adminVars, IndInv, TypeOK, Maybe, StepsInOrder
<1>12. QED
  BY <1>1, <1>2, <1>3, <1>4, <1>5, <1>6, <1>7, <1>8, <1>9, <1>10, <1>11 DEF Next, Edit

\* Each step keeps StableInEngine.
LEMMA StableStep ==
    ASSUME IndInv, [Next]_vars
    PROVE  StableInEngine'
<1>1. ASSUME NEW a \in Admins, NEW p \in Policies, NEW b \in Bodies, CreatePolicy(a, p, b)
      PROVE  StableInEngine'
  BY <1>1, BodiesAssumption
    DEF CreatePolicy, engine, callerVars, NoRows, IndInv, TypeOK, Maybe, StepsInOrder,
    StableInEngine
<1>2. ASSUME NEW a \in Admins, NEW p \in Policies, NEW b \in Bodies, UpdatePolicy(a, p, b)
      PROVE  StableInEngine'
  BY <1>2, BodiesAssumption
    DEF UpdatePolicy, engine, callerVars, IndInv, TypeOK, Maybe, StepsInOrder, StableInEngine
<1>3. ASSUME NEW a \in Admins, NEW p \in Policies, DeletePolicy(a, p) PROVE StableInEngine'
  BY <1>3, BodiesAssumption
    DEF DeletePolicy, engine, callerVars, IndInv, TypeOK, Maybe, StepsInOrder, StableInEngine
<1>4. ASSUME NEW a \in Admins, Load(a) PROVE StableInEngine'
  <2>1. CASE ListPolicies(a)
    BY <2>1, BodiesAssumption
      DEF ListPolicies, stored, engine, callerVars, IndInv, TypeOK, Maybe, StepsInOrder,
      StableInEngine
  <2>2. CASE AddProgram(a)
    BY <2>2, BodiesAssumption
      DEF AddProgram, Disturb, Skip, stored, callerVars, IndInv, TypeOK, Maybe, StepsInOrder,
      StableInEngine
  <2>3. CASE AddPolicy(a)
    BY <2>3, BodiesAssumption
      DEF AddPolicy, Disturb, Skip, stored, callerVars, IndInv, TypeOK, Maybe, StepsInOrder,
      StableInEngine
  <2>4. CASE LoadEnd(a)
    BY <2>4, BodiesAssumption
      DEF LoadEnd, stored, engine, callerVars, IndInv, TypeOK, Maybe, StepsInOrder,
      StableInEngine
  <2>5. QED
    BY <1>4, <2>1, <2>2, <2>3, <2>4 DEF Load
<1>5. ASSUME NEW scope \in Scopes, EnableKillSwitch(scope) PROVE StableInEngine'
  BY <1>5, BodiesAssumption
    DEF EnableKillSwitch, engine, callerVars, adminVars, IndInv, TypeOK, Maybe, StepsInOrder,
    StableInEngine
<1>6. ASSUME NEW scope \in Scopes, DisableKillSwitch(scope) PROVE StableInEngine'
  BY <1>6, BodiesAssumption
    DEF DisableKillSwitch, engine, callerVars, adminVars, IndInv, TypeOK, Maybe, StepsInOrder,
    StableInEngine
<1>7. ASSUME NEW c \in Callers, NEW t \in Tools, NEW f \in Profiles, NEW j \in BOOLEAN,
             HandleToolCall(c, t, f, j)
      PROVE  StableInEngine'
  BY <1>7, BodiesAssumption
    DEF HandleToolCall, Goto, Answer, stored, engine, adminVars, IndInv, TypeOK, Maybe,
    StepsInOrder, StableInEngine
<1>8. ASSUME NEW c \in Callers, CallStep(c) PROVE StableInEngine'
  <2>1. CASE KillSwitchScope(c)
    BY <2>1, BodiesAssumption
      DEF KillSwitchScope, Goto, Answer, stored, engine, adminVars, IndInv, TypeOK, Maybe,
      StepsInOrder, StableInEngine
  <2>2. CASE KillSwitchGlobal(c)
    BY <2>2, BodiesAssumption
      DEF KillSwitchGlobal, Goto, Answer, stored, engine, adminVars, IndInv, TypeOK, Maybe,
      StepsInOrder, StableInEngine
  <2>3. ASSUME NEW p \in Policies, EvaluateProgram(c, p) PROVE StableInEngine'
    BY <2>3, BodiesAssumption
      DEF EvaluateProgram, Goto, stored, engine, adminVars, IndInv, TypeOK, Maybe,
      StepsInOrder, StableInEngine
  <2>4. CASE EvaluatePolicy(c)
    BY <2>4, BodiesAssumption
      DEF EvaluatePolicy, Goto, stored, engine, adminVars, IndInv, TypeOK, Maybe,
      StepsInOrder, StableInEngine
  <2>5. CASE EvaluateEnd(c)
    BY <2>5, BodiesAssumption
      DEF EvaluateEnd, Goto, stored, engine, adminVars, IndInv, TypeOK, Maybe, StepsInOrder,
      StableInEngine
  <2>6. ASSUME NEW room \in BOOLEAN, Decide(c, room) PROVE StableInEngine'
    BY <2>6, BodiesAssumption
      DEF Decide, Goto, Answer, stored, engine, adminVars, IndInv, TypeOK, Maybe,
      StepsInOrder, StableInEngine
  <2>7. QED
    BY <1>8, <2>1, <2>2, <2>3, <2>4, <2>5, <2>6 DEF CallStep
<1>9. ASSUME NEW c \in Callers, Return(c) PROVE StableInEngine'
  BY <1>9, BodiesAssumption
    DEF Return, Goto, stored, engine, adminVars, IndInv, TypeOK, Maybe, StepsInOrder,
    StableInEngine
<1>10. CASE Restart
  BY <1>10, BodiesAssumption
    DEF Restart, stored, IndInv, TypeOK, Maybe, StepsInOrder, StableInEngine
<1>11. CASE UNCHANGED vars
  BY <1>11
    DEF vars, stored, engine, callerVars, adminVars, IndInv, TypeOK, Maybe, StepsInOrder,
    StableInEngine
<1>12. QED
  BY <1>1, <1>2, <1>3, <1>4, <1>5, <1>6, <1>7, <1>8, <1>9, <1>10, <1>11 DEF Next, Edit

\* Each step keeps StableIsVisited.
LEMMA VisitedStep ==
    ASSUME IndInv, [Next]_vars
    PROVE  StableIsVisited'
<1>1. ASSUME NEW a \in Admins, NEW p \in Policies, NEW b \in Bodies, CreatePolicy(a, p, b)
      PROVE  StableIsVisited'
  BY <1>1 DEF CreatePolicy, engine, callerVars, NoRows, IndInv, TypeOK, Maybe, StableIsVisited
<1>2. ASSUME NEW a \in Admins, NEW p \in Policies, NEW b \in Bodies, UpdatePolicy(a, p, b)
      PROVE  StableIsVisited'
  BY <1>2 DEF UpdatePolicy, engine, callerVars, IndInv, TypeOK, Maybe, StableIsVisited
<1>3. ASSUME NEW a \in Admins, NEW p \in Policies, DeletePolicy(a, p) PROVE StableIsVisited'
  BY <1>3 DEF DeletePolicy, engine, callerVars, IndInv, TypeOK, Maybe, StableIsVisited
<1>4. ASSUME NEW a \in Admins, Load(a) PROVE StableIsVisited'
  <2>1. CASE ListPolicies(a)
    BY <2>1 DEF ListPolicies, stored, engine, callerVars, IndInv, TypeOK, Maybe, StableIsVisited
  <2>2. CASE AddProgram(a)
    BY <2>2
      DEF AddProgram, Disturb, Skip, stored, callerVars, IndInv, TypeOK, Maybe,
      StableIsVisited
  <2>3. CASE AddPolicy(a)
    BY <2>3
      DEF AddPolicy, Disturb, Skip, stored, callerVars, IndInv, TypeOK, Maybe, StableIsVisited
  <2>4. CASE LoadEnd(a)
    BY <2>4 DEF LoadEnd, stored, engine, callerVars, IndInv, TypeOK, Maybe, StableIsVisited
  <2>5. QED
    BY <1>4, <2>1, <2>2, <2>3, <2>4 DEF Load
<1>5. ASSUME NEW scope \in Scopes, EnableKillSwitch(scope) PROVE StableIsVisited'
  BY <1>5
    DEF EnableKillSwitch, engine, callerVars, adminVars, IndInv, TypeOK, Maybe,
    StableIsVisited
<1>6. ASSUME NEW scope \in Scopes, DisableKillSwitch(scope) PROVE StableIsVisited'
  BY <1>6
    DEF DisableKillSwitch, engine, callerVars, adminVars, IndInv, TypeOK, Maybe,
    StableIsVisited
<1>7. ASSUME NEW c \in Callers, NEW t \in Tools, NEW f \in Profiles, NEW j \in BOOLEAN,
             HandleToolCall(c, t, f, j)
      PROVE  StableIsVisited'
  BY <1>7
    DEF HandleToolCall, Goto, Answer, stored, engine, adminVars, IndInv, TypeOK, Maybe,
    StableIsVisited
<1>8. ASSUME NEW c \in Callers, CallStep(c) PROVE StableIsVisited'
  <2>1. CASE KillSwitchScope(c)
    BY <2>1
      DEF KillSwitchScope, Goto, Answer, stored, engine, adminVars, IndInv, TypeOK, Maybe,
      StableIsVisited
  <2>2. CASE KillSwitchGlobal(c)
    BY <2>2
      DEF KillSwitchGlobal, Goto, Answer, stored, engine, adminVars, IndInv, TypeOK, Maybe,
      StableIsVisited
  <2>3. ASSUME NEW p \in Policies, EvaluateProgram(c, p) PROVE StableIsVisited'
    BY <2>3
      DEF EvaluateProgram, Goto, stored, engine, adminVars, IndInv, TypeOK, Maybe,
      StableIsVisited
  <2>4. CASE EvaluatePolicy(c)
    BY <2>4
      DEF EvaluatePolicy, Goto, stored, engine, adminVars, IndInv, TypeOK, Maybe,
      StableIsVisited
  <2>5. CASE EvaluateEnd(c)
    BY <2>5
      DEF EvaluateEnd, Goto, stored, engine, adminVars, IndInv, TypeOK, Maybe, StableIsVisited
  <2>6. ASSUME NEW room \in BOOLEAN, Decide(c, room) PROVE StableIsVisited'
    BY <2>6
      DEF Decide, Goto, Answer, stored, engine, adminVars, IndInv, TypeOK, Maybe,
      StableIsVisited
  <2>7. QED
    BY <1>8, <2>1, <2>2, <2>3, <2>4, <2>5, <2>6 DEF CallStep
<1>9. ASSUME NEW c \in Callers, Return(c) PROVE StableIsVisited'
  BY <1>9 DEF Return, Goto, stored, engine, adminVars, IndInv, TypeOK, Maybe, StableIsVisited
<1>10. CASE Restart
  BY <1>10 DEF Restart, stored, IndInv, TypeOK, Maybe, StableIsVisited
<1>11. CASE UNCHANGED vars
  BY <1>11
    DEF vars, stored, engine, callerVars, adminVars, IndInv, TypeOK, Maybe, StableIsVisited
<1>12. QED
  BY <1>1, <1>2, <1>3, <1>4, <1>5, <1>6, <1>7, <1>8, <1>9, <1>10, <1>11 DEF Next, Edit

\* Each step keeps DecisionIsStrict.
LEMMA StrictStep ==
    ASSUME IndInv, [Next]_vars
    PROVE  DecisionIsStrict'
<1>1. ASSUME NEW a \in Admins, NEW p \in Policies, NEW b \in Bodies, CreatePolicy(a, p, b)
      PROVE  DecisionIsStrict'
  BY <1>1
    DEF CreatePolicy, engine, callerVars, NoRows, IndInv, TypeOK, Maybe, StepsInOrder,
    StableInEngine, StableIsVisited, DecisionIsStrict, Considered
<1>2. ASSUME NEW a \in Admins, NEW p \in Policies, NEW b \in Bodies, UpdatePolicy(a, p, b)
      PROVE  DecisionIsStrict'
  BY <1>2
    DEF UpdatePolicy, engine, callerVars, IndInv, TypeOK, Maybe, StepsInOrder, StableInEngine,
    StableIsVisited, DecisionIsStrict, Considered
<1>3. ASSUME NEW a \in Admins, NEW p \in Policies, DeletePolicy(a, p) PROVE DecisionIsStrict'
  BY <1>3
    DEF DeletePolicy, engine, callerVars, IndInv, TypeOK, Maybe, StepsInOrder, StableInEngine,
    StableIsVisited, DecisionIsStrict, Considered
<1>4. ASSUME NEW a \in Admins, Load(a) PROVE DecisionIsStrict'
  <2>1. CASE ListPolicies(a)
    BY <2>1
      DEF ListPolicies, stored, engine, callerVars, IndInv, TypeOK, Maybe, StepsInOrder,
      StableInEngine, StableIsVisited, DecisionIsStrict, Considered
  <2>2. CASE AddProgram(a)
    BY <2>2
      DEF AddProgram, Disturb, Skip, stored, callerVars, IndInv, TypeOK, Maybe, StepsInOrder,
      StableInEngine, StableIsVisited, DecisionIsStrict, Considered
  <2>3. CASE AddPolicy(a)
    BY <2>3
      DEF AddPolicy, Disturb, Skip, stored, callerVars, IndInv, TypeOK, Maybe, StepsInOrder,
      StableInEngine, StableIsVisited, DecisionIsStrict, Considered
  <2>4. CASE LoadEnd(a)
    BY <2>4
      DEF LoadEnd, stored, engine, callerVars, IndInv, TypeOK, Maybe, StepsInOrder,
      StableInEngine, StableIsVisited, DecisionIsStrict, Considered
  <2>5. QED
    BY <1>4, <2>1, <2>2, <2>3, <2>4 DEF Load
<1>5. ASSUME NEW scope \in Scopes, EnableKillSwitch(scope) PROVE DecisionIsStrict'
  BY <1>5
    DEF EnableKillSwitch, engine, callerVars, adminVars, IndInv, TypeOK, Maybe, StepsInOrder,
    StableInEngine, StableIsVisited, DecisionIsStrict, Considered
<1>6. ASSUME NEW scope \in Scopes, DisableKillSwitch(scope) PROVE DecisionIsStrict'
  BY <1>6
    DEF DisableKillSwitch, engine, callerVars, adminVars, IndInv, TypeOK, Maybe, StepsInOrder,
    StableInEngine, StableIsVisited, DecisionIsStrict, Considered
<1>7. ASSUME NEW c \in Callers, NEW t \in Tools, NEW f \in Profiles, NEW j \in BOOLEAN,
             HandleToolCall(c, t, f, j)
      PROVE  DecisionIsStrict'
  BY <1>7
    DEF HandleToolCall, Goto, Answer, stored, engine, adminVars, IndInv, TypeOK, Maybe,
    StepsInOrder, StableInEngine, StableIsVisited, DecisionIsStrict, Considered
<1>8. ASSUME NEW c \in Callers, CallStep(c) PROVE DecisionIsStrict'
  <2>1. CASE KillSwitchScope(c)
    BY <2>1
      DEF KillSwitchScope, Goto, Answer, stored, engine, adminVars, IndInv, TypeOK, Maybe,
      StepsInOrder, StableInEngine, StableIsVisited, DecisionIsStrict, Considered
  <2>2. CASE KillSwitchGlobal(c)
    BY <2>2
      DEF KillSwitchGlobal, Goto, Answer, stored, engine, adminVars, IndInv, TypeOK, Maybe,
      StepsInOrder, StableInEngine, StableIsVisited, DecisionIsStrict, Considered
  <2>3. ASSUME NEW p \in Policies, EvaluateProgram(c, p) PROVE DecisionIsStrict'
    BY <2>3
      DEF EvaluateProgram, Goto, stored, engine, adminVars, IndInv, TypeOK, Maybe,
      StepsInOrder, StableInEngine, StableIsVisited, DecisionIsStrict, Considered
  <2>4. CASE EvaluatePolicy(c)
    <3>1. program[c] \in Policies
      BY <2>4 DEF EvaluatePolicy, IndInv, StepsInOrder
    <3>2. /\ ActionPriority(decision[c].action) <= ActionPriority(decision'[c].action)
          /\ ActionPriority(DecisionOf(policies[program[c]]).action)
               <= ActionPriority(decision'[c].action)
      BY <2>4, StricterStays, PriorityRange DEF EvaluatePolicy, IndInv, TypeOK
    <3>3. program[c] \in stable[c] =>
            DecisionOf(policies[program[c]]).action = policies[program[c]].action
      BY <3>1, BodyFacts DEF IndInv, TypeOK, Maybe, StableInEngine
    <3>4. ASSUME NEW p \in stable[c], tool[c] \in programs[p].match PROVE Considered(c, p)'
      BY <2>4, <3>1, <3>2, <3>3, <3>4, PriorityRange
        DEF EvaluatePolicy, Goto, engine, Considered, DecisionIsStrict, IndInv, TypeOK
    <3>5. \A x \in Callers \ {c} : \A p : Considered(x, p)' <=> Considered(x, p)
      BY <2>4 DEF EvaluatePolicy, Goto, engine, Considered, IndInv, TypeOK
    <3>6. QED
      BY <2>4, <3>4, <3>5 DEF EvaluatePolicy, Goto, engine, DecisionIsStrict, IndInv, TypeOK
  <2>5. CASE EvaluateEnd(c)
    BY <2>5
      DEF EvaluateEnd, Goto, stored, engine, adminVars, IndInv, TypeOK, Maybe, StepsInOrder,
      StableInEngine, StableIsVisited, DecisionIsStrict, Considered
  <2>6. ASSUME NEW room \in BOOLEAN, Decide(c, room) PROVE DecisionIsStrict'
    BY <2>6
      DEF Decide, Goto, Answer, stored, engine, adminVars, IndInv, TypeOK, Maybe,
      StepsInOrder, StableInEngine, StableIsVisited, DecisionIsStrict, Considered
  <2>7. QED
    BY <1>8, <2>1, <2>2, <2>3, <2>4, <2>5, <2>6 DEF CallStep
<1>9. ASSUME NEW c \in Callers, Return(c) PROVE DecisionIsStrict'
  BY <1>9
    DEF Return, Goto, stored, engine, adminVars, IndInv, TypeOK, Maybe, StepsInOrder,
    StableInEngine, StableIsVisited, DecisionIsStrict, Considered
<1>10. CASE Restart
  BY <1>10
    DEF Restart, stored, IndInv, TypeOK, Maybe, StepsInOrder, StableInEngine, StableIsVisited,
    DecisionIsStrict, Considered
<1>11. CASE UNCHANGED vars
  BY <1>11
    DEF vars, stored, engine, callerVars, adminVars, IndInv, TypeOK, Maybe, StepsInOrder,
    StableInEngine, StableIsVisited, DecisionIsStrict, Considered
<1>12. QED
  BY <1>1, <1>2, <1>3, <1>4, <1>5, <1>6, <1>7, <1>8, <1>9, <1>10, <1>11 DEF Next, Edit

\* Each step keeps MostRestrictiveWins.
LEMMA RestrictiveStep ==
    ASSUME IndInv, [Next]_vars
    PROVE  MostRestrictiveWins'
<1>1. ASSUME NEW a \in Admins, NEW p \in Policies, NEW b \in Bodies, CreatePolicy(a, p, b)
      PROVE  MostRestrictiveWins'
  BY <1>1
    DEF CreatePolicy, engine, callerVars, NoRows, IndInv, TypeOK, Maybe, StepsInOrder,
    StableInEngine, StableIsVisited, DecisionIsStrict, MostRestrictiveWins
<1>2. ASSUME NEW a \in Admins, NEW p \in Policies, NEW b \in Bodies, UpdatePolicy(a, p, b)
      PROVE  MostRestrictiveWins'
  BY <1>2
    DEF UpdatePolicy, engine, callerVars, IndInv, TypeOK, Maybe, StepsInOrder, StableInEngine,
    StableIsVisited, DecisionIsStrict, MostRestrictiveWins
<1>3. ASSUME NEW a \in Admins, NEW p \in Policies, DeletePolicy(a, p) PROVE MostRestrictiveWins'
  BY <1>3
    DEF DeletePolicy, engine, callerVars, IndInv, TypeOK, Maybe, StepsInOrder, StableInEngine,
    StableIsVisited, DecisionIsStrict, MostRestrictiveWins
<1>4. ASSUME NEW a \in Admins, Load(a) PROVE MostRestrictiveWins'
  <2>1. CASE ListPolicies(a)
    BY <2>1
      DEF ListPolicies, stored, engine, callerVars, IndInv, TypeOK, Maybe, StepsInOrder,
      StableInEngine, StableIsVisited, DecisionIsStrict, MostRestrictiveWins
  <2>2. CASE AddProgram(a)
    BY <2>2
      DEF AddProgram, Disturb, Skip, stored, callerVars, IndInv, TypeOK, Maybe, StepsInOrder,
      StableInEngine, StableIsVisited, DecisionIsStrict, MostRestrictiveWins
  <2>3. CASE AddPolicy(a)
    BY <2>3
      DEF AddPolicy, Disturb, Skip, stored, callerVars, IndInv, TypeOK, Maybe, StepsInOrder,
      StableInEngine, StableIsVisited, DecisionIsStrict, MostRestrictiveWins
  <2>4. CASE LoadEnd(a)
    BY <2>4
      DEF LoadEnd, stored, engine, callerVars, IndInv, TypeOK, Maybe, StepsInOrder,
      StableInEngine, StableIsVisited, DecisionIsStrict, MostRestrictiveWins
  <2>5. QED
    BY <1>4, <2>1, <2>2, <2>3, <2>4 DEF Load
<1>5. ASSUME NEW scope \in Scopes, EnableKillSwitch(scope) PROVE MostRestrictiveWins'
  BY <1>5
    DEF EnableKillSwitch, engine, callerVars, adminVars, IndInv, TypeOK, Maybe, StepsInOrder,
    StableInEngine, StableIsVisited, DecisionIsStrict, MostRestrictiveWins
<1>6. ASSUME NEW scope \in Scopes, DisableKillSwitch(scope) PROVE MostRestrictiveWins'
  BY <1>6
    DEF DisableKillSwitch, engine, callerVars, adminVars, IndInv, TypeOK, Maybe, StepsInOrder,
    StableInEngine, StableIsVisited, DecisionIsStrict, MostRestrictiveWins
<1>7. ASSUME NEW c \in Callers, NEW t \in Tools, NEW f \in Profiles, NEW j \in BOOLEAN,
             HandleToolCall(c, t, f, j)
      PROVE  MostRestrictiveWins'
  BY <1>7
    DEF HandleToolCall, Goto, Answer, stored, engine, adminVars, IndInv, TypeOK, Maybe,
    StepsInOrder, StableInEngine, StableIsVisited, DecisionIsStrict, MostRestrictiveWins
<1>8. ASSUME NEW c \in Callers, CallStep(c) PROVE MostRestrictiveWins'
  <2>1. CASE KillSwitchScope(c)
    BY <2>1
      DEF KillSwitchScope, Goto, Answer, stored, engine, adminVars, IndInv, TypeOK, Maybe,
      StepsInOrder, StableInEngine, StableIsVisited, DecisionIsStrict, MostRestrictiveWins
  <2>2. CASE KillSwitchGlobal(c)
    BY <2>2
      DEF KillSwitchGlobal, Goto, Answer, stored, engine, adminVars, IndInv, TypeOK, Maybe,
      StepsInOrder, StableInEngine, StableIsVisited, DecisionIsStrict, MostRestrictiveWins
  <2>3. ASSUME NEW p \in Policies, EvaluateProgram(c, p) PROVE MostRestrictiveWins'
    BY <2>3
      DEF EvaluateProgram, Goto, stored, engine, adminVars, IndInv, TypeOK, Maybe,
      StepsInOrder, StableInEngine, StableIsVisited, DecisionIsStrict, MostRestrictiveWins
  <2>4. CASE EvaluatePolicy(c)
    BY <2>4
      DEF EvaluatePolicy, Goto, stored, engine, adminVars, IndInv, TypeOK, Maybe,
      StepsInOrder, StableInEngine, StableIsVisited, DecisionIsStrict, MostRestrictiveWins
  <2>5. CASE EvaluateEnd(c)
    BY <2>5
      DEF EvaluateEnd, Goto, stored, engine, adminVars, IndInv, TypeOK, Maybe, StepsInOrder,
      StableInEngine, StableIsVisited, DecisionIsStrict, MostRestrictiveWins
  <2>6. ASSUME NEW room \in BOOLEAN, Decide(c, room) PROVE MostRestrictiveWins'
    <3>1. ASSUME NEW p \in stable[c], tool[c] \in programs[p].match
          PROVE  Respects(outcome'[c], policies[p].action)
      <4>1. ActionPriority(policies[p].action) <= ActionPriority(decision[c].action)
        BY <2>6, <3>1 DEF Decide, IndInv, DecisionIsStrict, Considered
      <4>2. policies[p].action \in Actions /\ decision[c].action \in Actions \cup {""}
        <5>1. p \in Policies /\ policies[p] \in Bodies
          BY <3>1 DEF IndInv, TypeOK, Maybe, StableInEngine
        <5>2. decision[c] \in Decisions
          BY DEF IndInv, TypeOK
        <5>3. QED BY <5>1, <5>2, BodyFacts DEF Decisions
      <4>3. outcome'[c] \in Outcomes(Limited(Tightened(Permitted(decision[c].action, profile[c]),
                                                      profile[c]), room))
        BY <2>6 DEF Decide, Answer, IndInv, TypeOK
      <4>4. profile[c] \in Profiles
        BY DEF IndInv, TypeOK
      <4>5. QED BY <4>1, <4>2, <4>3, <4>4, GatesRespect
    <3>2. QED
      BY <2>6, <3>1 DEF Decide, Answer, Goto, engine, MostRestrictiveWins, IndInv, TypeOK
  <2>7. QED
    BY <1>8, <2>1, <2>2, <2>3, <2>4, <2>5, <2>6 DEF CallStep
<1>9. ASSUME NEW c \in Callers, Return(c) PROVE MostRestrictiveWins'
  BY <1>9
    DEF Return, Goto, stored, engine, adminVars, IndInv, TypeOK, Maybe, StepsInOrder,
    StableInEngine, StableIsVisited, DecisionIsStrict, MostRestrictiveWins
<1>10. CASE Restart
  BY <1>10
    DEF Restart, stored, IndInv, TypeOK, Maybe, StepsInOrder, StableInEngine, StableIsVisited,
    DecisionIsStrict, MostRestrictiveWins
<1>11. CASE UNCHANGED vars
  BY <1>11
    DEF vars, stored, engine, callerVars, adminVars, IndInv, TypeOK, Maybe, StepsInOrder,
    StableInEngine, StableIsVisited, DecisionIsStrict, MostRestrictiveWins
<1>12. QED
  BY <1>1, <1>2, <1>3, <1>4, <1>5, <1>6, <1>7, <1>8, <1>9, <1>10, <1>11 DEF Next, Edit

\* The empty store and engine satisfy the invariant.
LEMMA InitIndInv == Init => IndInv
<1>1. SUFFICES ASSUME Init PROVE IndInv
  OBVIOUS
<1>2. TypeOK
  <2>1. Loaded \in [Policies -> Maybe(Bodies)]
    BY <1>1, LoadedFacts DEF Init
  <2>2. todo \in [Admins -> Lists] /\ adding \in [Admins -> Maybe(Policies)]
    BY <1>1, NoRowsIsList DEF Init, Maybe
  <2>3. program \in [Callers -> Maybe(Policies)]
    BY <1>1 DEF Init, Maybe
  <2>4. QED BY <1>1, <2>1, <2>2, <2>3, IdleFacts, EditsAssumption DEF Init, TypeOK
<1>3. StepsInOrder /\ StableInEngine /\ StableIsVisited /\ DecisionIsStrict
  BY <1>1 DEF Init, StepsInOrder, StableInEngine, StableIsVisited, DecisionIsStrict
<1>4. MostRestrictiveWins
  BY <1>1 DEF Init, MostRestrictiveWins
<1>5. QED BY <1>2, <1>3, <1>4 DEF IndInv

\* IndInv is an inductive invariant of the policy engine.
THEOREM EnforcerInvariance == Spec => []IndInv
<1>1. Init => IndInv
  BY InitIndInv
<1>2. IndInv /\ [Next]_vars => IndInv'
  BY TypeStep, OrderStep, StableStep, VisitedStep, StrictStep, RestrictiveStep DEF IndInv
<1>3. QED BY <1>1, <1>2, PTL DEF Spec

\* The types hold always.
THEOREM EnforcerTypes == Spec => []TypeOK
<1>1. IndInv => TypeOK
  BY DEF IndInv
<1>2. QED BY <1>1, EnforcerInvariance, PTL

\* A call is treated at least as strictly as every matching policy asks that stayed
\* in the engine while it was evaluated, whoever reloads the engine meanwhile.
THEOREM EnforcerRestrictive == Spec => []MostRestrictiveWins
<1>1. IndInv => MostRestrictiveWins
  BY DEF IndInv
<1>2. QED BY <1>1, EnforcerInvariance, PTL
-----------------------------------------------------------------------------
(* No enabled policy is missing from the engine, whoever edits at the same  *)
(* time.                                                                    *)

\* The engine holds some version of policy p in both maps.
Known(p) == programs[p] # None /\ policies[p] # None

\* Administrator a is about to list the rows, or has p still to add.
OnItsWay(a, p) ==
    \/ admin[a] = "list"
    \/ admin[a] \in {"load", "policy"} /\ p \in DOMAIN todo[a] /\ todo[a][p].valid

\* An enabled row that compiles is in the engine or on its way there.
KnownInv ==
    \A p \in Policies : Loadable(rows[p]) => Known(p) \/ \E a \in Admins : OnItsWay(a, p)

\* A step that leaves the table, the engine and the administrators alone.
LEMMA KnownFrame ==
    ASSUME KnownInv, UNCHANGED <<rows, programs, policies, todo, admin>>
    PROVE  KnownInv'
BY DEF KnownInv, Known, OnItsWay, Loadable

\* Each step keeps KnownInv: the other administrators keep what they have to add.
LEMMA KnownStep ==
    ASSUME IndInv, KnownInv, [Next]_vars
    PROVE  KnownInv'
<1>1. ASSUME NEW a \in Admins, NEW p \in Policies, NEW b \in Bodies, CreatePolicy(a, p, b),
             NEW q \in Policies, Loadable(rows'[q])
      PROVE  Known(q)' \/ \E x \in Admins : OnItsWay(x, q)'
  <2>1. /\ admin[a] = "idle" /\ admin'[a] = "load"
        /\ \A x \in Admins : x # a => admin'[x] = admin[x] /\ todo'[x] = todo[x]
        /\ todo'[a] = IF b.enabled THEN [r \in {p} |-> b] ELSE NoRows
        /\ programs' = programs /\ policies' = policies
    BY <1>1 DEF CreatePolicy, IndInv, TypeOK, engine
  <2>2. CASE q = p
    <3>1. rows'[p] = b /\ b.enabled /\ b.valid
      BY <1>1, <2>2 DEF CreatePolicy, IndInv, TypeOK, Loadable
    <3>2. todo'[a] = [r \in {p} |-> b]
      BY <2>1, <3>1
    <3>3. p \in DOMAIN todo'[a] /\ todo'[a][p].valid
      BY <3>1, <3>2
    <3>4. QED BY <2>1, <2>2, <3>3 DEF OnItsWay
  <2>3. CASE q # p
    <3>1. Loadable(rows[q])
      BY <1>1, <2>3 DEF CreatePolicy, IndInv, TypeOK
    <3>2. CASE Known(q)
      BY <2>1, <3>2 DEF Known
    <3>3. ASSUME NEW x \in Admins, OnItsWay(x, q) PROVE OnItsWay(x, q)'
      BY <2>1, <3>3 DEF OnItsWay
    <3>4. QED BY <3>1, <3>2, <3>3 DEF KnownInv
  <2>4. QED BY <2>2, <2>3
<1>2. ASSUME NEW a \in Admins, NEW p \in Policies,
             DeletePolicy(a, p) \/ \E b \in Bodies : UpdatePolicy(a, p, b)
      PROVE  KnownInv'
  <2>1. admin'[a] = "list"
    BY <1>2 DEF UpdatePolicy, DeletePolicy, IndInv, TypeOK
  <2>2. QED BY <2>1 DEF KnownInv, OnItsWay
<1>3. ASSUME NEW a \in Admins, ListPolicies(a) PROVE KnownInv'
  <2>1. /\ admin'[a] = "load" /\ rows' = rows
        /\ todo'[a] = [q \in {p \in Policies : rows[p] # None /\ rows[p].enabled} |-> rows[q]]
    BY <1>3 DEF ListPolicies, IndInv, TypeOK, stored
  <2>2. ASSUME NEW p \in Policies, Loadable(rows'[p]) PROVE OnItsWay(a, p)'
    <3>1. p \in DOMAIN todo'[a] /\ todo'[a][p] = rows[p] /\ rows[p].valid
      BY <2>1, <2>2 DEF Loadable
    <3>2. QED BY <2>1, <3>1 DEF OnItsWay
  <2>3. QED BY <2>2 DEF KnownInv
<1>4. ASSUME NEW a \in Admins, AddProgram(a),
             NEW q \in Policies, Loadable(rows'[q])
      PROVE  Known(q)' \/ \E x \in Admins : OnItsWay(x, q)'
  <2>1. PICK p \in DOMAIN todo[a] :
           IF todo[a][p].valid
           THEN /\ programs' = [programs EXCEPT ![p] = todo[a][p]]
                /\ admin' = [admin EXCEPT ![a] = "policy"]
                /\ UNCHANGED todo
           ELSE /\ todo' = [todo EXCEPT ![a] = Skip(a, p)]
                /\ UNCHANGED <<programs, admin>>
    BY <1>4 DEF AddProgram
  <2>2. admin[a] = "load" /\ rows' = rows /\ policies' = policies
    BY <1>4 DEF AddProgram, stored
  <2>3. p \in Policies /\ todo[a][p] # None
    BY <2>1, ListFacts, BodyFacts DEF IndInv, TypeOK
  <2>4. CASE Known(q)
    <3>1. programs'[q] # None
      BY <2>1, <2>3, <2>4 DEF Known, IndInv, TypeOK
    <3>2. QED BY <2>2, <2>4, <3>1 DEF Known
  <2>5. ASSUME NEW x \in Admins, OnItsWay(x, q) PROVE OnItsWay(x, q)'
    <3>1. CASE todo[a][p].valid
      <4>1. /\ admin'[a] = "policy" /\ todo' = todo
            /\ \A y \in Admins : y # a => admin'[y] = admin[y]
        BY <2>1, <3>1 DEF IndInv, TypeOK
      <4>2. QED BY <2>2, <2>5, <4>1 DEF OnItsWay
    <3>2. CASE ~todo[a][p].valid
      <4>1. /\ admin' = admin /\ todo'[a] = [r \in DOMAIN todo[a] \ {p} |-> todo[a][r]]
            /\ \A y \in Admins : y # a => todo'[y] = todo[y]
        BY <2>1, <3>2 DEF Skip, IndInv, TypeOK
      <4>2. CASE x = a
        <5>1. q \in DOMAIN todo[a] /\ todo[a][q].valid
          BY <2>2, <2>5, <4>2 DEF OnItsWay
        <5>2. q # p
          BY <3>2, <5>1
        <5>3. q \in DOMAIN todo'[a] /\ todo'[a][q].valid
          BY <4>1, <5>1, <5>2
        <5>4. QED BY <2>2, <4>1, <4>2, <5>3 DEF OnItsWay
      <4>3. CASE x # a
        BY <2>5, <4>1, <4>3 DEF OnItsWay
      <4>4. QED BY <4>2, <4>3
    <3>3. QED BY <3>1, <3>2
  <2>6. QED BY <1>4, <2>2, <2>4, <2>5 DEF KnownInv
<1>5. ASSUME NEW a \in Admins, AddPolicy(a),
             NEW q \in Policies, Loadable(rows'[q])
      PROVE  Known(q)' \/ \E x \in Admins : OnItsWay(x, q)'
  <2>1. PICK p : p = adding[a]
    OBVIOUS
  <2>2. /\ admin[a] = "policy" /\ p \in DOMAIN todo[a] /\ p \in Policies
        /\ programs[p] # None /\ todo[a][p] # None
    BY <1>5, <2>1, ListFacts, BodyFacts DEF AddPolicy, IndInv, TypeOK, StepsInOrder
  <2>3. /\ admin'[a] = "load" /\ rows' = rows /\ programs' = programs
        /\ policies' = [policies EXCEPT ![p] = todo[a][p]]
        /\ todo'[a] = [r \in DOMAIN todo[a] \ {p} |-> todo[a][r]]
        /\ \A y \in Admins : y # a => admin'[y] = admin[y] /\ todo'[y] = todo[y]
    BY <1>5, <2>1 DEF AddPolicy, Skip, IndInv, TypeOK, stored
  <2>4. policies'[p] = todo[a][p] /\ \A r \in Policies : r # p => policies'[r] = policies[r]
    BY <2>2, <2>3 DEF IndInv, TypeOK
  <2>5. CASE q = p
    BY <2>2, <2>3, <2>4, <2>5 DEF Known
  <2>6. CASE q # p /\ Known(q)
    BY <2>3, <2>4, <2>6 DEF Known
  <2>7. ASSUME q # p, NEW x \in Admins, OnItsWay(x, q) PROVE OnItsWay(x, q)'
    <3>1. CASE x = a
      <4>1. q \in DOMAIN todo[a] /\ todo[a][q].valid
        BY <2>2, <2>7, <3>1 DEF OnItsWay
      <4>2. q \in DOMAIN todo'[a] /\ todo'[a][q].valid
        BY <2>3, <2>7, <4>1
      <4>3. QED BY <2>3, <3>1, <4>2 DEF OnItsWay
    <3>2. CASE x # a
      BY <2>3, <2>7, <3>2 DEF OnItsWay
    <3>3. QED BY <3>1, <3>2
  <2>8. QED BY <1>5, <2>3, <2>5, <2>6, <2>7 DEF KnownInv
<1>6. ASSUME NEW a \in Admins, LoadEnd(a) PROVE KnownInv'
  <2>1. /\ admin[a] = "load" /\ DOMAIN todo[a] = {} /\ todo' = todo
        /\ rows' = rows /\ programs' = programs /\ policies' = policies
        /\ \A y \in Admins : y # a => admin'[y] = admin[y]
    BY <1>6 DEF LoadEnd, stored, engine, IndInv, TypeOK
  <2>2. ASSUME NEW x \in Admins, NEW q \in Policies, OnItsWay(x, q) PROVE OnItsWay(x, q)'
    <3>1. x # a
      BY <2>1, <2>2 DEF OnItsWay
    <3>2. QED BY <2>1, <2>2, <3>1 DEF OnItsWay
  <2>3. QED BY <2>1, <2>2 DEF KnownInv, Known
<1>7. CASE Restart
  <2>1. programs' = Loaded /\ policies' = Loaded /\ rows' = rows
    BY <1>7 DEF Restart, stored
  <2>2. QED BY <2>1 DEF KnownInv, Known, Loaded, Loadable
<1>8. ASSUME NEW scope \in Scopes, EnableKillSwitch(scope) \/ DisableKillSwitch(scope)
      PROVE  KnownInv'
  BY <1>8, KnownFrame DEF EnableKillSwitch, DisableKillSwitch, engine, adminVars
<1>9. ASSUME NEW c \in Callers, NEW t \in Tools, NEW f \in Profiles, NEW j \in BOOLEAN,
             HandleToolCall(c, t, f, j)
      PROVE  KnownInv'
  BY <1>9, KnownFrame DEF HandleToolCall, stored, engine, adminVars
<1>10. ASSUME NEW c \in Callers, CallStep(c) \/ Return(c) PROVE KnownInv'
  <2>1. UNCHANGED <<rows, programs, policies, todo, admin>>
    BY <1>10 DEF CallStep, KillSwitchScope, KillSwitchGlobal, EvaluateProgram, EvaluatePolicy,
       EvaluateEnd, Decide, Return, stored, engine, adminVars
  <2>2. QED BY <2>1, KnownFrame
<1>11. CASE UNCHANGED vars
  BY <1>11, KnownFrame DEF vars, stored, engine, adminVars
<1>12. ASSUME \/ \E a \in Admins, p \in Policies, b \in Bodies : CreatePolicy(a, p, b)
              \/ \E a \in Admins : AddProgram(a) \/ AddPolicy(a)
       PROVE  KnownInv'
  BY <1>1, <1>4, <1>5, <1>12 DEF KnownInv
<1>13. QED
  BY <1>2, <1>3, <1>6, <1>7, <1>8, <1>9, <1>10, <1>11, <1>12 DEF Next, Edit, Load

\* While no reload is under way no enabled row that compiles is missing from the
\* engine, for any number of administrators whose edits and reloads overlap and
\* wherever the bridge stops.
THEOREM EnforcerKnows == Spec => []NoPolicyIsMissing
<1>1. Init => KnownInv
  BY DEF Init, KnownInv, Known, Loaded, Loadable
<1>2. IndInv /\ KnownInv /\ [Next]_vars => KnownInv'
  BY KnownStep
<1>3. KnownInv => NoPolicyIsMissing
  BY DEF KnownInv, Known, OnItsWay, NoPolicyIsMissing
<1>4. QED BY <1>1, <1>2, <1>3, EnforcerInvariance, PTL DEF Spec

(***************************************************************************)
(* The approval queue, for every set of requests, every finite set of      *)
(* handlers, all timeouts and any number of restarts, and that it          *)
(* implements ApprovalLifecycle.                                           *)
(***************************************************************************)

\* A handler that is at work has a request.
TargetsInOrder == \A d \in Deciders : dpc[d] # "idle" => target[d] \in Approvals

\* Handlers that were granted request a and have not run it yet.
InFlight(a) == {d \in Deciders : dpc[d] \in {"fetch", "mark", "execute"} /\ target[d] = a}

\* A run uses up the grant of its handler.
GrantsCover == \A a \in Approvals : executions[a] + Cardinality(InFlight(a)) <= grants[a]

\* A handler past the decision works on a request that was granted and is not
\* waiting any more.
WorkIsGranted ==
    \A d \in Deciders : dpc[d] \in {"fetch", "mark", "execute", "reached", "record"} =>
        grants[target[d]] > 0

\* A request that does not exist yet has no page.
PagesHaveRows == \A d \in Deciders : dpc[d] # "idle" => status[target[d]] # "absent"

\* A handler that has reached the backend, or reports success, has run the request.
SuccessWasRun ==
    \A d \in Deciders : dpc[d] = "reached" \/ (dpc[d] = "record" /\ result[d] = "ok") =>
        executions[target[d]] > 0

QueueInv ==
    /\ QueueTypeOK /\ TargetsInOrder /\ GrantsCover /\ WorkIsGranted /\ PagesHaveRows
    /\ SuccessWasRun /\ CompletedWasExecuted

\* Each step keeps the types.
LEMMA QueueTypeStep ==
    ASSUME QueueInv, [QueueNext]_queueVars
    PROVE  QueueTypeOK'
<1>1. ASSUME NEW a \in Approvals, RequestApproval(a) PROVE QueueTypeOK'
  BY <1>1, TimeoutsAssumption, EnvironmentAssumption
    DEF RequestApproval, deciderVars, TimeoutFor, QueueInv, QueueTypeOK, TargetsInOrder,
      Statuses
<1>2. ASSUME NEW d \in Deciders, NEW a \in Approvals, OpenPage(d, a) PROVE QueueTypeOK'
  BY <1>2, TimeoutsAssumption, EnvironmentAssumption
    DEF OpenPage, Advance, rowTimes, QueueInv, QueueTypeOK, TargetsInOrder, Statuses
<1>3. ASSUME NEW d \in Deciders, ClosePage(d) PROVE QueueTypeOK'
  BY <1>3, TimeoutsAssumption, EnvironmentAssumption
    DEF ClosePage, Finish, rowTimes, QueueInv, QueueTypeOK, TargetsInOrder, Statuses
<1>4. ASSUME NEW d \in Deciders, ApproveRequest(d) PROVE QueueTypeOK'
  BY <1>4, TimeoutsAssumption, EnvironmentAssumption
    DEF ApproveRequest, Update, Exists, Advance, rowTimes, QueueInv, QueueTypeOK,
      TargetsInOrder, Statuses
<1>5. ASSUME NEW d \in Deciders, DenyRequest(d) PROVE QueueTypeOK'
  BY <1>5, TimeoutsAssumption, EnvironmentAssumption
    DEF DenyRequest, Update, Exists, Finish, rowTimes, QueueInv, QueueTypeOK, TargetsInOrder,
      Statuses
<1>6. ASSUME NEW d \in Deciders, GetApprovalRequest(d) PROVE QueueTypeOK'
  BY <1>6, TimeoutsAssumption, EnvironmentAssumption
    DEF GetApprovalRequest, Advance, Finish, Exists, rowTimes, QueueInv, QueueTypeOK,
      TargetsInOrder, Statuses
<1>7. ASSUME NEW d \in Deciders, MarkExecuting(d) PROVE QueueTypeOK'
  BY <1>7, TimeoutsAssumption, EnvironmentAssumption
    DEF MarkExecuting, Update, Exists, Advance, Finish, rowTimes, QueueInv, QueueTypeOK,
      TargetsInOrder, Statuses
<1>8. ASSUME NEW d \in Deciders, StdinWrite(d) PROVE QueueTypeOK'
  BY <1>8, TimeoutsAssumption, EnvironmentAssumption
    DEF StdinWrite, Advance, rowTimes, QueueInv, QueueTypeOK, TargetsInOrder, Statuses
<1>9. ASSUME NEW d \in Deciders, NEW answer \in {"ok", "error"}, ExecuteRequest(d, answer)
      PROVE  QueueTypeOK'
  BY <1>9, TimeoutsAssumption, EnvironmentAssumption
    DEF ExecuteRequest, Advance, rowTimes, QueueInv, QueueTypeOK, TargetsInOrder, Statuses
<1>10. ASSUME NEW d \in Deciders, SendPanics(d) PROVE QueueTypeOK'
  BY <1>10, TimeoutsAssumption, EnvironmentAssumption
    DEF SendPanics, Finish, rowTimes, QueueInv, QueueTypeOK, TargetsInOrder, Statuses
<1>11. ASSUME NEW d \in Deciders, RecordResult(d) PROVE QueueTypeOK'
  BY <1>11, TimeoutsAssumption, EnvironmentAssumption
    DEF RecordResult, Update, Exists, Finish, rowTimes, QueueInv, QueueTypeOK, TargetsInOrder,
      Statuses
<1>12. CASE CleanupExpiredApprovals
  BY <1>12, TimeoutsAssumption, EnvironmentAssumption
    DEF CleanupExpiredApprovals, rowTimes, deciderVars, QueueInv, QueueTypeOK, TargetsInOrder,
      Statuses
<1>13. CASE CleanupOldApprovals
  BY <1>13, TimeoutsAssumption, EnvironmentAssumption
    DEF CleanupOldApprovals, rowTimes, deciderVars, QueueInv, QueueTypeOK, TargetsInOrder,
      Statuses
<1>14. CASE Tick
  BY <1>14, TimeoutsAssumption, EnvironmentAssumption
    DEF Tick, rowTimes, deciderVars, QueueInv, QueueTypeOK, TargetsInOrder, Statuses
<1>15. CASE QueueRestart
  <2>1. {target[d] : d \in {e \in Deciders : dpc[e] \notin {"idle", "page"}}} \subseteq Approvals
    BY DEF QueueInv, TargetsInOrder
  <2>2. QED
    BY <1>15, <2>1, EnvironmentAssumption DEF QueueRestart, rowTimes, QueueInv, QueueTypeOK
<1>16. CASE UNCHANGED queueVars
  BY <1>16, TimeoutsAssumption, EnvironmentAssumption
    DEF queueVars, rowTimes, deciderVars, QueueInv, QueueTypeOK, TargetsInOrder, Statuses
<1>17. QED
  BY <1>1, <1>2, <1>3, <1>4, <1>5, <1>6, <1>7, <1>8, <1>9, <1>10, <1>11, <1>12, <1>13, <1>14,
     <1>15, <1>16
    DEF QueueNext, StatementStep, ExecutorStep

\* Each step keeps TargetsInOrder.
LEMMA TargetsStep ==
    ASSUME QueueInv, [QueueNext]_queueVars
    PROVE  TargetsInOrder'
<1>1. ASSUME NEW a \in Approvals, RequestApproval(a) PROVE TargetsInOrder'
  BY <1>1, EnvironmentAssumption
    DEF RequestApproval, deciderVars, QueueInv, QueueTypeOK, TargetsInOrder
<1>2. ASSUME NEW d \in Deciders, NEW a \in Approvals, OpenPage(d, a) PROVE TargetsInOrder'
  BY <1>2, EnvironmentAssumption
    DEF OpenPage, Advance, rowTimes, QueueInv, QueueTypeOK, TargetsInOrder
<1>3. ASSUME NEW d \in Deciders, ClosePage(d) PROVE TargetsInOrder'
  BY <1>3, EnvironmentAssumption
    DEF ClosePage, Finish, rowTimes, QueueInv, QueueTypeOK, TargetsInOrder
<1>4. ASSUME NEW d \in Deciders, ApproveRequest(d) PROVE TargetsInOrder'
  BY <1>4, EnvironmentAssumption
    DEF ApproveRequest, Update, Exists, Advance, rowTimes, QueueInv, QueueTypeOK, TargetsInOrder
<1>5. ASSUME NEW d \in Deciders, DenyRequest(d) PROVE TargetsInOrder'
  BY <1>5, EnvironmentAssumption
    DEF DenyRequest, Update, Exists, Finish, rowTimes, QueueInv, QueueTypeOK, TargetsInOrder
<1>6. ASSUME NEW d \in Deciders, GetApprovalRequest(d) PROVE TargetsInOrder'
  BY <1>6, EnvironmentAssumption
    DEF GetApprovalRequest, Advance, Finish, Exists, rowTimes, QueueInv, QueueTypeOK,
      TargetsInOrder
<1>7. ASSUME NEW d \in Deciders, MarkExecuting(d) PROVE TargetsInOrder'
  BY <1>7, EnvironmentAssumption
    DEF MarkExecuting, Update, Exists, Advance, Finish, rowTimes, QueueInv, QueueTypeOK,
      TargetsInOrder
<1>8. ASSUME NEW d \in Deciders, StdinWrite(d) PROVE TargetsInOrder'
  BY <1>8, EnvironmentAssumption
    DEF StdinWrite, Advance, rowTimes, QueueInv, QueueTypeOK, TargetsInOrder
<1>9. ASSUME NEW d \in Deciders, NEW answer \in {"ok", "error"}, ExecuteRequest(d, answer)
      PROVE  TargetsInOrder'
  BY <1>9, EnvironmentAssumption
    DEF ExecuteRequest, Advance, rowTimes, QueueInv, QueueTypeOK, TargetsInOrder
<1>10. ASSUME NEW d \in Deciders, SendPanics(d) PROVE TargetsInOrder'
  BY <1>10, EnvironmentAssumption
    DEF SendPanics, Finish, rowTimes, QueueInv, QueueTypeOK, TargetsInOrder
<1>11. ASSUME NEW d \in Deciders, RecordResult(d) PROVE TargetsInOrder'
  BY <1>11, EnvironmentAssumption
    DEF RecordResult, Update, Exists, Finish, rowTimes, QueueInv, QueueTypeOK, TargetsInOrder
<1>12. CASE CleanupExpiredApprovals
  BY <1>12, EnvironmentAssumption
    DEF CleanupExpiredApprovals, rowTimes, deciderVars, QueueInv, QueueTypeOK, TargetsInOrder
<1>13. CASE CleanupOldApprovals
  BY <1>13, EnvironmentAssumption
    DEF CleanupOldApprovals, rowTimes, deciderVars, QueueInv, QueueTypeOK, TargetsInOrder
<1>14. CASE Tick
  BY <1>14, EnvironmentAssumption
    DEF Tick, rowTimes, deciderVars, QueueInv, QueueTypeOK, TargetsInOrder
<1>15. CASE QueueRestart
  BY <1>15, EnvironmentAssumption
    DEF QueueRestart, rowTimes, QueueInv, QueueTypeOK, TargetsInOrder
<1>16. CASE UNCHANGED queueVars
  BY <1>16, EnvironmentAssumption
    DEF queueVars, rowTimes, deciderVars, QueueInv, QueueTypeOK, TargetsInOrder
<1>17. QED
  BY <1>1, <1>2, <1>3, <1>4, <1>5, <1>6, <1>7, <1>8, <1>9, <1>10, <1>11, <1>12, <1>13, <1>14,
     <1>15, <1>16
    DEF QueueNext, StatementStep, ExecutorStep

\* Each step keeps WorkIsGranted.
LEMMA WorkStep ==
    ASSUME QueueInv, [QueueNext]_queueVars
    PROVE  WorkIsGranted'
<1>1. ASSUME NEW a \in Approvals, RequestApproval(a) PROVE WorkIsGranted'
  BY <1>1, EnvironmentAssumption
    DEF RequestApproval, deciderVars, QueueInv, QueueTypeOK, TargetsInOrder, WorkIsGranted
<1>2. ASSUME NEW d \in Deciders, NEW a \in Approvals, OpenPage(d, a) PROVE WorkIsGranted'
  BY <1>2, EnvironmentAssumption
    DEF OpenPage, Advance, rowTimes, QueueInv, QueueTypeOK, TargetsInOrder, WorkIsGranted
<1>3. ASSUME NEW d \in Deciders, ClosePage(d) PROVE WorkIsGranted'
  BY <1>3, EnvironmentAssumption
    DEF ClosePage, Finish, rowTimes, QueueInv, QueueTypeOK, TargetsInOrder, WorkIsGranted
<1>4. ASSUME NEW d \in Deciders, ApproveRequest(d) PROVE WorkIsGranted'
  BY <1>4, EnvironmentAssumption
    DEF ApproveRequest, Update, Exists, Advance, rowTimes, QueueInv, QueueTypeOK,
      TargetsInOrder, WorkIsGranted
<1>5. ASSUME NEW d \in Deciders, DenyRequest(d) PROVE WorkIsGranted'
  BY <1>5, EnvironmentAssumption
    DEF DenyRequest, Update, Exists, Finish, rowTimes, QueueInv, QueueTypeOK, TargetsInOrder,
      WorkIsGranted
<1>6. ASSUME NEW d \in Deciders, GetApprovalRequest(d) PROVE WorkIsGranted'
  BY <1>6, EnvironmentAssumption
    DEF GetApprovalRequest, Advance, Finish, Exists, rowTimes, QueueInv, QueueTypeOK,
      TargetsInOrder, WorkIsGranted
<1>7. ASSUME NEW d \in Deciders, MarkExecuting(d) PROVE WorkIsGranted'
  BY <1>7, EnvironmentAssumption
    DEF MarkExecuting, Update, Exists, Advance, Finish, rowTimes, QueueInv, QueueTypeOK,
      TargetsInOrder, WorkIsGranted
<1>8. ASSUME NEW d \in Deciders, StdinWrite(d) PROVE WorkIsGranted'
  BY <1>8, EnvironmentAssumption
    DEF StdinWrite, Advance, rowTimes, QueueInv, QueueTypeOK, TargetsInOrder, WorkIsGranted
<1>9. ASSUME NEW d \in Deciders, NEW answer \in {"ok", "error"}, ExecuteRequest(d, answer)
      PROVE  WorkIsGranted'
  BY <1>9, EnvironmentAssumption
    DEF ExecuteRequest, Advance, rowTimes, QueueInv, QueueTypeOK, TargetsInOrder, WorkIsGranted
<1>10. ASSUME NEW d \in Deciders, SendPanics(d) PROVE WorkIsGranted'
  BY <1>10, EnvironmentAssumption
    DEF SendPanics, Finish, rowTimes, QueueInv, QueueTypeOK, TargetsInOrder, WorkIsGranted
<1>11. ASSUME NEW d \in Deciders, RecordResult(d) PROVE WorkIsGranted'
  BY <1>11, EnvironmentAssumption
    DEF RecordResult, Update, Exists, Finish, rowTimes, QueueInv, QueueTypeOK, TargetsInOrder,
      WorkIsGranted
<1>12. CASE CleanupExpiredApprovals
  BY <1>12, EnvironmentAssumption
    DEF CleanupExpiredApprovals, rowTimes, deciderVars, QueueInv, QueueTypeOK, TargetsInOrder,
      WorkIsGranted
<1>13. CASE CleanupOldApprovals
  BY <1>13, EnvironmentAssumption
    DEF CleanupOldApprovals, rowTimes, deciderVars, QueueInv, QueueTypeOK, TargetsInOrder,
      WorkIsGranted
<1>14. CASE Tick
  BY <1>14, EnvironmentAssumption
    DEF Tick, rowTimes, deciderVars, QueueInv, QueueTypeOK, TargetsInOrder, WorkIsGranted
<1>15. CASE QueueRestart
  BY <1>15, EnvironmentAssumption
    DEF QueueRestart, rowTimes, QueueInv, QueueTypeOK, TargetsInOrder, WorkIsGranted
<1>16. CASE UNCHANGED queueVars
  BY <1>16, EnvironmentAssumption
    DEF queueVars, rowTimes, deciderVars, QueueInv, QueueTypeOK, TargetsInOrder, WorkIsGranted
<1>17. QED
  BY <1>1, <1>2, <1>3, <1>4, <1>5, <1>6, <1>7, <1>8, <1>9, <1>10, <1>11, <1>12, <1>13, <1>14,
     <1>15, <1>16
    DEF QueueNext, StatementStep, ExecutorStep

\* Each step keeps PagesHaveRows.
LEMMA PagesStep ==
    ASSUME QueueInv, [QueueNext]_queueVars
    PROVE  PagesHaveRows'
<1>1. ASSUME NEW a \in Approvals, RequestApproval(a) PROVE PagesHaveRows'
  BY <1>1, EnvironmentAssumption
    DEF RequestApproval, deciderVars, QueueInv, QueueTypeOK, TargetsInOrder, PagesHaveRows
<1>2. ASSUME NEW d \in Deciders, NEW a \in Approvals, OpenPage(d, a) PROVE PagesHaveRows'
  BY <1>2, EnvironmentAssumption
    DEF OpenPage, Advance, rowTimes, QueueInv, QueueTypeOK, TargetsInOrder, PagesHaveRows
<1>3. ASSUME NEW d \in Deciders, ClosePage(d) PROVE PagesHaveRows'
  BY <1>3, EnvironmentAssumption
    DEF ClosePage, Finish, rowTimes, QueueInv, QueueTypeOK, TargetsInOrder, PagesHaveRows
<1>4. ASSUME NEW d \in Deciders, ApproveRequest(d) PROVE PagesHaveRows'
  BY <1>4, EnvironmentAssumption
    DEF ApproveRequest, Update, Exists, Advance, rowTimes, QueueInv, QueueTypeOK,
      TargetsInOrder, PagesHaveRows
<1>5. ASSUME NEW d \in Deciders, DenyRequest(d) PROVE PagesHaveRows'
  BY <1>5, EnvironmentAssumption
    DEF DenyRequest, Update, Exists, Finish, rowTimes, QueueInv, QueueTypeOK, TargetsInOrder,
      PagesHaveRows
<1>6. ASSUME NEW d \in Deciders, GetApprovalRequest(d) PROVE PagesHaveRows'
  BY <1>6, EnvironmentAssumption
    DEF GetApprovalRequest, Advance, Finish, Exists, rowTimes, QueueInv, QueueTypeOK,
      TargetsInOrder, PagesHaveRows
<1>7. ASSUME NEW d \in Deciders, MarkExecuting(d) PROVE PagesHaveRows'
  BY <1>7, EnvironmentAssumption
    DEF MarkExecuting, Update, Exists, Advance, Finish, rowTimes, QueueInv, QueueTypeOK,
      TargetsInOrder, PagesHaveRows
<1>8. ASSUME NEW d \in Deciders, StdinWrite(d) PROVE PagesHaveRows'
  BY <1>8, EnvironmentAssumption
    DEF StdinWrite, Advance, rowTimes, QueueInv, QueueTypeOK, TargetsInOrder, PagesHaveRows
<1>9. ASSUME NEW d \in Deciders, NEW answer \in {"ok", "error"}, ExecuteRequest(d, answer)
      PROVE  PagesHaveRows'
  BY <1>9, EnvironmentAssumption
    DEF ExecuteRequest, Advance, rowTimes, QueueInv, QueueTypeOK, TargetsInOrder, PagesHaveRows
<1>10. ASSUME NEW d \in Deciders, SendPanics(d) PROVE PagesHaveRows'
  BY <1>10, EnvironmentAssumption
    DEF SendPanics, Finish, rowTimes, QueueInv, QueueTypeOK, TargetsInOrder, PagesHaveRows
<1>11. ASSUME NEW d \in Deciders, RecordResult(d) PROVE PagesHaveRows'
  BY <1>11, EnvironmentAssumption
    DEF RecordResult, Update, Exists, Finish, rowTimes, QueueInv, QueueTypeOK, TargetsInOrder,
      PagesHaveRows
<1>12. CASE CleanupExpiredApprovals
  BY <1>12, EnvironmentAssumption
    DEF CleanupExpiredApprovals, rowTimes, deciderVars, QueueInv, QueueTypeOK, TargetsInOrder,
      PagesHaveRows
<1>13. CASE CleanupOldApprovals
  BY <1>13, EnvironmentAssumption
    DEF CleanupOldApprovals, rowTimes, deciderVars, QueueInv, QueueTypeOK, TargetsInOrder,
      PagesHaveRows
<1>14. CASE Tick
  BY <1>14, EnvironmentAssumption
    DEF Tick, rowTimes, deciderVars, QueueInv, QueueTypeOK, TargetsInOrder, PagesHaveRows
<1>15. CASE QueueRestart
  BY <1>15, EnvironmentAssumption
    DEF QueueRestart, rowTimes, QueueInv, QueueTypeOK, TargetsInOrder, PagesHaveRows
<1>16. CASE UNCHANGED queueVars
  BY <1>16, EnvironmentAssumption
    DEF queueVars, rowTimes, deciderVars, QueueInv, QueueTypeOK, TargetsInOrder, PagesHaveRows
<1>17. QED
  BY <1>1, <1>2, <1>3, <1>4, <1>5, <1>6, <1>7, <1>8, <1>9, <1>10, <1>11, <1>12, <1>13, <1>14,
     <1>15, <1>16
    DEF QueueNext, StatementStep, ExecutorStep

\* The handlers in flight can be counted.
LEMMA InFlightFinite ==
    \A a \in Approvals : IsFiniteSet(InFlight(a)) /\ Cardinality(InFlight(a)) \in Nat
<1>1. ASSUME NEW a \in Approvals PROVE IsFiniteSet(InFlight(a))
  BY EnvironmentAssumption, FS_Subset DEF InFlight
<1>2. QED BY <1>1, FS_CardinalityType

\* A step after which no handler is in flight that was not before.
LEMMA GrantsShrink ==
    ASSUME QueueInv, \A b \in Approvals : InFlight(b)' \subseteq InFlight(b),
           UNCHANGED <<executions, grants>>
    PROVE  GrantsCover'
<1>1. ASSUME NEW b \in Approvals
      PROVE  /\ Cardinality(InFlight(b)') \in Nat
             /\ Cardinality(InFlight(b)') <= Cardinality(InFlight(b))
  BY <1>1, InFlightFinite, FS_Subset, FS_CardinalityType
<1>2. QED
  BY <1>1, InFlightFinite DEF QueueInv, QueueTypeOK, GrantsCover

\* Each step keeps GrantsCover.
LEMMA GrantsStep ==
    ASSUME QueueInv, [QueueNext]_queueVars
    PROVE  GrantsCover'
<1>1. ASSUME NEW a \in Approvals, RequestApproval(a) PROVE GrantsCover'
  <2>1. \A b \in Approvals : InFlight(b)' \subseteq InFlight(b)
    BY <1>1
      DEF RequestApproval, deciderVars, InFlight, QueueInv, QueueTypeOK
  <2>2. QED BY <1>1, <2>1, GrantsShrink DEF RequestApproval
<1>2. ASSUME NEW d \in Deciders, NEW a \in Approvals, OpenPage(d, a) PROVE GrantsCover'
  <2>1. \A b \in Approvals : InFlight(b)' \subseteq InFlight(b)
    BY <1>2
      DEF OpenPage, Advance, InFlight, QueueInv, QueueTypeOK
  <2>2. QED BY <1>2, <2>1, GrantsShrink DEF OpenPage
<1>3. ASSUME NEW d \in Deciders, ClosePage(d) PROVE GrantsCover'
  <2>1. \A b \in Approvals : InFlight(b)' \subseteq InFlight(b)
    BY <1>3
      DEF ClosePage, Finish, InFlight, QueueInv, QueueTypeOK
  <2>2. QED BY <1>3, <2>1, GrantsShrink DEF ClosePage
<1>4. ASSUME NEW d \in Deciders, ApproveRequest(d) PROVE GrantsCover'
  <2>1. target[d] \in Approvals
    BY <1>4 DEF ApproveRequest, QueueInv, TargetsInOrder
  <2>2. \A b \in Approvals \ {target[d]} : InFlight(b)' = InFlight(b)
    BY <1>4 DEF ApproveRequest, Advance, InFlight, QueueInv, QueueTypeOK
  <2>3. InFlight(target[d])' = InFlight(target[d]) \cup {d} /\ d \notin InFlight(target[d])
    BY <1>4 DEF ApproveRequest, Advance, InFlight, QueueInv, QueueTypeOK
  <2>4. Cardinality(InFlight(target[d])') = Cardinality(InFlight(target[d])) + 1
    BY <2>1, <2>3, InFlightFinite, FS_AddElement
  <2>5. QED
    BY <1>4, <2>1, <2>2, <2>4, InFlightFinite
      DEF ApproveRequest, QueueInv, GrantsCover, QueueTypeOK
<1>5. ASSUME NEW d \in Deciders, DenyRequest(d) PROVE GrantsCover'
  <2>1. \A b \in Approvals : InFlight(b)' \subseteq InFlight(b)
    BY <1>5
      DEF DenyRequest, Finish, InFlight, QueueInv, QueueTypeOK
  <2>2. QED BY <1>5, <2>1, GrantsShrink DEF DenyRequest
<1>6. ASSUME NEW d \in Deciders, GetApprovalRequest(d) PROVE GrantsCover'
  <2>1. \A b \in Approvals : InFlight(b)' \subseteq InFlight(b)
    BY <1>6
      DEF GetApprovalRequest, Advance, Finish, InFlight, QueueInv, QueueTypeOK
  <2>2. QED BY <1>6, <2>1, GrantsShrink DEF GetApprovalRequest
<1>7. ASSUME NEW d \in Deciders, MarkExecuting(d) PROVE GrantsCover'
  <2>1. \A b \in Approvals : InFlight(b)' \subseteq InFlight(b)
    BY <1>7
      DEF MarkExecuting, Advance, Finish, InFlight, QueueInv, QueueTypeOK
  <2>2. QED BY <1>7, <2>1, GrantsShrink DEF MarkExecuting
<1>8. ASSUME NEW d \in Deciders, StdinWrite(d) PROVE GrantsCover'
  <2>1. target[d] \in Approvals
    BY <1>8 DEF StdinWrite, QueueInv, TargetsInOrder
  <2>2. \A b \in Approvals \ {target[d]} : InFlight(b)' = InFlight(b)
    BY <1>8, <2>1 DEF StdinWrite, Advance, InFlight, QueueInv, QueueTypeOK
  <2>3. InFlight(target[d])' = InFlight(target[d]) \ {d} /\ d \in InFlight(target[d])
    BY <1>8 DEF StdinWrite, Advance, InFlight, QueueInv, QueueTypeOK
  <2>4. Cardinality(InFlight(target[d])') = Cardinality(InFlight(target[d])) - 1
    BY <2>1, <2>3, InFlightFinite, FS_RemoveElement
  <2>5. QED
    BY <1>8, <2>1, <2>2, <2>4, InFlightFinite
      DEF StdinWrite, QueueInv, GrantsCover, QueueTypeOK
<1>9. ASSUME NEW d \in Deciders, NEW answer \in {"ok", "error"}, ExecuteRequest(d, answer)
      PROVE  GrantsCover'
  <2>1. \A b \in Approvals : InFlight(b)' \subseteq InFlight(b)
    BY <1>9
      DEF ExecuteRequest, Advance, InFlight, QueueInv, QueueTypeOK
  <2>2. QED BY <1>9, <2>1, GrantsShrink DEF ExecuteRequest
<1>10. ASSUME NEW d \in Deciders, SendPanics(d) PROVE GrantsCover'
  <2>1. \A b \in Approvals : InFlight(b)' \subseteq InFlight(b)
    BY <1>10
      DEF SendPanics, Finish, InFlight, QueueInv, QueueTypeOK
  <2>2. QED BY <1>10, <2>1, GrantsShrink DEF SendPanics
<1>11. ASSUME NEW d \in Deciders, RecordResult(d) PROVE GrantsCover'
  <2>1. \A b \in Approvals : InFlight(b)' \subseteq InFlight(b)
    BY <1>11
      DEF RecordResult, Finish, InFlight, QueueInv, QueueTypeOK
  <2>2. QED BY <1>11, <2>1, GrantsShrink DEF RecordResult
<1>12. CASE CleanupExpiredApprovals
  <2>1. \A b \in Approvals : InFlight(b)' \subseteq InFlight(b)
    BY <1>12
      DEF CleanupExpiredApprovals, deciderVars, InFlight, QueueInv, QueueTypeOK
  <2>2. QED BY <1>12, <2>1, GrantsShrink DEF CleanupExpiredApprovals
<1>13. CASE CleanupOldApprovals
  <2>1. \A b \in Approvals : InFlight(b)' \subseteq InFlight(b)
    BY <1>13
      DEF CleanupOldApprovals, deciderVars, InFlight, QueueInv, QueueTypeOK
  <2>2. QED BY <1>13, <2>1, GrantsShrink DEF CleanupOldApprovals
<1>14. CASE Tick
  <2>1. \A b \in Approvals : InFlight(b)' \subseteq InFlight(b)
    BY <1>14
      DEF Tick, deciderVars, InFlight, QueueInv, QueueTypeOK
  <2>2. QED BY <1>14, <2>1, GrantsShrink DEF Tick
<1>15. CASE QueueRestart
  <2>1. \A b \in Approvals : InFlight(b)' \subseteq InFlight(b)
    BY <1>15
      DEF QueueRestart, InFlight, QueueInv, QueueTypeOK
  <2>2. QED BY <1>15, <2>1, GrantsShrink DEF QueueRestart
<1>16. CASE UNCHANGED queueVars
  <2>1. \A b \in Approvals : InFlight(b)' \subseteq InFlight(b)
    BY <1>16
      DEF queueVars, deciderVars, InFlight, QueueInv, QueueTypeOK
  <2>2. QED BY <1>16, <2>1, GrantsShrink DEF queueVars
<1>17. QED
  BY <1>1, <1>2, <1>3, <1>4, <1>5, <1>6, <1>7, <1>8, <1>9, <1>10, <1>11, <1>12, <1>13, <1>14,
     <1>15, <1>16
    DEF QueueNext, StatementStep, ExecutorStep

\* Each step keeps SuccessWasRun.
LEMMA SuccessStep ==
    ASSUME QueueInv, [QueueNext]_queueVars
    PROVE  SuccessWasRun'
<1>1. ASSUME NEW a \in Approvals, RequestApproval(a) PROVE SuccessWasRun'
  BY <1>1, EnvironmentAssumption
    DEF RequestApproval, deciderVars, QueueInv, QueueTypeOK, TargetsInOrder, SuccessWasRun
<1>2. ASSUME NEW d \in Deciders, NEW a \in Approvals, OpenPage(d, a) PROVE SuccessWasRun'
  BY <1>2, EnvironmentAssumption
    DEF OpenPage, Advance, rowTimes, QueueInv, QueueTypeOK, TargetsInOrder, SuccessWasRun
<1>3. ASSUME NEW d \in Deciders, ClosePage(d) PROVE SuccessWasRun'
  BY <1>3, EnvironmentAssumption
    DEF ClosePage, Finish, rowTimes, QueueInv, QueueTypeOK, TargetsInOrder, SuccessWasRun
<1>4. ASSUME NEW d \in Deciders, ApproveRequest(d) PROVE SuccessWasRun'
  BY <1>4, EnvironmentAssumption
    DEF ApproveRequest, Update, Exists, Advance, rowTimes, QueueInv, QueueTypeOK,
      TargetsInOrder, SuccessWasRun
<1>5. ASSUME NEW d \in Deciders, DenyRequest(d) PROVE SuccessWasRun'
  BY <1>5, EnvironmentAssumption
    DEF DenyRequest, Update, Exists, Finish, rowTimes, QueueInv, QueueTypeOK, TargetsInOrder,
      SuccessWasRun
<1>6. ASSUME NEW d \in Deciders, GetApprovalRequest(d) PROVE SuccessWasRun'
  BY <1>6, EnvironmentAssumption
    DEF GetApprovalRequest, Advance, Finish, Exists, rowTimes, QueueInv, QueueTypeOK,
      TargetsInOrder, SuccessWasRun
<1>7. ASSUME NEW d \in Deciders, MarkExecuting(d) PROVE SuccessWasRun'
  BY <1>7, EnvironmentAssumption
    DEF MarkExecuting, Update, Exists, Advance, Finish, rowTimes, QueueInv, QueueTypeOK,
      TargetsInOrder, SuccessWasRun
<1>8. ASSUME NEW d \in Deciders, StdinWrite(d) PROVE SuccessWasRun'
  BY <1>8, EnvironmentAssumption
    DEF StdinWrite, Advance, rowTimes, QueueInv, QueueTypeOK, TargetsInOrder, SuccessWasRun
<1>9. ASSUME NEW d \in Deciders, NEW answer \in {"ok", "error"}, ExecuteRequest(d, answer)
      PROVE  SuccessWasRun'
  BY <1>9, EnvironmentAssumption
    DEF ExecuteRequest, Advance, rowTimes, QueueInv, QueueTypeOK, TargetsInOrder, SuccessWasRun
<1>10. ASSUME NEW d \in Deciders, SendPanics(d) PROVE SuccessWasRun'
  BY <1>10, EnvironmentAssumption
    DEF SendPanics, Finish, rowTimes, QueueInv, QueueTypeOK, TargetsInOrder, SuccessWasRun
<1>11. ASSUME NEW d \in Deciders, RecordResult(d) PROVE SuccessWasRun'
  BY <1>11, EnvironmentAssumption
    DEF RecordResult, Update, Exists, Finish, rowTimes, QueueInv, QueueTypeOK, TargetsInOrder,
      SuccessWasRun
<1>12. CASE CleanupExpiredApprovals
  BY <1>12, EnvironmentAssumption
    DEF CleanupExpiredApprovals, rowTimes, deciderVars, QueueInv, QueueTypeOK, TargetsInOrder,
      SuccessWasRun
<1>13. CASE CleanupOldApprovals
  BY <1>13, EnvironmentAssumption
    DEF CleanupOldApprovals, rowTimes, deciderVars, QueueInv, QueueTypeOK, TargetsInOrder,
      SuccessWasRun
<1>14. CASE Tick
  BY <1>14, EnvironmentAssumption
    DEF Tick, rowTimes, deciderVars, QueueInv, QueueTypeOK, TargetsInOrder, SuccessWasRun
<1>15. CASE QueueRestart
  BY <1>15, EnvironmentAssumption
    DEF QueueRestart, rowTimes, QueueInv, QueueTypeOK, TargetsInOrder, SuccessWasRun
<1>16. CASE UNCHANGED queueVars
  BY <1>16, EnvironmentAssumption
    DEF queueVars, rowTimes, deciderVars, QueueInv, QueueTypeOK, TargetsInOrder, SuccessWasRun
<1>17. QED
  BY <1>1, <1>2, <1>3, <1>4, <1>5, <1>6, <1>7, <1>8, <1>9, <1>10, <1>11, <1>12, <1>13, <1>14,
     <1>15, <1>16
    DEF QueueNext, StatementStep, ExecutorStep

\* Each step keeps CompletedWasExecuted.
LEMMA CompletedStep ==
    ASSUME QueueInv, [QueueNext]_queueVars
    PROVE  CompletedWasExecuted'
<1>1. ASSUME NEW a \in Approvals, RequestApproval(a) PROVE CompletedWasExecuted'
  BY <1>1, EnvironmentAssumption
    DEF RequestApproval, deciderVars, QueueInv, QueueTypeOK, TargetsInOrder, SuccessWasRun,
      CompletedWasExecuted
<1>2. ASSUME NEW d \in Deciders, NEW a \in Approvals, OpenPage(d, a) PROVE CompletedWasExecuted'
  BY <1>2, EnvironmentAssumption
    DEF OpenPage, Advance, rowTimes, QueueInv, QueueTypeOK, TargetsInOrder, SuccessWasRun,
      CompletedWasExecuted
<1>3. ASSUME NEW d \in Deciders, ClosePage(d) PROVE CompletedWasExecuted'
  BY <1>3, EnvironmentAssumption
    DEF ClosePage, Finish, rowTimes, QueueInv, QueueTypeOK, TargetsInOrder, SuccessWasRun,
      CompletedWasExecuted
<1>4. ASSUME NEW d \in Deciders, ApproveRequest(d) PROVE CompletedWasExecuted'
  BY <1>4, EnvironmentAssumption
    DEF ApproveRequest, Update, Exists, Advance, rowTimes, QueueInv, QueueTypeOK,
      TargetsInOrder, SuccessWasRun, CompletedWasExecuted
<1>5. ASSUME NEW d \in Deciders, DenyRequest(d) PROVE CompletedWasExecuted'
  BY <1>5, EnvironmentAssumption
    DEF DenyRequest, Update, Exists, Finish, rowTimes, QueueInv, QueueTypeOK, TargetsInOrder,
      SuccessWasRun, CompletedWasExecuted
<1>6. ASSUME NEW d \in Deciders, GetApprovalRequest(d) PROVE CompletedWasExecuted'
  BY <1>6, EnvironmentAssumption
    DEF GetApprovalRequest, Advance, Finish, Exists, rowTimes, QueueInv, QueueTypeOK,
      TargetsInOrder, SuccessWasRun, CompletedWasExecuted
<1>7. ASSUME NEW d \in Deciders, MarkExecuting(d) PROVE CompletedWasExecuted'
  BY <1>7, EnvironmentAssumption
    DEF MarkExecuting, Update, Exists, Advance, Finish, rowTimes, QueueInv, QueueTypeOK,
      TargetsInOrder, SuccessWasRun, CompletedWasExecuted
<1>8. ASSUME NEW d \in Deciders, StdinWrite(d) PROVE CompletedWasExecuted'
  BY <1>8, EnvironmentAssumption
    DEF StdinWrite, Advance, rowTimes, QueueInv, QueueTypeOK, TargetsInOrder, SuccessWasRun,
      CompletedWasExecuted
<1>9. ASSUME NEW d \in Deciders, NEW answer \in {"ok", "error"}, ExecuteRequest(d, answer)
      PROVE  CompletedWasExecuted'
  BY <1>9, EnvironmentAssumption
    DEF ExecuteRequest, Advance, rowTimes, QueueInv, QueueTypeOK, TargetsInOrder, SuccessWasRun,
      CompletedWasExecuted
<1>10. ASSUME NEW d \in Deciders, SendPanics(d) PROVE CompletedWasExecuted'
  BY <1>10, EnvironmentAssumption
    DEF SendPanics, Finish, rowTimes, QueueInv, QueueTypeOK, TargetsInOrder, SuccessWasRun,
      CompletedWasExecuted
<1>11. ASSUME NEW d \in Deciders, RecordResult(d) PROVE CompletedWasExecuted'
  BY <1>11, EnvironmentAssumption
    DEF RecordResult, Update, Exists, Finish, rowTimes, QueueInv, QueueTypeOK, TargetsInOrder,
      SuccessWasRun, CompletedWasExecuted
<1>12. CASE CleanupExpiredApprovals
  BY <1>12, EnvironmentAssumption
    DEF CleanupExpiredApprovals, rowTimes, deciderVars, QueueInv, QueueTypeOK, TargetsInOrder,
      SuccessWasRun, CompletedWasExecuted
<1>13. CASE CleanupOldApprovals
  BY <1>13, EnvironmentAssumption
    DEF CleanupOldApprovals, rowTimes, deciderVars, QueueInv, QueueTypeOK, TargetsInOrder,
      SuccessWasRun, CompletedWasExecuted
<1>14. CASE Tick
  BY <1>14, EnvironmentAssumption
    DEF Tick, rowTimes, deciderVars, QueueInv, QueueTypeOK, TargetsInOrder, SuccessWasRun,
      CompletedWasExecuted
<1>15. CASE QueueRestart
  BY <1>15, EnvironmentAssumption
    DEF QueueRestart, rowTimes, QueueInv, QueueTypeOK, TargetsInOrder, SuccessWasRun,
      CompletedWasExecuted
<1>16. CASE UNCHANGED queueVars
  BY <1>16, EnvironmentAssumption
    DEF queueVars, rowTimes, deciderVars, QueueInv, QueueTypeOK, TargetsInOrder, SuccessWasRun,
      CompletedWasExecuted
<1>17. QED
  BY <1>1, <1>2, <1>3, <1>4, <1>5, <1>6, <1>7, <1>8, <1>9, <1>10, <1>11, <1>12, <1>13, <1>14,
     <1>15, <1>16
    DEF QueueNext, StatementStep, ExecutorStep

\* A bridge that starts with an empty queue satisfies the invariant.
LEMMA InitQueueInv == QueueInit => QueueInv
<1>1. SUFFICES ASSUME QueueInit PROVE QueueInv
  OBVIOUS
<1>2. QueueTypeOK
  BY <1>1, EnvironmentAssumption DEF QueueInit, QueueTypeOK, Statuses
<1>3. TargetsInOrder /\ SuccessWasRun /\ CompletedWasExecuted /\ WorkIsGranted /\ PagesHaveRows
  BY <1>1
    DEF QueueInit, TargetsInOrder, SuccessWasRun, CompletedWasExecuted, WorkIsGranted,
      PagesHaveRows
<1>4. \A a \in Approvals : InFlight(a) = {}
  BY <1>1 DEF QueueInit, InFlight
<1>5. GrantsCover
  BY <1>1, <1>4, FS_EmptySet DEF QueueInit, GrantsCover
<1>6. QED BY <1>2, <1>3, <1>5 DEF QueueInv

\* QueueInv is an inductive invariant of the approval queue.
THEOREM ApprovalInvariance == QueueSpec => []QueueInv
<1>1. QueueInit => QueueInv
  BY InitQueueInv
<1>2. QueueInv /\ [QueueNext]_queueVars => QueueInv'
  BY QueueTypeStep, TargetsStep, GrantsStep, WorkStep, PagesStep, SuccessStep, CompletedStep
    DEF QueueInv
<1>3. QED BY <1>1, <1>2, PTL DEF QueueSpec

\* The types hold always.
THEOREM ApprovalTypes == QueueSpec => []QueueTypeOK
<1>1. QueueInv => QueueTypeOK
  BY DEF QueueInv
<1>2. QED BY <1>1, ApprovalInvariance, PTL

\* No tool call reaches the backend more often than its request was approved,
\* whatever handlers, cleanup and restarts do.
THEOREM ApprovalGranted == QueueSpec => []ExecutionsAreGranted
<1>1. QueueInv => ExecutionsAreGranted
  BY InFlightFinite DEF QueueInv, QueueTypeOK, GrantsCover, ExecutionsAreGranted
<1>2. QED BY <1>1, ApprovalInvariance, PTL

\* A request shown as COMPLETED has reached the backend.
THEOREM ApprovalCompleted == QueueSpec => []CompletedWasExecuted
<1>1. QueueInv => CompletedWasExecuted
  BY DEF QueueInv
<1>2. QED BY <1>1, ApprovalInvariance, PTL

-----------------------------------------------------------------------------
(* The refinement.                                                         *)

phase == [a \in Approvals |-> Phase(a)]

\* A statement that writes one row changes the phase of that request.
LEMMA OneRow ==
    ASSUME QueueTypeOK, NEW a \in Approvals, NEW s \in Statuses, status' = [status EXCEPT ![a] = s]
    PROVE  phase' = [phase EXCEPT ![a] = Phase(a)']
<1>1. \A b \in Approvals \ {a} : status'[b] = status[b]
  BY DEF QueueTypeOK
<1>2. \A b \in Approvals \ {a} : Phase(b)' = Phase(b)
  BY <1>1 DEF Phase
<1>3. QED BY <1>2 DEF phase

\* A row is in the table exactly when its phase says so.
LEMMA StoredPhase ==
    ASSUME QueueTypeOK, NEW a \in Approvals
    PROVE  /\ Exists(a) <=> Phase(a) \in Life!Stored
           /\ status[a] # "absent" /\ ~Exists(a) => Phase(a) = "purged"
           /\ status[a] # "absent" => Phase(a) # "absent"
  BY DEF QueueTypeOK, Statuses, Exists, Phase, Life!Stored, Life!Phases

\* A change of one row is a move of that approval in the lifecycle.
LEMMA LifeMove ==
    ASSUME QueueTypeOK, NEW a \in Approvals, NEW s \in Statuses, status' = [status EXCEPT ![a] = s],
           UNCHANGED <<executions, grants>>, NEW from, NEW to, Phase(a) \in from, Phase(a)' = to
    PROVE  Life!Move(a, from, to)
  BY OneRow DEF Life!Move, phase

\* A step that leaves the rows, the grants and the executions alone is none of
\* the lifecycle.
LEMMA LifeStutter ==
    ASSUME UNCHANGED <<status, executions, grants>>
    PROVE  UNCHANGED Life!avars
  BY DEF Life!avars, Phase

\* Every step of the queue is a step of the lifecycle or none.
LEMMA LifeStep ==
    ASSUME QueueInv, [QueueNext]_queueVars
    PROVE  [Life!LifeNext]_Life!avars
<1>1. ASSUME NEW a \in Approvals, RequestApproval(a) PROVE Life!LifeNext
  <2>1. status' = [status EXCEPT ![a] = "PENDING"] /\ UNCHANGED <<executions, grants>>
    BY <1>1 DEF RequestApproval
  <2>2. Phase(a) = "absent" /\ Phase(a)' = "waiting"
    BY <1>1 DEF RequestApproval, QueueInv, QueueTypeOK, Phase
  <2>3. Phase(a) \in {"absent"} /\ "PENDING" \in Statuses /\ QueueTypeOK
    BY <2>2 DEF Statuses, QueueInv
  <2>4. Life!Move(a, {"absent"}, "waiting")
    BY <2>1, <2>2, <2>3, OneRow DEF Life!Move, phase
  <2>5. QED BY <2>4 DEF Life!LifeNext
<1>2. ASSUME NEW d \in Deciders, ApproveRequest(d) PROVE Life!LifeNext
  <2>1. PICK a \in Approvals : a = target[d] /\ status[a] # "absent"
    BY <1>2 DEF ApproveRequest, QueueInv, TargetsInOrder, PagesHaveRows
  <2>2. grants' = [grants EXCEPT ![a] = @ + 1] /\ UNCHANGED executions
    BY <1>2, <2>1 DEF ApproveRequest
  <2>3. phase[a] = Phase(a) /\ phase[a] # "absent"
    BY <2>1, StoredPhase DEF QueueInv, phase
  <2>4. phase' = [phase EXCEPT ![a] = IF @ = "purged" THEN @ ELSE "granted"]
    <3>1. CASE Exists(a)
      <4>1. status' = [status EXCEPT ![a] = "APPROVED"]
        BY <1>2, <2>1, <3>1 DEF ApproveRequest, Update
      <4>2. Phase(a)' = "granted" /\ Phase(a) # "purged"
        BY <3>1, <4>1 DEF QueueInv, QueueTypeOK, Statuses, Phase, Exists
      <4>3. phase' = [phase EXCEPT ![a] = "granted"]
        BY <4>1, <4>2, OneRow DEF QueueInv, Statuses
      <4>4. QED BY <2>3, <4>2, <4>3
    <3>2. CASE ~Exists(a)
      <4>1. UNCHANGED status
        BY <1>2, <2>1, <3>2 DEF ApproveRequest, Update
      <4>2. Phase(a) = "purged"
        BY <2>1, <3>2, StoredPhase DEF QueueInv
      <4>3. phase' = phase
        BY <4>1 DEF phase, Phase
      <4>4. phase = [b \in Approvals |-> phase[b]]
        BY DEF phase
      <4>5. QED BY <2>1, <2>3, <4>2, <4>3, <4>4
    <3>3. QED BY <3>1, <3>2
  <2>5. Life!Grant(a)
    BY <2>2, <2>3, <2>4 DEF Life!Grant, phase
  <2>6. QED BY <2>5 DEF Life!LifeNext
<1>3. ASSUME NEW a \in Approvals, NEW new \in {"DENIED", "EXECUTING", "COMPLETED", "FAILED"},
             Update(a, new), UNCHANGED <<executions, grants>>,
             new \in {"EXECUTING", "FAILED"} => grants[a] > 0,
             new = "COMPLETED" => executions[a] > 0
      PROVE  [Life!LifeNext]_Life!avars
  <2>1. CASE ~Exists(a)
    BY <1>3, <2>1, LifeStutter DEF Update
  <2>2. CASE Exists(a)
    <3>1. status' = [status EXCEPT ![a] = new] /\ Phase(a) \in Life!Stored
      BY <1>3, <2>2, StoredPhase DEF Update, QueueInv
    <3>2. Phase(a)' = CASE new = "DENIED" -> "refused" [] new = "EXECUTING" -> "granted"
                        [] new = "COMPLETED" -> "completed" [] new = "FAILED" -> "failed"
      BY <3>1 DEF QueueInv, QueueTypeOK, Phase
    <3>3. CASE new = "DENIED"
      <4>1. Life!Move(a, Life!Stored, "refused")
        BY <1>3, <3>1, <3>2, <3>3, LifeMove DEF QueueInv, Statuses
      <4>2. QED BY <4>1 DEF Life!LifeNext
    <3>4. CASE new = "EXECUTING"
      <4>1. Life!Move(a, Life!Stored, "granted")
        BY <1>3, <3>1, <3>2, <3>4, LifeMove DEF QueueInv, Statuses
      <4>2. QED BY <1>3, <3>4, <4>1 DEF Life!LifeNext
    <3>5. CASE new = "COMPLETED"
      <4>1. Life!Move(a, Life!Stored, "completed")
        BY <1>3, <3>1, <3>2, <3>5, LifeMove DEF QueueInv, Statuses
      <4>2. QED BY <1>3, <3>5, <4>1 DEF Life!LifeNext
    <3>6. CASE new = "FAILED"
      <4>1. Life!Move(a, Life!Stored, "failed")
        BY <1>3, <3>1, <3>2, <3>6, LifeMove DEF QueueInv, Statuses
      <4>2. QED BY <1>3, <3>6, <4>1 DEF Life!LifeNext
    <3>7. QED BY <3>3, <3>4, <3>5, <3>6
  <2>3. QED BY <2>1, <2>2
<1>4. ASSUME NEW d \in Deciders, DenyRequest(d) PROVE [Life!LifeNext]_Life!avars
  <2>1. PICK a \in Approvals : a = target[d]
    BY <1>4 DEF DenyRequest, QueueInv, TargetsInOrder
  <2>2. Update(a, "DENIED") /\ UNCHANGED <<executions, grants>>
    BY <1>4, <2>1 DEF DenyRequest
  <2>3. QED BY <1>3, <2>2
<1>5. ASSUME NEW d \in Deciders, MarkExecuting(d) PROVE [Life!LifeNext]_Life!avars
  <2>1. PICK a \in Approvals : a = target[d] /\ grants[a] > 0
    BY <1>5 DEF MarkExecuting, QueueInv, TargetsInOrder, WorkIsGranted
  <2>2. /\ Update(a, "EXECUTING") \/ UNCHANGED status
        /\ UNCHANGED <<executions, grants>>
    BY <1>5, <2>1 DEF MarkExecuting
  <2>3. QED BY <1>3, <2>1, <2>2, LifeStutter
<1>6. ASSUME NEW d \in Deciders, StdinWrite(d) PROVE Life!LifeNext
  <2>1. PICK a \in Approvals : a = target[d] /\ d \in InFlight(a)
    BY <1>6 DEF StdinWrite, QueueInv, TargetsInOrder, InFlight
  <2>2. Cardinality(InFlight(a)) # 0 /\ Cardinality(InFlight(a)) \in Nat
    BY <2>1, InFlightFinite, FS_EmptySet
  <2>3. executions[a] < grants[a]
    BY <2>2 DEF QueueInv, QueueTypeOK, GrantsCover
  <2>4. Life!Run(a)
    BY <1>6, <2>1, <2>3 DEF StdinWrite, Life!Run, Phase
  <2>5. QED BY <2>4 DEF Life!LifeNext
<1>7. ASSUME NEW d \in Deciders, RecordResult(d) PROVE [Life!LifeNext]_Life!avars
  <2>1. PICK a \in Approvals : a = target[d] /\ grants[a] > 0
    BY <1>7 DEF RecordResult, QueueInv, TargetsInOrder, WorkIsGranted
  <2>2. result[d] = "ok" => executions[a] > 0
    BY <1>7, <2>1 DEF RecordResult, QueueInv, SuccessWasRun
  <2>3. /\ \/ Update(a, IF result[d] = "ok" THEN "COMPLETED" ELSE "FAILED")
           \/ UNCHANGED status
        /\ UNCHANGED <<executions, grants>>
    BY <1>7, <2>1 DEF RecordResult
  <2>4. CASE Update(a, IF result[d] = "ok" THEN "COMPLETED" ELSE "FAILED")
    BY <1>3, <2>1, <2>2, <2>3, <2>4
  <2>5. QED BY <2>3, <2>4, LifeStutter
<1>8. CASE CleanupExpiredApprovals
  <2> DEFINE A == {a \in Approvals : status[a] = "PENDING" /\ expiresAt[a] < now}
  <2>1. A \in SUBSET {a \in Approvals : phase[a] = "waiting"}
    BY DEF phase, Phase
  <2>2. \A a \in Approvals : Phase(a)' = IF a \in A THEN "expired" ELSE Phase(a)
    <3>1. \A a \in Approvals : status'[a] = IF a \in A THEN "EXPIRED" ELSE status[a]
      BY <1>8 DEF CleanupExpiredApprovals
    <3>2. \A a \in A : Phase(a)' = "expired"
      BY <3>1 DEF Phase
    <3>3. \A a \in Approvals \ A : Phase(a)' = Phase(a)
      BY <3>1 DEF Phase
    <3>4. QED BY <3>2, <3>3
  <2>3. phase' = [a \in Approvals |-> IF a \in A THEN "expired" ELSE phase[a]]
    BY <2>2 DEF phase
  <2>4. Life!ExpireSome
    BY <1>8, <2>1, <2>3 DEF CleanupExpiredApprovals, Life!ExpireSome, phase
  <2>5. QED BY <2>4 DEF Life!LifeNext
<1>9. CASE CleanupOldApprovals
  <2> DEFINE A == {a \in Approvals : /\ RetentionPeriod > 0
                                     /\ status[a] \in {"COMPLETED", "DENIED", "EXPIRED", "FAILED"}
                                     /\ requestedAt[a] + RetentionPeriod < now}
  <2>1. A \in SUBSET {a \in Approvals : phase[a] \in Life!Decided}
    BY DEF phase, Phase, Life!Decided
  <2>2. \A a \in Approvals : Phase(a)' = IF a \in A THEN "purged" ELSE Phase(a)
    <3>1. \A a \in Approvals : status'[a] = IF a \in A THEN "deleted" ELSE status[a]
      BY <1>9 DEF CleanupOldApprovals
    <3>2. \A a \in A : Phase(a)' = "purged"
      BY <3>1 DEF Phase
    <3>3. \A a \in Approvals \ A : Phase(a)' = Phase(a)
      BY <3>1 DEF Phase
    <3>4. QED BY <3>2, <3>3
  <2>3. phase' = [a \in Approvals |-> IF a \in A THEN "purged" ELSE phase[a]]
    BY <2>2 DEF phase
  <2>4. Life!PurgeSome
    BY <1>9, <2>1, <2>3 DEF CleanupOldApprovals, Life!PurgeSome, phase
  <2>5. QED BY <2>4 DEF Life!LifeNext
<1>10. ASSUME NEW d \in Deciders,
              \/ \E a \in Approvals : OpenPage(d, a)
              \/ ClosePage(d) \/ GetApprovalRequest(d) \/ SendPanics(d)
              \/ \E answer \in {"ok", "error"} : ExecuteRequest(d, answer)
       PROVE  UNCHANGED Life!avars
  BY <1>10, LifeStutter DEF OpenPage, ClosePage, GetApprovalRequest, SendPanics, ExecuteRequest
<1>11. CASE Tick \/ QueueRestart \/ UNCHANGED queueVars
  BY <1>11, LifeStutter DEF Tick, QueueRestart, queueVars
<1>12. QED
  BY <1>1, <1>2, <1>4, <1>5, <1>6, <1>7, <1>8, <1>9, <1>10, <1>11
    DEF QueueNext, StatementStep, ExecutorStep

\* The queue lives the life that ApprovalLifecycle promises, for any number of
\* handlers and stale pages: one run per grant, no result without a grant, no
\* success without a run, and no way back from waiting or from the purge.
THEOREM ApprovalImplementsLifecycle == QueueSpec => ImplementsLifecycle
<1>1. QueueInit => Life!LifeInit
  BY DEF QueueInit, Life!LifeInit, Phase
<1>2. QueueInv /\ [QueueNext]_queueVars => [Life!LifeNext]_Life!avars
  BY LifeStep
<1>3. QED BY <1>1, <1>2, ApprovalInvariance, PTL
  DEF QueueSpec, ImplementsLifecycle, Life!LifeSpec
=============================================================================
