--------------------------- MODULE OverridesProofs ---------------------------
(***************************************************************************)
(* Safety of the overrides for every set of administrators, users, values  *)
(* and calls, and any number of edits and restarts.                        *)
(***************************************************************************)
EXTENDS Overrides, TLAPS

\* What a handler for administrators carries from the table to the map.
EditsAreAdmins ==
    \A a \in Admins :
        /\ admin[a] = "register" => edited[a].row.by = Admin
        /\ admin[a] = "remove" => edited[a].row = None

\* For a name whose row has not been written out of step with the map: whoever is
\* about to write the map has the row as it is in the table, and with nobody about
\* to, the map has it, or the load is still to list it.
InStep ==
    \A n \in Names \ tainted :
        /\ \A a \in Admins : admin[a] # "idle" /\ edited[a].name = n => edited[a].row = rows[n]
        /\ listed[n] # None => listed[n] = rows[n]
        /\ ~Busy(n) /\ rows[n] = None => overrides[n] = None
        /\ ~Busy(n) /\ loader # "list" /\ Complete(rows[n]) => overrides[n] = rows[n]

IndInv == TypeOK /\ EditsAreAdmins /\ InStep /\ NoOverridePassedOver

\* A handler that starts an edit keeps the types.
LEMMA StartTypes ==
    ASSUME TypeOK, NEW a \in Admins, NEW n \in Names, NEW r \in Maybe(Override),
           NEW next \in {"register", "remove"}, next = "register" => r # None,
           StartEdit(a, n, r, next)
    PROVE  TypeOK'
<1>1. [name |-> n, row |-> r] \in Edit /\ [name |-> n, row |-> r] # None
  BY NoneAssumption DEF Edit, Maybe
<1>2. (/\ rows \in [Names -> Maybe(Override)]
       /\ admin \in [Admins -> {"idle", "register", "remove"}]
       /\ edited \in [Admins -> Maybe(Edit)])'
  BY <1>1 DEF StartEdit, TypeOK, Maybe
<1>3. (edits \in 0..MaxEdits)'
  BY BoundsAssumption DEF StartEdit, TypeOK
<1>4. (\A b \in Admins : admin[b] # "idle" <=> edited[b] # None)'
  BY <1>1 DEF StartEdit, TypeOK
<1>5. (\A b \in Admins : admin[b] = "register" => edited[b].row # None)'
  BY DEF StartEdit, TypeOK
<1>6. (tainted \in SUBSET Names)'
  BY DEF StartEdit, Taint, TypeOK
<1>7. QED
  BY <1>2, <1>3, <1>4, <1>5, <1>6 DEF StartEdit, TypeOK, startVars, callVars

\* Each step keeps the types.
LEMMA TypeStep ==
    ASSUME IndInv, [Next]_vars
    PROVE  TypeOK'
<1>1. ASSUME NEW a \in Admins, NEW n \in Names, OverrideDelete(a, n) PROVE TypeOK'
  BY <1>1, StartTypes DEF OverrideDelete, IndInv, Maybe, Override
<1>2. ASSUME NEW a \in Admins, NEW n \in Names, NEW v \in Values, OverrideCreate(a, n, v)
      PROVE  TypeOK'
  <2>1. [by |-> Admin, value |-> v] \in Override /\ [by |-> Admin, value |-> v] # None
    BY NoneAssumption DEF Override
  <2>2. QED BY <1>2, <2>1, StartTypes DEF OverrideCreate, IndInv, Maybe
<1>3. ASSUME NEW a \in Admins, AdminStep(a) PROVE TypeOK'
  <2>1. CASE OverrideRegister(a)
    BY <2>1, NoneAssumption, AuthorsAssumption, BoundsAssumption
      DEF OverrideRegister, RegisterOverride, EndEdit, startVars, callVars, IndInv,
      EditsAreAdmins, Nothing, TypeOK, Maybe, Override, Edit, Names
  <2>2. CASE OverrideRemove(a)
    BY <2>2, NoneAssumption, AuthorsAssumption, BoundsAssumption
      DEF OverrideRemove, EndEdit, startVars, callVars, IndInv, EditsAreAdmins, Nothing,
      TypeOK, Maybe, Override, Edit, Names
  <2>3. QED
    BY <1>3, <2>1, <2>2 DEF AdminStep
<1>4. ASSUME NEW u \in Users, NEW v \in Values, UserOverrideCreate(u, v) PROVE TypeOK'
  BY <1>4, NoneAssumption, AuthorsAssumption, BoundsAssumption
    DEF UserOverrideCreate, startVars, callVars, IndInv, EditsAreAdmins, Nothing, TypeOK,
    Maybe, Override, Edit, Names
<1>5. ASSUME NEW u \in Users, NEW n \in Names, UserOverrideDelete(u, n) PROVE TypeOK'
  <2>1. (rows \in [Names -> Maybe(Override)] /\ edits \in 0..MaxEdits)'
    BY <1>5, BoundsAssumption DEF UserOverrideDelete, IndInv, TypeOK, Maybe
  <2>2. QED BY <1>5, <2>1 DEF UserOverrideDelete, IndInv, TypeOK, startVars, callVars
<1>6. CASE LoadStep
  <2>1. CASE LoadList
    BY <2>1, NoneAssumption, AuthorsAssumption, BoundsAssumption
      DEF LoadList, adminVars, callVars, IndInv, EditsAreAdmins, Nothing, TypeOK, Maybe,
      Override, Edit, Names
  <2>2. ASSUME NEW n \in Names, LoadNext(n) PROVE TypeOK'
    BY <2>2, NoneAssumption, AuthorsAssumption, BoundsAssumption
      DEF LoadNext, RegisterOverride, adminVars, callVars, IndInv, EditsAreAdmins, Nothing,
      TypeOK, Maybe, Override, Edit, Names
  <2>3. CASE LoadEnd
    BY <2>3, NoneAssumption, AuthorsAssumption, BoundsAssumption
      DEF LoadEnd, adminVars, callVars, IndInv, EditsAreAdmins, Nothing, TypeOK, Maybe,
      Override, Edit, Names
  <2>4. CASE LoadFails
    BY <2>4, NoneAssumption, AuthorsAssumption, BoundsAssumption
      DEF LoadFails, adminVars, callVars, IndInv, EditsAreAdmins, Nothing, TypeOK, Maybe,
      Override, Edit, Names
  <2>5. QED
    BY <1>6, <2>1, <2>2, <2>3, <2>4 DEF LoadStep
<1>7. CASE Scan
  BY <1>7, NoneAssumption, AuthorsAssumption, BoundsAssumption
    DEF Scan, adminVars, callVars, IndInv, EditsAreAdmins, Nothing, TypeOK, Maybe, Override,
    Edit, Names
<1>8. CASE Restart
  BY <1>8, NoneAssumption, AuthorsAssumption, BoundsAssumption
    DEF Restart, IndInv, EditsAreAdmins, Nothing, TypeOK, Maybe, Override, Edit, Names
<1>9. ASSUME NEW c \in Callers, NEW u \in Users, NEW n \in Names, Resolve(c, u, n) PROVE TypeOK'
  BY <1>9, NoneAssumption, AuthorsAssumption, BoundsAssumption
    DEF Resolve, Resolved, startVars, adminVars, IndInv, EditsAreAdmins, Nothing, TypeOK,
    Maybe, Override, Edit, Names
<1>10. ASSUME NEW c \in Callers, CallStep(c) PROVE TypeOK'
  <2>1. CASE ResolvePersonal(c)
    BY <2>1, NoneAssumption, AuthorsAssumption, BoundsAssumption
      DEF ResolvePersonal, Resolved, startVars, adminVars, IndInv, EditsAreAdmins, Nothing,
      TypeOK, Maybe, Override, Edit, Names
  <2>2. CASE ResolveStored(c)
    BY <2>2, NoneAssumption, AuthorsAssumption, BoundsAssumption
      DEF ResolveStored, Resolved, startVars, adminVars, IndInv, EditsAreAdmins, Nothing,
      TypeOK, Maybe, Override, Edit, Names
  <2>3. QED
    BY <1>10, <2>1, <2>2 DEF CallStep
<1>11. ASSUME NEW c \in Callers, Return(c) PROVE TypeOK'
  BY <1>11, NoneAssumption, AuthorsAssumption, BoundsAssumption
    DEF Return, startVars, adminVars, IndInv, EditsAreAdmins, Nothing, TypeOK, Maybe,
    Override, Edit, Names
<1>12. CASE UNCHANGED vars
  BY <1>12
    DEF vars, startVars, adminVars, callVars, IndInv, EditsAreAdmins, Nothing, TypeOK, Maybe,
    Override, Edit, Names
<1>13. QED
  BY <1>1, <1>2, <1>3, <1>4, <1>5, <1>6, <1>7, <1>8, <1>9, <1>10, <1>11, <1>12 DEF Next

\* Each step keeps EditsAreAdmins.
LEMMA EditsStep ==
    ASSUME IndInv, [Next]_vars
    PROVE  EditsAreAdmins'
<1>1. ASSUME NEW a \in Admins, NEW n \in Names, OverrideDelete(a, n) PROVE EditsAreAdmins'
  BY <1>1, NoneAssumption, AuthorsAssumption, BoundsAssumption
    DEF OverrideDelete, StartEdit, Taint, startVars, callVars, IndInv, EditsAreAdmins, TypeOK,
    Maybe, Override, Edit
<1>2. ASSUME NEW a \in Admins, NEW n \in Names, NEW v \in Values, OverrideCreate(a, n, v)
      PROVE  EditsAreAdmins'
  BY <1>2, NoneAssumption, AuthorsAssumption, BoundsAssumption
    DEF OverrideCreate, StartEdit, Taint, startVars, callVars, IndInv, EditsAreAdmins, TypeOK,
    Maybe, Override, Edit
<1>3. ASSUME NEW a \in Admins, AdminStep(a) PROVE EditsAreAdmins'
  <2>1. CASE OverrideRegister(a)
    BY <2>1, NoneAssumption, AuthorsAssumption, BoundsAssumption
      DEF OverrideRegister, RegisterOverride, EndEdit, startVars, callVars, IndInv,
      EditsAreAdmins, TypeOK, Maybe, Override, Edit
  <2>2. CASE OverrideRemove(a)
    BY <2>2, NoneAssumption, AuthorsAssumption, BoundsAssumption
      DEF OverrideRemove, EndEdit, startVars, callVars, IndInv, EditsAreAdmins, TypeOK, Maybe,
      Override, Edit
  <2>3. QED
    BY <1>3, <2>1, <2>2 DEF AdminStep
<1>4. ASSUME NEW u \in Users, NEW v \in Values, UserOverrideCreate(u, v) PROVE EditsAreAdmins'
  BY <1>4, NoneAssumption, AuthorsAssumption, BoundsAssumption
    DEF UserOverrideCreate, startVars, callVars, IndInv, EditsAreAdmins, TypeOK, Maybe,
    Override, Edit
<1>5. ASSUME NEW u \in Users, NEW n \in Names, UserOverrideDelete(u, n) PROVE EditsAreAdmins'
  BY <1>5, NoneAssumption, AuthorsAssumption, BoundsAssumption
    DEF UserOverrideDelete, startVars, callVars, IndInv, EditsAreAdmins, TypeOK, Maybe,
    Override, Edit
<1>6. CASE LoadStep
  <2>1. CASE LoadList
    BY <2>1, NoneAssumption, AuthorsAssumption, BoundsAssumption
      DEF LoadList, adminVars, callVars, IndInv, EditsAreAdmins, TypeOK, Maybe, Override, Edit
  <2>2. ASSUME NEW n \in Names, LoadNext(n) PROVE EditsAreAdmins'
    BY <2>2, NoneAssumption, AuthorsAssumption, BoundsAssumption
      DEF LoadNext, RegisterOverride, adminVars, callVars, IndInv, EditsAreAdmins, TypeOK,
      Maybe, Override, Edit
  <2>3. CASE LoadEnd
    BY <2>3, NoneAssumption, AuthorsAssumption, BoundsAssumption
      DEF LoadEnd, adminVars, callVars, IndInv, EditsAreAdmins, TypeOK, Maybe, Override, Edit
  <2>4. CASE LoadFails
    BY <2>4, NoneAssumption, AuthorsAssumption, BoundsAssumption
      DEF LoadFails, adminVars, callVars, IndInv, EditsAreAdmins, TypeOK, Maybe, Override, Edit
  <2>5. QED
    BY <1>6, <2>1, <2>2, <2>3, <2>4 DEF LoadStep
<1>7. CASE Scan
  BY <1>7, NoneAssumption, AuthorsAssumption, BoundsAssumption
    DEF Scan, adminVars, callVars, IndInv, EditsAreAdmins, TypeOK, Maybe, Override, Edit
<1>8. CASE Restart
  BY <1>8, NoneAssumption, AuthorsAssumption, BoundsAssumption
    DEF Restart, IndInv, EditsAreAdmins, TypeOK, Maybe, Override, Edit
<1>9. ASSUME NEW c \in Callers, NEW u \in Users, NEW n \in Names, Resolve(c, u, n)
      PROVE  EditsAreAdmins'
  BY <1>9, NoneAssumption, AuthorsAssumption, BoundsAssumption
    DEF Resolve, Resolved, startVars, adminVars, IndInv, EditsAreAdmins, TypeOK, Maybe,
    Override, Edit
<1>10. ASSUME NEW c \in Callers, CallStep(c) PROVE EditsAreAdmins'
  <2>1. CASE ResolvePersonal(c)
    BY <2>1, NoneAssumption, AuthorsAssumption, BoundsAssumption
      DEF ResolvePersonal, Resolved, startVars, adminVars, IndInv, EditsAreAdmins, TypeOK,
      Maybe, Override, Edit
  <2>2. CASE ResolveStored(c)
    BY <2>2, NoneAssumption, AuthorsAssumption, BoundsAssumption
      DEF ResolveStored, Resolved, startVars, adminVars, IndInv, EditsAreAdmins, TypeOK,
      Maybe, Override, Edit
  <2>3. QED
    BY <1>10, <2>1, <2>2 DEF CallStep
<1>11. ASSUME NEW c \in Callers, Return(c) PROVE EditsAreAdmins'
  BY <1>11, NoneAssumption, AuthorsAssumption, BoundsAssumption
    DEF Return, startVars, adminVars, IndInv, EditsAreAdmins, TypeOK, Maybe, Override, Edit
<1>12. CASE UNCHANGED vars
  BY <1>12
    DEF vars, startVars, adminVars, callVars, IndInv, EditsAreAdmins, TypeOK, Maybe, Override,
    Edit
<1>13. QED
  BY <1>1, <1>2, <1>3, <1>4, <1>5, <1>6, <1>7, <1>8, <1>9, <1>10, <1>11, <1>12 DEF Next

\* Each step keeps table and map in step.
LEMMA InStepStep ==
    ASSUME IndInv, [Next]_vars
    PROVE  InStep'
<1>1. ASSUME NEW a \in Admins, NEW n \in Names, OverrideDelete(a, n) PROVE InStep'
  BY <1>1, NoneAssumption, AuthorsAssumption, BoundsAssumption
    DEF OverrideDelete, StartEdit, Taint, startVars, callVars, IndInv, EditsAreAdmins, InStep,
    Busy, Complete, Nothing, TypeOK, Maybe, Override, Edit
<1>2. ASSUME NEW a \in Admins, NEW n \in Names, NEW v \in Values, OverrideCreate(a, n, v)
      PROVE  InStep'
  BY <1>2, NoneAssumption, AuthorsAssumption, BoundsAssumption
    DEF OverrideCreate, StartEdit, Taint, startVars, callVars, IndInv, EditsAreAdmins, InStep,
    Busy, Complete, Nothing, TypeOK, Maybe, Override, Edit
<1>3. ASSUME NEW a \in Admins, AdminStep(a) PROVE InStep'
  <2>1. CASE OverrideRegister(a)
    BY <2>1, NoneAssumption, AuthorsAssumption, BoundsAssumption
      DEF OverrideRegister, RegisterOverride, EndEdit, startVars, callVars, IndInv,
      EditsAreAdmins, InStep, Busy, Complete, Nothing, TypeOK, Maybe, Override, Edit
  <2>2. CASE OverrideRemove(a)
    BY <2>2, NoneAssumption, AuthorsAssumption, BoundsAssumption
      DEF OverrideRemove, EndEdit, startVars, callVars, IndInv, EditsAreAdmins, InStep, Busy,
      Complete, Nothing, TypeOK, Maybe, Override, Edit
  <2>3. QED
    BY <1>3, <2>1, <2>2 DEF AdminStep
<1>4. ASSUME NEW u \in Users, NEW v \in Values, UserOverrideCreate(u, v) PROVE InStep'
  BY <1>4, NoneAssumption, AuthorsAssumption, BoundsAssumption
    DEF UserOverrideCreate, startVars, callVars, IndInv, EditsAreAdmins, InStep, Busy,
    Complete, Nothing, TypeOK, Maybe, Override, Edit
<1>5. ASSUME NEW u \in Users, NEW n \in Names, UserOverrideDelete(u, n) PROVE InStep'
  BY <1>5, NoneAssumption, AuthorsAssumption, BoundsAssumption
    DEF UserOverrideDelete, startVars, callVars, IndInv, EditsAreAdmins, InStep, Busy,
    Complete, Nothing, TypeOK, Maybe, Override, Edit
<1>6. CASE LoadStep
  <2>1. CASE LoadList
    BY <2>1, NoneAssumption, AuthorsAssumption, BoundsAssumption
      DEF LoadList, adminVars, callVars, IndInv, EditsAreAdmins, InStep, Busy, Complete,
      Nothing, TypeOK, Maybe, Override, Edit
  <2>2. ASSUME NEW n \in Names, LoadNext(n) PROVE InStep'
    BY <2>2, NoneAssumption, AuthorsAssumption, BoundsAssumption
      DEF LoadNext, RegisterOverride, adminVars, callVars, IndInv, EditsAreAdmins, InStep,
      Busy, Complete, Nothing, TypeOK, Maybe, Override, Edit
  <2>3. CASE LoadEnd
    BY <2>3, NoneAssumption, AuthorsAssumption, BoundsAssumption
      DEF LoadEnd, adminVars, callVars, IndInv, EditsAreAdmins, InStep, Busy, Complete,
      Nothing, TypeOK, Maybe, Override, Edit
  <2>4. CASE LoadFails
    BY <2>4, NoneAssumption, AuthorsAssumption, BoundsAssumption
      DEF LoadFails, adminVars, callVars, IndInv, EditsAreAdmins, InStep, Busy, Complete,
      Nothing, TypeOK, Maybe, Override, Edit
  <2>5. QED
    BY <1>6, <2>1, <2>2, <2>3, <2>4 DEF LoadStep
<1>7. CASE Scan
  BY <1>7, NoneAssumption, AuthorsAssumption, BoundsAssumption
    DEF Scan, adminVars, callVars, IndInv, EditsAreAdmins, InStep, Busy, Complete, Nothing,
    TypeOK, Maybe, Override, Edit
<1>8. CASE Restart
  BY <1>8, NoneAssumption, AuthorsAssumption, BoundsAssumption
    DEF Restart, IndInv, EditsAreAdmins, InStep, Busy, Complete, Nothing, TypeOK, Maybe,
    Override, Edit
<1>9. ASSUME NEW c \in Callers, NEW u \in Users, NEW n \in Names, Resolve(c, u, n) PROVE InStep'
  BY <1>9, NoneAssumption, AuthorsAssumption, BoundsAssumption
    DEF Resolve, Resolved, startVars, adminVars, IndInv, EditsAreAdmins, InStep, Busy,
    Complete, Nothing, TypeOK, Maybe, Override, Edit
<1>10. ASSUME NEW c \in Callers, CallStep(c) PROVE InStep'
  <2>1. CASE ResolvePersonal(c)
    BY <2>1, NoneAssumption, AuthorsAssumption, BoundsAssumption
      DEF ResolvePersonal, Resolved, startVars, adminVars, IndInv, EditsAreAdmins, InStep,
      Busy, Complete, Nothing, TypeOK, Maybe, Override, Edit
  <2>2. CASE ResolveStored(c)
    BY <2>2, NoneAssumption, AuthorsAssumption, BoundsAssumption
      DEF ResolveStored, Resolved, startVars, adminVars, IndInv, EditsAreAdmins, InStep, Busy,
      Complete, Nothing, TypeOK, Maybe, Override, Edit
  <2>3. QED
    BY <1>10, <2>1, <2>2 DEF CallStep
<1>11. ASSUME NEW c \in Callers, Return(c) PROVE InStep'
  BY <1>11, NoneAssumption, AuthorsAssumption, BoundsAssumption
    DEF Return, startVars, adminVars, IndInv, EditsAreAdmins, InStep, Busy, Complete, Nothing,
    TypeOK, Maybe, Override, Edit
<1>12. CASE UNCHANGED vars
  BY <1>12
    DEF vars, startVars, adminVars, callVars, IndInv, EditsAreAdmins, InStep, Busy, Complete,
    Nothing, TypeOK, Maybe, Override, Edit
<1>13. QED
  BY <1>1, <1>2, <1>3, <1>4, <1>5, <1>6, <1>7, <1>8, <1>9, <1>10, <1>11, <1>12 DEF Next

\* Each step keeps NoOverridePassedOver: whoever writes the map waits for the calls inside.
LEMMA PassedOverStep ==
    ASSUME IndInv, [Next]_vars
    PROVE  NoOverridePassedOver'
<1>1. ASSUME NEW a \in Admins, NEW n \in Names, OverrideDelete(a, n) PROVE NoOverridePassedOver'
  BY <1>1
    DEF OverrideDelete, StartEdit, Taint, startVars, callVars, IndInv, NoOverridePassedOver, TypeOK
<1>2. ASSUME NEW a \in Admins, NEW n \in Names, NEW v \in Values, OverrideCreate(a, n, v)
      PROVE  NoOverridePassedOver'
  BY <1>2
    DEF OverrideCreate, StartEdit, Taint, startVars, callVars, IndInv, NoOverridePassedOver, TypeOK
<1>3. ASSUME NEW a \in Admins, AdminStep(a) PROVE NoOverridePassedOver'
  <2>1. CASE OverrideRegister(a)
    BY <2>1
      DEF OverrideRegister, RegisterOverride, Unread, EndEdit, startVars, callVars, IndInv,
      NoOverridePassedOver, TypeOK
  <2>2. CASE OverrideRemove(a)
    BY <2>2
      DEF OverrideRemove, Unread, EndEdit, startVars, callVars, IndInv, NoOverridePassedOver, TypeOK
  <2>3. QED
    BY <1>3, <2>1, <2>2 DEF AdminStep
<1>4. ASSUME NEW u \in Users, NEW v \in Values, UserOverrideCreate(u, v)
      PROVE  NoOverridePassedOver'
  BY <1>4
    DEF UserOverrideCreate, startVars, callVars, IndInv, NoOverridePassedOver, TypeOK
<1>5. ASSUME NEW u \in Users, NEW n \in Names, UserOverrideDelete(u, n)
      PROVE  NoOverridePassedOver'
  BY <1>5
    DEF UserOverrideDelete, startVars, callVars, IndInv, NoOverridePassedOver, TypeOK
<1>6. CASE LoadStep
  <2>1. CASE LoadList
    BY <2>1
      DEF LoadList, adminVars, callVars, IndInv, NoOverridePassedOver, TypeOK
  <2>2. ASSUME NEW n \in Names, LoadNext(n) PROVE NoOverridePassedOver'
    BY <2>2
      DEF LoadNext, RegisterOverride, Unread, adminVars, callVars, IndInv, NoOverridePassedOver,
      TypeOK
  <2>3. CASE LoadEnd
    BY <2>3
      DEF LoadEnd, adminVars, callVars, IndInv, NoOverridePassedOver, TypeOK
  <2>4. CASE LoadFails
    BY <2>4
      DEF LoadFails, adminVars, callVars, IndInv, NoOverridePassedOver, TypeOK
  <2>5. QED
    BY <1>6, <2>1, <2>2, <2>3, <2>4 DEF LoadStep
<1>7. CASE Scan
  BY <1>7
    DEF Scan, adminVars, callVars, IndInv, NoOverridePassedOver, TypeOK,
    Maybe, Override, Edit
<1>8. CASE Restart
  BY <1>8
    DEF Restart, IndInv, NoOverridePassedOver, TypeOK
<1>9. ASSUME NEW c \in Callers, NEW u \in Users, NEW n \in Names, Resolve(c, u, n)
      PROVE  NoOverridePassedOver'
  BY <1>9
    DEF Resolve, Resolved, startVars, adminVars, IndInv, NoOverridePassedOver, TypeOK
<1>10. ASSUME NEW c \in Callers, CallStep(c) PROVE NoOverridePassedOver'
  <2>1. CASE ResolvePersonal(c)
    BY <2>1
      DEF ResolvePersonal, Resolved, startVars, adminVars, IndInv, NoOverridePassedOver, TypeOK
  <2>2. CASE ResolveStored(c)
    BY <2>2
      DEF ResolveStored, Resolved, startVars, adminVars, IndInv, NoOverridePassedOver, TypeOK
  <2>3. QED
    BY <1>10, <2>1, <2>2 DEF CallStep
<1>11. ASSUME NEW c \in Callers, Return(c) PROVE NoOverridePassedOver'
  BY <1>11
    DEF Return, startVars, adminVars, IndInv, NoOverridePassedOver, TypeOK,
    Maybe, Override, Edit
<1>12. CASE UNCHANGED vars
  BY <1>12
    DEF vars, startVars, adminVars, callVars, IndInv, NoOverridePassedOver, TypeOK
<1>13. QED
  BY <1>1, <1>2, <1>3, <1>4, <1>5, <1>6, <1>7, <1>8, <1>9, <1>10, <1>11, <1>12 DEF Next

\* The empty table and resolver satisfy the invariant.
LEMMA InitIndInv == Init => IndInv
<1>1. Init => TypeOK
  <2>1. SUFFICES ASSUME Init PROVE TypeOK
    OBVIOUS
  <2>2. Nothing \in [Names -> Maybe(Override)]
    BY DEF Nothing, Maybe
  <2>3. /\ \A a \in Admins : admin[a] = "idle" /\ edited[a] = None
        /\ admin \in [Admins -> {"idle", "register", "remove"}]
        /\ edited \in [Admins -> Maybe(Edit)]
    BY <2>1 DEF Init, Maybe
  <2>4. /\ pc \in [Callers -> {"idle", "personal", "stored", "done"}]
        /\ user \in [Callers -> Maybe(Users)] /\ name \in [Callers -> Names]
        /\ result \in [Callers -> Maybe(Users \cup {Admin, "backend", "pattern"})]
    BY <2>1 DEF Init, Maybe, Names
  <2>5. edits \in 0..MaxEdits /\ restarts \in 0..MaxRestarts
    BY <2>1, BoundsAssumption DEF Init
  <2>6. QED BY <2>1, <2>2, <2>3, <2>4, <2>5 DEF Init, TypeOK
<1>2. Init => EditsAreAdmins /\ NoOverridePassedOver
  BY DEF Init, EditsAreAdmins, NoOverridePassedOver, Nothing
<1>3. Init => InStep
  BY DEF Init, InStep, Busy, Complete, Nothing
<1>4. QED BY <1>1, <1>2, <1>3 DEF IndInv

\* IndInv is an inductive invariant of the overrides.
THEOREM OverridesInvariance == Spec => []IndInv
<1>1. Init => IndInv
  BY InitIndInv
<1>2. IndInv /\ [Next]_vars => IndInv'
  BY TypeStep, EditsStep, InStepStep, PassedOverStep DEF IndInv
<1>3. QED BY <1>1, <1>2, PTL DEF Spec

\* The types hold always.
THEOREM OverridesTypes == Spec => []TypeOK
<1>1. IndInv => TypeOK
  BY DEF IndInv
<1>2. QED BY <1>1, OverridesInvariance, PTL

\* After the load and between edits the map says what the table says, for any
\* number of administrators, edits and restarts.
THEOREM OverridesMapFollowsTable == Spec => []MapFollowsTable
<1>1. IndInv => MapFollowsTable
  BY DEF IndInv, InStep, MapFollowsTable
<1>2. QED BY <1>1, OverridesInvariance, PTL

\* No override comes into force behind the back of a call that has passed the first
\* tier: the writers of the map wait for the resolver's readers.
THEOREM OverridesNotPassedOver == Spec => []NoOverridePassedOver
<1>1. IndInv => NoOverridePassedOver
  BY DEF IndInv
<1>2. QED BY <1>1, OverridesInvariance, PTL
=============================================================================
