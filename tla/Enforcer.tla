------------------------------ MODULE Enforcer ------------------------------
(***************************************************************************)
(* The policy engine (enforcer/enforcer.go, enforcer/cel_engine.go): tool   *)
(* calls are decided by every policy compiled into the engine while         *)
(* administrators add, change and delete the rows the engine is loaded      *)
(* from.                                                                    *)
(*                                                                          *)
(* The engine keeps two maps, programs and policies, that no lock guards: a *)
(* write to one of them is one step, and so is each read of an evaluation.  *)
(* (The Go runtime may also stop the bridge on such an access, which is     *)
(* Restart.)  A policy body says which tools its expression matches; an     *)
(* expression whose evaluation fails matches nothing, as in the code.  No   *)
(* path writes a row's dispositions, so a full bucket resolves to DENY.     *)
(***************************************************************************)
EXTENDS Naturals, FiniteSets

CONSTANTS
    Callers,     \* request goroutines of the bridge
    Admins,      \* sessions editing policies
    Policies,    \* policy identifiers
    Tools,
    Bodies,      \* what a policy row may say
    None,        \* no row, no program
    Backend,     \* the kill-switch scope of the backend called
    Profiles,    \* safety profiles: where they come from, RequiresHITL
    MaxEdits     \* bound: policy edits in a behaviour

Actions == {"DENY", "PENDING_ADMIN_APPROVAL", "PENDING_APPROVAL",
            "PENDING_USER_APPROVAL", "WARN", "ALLOW"}
Severities == {"CRITICAL", "HIGH", "MEDIUM", "LOW"}
Sources == {"override", "user_override", "self_reported", "inferred"}
Scopes == {"global", Backend}
PolicyBodies == [match : SUBSET Tools, action : Actions, severity : Severities,
                 priority : Nat, enabled : BOOLEAN, valid : BOOLEAN]

ASSUME BodiesAssumption == Bodies \subseteq PolicyBodies /\ None \notin PolicyBodies
ASSUME ProfilesAssumption == Profiles \subseteq [source : Sources, requiresHITL : BOOLEAN]
ASSUME NonEmptyAssumption == Tools # {} /\ Profiles # {}
ASSUME BackendAssumption == Backend # "global"
ASSUME EditsAssumption == MaxEdits \in Nat

VARIABLES
    rows,        \* the table enforcer_policies
    programs,    \* CELEngine.programs: the body whose expression is compiled
    policies,    \* CELEngine.policies
    switches,    \* scopes with an enabled row in enforcer_kill_switches
    pc, tool, profile, decision, outcome,  \* of each caller
    left, must,  \* policies its evaluation has not visited, and cannot skip
    program,     \* the policy whose program it has found to match
    todo, adding, admin,  \* of each admin: rows to load, the one half added, counter
    edits,       \* edits so far
    stable       \* ghost: policies unchanged in the engine since the evaluation began

stored == <<rows, switches>>
engine == <<programs, policies>>
callerVars == <<pc, tool, profile, decision, outcome, left, must, program>>
adminVars == <<todo, adding, admin, edits>>
vars == <<stored, engine, callerVars, adminVars, stable>>

Maybe(S) == S \cup {None}

\* What shouldUpdateDecision compares; an absent value has priority 0.
NoDecision == [action |-> "", severity |-> "", priority |-> 0]
Decisions == [action : Actions \cup {""}, severity : Severities \cup {""}, priority : Nat]

\* Rows to load, by policy.
Lists == UNION {[P -> Bodies] : P \in SUBSET Policies}

TypeOK ==
    /\ rows \in [Policies -> Maybe(Bodies)]
    /\ programs \in [Policies -> Maybe(Bodies)] /\ policies \in [Policies -> Maybe(Bodies)]
    /\ \A p \in Policies : policies[p] # None => programs[p] # None
    /\ switches \in SUBSET Scopes
    /\ pc \in [Callers -> {"idle", "scope", "global", "evaluate", "policy", "decide", "done"}]
    /\ tool \in [Callers -> Tools] /\ profile \in [Callers -> Profiles]
    /\ decision \in [Callers -> Decisions]
    /\ outcome \in [Callers -> {"none", "forwarded", "denied", "admin", "user", "failed"}]
    /\ left \in [Callers -> SUBSET Policies] /\ must \in [Callers -> SUBSET Policies]
    /\ program \in [Callers -> Maybe(Policies)]
    /\ edits \in 0..MaxEdits
    /\ admin \in [Admins -> {"idle", "list", "load", "policy"}]
    /\ todo \in [Admins -> Lists] /\ adding \in [Admins -> Maybe(Policies)]
    /\ \A a \in Admins : admin[a] = "policy" => adding[a] \in DOMAIN todo[a]
    /\ stable \in [Callers -> SUBSET Policies]

Loadable(b) == b # None /\ b.enabled /\ b.valid

\* The engine a start of the bridge builds: New calls loadPolicies.
Loaded == [p \in Policies |-> IF Loadable(rows[p]) THEN rows[p] ELSE None]

NoRows == [p \in {} |-> None]

\* What an idle caller's variables hold.
AnyTool == CHOOSE t \in Tools : TRUE
AnyProfile == CHOOSE f \in Profiles : TRUE

Init ==
    /\ rows \in [Policies -> Maybe(Bodies)]
    /\ programs = Loaded /\ policies = Loaded
    /\ switches = {}
    /\ pc = [c \in Callers |-> "idle"]
    /\ tool = [c \in Callers |-> AnyTool] /\ profile = [c \in Callers |-> AnyProfile]
    /\ decision = [c \in Callers |-> NoDecision]
    /\ outcome = [c \in Callers |-> "none"]
    /\ left = [c \in Callers |-> {}] /\ must = [c \in Callers |-> {}]
    /\ program = [c \in Callers |-> None]
    /\ todo = [a \in Admins |-> NoRows] /\ adding = [a \in Admins |-> None]
    /\ admin = [a \in Admins |-> "idle"] /\ edits = 0
    /\ stable = [c \in Callers |-> {}]
-----------------------------------------------------------------------------
(* Administrators.  The web handlers take no lock: they write the row, and  *)
(* then list the enabled rows and add them to the engine one by one.        *)

Skip(a, p) == [q \in DOMAIN todo[a] \ {p} |-> todo[a][q]]

\* The row is inserted, or the insert fails on an existing id and nothing
\* else happens; then this policy alone is added to the engine.
CreatePolicy(a, p, b) ==
    /\ admin[a] = "idle" /\ edits < MaxEdits /\ rows[p] = None
    /\ edits' = edits + 1
    /\ rows' = [rows EXCEPT ![p] = b]
    /\ admin' = [admin EXCEPT ![a] = "load"]
    /\ todo' = [todo EXCEPT ![a] = IF b.enabled THEN [q \in {p} |-> b] ELSE NoRows]
    /\ UNCHANGED <<switches, engine, callerVars, adding, stable>>

\* An update of a row that is gone changes nothing and reloads all the same.
UpdatePolicy(a, p, b) ==
    /\ admin[a] = "idle" /\ edits < MaxEdits
    /\ edits' = edits + 1
    /\ rows' = [rows EXCEPT ![p] = IF @ = None THEN None ELSE b]
    /\ admin' = [admin EXCEPT ![a] = "list"]
    /\ UNCHANGED <<switches, engine, callerVars, todo, adding, stable>>

DeletePolicy(a, p) ==
    /\ admin[a] = "idle" /\ edits < MaxEdits
    /\ edits' = edits + 1
    /\ rows' = [rows EXCEPT ![p] = None]
    /\ admin' = [admin EXCEPT ![a] = "list"]
    /\ UNCHANGED <<switches, engine, callerVars, todo, adding, stable>>

\* loadPolicies: the enabled rows as they are now.
ListPolicies(a) ==
    /\ admin[a] = "list"
    /\ todo' = [todo EXCEPT ![a] =
                 [p \in {q \in Policies : rows[q] # None /\ rows[q].enabled} |-> rows[p]]]
    /\ admin' = [admin EXCEPT ![a] = "load"]
    /\ UNCHANGED <<stored, engine, callerVars, adding, stable, edits>>

\* A write to one of the engine's maps: a policy that changes is not stable.
Disturb(p, old, new) ==
    stable' = IF old = new THEN stable ELSE [c \in Callers |-> stable[c] \ {p}]

\* Mutant of AddProgram: a policy that does not compile ends the reload.
AddStopsMutant(a) ==
    /\ admin[a] = "load" /\ DOMAIN todo[a] # {}
    /\ \E p \in DOMAIN todo[a] :
         /\ \A q \in DOMAIN todo[a] : todo[a][p].priority <= todo[a][q].priority
         /\ IF todo[a][p].valid
            THEN /\ programs' = [programs EXCEPT ![p] = todo[a][p]]
                 /\ Disturb(p, programs[p], todo[a][p])
                 /\ adding' = [adding EXCEPT ![a] = p]
                 /\ admin' = [admin EXCEPT ![a] = "policy"]
                 /\ UNCHANGED todo
            ELSE /\ todo' = [todo EXCEPT ![a] = NoRows]
                 /\ UNCHANGED <<programs, stable, adding, admin>>
    /\ UNCHANGED <<stored, policies, callerVars, edits>>

\* Mutant of AddProgram: a policy that does not compile is tried again.
AddRetriesMutant(a) ==
    /\ admin[a] = "load" /\ DOMAIN todo[a] # {}
    /\ \E p \in DOMAIN todo[a] :
         /\ \A q \in DOMAIN todo[a] : todo[a][p].priority <= todo[a][q].priority
         /\ IF todo[a][p].valid
            THEN /\ programs' = [programs EXCEPT ![p] = todo[a][p]]
                 /\ Disturb(p, programs[p], todo[a][p])
                 /\ adding' = [adding EXCEPT ![a] = p]
                 /\ admin' = [admin EXCEPT ![a] = "policy"]
                 /\ UNCHANGED todo
            ELSE UNCHANGED <<todo, programs, stable, adding, admin>>
    /\ UNCHANGED <<stored, policies, callerVars, edits>>

\* CELEngine.AddPolicy, up to the first map: rows come in order of priority,
\* and one that does not compile is logged and left out.
AddProgram(a) ==
    /\ admin[a] = "load" /\ DOMAIN todo[a] # {}
    /\ \E p \in DOMAIN todo[a] :
         /\ \A q \in DOMAIN todo[a] : todo[a][p].priority <= todo[a][q].priority
         /\ IF todo[a][p].valid
            THEN /\ programs' = [programs EXCEPT ![p] = todo[a][p]]
                 /\ Disturb(p, programs[p], todo[a][p])
                 /\ adding' = [adding EXCEPT ![a] = p]
                 /\ admin' = [admin EXCEPT ![a] = "policy"]
                 /\ UNCHANGED todo
            ELSE /\ todo' = [todo EXCEPT ![a] = Skip(a, p)]
                 /\ UNCHANGED <<programs, stable, adding, admin>>
    /\ UNCHANGED <<stored, policies, callerVars, edits>>

\* The second map.
AddPolicy(a) ==
    /\ admin[a] = "policy"
    /\ LET p == adding[a] IN
         /\ policies' = [policies EXCEPT ![p] = todo[a][p]]
         /\ Disturb(p, policies[p], todo[a][p])
         /\ todo' = [todo EXCEPT ![a] = Skip(a, p)]
    /\ adding' = [adding EXCEPT ![a] = None]
    /\ admin' = [admin EXCEPT ![a] = "load"]
    /\ UNCHANGED <<stored, programs, callerVars, edits>>

LoadEnd(a) ==
    /\ admin[a] = "load" /\ DOMAIN todo[a] = {}
    /\ admin' = [admin EXCEPT ![a] = "idle"]
    /\ UNCHANGED <<stored, engine, callerVars, todo, adding, stable, edits>>

EnableKillSwitch(scope) ==
    /\ switches' = switches \cup {scope}
    /\ UNCHANGED <<rows, engine, callerVars, adminVars, stable>>

DisableKillSwitch(scope) ==
    /\ switches' = switches \ {scope}
    /\ UNCHANGED <<rows, engine, callerVars, adminVars, stable>>
-----------------------------------------------------------------------------
(* A tool call: HandleToolCall and the switch on its decision.              *)

Goto(c, to) == pc' = [pc EXCEPT ![c] = to]
Answer(c, what) == Goto(c, "done") /\ outcome' = [outcome EXCEPT ![c] = what]

\* The profile is resolved; without the justification the backend asks for
\* the call is denied before any policy is read.
HandleToolCall(c, t, f, justified) ==
    /\ pc[c] = "idle"
    /\ tool' = [tool EXCEPT ![c] = t] /\ profile' = [profile EXCEPT ![c] = f]
    /\ IF justified THEN Goto(c, "scope") /\ UNCHANGED outcome ELSE Answer(c, "denied")
    /\ UNCHANGED <<stored, engine, decision, left, must, program, adminVars, stable>>

\* isKillSwitchActive is two queries.  When one finds an enabled row,
\* HandleToolCall drops the decision Evaluate returned and returns an error
\* with an empty one, which the handlers log before they call the backend.
KillSwitchScope(c) ==
    /\ pc[c] = "scope"
    /\ IF Backend \in switches THEN Answer(c, "forwarded")
       ELSE Goto(c, "global") /\ UNCHANGED outcome
    /\ UNCHANGED <<stored, engine, tool, profile, decision, left, must, program,
                   adminVars, stable>>

\* The range over programs begins: what it holds now will be visited, what
\* is added meanwhile may be.
KillSwitchGlobal(c) ==
    /\ pc[c] = "global"
    /\ IF "global" \in switches
       THEN Answer(c, "forwarded") /\ UNCHANGED <<left, must, stable>>
       ELSE /\ Goto(c, "evaluate") /\ UNCHANGED outcome
            /\ left' = [left EXCEPT ![c] = Policies]
            /\ must' = [must EXCEPT ![c] = {p \in Policies : programs[p] # None}]
            /\ stable' = [stable EXCEPT ![c] = {p \in Policies : /\ programs[p] # None
                                                                 /\ policies[p] = programs[p]}]
    /\ UNCHANGED <<stored, engine, tool, profile, decision, program, adminVars>>

\* One turn of the range over programs, in Go's random order.
EvaluateProgram(c, p) ==
    /\ pc[c] = "evaluate" /\ p \in left[c] /\ programs[p] # None
    /\ left' = [left EXCEPT ![c] = @ \ {p}]
    /\ IF tool[c] \in programs[p].match
       THEN Goto(c, "policy") /\ program' = [program EXCEPT ![c] = p]
       ELSE UNCHANGED <<pc, program>>
    /\ UNCHANGED <<stored, engine, tool, profile, decision, outcome, must, adminVars,
                   stable>>

ActionPriority(action) ==
    CASE action = "DENY" -> 5
      [] action \in {"PENDING_ADMIN_APPROVAL", "PENDING_APPROVAL"} -> 4
      [] action = "PENDING_USER_APPROVAL" -> 3
      [] action = "WARN" -> 2
      [] action = "ALLOW" -> 1
      [] OTHER -> 0

SeverityPriority(severity) ==
    CASE severity = "CRITICAL" -> 4
      [] severity = "HIGH" -> 3
      [] severity = "MEDIUM" -> 2
      [] severity = "LOW" -> 1
      [] OTHER -> 0

\* Mutant of ShouldUpdateDecision: severity is compared before the action.
ShouldUpdateMutant(current, new) ==
    \/ SeverityPriority(new.severity) > SeverityPriority(current.severity)
    \/ /\ SeverityPriority(new.severity) = SeverityPriority(current.severity)
       /\ ActionPriority(new.action) > ActionPriority(current.action)

ShouldUpdateDecision(current, new) ==
    \/ ActionPriority(new.action) > ActionPriority(current.action)
    \/ /\ ActionPriority(new.action) = ActionPriority(current.action)
       /\ \/ SeverityPriority(new.severity) > SeverityPriority(current.severity)
          \/ /\ SeverityPriority(new.severity) = SeverityPriority(current.severity)
             /\ new.priority > 0 /\ current.priority > 0
             /\ new.priority < current.priority

\* What a body decides; a policy that is not in the second map yet is Go's
\* zero value.
DecisionOf(b) ==
    IF b = None THEN NoDecision
    ELSE [action |-> b.action, severity |-> b.severity, priority |-> b.priority]

EvaluatePolicy(c) ==
    /\ pc[c] = "policy"
    /\ LET b == policies[program[c]]
           update == ShouldUpdateDecision(decision[c], DecisionOf(b))
       IN  /\ decision' = [decision EXCEPT ![c] = IF update THEN DecisionOf(b) ELSE @]
    /\ program' = [program EXCEPT ![c] = None]
    /\ Goto(c, "evaluate")
    /\ UNCHANGED <<stored, engine, tool, profile, outcome, left, must, adminVars, stable>>

EvaluateEnd(c) ==
    /\ pc[c] = "evaluate" /\ left[c] \cap must[c] = {}
    /\ Goto(c, "decide")
    /\ left' = [left EXCEPT ![c] = {}] /\ must' = [must EXCEPT ![c] = {}]
    /\ UNCHANGED <<stored, engine, tool, profile, decision, outcome, program, adminVars,
                   stable>>

\* No policy matched: deny unless permitted by the source of the profile.
Permitted(action, f) ==
    IF action # "" THEN action
    ELSE IF f.source = "inferred" THEN "PENDING_ADMIN_APPROVAL" ELSE "ALLOW"

\* An override may ask for approval of what the policies let through.
Tightened(action, f) ==
    IF action \in {"WARN", "ALLOW"} /\ f.requiresHITL /\ f.source \in {"override", "user_override"}
    THEN "PENDING_USER_APPROVAL" ELSE action

\* Only an allowed call consumes from the buckets, and may find them empty.
Limited(action, room) == IF action = "ALLOW" /\ ~room THEN "DENY" ELSE action

\* The switch in the handlers; creating the approval request may fail.
Outcomes(action) ==
    CASE action = "DENY" -> {"denied"}
      [] action \in {"PENDING_ADMIN_APPROVAL", "PENDING_APPROVAL"} -> {"admin", "failed"}
      [] action = "PENDING_USER_APPROVAL" -> {"user", "failed"}
      [] OTHER -> {"forwarded"}

Decide(c, room) ==
    /\ pc[c] = "decide"
    /\ LET action == Limited(Tightened(Permitted(decision[c].action, profile[c]), profile[c]), room)
       IN  \E what \in Outcomes(action) : Answer(c, what)
    /\ UNCHANGED <<stored, engine, tool, profile, decision, left, must, program,
                   adminVars, stable>>

\* The answer is sent; nothing of the call is kept.
Return(c) ==
    /\ pc[c] = "done"
    /\ Goto(c, "idle")
    /\ tool' = [tool EXCEPT ![c] = AnyTool] /\ profile' = [profile EXCEPT ![c] = AnyProfile]
    /\ decision' = [decision EXCEPT ![c] = NoDecision]
    /\ outcome' = [outcome EXCEPT ![c] = "none"]
    /\ stable' = [stable EXCEPT ![c] = {}]
    /\ UNCHANGED <<stored, engine, left, must, program, adminVars>>
-----------------------------------------------------------------------------
\* The bridge stops anywhere and starts again from the table.
Restart ==
    /\ programs' = Loaded /\ policies' = Loaded
    /\ pc' = [c \in Callers |-> "idle"]
    /\ tool' = [c \in Callers |-> AnyTool] /\ profile' = [c \in Callers |-> AnyProfile]
    /\ decision' = [c \in Callers |-> NoDecision]
    /\ outcome' = [c \in Callers |-> "none"]
    /\ left' = [c \in Callers |-> {}] /\ must' = [c \in Callers |-> {}]
    /\ program' = [c \in Callers |-> None]
    /\ todo' = [a \in Admins |-> NoRows] /\ adding' = [a \in Admins |-> None]
    /\ admin' = [a \in Admins |-> "idle"]
    /\ stable' = [c \in Callers |-> {}]
    /\ UNCHANGED <<stored, edits>>

Edit(a) ==
    \E p \in Policies :
        \/ \E b \in Bodies : CreatePolicy(a, p, b) \/ UpdatePolicy(a, p, b)
        \/ DeletePolicy(a, p)

Load(a) == ListPolicies(a) \/ AddProgram(a) \/ AddPolicy(a) \/ LoadEnd(a)

CallStep(c) ==
    \/ KillSwitchScope(c) \/ KillSwitchGlobal(c)
    \/ \E p \in Policies : EvaluateProgram(c, p)
    \/ EvaluatePolicy(c) \/ EvaluateEnd(c)
    \/ \E room \in BOOLEAN : Decide(c, room)

Next ==
    \/ \E a \in Admins : Edit(a) \/ Load(a)
    \/ \E scope \in Scopes : EnableKillSwitch(scope) \/ DisableKillSwitch(scope)
    \/ \E c \in Callers :
         \/ \E t \in Tools, f \in Profiles, j \in BOOLEAN : HandleToolCall(c, t, f, j)
         \/ CallStep(c) \/ Return(c)
    \/ Restart

Spec == Init /\ [][Next]_vars

\* A handler of the web interface that has written the row runs on to the
\* end of its reload.
FairSpec == Spec /\ \A a \in Admins : WF_vars(Load(a))
-----------------------------------------------------------------------------
(* Properties                                                               *)

\* What a policy with this action forbids the handler to do.
Respects(what, action) ==
    /\ ActionPriority(action) = 5 => what = "denied"
    /\ ActionPriority(action) = 4 => what \in {"denied", "admin", "failed"}
    /\ ActionPriority(action) = 3 => what \in {"denied", "admin", "user", "failed"}

\* In whatever order the policies are visited, and whatever is reloaded
\* meanwhile, a call is treated at least as strictly as every matching policy
\* asks that was in the engine, unchanged, while it was evaluated
\* (CELEngine.Evaluate, shouldUpdateDecision, HandleToolCall's gates).  A call
\* that meets a kill switch is not evaluated and not covered.
MostRestrictiveWins ==
    \A c \in Callers : pc[c] = "done" =>
        \A p \in stable[c] :
            tool[c] \in programs[p].match => Respects(outcome[c], policies[p].action)

\* With no reload under way the engine applies some version of every enabled
\* row that compiles, however the edits and reloads of several administrators
\* overlapped and wherever the bridge stopped: no policy is simply missing
\* (AddPolicy, UpdatePolicy, DeletePolicy, loadPolicies).  Which version it is
\* depends on whose reload wrote last.
NoPolicyIsMissing ==
    (\A a \in Admins : admin[a] = "idle") =>
        \A p \in Policies : Loadable(rows[p]) => programs[p] # None /\ policies[p] # None

\* With one administrator at work, an enabled row that compiles reaches the
\* engine unless it is edited again first, although another row does not
\* compile and even when the bridge stops in the middle of the reload.
EditTakesEffect ==
    \A p \in Policies, b \in Bodies :
        (Loadable(b) /\ rows[p] = b) ~> (rows[p] # b \/ (programs[p] = b /\ policies[p] = b))
=============================================================================
