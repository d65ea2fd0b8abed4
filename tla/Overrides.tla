------------------------------ MODULE Overrides ------------------------------
(***************************************************************************)
(* Safety profile overrides (enforcer/resolver.go, scan.go,                *)
(* web/enforcer_handlers.go): the table enforcer_overrides, the resolver's *)
(* map that is filled from it in the background of every start, and the    *)
(* four tiers a call looks through.                                        *)
(*                                                                         *)
(* One tool of one backend.  A call names it with the backend's prefix on  *)
(* the /mcp route and without it on /mcp/v2; both table and map are keyed  *)
(* by the name as given.  An administrator may type either; the handler    *)
(* for users strips the prefix.  The table has one row per name, whoever   *)
(* wrote it.  A call holds the resolver's read lock to its end; writers of *)
(* the map wait for it.  Each SQL statement is one step.                   *)
(***************************************************************************)
EXTENDS Naturals

CONSTANTS
    Admins,       \* sessions of administrators
    Callers,      \* tool calls
    Users,
    Admin,        \* stands for user_id NULL
    Values,       \* what an override says
    Incomplete,   \* the values whose risk or impact is empty
    None,
    MaxEdits, MaxRestarts  \* bounds

Names == {"plain", "prefixed"}

ASSUME AuthorsAssumption == Users \cap {Admin, "backend", "pattern"} = {}
ASSUME ValuesAssumption == Incomplete \subseteq Values
ASSUME BoundsAssumption == MaxEdits \in Nat /\ MaxRestarts \in Nat

Override == [by : Users \cup {Admin}, value : Values]
Edit == [name : Names, row : Override \cup {None}]

ASSUME NoneAssumption == None \notin Override \cup Edit

VARIABLES
    rows,         \* enforcer_overrides: by is the column user_id
    overrides,    \* MetadataResolver.overrides
    scanned,      \* enforcer_tool_profiles has the tool's row
    loader, listed,   \* loadOverridesIntoResolver: counter, rows yet to register
    admin, edited,    \* of each administrator: counter, name and row written
    pc, user, name, result,  \* of each call; result says whose profile applies
    edits, restarts,
    tainted       \* ghost: names written in the table out of step with the map

adminVars == <<admin, edited, edits>>
callVars == <<pc, user, name, result>>
startVars == <<loader, listed, restarts>>
vars == <<rows, overrides, scanned, startVars, adminVars, callVars, tainted>>

Maybe(S) == S \cup {None}
Nothing == [n \in Names |-> None]

TypeOK ==
    /\ rows \in [Names -> Maybe(Override)] /\ overrides \in [Names -> Maybe(Override)]
    /\ scanned \in BOOLEAN
    /\ loader \in {"list", "load", "off"} /\ listed \in [Names -> Maybe(Override)]
    /\ admin \in [Admins -> {"idle", "register", "remove"}]
    /\ edited \in [Admins -> Maybe(Edit)]
    /\ \A a \in Admins : admin[a] # "idle" <=> edited[a] # None
    /\ \A a \in Admins : admin[a] = "register" => edited[a].row # None
    /\ pc \in [Callers -> {"idle", "personal", "stored", "done"}]
    /\ user \in [Callers -> Maybe(Users)] /\ name \in [Callers -> Names]
    /\ result \in [Callers -> Maybe(Users \cup {Admin, "backend", "pattern"})]
    /\ edits \in 0..MaxEdits /\ restarts \in 0..MaxRestarts
    /\ tainted \in SUBSET Names

\* The first start, on an empty database.
Init ==
    /\ rows = Nothing /\ overrides = Nothing /\ scanned = FALSE
    /\ loader = "list" /\ listed = Nothing
    /\ admin = [a \in Admins |-> "idle"] /\ edited = [a \in Admins |-> None]
    /\ pc = [c \in Callers |-> "idle"] /\ user = [c \in Callers |-> None]
    /\ name = [c \in Callers |-> "plain"] /\ result = [c \in Callers |-> None]
    /\ edits = 0 /\ restarts = 0
    /\ tainted = {}
-----------------------------------------------------------------------------
(* Handlers that edit overrides.                                           *)

\* Somebody has read or written the row of n and will still write the map.
Busy(n) ==
    \/ \E a \in Admins : admin[a] # "idle" /\ edited[a].name = n
    \/ listed[n] # None

Taint(n) == tainted' = IF Busy(n) THEN tainted \cup {n} ELSE tainted

StartEdit(a, n, r, next) ==
    /\ admin[a] = "idle" /\ edits < MaxEdits
    /\ edits' = edits + 1
    /\ rows' = [rows EXCEPT ![n] = r]
    /\ admin' = [admin EXCEPT ![a] = next]
    /\ edited' = [edited EXCEPT ![a] = [name |-> n, row |-> r]]
    /\ Taint(n)
    /\ UNCHANGED <<overrides, scanned, startVars, callVars>>

EndEdit(a) ==
    /\ admin' = [admin EXCEPT ![a] = "idle"] /\ edited' = [edited EXCEPT ![a] = None]
    /\ UNCHANGED edits

\* OverrideCreateHandler up to its upsert, which replaces any row of the name.
OverrideCreate(a, n, v) == StartEdit(a, n, [by |-> Admin, value |-> v], "register")

\* OverrideDeleteHandler up to its delete, which asks for no owner.
OverrideDelete(a, n) == StartEdit(a, n, None, "remove")

\* No call is inside the resolver.
Unread == \A c \in Callers : pc[c] \notin {"personal", "stored"}

Complete(r) == r # None /\ r.value \notin Incomplete

\* Mutant: the map is written without the lock.
RegisterOverrideMutant(n, r) ==
    overrides' = IF Complete(r) THEN [overrides EXCEPT ![n] = r] ELSE overrides

\* The write lock; an override without risk or impact is refused.
RegisterOverride(n, r) ==
    /\ Unread
    /\ overrides' = IF Complete(r) THEN [overrides EXCEPT ![n] = r] ELSE overrides

\* The handlers go on to the map and do not look at its answer.
OverrideRegister(a) ==
    /\ admin[a] = "register"
    /\ RegisterOverride(edited[a].name, edited[a].row)
    /\ EndEdit(a)
    /\ UNCHANGED <<rows, scanned, startVars, callVars, tainted>>

\* Mutant: the map is forgotten.
OverrideRemoveMutant(a) ==
    /\ admin[a] = "remove" /\ Unread
    /\ EndEdit(a)
    /\ UNCHANGED <<rows, overrides, scanned, startVars, callVars, tainted>>

OverrideRemove(a) ==
    /\ admin[a] = "remove" /\ Unread
    /\ overrides' = [overrides EXCEPT ![edited[a].name] = None]
    /\ EndEdit(a)
    /\ UNCHANGED <<rows, scanned, startVars, callVars, tainted>>

\* UserOverrideCreateHandler: the same upsert, under the stripped name, so that
\* it may take over an administrator's row; the map is not touched.
UserOverrideCreate(u, v) ==
    /\ edits < MaxEdits
    /\ edits' = edits + 1
    /\ rows' = [rows EXCEPT !["plain"] = [by |-> u, value |-> v]]
    /\ tainted' = tainted \cup {"plain"}
    /\ UNCHANGED <<overrides, scanned, startVars, admin, edited, callVars>>

\* UserOverrideDeleteHandler deletes the row if it is the user's.
UserOverrideDelete(u, n) ==
    /\ edits < MaxEdits
    /\ rows[n] # None /\ rows[n].by = u
    /\ edits' = edits + 1
    /\ rows' = [rows EXCEPT ![n] = None]
    /\ tainted' = tainted \cup {n}
    /\ UNCHANGED <<overrides, scanned, startVars, admin, edited, callVars>>
-----------------------------------------------------------------------------
(* What a start of the bridge leaves running in the background.            *)

\* ListOverrides: every row, whoever it belongs to.
LoadList ==
    /\ loader = "list"
    /\ loader' = "load" /\ listed' = rows
    /\ UNCHANGED <<rows, overrides, scanned, restarts, adminVars, callVars, tainted>>

\* ListOverrides fails: nothing is loaded until the next start.
LoadFails ==
    /\ loader = "list"
    /\ loader' = "off"
    /\ tainted' = tainted \cup {n \in Names : rows[n] # None}
    /\ UNCHANGED <<rows, overrides, scanned, listed, restarts, adminVars, callVars>>

\* Mutant: the load stays at a row that is refused.
LoadNextMutant(n) ==
    /\ loader = "load" /\ listed[n] # None
    /\ \A m \in Names : listed[m] = None \/ Complete(listed[m])
    /\ RegisterOverride(n, listed[n])
    /\ listed' = [listed EXCEPT ![n] = None]
    /\ UNCHANGED <<rows, scanned, loader, restarts, adminVars, callVars, tainted>>

\* One row after the other, the tool names decide the order; a row that is
\* refused is logged and passed over.
LoadNext(n) ==
    /\ loader = "load" /\ listed[n] # None
    /\ RegisterOverride(n, listed[n])
    /\ listed' = [listed EXCEPT ![n] = None]
    /\ UNCHANGED <<rows, scanned, loader, restarts, adminVars, callVars, tainted>>

LoadEnd ==
    /\ loader = "load" /\ listed = Nothing
    /\ loader' = "off"
    /\ UNCHANGED <<rows, overrides, scanned, listed, restarts, adminVars, callVars, tainted>>

\* The scan of the backends that report their own profiles: the backend answers
\* and its tools are stored.  A scan that fails leaves the table as it is.
Scan ==
    /\ ~scanned
    /\ scanned' = TRUE
    /\ UNCHANGED <<rows, overrides, loader, listed, restarts, adminVars, callVars, tainted>>

\* The bridge stops and starts: handlers and calls are gone, tables are kept.
Restart ==
    /\ restarts < MaxRestarts
    /\ restarts' = restarts + 1
    /\ overrides' = Nothing
    /\ loader' = "list" /\ listed' = Nothing
    /\ admin' = [a \in Admins |-> "idle"]
    /\ pc' = [c \in Callers |-> "idle"]
    /\ tainted' = {}
    /\ edited' = [a \in Admins |-> None]
    /\ user' = [c \in Callers |-> None] /\ name' = [c \in Callers |-> "plain"]
    /\ result' = [c \in Callers |-> None]
    /\ UNCHANGED <<rows, scanned, edits>>
-----------------------------------------------------------------------------
(* ResolveForUser.                                                         *)

Resolved(c, who) ==
    /\ pc' = [pc EXCEPT ![c] = "done"]
    /\ result' = [result EXCEPT ![c] = who]

\* The read lock, and the first tier: the map.
Resolve(c, u, n) ==
    /\ pc[c] = "idle"
    /\ user' = [user EXCEPT ![c] = u] /\ name' = [name EXCEPT ![c] = n]
    /\ IF overrides[n] # None
       THEN Resolved(c, overrides[n].by)
       ELSE pc' = [pc EXCEPT ![c] = "personal"] /\ UNCHANGED result
    /\ UNCHANGED <<rows, overrides, scanned, startVars, adminVars, tainted>>

\* ListUserOverrides: the rows of this user.
ResolvePersonal(c) ==
    /\ pc[c] = "personal"
    /\ IF rows[name[c]] # None /\ rows[name[c]].by = user[c]
       THEN Resolved(c, user[c])
       ELSE pc' = [pc EXCEPT ![c] = "stored"] /\ UNCHANGED result
    /\ UNCHANGED <<rows, overrides, scanned, startVars, adminVars, user, name, tainted>>

\* The profile the backend reported, under the stripped name, or patterns.
ResolveStored(c) ==
    /\ pc[c] = "stored"
    /\ Resolved(c, IF scanned THEN "backend" ELSE "pattern")
    /\ UNCHANGED <<rows, overrides, scanned, startVars, adminVars, user, name, tainted>>

Return(c) ==
    /\ pc[c] = "done"
    /\ pc' = [pc EXCEPT ![c] = "idle"] /\ user' = [user EXCEPT ![c] = None]
    /\ name' = [name EXCEPT ![c] = "plain"] /\ result' = [result EXCEPT ![c] = None]
    /\ UNCHANGED <<rows, overrides, scanned, startVars, adminVars, tainted>>

AdminStep(a) == OverrideRegister(a) \/ OverrideRemove(a)
LoadStep == LoadList \/ LoadFails \/ (\E n \in Names : LoadNext(n)) \/ LoadEnd
CallStep(c) == ResolvePersonal(c) \/ ResolveStored(c)

Next ==
    \/ \E a \in Admins :
         \/ \E n \in Names : OverrideDelete(a, n) \/ \E v \in Values : OverrideCreate(a, n, v)
         \/ AdminStep(a)
    \/ \E u \in Users :
         \/ \E v \in Values : UserOverrideCreate(u, v)
         \/ \E n \in Names : UserOverrideDelete(u, n)
    \/ LoadStep \/ Scan \/ Restart
    \/ \E c \in Callers :
         \/ \E u \in Users, n \in Names : Resolve(c, u, n)
         \/ CallStep(c) \/ Return(c)

Spec == Init /\ [][Next]_vars

\* Goroutines and handlers run; a writer that waits for the resolver's lock gets
\* it although calls keep coming, as Go's RWMutex promises.
FairSpec ==
    /\ Spec
    /\ SF_vars(LoadStep)
    /\ \A a \in Admins : SF_vars(AdminStep(a))
    /\ \A c \in Callers : WF_vars(CallStep(c))
-----------------------------------------------------------------------------
(* Properties.                                                             *)

\* Once the start-up load is over and nobody is between the table and the map,
\* the map says of a name what the table says, also when the bridge stopped
\* between the two writes: unless, since the last start, a user wrote the row, it
\* was written while another writer of the map was still at work with it, or the
\* load could not list the table.
MapFollowsTable ==
    loader = "off" =>
        \A n \in Names \ tainted :
            ~Busy(n) /\ (rows[n] = None \/ Complete(rows[n])) => overrides[n] = rows[n]

\* While a call looks for a profile below the first tier, and when it has found
\* one there, no override of its name has come into force behind its back:
\* RegisterOverride and RemoveOverride wait for the calls inside ResolveForUser.
NoOverridePassedOver ==
    \A c \in Callers : pc[c] \in {"personal", "stored"} => overrides[name[c]] = None

\* A complete override that an administrator has stored comes into force as it is,
\* whether its handler ends or the bridge stops first, unless the row is replaced
\* or deleted, was written while another writer of the map was still at work with
\* it, or could not be listed by the load.
StoredComesIntoForce ==
    \A n \in Names, v \in Values \ Incomplete :
        LET stored == [by |-> Admin, value |-> v]
        IN  rows[n] = stored ~> (overrides[n] = stored \/ n \in tainted \/ rows[n] # stored)
=============================================================================
