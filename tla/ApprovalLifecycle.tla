------------------------- MODULE ApprovalLifecycle -------------------------
(***************************************************************************)
(* What the approval queue promises of a request.  It waits for a decision *)
(* once; it runs at most once for every time it was granted; a result is   *)
(* shown only of a granted request, a success only of one that ran; only a *)
(* waiting request expires; only a decided one is purged, and for good.    *)
(* Decisions are not final: another may follow until the row is purged.    *)
(***************************************************************************)
EXTENDS Naturals

CONSTANT Approvals

VARIABLES
    phase,   \* where each request is in its life
    grants,  \* how often it was granted
    runs     \* how often its tool call reached the backend

avars == <<phase, grants, runs>>

Phases == {"absent", "waiting", "granted", "refused", "expired", "completed", "failed", "purged"}
Stored == Phases \ {"absent", "purged"}
Decided == {"refused", "expired", "completed", "failed"}

LifeInit ==
    /\ phase = [a \in Approvals |-> "absent"]
    /\ grants = [a \in Approvals |-> 0]
    /\ runs = [a \in Approvals |-> 0]

Move(a, from, to) ==
    /\ phase[a] \in from
    /\ phase' = [phase EXCEPT ![a] = to]
    /\ UNCHANGED <<grants, runs>>

\* Somebody grants the request; on a purged one this has no effect.
Grant(a) ==
    /\ phase[a] # "absent"
    /\ phase' = [phase EXCEPT ![a] = IF @ = "purged" THEN @ ELSE "granted"]
    /\ grants' = [grants EXCEPT ![a] = @ + 1]
    /\ UNCHANGED runs

\* The tool call of a granted request reaches the backend.
Run(a) ==
    /\ runs[a] < grants[a]
    /\ runs' = [runs EXCEPT ![a] = @ + 1]
    /\ UNCHANGED <<phase, grants>>

\* Several waiting requests may expire, and several decided ones be purged, in
\* one statement.
ExpireSome ==
    /\ \E A \in SUBSET {a \in Approvals : phase[a] = "waiting"} :
          phase' = [a \in Approvals |-> IF a \in A THEN "expired" ELSE phase[a]]
    /\ UNCHANGED <<grants, runs>>

PurgeSome ==
    /\ \E A \in SUBSET {a \in Approvals : phase[a] \in Decided} :
          phase' = [a \in Approvals |-> IF a \in A THEN "purged" ELSE phase[a]]
    /\ UNCHANGED <<grants, runs>>

LifeNext ==
    \/ \E a \in Approvals :
          \/ Move(a, {"absent"}, "waiting")
          \/ Grant(a) \/ Run(a)
          \/ Move(a, Stored, "refused")
          \/ grants[a] > 0 /\ (Move(a, Stored, "granted") \/ Move(a, Stored, "failed"))
          \/ runs[a] > 0 /\ Move(a, Stored, "completed")
    \/ ExpireSome \/ PurgeSome

LifeSpec == LifeInit /\ [][LifeNext]_avars
=============================================================================
