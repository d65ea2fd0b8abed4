------------------------------ MODULE Approval ------------------------------
(***************************************************************************)
(* Human-in-the-loop approvals: the rows of enforcer_approvals, the web    *)
(* handlers that approve (and execute) or deny a request, the cleanup loop *)
(* and restarts of the bridge.                                             *)
(*                                                                         *)
(* A decider is a web request handler.  It starts from a queue page that   *)
(* showed the request as PENDING; by the time the button is pressed the    *)
(* row may have changed.  Each SQL statement is one step and may fail; a   *)
(* restart loses the handlers and keeps the rows.  The executor writes to  *)
(* the process and returns it to Warm without a deadline: it may never     *)
(* return, or panic on a Warm that was closed.                             *)
(***************************************************************************)
EXTENDS Integers, FiniteSets

CONSTANTS
    Approvals,            \* approval ids
    Deciders,             \* web handlers
    NoApproval,
    UserApprovalTimeout,  \* configured timeouts in ticks, 0 for unset
    AdminApprovalTimeout,
    ApprovalTimeout,
    DefaultUserTimeout,   \* the 10 minutes used when the user timeout is unset
    RetentionPeriod,      \* 0 keeps rows for ever
    HasExecutor,          \* an executor was set (it is, once main has started)
    MaxTime, MaxRestarts  \* bounds

ASSUME TimeoutsAssumption ==
    /\ UserApprovalTimeout \in Nat /\ AdminApprovalTimeout \in Nat
    /\ ApprovalTimeout \in Nat /\ DefaultUserTimeout \in Nat /\ RetentionPeriod \in Nat
ASSUME EnvironmentAssumption ==
    /\ NoApproval \notin Approvals /\ IsFiniteSet(Deciders)
    /\ HasExecutor \in BOOLEAN /\ MaxTime \in Nat /\ MaxRestarts \in Nat

VARIABLES
    status,       \* enforcer_approvals.status, "absent" before and "deleted" after
    queueType,    \* "user" or "admin"
    requestedAt, expiresAt,
    now,
    dpc,          \* program counter of each decider
    target,       \* the approval it works on
    result,       \* what its execution returned
    cleaner,      \* cleanupLoop: "expire" or "purge"
    executions,   \* how often the tool call of a request reached the backend
    grants,       \* how often a request was approved
    lost,         \* requests whose handler ended without recording the result
    restarts

queueVars == <<status, queueType, requestedAt, expiresAt, now, dpc, target, result,
               cleaner, executions, grants, lost, restarts>>

rowTimes == <<queueType, requestedAt, expiresAt>>
deciderVars == <<dpc, target, result>>

Statuses == {"absent", "PENDING", "APPROVED", "EXECUTING", "COMPLETED", "FAILED",
             "DENIED", "EXPIRED", "deleted"}

QueueTypeOK ==
    /\ status \in [Approvals -> Statuses]
    /\ queueType \in [Approvals -> {"user", "admin"}]
    /\ requestedAt \in [Approvals -> Nat] /\ expiresAt \in [Approvals -> Nat]
    /\ now \in 0..MaxTime
    /\ dpc \in [Deciders -> {"idle", "page", "fetch", "mark", "execute", "reached", "record"}]
    /\ target \in [Deciders -> Approvals \cup {NoApproval}]
    /\ result \in [Deciders -> {"none", "ok", "error"}]
    /\ cleaner \in {"expire", "purge"}
    /\ executions \in [Approvals -> Nat] /\ grants \in [Approvals -> Nat]
    /\ lost \subseteq Approvals /\ restarts \in 0..MaxRestarts

QueueInit ==
    /\ status = [a \in Approvals |-> "absent"]
    /\ queueType \in [Approvals -> {"user", "admin"}]
    /\ requestedAt = [a \in Approvals |-> 0] /\ expiresAt = [a \in Approvals |-> 0]
    /\ now = 0
    /\ dpc = [d \in Deciders |-> "idle"]
    /\ target = [d \in Deciders |-> NoApproval]
    /\ result = [d \in Deciders |-> "none"]
    /\ cleaner = "expire"
    /\ executions = [a \in Approvals |-> 0] /\ grants = [a \in Approvals |-> 0]
    /\ lost = {} /\ restarts = 0

Exists(a) == status[a] \notin {"absent", "deleted"}

\* UPDATE ... SET status = new WHERE id = a: no row, no effect, no error.
Update(a, new) ==
    status' = IF Exists(a) THEN [status EXCEPT ![a] = new] ELSE status

\* RequestApproval: an unset admin timeout falls back to ApprovalTimeout.
TimeoutFor(queue) ==
    IF queue = "user"
    THEN IF UserApprovalTimeout = 0 THEN DefaultUserTimeout ELSE UserApprovalTimeout
    ELSE IF AdminApprovalTimeout = 0 THEN ApprovalTimeout ELSE AdminApprovalTimeout

RequestApproval(a) ==
    /\ status[a] = "absent"
    /\ status' = [status EXCEPT ![a] = "PENDING"]
    /\ requestedAt' = [requestedAt EXCEPT ![a] = now]
    /\ expiresAt' = [expiresAt EXCEPT ![a] = now + TimeoutFor(queueType[a])]
    /\ UNCHANGED <<queueType, now, deciderVars, cleaner, executions, grants, lost, restarts>>

(***************************************************************************)
(* Deciders.                                                               *)
(***************************************************************************)

Advance(d, pc) == dpc' = [dpc EXCEPT ![d] = pc]

\* The handler is done with its request.
Finish(d) ==
    /\ dpc' = [dpc EXCEPT ![d] = "idle"]
    /\ target' = [target EXCEPT ![d] = NoApproval]
    /\ result' = [result EXCEPT ![d] = "none"]

\* A queue page lists the request as PENDING.
OpenPage(d, a) ==
    /\ dpc[d] = "idle" /\ status[a] = "PENDING"
    /\ Advance(d, "page")
    /\ target' = [target EXCEPT ![d] = a]
    /\ UNCHANGED <<status, rowTimes, now, result, cleaner, executions, grants, lost, restarts>>

ClosePage(d) ==
    /\ dpc[d] = "page"
    /\ Finish(d)
    /\ UNCHANGED <<status, rowTimes, now, cleaner, executions, grants, lost, restarts>>

\* ApproveRequest, UserApproveRequest and PoliciesCreateHandler call
\* ExecuteApprovedRequest, whose first statement sets APPROVED whatever the
\* status was.  When the statement fails the page is closed.
ApproveRequest(d) ==
    /\ dpc[d] = "page"
    /\ Update(target[d], "APPROVED")
    /\ grants' = [grants EXCEPT ![target[d]] = @ + 1]
    /\ Advance(d, "fetch")
    /\ UNCHANGED <<rowTimes, now, target, result, cleaner, executions, lost, restarts>>

\* GetApprovalRequest fails, also when the row is gone; without an executor the
\* approved row is returned as it is.
GetApprovalRequest(d) ==
    /\ dpc[d] = "fetch"
    /\ \/ Exists(target[d]) /\ HasExecutor /\ Advance(d, "mark") /\ UNCHANGED <<target, result>>
       \/ Finish(d)
    /\ UNCHANGED <<status, rowTimes, now, cleaner, executions, grants, lost, restarts>>

\* When MarkExecuting fails the handler returns.
MarkExecuting(d) ==
    /\ dpc[d] = "mark"
    /\ \/ /\ Update(target[d], "EXECUTING")
          /\ Advance(d, "execute") /\ UNCHANGED <<target, result>>
       \/ Finish(d) /\ UNCHANGED status
    /\ UNCHANGED <<rowTimes, now, cleaner, executions, grants, lost, restarts>>

\* executeWithProcess: the line written to the process reaches it.
StdinWrite(d) ==
    /\ dpc[d] = "execute"
    /\ executions' = [executions EXCEPT ![target[d]] = @ + 1]
    /\ Advance(d, "reached")
    /\ UNCHANGED <<status, rowTimes, now, target, result, cleaner, grants, lost, restarts>>

\* ExecuteRequest returns, with an error from before the call (no pool, no warm
\* process) or after it (error response, no response), or with the answer.
ExecuteRequest(d, outcome) ==
    /\ dpc[d] \in {"execute", "reached"}
    /\ outcome = "ok" => dpc[d] = "reached"
    /\ result' = [result EXCEPT ![d] = outcome]
    /\ Advance(d, "record")
    /\ UNCHANGED <<status, rowTimes, now, target, cleaner, executions, grants, lost, restarts>>

\* The process is sent to a Warm that Shutdown has closed: the handler ends.
SendPanics(d) ==
    /\ dpc[d] \in {"execute", "reached"}
    /\ lost' = lost \cup {target[d]}
    /\ Finish(d)
    /\ UNCHANGED <<status, rowTimes, now, cleaner, executions, grants, restarts>>

\* Mutant: a failed execution is tried again.
RecordRetryMutant(d) ==
    /\ dpc[d] = "record"
    /\ IF result[d] = "ok"
       THEN Update(target[d], "COMPLETED") /\ Finish(d)
       ELSE Advance(d, "execute") /\ UNCHANGED <<status, target, result>>
    /\ UNCHANGED <<rowTimes, now, cleaner, executions, grants, lost, restarts>>

\* Mutant: an error returns early, before MarkFailed.
RecordEarlyReturnMutant(d) ==
    /\ dpc[d] = "record"
    /\ IF result[d] = "ok" THEN Update(target[d], "COMPLETED") ELSE UNCHANGED status
    /\ Finish(d)
    /\ UNCHANGED <<rowTimes, now, cleaner, executions, grants, lost, restarts>>

\* MarkCompleted or MarkFailed, which may fail.
RecordResult(d) ==
    /\ dpc[d] = "record"
    /\ \/ /\ Update(target[d], IF result[d] = "ok" THEN "COMPLETED" ELSE "FAILED")
          /\ UNCHANGED lost
       \/ lost' = lost \cup {target[d]} /\ UNCHANGED status
    /\ Finish(d)
    /\ UNCHANGED <<rowTimes, now, cleaner, executions, grants, restarts>>

\* DenyRequest and UserDenyRequest: one statement, whatever the status was.
DenyRequest(d) ==
    /\ dpc[d] = "page"
    /\ Update(target[d], "DENIED")
    /\ Finish(d)
    /\ UNCHANGED <<rowTimes, now, cleaner, executions, grants, lost, restarts>>

(***************************************************************************)
(* cleanupLoop, time and restarts.                                         *)
(***************************************************************************)

\* Mutant: the statement has no condition on the status.
CleanupExpiredMutant ==
    /\ cleaner = "expire" /\ cleaner' = "purge"
    /\ status' = [a \in Approvals |->
                     IF Exists(a) /\ expiresAt[a] < now THEN "EXPIRED" ELSE status[a]]
    /\ UNCHANGED <<rowTimes, now, deciderVars, executions, grants, lost, restarts>>

\* Mutant: the comparison is the wrong way round.
CleanupReversedMutant ==
    /\ cleaner = "expire" /\ cleaner' = "purge"
    /\ status' = [a \in Approvals |->
                     IF status[a] = "PENDING" /\ expiresAt[a] > now
                     THEN "EXPIRED" ELSE status[a]]
    /\ UNCHANGED <<rowTimes, now, deciderVars, executions, grants, lost, restarts>>

CleanupExpiredApprovals ==
    /\ cleaner = "expire" /\ cleaner' = "purge"
    /\ status' = [a \in Approvals |->
                     IF status[a] = "PENDING" /\ expiresAt[a] < now
                     THEN "EXPIRED" ELSE status[a]]
    /\ UNCHANGED <<rowTimes, now, deciderVars, executions, grants, lost, restarts>>

CleanupOldApprovals ==
    /\ cleaner = "purge" /\ cleaner' = "expire"
    /\ status' = [a \in Approvals |->
                     IF /\ RetentionPeriod > 0
                        /\ status[a] \in {"COMPLETED", "DENIED", "EXPIRED", "FAILED"}
                        /\ requestedAt[a] + RetentionPeriod < now
                     THEN "deleted" ELSE status[a]]
    /\ UNCHANGED <<rowTimes, now, deciderVars, executions, grants, lost, restarts>>

Tick ==
    /\ now < MaxTime /\ now' = now + 1
    /\ UNCHANGED <<status, rowTimes, deciderVars, cleaner, executions, grants, lost, restarts>>

\* The bridge stops and starts again: handlers are gone, rows stay.
QueueRestart ==
    /\ restarts < MaxRestarts /\ restarts' = restarts + 1
    /\ dpc' = [d \in Deciders |-> "idle"]
    /\ target' = [d \in Deciders |-> NoApproval]
    /\ result' = [d \in Deciders |-> "none"]
    /\ cleaner' = "expire"
    /\ lost' = lost \cup {target[d] : d \in {e \in Deciders : dpc[e] \notin {"idle", "page"}}}
    /\ UNCHANGED <<status, rowTimes, now, executions, grants>>

\* The statements of ExecuteApprovedRequest after the decision, and the executor.
StatementStep(d) == GetApprovalRequest(d) \/ MarkExecuting(d) \/ RecordResult(d)
ExecutorStep(d) ==
    \/ StdinWrite(d) \/ SendPanics(d)
    \/ \E outcome \in {"ok", "error"} : ExecuteRequest(d, outcome)

QueueNext ==
    \/ \E a \in Approvals : RequestApproval(a)
    \/ \E d \in Deciders :
          \/ \E a \in Approvals : OpenPage(d, a)
          \/ ClosePage(d) \/ ApproveRequest(d) \/ DenyRequest(d)
          \/ StatementStep(d) \/ ExecutorStep(d)
    \/ CleanupExpiredApprovals \/ CleanupOldApprovals \/ Tick \/ QueueRestart

QueueSpec == QueueInit /\ [][QueueNext]_queueVars

\* Statements return, the cleanup ticker keeps firing, time passes.  Nobody is
\* obliged to decide, and nothing is assumed of the executor.
FairQueueSpec ==
    /\ QueueSpec
    /\ \A d \in Deciders : WF_queueVars(StatementStep(d))
    /\ WF_queueVars(CleanupExpiredApprovals) /\ WF_queueVars(CleanupOldApprovals)
    /\ WF_queueVars(Tick)

(***************************************************************************)
(* Properties.                                                             *)
(***************************************************************************)

\* Every tool call that reaches the backend was asked for by one press of an
\* approve button: no retry, restart or cleanup runs a request again.
ExecutionsAreGranted == \A a \in Approvals : executions[a] <= grants[a]

\* A row says COMPLETED only of a request whose tool call reached the backend,
\* whoever else has decided, expired or denied the row meanwhile.
CompletedWasExecuted ==
    \A a \in Approvals : status[a] = "COMPLETED" => executions[a] > 0

\* A request nobody decides does not stay PENDING once its deadline is over.
OverdueSettles ==
    \A a \in Approvals :
        (status[a] = "PENDING" /\ expiresAt[a] < now) ~> (status[a] # "PENDING")

\* mcpbridge_approval_status tells the client of an EXECUTING request to check
\* back shortly.  When the executor always returns, every EXECUTING row leaves
\* that status, whatever else is decided about it meanwhile, unless a handler
\* ended before it could record: restart, panic or failed statement, after which
\* nothing looks at EXECUTING rows again.
ExecutingEnds ==
    (\A d \in Deciders : []<>(dpc[d] \notin {"execute", "reached"})) =>
        \A a \in Approvals : [](status[a] = "EXECUTING" =>
                                   <>(status[a] # "EXECUTING" \/ a \in lost))

Phase(a) ==
    CASE status[a] = "absent" -> "absent"
      [] status[a] = "PENDING" -> "waiting"
      [] status[a] \in {"APPROVED", "EXECUTING"} -> "granted"
      [] status[a] = "DENIED" -> "refused"
      [] status[a] = "EXPIRED" -> "expired"
      [] status[a] = "COMPLETED" -> "completed"
      [] status[a] = "FAILED" -> "failed"
      [] status[a] = "deleted" -> "purged"

Life == INSTANCE ApprovalLifecycle
            WITH phase <- [a \in Approvals |-> Phase(a)], runs <- executions

\* Rows live the life the queue promises, from stale pages, through restarts and
\* failed statements too: a request waits once, only a waiting one expires, one
\* run per grant, no result without a grant and no success without a run, and a
\* row that is gone stays gone.
ImplementsLifecycle == Life!LifeSpec
=============================================================================
