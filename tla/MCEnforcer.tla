----------------------------- MODULE MCEnforcer -----------------------------
(* A small instance of the policy engine for TLC. *)
EXTENDS Enforcer, TLC

\* A denial that is less severe than the approval beside it, an
\* expression that does not compile, and a warning that is switched off.
Deny ==
    [match |-> {"t1"}, action |-> "DENY", severity |-> "LOW", priority |-> 10,
     enabled |-> TRUE, valid |-> TRUE]
Approve ==
    [match |-> {"t1", "t2"}, action |-> "PENDING_USER_APPROVAL", severity |-> "CRITICAL",
     priority |-> 20, enabled |-> TRUE, valid |-> TRUE]
Broken ==
    [match |-> {"t1"}, action |-> "DENY", severity |-> "HIGH", priority |-> 1,
     enabled |-> TRUE, valid |-> FALSE]

WarnOff ==
    [match |-> {"t1"}, action |-> "WARN", severity |-> "HIGH", priority |-> 5,
     enabled |-> FALSE, valid |-> TRUE]

SmallBodies == {Deny, Approve, Broken, WarnOff}
SmallProfiles ==
    {[source |-> "self_reported", requiresHITL |-> FALSE],
     [source |-> "inferred", requiresHITL |-> TRUE],
     [source |-> "override", requiresHITL |-> TRUE]}
=============================================================================
