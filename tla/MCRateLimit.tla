---------------------------- MODULE MCRateLimit ----------------------------
EXTENDS RateLimit

\* With a minute of 2 seconds, half a unit and a unit a second are 30 and 60
\* per minute.
SmallBuckets ==
    [risk |-> [capacity |-> 2, refillRate |-> 1],
     resource |-> [capacity |-> 3, refillRate |-> 2]]
LargeBuckets ==
    [risk |-> [capacity |-> 4, refillRate |-> 1],
     resource |-> [capacity |-> 4, refillRate |-> 2]]
PartialForm ==
    [risk |-> [capacity |-> 3, refillRate |-> 0],
     resource |-> [capacity |-> 0, refillRate |-> 1]]
SubmittedForms == {PartialForm}

WriteCall == [cost |-> 1, risk |-> "med", impact |-> "write", source |-> "self_reported"]
InferredCall == [cost |-> 1, risk |-> "low", impact |-> "delete", source |-> "inferred"]

OneProfile == {InferredCall}
CheapProfiles == {WriteCall, InferredCall}
=============================================================================
