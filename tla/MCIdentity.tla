----------------------------- MODULE MCIdentity -----------------------------
EXTENDS Identity, TLC

\* Requests, clients and addresses are interchangeable.
IdentitySymmetry == Permutations(Requests) \cup Permutations(Clients) \cup Permutations(Emails)
=============================================================================
