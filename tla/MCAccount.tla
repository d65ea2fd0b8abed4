----------------------------- MODULE MCAccount ------------------------------
EXTENDS Account, TLC

\* Browsers, passwords and token values are interchangeable.
AccountSymmetry ==
    Permutations(Browsers) \cup Permutations(Passwords) \cup Permutations(Values)
=============================================================================
