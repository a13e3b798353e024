----------------------------- MODULE MCConsole -----------------------------
EXTENDS Console, TLC

\* Nothing tells two browsers apart, nor two sessions, tables or passwords.
Symmetry == Permutations(Browsers) \cup Permutations(Sessions) \cup Permutations(Tables)
                \cup Permutations(Passwords)
=============================================================================
