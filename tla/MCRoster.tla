------------------------------ MODULE MCRoster ------------------------------
(* Roster on a small instance; the constants are given in the cfg files.   *)
EXTENDS Roster, TLC

Symmetric == Permutations(Procs)
=============================================================================
