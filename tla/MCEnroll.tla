------------------------------ MODULE MCEnroll ------------------------------
(* Enroll on a small instance; the constants are given in the cfg file.    *)
EXTENDS Enroll, TLC

Symmetric == Permutations(Conns) \cup Permutations(Codes)
=============================================================================
