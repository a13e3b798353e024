------------------------------ MODULE MCGuard ------------------------------
(* Guard on a small instance; the constants are given in the cfg files.    *)
EXTENDS Guard
=============================================================================
