---------------------------- MODULE MCSourceLink ----------------------------
(* SourceLink on a small instance; the constants are given in the cfg file. *)
EXTENDS SourceLink, TLC
=============================================================================
