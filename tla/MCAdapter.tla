------------------------------ MODULE MCAdapter ------------------------------
(* An instance of Adapter for TLC: a radar of two zones. *)
EXTENDS Adapter
CONSTANTS s1, a, b
=============================================================================
