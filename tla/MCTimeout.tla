----------------------------- MODULE MCTimeout ------------------------------
(* A small instance of Timeout for TLC. *)
EXTENDS Timeout

CONSTANTS c1, d1, x1, x2
=============================================================================
