------------------------------ MODULE MCAppends -----------------------------
(***************************************************************************)
(* Two programs, which are alike except for the fairness of each, blocks   *)
(* of two numbers, and one row of another program in the way.              *)
(***************************************************************************)
EXTENDS Appends
=============================================================================
