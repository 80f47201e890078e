----------------------------- MODULE MCProgram -----------------------------
(***************************************************************************)
(* Program for TLC: one thread that answers a request and one job.         *)
(***************************************************************************)
EXTENDS Program

CONSTANTS p, j
=============================================================================
