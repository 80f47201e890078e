---------------------------- MODULE MCScheduler ----------------------------
(***************************************************************************)
(* Scheduler for TLC: g asks for the global address, runs at once and      *)
(* stops itself; p does neither.                                           *)
(***************************************************************************)
EXTENDS Scheduler

CONSTANTS g, p
=============================================================================
