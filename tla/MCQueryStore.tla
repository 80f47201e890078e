---------------------------- MODULE MCQueryStore ----------------------------
(***************************************************************************)
(* QueryStore for TLC.                                                     *)
(***************************************************************************)
EXTENDS QueryStore, TLC

CONSTANTS a1, a2, d1, d2

MCDistance == (d1 :> 1) @@ (d2 :> 2)
=============================================================================
