------------------------------ MODULE MCLookup ------------------------------
(***************************************************************************)
(* Lookup for TLC: three nodes in a row.  The farthest one names the one   *)
(* in the middle, that one the nearest, which stores the keys: of the      *)
(* farthest, which has the dat, and an old one of the middle, which has    *)
(* not.                                                                    *)
(***************************************************************************)
EXTENDS Lookup, TLC

CONSTANTS n1, n2, n3, me

MCDistance == (n1 :> 1) @@ (n2 :> 2) @@ (n3 :> 3)
MCNames == (n1 :> {n1, n2}) @@ (n2 :> {n1, n2, n3}) @@ (n3 :> {n2, n3, me})
MCStored == (n1 :> {n2, n3}) @@ (n2 :> {}) @@ (n3 :> {})
=============================================================================
