----------------------------- MODULE MCKeyStore -----------------------------
(***************************************************************************)
(* KeyStore for TLC: two other nodes, of which each gives the other's key, *)
(* the one of n2 being farther, and two keys of own dats, of which one can *)
(* be published at a time.                                                 *)
(***************************************************************************)
EXTENDS KeyStore, TLC

CONSTANTS n1, n2, me, k1, k2, o1, o2

MCOwner == (k1 :> n1) @@ (k2 :> n2) @@ (o1 :> me) @@ (o2 :> me)
MCDistance == (k1 :> 1) @@ (k2 :> 2) @@ (o1 :> 1) @@ (o2 :> 1)
MCOrder == (n1 :> 1) @@ (n2 :> 2)
MCGiven == (n1 :> {k2}) @@ (n2 :> {k1})
MCNamed == (n1 :> {n2, me}) @@ (n2 :> {n1})
=============================================================================
