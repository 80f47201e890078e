---------------------------- MODULE MCBroadcast ----------------------------
(***************************************************************************)
(* Broadcast for TLC: the author of the message knows one node of a ring   *)
(* of three, each of which knows the next one.                             *)
(***************************************************************************)
EXTENDS Broadcast, TLC

CONSTANTS n1, n2, n3, n4, m

MCAuthor == [x \in Message |-> n1]
MCLasso == (n1 :> {n2}) @@ (n2 :> {n3}) @@ (n3 :> {n4}) @@ (n4 :> {n2})
=============================================================================
