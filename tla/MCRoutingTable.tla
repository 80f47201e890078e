--------------------------- MODULE MCRoutingTable ---------------------------
(***************************************************************************)
(* RoutingTable for TLC: identifiers of two bytes of two bits, and nodes   *)
(* three of which share a bucket, two an address and two an identifier.    *)
(***************************************************************************)
EXTENDS RoutingTable

CONSTANTS a1, a2, a3, lan, closed, nat

MCSelfID == {1}
MCAddress == {a1, a2, a3}
MCPrivate == {lan}
MCClosed == {closed, nat}

(* With SelfID = {1}: four of bucket 3, one each of 2 and 1, one that is   *)
(* not global, two with port 0.                                            *)
MCCandidate ==
    {[id |-> {3}, addr |-> a1], [id |-> {3, 0}, addr |-> a2],
     [id |-> {3, 2}, addr |-> a3], [id |-> {3}, addr |-> a2],
     [id |-> {2}, addr |-> a1], [id |-> {0}, addr |-> a1],
     [id |-> {}, addr |-> lan], [id |-> {2, 0}, addr |-> closed],
     [id |-> {1, 0}, addr |-> nat]}

MCTarget == {{3}, {2, 1}, {1}}
=============================================================================
