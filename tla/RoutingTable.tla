---------------------------- MODULE RoutingTable ----------------------------
(***************************************************************************)
(* The Kademlia routing table: KademliaKBucket, KademliaRoutingTable,      *)
(* KademliaNode and O2NodeDB's touch (KademliaKBucket.hpp,                 *)
(* KademliaRoutingTable.hpp, KademliaNode.hpp, O2NodeDB.cpp, with the      *)
(* distance functions of dataconv.cpp and the order of hashT, barray.hpp). *)
(*                                                                         *)
(* Any number of threads touch and remove nodes while one looks for the    *)
(* neighbors of a target, bucket after bucket; each bucket has a lock of   *)
(* its own and the table has none.  Lookups change nothing, so one of them *)
(* stands for all.                                                         *)
(*                                                                         *)
(* An identifier is the set of its one bits, bit 0 of byte 0 being bit 0.  *)
(* Of a node the table looks at nothing but its identifier and its         *)
(* address (ip and port).                                                  *)
(***************************************************************************)
EXTENDS Naturals, Sequences, FiniteSets, SequencesExt

CONSTANTS
    Bytes,          \* HASHSIZE
    ByteBits,       \* bits of a byte
    SelfID,         \* SelfKademliaNode.id
    K,              \* KADEMLIA_K
    Limit,          \* limit of the lookups
    Port0Limit,     \* PORT0NODE_LIMIT
    Address,        \* addresses that valid() accepts
    Private,        \* addresses that are not global
    Closed,         \* addresses whose port is 0
    NoAddress,      \* ip and port of a node of which only the id is given
    Candidate,      \* nodes other threads touch (bound of the model), and
    Target          \* identifiers they look for (bound of the model)

Bit == 0..(Bytes * ByteBits - 1)
NodeId == SUBSET Bit
Node == [id : NodeId, addr : Address \cup Private \cup Closed]

ASSUME RoutingAssumption ==
    /\ Bytes \in Nat \ {0} /\ ByteBits \in Nat \ {0}
    /\ SelfID \in NodeId
    /\ K \in Nat \ {0} /\ Limit \in Nat \ {0} /\ Port0Limit \in Nat \ {0}
    /\ Closed \cap (Address \cup Private) = {}
    /\ Address \cap Private = {}
    /\ NoAddress \notin Address \cup Private \cup Closed
    /\ Candidate \subseteq Node
    /\ Target \subseteq NodeId

VARIABLES
    bucket,         \* KBuckets
    port0,          \* Port0Nodes
    selfValid,      \* SelfKademliaNode has an ip and a port
    walk,           \* where the lookup is
    target,         \* what it looks for
    withSelf,       \* include_myself
    near,           \* the buckets it has still to visit before itself, and
    far,            \* after
    out,            \* the nodes it has found
    steady          \* (history) identifiers in the table ever since it began

tableVars == <<bucket, port0, selfValid>>
walkVars == <<walk, target, withSelf, near, far, out>>
vars == <<tableVars, walkVars, steady>>

-----------------------------------------------------------------------------
(* Identifiers and distances. *)

(* hash_xor *)
Xor(x, y) == (x \ y) \cup (y \ x)

(* hash_bitlength(d) - 1 = b: byte HASHSIZE-1 is the most significant. *)
TopBit(b, d) == b \in d /\ \A c \in d : c <= b

(* less_xor_bitlength: the order of distances that goes with it. *)
Nearer(d, e) ==
    \E b \in Bit :
        /\ b \in e /\ b \notin d
        /\ \A c \in Bit : c > b => (c \in d <=> c \in e)

(* operator< of hashT compares bytes from byte 0 on, so that byte 0 is the *)
(* most significant.                                                       *)
Rank(b) == ((Bytes - 1 - (b \div ByteBits)) * ByteBits) + (b % ByteBits)
ByteLess(d, e) ==
    \E b \in Bit :
        /\ b \in e /\ b \notin d
        /\ \A c \in Bit : Rank(c) > Rank(b) => (c \in d <=> c \in e)

(* The bucket of an identifier; that of SelfID is none. *)
InBucket(x, b) == TopBit(b, Xor(x, SelfID))

(* operator== of KademliaNode. *)
Same(n, m) == n.addr = m.addr \/ n.id = m.id

Capacity(b) == IF b \div 2 < K THEN K ELSE b \div 2

Ids(S) == {n.id : n \in S}
Table(bs) == UNION {ToSet(bs[b]) : b \in Bit}

TypeOK ==
    /\ bucket \in [Bit -> Seq(Node)]
    /\ port0 \in Seq(Node)
    /\ selfValid \in BOOLEAN
    /\ walk \in {"idle", "near", "far", "done"}
    /\ target \in NodeId
    /\ withSelf \in BOOLEAN
    /\ near \subseteq Bit
    /\ far \subseteq Bit
    /\ out \subseteq [id : NodeId, addr : Address \cup {NoAddress}]
    /\ steady \subseteq NodeId

Init ==
    /\ bucket = [b \in Bit |-> << >>]
    /\ port0 = << >>
    /\ selfValid = FALSE
    /\ walk = "idle"
    /\ target = SelfID
    /\ withSelf = FALSE
    /\ near = {} /\ far = {}
    /\ out = {}
    /\ steady = {}

-----------------------------------------------------------------------------
(* touch and remove, by any thread. *)

(* The first node of the list that is the same as n. *)
FirstSame(L, n, k) ==
    /\ k \in DOMAIN L /\ Same(L[k], n)
    /\ \A j \in DOMAIN L : j < k => ~Same(L[j], n)

Known(L, n) == \E k \in DOMAIN L : Same(L[k], n)

(* The list becomes L in bucket b. *)
SetBucket(b, L) ==
    /\ bucket' = [bucket EXCEPT ![b] = L]
    /\ steady' = steady \cap Ids(Table(bucket'))
    /\ UNCHANGED <<port0, selfValid, walkVars>>

(* push: a node that is known is erased, marged (with the new node's id    *)
(* and address) and goes to the back.                                      *)
PushKnown(n, b) ==
    \E k \in DOMAIN bucket[b] :
        /\ FirstSame(bucket[b], n, k)
        /\ SetBucket(b, Append(RemoveAt(bucket[b], k), n))

(* A new node goes to the back, the oldest making room for it. *)
PushNew(n, b) ==
    /\ ~Known(bucket[b], n)
    /\ SetBucket(b, Append(IF Len(bucket[b]) < Capacity(b) THEN bucket[b]
                                                           ELSE Tail(bucket[b]), n))

\* Bug: the buckets are numbered from 1.
Touch_OffByOne(n) ==
    /\ n.addr \in Address
    /\ \E b \in Bit : \E c \in Bit :
          InBucket(n.id, b) /\ c = b + 1 /\ (PushKnown(n, c) \/ PushNew(n, c))

(* push, of a node whose address is valid and that is not oneself. *)
Touch(n) ==
    /\ n.addr \in Address
    /\ \E b \in Bit : InBucket(n.id, b) /\ (PushKnown(n, b) \/ PushNew(n, b))

(* AddPort0Node, for the nodes with port 0. *)
TouchPort0(n) ==
    /\ n.addr \in Closed
    /\ \/ \E k \in DOMAIN port0 :
             /\ FirstSame(port0, n, k)
             /\ port0' = Append(RemoveAt(port0, k), n)
       \/ /\ ~Known(port0, n)
          /\ port0' = Append(IF Len(port0) < Port0Limit THEN port0 ELSE Tail(port0), n)
    /\ UNCHANGED <<bucket, selfValid, walkVars, steady>>

(* remove, of a node that is not oneself. *)
RemoveNode(n) ==
    \E b \in Bit :
        /\ InBucket(n.id, b)
        /\ \E k \in DOMAIN bucket[b] :
              /\ FirstSame(bucket[b], n, k)
              /\ SetBucket(b, RemoveAt(bucket[b], k))

(* GetGlobalIP learns one's own address. *)
SetSelf ==
    /\ ~selfValid
    /\ selfValid' = TRUE
    /\ UNCHANGED <<bucket, port0, walkVars, steady>>

-----------------------------------------------------------------------------
(* neighbors.  With d the distance of the target from oneself, the buckets *)
(* of d's one bits come first, from the highest down, then oneself, then   *)
(* the other buckets from the lowest up.                                   *)

Distance(x) == Xor(target, x)

WalkBegin(x, me) ==
    /\ walk = "idle"
    /\ walk' = "near"
    /\ target' = x
    /\ withSelf' = me
    /\ near' = Xor(x, SelfID)
    /\ far' = Bit \ Xor(x, SelfID)
    /\ out' = {}
    /\ steady' = Ids(Table(bucket))
    /\ UNCHANGED tableVars

(* pick: the nodes that come first in the map from distances to nodes, at  *)
(* most limit of them, whatever has been found before.  Of nodes with one  *)
(* identifier the map keeps the first.                                     *)
Mapped(L) == {L[k] : k \in {k \in DOMAIN L : \A j \in DOMAIN L : j < k => L[j].id # L[k].id}}
Pick(L) ==
    {n \in Mapped(L) :
        Cardinality({m \in Mapped(L) : ByteLess(Distance(m.id), Distance(n.id))}) < Limit}

(* The lookup returns as soon as it has found limit nodes. *)
Found(S, next) ==
    /\ out' = S
    /\ walk' = IF Cardinality(S) >= Limit THEN "done" ELSE next

\* Bug: the buckets are visited from the lowest up.
WalkNear_Ascending(b) ==
    /\ walk = "near"
    /\ b \in near /\ \A c \in near : b <= c
    /\ near' = near \ {b}
    /\ Found(out \cup Pick(bucket[b]), "near")
    /\ UNCHANGED <<tableVars, target, withSelf, far, steady>>

WalkNear(b) ==
    /\ walk = "near"
    /\ TopBit(b, near)
    /\ near' = near \ {b}
    /\ Found(out \cup Pick(bucket[b]), "near")
    /\ UNCHANGED <<tableVars, target, withSelf, far, steady>>

WalkSelf ==
    /\ walk = "near"
    /\ near = {}
    /\ Found(IF withSelf /\ selfValid
               THEN out \cup {[id |-> SelfID, addr |-> NoAddress]} ELSE out, "far")
    /\ UNCHANGED <<tableVars, target, withSelf, near, far, steady>>

\* Bug: the last bucket is left out.
WalkEnd_TooEarly ==
    /\ walk = "far"
    /\ Cardinality(far) <= 1
    /\ walk' = "done"
    /\ UNCHANGED <<tableVars, target, withSelf, near, far, out, steady>>

WalkFar(b) ==
    /\ walk = "far"
    /\ b \in far /\ \A c \in far : b <= c
    /\ far' = far \ {b}
    /\ Found(out \cup Pick(bucket[b]), "far")
    /\ UNCHANGED <<tableVars, target, withSelf, near, steady>>

WalkEnd ==
    /\ walk = "far"
    /\ far = {}
    /\ walk' = "done"
    /\ UNCHANGED <<tableVars, target, withSelf, near, far, out, steady>>

(* The caller has used what it found. *)
WalkReturn ==
    /\ walk = "done"
    /\ walk' = "idle"
    /\ target' = SelfID
    /\ withSelf' = FALSE
    /\ near' = {} /\ far' = {} /\ out' = {} /\ steady' = {}
    /\ UNCHANGED tableVars

Walk ==
    \/ \E x \in Target, me \in BOOLEAN : WalkBegin(x, me)
    \/ \E b \in Bit : WalkNear(b) \/ WalkFar(b)
    \/ WalkSelf \/ WalkEnd \/ WalkReturn

Next ==
    \/ \E n \in Candidate : Touch(n) \/ TouchPort0(n) \/ RemoveNode(n)
    \/ \E x \in Ids(Candidate) : RemoveNode([id |-> x, addr |-> NoAddress])
    \/ SetSelf
    \/ Walk

Spec == Init /\ [][Next]_vars

-----------------------------------------------------------------------------
(* Properties. *)

(* Every node is in the bucket of its identifier, has a valid address, and *)
(* no bucket exceeds its capacity: a node that comes back with another     *)
(* identifier is renamed in the bucket where the new one belongs or is     *)
(* added there, and never ends up where no lookup would find it.  The list *)
(* of nodes with port 0 is bounded too.                                    *)
TableSound ==
    /\ \A b \in Bit :
          /\ Len(bucket[b]) <= Capacity(b)
          /\ \A k \in DOMAIN bucket[b] :
                InBucket(bucket[b][k].id, b) /\ bucket[b][k].addr \in Address
    /\ Len(port0) <= Port0Limit

(* Whatever a lookup has found is nearer to the target than anything that  *)
(* a bucket it has not visited yet can hold: it can return as soon as it   *)
(* has found enough.                                                       *)
FoundIsNearer ==
    walk # "idle" =>
        \A n \in out, x \in NodeId, b \in near \cup far :
            InBucket(x, b) => Nearer(Distance(n.id), Distance(x))

(* While other threads touch and remove nodes, a lookup misses none that   *)
(* is in the table all the time, unless it has found enough nodes that are *)
(* nearer to the target or in the bucket of the missed one.                *)
NothingMissed ==
    walk = "done" =>
        \A x \in steady \ Ids(out) :
            /\ Cardinality(out) >= Limit
            /\ \A n \in out :
                  \/ Nearer(Distance(n.id), Distance(x))
                  \/ \E b \in Bit : InBucket(n.id, b) /\ InBucket(x, b)
=============================================================================
