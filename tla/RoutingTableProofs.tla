------------------------- MODULE RoutingTableProofs -------------------------
(***************************************************************************)
(* Theorems about RoutingTable, for identifiers of any length, any number  *)
(* of nodes and any capacity.                                              *)
(***************************************************************************)
EXTENDS RoutingTable, FiniteSetTheorems, WellFoundedInduction, TLAPS

-----------------------------------------------------------------------------
(* Lists. *)

(* Two lists one after the other. *)
LEMMA ConcatList ==
    ASSUME NEW S, NEW A \in Seq(S), NEW B \in Seq(S)
    PROVE  /\ A \o B \in Seq(S)
           /\ Len(A \o B) = Len(A) + Len(B)
           /\ \A j \in 1..(Len(A) + Len(B)) :
                 (A \o B)[j] = IF j <= Len(A) THEN A[j] ELSE B[j - Len(A)]
OBVIOUS

(* What erasing one element of a list leaves. *)
LEMMA RemoveAtList ==
    ASSUME NEW S, NEW L \in Seq(S), NEW k \in DOMAIN L
    PROVE  /\ RemoveAt(L, k) \in Seq(S)
           /\ Len(RemoveAt(L, k)) = Len(L) - 1
           /\ \A j \in DOMAIN RemoveAt(L, k) :
                 \E i \in DOMAIN L : RemoveAt(L, k)[j] = L[i]
<1> DEFINE A == SubSeq(L, 1, k - 1)
           B == SubSeq(L, k + 1, Len(L))
<1>1. k \in 1..Len(L) /\ Len(L) \in Nat
  OBVIOUS
<1>2. /\ A \in Seq(S) /\ Len(A) = k - 1
      /\ \A j \in 1..(k - 1) : A[j] = L[j]
  BY <1>1
<1>3. /\ B \in Seq(S) /\ Len(B) = Len(L) - k
      /\ \A j \in 1..(Len(L) - k) : B[j] = L[k + j]
  BY <1>1
<1>4. /\ A \o B \in Seq(S) /\ Len(A \o B) = Len(L) - 1
      /\ \A j \in 1..(Len(L) - 1) :
            (A \o B)[j] = IF j <= k - 1 THEN A[j] ELSE B[j - (k - 1)]
  <2> HIDE DEF A, B
  <2>1. /\ A \o B \in Seq(S)
        /\ Len(A \o B) = Len(A) + Len(B)
        /\ \A j \in 1..(Len(A) + Len(B)) :
              (A \o B)[j] = IF j <= Len(A) THEN A[j] ELSE B[j - Len(A)]
    BY <1>2, <1>3, ConcatList
  <2>3. (k - 1) + (Len(L) - k) = Len(L) - 1
    BY <1>1
  <2>4. QED
    BY ONLY <2>1, <2>3, <1>2, <1>3
<1>5. \A j \in 1..(Len(L) - 1) : \E i \in 1..Len(L) : (A \o B)[j] = L[i]
  <2>1. TAKE j \in 1..(Len(L) - 1)
  <2>2. CASE j <= k - 1
    BY <1>1, <1>2, <1>4, <2>2
  <2>3. CASE ~(j <= k - 1)
    <3>1. j - (k - 1) \in 1..(Len(L) - k) /\ k + (j - (k - 1)) \in 1..Len(L)
      BY <1>1, <2>3
    <3>2. QED
      BY <1>3, <1>4, <2>3, <3>1
  <2>4. QED
    BY <2>2, <2>3
<1>6. RemoveAt(L, k) = A \o B
  BY DEF RemoveAt
<1>7. DOMAIN (A \o B) = 1..(Len(L) - 1) /\ DOMAIN L = 1..Len(L)
  BY <1>1, <1>4
<1>8. QED
  BY ONLY <1>4, <1>5, <1>6, <1>7

(* A node added at the back. *)
LEMMA AppendList ==
    ASSUME NEW S, NEW L \in Seq(S), NEW n \in S
    PROVE  /\ Append(L, n) \in Seq(S)
           /\ Len(Append(L, n)) = Len(L) + 1
           /\ \A j \in DOMAIN Append(L, n) :
                 Append(L, n)[j] = n \/ \E i \in DOMAIN L : Append(L, n)[j] = L[i]
OBVIOUS

(* The list without its oldest element. *)
LEMMA TailList ==
    ASSUME NEW S, NEW L \in Seq(S), Len(L) > 0
    PROVE  /\ Tail(L) \in Seq(S)
           /\ Len(Tail(L)) = Len(L) - 1
           /\ \A j \in DOMAIN Tail(L) : \E i \in DOMAIN L : Tail(L)[j] = L[i]
OBVIOUS

-----------------------------------------------------------------------------
(* Distances. *)

(* Two identifiers whose buckets are b and c: the one whose distance from  *)
(* oneself agrees with the target's on the higher of the two is nearer.    *)
LEMMA VisitedIsNearer ==
    ASSUME NEW t \in NodeId, NEW x \in NodeId, NEW y \in NodeId,
           NEW b \in Bit, NEW c \in Bit, InBucket(x, c), InBucket(y, b),
           \/ c \in Xor(t, SelfID) /\ b < c
           \/ b \notin Xor(t, SelfID) /\ c < b
    PROVE  Nearer(Xor(t, x), Xor(t, y))
<1>0. Bit \subseteq Nat
  BY RoutingAssumption DEF Bit
<1>1. /\ c \in Xor(x, SelfID) /\ \A a \in Bit : a > c => a \notin Xor(x, SelfID)
      /\ b \in Xor(y, SelfID) /\ \A a \in Bit : a > b => a \notin Xor(y, SelfID)
  BY <1>0 DEF InBucket, TopBit
<1>2. \A a \in Bit, z \in NodeId :
        (a \in Xor(t, z)) <=> ~((a \in Xor(t, SelfID)) <=> (a \in Xor(z, SelfID)))
  BY DEF Xor
<1>3. CASE c \in Xor(t, SelfID) /\ b < c
  <2>1. c \notin Xor(t, x) /\ c \in Xor(t, y)
    BY <1>0, <1>1, <1>2, <1>3
  <2>2. \A a \in Bit : a > c => (a \in Xor(t, x) <=> a \in Xor(t, y))
    BY <1>0, <1>1, <1>2, <1>3
  <2>3. QED
    BY <2>1, <2>2 DEF Nearer
<1>4. CASE b \notin Xor(t, SelfID) /\ c < b
  <2>1. b \notin Xor(t, x) /\ b \in Xor(t, y)
    BY <1>0, <1>1, <1>2, <1>4
  <2>2. \A a \in Bit : a > b => (a \in Xor(t, x) <=> a \in Xor(t, y))
    BY <1>0, <1>1, <1>2, <1>4
  <2>3. QED
    BY <2>1, <2>2 DEF Nearer
<1>5. QED
  BY <1>3, <1>4

(* Oneself is nearer than what a bucket behind it can hold. *)
LEMMA SelfIsNearer ==
    ASSUME NEW t \in NodeId, NEW y \in NodeId, NEW b \in Bit, InBucket(y, b),
           b \notin Xor(t, SelfID)
    PROVE  Nearer(Xor(t, SelfID), Xor(t, y))
<1>0. Bit \subseteq Nat
  BY RoutingAssumption DEF Bit
<1>1. b \in Xor(y, SelfID) /\ \A a \in Bit : a > b => a \notin Xor(y, SelfID)
  BY <1>0 DEF InBucket, TopBit
<1>2. \A a \in Bit :
        (a \in Xor(t, y)) <=> ~((a \in Xor(t, SelfID)) <=> (a \in Xor(y, SelfID)))
  BY DEF Xor
<1>3. QED
  BY <1>1, <1>2 DEF Nearer

-----------------------------------------------------------------------------
(* The inductive invariant. *)

(* The lookup visits the buckets of the distance's one bits downwards and  *)
(* the others upwards, itself in between, and what it has found is itself  *)
(* or comes from a bucket that it has visited.                             *)
WalkOrder ==
    walk # "idle" =>
        LET d == Distance(SelfID)
        IN  /\ near \subseteq d /\ far \subseteq Bit \ d
            /\ near # {} => far = Bit \ d
            /\ walk = "far" => near = {}
            /\ \A c \in d \ near, b \in near : b < c
            /\ \A c \in (Bit \ d) \ far, b \in far : c < b
            /\ \A n \in out :
                  \/ n.id = SelfID /\ near = {}
                  \/ \E c \in Bit : InBucket(n.id, c) /\ c \notin near \cup far

IInv == TypeOK /\ TableSound /\ WalkOrder

LEMMA BitNat == Bit \subseteq Nat
BY RoutingAssumption DEF Bit

(* The distance from oneself is a set of bits. *)
LEMMA DistanceBits == \A x \in NodeId : Xor(x, SelfID) \in NodeId
BY RoutingAssumption DEF NodeId, Xor

LEMMA InitInv == Init => IInv
<1> SUFFICES ASSUME Init PROVE IInv
  OBVIOUS
<1>1. TypeOK
  <2>1. bucket \in [Bit -> Seq(Node)] /\ port0 \in Seq(Node)
    BY DEF Init
  <2>2. target \in NodeId
    BY RoutingAssumption DEF Init
  <2>3. QED
    BY <2>1, <2>2 DEF Init, TypeOK
<1>2. TableSound
  <2>1. \A b \in Bit : Len(bucket[b]) = 0 /\ DOMAIN bucket[b] = {}
    BY DEF Init
  <2>2. \A b \in Bit : 0 <= Capacity(b)
    BY BitNat, RoutingAssumption DEF Capacity
  <2>3. Len(port0) <= Port0Limit
    BY RoutingAssumption DEF Init
  <2>4. \A b \in Bit :
           /\ Len(bucket[b]) <= Capacity(b)
           /\ \A k \in DOMAIN bucket[b] :
                 InBucket(bucket[b][k].id, b) /\ bucket[b][k].addr \in Address
    <3> TAKE b \in Bit
    <3>1. Len(bucket[b]) = 0 /\ DOMAIN bucket[b] = {} /\ 0 <= Capacity(b)
      BY <2>1, <2>2
    <3>2. QED
      BY <3>1
  <2>5. QED
    BY <2>3, <2>4 DEF TableSound
<1>3. WalkOrder
  BY DEF Init, WalkOrder
<1>4. QED
  BY <1>1, <1>2, <1>3 DEF IInv

-----------------------------------------------------------------------------
(* touch and remove. *)

(* What a list has to be to take the place of bucket b. *)
GoodList(L, b) ==
    /\ L \in Seq(Node)
    /\ Len(L) <= Capacity(b)
    /\ \A k \in DOMAIN L : InBucket(L[k].id, b) /\ L[k].addr \in Address

LEMMA CapacityNat == \A b \in Bit : Capacity(b) \in Nat \ {0}
BY BitNat, RoutingAssumption DEF Capacity

LEMMA BucketIsGood ==
    ASSUME TypeOK, TableSound, NEW b \in Bit
    PROVE  GoodList(bucket[b], b)
BY DEF TypeOK, TableSound, GoodList

(* Nothing but the bucket changes, and the new list is a good one. *)
LEMMA SetBucketInv ==
    ASSUME IInv, NEW b \in Bit, NEW L, GoodList(L, b), SetBucket(b, L)
    PROVE  IInv'
<1>1. TypeOK'
  BY DEF IInv, TypeOK, GoodList, SetBucket, tableVars, walkVars
<1>2. TableSound'
  <2>1. ASSUME NEW c \in Bit
        PROVE  /\ Len(bucket'[c]) <= Capacity(c)
               /\ \A k \in DOMAIN bucket'[c] :
                     InBucket(bucket'[c][k].id, c) /\ bucket'[c][k].addr \in Address
    <3>1. bucket'[c] = IF c = b THEN L ELSE bucket[c]
      BY <2>1 DEF IInv, TypeOK, SetBucket
    <3>2. QED
      BY <2>1, <3>1 DEF IInv, TableSound, GoodList
  <2>2. QED
    BY <2>1 DEF IInv, TableSound, SetBucket
<1>3. WalkOrder'
  BY DEF IInv, WalkOrder, SetBucket, walkVars, Distance
<1>4. QED
  BY <1>1, <1>2, <1>3 DEF IInv

LEMMA PushKnownInv ==
    ASSUME IInv, NEW n \in Node, n.addr \in Address, NEW b \in Bit, InBucket(n.id, b),
           PushKnown(n, b)
    PROVE  IInv'
<1>1. PICK k \in DOMAIN bucket[b] :
        SetBucket(b, Append(RemoveAt(bucket[b], k), n))
  BY DEF PushKnown
<1> DEFINE R == RemoveAt(bucket[b], k)
<1>2. GoodList(bucket[b], b)
  BY BucketIsGood DEF IInv
<1>3. /\ R \in Seq(Node) /\ Len(R) = Len(bucket[b]) - 1
      /\ \A j \in DOMAIN R : \E i \in DOMAIN bucket[b] : R[j] = bucket[b][i]
  BY <1>2, RemoveAtList DEF GoodList
<1>4. GoodList(Append(R, n), b)
  <2> HIDE DEF R
  <2>1. /\ Append(R, n) \in Seq(Node) /\ Len(Append(R, n)) = Len(R) + 1
        /\ \A j \in DOMAIN Append(R, n) :
              Append(R, n)[j] = n \/ \E i \in DOMAIN R : Append(R, n)[j] = R[i]
    BY <1>3, AppendList
  <2>2. Len(bucket[b]) \in Nat /\ Len(bucket[b]) <= Capacity(b)
    BY <1>2 DEF GoodList
  <2>3. Len(Append(R, n)) <= Capacity(b)
    BY ONLY <1>3, <2>1, <2>2, CapacityNat
  <2>4. QED
    BY <1>2, <1>3, <2>1, <2>3 DEF GoodList
<1>5. QED
  BY <1>1, <1>4, SetBucketInv

LEMMA PushNewInv ==
    ASSUME IInv, NEW n \in Node, n.addr \in Address, NEW b \in Bit, InBucket(n.id, b),
           PushNew(n, b)
    PROVE  IInv'
<1> DEFINE R == IF Len(bucket[b]) < Capacity(b) THEN bucket[b] ELSE Tail(bucket[b])
<1>1. SetBucket(b, Append(R, n))
  BY DEF PushNew
<1>2. GoodList(bucket[b], b)
  BY BucketIsGood DEF IInv
<1>3. /\ R \in Seq(Node) /\ Len(R) < Capacity(b)
      /\ \A j \in DOMAIN R : \E i \in DOMAIN bucket[b] : R[j] = bucket[b][i]
  <2>1. /\ bucket[b] \in Seq(Node) /\ Len(bucket[b]) \in Nat
        /\ Len(bucket[b]) <= Capacity(b) /\ Capacity(b) \in Nat \ {0}
    BY <1>2, CapacityNat DEF GoodList
  <2>2. CASE Len(bucket[b]) < Capacity(b)
    BY <2>1, <2>2
  <2>3. CASE ~(Len(bucket[b]) < Capacity(b))
    <3>1. Len(bucket[b]) = Capacity(b) /\ Len(bucket[b]) > 0
      BY <2>1, <2>3
    <3>2. QED
      BY <2>1, <2>3, <3>1, TailList
  <2>4. QED
    BY <2>2, <2>3
<1>4. GoodList(Append(R, n), b)
  <2> HIDE DEF R
  <2>1. /\ Append(R, n) \in Seq(Node) /\ Len(Append(R, n)) = Len(R) + 1
        /\ \A j \in DOMAIN Append(R, n) :
              Append(R, n)[j] = n \/ \E i \in DOMAIN R : Append(R, n)[j] = R[i]
    BY <1>3, AppendList
  <2>2. Len(R) \in Nat
    BY <1>3
  <2>3. Len(Append(R, n)) <= Capacity(b)
    BY ONLY <1>3, <2>1, <2>2, CapacityNat
  <2>4. QED
    BY <1>2, <1>3, <2>1, <2>3 DEF GoodList
<1>5. QED
  BY <1>1, <1>4, SetBucketInv

LEMMA TouchInv ==
    ASSUME IInv, NEW n \in Node, Touch(n)
    PROVE  IInv'
BY PushKnownInv, PushNewInv DEF Touch

LEMMA RemoveNodeInv ==
    ASSUME IInv, NEW n, RemoveNode(n)
    PROVE  IInv'
<1>0. PICK b \in Bit :
        \E k \in DOMAIN bucket[b] : SetBucket(b, RemoveAt(bucket[b], k))
  BY DEF RemoveNode
<1>1. PICK k \in DOMAIN bucket[b] : SetBucket(b, RemoveAt(bucket[b], k))
  BY <1>0
<1> DEFINE R == RemoveAt(bucket[b], k)
<1>2. GoodList(bucket[b], b)
  BY BucketIsGood DEF IInv
<1>3. /\ R \in Seq(Node) /\ Len(R) = Len(bucket[b]) - 1
      /\ \A j \in DOMAIN R : \E i \in DOMAIN bucket[b] : R[j] = bucket[b][i]
  BY <1>2, RemoveAtList DEF GoodList
<1>4. GoodList(R, b)
  <2> HIDE DEF R
  <2>1. Len(bucket[b]) \in Nat /\ Len(bucket[b]) <= Capacity(b)
    BY <1>2 DEF GoodList
  <2>2. Len(R) <= Capacity(b)
    BY ONLY <1>3, <2>1, CapacityNat
  <2>3. QED
    BY <1>2, <1>3, <2>2 DEF GoodList
<1>5. QED
  BY <1>1, <1>4, SetBucketInv

(* The list of nodes with port 0. *)
LEMMA TouchPort0Inv ==
    ASSUME IInv, NEW n \in Node, TouchPort0(n)
    PROVE  IInv'
<1>1. port0 \in Seq(Node) /\ Len(port0) \in Nat /\ Len(port0) <= Port0Limit
      /\ Port0Limit \in Nat \ {0}
  BY RoutingAssumption DEF IInv, TypeOK, TableSound
<1>2. port0' \in Seq(Node) /\ Len(port0') <= Port0Limit
  <2>1. CASE \E k \in DOMAIN port0 : port0' = Append(RemoveAt(port0, k), n)
    <3>1. PICK k \in DOMAIN port0 : port0' = Append(RemoveAt(port0, k), n)
      BY <2>1
    <3> DEFINE R == RemoveAt(port0, k)
    <3>2. R \in Seq(Node) /\ Len(R) = Len(port0) - 1
      BY <1>1, RemoveAtList
    <3>3. port0' = Append(R, n)
      BY <3>1
    <3> HIDE DEF R
    <3>4. Append(R, n) \in Seq(Node) /\ Len(Append(R, n)) = Len(R) + 1
      BY <3>2, AppendList
    <3>5. QED
      BY ONLY <1>1, <3>2, <3>3, <3>4
  <2>2. CASE port0' = Append(IF Len(port0) < Port0Limit THEN port0 ELSE Tail(port0), n)
    <3>1. CASE Len(port0) < Port0Limit
      BY <1>1, <2>2, <3>1, AppendList
    <3>2. CASE ~(Len(port0) < Port0Limit)
      <4>1. Len(port0) > 0 /\ port0' = Append(Tail(port0), n)
        BY <1>1, <2>2, <3>2
      <4>2. Tail(port0) \in Seq(Node) /\ Len(Tail(port0)) = Len(port0) - 1
        BY <1>1, <4>1, TailList
      <4>3. port0' \in Seq(Node) /\ Len(port0') = Len(Tail(port0)) + 1
        BY <4>1, <4>2, AppendList
      <4>4. QED
        BY ONLY <1>1, <4>2, <4>3
    <3>3. QED
      BY <3>1, <3>2
  <2>3. QED
    BY <2>1, <2>2 DEF TouchPort0
<1>3. UNCHANGED <<bucket, selfValid, walk, target, withSelf, near, far, out, steady>>
  BY DEF TouchPort0, walkVars
<1>4. TypeOK'
  BY <1>2, <1>3 DEF IInv, TypeOK
<1>5. TableSound'
  BY <1>2, <1>3 DEF IInv, TableSound
<1>6. WalkOrder'
  BY <1>3 DEF IInv, WalkOrder, Distance
<1>7. QED
  BY <1>4, <1>5, <1>6 DEF IInv

-----------------------------------------------------------------------------
(* neighbors. *)

(* A step that leaves the table alone. *)
LEMMA TableKept ==
    ASSUME TableSound, UNCHANGED tableVars
    PROVE  TableSound'
BY DEF TableSound, tableVars

LEMMA PickFromBucket ==
    ASSUME IInv, NEW b \in Bit
    PROVE  \A n \in Pick(bucket[b]) :
              /\ n \in [id : NodeId, addr : Address \cup {NoAddress}]
              /\ InBucket(n.id, b)
<1> TAKE n \in Pick(bucket[b])
<1>1. PICK k \in DOMAIN bucket[b] : n = bucket[b][k]
  BY DEF Pick, Mapped
<1>2. bucket[b] \in Seq(Node) /\ InBucket(n.id, b) /\ n.addr \in Address
  BY <1>1 DEF IInv, TypeOK, TableSound
<1>3. n \in Node
  BY <1>1, <1>2
<1>4. n = [id |-> n.id, addr |-> n.addr] /\ n.id \in NodeId
  BY <1>3 DEF Node
<1>5. QED
  BY <1>2, <1>4

LEMMA WalkBeginInv ==
    ASSUME IInv, NEW x \in NodeId, NEW me \in BOOLEAN, WalkBegin(x, me)
    PROVE  IInv'
<1>1. Xor(x, SelfID) \in NodeId
  BY DistanceBits
<1>2. steady' \subseteq NodeId
  <2>1. \A b \in Bit : ToSet(bucket[b]) \subseteq Node
    BY DEF IInv, TypeOK, ToSet
  <2>2. QED
    BY <2>1 DEF WalkBegin, Ids, Table, Node
<1>3. TypeOK'
  BY <1>1, <1>2 DEF IInv, TypeOK, WalkBegin, tableVars, NodeId
<1>4. WalkOrder'
  BY <1>1 DEF WalkBegin, WalkOrder, Distance, NodeId
<1>5. QED
  BY <1>3, <1>4, TableKept DEF IInv, WalkBegin

LEMMA WalkNearInv ==
    ASSUME IInv, NEW b \in Bit, WalkNear(b)
    PROVE  IInv'
<1> DEFINE d == Distance(SelfID)
<1>1. /\ walk = "near" /\ b \in near /\ near' = near \ {b}
      /\ \A c \in near : c <= b
      /\ out' = out \cup Pick(bucket[b])
      /\ walk' \in {"near", "done"}
      /\ UNCHANGED <<bucket, port0, selfValid, target, withSelf, far, steady>>
  BY DEF WalkNear, Found, TopBit, tableVars
<1>2. TypeOK'
  BY <1>1, PickFromBucket DEF IInv, TypeOK
<1>3. /\ near \subseteq d /\ far \subseteq Bit \ d /\ far = Bit \ d
      /\ \A c \in d \ near, a \in near : a < c
      /\ \A n \in out :
            \/ n.id = SelfID /\ near = {}
            \/ \E c \in Bit : InBucket(n.id, c) /\ c \notin near \cup far
  BY <1>1 DEF IInv, WalkOrder
<1>4. UNCHANGED d
  BY <1>1 DEF Distance
<1>5. \A c \in d \ near', a \in near' : a < c
  <2> TAKE c \in d \ near', a \in near'
  <2>1. a \in near /\ a # b /\ a <= b
    BY <1>1
  <2>2. near \subseteq Bit
    BY DEF IInv, TypeOK
  <2>3. CASE c = b
    BY <2>1, <2>2, <2>3, BitNat
  <2>4. CASE c # b
    BY <1>1, <1>3, <2>1, <2>4
  <2>5. QED
    BY <2>3, <2>4
<1>6. \A n \in out' : \E c \in Bit : InBucket(n.id, c) /\ c \notin near' \cup far'
  <2> TAKE n \in out'
  <2>1. CASE n \in out
    BY <1>1, <1>3, <2>1
  <2>2. CASE n \in Pick(bucket[b])
    BY <1>1, <1>3, <2>2, PickFromBucket
  <2>3. QED
    BY <1>1, <2>1, <2>2
<1>7. WalkOrder'
  <2> HIDE DEF d
  <2>1. /\ near' \subseteq d' /\ far' \subseteq Bit \ d' /\ far' = Bit \ d'
        /\ walk' # "far"
        /\ \A c \in d' \ near', a \in near' : a < c
        /\ \A n \in out' : \E c \in Bit : InBucket(n.id, c) /\ c \notin near' \cup far'
    BY <1>1, <1>3, <1>4, <1>5, <1>6
  <2>2. QED
    BY <2>1 DEF WalkOrder, d
<1>8. QED
  BY <1>1, <1>2, <1>7, TableKept DEF IInv, tableVars

LEMMA WalkSelfInv ==
    ASSUME IInv, WalkSelf
    PROVE  IInv'
<1> DEFINE d == Distance(SelfID)
<1>1. /\ walk = "near" /\ near = {}
      /\ \A n \in out' :
            n \in out \/ n = [id |-> SelfID, addr |-> NoAddress]
      /\ walk' \in {"far", "done"}
      /\ UNCHANGED <<bucket, port0, selfValid, target, withSelf, near, far, steady>>
  BY DEF WalkSelf, Found, tableVars
<1>2. TypeOK'
  BY <1>1, RoutingAssumption DEF IInv, TypeOK
<1>3. WalkOrder'
  BY <1>1 DEF IInv, WalkOrder, Distance
<1>4. QED
  BY <1>1, <1>2, <1>3, TableKept DEF IInv, tableVars

LEMMA WalkFarInv ==
    ASSUME IInv, NEW b \in Bit, WalkFar(b)
    PROVE  IInv'
<1> DEFINE d == Distance(SelfID)
<1>1. /\ walk = "far" /\ b \in far /\ far' = far \ {b}
      /\ \A c \in far : b <= c
      /\ out' = out \cup Pick(bucket[b])
      /\ walk' \in {"far", "done"}
      /\ UNCHANGED <<bucket, port0, selfValid, target, withSelf, near, steady>>
  BY DEF WalkFar, Found, tableVars
<1>2. TypeOK'
  BY <1>1, PickFromBucket DEF IInv, TypeOK
<1>3. /\ far \subseteq Bit \ d /\ near = {}
      /\ \A c \in (Bit \ d) \ far, a \in far : c < a
      /\ \A n \in out :
            n.id = SelfID \/ \E c \in Bit : InBucket(n.id, c) /\ c \notin far
  BY <1>1 DEF IInv, WalkOrder
<1>4. UNCHANGED d
  BY <1>1 DEF Distance
<1>5. \A c \in (Bit \ d) \ far', a \in far' : c < a
  <2> TAKE c \in (Bit \ d) \ far', a \in far'
  <2>1. a \in far /\ a # b /\ b <= a
    BY <1>1
  <2>2. far \subseteq Bit
    BY DEF IInv, TypeOK
  <2>3. CASE c = b
    BY <2>1, <2>2, <2>3, BitNat
  <2>4. CASE c # b
    BY <1>1, <1>3, <2>1, <2>4
  <2>5. QED
    BY <2>3, <2>4
<1>6. \A n \in out' :
         n.id = SelfID \/ \E c \in Bit : InBucket(n.id, c) /\ c \notin far'
  <2> TAKE n \in out'
  <2>1. CASE n \in out
    BY <1>1, <1>3, <2>1
  <2>2. CASE n \in Pick(bucket[b])
    BY <1>1, <2>2, PickFromBucket
  <2>3. QED
    BY <1>1, <2>1, <2>2
<1>7. WalkOrder'
  <2> HIDE DEF d
  <2>1. /\ near' = {} /\ far' \subseteq Bit \ d'
        /\ \A c \in (Bit \ d') \ far', a \in far' : c < a
        /\ \A n \in out' :
              n.id = SelfID \/ \E c \in Bit : InBucket(n.id, c) /\ c \notin far'
    BY <1>1, <1>3, <1>4, <1>5, <1>6
  <2>2. QED
    BY <2>1 DEF WalkOrder, d
<1>8. QED
  BY <1>1, <1>2, <1>7, TableKept DEF IInv, tableVars

LEMMA WalkEndInv ==
    ASSUME IInv, WalkEnd
    PROVE  IInv'
<1>1. TypeOK'
  BY DEF IInv, TypeOK, WalkEnd, tableVars
<1>2. WalkOrder'
  BY DEF IInv, WalkOrder, WalkEnd, Distance
<1>3. QED
  BY <1>1, <1>2, TableKept DEF IInv, WalkEnd

LEMMA WalkReturnInv ==
    ASSUME IInv, WalkReturn
    PROVE  IInv'
<1>1. TypeOK'
  BY RoutingAssumption DEF IInv, TypeOK, WalkReturn, tableVars
<1>2. WalkOrder'
  BY DEF WalkOrder, WalkReturn
<1>3. QED
  BY <1>1, <1>2, TableKept DEF IInv, WalkReturn

LEMMA SetSelfInv ==
    ASSUME IInv, SetSelf
    PROVE  IInv'
<1>1. TypeOK'
  BY DEF IInv, TypeOK, SetSelf, walkVars
<1>2. TableSound'
  BY DEF IInv, TableSound, SetSelf
<1>3. WalkOrder'
  BY DEF IInv, WalkOrder, SetSelf, walkVars, Distance
<1>4. QED
  BY <1>1, <1>2, <1>3 DEF IInv

LEMMA StutterInv ==
    ASSUME IInv, UNCHANGED vars
    PROVE  IInv'
<1>1. TypeOK'
  BY DEF IInv, TypeOK, vars, tableVars, walkVars
<1>2. TableSound'
  BY DEF IInv, TableSound, vars, tableVars
<1>3. WalkOrder'
  BY DEF IInv, WalkOrder, vars, walkVars, Distance
<1>4. QED
  BY <1>1, <1>2, <1>3 DEF IInv

-----------------------------------------------------------------------------
(* The theorems. *)

LEMMA NextInv == IInv /\ [Next]_vars => IInv'
<1> SUFFICES ASSUME IInv, [Next]_vars PROVE IInv'
  OBVIOUS
<1>1. ASSUME NEW n \in Candidate, Touch(n) \/ TouchPort0(n) \/ RemoveNode(n)
      PROVE  IInv'
  BY <1>1, RoutingAssumption, TouchInv, TouchPort0Inv, RemoveNodeInv
<1>2. ASSUME NEW x \in Ids(Candidate), RemoveNode([id |-> x, addr |-> NoAddress])
      PROVE  IInv'
  BY <1>2, RemoveNodeInv
<1>3. CASE SetSelf
  BY <1>3, SetSelfInv
<1>4. CASE Walk
  <2>1. ASSUME NEW x \in Target, NEW me \in BOOLEAN, WalkBegin(x, me)
        PROVE  IInv'
    BY <2>1, RoutingAssumption, WalkBeginInv
  <2>2. ASSUME NEW b \in Bit, WalkNear(b) \/ WalkFar(b)
        PROVE  IInv'
    BY <2>2, WalkNearInv, WalkFarInv
  <2>3. CASE WalkSelf \/ WalkEnd \/ WalkReturn
    BY <2>3, WalkSelfInv, WalkEndInv, WalkReturnInv
  <2>4. QED
    BY <1>4, <2>1, <2>2, <2>3 DEF Walk
<1>5. CASE UNCHANGED vars
  BY <1>5, StutterInv
<1>6. QED
  BY <1>1, <1>2, <1>3, <1>4, <1>5 DEF Next

(* The invariant holds in every reachable state. *)
THEOREM Invariance == Spec => []IInv
<1>1. Init => IInv
  BY InitInv
<1>2. IInv /\ [Next]_vars => IInv'
  BY NextInv
<1>3. QED
  BY <1>1, <1>2, PTL DEF Spec

(* Every variable of the routing table keeps its type, for identifiers of  *)
(* any length and any capacity.                                            *)
THEOREM TypeCorrect == Spec => []TypeOK
<1>1. IInv => TypeOK
  BY DEF IInv
<1>2. QED
  BY <1>1, Invariance, PTL

(* Whatever is touched and removed, each node stays in the bucket of its   *)
(* identifier, with a valid address, and no bucket and no list grows       *)
(* beyond its capacity (touch, push, pop_front, remove, AddPort0Node).     *)
THEOREM TableStaysSound == Spec => []TableSound
<1>1. IInv => TableSound
  BY DEF IInv
<1>2. QED
  BY <1>1, Invariance, PTL

LEMMA Nearest == IInv => FoundIsNearer
<1> SUFFICES ASSUME IInv, walk # "idle", NEW n \in out, NEW x \in NodeId,
                    NEW b \in near \cup far, InBucket(x, b)
             PROVE  Nearer(Distance(n.id), Distance(x))
  BY DEF FoundIsNearer
<1> DEFINE d == Distance(SelfID)
<1>1. n.id \in NodeId /\ target \in NodeId /\ b \in Bit /\ d \subseteq Bit
  BY DistanceBits DEF IInv, TypeOK, Distance, NodeId
<1>2. /\ near \subseteq d /\ far \subseteq Bit \ d
      /\ near # {} => far = Bit \ d
      /\ \A c \in d \ near, a \in near : a < c
      /\ \A c \in (Bit \ d) \ far, a \in far : c < a
  BY DEF IInv, WalkOrder
<1>3. CASE n.id = SelfID /\ near = {}
  <2>1. b \notin Xor(target, SelfID)
    BY <1>2, <1>3 DEF Distance
  <2>2. QED
    BY <1>1, <1>3, <2>1, SelfIsNearer DEF Distance
<1>4. ASSUME NEW c \in Bit, InBucket(n.id, c), c \notin near \cup far
      PROVE  Nearer(Distance(n.id), Distance(x))
  <2>1. (c \in d /\ b < c) \/ (b \notin d /\ c < b)
    <3> HIDE DEF d
    <3>1. CASE b \in near
      <4>1. far = Bit \ d
        BY <1>2, <3>1
      <4>2. c \in d \ near
        BY <1>4, <4>1
      <4>3. QED
        BY <1>2, <3>1, <4>2
    <3>2. CASE b \in far /\ c \in d
      <4>1. b \notin d /\ b # c
        BY <1>2, <3>2
      <4>2. b < c \/ c < b
        <5>1. b \in Nat /\ c \in Nat
          BY <1>1, <1>4, BitNat
        <5>2. QED
          BY ONLY <4>1, <5>1
      <4>3. QED
        BY <3>2, <4>1, <4>2
    <3>3. CASE b \in far /\ c \notin d
      BY <1>2, <1>4, <3>3
    <3>4. QED
      BY <3>1, <3>2, <3>3
  <2>2. QED
    BY <1>1, <1>4, <2>1, VisitedIsNearer DEF Distance
<1>5. QED
  BY <1>3, <1>4 DEF IInv, WalkOrder

(* The order in which neighbors visits the buckets: whatever it has found  *)
(* is nearer to the target than anything an unvisited bucket can hold.     *)
THEOREM NearestBucketsFirst == Spec => []FoundIsNearer
BY Nearest, Invariance, PTL
-----------------------------------------------------------------------------
(* The order of bytes. *)

LEMMA Multiple ==
    ASSUME NEW m \in Nat \ {0}, NEW i \in Int, i >= 1
    PROVE  i * m >= m
<1>1. (i - 1) * m >= 0
  BY Z3
<1>2. i * m = (i - 1) * m + m
  BY Z3
<1>3. QED
  BY ONLY <1>1, <1>2

(* A number is its quotient and its remainder. *)
LEMMA Division ==
    ASSUME NEW m \in Nat \ {0}, NEW a \in Nat
    PROVE  \E q \in Int, r \in 0..(m - 1) : a = q * m + r /\ q = a \div m /\ r = a % m
OBVIOUS

(* No two bits have one rank. *)
LEMMA RankInjective ==
    \A b, c \in Bit : /\ Rank(b) \in Int
                      /\ Rank(b) = Rank(c) => b = c
<1> SUFFICES ASSUME NEW b \in Bit, NEW c \in Bit
             PROVE  Rank(b) \in Int /\ (Rank(b) = Rank(c) => b = c)
  OBVIOUS
<1>1. Bytes \in Int /\ ByteBits \in Nat \ {0} /\ b \in Nat /\ c \in Nat
  BY RoutingAssumption DEF Bit
<1>2. PICK p \in Int, r \in 0..(ByteBits - 1) :
        b = p * ByteBits + r /\ p = b \div ByteBits /\ r = b % ByteBits
  BY <1>1, Division
<1>3. PICK q \in Int, s \in 0..(ByteBits - 1) :
        c = q * ByteBits + s /\ q = c \div ByteBits /\ s = c % ByteBits
  BY <1>1, Division
<1>4. Rank(b) = (Bytes - 1 - p) * ByteBits + r /\ Rank(c) = (Bytes - 1 - q) * ByteBits + s
  BY <1>2, <1>3 DEF Rank
<1>5. p \in Int /\ q \in Int /\ r \in Int /\ s \in Int /\ ByteBits \in Int /\ Bytes \in Int
  BY <1>1, <1>2, <1>3
<1>6. Rank(b) \in Int
  <2>1. (Bytes - 1 - p) * ByteBits \in Int
    BY <1>5
  <2>2. QED
    BY <1>4, <1>5, <2>1
<1>7. ASSUME Rank(b) = Rank(c)
      PROVE  b = c
  <2>1. (Bytes - 1 - p) * ByteBits - (Bytes - 1 - q) * ByteBits = (q - p) * ByteBits
    BY <1>5, Z3
  <2>2. (q - p) * ByteBits = s - r
    <3>1. (Bytes - 1 - p) * ByteBits \in Int /\ (Bytes - 1 - q) * ByteBits \in Int
      BY <1>5
    <3>2. QED
      BY <1>4, <1>5, <1>7, <2>1, <3>1
  <2>3. (p - q) * ByteBits = r - s
    BY <1>5, <2>2, Z3
  <2>4. ~(q - p >= 1) /\ ~(p - q >= 1)
    <3>1. q - p \in Int /\ p - q \in Int
      BY <1>5
    <3>2. s - r < ByteBits /\ r - s < ByteBits
      BY <1>1, <1>2, <1>3
    <3>3. CASE q - p >= 1
      BY <1>1, <2>2, <3>1, <3>2, <3>3, <1>5, Multiple
    <3>4. CASE p - q >= 1
      BY <1>1, <2>3, <3>1, <3>2, <3>4, <1>5, Multiple
    <3>5. QED
      BY <3>3, <3>4
  <2>5. p = q
    BY <1>5, <2>4
  <2>6. (q - p) * ByteBits = 0
    BY <1>5, <2>5
  <2>7. r = s
    BY ONLY <1>5, <2>2, <2>6
  <2>8. p * ByteBits + r = q * ByteBits + s
    BY ONLY <2>5, <2>7
  <2>9. QED
    BY ONLY <1>2, <1>3, <2>8
<1>8. QED
  BY <1>6, <1>7

(* ByteLess is a strict order. *)
LEMMA ByteLessIrreflexive == \A d : ~ByteLess(d, d)
BY DEF ByteLess

LEMMA ByteLessTransitive ==
    ASSUME NEW d, NEW e, NEW f, ByteLess(d, e), ByteLess(e, f)
    PROVE  ByteLess(d, f)
<1>1. PICK b \in Bit :
        b \in e /\ b \notin d /\ \A a \in Bit : Rank(a) > Rank(b) => (a \in d <=> a \in e)
  BY DEF ByteLess
<1>2. PICK c \in Bit :
        c \in f /\ c \notin e /\ \A a \in Bit : Rank(a) > Rank(c) => (a \in e <=> a \in f)
  BY DEF ByteLess
<1>3. \A a \in Bit : Rank(a) \in Int
  BY RankInjective
<1>4. Rank(b) # Rank(c)
  BY <1>1, <1>2, RankInjective
<1>5. CASE Rank(b) > Rank(c)
  <2>1. b \in f /\ b \notin d
    BY <1>1, <1>2, <1>5
  <2>2. \A a \in Bit : Rank(a) > Rank(b) => (a \in d <=> a \in f)
    BY <1>1, <1>2, <1>3, <1>5
  <2>3. QED
    BY <2>1, <2>2 DEF ByteLess
<1>6. CASE Rank(c) > Rank(b)
  <2>1. c \in f /\ c \notin d
    BY <1>1, <1>2, <1>6
  <2>2. \A a \in Bit : Rank(a) > Rank(c) => (a \in d <=> a \in f)
    BY <1>1, <1>2, <1>3, <1>6
  <2>3. QED
    BY <2>1, <2>2 DEF ByteLess
<1>7. QED
  BY <1>3, <1>4, <1>5, <1>6

-----------------------------------------------------------------------------
(* pick. *)

(* A set of naturals has a least element. *)
LEMMA Least ==
    ASSUME NEW U, U \subseteq Nat, U # {}
    PROVE  \E m \in U : \A j \in U : m <= j
<1>1. \E m \in U : \A j \in U : ~(<<j, m>> \in OpToRel(<, Nat))
  BY NatLessThanWellFounded, WFMin
<1>2. PICK m \in U : \A j \in U : ~(<<j, m>> \in OpToRel(<, Nat))
  BY <1>1
<1>3. \A j \in U : ~(j < m)
  BY <1>2 DEF OpToRel
<1>4. QED
  BY <1>3

(* Each identifier of the list is that of a node in the map. *)
LEMMA MappedCovers ==
    ASSUME NEW S, NEW L \in Seq(S), NEW k \in DOMAIN L
    PROVE  \E n \in Mapped(L) : n.id = L[k].id
<1> DEFINE U == {j \in DOMAIN L : L[j].id = L[k].id}
<1>1. DOMAIN L = 1..Len(L) /\ Len(L) \in Nat
  OBVIOUS
<1>2. U \subseteq Nat /\ U # {}
  BY <1>1
<1>3. PICK m \in U : \A j \in U : m <= j
  BY <1>2, Least
<1>4. \A j \in DOMAIN L : j < m => L[j].id # L[m].id
  BY <1>1, <1>3
<1>5. L[m] \in Mapped(L)
  BY <1>3, <1>4 DEF Mapped
<1>6. QED
  BY <1>3, <1>5

LEMMA MappedFinite ==
    ASSUME NEW S, NEW L \in Seq(S)
    PROVE  IsFiniteSet(Mapped(L)) /\ Mapped(L) \subseteq {L[k] : k \in DOMAIN L}
<1>1. IsFiniteSet(DOMAIN L)
  <2>1. DOMAIN L = 1..Len(L) /\ Len(L) \in Int
    OBVIOUS
  <2>2. QED
    BY <2>1, FS_Interval
<1> DEFINE I == {L[k] : k \in DOMAIN L}
           f == [k \in DOMAIN L |-> L[k]]
<1>2. IsFiniteSet(I)
  <2>1. f \in Surjection(DOMAIN L, I)
    BY DEF Surjection
  <2>2. QED
    BY <1>1, <2>1, FS_Surjection
<1>3. Mapped(L) \subseteq I
  BY DEF Mapped
<1>4. QED
  BY <1>2, <1>3, FS_Subset

(* pick leaves an identifier of the list out only when it has picked limit *)
(* nodes.                                                                  *)
LEMMA PickCovers ==
    ASSUME NEW S, NEW L \in Seq(S), NEW k \in DOMAIN L
    PROVE  L[k].id \in Ids(Pick(L)) \/ Cardinality(Pick(L)) >= Limit
<1> DEFINE M == Mapped(L)
           Before(n) == {m \in M : ByteLess(Distance(m.id), Distance(n.id))}
           P == Pick(L)
<1>1. PICK n \in M : n.id = L[k].id
  BY MappedCovers
<1>2. IsFiniteSet(M) /\ P \subseteq M
  BY MappedFinite DEF Pick
<1>3. P = {m \in M : Cardinality(Before(m)) < Limit}
  BY DEF Pick
<1>4. CASE n \in P
  BY <1>1, <1>4 DEF Ids
<1>5. CASE n \notin P
  <2> HIDE DEF M, P
  <2>1. \A m : /\ Before(m) \subseteq M /\ IsFiniteSet(Before(m))
               /\ Cardinality(Before(m)) \in Nat
    BY <1>2, FS_Subset, FS_CardinalityType
  <2> DEFINE U == {Cardinality(Before(m)) : m \in M \ P}
  <2>2. U \subseteq Nat /\ U # {}
    BY <1>1, <1>5, <2>1
  <2>3. PICK l \in U : \A j \in U : l <= j
    BY <2>2, Least
  <2>4. PICK o \in M \ P : l = Cardinality(Before(o))
    BY <2>3
  <2>5. \A m \in M \ P : Cardinality(Before(o)) <= Cardinality(Before(m))
    BY <2>3, <2>4
  <2>6. ASSUME NEW m \in Before(o)
        PROVE  m \in P
    <3>1. m \in M /\ ByteLess(Distance(m.id), Distance(o.id))
      BY <2>6
    <3>2. Before(m) \subseteq Before(o)
      BY <3>1, ByteLessTransitive
    <3>3. m \notin Before(m)
      BY ByteLessIrreflexive
    <3>4. Cardinality(Before(m)) \in Nat /\ Cardinality(Before(o)) \in Nat
      BY <2>1
    <3>5. IsFiniteSet(Before(o))
      BY <2>1
    <3> HIDE DEF Before
    <3>6. Before(m) \in SUBSET Before(o) /\ Before(m) # Before(o)
      BY <2>6, <3>2, <3>3
    <3>7. /\ Cardinality(Before(m)) <= Cardinality(Before(o))
          /\ Cardinality(Before(m)) # Cardinality(Before(o))
      BY <3>5, <3>6, FS_Subset
    <3>8. QED
      BY <2>5, <3>1, <3>4, <3>7
  <2>7. Cardinality(Before(o)) <= Cardinality(P)
    <3>1. IsFiniteSet(P) /\ Before(o) \subseteq P
      BY <1>2, <2>6, FS_Subset
    <3>2. QED
      BY <3>1, FS_Subset
  <2>8. Cardinality(Before(o)) >= Limit
    <3>1. ~(Cardinality(Before(o)) < Limit) /\ Cardinality(Before(o)) \in Nat
      BY <1>3, <2>1, <2>4
    <3> HIDE DEF Before
    <3>2. QED
      BY <3>1, RoutingAssumption
  <2>9. IsFiniteSet(P) /\ Cardinality(P) \in Nat
    BY <1>2, FS_Subset, FS_CardinalityType
  <2>10. Cardinality(P) >= Limit
    <3>1. Cardinality(Before(o)) \in Nat
      BY <2>1
    <3> HIDE DEF Before
    <3>2. QED
      BY <2>7, <2>8, <2>9, <3>1, RoutingAssumption
  <2>11. QED
    BY <2>10 DEF P
<1>6. QED
  BY <1>4, <1>5

-----------------------------------------------------------------------------
(* Nothing is missed. *)

(* What the lookup has not found of the steady nodes is in a bucket it has *)
(* still to visit.                                                         *)
WalkCovers ==
    /\ IsFiniteSet(out)
    /\ steady \subseteq Ids(Table(bucket))
    /\ walk \in {"near", "far"} =>
          \A x \in steady, b \in Bit :
              InBucket(x, b) => x \in Ids(out) \/ b \in near \cup far

MInv == WalkCovers /\ NothingMissed

(* An identifier has one bucket. *)
LEMMA OneBucket ==
    ASSUME NEW x, NEW b \in Bit, NEW c \in Bit, InBucket(x, b), InBucket(x, c)
    PROVE  b = c
BY BitNat DEF InBucket, TopBit

(* A node of the table is in the bucket of its identifier. *)
LEMMA InTable ==
    ASSUME IInv, NEW x \in Ids(Table(bucket))
    PROVE  \E b \in Bit :
              /\ InBucket(x, b)
              /\ \E k \in DOMAIN bucket[b] : bucket[b][k].id = x
<1>1. PICK b \in Bit : \E n \in ToSet(bucket[b]) : n.id = x
  BY DEF Ids, Table
<1>2. \E k \in DOMAIN bucket[b] : bucket[b][k].id = x
  BY <1>1 DEF ToSet
<1>3. QED
  BY <1>2 DEF IInv, TableSound

LEMMA PickFinite ==
    ASSUME IInv, NEW b \in Bit
    PROVE  IsFiniteSet(Pick(bucket[b]))
<1>1. bucket[b] \in Seq(Node)
  BY DEF IInv, TypeOK
<1>2. Pick(bucket[b]) \subseteq Mapped(bucket[b])
  BY DEF Pick
<1>3. QED
  BY <1>1, <1>2, MappedFinite, FS_Subset

(* After the visit of a bucket its steady nodes are found or limit nodes   *)
(* of it are.                                                              *)
LEMMA VisitCovers ==
    ASSUME IInv, MInv, NEW b \in Bit, NEW x \in steady, InBucket(x, b)
    PROVE  x \in Ids(Pick(bucket[b])) \/ Cardinality(Pick(bucket[b])) >= Limit
<1>1. x \in Ids(Table(bucket))
  BY DEF MInv, WalkCovers
<1>2. PICK c \in Bit : InBucket(x, c) /\ \E k \in DOMAIN bucket[c] : bucket[c][k].id = x
  BY <1>1, InTable
<1>3. c = b
  BY <1>2, OneBucket
<1>4. PICK k \in DOMAIN bucket[b] : bucket[b][k].id = x
  BY <1>2, <1>3
<1>5. bucket[b] \in Seq(Node)
  BY DEF IInv, TypeOK
<1>6. QED
  BY <1>4, <1>5, PickCovers

(* The visit of bucket b, either way. *)
LEMMA VisitMissesNone ==
    ASSUME IInv, IInv', MInv, NEW b \in near \cup far, walk \in {"near", "far"},
           NEW next \in {"near", "far"}, Found(out \cup Pick(bucket[b]), next),
           near' \cup far' = (near \cup far) \ {b},
           UNCHANGED <<bucket, target, steady>>
    PROVE  MInv'
<1> DEFINE P == Pick(bucket[b])
<1>1. b \in Bit /\ steady \subseteq NodeId /\ steady \subseteq Ids(Table(bucket))
  BY DEF IInv, TypeOK, MInv, WalkCovers
<1>2. IsFiniteSet(out) /\ IsFiniteSet(P)
  BY <1>1, PickFinite DEF MInv, WalkCovers
<1>3. out' = out \cup P /\ walk' = IF Cardinality(out') >= Limit THEN "done" ELSE next
  BY DEF Found
<1>4. IsFiniteSet(out') /\ Cardinality(out') \in Nat /\ Cardinality(P) <= Cardinality(out')
  BY <1>2, <1>3, FS_Union, FS_Subset, FS_CardinalityType
<1>5. Ids(out') = Ids(out) \cup Ids(P)
  BY <1>3 DEF Ids
<1>6. \A x \in steady, c \in Bit :
         InBucket(x, c) => x \in Ids(out) \/ c \in near \cup far
  BY DEF MInv, WalkCovers
<1>7. WalkCovers'
  <2>1. ASSUME walk' \in {"near", "far"}, NEW x \in steady, NEW c \in Bit, InBucket(x, c)
        PROVE  x \in Ids(out') \/ c \in near' \cup far'
    <3>1. CASE c = b
      <4>1. ~(Cardinality(out') >= Limit)
        BY <1>3, <2>1
      <4>2. ~(Cardinality(P) >= Limit)
        BY <1>2, <1>4, <4>1, FS_CardinalityType, RoutingAssumption
      <4>3. x \in Ids(P)
        BY <1>1, <2>1, <3>1, <4>2, VisitCovers
      <4>4. QED
        BY <1>5, <4>3
    <3>2. CASE c # b
      BY <1>5, <1>6, <2>1, <3>2
    <3>3. QED
      BY <3>1, <3>2
  <2>2. QED
    BY <1>1, <1>4, <2>1 DEF WalkCovers
<1>8. NothingMissed'
  <2> SUFFICES ASSUME walk' = "done", NEW x \in steady, x \notin Ids(out')
               PROVE  /\ Cardinality(out') >= Limit
                      /\ \A n \in out' :
                            \/ Nearer(Distance(n.id)', Distance(x)')
                            \/ \E c \in Bit : InBucket(n.id, c) /\ InBucket(x, c)
    BY DEF NothingMissed
  <2>1. Cardinality(out') >= Limit
    BY <1>3
  <2>2. PICK c \in Bit : InBucket(x, c)
    BY <1>1, InTable
  <2>3. x \in NodeId /\ c \in near \cup far
    BY <1>1, <1>5, <1>6, <2>2
  <2>4. \A y : Distance(y)' = Distance(y)
    BY DEF Distance
  <2>5. ASSUME NEW n \in out'
        PROVE  \/ Nearer(Distance(n.id), Distance(x))
               \/ \E a \in Bit : InBucket(n.id, a) /\ InBucket(x, a)
    <3>1. CASE n \in out
      <4>1. walk # "idle"
        OBVIOUS
      <4>2. FoundIsNearer
        BY Nearest
      <4>3. QED
        BY <2>2, <2>3, <3>1, <4>1, <4>2 DEF FoundIsNearer
    <3>2. CASE n \in P /\ c = b
      BY <1>1, <2>2, <3>2, PickFromBucket
    <3>3. CASE c # b
      <4>1. walk' # "idle" /\ c \in near' \cup far'
        BY <2>3, <3>3
      <4>2. FoundIsNearer'
        BY Nearest, PTL
      <4>3. Nearer(Distance(n.id)', Distance(x)')
        BY <2>2, <2>3, <2>5, <4>1, <4>2 DEF FoundIsNearer
      <4>4. QED
        BY <2>4, <4>3
    <3>4. QED
      BY <1>3, <2>5, <3>1, <3>2, <3>3
  <2>6. QED
    BY <2>1, <2>4, <2>5
<1>9. QED
  BY <1>7, <1>8 DEF MInv

LEMMA WalkSelfMissesNone ==
    ASSUME IInv, IInv', MInv, WalkSelf
    PROVE  MInv'
<1>1. /\ walk = "near"
      /\ UNCHANGED <<bucket, target, near, far, steady>>
      /\ walk' = IF Cardinality(out') >= Limit THEN "done" ELSE "far"
      /\ \/ out' = out
         \/ out' = out \cup {[id |-> SelfID, addr |-> NoAddress]}
  BY DEF WalkSelf, Found, tableVars
<1>2. IsFiniteSet(out') /\ Ids(out) \subseteq Ids(out')
  BY <1>1, FS_AddElement DEF MInv, WalkCovers, Ids
<1>3. WalkCovers'
  BY <1>1, <1>2 DEF MInv, WalkCovers
<1>4. NothingMissed'
  <2> SUFFICES ASSUME walk' = "done", NEW x \in steady, x \notin Ids(out')
               PROVE  /\ Cardinality(out') >= Limit
                      /\ \A n \in out' : Nearer(Distance(n.id)', Distance(x)')
    BY <1>1 DEF NothingMissed
  <2>1. PICK c \in Bit : InBucket(x, c)
    BY InTable DEF MInv, WalkCovers
  <2>2. c \in near' \cup far' /\ x \in NodeId
    BY <1>1, <1>2, <2>1 DEF MInv, WalkCovers, IInv, TypeOK
  <2>3. FoundIsNearer'
    BY Nearest, PTL
  <2>4. QED
    BY <1>1, <2>1, <2>2, <2>3 DEF FoundIsNearer
<1>5. QED
  BY <1>3, <1>4 DEF MInv

LEMMA WalkEndMissesNone ==
    ASSUME IInv, MInv, WalkEnd
    PROVE  MInv'
<1>1. /\ walk = "far" /\ walk' = "done" /\ far = {} /\ near = {}
      /\ UNCHANGED <<bucket, target, near, far, out, steady>>
  BY DEF WalkEnd, tableVars, IInv, WalkOrder
<1>2. \A x \in steady : x \in Ids(out)
  BY <1>1, InTable DEF MInv, WalkCovers
<1>3. WalkCovers'
  BY <1>1 DEF MInv, WalkCovers
<1>4. NothingMissed'
  BY <1>1, <1>2 DEF NothingMissed, Ids
<1>5. QED
  BY <1>3, <1>4 DEF MInv

LEMMA WalkBeginMissesNone ==
    ASSUME IInv, NEW x \in NodeId, NEW me \in BOOLEAN, WalkBegin(x, me)
    PROVE  MInv'
<1>1. /\ walk' = "near" /\ out' = {} /\ near' \cup far' = Bit
      /\ steady' = Ids(Table(bucket)) /\ bucket' = bucket
  BY DistanceBits DEF WalkBegin, tableVars, NodeId
<1>2. WalkCovers'
  BY <1>1, FS_EmptySet DEF WalkCovers, Ids, Table
<1>3. NothingMissed'
  BY <1>1 DEF NothingMissed
<1>4. QED
  BY <1>2, <1>3 DEF MInv

LEMMA WalkReturnMissesNone ==
    ASSUME WalkReturn
    PROVE  MInv'
BY FS_EmptySet DEF WalkReturn, MInv, WalkCovers, NothingMissed

(* The table changes: the steady nodes are those that are still in it. *)
LEMMA TableChangeMissesNone ==
    ASSUME MInv, UNCHANGED walkVars,
           \/ steady' = steady \cap Ids(Table(bucket'))
           \/ UNCHANGED <<bucket, steady>>
    PROVE  MInv'
<1>1. /\ UNCHANGED <<walk, target, near, far, out>>
      /\ steady' \subseteq steady /\ steady' \subseteq Ids(Table(bucket'))
  BY DEF walkVars, MInv, WalkCovers
<1>2. WalkCovers'
  BY <1>1 DEF MInv, WalkCovers, Ids, Table
<1>3. NothingMissed'
  BY <1>1 DEF MInv, NothingMissed, Ids, Distance
<1>4. QED
  BY <1>2, <1>3 DEF MInv

LEMMA NextMissesNone == IInv /\ IInv' /\ MInv /\ [Next]_vars => MInv'
<1> SUFFICES ASSUME IInv, IInv', MInv, [Next]_vars PROVE MInv'
  OBVIOUS
<1>1. ASSUME NEW n, Touch(n) \/ TouchPort0(n) \/ RemoveNode(n)
      PROVE  MInv'
  BY <1>1, TableChangeMissesNone
     DEF Touch, PushKnown, PushNew, TouchPort0, RemoveNode, SetBucket
<1>2. CASE SetSelf
  BY <1>2, TableChangeMissesNone DEF SetSelf
<1>3. CASE Walk
  <2>1. ASSUME NEW x \in Target, NEW me \in BOOLEAN, WalkBegin(x, me)
        PROVE  MInv'
    BY <2>1, RoutingAssumption, WalkBeginMissesNone
  <2>2. ASSUME NEW b \in Bit, WalkNear(b)
        PROVE  MInv'
    <3>1. /\ walk = "near" /\ b \in near /\ b \notin far
          /\ near' = near \ {b} /\ far' = far
          /\ Found(out \cup Pick(bucket[b]), "near")
          /\ UNCHANGED <<bucket, target, steady>>
      BY <2>2 DEF WalkNear, TopBit, tableVars, IInv, WalkOrder
    <3>2. QED
      BY <3>1, VisitMissesNone
  <2>3. ASSUME NEW b \in Bit, WalkFar(b)
        PROVE  MInv'
    <3>1. /\ walk = "far" /\ b \in far /\ b \notin near
          /\ near' = near /\ far' = far \ {b}
          /\ Found(out \cup Pick(bucket[b]), "far")
          /\ UNCHANGED <<bucket, target, steady>>
      BY <2>3 DEF WalkFar, tableVars, IInv, WalkOrder
    <3>2. QED
      BY <3>1, VisitMissesNone
  <2>4. CASE WalkSelf \/ WalkEnd \/ WalkReturn
    BY <2>4, WalkSelfMissesNone, WalkEndMissesNone, WalkReturnMissesNone
  <2>5. QED
    BY <1>3, <2>1, <2>2, <2>3, <2>4 DEF Walk
<1>4. CASE UNCHANGED vars
  BY <1>4, TableChangeMissesNone DEF vars, tableVars
<1>5. QED
  BY <1>1, <1>2, <1>3, <1>4 DEF Next

(* While other threads touch and remove nodes, a lookup leaves a node that *)
(* is in the table all the time out only when it has found limit nodes,    *)
(* each nearer to the target or of the same bucket (neighbors, pick).      *)
THEOREM LookupMissesNothing == Spec => []NothingMissed
<1>1. Init => MInv
  BY FS_EmptySet DEF Init, MInv, WalkCovers, NothingMissed
<1>2. IInv /\ IInv' /\ MInv /\ [Next]_vars => MInv'
  BY NextMissesNone
<1>3. MInv => NothingMissed
  BY DEF MInv
<1>4. QED
  BY <1>1, <1>2, <1>3, Invariance, PTL DEF Spec

=============================================================================
