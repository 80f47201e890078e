----------------------------- MODULE StoreProofs -----------------------------
(***************************************************************************)
(* Proofs about what a node keeps for the others: the cache of dats        *)
(* (DatCache) and KeyDB (KeyStore).                                        *)
(*                                                                         *)
(* DatCache, for any dats, versions and lengths, any threads in Put and    *)
(* any number of deletions, publications, rebuilds, errors and crashes.    *)
(* RowNotAhead is not inductive: a size in the database was in the queue,  *)
(* in a list of UpdateThread or of the rebuild, in the new database, or in *)
(* the hands of a thread before, so that AllSound says it of all these     *)
(* places; and that a write does not shorten a file rests on what its      *)
(* thread has seen of it (Writing).  That a rebuild forgets nothing rests  *)
(* on what it has found so far (Found), and on UpdateThread not running    *)
(* then (Phases).                                                          *)
(*                                                                         *)
(* KeyStore, for any nodes and keys, any limits and any number of events:  *)
(* what a pass has noted as accepted has been taken by some node, for      *)
(* nothing is forgotten of that while PublishOriginal is at work           *)
(* (Accounted).  The other properties are inductive with the types.        *)
(***************************************************************************)
EXTENDS DatCache, KeyStore, SequenceTheorems, FiniteSetTheorems, WellFoundedInduction, TLAPS

USE DEF history

-----------------------------------------------------------------------------
(* DatCache: the inductive invariant. *)

(* A thread that is about to write has looked at a file that ends inside   *)
(* its part, and what the file has of the part is the same: it still does, *)
(* unless the thread is late.                                              *)
Span(w) == w.part.start <= w.size /\ w.size < w.part.start + w.part.len

Seen(w, f) ==
    /\ Len(f) = w.size
    /\ \A i \in 1..w.size - w.part.start : f[w.part.start + i] = <<w.part.ver, w.part.start + i>>

Has(f, p) ==
    /\ Len(f) >= p.start + p.len
    /\ \A i \in 1..p.len : f[p.start + i] = <<p.ver, p.start + i>>

WritingWell(w) ==
    /\ w.pc = "write" => Span(w) /\ (w.late \/ Seen(w, file[w.dat]))
    /\ w.pc = "queue" => w.late \/ w.dat \in torn \/ Has(file[w.dat], w.part)

Writing == \A t \in Putter : WritingWell(put[t])

(* Nothing that is in the database or on its way to it says more of a dat  *)
(* than the file has, except of those that are torn or ghosts and the one  *)
(* that the admin server is about to remove the row of.                    *)
Held(f, n) == f # <<>> /\ n <= Len(f)

Told(es, d, f) == \A i \in 1..Len(es) : es[i].dat = d => Held(f, es[i].size)

Queueing(d) == \E t \in Putter : put[t].pc = "queue" /\ put[t].dat = d

Sound(d) ==
    /\ db[d].row => Held(file[d], db[d].size)
    /\ newdb[d].row => Held(file[d], newdb[d].size)
    /\ Told(queue, d, file[d]) /\ Told(upd.batch, d, file[d]) /\ Told(rb.list, d, file[d])
    /\ d \in pub => file[d] # <<>>
    /\ \A t \in Putter : put[t].pc = "queue" /\ put[t].dat = d => Held(file[d], put[t].total)

Deleting(d) == del # NotBusy /\ del.dat = d

AllSound == \A d \in Dat : d \in torn \cup ghost \/ Deleting(d) \/ Sound(d)

(* While the files are looked for, UpdateThread does not run, so that the  *)
(* entries stay in the queue; and there are no rows without the table.     *)
Phases ==
    /\ rb.pc \notin {"none", "join"} => upd.pc = "none"
    /\ ~dbTable => \A d \in Dat : ~db[d].row
    /\ rb.pc \in {"old", "new"} => rb.todo = {} /\ rb.list = <<>>

(* A rebuild has found a file, or comes to its place, or will have an      *)
(* entry about it when it has ended, unless it has dropped it.             *)
Coming(d) == About(queue, d) \/ Queueing(d)

Found ==
    \A d \in Dat :
        rb.pc \in {"scan", "old", "new"} /\ file[d] # <<>> /\ d \notin torn \cup rb.missed =>
            \/ d \in rb.todo \/ About(rb.list, d) \/ newdb[d].row
            \/ Coming(d)

CacheInv == CacheTypeOK /\ Writing /\ AllSound /\ Phases /\ Found /\ NothingForgotten
-----------------------------------------------------------------------------
(* Data. *)

(* A nonempty set of places in a list has a last one. *)
LEMMA MaxIn ==
    ASSUME NEW n \in Nat, NEW S, S \subseteq 1..n, S # {}
    PROVE  Max(S) \in S
<1> DEFINE U == {n - i : i \in S}
<1>1. U \subseteq Nat /\ U # {}
  <2>1. \A i \in S : n - i \in Nat
    OBVIOUS
  <2>2. \E i \in S : n - i \in U
    OBVIOUS
  <2>3. QED  BY <2>1, <2>2
<1> DEFINE R == {ss \in Nat \X Nat : ss[1] < ss[2]}
<1>r. IsWellFoundedOn(R, Nat)
  BY NatLessThanWellFounded DEF OpToRel
<1>2. PICK m \in U : \A j \in U : ~(<<j, m>> \in R)
  <2> HIDE DEF R, U
  <2>1. QED  BY <1>1, <1>r, WFMin
<1>3. \A j \in U : ~(j < m)
  BY <1>1, <1>2
<1>4. PICK x \in S : m = n - x
  OBVIOUS
<1>5. ASSUME NEW y \in S  PROVE x >= y
  <2>1. n - y \in U /\ x \in Int /\ y \in Int
    OBVIOUS
  <2>2. ~(n - y < n - x)
    BY <1>3, <1>4, <2>1
  <2>3. QED  BY <2>1, <2>2
<1>6. QED  BY <1>4, <1>5 DEF Max

LEMMA EntryFacts == \A e \in Entry : e.dat \in Dat /\ e.userdata \in {0, 1} /\ e.size \in Nat
  BY DEF Entry

(* The entries about a dat. *)
LEMMA OfAbout ==
    ASSUME NEW es \in Seq(Entry), NEW d \in Dat
    PROVE  /\ About(es, d) <=> Of(es, d, {0, 1}) # {}
           /\ \A kinds : Of(es, d, kinds) # {} =>
                 /\ Max(Of(es, d, kinds)) \in 1..Len(es)
                 /\ es[Max(Of(es, d, kinds))].dat = d
                 /\ About(es, d)
<1>1. Len(es) \in Nat /\ \A i \in 1..Len(es) : es[i] \in Entry
  OBVIOUS
<1>2. About(es, d) <=> Of(es, d, {0, 1}) # {}
  BY <1>1 DEF About, Of, Entry
<1>3. ASSUME NEW kinds, Of(es, d, kinds) # {}
      PROVE  /\ Max(Of(es, d, kinds)) \in 1..Len(es)
             /\ es[Max(Of(es, d, kinds))].dat = d
             /\ About(es, d)
  <2>1. Of(es, d, kinds) \subseteq 1..Len(es)
    BY DEF Of
  <2>2. Max(Of(es, d, kinds)) \in Of(es, d, kinds)
    BY <1>1, <1>3, <2>1, MaxIn
  <2>3. QED  BY <2>2 DEF Of, About
<1>4. QED  BY <1>2, <1>3

Rows == [Dat -> {NoRow} \cup Row]

LEMMA RowFacts ==
    /\ ~NoRow.row
    /\ \A r \in Row : r.row /\ r.size \in Nat /\ r.published \in BOOLEAN
    /\ \A n \in Nat, b \in BOOLEAN :
          LET r == [row |-> TRUE, size |-> n, published |-> b] IN r \in Row /\ r.row /\ r.size = n
  BY DEF NoRow, Row

(* A row of dat d in rows that new has been made of with the entries es. *)
Source(rows, es, new, d) ==
    /\ About(es, d) \/ rows[d].row => new[d].row
    /\ new[d].row => \/ rows[d].row /\ new[d].size = rows[d].size
                     \/ \E i \in 1..Len(es) : es[i].dat = d /\ new[d].size = es[i].size

LEMMA UpdatedRows ==
    ASSUME NEW rows \in Rows, NEW es \in Seq(Entry)
    PROVE  /\ Updated(rows, es) \in Rows
           /\ \A d \in Dat : Source(rows, es, Updated(rows, es), d)
<1> DEFINE new == Updated(rows, es)
<1>1. ASSUME NEW d \in Dat  PROVE new[d] \in {NoRow} \cup Row /\ Source(rows, es, new, d)
  <2> DEFINE all == Of(es, d, {0, 1})  sizes == Of(es, d, {0})
             dates == Of(es, d, {1})
             pub1 == rows[d].published \/ dates # {}
             size1 == IF sizes = {} THEN rows[d].size ELSE es[Max(sizes)].size
  <2>1. new[d] = IF all = {} THEN rows[d]
                 ELSE IF ~rows[d].row
                   THEN [row |-> TRUE, size |-> es[Max(all)].size, published |-> FALSE]
                 ELSE [row |-> TRUE, size |-> size1, published |-> pub1]
    BY DEF Updated, UpdatedRow
  <2>2. /\ About(es, d) <=> all # {}
        /\ all # {} => Max(all) \in 1..Len(es) /\ es[Max(all)].dat = d
        /\ sizes # {} => Max(sizes) \in 1..Len(es) /\ es[Max(sizes)].dat = d
    BY OfAbout
  <2>3. \A i \in 1..Len(es) : es[i] \in Entry /\ es[i].size \in Nat
    <3>1. ASSUME NEW i \in 1..Len(es)  PROVE es[i] \in Entry
      BY ElementOfSeq
    <3>2. QED  BY <3>1, EntryFacts
  <2>4. rows[d] \in {NoRow} \cup Row
    BY DEF Rows
  <2> HIDE DEF new, all, sizes, dates
  <2>5. CASE all = {}
    BY <2>1, <2>2, <2>4, <2>5 DEF Source
  <2>6. CASE all # {} /\ ~rows[d].row
    <3>1. new[d] = [row |-> TRUE, size |-> es[Max(all)].size, published |-> FALSE]
      BY <2>1, <2>6
    <3>2. new[d] \in Row /\ new[d].row /\ new[d].size = es[Max(all)].size
      <4>1. es[Max(all)].size \in Nat
        BY <2>2, <2>3, <2>6
      <4>2. \A n \in Nat : LET r == [row |-> TRUE, size |-> n, published |-> FALSE]
                           IN  r \in Row /\ r.row /\ r.size = n
        BY RowFacts
      <4>3. QED  BY <3>1, <4>1, <4>2
    <3>3. QED  BY <2>2, <2>6, <3>2 DEF Source
  <2>7. CASE all # {} /\ rows[d].row
    <3>1. new[d] = [row |-> TRUE, size |-> size1, published |-> pub1]
      BY <2>1, <2>7
    <3>2. rows[d] \in Row /\ rows[d].size \in Nat /\ pub1 \in BOOLEAN
      BY <2>4, <2>7, RowFacts
    <3>3. /\ size1 \in Nat
          /\ size1 = rows[d].size \/ \E i \in 1..Len(es) : es[i].dat = d /\ size1 = es[i].size
      <4>1. CASE sizes = {}
        BY <3>2, <4>1
      <4>2. CASE sizes # {}
        <5>1. size1 = es[Max(sizes)].size /\ Max(sizes) \in 1..Len(es)
          BY <2>2, <4>2
        <5>2. size1 \in Nat /\ es[Max(sizes)].dat = d
          BY <2>2, <2>3, <4>2, <5>1
        <5> HIDE DEF size1, pub1
        <5> QED BY <5>1, <5>2
      <4> QED BY <4>1, <4>2
    <3> HIDE DEF size1, pub1
    <3>4. new[d] \in Row /\ new[d].row /\ new[d].size = size1
      BY <3>1, <3>2, <3>3, RowFacts
    <3>5. QED  BY <2>7, <3>3, <3>4 DEF Source
  <2>8. QED  BY <2>5, <2>6, <2>7
<1>2. new = [d \in Dat |-> UpdatedRow(rows[d], es, d)] /\ \A d \in Dat : new[d] = UpdatedRow(rows[d], es, d)
  BY DEF Updated
<1> HIDE DEF new
<1>3. new \in Rows
  BY <1>1, <1>2 DEF Rows
<1>4. QED  BY <1>1, <1>3 DEF new

LEMMA InsertedRows ==
    ASSUME NEW rows \in Rows, NEW es \in Seq(Entry)
    PROVE  /\ Inserted(rows, es) \in Rows
           /\ \A d \in Dat : Source(rows, es, Inserted(rows, es), d)
<1> DEFINE new == Inserted(rows, es)
<1>1. ASSUME NEW d \in Dat  PROVE new[d] \in {NoRow} \cup Row /\ Source(rows, es, new, d)
  <2> DEFINE all == Of(es, d, {0, 1})
  <2>1. new[d] = IF all = {} THEN rows[d]
                 ELSE [row |-> TRUE, size |-> es[Max(all)].size, published |-> FALSE]
    BY DEF Inserted, InsertedRow
  <2>2. /\ About(es, d) <=> all # {}
        /\ all # {} => Max(all) \in 1..Len(es) /\ es[Max(all)].dat = d
    BY OfAbout
  <2>3. \A i \in 1..Len(es) : es[i] \in Entry /\ es[i].size \in Nat
    <3>1. ASSUME NEW i \in 1..Len(es)  PROVE es[i] \in Entry
      BY ElementOfSeq
    <3>2. QED  BY <3>1, EntryFacts
  <2>4. rows[d] \in {NoRow} \cup Row
    BY DEF Rows
  <2> HIDE DEF new, all
  <2>5. CASE all = {}
    BY <2>1, <2>2, <2>4, <2>5 DEF Source
  <2>6. CASE all # {}
    <3>1. new[d] \in Row /\ new[d].row /\ new[d].size = es[Max(all)].size
      BY <2>1, <2>2, <2>3, <2>6, RowFacts
    <3>2. QED  BY <2>2, <2>6, <3>1 DEF Source
  <2>7. QED  BY <2>5, <2>6
<1>2. new = [d \in Dat |-> InsertedRow(rows[d], es, d)] /\ \A d \in Dat : new[d] = InsertedRow(rows[d], es, d)
  BY DEF Inserted
<1> HIDE DEF new
<1>3. new \in Rows
  BY <1>1, <1>2 DEF Rows
<1>4. QED  BY <1>1, <1>3 DEF new
-----------------------------------------------------------------------------
(* The threads in Put. *)

Busy ==
    [pc : {"load", "write", "queue"}, dat : Dat, part : Part,
     size : Nat, total : Nat, late : BOOLEAN]

LEMMA WriterFacts ==
    /\ NotBusy \in Writer /\ Busy \subseteq Writer /\ NotBusy.pc = "idle"
    /\ \A w \in Writer : w.pc # "idle" => w \in Busy
    /\ \A w \in Busy : /\ w.pc \in {"load", "write", "queue"} /\ w.dat \in Dat /\ w.part \in Part
                       /\ w.size \in Nat /\ w.total \in Nat /\ w.late \in BOOLEAN
    /\ \A p \in Part : /\ p.ver \in Version /\ p.start \in Nat /\ p.len \in Nat /\ p.len > 0
                       /\ p.start + p.len <= Length
  BY DatCacheAssumption DEF Writer, Busy, NotBusy, Part

ToWrite(w, n) == [w EXCEPT !.pc = "write", !.size = n, !.late = FALSE]
ToQueue(w, n) == [w EXCEPT !.pc = "queue", !.size = 0, !.total = n]

LEMMA MovedToWrite ==
    ASSUME NEW w \in Busy, NEW n \in Nat, NEW r, r = ToWrite(w, n)
    PROVE  /\ r \in Busy /\ r.pc = "write" /\ r.dat = w.dat /\ r.part = w.part
           /\ r.size = n /\ ~r.late
  BY DEF Busy, ToWrite

LEMMA MovedToQueue ==
    ASSUME NEW w \in Busy, NEW n \in Nat, NEW r, r = ToQueue(w, n)
    PROVE  /\ r \in Busy /\ r.pc = "queue" /\ r.dat = w.dat /\ r.part = w.part
           /\ r.total = n /\ r.late = w.late
  BY DEF Busy, ToQueue

LEMMA Overtaken ==
    ASSUME NEW w \in Busy, NEW r, r = [w EXCEPT !.late = TRUE]
    PROVE  /\ r \in Busy /\ r.pc = w.pc /\ r.dat = w.dat /\ r.part = w.part
           /\ r.size = w.size /\ r.total = w.total /\ r.late
  BY DEF Busy

LEMMA Stated ==
    ASSUME NEW pc \in {"load", "write"}, NEW d \in Dat, NEW p \in Part, NEW n \in Nat
    PROVE  LET r == [pc |-> pc, dat |-> d, part |-> p, size |-> n, total |-> 0, late |-> FALSE] IN
              r \in Busy /\ r.pc = pc /\ r.dat = d /\ r.part = p /\ r.size = n /\ ~r.late
  BY DEF Busy

(* What another thread's write or a deletion does to the threads on a dat: *)
(* it makes them late and leaves the rest.                                 *)
MadeLate(w, r, pcs, d) ==
    /\ r.pc = w.pc
    /\ w.pc = "idle" => r = w
    /\ w.pc # "idle" =>
         /\ r.dat = w.dat /\ r.part = w.part /\ r.size = w.size /\ r.total = w.total
         /\ w.late => r.late
         /\ w.dat = d /\ w.pc \in pcs => r.late
         /\ w.dat # d => r = w

LEMMA DisturbedFacts ==
    ASSUME put \in [Putter -> Writer], NEW pcs, pcs \subseteq {"write", "queue"}, NEW d \in Dat
    PROVE  /\ Disturbed(pcs, d) \in [Putter -> Writer]
           /\ \A t \in Putter : MadeLate(put[t], Disturbed(pcs, d)[t], pcs, d)
<1>1. ASSUME NEW w \in Writer, NEW r,
             r = IF w.pc \in pcs /\ w.dat = d THEN [w EXCEPT !.late = TRUE] ELSE w
      PROVE  r \in Writer /\ MadeLate(w, r, pcs, d)
  <2>1. CASE w.pc \in pcs /\ w.dat = d
    <3>1. w \in Busy /\ w.pc # "idle"
      BY <2>1, WriterFacts
    <3>2. r = [w EXCEPT !.late = TRUE]
      BY <1>1, <2>1
    <3>3. /\ r \in Busy /\ r.pc = w.pc /\ r.dat = w.dat /\ r.part = w.part
          /\ r.size = w.size /\ r.total = w.total /\ r.late
      BY <3>1, <3>2, Overtaken
    <3>4. QED  BY <2>1, <3>1, <3>3, WriterFacts DEF MadeLate
  <2>2. CASE ~(w.pc \in pcs /\ w.dat = d)
    <3>1. r = w
      BY <1>1, <2>2
    <3>2. QED  BY <2>2, <3>1 DEF MadeLate
  <2>3. QED  BY <2>1, <2>2
<1>2. \A t \in Putter : /\ Disturbed(pcs, d)[t] \in Writer
                        /\ MadeLate(put[t], Disturbed(pcs, d)[t], pcs, d)
  BY <1>1 DEF Disturbed
<1>3. Disturbed(pcs, d) \in [Putter -> Writer]
  <2>1. \A t \in Putter : (IF put[t].pc \in pcs /\ put[t].dat = d
                             THEN [put[t] EXCEPT !.late = TRUE] ELSE put[t]) \in Writer
    BY <1>2 DEF Disturbed
  <2>2. QED  BY <2>1 DEF Disturbed
<1>4. QED  BY <1>2, <1>3

(* What Put writes, and what it says of it. *)
LEMMA BlocksFacts ==
    ASSUME NEW p \in Part
    PROVE  /\ Blocks(p) \in Seq(Block) /\ Len(Blocks(p)) = p.len
           /\ \A i \in 1..p.len : Blocks(p)[i] = <<p.ver, p.start + i>>
<1>1. \A i \in 1..p.len : <<p.ver, p.start + i>> \in Block
  BY WriterFacts, DatCacheAssumption DEF Block
<1>2. p.len \in Nat
  BY WriterFacts
<1>3. Blocks(p) \in [1..p.len -> Block]
  BY <1>1 DEF Blocks
<1>4. Blocks(p) \in Seq(Block)
  BY <1>2, <1>3, IsASeq
<1>5. Len(Blocks(p)) = p.len
  BY <1>2, <1>3, <1>4, LenProperties
<1>6. QED  BY <1>4, <1>5 DEF Blocks

LEMMA NewsFacts ==
    ASSUME NEW w \in Busy, Span(w)
    PROVE  /\ News(w) \in Seq(Block)
           /\ Len(News(w)) \in Nat /\ Len(News(w)) = w.part.start + w.part.len - w.size /\ Len(News(w)) > 0
           /\ \A i \in 1..Len(News(w)) : News(w)[i] = <<w.part.ver, w.size + i>>
           /\ TotalSize(w) \in Nat /\ TotalSize(w) <= w.part.start + w.part.len
<1> DEFINE p == w.part  b == Blocks(p)  k == w.size - p.start
<1>1. /\ p \in Part /\ p.start \in Nat /\ p.len \in Nat /\ w.size \in Nat
      /\ p.start <= w.size /\ w.size < p.start + p.len
  BY WriterFacts DEF Span
<1>2. b \in Seq(Block) /\ Len(b) = p.len /\ \A i \in 1..p.len : b[i] = <<p.ver, p.start + i>>
  BY <1>1, BlocksFacts
<1> HIDE DEF b, p
<1>3. k \in Nat /\ k < p.len
  BY <1>1
<1>4. /\ SubSeq(b, k + 1, p.len) \in Seq(Block)
      /\ Len(SubSeq(b, k + 1, p.len)) = p.len - k
      /\ \A i \in 1..p.len - k : SubSeq(b, k + 1, p.len)[i] = b[k + i]
  <2>1. k + 1 \in Int /\ p.len \in Int /\ k + 1 \in 1..Len(b) /\ p.len \in 1..Len(b)
    BY <1>1, <1>2, <1>3
  <2>2. SubSeq(b, k + 1, p.len) \in Seq(Block)
    BY <1>2, <2>1, SubSeqProperties
  <2>3. Len(SubSeq(b, k + 1, p.len)) = p.len - k
    BY <1>2, <1>3, <2>1, SubSeqProperties
  <2>4. \A i \in 1..p.len - k : SubSeq(b, k + 1, p.len)[i] = b[k + i]
    <3>1. \A i \in (k + 1)..p.len : b[i] \in Block
      BY <1>2, <1>3, <2>1
    <3>2. \A i \in 1..p.len - (k + 1) + 1 : SubSeq(b, k + 1, p.len)[i] = b[(k + 1) + i - 1]
      BY ONLY <2>1, <3>1, SubSeqProperties
    <3> SUFFICES ASSUME NEW i \in 1..p.len - k  PROVE SubSeq(b, k + 1, p.len)[i] = b[k + i]
      OBVIOUS
    <3>3. i \in 1..p.len - (k + 1) + 1 /\ (k + 1) + i - 1 = k + i
      BY ONLY <1>3, <2>1
    <3>4. QED  BY ONLY <3>2, <3>3
  <2>5. QED  BY <2>2, <2>3, <2>4
<1>5. News(w) = SubSeq(b, k + 1, p.len)
  BY DEF News, b, p
<1>6. p.len - k = p.start + p.len - w.size
  BY <1>1
<1>7. \A i \in 1..p.len - k : b[k + i] = <<p.ver, w.size + i>>
  <2>1. ASSUME NEW i \in 1..p.len - k  PROVE b[k + i] = <<p.ver, w.size + i>>
    <3>1. k + i \in 1..p.len /\ p.start + (k + i) = w.size + i
      BY <1>1, <1>3
    <3>2. QED  BY <1>2, <3>1
  <2>2. QED  BY <2>1
<1> HIDE DEF k
<1>8. /\ News(w) \in Seq(Block)
      /\ Len(News(w)) \in Nat /\ Len(News(w)) = p.start + p.len - w.size /\ Len(News(w)) > 0
      /\ \A i \in 1..Len(News(w)) : News(w)[i] = <<p.ver, w.size + i>>
  <2> DEFINE m == p.len - k  s == SubSeq(b, k + 1, p.len)
  <2>1. m \in Nat /\ m > 0 /\ m = p.start + p.len - w.size
    BY <1>1, <1>3, <1>6
  <2>2. s \in Seq(Block) /\ Len(s) = m /\ \A i \in 1..m : s[i] = <<p.ver, w.size + i>>
    BY <1>4, <1>7
  <2> HIDE DEF m, s
  <2>3. QED  BY <1>5, <2>1, <2>2 DEF s
<1>9. TotalSize(w) \in Nat /\ TotalSize(w) <= p.start + p.len
  BY <1>1, <1>8 DEF TotalSize, p
<1>10. QED  BY <1>8, <1>9 DEF p

(* What a write makes of a file: g is f, whose length is n, and s. *)
Extended(g, f, n, s) ==
    /\ Len(g) = n + Len(s)
    /\ \A i \in 1..Len(f) : g[i] = f[i]
    /\ \A i \in 1..Len(s) : g[n + i] = s[i]

LEMMA Written ==
    ASSUME NEW f \in Seq(Block), NEW w \in Busy, Span(w), NEW s \in Seq(Block),
           NEW g, g = Stored(f, w, s)
    PROVE  /\ g \in Seq(Block)
           /\ Seen(w, f) => Extended(g, f, w.size, s)
<1> DEFINE base == IF w.size = 0 THEN <<>> ELSE f
<1>1. base \in Seq(Block) /\ g = base \o s
  BY EmptySeq DEF Stored
<1>2. Seen(w, f) => base = f /\ Len(base) = w.size
  BY EmptySeq DEF Seen
<1> HIDE DEF base
<1>3. /\ base \o s \in Seq(Block) /\ Len(base \o s) = Len(base) + Len(s)
      /\ \A i \in 1..Len(base) + Len(s) :
            (base \o s)[i] = IF i <= Len(base) THEN base[i] ELSE s[i - Len(base)]
  BY <1>1, ConcatProperties
<1>4. Len(base) \in Nat /\ Len(s) \in Nat /\ w.size \in Nat
  BY <1>1, LenProperties, WriterFacts
<1>5. ASSUME Seen(w, f)
      PROVE  Extended(g, f, w.size, s)
  <2>1. Len(g) = w.size + Len(s)
    BY <1>1, <1>2, <1>3, <1>5
  <2>2. ASSUME NEW i \in 1..Len(f)  PROVE g[i] = f[i]
    BY <1>1, <1>2, <1>3, <1>4, <1>5
  <2>3. ASSUME NEW i \in 1..Len(s)  PROVE g[w.size + i] = s[i]
    <3> DEFINE k == w.size + i
    <3>1. k \in 1..Len(base) + Len(s) /\ ~(k <= Len(base)) /\ k - Len(base) = i
      BY <1>2, <1>4, <1>5
    <3> HIDE DEF k
    <3>2. g[k] = s[k - Len(base)]
      BY <1>1, <1>3, <3>1
    <3>3. QED  BY <3>1, <3>2 DEF k
  <2>4. QED  BY <2>1, <2>2, <2>3 DEF Extended
<1>6. QED  BY <1>1, <1>3, <1>5

(* Put has all of its part in the file when it has written. *)
LEMMA WrittenHas ==
    ASSUME NEW f \in Seq(Block), NEW w \in Busy, Span(w), Seen(w, f), NEW g, g = Stored(f, w, News(w))
    PROVE  /\ Has(g, w.part)
           /\ \A p \in Part : Has(f, p) => Has(g, p)
           /\ g # <<>> /\ TotalSize(w) <= Len(g)
           /\ \A n \in Nat : Held(f, n) => Held(g, n)
<1> DEFINE s == News(w)  p == w.part
<1>1. /\ s \in Seq(Block) /\ Len(s) = p.start + p.len - w.size /\ Len(s) > 0
      /\ \A i \in 1..Len(s) : s[i] = <<p.ver, w.size + i>>
      /\ TotalSize(w) \in Nat /\ TotalSize(w) <= p.start + p.len
  BY NewsFacts
<1>2. /\ p \in Part /\ p.start \in Nat /\ p.len \in Nat /\ w.size \in Nat
      /\ p.start <= w.size /\ w.size < p.start + p.len
  BY WriterFacts DEF Span
<1> HIDE DEF s
<1>3. g = Stored(f, w, s)
  BY DEF s
<1>4. /\ g \in Seq(Block) /\ Len(g) = w.size + Len(s)
      /\ \A i \in 1..Len(f) : g[i] = f[i]
      /\ \A i \in 1..Len(s) : g[w.size + i] = s[i]
  <2>1. s \in Seq(Block)
    BY <1>1
  <2>2. g \in Seq(Block) /\ Extended(g, f, w.size, s)
    BY <1>3, <2>1, Written
  <2>3. QED  BY <2>2 DEF Extended
<1>5. /\ Len(f) = w.size
      /\ \A i \in 1..w.size - p.start : f[p.start + i] = <<p.ver, p.start + i>>
  BY DEF Seen
<1> HIDE DEF p
<1>6. Len(g) = p.start + p.len
  BY <1>1, <1>2, <1>4
<1>7. ASSUME NEW i \in 1..p.len  PROVE g[p.start + i] = <<p.ver, p.start + i>>
  <2>1. CASE i <= w.size - p.start
    <3>1. i \in 1..w.size - p.start /\ p.start + i \in 1..Len(f)
      BY <1>2, <1>5, <2>1
    <3>2. g[p.start + i] = f[p.start + i]
      BY <1>4, <3>1
    <3>3. f[p.start + i] = <<p.ver, p.start + i>>
      BY ONLY <1>5, <3>1
    <3>4. QED  BY ONLY <3>2, <3>3
  <2>2. CASE i > w.size - p.start
    <3> DEFINE j == i - (w.size - p.start)
    <3>1. i = w.size - p.start + j /\ i \in Int /\ j \in Int
      BY <1>2
    <3> HIDE DEF j
    <3>2. j \in 1..Len(s) /\ p.start + i = w.size + j
      <4>1. /\ p.start \in Int /\ p.len \in Int /\ w.size \in Int
            /\ i <= p.len /\ i > w.size - p.start
        BY <1>2, <2>2
      <4>2. j <= p.start + p.len - w.size /\ j > 0 /\ p.start + i = w.size + j
        BY ONLY <3>1, <4>1
      <4>3. QED  BY ONLY <1>1, <3>1, <4>2
    <3>3. g[w.size + j] = s[j] /\ s[j] = <<p.ver, w.size + j>>
      BY <1>1, <1>4, <3>2
    <3>4. QED  BY <3>2, <3>3
  <2>3. QED  BY <1>2, <2>1, <2>2
<1>8. ASSUME NEW q \in Part, Has(f, q)  PROVE Has(g, q)
  <2>1. q.start \in Nat /\ q.len \in Nat
    BY WriterFacts
  <2>2. Len(f) >= q.start + q.len /\ Len(g) >= Len(f)
    BY <1>1, <1>2, <1>4, <1>5, <1>8 DEF Has
  <2>3. ASSUME NEW i \in 1..q.len  PROVE g[q.start + i] = <<q.ver, q.start + i>>
    <3>1. q.start + i \in 1..Len(f)
      BY <1>2, <1>5, <2>1, <2>2
    <3>2. QED  BY <1>4, <1>8, <3>1 DEF Has
  <2>4. Len(g) >= q.start + q.len
    BY <1>2, <1>5, <1>6, <2>1, <2>2
  <2>5. QED  BY <2>3, <2>4 DEF Has
<1>9. g # <<>>
  BY <1>2, <1>4, <1>6, EmptySeq
<1>10. \A n \in Nat : Held(f, n) => Held(g, n)
  BY <1>2, <1>5, <1>6, <1>9 DEF Held
<1>11. Has(g, p)
  BY <1>2, <1>6, <1>7 DEF Has
<1>12. TotalSize(w) <= Len(g)
  BY <1>1, <1>6
<1>13. QED  BY <1>8, <1>9, <1>10, <1>11, <1>12 DEF p
-----------------------------------------------------------------------------
(* Lists of entries. *)

LEMMA ListFacts ==
    ASSUME NEW es \in Seq(Entry), NEW d, NEW f
    PROVE  /\ <<>> \in Seq(Entry) /\ ~About(<<>>, d) /\ Told(<<>>, d, f)
           /\ ~About(es, d) => Told(es, d, f)
           /\ d \in Dats(es) <=> About(es, d)
           /\ Dats(es) \subseteq Dat
<1>1. Len(<<>>) = 0 /\ <<>> \in Seq(Entry)
  BY EmptySeq
<1>2. Len(es) \in Nat /\ \A i \in 1..Len(es) : es[i].dat \in Dat
  BY ElementOfSeq, EntryFacts, LenProperties
<1>3. QED  BY <1>1, <1>2 DEF About, Told, Dats

LEMMA AppendFacts ==
    ASSUME NEW es \in Seq(Entry), NEW e \in Entry, NEW d, NEW f
    PROVE  /\ Append(es, e) \in Seq(Entry)
           /\ About(Append(es, e), d) <=> About(es, d) \/ e.dat = d
           /\ Told(es, d, f) /\ (e.dat = d => Held(f, e.size)) => Told(Append(es, e), d, f)
<1> DEFINE as == Append(es, e)
<1>1. /\ as \in Seq(Entry) /\ Len(as) = Len(es) + 1 /\ Len(es) \in Nat
      /\ \A i \in 1..Len(es) : as[i] = es[i]
      /\ as[Len(es) + 1] = e
  BY AppendProperties, LenProperties
<1> HIDE DEF as
<1>2. \A i \in 1..Len(as) : i \in 1..Len(es) \/ i = Len(es) + 1
  BY <1>1
<1>3. 1..Len(es) \subseteq 1..Len(as) /\ Len(es) + 1 \in 1..Len(as)
  BY <1>1
<1>4. About(as, d) <=> About(es, d) \/ e.dat = d
  BY <1>1, <1>2, <1>3 DEF About
<1>5. Told(es, d, f) /\ (e.dat = d => Held(f, e.size)) => Told(as, d, f)
  BY <1>1, <1>2, <1>3 DEF Told
<1>6. QED  BY <1>1, <1>4, <1>5 DEF as

LEMMA GrownTold ==
    ASSUME NEW es \in Seq(Entry), NEW d, NEW f, NEW g,
           \A n \in Nat : Held(f, n) => Held(g, n), Told(es, d, f)
    PROVE  Told(es, d, g)
<1>1. \A i \in 1..Len(es) : es[i].size \in Nat
  BY ElementOfSeq, EntryFacts
<1>2. QED  BY <1>1 DEF Told

LEMMA SourceHeld ==
    ASSUME NEW rows \in Rows, NEW es \in Seq(Entry), NEW new, NEW d \in Dat, NEW f,
           Source(rows, es, new, d), rows[d].row => Held(f, rows[d].size), Told(es, d, f)
    PROVE  new[d].row => Held(f, new[d].size)
  BY DEF Source, Told

-----------------------------------------------------------------------------
(* What a step changes. *)

LEMMA FileChanges ==
    ASSUME CacheNext
    PROVE  \/ UNCHANGED file
           \/ \E t \in Putter : PutWrite(t) \/ PutShort(t)
           \/ \E d \in Dat : DeleteFile(d)
           \/ Crash
  BY DEF CacheNext, Rest, PutLoad, PutFail, PutQueue, DeleteRow, PublishQueue,
         UpdateTake, Update, UpdateEnd, RebuildFlush, RebuildBefore, RebuildScan, RebuildInsert,
         RebuildEnd, RebuildOld, RebuildNew, RebuildStart, Proxy, ImportDat, PutStat, Publish,
         Rebuild, StopRebuildDB

LEMMA PutChanges ==
    ASSUME CacheNext
    PROVE  \/ UNCHANGED put
           \/ \E t \in Putter : \/ \E d \in Dat, p \in Part : PutStat(t, d, p)
                                \/ PutLoad(t) \/ PutWrite(t) \/ PutShort(t)
                                \/ PutFail(t) \/ PutQueue(t)
           \/ \E d \in Dat : DeleteFile(d)
           \/ Crash
  BY DEF CacheNext, Rest, DeleteRow, PublishQueue, Putter,
         UpdateTake, Update, UpdateEnd, RebuildFlush, RebuildBefore, RebuildScan, RebuildInsert,
         RebuildEnd, RebuildOld, RebuildNew, RebuildStart, Proxy, ImportDat, Publish,
         Rebuild, StopRebuildDB

LEMMA DeleteChanges ==
    ASSUME CacheNext
    PROVE  \/ UNCHANGED <<del, pub>>
           \/ \E d \in Dat : DeleteFile(d)
           \/ DeleteRow
           \/ \E ds \in SUBSET Dat : Publish(ds)
           \/ \E d \in Dat : PublishQueue(d)
           \/ Crash
  BY DEF CacheNext, Rest, PutLoad, PutFail, PutQueue, PutWrite, PutShort,
         UpdateTake, Update, UpdateEnd, RebuildFlush, RebuildBefore, RebuildScan, RebuildInsert,
         RebuildEnd, RebuildOld, RebuildNew, RebuildStart, Proxy, ImportDat, PutStat,
         Rebuild, StopRebuildDB

LEMMA QueueChanges ==
    ASSUME CacheNext
    PROVE  \/ UNCHANGED queue
           \/ \E t \in Putter : PutQueue(t)
           \/ \E d \in Dat : PublishQueue(d)
           \/ UpdateTake \/ RebuildFlush \/ Crash
  BY DEF CacheNext, Rest, PutLoad, PutFail, PutWrite, PutShort, DeleteRow,
         Update, UpdateEnd, RebuildBefore, RebuildScan, RebuildInsert,
         RebuildEnd, RebuildOld, RebuildNew, RebuildStart, Proxy, ImportDat, PutStat, Publish,
         DeleteFile, Rebuild, StopRebuildDB

LEMMA ThreadChanges ==
    ASSUME CacheNext
    PROVE  \/ UNCHANGED <<upd, rb>>
           \/ UpdateTake \/ Update \/ UpdateEnd
           \/ Rebuild \/ RebuildFlush \/ RebuildBefore \/ (\E d \in Dat : RebuildScan(d))
           \/ RebuildInsert \/ RebuildEnd \/ RebuildOld \/ RebuildNew \/ RebuildStart
           \/ StopRebuildDB \/ Crash
  BY DEF CacheNext, Rest, PutLoad, PutFail, PutQueue, PutWrite, PutShort, DeleteRow, PublishQueue,
         Proxy, ImportDat, PutStat, Publish, DeleteFile

LEMMA RowChanges ==
    ASSUME CacheNext
    PROVE  \/ UNCHANGED <<db, newdb, dbTable>>
           \/ DeleteRow \/ Update \/ RebuildFlush \/ RebuildBefore \/ RebuildInsert
           \/ RebuildOld \/ RebuildNew \/ RebuildStart \/ Crash
  BY DEF CacheNext, Rest, PutLoad, PutFail, PutQueue, PutWrite, PutShort, PublishQueue,
         UpdateTake, UpdateEnd, RebuildScan, RebuildEnd, Proxy, ImportDat, PutStat, Publish,
         DeleteFile, Rebuild, StopRebuildDB

LEMMA HistoryChanges ==
    ASSUME CacheNext
    PROVE  /\ UNCHANGED rare \/ Rare
           /\ \/ UNCHANGED torn \/ \E t \in Putter : PutWrite(t) \/ PutShort(t)
              \/ DeleteRow \/ Crash
           /\ UNCHANGED ghost \/ DeleteRow \/ Crash
           /\ UNCHANGED lost \/ Update \/ RebuildFlush \/ RebuildNew \/ Crash
  BY DEF CacheNext, Rest, PutLoad, PutFail, PutQueue, PutWrite, PutShort, DeleteRow, PublishQueue,
         UpdateTake, Update, UpdateEnd, RebuildFlush, RebuildBefore, RebuildScan, RebuildInsert,
         RebuildEnd, RebuildOld, RebuildNew, RebuildStart, Proxy, ImportDat, PutStat, Publish,
         DeleteFile, Rebuild, StopRebuildDB, Crash
-----------------------------------------------------------------------------
(* Types. *)

FileType == file \in [Dat -> Seq(Block)]
PutType == put \in [Putter -> Writer]
RowType == db \in Rows /\ newdb \in Rows /\ dbTable \in BOOLEAN
QueueType == queue \in Seq(Entry)
DeleteType == del \in {NotBusy} \cup [pc : {"row"}, dat : Dat] /\ pub \subseteq Dat
UpdateType ==
    /\ upd \in [pc : {"none", "wait", "update"}, loop : BOOLEAN, batch : Seq(Entry)]
    /\ upd.batch # <<>> <=> upd.pc = "update"
RebuildType ==
    rb \in [pc : {"none", "join", "flush", "before", "scan", "insert", "old", "new", "start"},
            loop : BOOLEAN, todo : SUBSET Dat, list : Seq(Entry), missed : SUBSET Dat]
HistoryType ==
    rare \in 0..MaxRare /\ torn \subseteq Dat /\ ghost \subseteq Dat /\ lost \subseteq Dat

LEMMA TypeParts ==
    CacheTypeOK <=> /\ FileType /\ PutType /\ RowType /\ QueueType /\ DeleteType
                    /\ UpdateType /\ RebuildType /\ HistoryType
  BY DEF CacheTypeOK, FileType, PutType, RowType, QueueType, DeleteType, UpdateType,
         RebuildType, HistoryType, Rows

LEMMA TypeFacts ==
    ASSUME CacheTypeOK
    PROVE  /\ \A d \in Dat : file[d] \in Seq(Block)
           /\ \A t \in Putter : put[t] \in Writer
           /\ \A t \in Putter : put[t].pc # "idle" =>
                 put[t] \in Busy /\ put[t].dat \in Dat /\ put[t].part \in Part
           /\ upd.batch \in Seq(Entry) /\ upd.pc \in {"none", "wait", "update"} /\ upd.loop \in BOOLEAN
           /\ rb.list \in Seq(Entry) /\ rb.todo \subseteq Dat /\ rb.loop \in BOOLEAN
           /\ rb.missed \subseteq Dat
           /\ del # NotBusy => del.dat \in Dat
<1> USE TypeParts
<1>1. \A d \in Dat : file[d] \in Seq(Block)
  BY DEF FileType
<1>2. \A t \in Putter : put[t] \in Writer
  BY DEF PutType
<1>3. upd.batch \in Seq(Entry) /\ upd.pc \in {"none", "wait", "update"} /\ upd.loop \in BOOLEAN
  BY DEF UpdateType
<1>4. /\ rb.list \in Seq(Entry) /\ rb.todo \subseteq Dat /\ rb.loop \in BOOLEAN
      /\ rb.missed \subseteq Dat
  BY DEF RebuildType
<1>5. del # NotBusy => del.dat \in Dat
  BY DEF DeleteType
<1>6. QED  BY <1>1, <1>2, <1>3, <1>4, <1>5, WriterFacts

(* What a thread finds out about the file. *)
LEMMA StatFacts ==
    ASSUME CacheTypeOK, NEW t \in Putter, NEW d \in Dat, NEW p \in Part, PutStat(t, d, p)
    PROVE  /\ put'[t] \in Busy /\ put'[t].dat = d /\ put'[t].part = p
           /\ put'[t].pc \in {"load", "write"} /\ ~put'[t].late
           /\ put'[t].pc = "write" => put'[t].size = Len(file[d]) /\ Len(file[d]) = p.start
           /\ \A u \in Putter \ {t} : put'[u] = put[u]
           /\ PutType'
<1> DEFINE n == Len(file[d])
           pc == IF n > p.start THEN "load" ELSE "write"
           r == [pc |-> pc, dat |-> d, part |-> p, size |-> n, total |-> 0, late |-> FALSE]
<1>1. n \in Nat /\ p.start \in Nat
  BY TypeFacts, LenProperties, WriterFacts
<1>2. put \in [Putter -> Writer] /\ put' = [put EXCEPT ![t] = r] /\ n >= p.start
  BY TypeParts DEF PutType, PutStat
<1>3. pc \in {"load", "write"} /\ (pc = "write" => n = p.start)
  BY <1>1, <1>2
<1> HIDE DEF n, pc
<1>4. r \in Busy /\ r.pc = pc /\ r.dat = d /\ r.part = p /\ r.size = n /\ ~r.late
  BY <1>1, <1>3, Stated
<1> HIDE DEF r
<1>5. put'[t] = r /\ \A u \in Putter \ {t} : put'[u] = put[u]
  BY <1>2
<1>6. PutType'
  BY <1>2, <1>4, WriterFacts DEF PutType
<1>7. QED  BY <1>3, <1>4, <1>5, <1>6 DEF n

(* Load goes on to the write only if the file ends inside the part and is  *)
(* the same there.                                                         *)
LEMMA LoadFacts ==
    ASSUME CacheTypeOK, NEW t \in Putter, PutLoad(t)
    PROVE  /\ put'[t].pc \in {"idle", "write"}
           /\ put'[t].pc = "write" =>
                /\ put'[t].dat = put[t].dat
                /\ Span(put'[t]) /\ Seen(put'[t], file[put[t].dat])
           /\ \A u \in Putter \ {t} : put'[u] = put[u]
           /\ PutType'
<1> DEFINE w == put[t]  cache == file[w.dat]  n == Len(cache)
           r == [w EXCEPT !.pc = "write", !.size = n, !.late = FALSE]
           ok == cache # <<>> /\ Agrees(cache, w.part) /\ Len(cache) < w.part.start + w.part.len
<1>1. w \in Busy /\ w.dat \in Dat /\ w.part \in Part /\ w.pc = "load"
  BY TypeFacts DEF PutLoad
<1>2. n \in Nat
  BY <1>1, TypeFacts, LenProperties
<1>3. put \in [Putter -> Writer] /\ put' = [put EXCEPT ![t] = IF ok THEN r ELSE NotBusy]
  BY TypeParts DEF PutType, PutLoad
<1>4. r \in Busy /\ r.pc = "write" /\ r.dat = w.dat /\ r.part = w.part /\ r.size = n
  <2>1. r = ToWrite(w, n)
    BY DEF ToWrite
  <2> HIDE DEF w, n, r
  <2>2. QED  BY <1>1, <1>2, <2>1, MovedToWrite
<1>5. ok => Span(r) /\ Seen(r, cache)
  <2> DEFINE p == w.part
  <2>1. p \in Part /\ p.start \in Nat /\ p.len \in Nat
    BY <1>1, WriterFacts
  <2>2. \A i \in 1..p.len : Blocks(p)[i] = <<p.ver, p.start + i>>
    BY <2>1, BlocksFacts
  <2>3. ASSUME ok  PROVE Span(r)
    BY <1>2, <1>4, <2>1, <2>3 DEF Span, Agrees
  <2>4. ASSUME ok  PROVE Seen(r, cache)
    <3>1. n - p.start \in Nat /\ n - p.start <= p.len
      BY <1>2, <2>1, <2>4 DEF Agrees
    <3>2. \A i \in 1..n - p.start : cache[p.start + i] = Blocks(p)[i] /\ i \in 1..p.len
      BY <2>1, <2>4, <3>1 DEF Agrees
    <3>3. \A i \in 1..n - p.start : cache[p.start + i] = <<p.ver, p.start + i>>
      BY <2>2, <3>2
    <3>4. QED  BY <1>4, <3>3 DEF Seen
  <2>5. QED  BY <2>3, <2>4
<1> HIDE DEF r, ok, n
<1>6. put'[t] = (IF ok THEN r ELSE NotBusy) /\ \A u \in Putter \ {t} : put'[u] = put[u]
  BY <1>3
<1>7. PutType'
  BY <1>3, <1>4, WriterFacts DEF PutType
<1>8. CASE ok
  BY <1>4, <1>5, <1>6, <1>7, <1>8
<1>9. CASE ~ok
  BY <1>6, <1>7, <1>9, WriterFacts
<1>10. QED  BY <1>8, <1>9

(* A thread that has written queues its entry; the others are late. *)
LEMMA QueuedFacts ==
    ASSUME CacheTypeOK, Writing, NEW t \in Putter, put[t].pc = "write",
           put' = [Disturbed({"write"}, put[t].dat) EXCEPT ![t] =
                     [put[t] EXCEPT !.pc = "queue", !.size = 0, !.total = TotalSize(put[t])]]
    PROVE  LET w == put[t] IN
           /\ put'[t] \in Busy /\ put'[t].pc = "queue" /\ put'[t].dat = w.dat
           /\ put'[t].part = w.part /\ put'[t].late = w.late
           /\ put'[t].total = TotalSize(w)
           /\ \A u \in Putter \ {t} : MadeLate(put[u], put'[u], {"write"}, w.dat)
           /\ PutType'
<1> DEFINE w == put[t]  d == w.dat
           r == [w EXCEPT !.pc = "queue", !.size = 0, !.total = TotalSize(w)]
           put1 == Disturbed({"write"}, d)
<1>1. w \in Busy /\ w.pc = "write" /\ d \in Dat /\ Span(w)
  BY TypeFacts DEF Writing, WritingWell
<1>2. put \in [Putter -> Writer]
  BY TypeParts DEF PutType
<1>3. TotalSize(w) \in Nat
  BY <1>1, NewsFacts
<1>4. /\ r \in Busy /\ r.pc = "queue" /\ r.dat = d /\ r.part = w.part
      /\ r.total = TotalSize(w) /\ r.late = w.late
  <2> DEFINE n == TotalSize(w)
  <2>1. r = ToQueue(w, n)
    BY DEF ToQueue
  <2> HIDE DEF w, n, r
  <2>2. n \in Nat /\ w \in Busy
    BY <1>1, <1>3 DEF n
  <2>3. /\ r \in Busy /\ r.pc = "queue" /\ r.dat = w.dat /\ r.part = w.part
        /\ r.total = n /\ r.late = w.late
    BY ONLY <2>1, <2>2, MovedToQueue
  <2>4. QED  BY <2>3 DEF n, w
<1>5. put1 \in [Putter -> Writer] /\ \A u \in Putter : MadeLate(put[u], put1[u], {"write"}, d)
  BY <1>1, <1>2, DisturbedFacts
<1> HIDE DEF put1, r
<1>6. put' = [put1 EXCEPT ![t] = r]
  BY DEF put1, r
<1>7. put'[t] = r /\ \A u \in Putter \ {t} : put'[u] = put1[u]
  BY <1>5, <1>6
<1>8. PutType'
  BY <1>4, <1>5, <1>6, WriterFacts DEF PutType
<1>9. QED  BY <1>4, <1>5, <1>7, <1>8

(* A write, if there is place for it. *)
LEMMA WriteFacts ==
    ASSUME CacheTypeOK, Writing, NEW t \in Putter, PutWrite(t)
    PROVE  LET w == put[t] IN
           /\ w \in Busy /\ w.pc = "write" /\ w.dat \in Dat /\ Span(w)
           /\ file[w.dat] \in Seq(Block)
           /\ \/ file' = file /\ torn' = torn /\ put' = [put EXCEPT ![t] = NotBusy]
              \/ /\ file' = [file EXCEPT ![w.dat] = Stored(file[w.dat], w, News(w))]
                 /\ torn' = IF w.late THEN torn \cup {w.dat} ELSE torn
                 /\ put'[t] \in Busy /\ put'[t].pc = "queue" /\ put'[t].dat = w.dat
                 /\ put'[t].part = w.part /\ put'[t].late = w.late
                 /\ put'[t].total = TotalSize(w)
                 /\ \A u \in Putter \ {t} : MadeLate(put[u], put'[u], {"write"}, w.dat)
           /\ PutType'
<1> DEFINE w == put[t]  d == w.dat
<1>1. w \in Busy /\ w.pc = "write" /\ d \in Dat /\ Span(w) /\ file[d] \in Seq(Block)
  BY TypeFacts DEF PutWrite, Writing, WritingWell
<1>2. put \in [Putter -> Writer]
  BY TypeParts DEF PutType
<1>3. CASE CheckQuarterOverflow(Len(News(w)))
  <2>1. file' = file /\ torn' = torn /\ put' = [put EXCEPT ![t] = NotBusy]
    BY <1>3 DEF PutWrite
  <2>2. PutType'
    BY <1>2, <2>1, WriterFacts DEF PutType
  <2>3. QED  BY <1>1, <2>1, <2>2
<1>4. CASE ~CheckQuarterOverflow(Len(News(w)))
  <2>1. /\ file' = [file EXCEPT ![d] = Stored(file[d], w, News(w))]
        /\ torn' = IF w.late THEN torn \cup {d} ELSE torn
        /\ put' = [Disturbed({"write"}, put[t].dat) EXCEPT ![t] =
                     [put[t] EXCEPT !.pc = "queue", !.size = 0, !.total = TotalSize(put[t])]]
    BY <1>4 DEF PutWrite
  <2>2. /\ put'[t] \in Busy /\ put'[t].pc = "queue" /\ put'[t].dat = w.dat
        /\ put'[t].part = w.part /\ put'[t].late = w.late
        /\ put'[t].total = TotalSize(w)
        /\ \A u \in Putter \ {t} : MadeLate(put[u], put'[u], {"write"}, w.dat)
        /\ PutType'
    BY <1>1, <2>1, QueuedFacts
  <2>3. QED  BY <1>1, <2>1, <2>2
<1>5. QED  BY <1>3, <1>4

(* What has got to the file of a write that was cut short is blocks. *)
LEMMA CutShort ==
    ASSUME CacheTypeOK, NEW w \in Busy, w.dat \in Dat, Span(w), NEW n \in 0..Length,
           n < Len(News(w))
    PROVE  /\ SubSeq(News(w), 1, n) \in Seq(Block)
           /\ Stored(file[w.dat], w, SubSeq(News(w), 1, n)) \in Seq(Block)
<1> DEFINE s == SubSeq(News(w), 1, n)  f == file[w.dat]
<1>1. News(w) \in Seq(Block) /\ Len(News(w)) \in Nat /\ f \in Seq(Block)
  BY TypeFacts, NewsFacts
<1>2. n \in Int /\ n \in Nat
  BY DatCacheAssumption
<1>3. \A i \in 1..n : News(w)[i] \in Block
  BY <1>1, <1>2, ElementOfSeq
<1>4. s \in Seq(Block)
  BY <1>2, <1>3, SubSeqProperties
<1> HIDE DEF s, f
<1>5. Stored(f, w, s) \in Seq(Block)
  BY <1>1, <1>4, Written
<1>6. QED  BY <1>4, <1>5 DEF s, f

(* A write that falls short unnoticed is one as well, of a torn dat. *)
LEMMA ShortFacts ==
    ASSUME CacheTypeOK, Writing, NEW t \in Putter, PutShort(t)
    PROVE  LET w == put[t] IN
           /\ w.pc = "write" /\ w.dat \in Dat
           /\ FileType' /\ \A e \in Dat \ {w.dat} : file'[e] = file[e]
           /\ torn' = torn \cup {w.dat}
           /\ put'[t].pc = "queue" /\ put'[t].dat = w.dat
           /\ \A u \in Putter \ {t} : MadeLate(put[u], put'[u], {"write"}, w.dat)
           /\ PutType'
<1> DEFINE w == put[t]  d == w.dat
<1>1. w \in Busy /\ w.pc = "write" /\ d \in Dat /\ Span(w)
  BY TypeFacts DEF PutShort, Writing, WritingWell
<1>2. PICK n \in 0..Length :
          /\ n < Len(News(w))
          /\ file' = [file EXCEPT ![d] = Stored(file[d], w, SubSeq(News(w), 1, n))]
  BY DEF PutShort
<1>3. /\ torn' = torn \cup {d}
      /\ put' = [Disturbed({"write"}, put[t].dat) EXCEPT ![t] =
                   [put[t] EXCEPT !.pc = "queue", !.size = 0, !.total = TotalSize(put[t])]]
  BY DEF PutShort
<1>4. /\ put'[t].pc = "queue" /\ put'[t].dat = d
      /\ \A u \in Putter \ {t} : MadeLate(put[u], put'[u], {"write"}, d)
      /\ PutType'
  BY <1>1, <1>3, QueuedFacts
<1>5. /\ FileType' /\ \A e \in Dat \ {d} : file'[e] = file[e]
  <2> DEFINE g == Stored(file[d], w, SubSeq(News(w), 1, n))
  <2>1. g \in Seq(Block)
    <3> HIDE DEF w
    <3>1. QED  BY <1>1, <1>2, CutShort
  <2> HIDE DEF g
  <2>2. file \in [Dat -> Seq(Block)] /\ file' = [file EXCEPT ![d] = g]
    BY <1>2, TypeParts DEF FileType, g
  <2>3. QED  BY <1>1, <2>1, <2>2 DEF FileType
<1>6. QED  BY <1>1, <1>3, <1>4, <1>5
(* A deletion makes the threads on the dat late. *)
LEMMA DeleteFacts ==
    ASSUME CacheTypeOK, NEW d \in Dat, DeleteFile(d)
    PROVE  /\ file' = [file EXCEPT ![d] = <<>>]
           /\ del' = [pc |-> "row", dat |-> d] /\ del' # NotBusy /\ del'.dat = d
           /\ \A t \in Putter : MadeLate(put[t], put'[t], {"write", "queue"}, d)
           /\ PutType'
<1>1. /\ file' = [file EXCEPT ![d] = <<>>]
      /\ del' = [pc |-> "row", dat |-> d]
      /\ put' = Disturbed({"write", "queue"}, d)
  BY DEF DeleteFile
<1>2. put \in [Putter -> Writer]
  BY TypeParts DEF PutType
<1>3. /\ Disturbed({"write", "queue"}, d) \in [Putter -> Writer]
      /\ \A t \in Putter : MadeLate(put[t], Disturbed({"write", "queue"}, d)[t], {"write", "queue"}, d)
  BY <1>2, DisturbedFacts
<1>4. del' # NotBusy /\ del'.dat = d
  BY <1>1 DEF NotBusy
<1>5. QED  BY <1>1, <1>3, <1>4 DEF PutType

(* A file that was longer than nothing is not shorter for a write. *)
LEMMA WrittenHeld ==
    ASSUME NEW f \in Seq(Block), NEW w \in Busy, Span(w), Seen(w, f), NEW s \in Seq(Block),
           NEW g, g = Stored(f, w, s), NEW n \in Nat, Held(f, n)
    PROVE  Held(g, n)
<1>1. g \in Seq(Block) /\ Extended(g, f, w.size, s)
  BY Written
<1>2. Len(f) \in Nat /\ Len(s) \in Nat /\ Len(f) = w.size /\ Len(f) > 0 /\ n <= Len(f)
  BY EmptySeq, LenProperties DEF Held, Seen
<1>3. Len(g) = Len(f) + Len(s)
  BY <1>1, <1>2 DEF Extended
<1>4. QED  BY <1>2, <1>3, EmptySeq DEF Held

(* A crash leaves of a write what had got to the file. *)
CrashWrite(t, n) ==
    /\ put[t].pc = "write" /\ n < Len(News(put[t]))
    /\ file' = [file EXCEPT ![put[t].dat] = Stored(file[put[t].dat], put[t], SubSeq(News(put[t]), 1, n))]

LEMMA CrashFacts ==
    ASSUME CacheTypeOK, Writing, Crash
    PROVE  /\ FileType'
           /\ \A d \in Dat :
                 \/ file'[d] = file[d]
                 \/ d \in torn' /\ d \in lost'
                 \/ d \in lost' /\ \A n \in Nat : Held(file[d], n) => Held(file'[d], n)
<1>1. CASE UNCHANGED file
  BY <1>1, TypeParts DEF FileType
<1>2. ASSUME NEW t \in Putter, NEW n \in 1..Length, CrashWrite(t, n)
      PROVE  /\ FileType'
             /\ \A d \in Dat :
                 \/ file'[d] = file[d]
                 \/ d \in torn' /\ d \in lost'
                 \/ d \in lost' /\ \A k \in Nat : Held(file[d], k) => Held(file'[d], k)
  <2> DEFINE w == put[t]  f == file[w.dat]  s == SubSeq(News(w), 1, n)  g == Stored(f, w, s)
  <2>1. w \in Busy /\ w.dat \in Dat /\ Span(w) /\ f \in Seq(Block) /\ (w.late \/ Seen(w, f))
    BY <1>2, TypeFacts DEF Writing, WritingWell, CrashWrite
  <2>2. s \in Seq(Block)
    <3>1. n \in 0..Length /\ n < Len(News(w))
      BY <1>2, DatCacheAssumption DEF CrashWrite
    <3> HIDE DEF w
    <3>2. QED  BY <2>1, <3>1, CutShort
  <2>3. file \in [Dat -> Seq(Block)] /\ file' = [file EXCEPT ![w.dat] = g]
    BY <1>2, TypeParts DEF FileType, CrashWrite
  <2> HIDE DEF g, s
  <2>4. g = Stored(f, w, s)
    BY DEF g
  <2>5. /\ g \in Seq(Block)
        /\ Seen(w, f) => \A k \in Nat : Held(f, k) => Held(g, k)
    <3> HIDE DEF w, f
    <3>1. QED  BY <2>1, <2>2, <2>4, Written, WrittenHeld
  <2>6. w.pc = "write" /\ w.dat \in lost' /\ (w.late => w.dat \in torn')
    <3>1. lost' = lost \cup Dats(queue) \cup Dats(upd.batch) \cup (IF dbTable THEN {} ELSE Dat)
                    \cup {put[u].dat : u \in {v \in Putter : put[v].pc \in {"write", "queue"}}}
      BY DEF Crash
    <3>2. torn' = torn \cup {put[u].dat : u \in {v \in Putter : put[v].pc = "write" /\ put[v].late}}
      BY DEF Crash
    <3>3. w.pc = "write"
      BY <1>2 DEF CrashWrite
    <3>4. QED  BY <3>1, <3>2, <3>3
  <2>7. FileType'
    BY <2>1, <2>3, <2>5 DEF FileType
  <2>8. ASSUME NEW d \in Dat
        PROVE  \/ file'[d] = file[d]
               \/ d \in torn' /\ d \in lost'
               \/ d \in lost' /\ \A k \in Nat : Held(file[d], k) => Held(file'[d], k)
    <3>1. CASE d # w.dat
      BY <2>3, <3>1
    <3>2. CASE d = w.dat
      <4>1. file'[d] = g /\ file[d] = f
        BY <2>1, <2>3, <3>2
      <4> HIDE DEF w, f
      <4>2. QED  BY <2>1, <2>5, <2>6, <3>2, <4>1
    <3>3. QED  BY <3>1, <3>2
  <2>9. QED  BY <2>7, <2>8
<1>3. QED  BY <1>1, <1>2 DEF Crash, CrashWrite

LEMMA CrashLeaves ==
    ASSUME CacheTypeOK, Crash
    PROVE  /\ queue' = <<>> /\ upd' = UpdateThread /\ put' = [t \in Putter |-> NotBusy]
           /\ del' = NotBusy /\ pub' = {} /\ rb' = NoRebuild
           /\ newdb' = [d \in Dat |-> NoRow] /\ dbTable' = TRUE /\ db' = db
           /\ torn \subseteq torn' /\ ghost \subseteq ghost' /\ (del # NotBusy => del.dat \in ghost')
           /\ lost \subseteq lost' /\ (~dbTable => lost' = Dat)
           /\ \A d \in Dat : About(queue, d) \/ About(upd.batch, d) \/ Queueing(d) => d \in lost'
           /\ torn' \subseteq Dat /\ ghost' \subseteq Dat /\ lost' \subseteq Dat
<1>1. /\ queue' = <<>> /\ upd' = UpdateThread /\ put' = [t \in Putter |-> NotBusy]
      /\ del' = NotBusy /\ pub' = {} /\ rb' = NoRebuild
      /\ newdb' = [d \in Dat |-> NoRow] /\ dbTable' = TRUE /\ db' = db
  BY DEF Crash
<1>2. lost' = lost \cup Dats(queue) \cup Dats(upd.batch) \cup (IF dbTable THEN {} ELSE Dat)
               \cup {put[u].dat : u \in {v \in Putter : put[v].pc \in {"write", "queue"}}}
  BY DEF Crash
<1>3. /\ torn' = torn \cup {put[u].dat : u \in {v \in Putter : put[v].pc = "write" /\ put[v].late}}
      /\ ghost' = ghost \cup (IF del = NotBusy THEN {} ELSE {del.dat})
  BY DEF Crash
<1>4. /\ torn \subseteq Dat /\ ghost \subseteq Dat /\ lost \subseteq Dat /\ (del # NotBusy => del.dat \in Dat)
      /\ \A u \in Putter : put[u].pc # "idle" => put[u].dat \in Dat
  BY TypeParts, TypeFacts DEF HistoryType
<1>5. /\ Dats(queue) \subseteq Dat /\ Dats(upd.batch) \subseteq Dat
      /\ \A d \in Dat : About(queue, d) => d \in Dats(queue)
      /\ \A d \in Dat : About(upd.batch, d) => d \in Dats(upd.batch)
  BY TypeParts, TypeFacts, ListFacts DEF QueueType
<1>6. /\ torn \subseteq torn' /\ torn' \subseteq Dat
      /\ ghost \subseteq ghost' /\ ghost' \subseteq Dat /\ (del # NotBusy => del.dat \in ghost')
  BY <1>3, <1>4
<1>7. lost' \subseteq Dat
  BY <1>2, <1>4, <1>5
<1>8. lost \subseteq lost' /\ (~dbTable => Dat \subseteq lost')
  BY <1>2
<1>9. \A d \in Dat : About(queue, d) \/ About(upd.batch, d) \/ Queueing(d) => d \in lost'
  BY <1>2, <1>5 DEF Queueing
<1>10. QED  BY <1>1, <1>6, <1>7, <1>8, <1>9
LEMMA FileTypeStep ==
    ASSUME CacheTypeOK, Writing, CacheNext
    PROVE  FileType'
<1>0. file \in [Dat -> Seq(Block)]
  BY TypeParts DEF FileType
<1>1. CASE UNCHANGED file
  BY <1>0, <1>1 DEF FileType
<1>2. ASSUME NEW t \in Putter, PutWrite(t)  PROVE FileType'
  <2> DEFINE w == put[t]  f == file[w.dat]  g == Stored(f, w, News(w))
  <2>1. /\ w \in Busy /\ w.dat \in Dat /\ Span(w) /\ f \in Seq(Block)
        /\ file' = file \/ file' = [file EXCEPT ![w.dat] = g]
    BY <1>2, WriteFacts
  <2>2. g \in Seq(Block)
    <3> HIDE DEF w, f
    <3>1. News(w) \in Seq(Block)
      BY <2>1, NewsFacts
    <3>2. QED  BY <2>1, <3>1, Written
  <2> HIDE DEF g
  <2>3. QED  BY <1>0, <2>1, <2>2 DEF FileType
<1>3. ASSUME NEW d \in Dat, DeleteFile(d)  PROVE FileType'
  BY <1>0, <1>3, EmptySeq DEF FileType, DeleteFile
<1>4. CASE Crash
  BY <1>4, CrashFacts
<1>5. ASSUME NEW t \in Putter, PutShort(t)  PROVE FileType'
  BY <1>5, ShortFacts
<1>6. QED  BY <1>1, <1>2, <1>3, <1>4, <1>5, FileChanges

LEMMA PutTypeStep ==
    ASSUME CacheTypeOK, Writing, CacheNext
    PROVE  PutType'
<1>0. put \in [Putter -> Writer] /\ NotBusy \in Writer
  BY TypeParts, WriterFacts DEF PutType
<1>1. CASE UNCHANGED put
  BY <1>0, <1>1 DEF PutType
<1>2. ASSUME NEW t \in Putter, NEW d \in Dat, NEW p \in Part, PutStat(t, d, p)  PROVE PutType'
  BY <1>2, StatFacts
<1>3. ASSUME NEW t \in Putter, PutLoad(t)  PROVE PutType'
  BY <1>3, LoadFacts
<1>4. ASSUME NEW t \in Putter, PutWrite(t) \/ PutShort(t)  PROVE PutType'
  BY <1>4, WriteFacts, ShortFacts
<1>5. ASSUME NEW t \in Putter, PutFail(t) \/ PutQueue(t)  PROVE PutType'
  BY <1>0, <1>5 DEF PutType, PutFail, PutQueue
<1>6. ASSUME NEW d \in Dat, DeleteFile(d)  PROVE PutType'
  BY <1>6, DeleteFacts
<1>7. CASE Crash
  BY <1>0, <1>7, CrashLeaves DEF PutType
<1>8. QED  BY <1>1, <1>2, <1>3, <1>4, <1>5, <1>6, <1>7, PutChanges

LEMMA RowTypeStep ==
    ASSUME CacheTypeOK, CacheNext
    PROVE  RowType'
<1>0. /\ db \in Rows /\ newdb \in Rows /\ dbTable \in BOOLEAN
      /\ upd.batch \in Seq(Entry) /\ queue \in Seq(Entry) /\ rb.list \in Seq(Entry)
  BY TypeParts, TypeFacts DEF RowType, QueueType
<1>n. [d \in Dat |-> NoRow] \in Rows /\ \A r \in Rows, d \in Dat : [r EXCEPT ![d] = NoRow] \in Rows
  BY DEF Rows
<1>1. CASE UNCHANGED <<db, newdb, dbTable>>
  BY <1>0, <1>1 DEF RowType
<1>2. CASE DeleteRow
  <2>1. del.dat \in Dat
    BY <1>2, TypeFacts DEF DeleteRow
  <2>2. QED  BY <1>0, <1>n, <1>2, <2>1 DEF RowType, DeleteRow
<1>3. CASE Update
  <2>1. Updated(db, upd.batch) \in Rows
    BY <1>0, UpdatedRows
  <2>2. QED  BY <1>0, <1>3, <2>1 DEF RowType, Update
<1>4. CASE RebuildFlush
  <2>1. Updated(db, queue) \in Rows
    BY <1>0, UpdatedRows
  <2>2. QED  BY <1>0, <1>4, <2>1 DEF RowType, RebuildFlush
<1>5. CASE RebuildInsert
  <2>1. Inserted(newdb, rb.list) \in Rows
    BY <1>0, InsertedRows
  <2>2. QED  BY <1>0, <1>5, <2>1 DEF RowType, RebuildInsert
<1>6. CASE RebuildBefore \/ RebuildOld \/ RebuildNew \/ RebuildStart
  BY <1>0, <1>n, <1>6 DEF RowType, RebuildBefore, RebuildOld, RebuildNew, RebuildStart
<1>7. CASE Crash
  BY <1>0, <1>n, <1>7, CrashLeaves DEF RowType
<1>8. QED  BY <1>1, <1>2, <1>3, <1>4, <1>5, <1>6, <1>7, RowChanges

LEMMA QueueTypeStep ==
    ASSUME CacheTypeOK, CacheNext
    PROVE  QueueType'
<1>0. queue \in Seq(Entry) /\ <<>> \in Seq(Entry)
  BY TypeParts, EmptySeq DEF QueueType
<1>1. CASE UNCHANGED queue
  BY <1>0, <1>1 DEF QueueType
<1>2. ASSUME NEW t \in Putter, PutQueue(t)  PROVE QueueType'
  <2> DEFINE e == [dat |-> put[t].dat, userdata |-> 0, size |-> put[t].total]
  <2>1. put[t] \in Busy
    BY <1>2, TypeFacts DEF PutQueue
  <2>2. e \in Entry
    BY <2>1, WriterFacts DEF Entry
  <2>3. queue' = Append(queue, e)
    BY <1>2 DEF PutQueue, AddUpdateQueue
  <2> HIDE DEF e
  <2>4. QED  BY <1>0, <2>2, <2>3, AppendFacts DEF QueueType
<1>3. ASSUME NEW d \in Dat, PublishQueue(d)  PROVE QueueType'
  <2> DEFINE e == [dat |-> d, userdata |-> 1, size |-> 0]
  <2>1. e \in Entry
    BY DEF Entry
  <2>2. queue' = Append(queue, e)
    BY <1>3 DEF PublishQueue, AddUpdateQueue
  <2> HIDE DEF e
  <2>3. QED  BY <1>0, <2>1, <2>2, AppendFacts DEF QueueType
<1>4. CASE UpdateTake \/ RebuildFlush \/ Crash
  BY <1>0, <1>4 DEF QueueType, UpdateTake, RebuildFlush, Crash
<1>5. QED  BY <1>1, <1>2, <1>3, <1>4, QueueChanges

LEMMA DeleteTypeStep ==
    ASSUME CacheTypeOK, CacheNext
    PROVE  DeleteType'
<1>0. del \in {NotBusy} \cup [pc : {"row"}, dat : Dat] /\ pub \subseteq Dat
  BY TypeParts DEF DeleteType
<1>1. CASE UNCHANGED <<del, pub>>
  BY <1>0, <1>1 DEF DeleteType
<1>2. ASSUME NEW d \in Dat, DeleteFile(d)  PROVE DeleteType'
  BY <1>0, <1>2 DEF DeleteType, DeleteFile
<1>3. CASE DeleteRow
  BY <1>0, <1>3 DEF DeleteType, DeleteRow
<1>4. ASSUME NEW ds \in SUBSET Dat, Publish(ds)  PROVE DeleteType'
  BY <1>0, <1>4 DEF DeleteType, Publish
<1>5. ASSUME NEW d \in Dat, PublishQueue(d)  PROVE DeleteType'
  BY <1>0, <1>5 DEF DeleteType, PublishQueue
<1>6. CASE Crash
  BY <1>6, CrashLeaves DEF DeleteType
<1>7. QED  BY <1>1, <1>2, <1>3, <1>4, <1>5, <1>6, DeleteChanges

LEMMA ThreadFacts ==
    /\ NoThread.pc = "none" /\ UpdateThread.pc = "wait" /\ NoRebuild.pc = "none"
    /\ NoThread.batch = <<>> /\ UpdateThread.batch = <<>> /\ NoRebuild.list = <<>>
    /\ <<>> \in Seq(Entry)
    /\ NoThread \in [pc : {"none", "wait", "update"}, loop : BOOLEAN, batch : Seq(Entry)]
    /\ UpdateThread \in [pc : {"none", "wait", "update"}, loop : BOOLEAN, batch : Seq(Entry)]
    /\ NoRebuild \in [pc : {"none", "join", "flush", "before", "scan", "insert", "old", "new", "start"},
                      loop : BOOLEAN, todo : SUBSET Dat, list : Seq(Entry), missed : SUBSET Dat]
<1>1. <<>> \in Seq(Entry)
  BY EmptySeq
<1>2. QED  BY <1>1 DEF NoThread, UpdateThread, NoRebuild

LEMMA UpdateTypeStep ==
    ASSUME CacheTypeOK, CacheNext
    PROVE  UpdateType'
<1>0. UpdateType /\ queue \in Seq(Entry) /\ <<>> \in Seq(Entry)
  BY TypeParts, EmptySeq DEF QueueType
<1>1. CASE UNCHANGED upd
  BY <1>0, <1>1 DEF UpdateType
<1>2. CASE UpdateTake
  BY <1>0, <1>2 DEF UpdateType, UpdateTake
<1>3. CASE Update
  BY <1>0, <1>3 DEF UpdateType, Update
<1>4. CASE UpdateEnd
  BY <1>0, <1>4, ThreadFacts DEF UpdateType, UpdateEnd
<1>5. CASE Rebuild
  BY <1>0, <1>5 DEF UpdateType, Rebuild
<1>6. CASE RebuildStart
  BY <1>0, <1>6, ThreadFacts DEF UpdateType, RebuildStart
<1>7. CASE Crash
  BY <1>0, <1>7, CrashLeaves, ThreadFacts DEF UpdateType
<1>8. CASE RebuildFlush \/ RebuildBefore \/ (\E d \in Dat : RebuildScan(d))
           \/ RebuildInsert \/ RebuildEnd \/ RebuildOld \/ RebuildNew \/ StopRebuildDB
  BY <1>1, <1>8 DEF RebuildFlush, RebuildBefore, RebuildScan,
           RebuildInsert, RebuildEnd, RebuildOld, RebuildNew, StopRebuildDB
<1>9. QED  BY <1>1, <1>2, <1>3, <1>4, <1>5, <1>6, <1>7, <1>8, ThreadChanges

LEMMA RebuildTypeStep ==
    ASSUME CacheTypeOK, CacheNext
    PROVE  RebuildType'
<1>0. RebuildType /\ <<>> \in Seq(Entry) /\ rb.list \in Seq(Entry) /\ rb.todo \subseteq Dat
  BY TypeParts, TypeFacts, EmptySeq
<1>1. CASE UNCHANGED rb
  BY <1>0, <1>1 DEF RebuildType
<1>2. CASE Rebuild \/ StopRebuildDB
  BY <1>0, <1>2 DEF RebuildType, Rebuild, StopRebuildDB
<1>3. CASE RebuildFlush
  BY <1>0, <1>3 DEF RebuildType, RebuildFlush
<1>4. CASE RebuildBefore
  BY <1>0, <1>4 DEF RebuildType, RebuildBefore
<1>5. ASSUME NEW d \in Dat, RebuildScan(d)  PROVE RebuildType'
  <2> DEFINE e == [dat |-> d, userdata |-> 0, size |-> Len(file[d])]
             list == IF file[d] = <<>> THEN rb.list ELSE Append(rb.list, e)
  <2>1. Len(file[d]) \in Nat
    BY TypeFacts, LenProperties
  <2>2. e \in Entry
    BY <2>1 DEF Entry
  <2> HIDE DEF e
  <2>3. Append(rb.list, e) \in Seq(Entry)
    BY <1>0, <2>2, AppendFacts
  <2>4. list \in Seq(Entry)
    BY <1>0, <2>3
  <2>5. rb' = [rb EXCEPT !.todo = rb.todo \ {d}, !.list = list]
    BY <1>5 DEF RebuildScan, e
  <2> HIDE DEF list
  <2>6. QED  BY <1>0, <2>4, <2>5 DEF RebuildType
<1>6. CASE RebuildInsert
  <2>1. Dats(rb.list) \subseteq Dat
    BY <1>0, ListFacts
  <2>2. QED  BY <1>0, <1>6, <2>1 DEF RebuildType, RebuildInsert
<1>7. CASE RebuildEnd
  BY <1>0, <1>7 DEF RebuildType, RebuildEnd
<1>8. CASE RebuildOld \/ RebuildNew
  BY <1>0, <1>8 DEF RebuildType, RebuildOld, RebuildNew
<1>9. CASE RebuildStart \/ Crash
  BY <1>0, <1>9, ThreadFacts DEF RebuildType, RebuildStart, Crash
<1>10. CASE UpdateTake \/ Update \/ UpdateEnd
  BY <1>1, <1>10 DEF UpdateTake, Update, UpdateEnd
<1>11. QED  BY <1>1, <1>2, <1>3, <1>4, <1>5, <1>6, <1>7, <1>8, <1>9, <1>10, ThreadChanges

LEMMA HistoryTypeStep ==
    ASSUME CacheTypeOK, Writing, CacheNext
    PROVE  HistoryType'
<1>0. /\ rare \in 0..MaxRare /\ torn \subseteq Dat /\ ghost \subseteq Dat /\ lost \subseteq Dat
      /\ queue \in Seq(Entry) /\ upd.batch \in Seq(Entry)
  BY TypeParts, TypeFacts DEF HistoryType, QueueType
<1>1. rare' \in 0..MaxRare
  BY <1>0, HistoryChanges, DatCacheAssumption DEF Rare
<1>2. torn' \subseteq Dat
  <2>1. ASSUME NEW t \in Putter, PutWrite(t) \/ PutShort(t)  PROVE torn' \subseteq Dat
    BY <1>0, <2>1, WriteFacts, ShortFacts
  <2>2. CASE DeleteRow
    BY <1>0, <2>2, TypeFacts DEF DeleteRow
  <2>3. CASE Crash
    BY <2>3, CrashLeaves
  <2>4. QED  BY <1>0, <2>1, <2>2, <2>3, HistoryChanges
<1>3. lost' \subseteq Dat
  <2>1. Dats(queue) \subseteq Dat /\ Dats(upd.batch) \subseteq Dat
    BY <1>0, ListFacts
  <2>2. CASE Update
    BY <1>0, <2>1, <2>2 DEF Update
  <2>3. CASE RebuildFlush
    BY <1>0, <2>1, <2>3 DEF RebuildFlush
  <2>4. CASE RebuildNew
    BY <1>0, <2>4, TypeFacts DEF RebuildNew
  <2>5. CASE Crash
    BY <2>5, CrashLeaves
  <2>6. QED  BY <1>0, <2>2, <2>3, <2>4, <2>5, HistoryChanges
<1>4. ghost' \subseteq Dat
  <2>1. CASE DeleteRow
    BY <1>0, <2>1, TypeFacts DEF DeleteRow
  <2>2. CASE Crash
    BY <2>2, CrashLeaves
  <2>3. QED  BY <1>0, <2>1, <2>2, HistoryChanges
<1>5. QED  BY <1>1, <1>2, <1>3, <1>4 DEF HistoryType

LEMMA TypeStep ==
    ASSUME CacheTypeOK, Writing, CacheNext
    PROVE  CacheTypeOK'
<1>1. FileType' /\ PutType' /\ RowType' /\ QueueType' /\ DeleteType'
      /\ UpdateType' /\ RebuildType' /\ HistoryType'
  BY FileTypeStep, PutTypeStep, RowTypeStep, QueueTypeStep, DeleteTypeStep,
     UpdateTypeStep, RebuildTypeStep, HistoryTypeStep
<1>2. QED
  BY <1>1 DEF CacheTypeOK, FileType, PutType, RowType, QueueType, DeleteType, UpdateType,
         RebuildType, HistoryType, Rows
-----------------------------------------------------------------------------
(* What the threads in Put know of the files. *)

LEMMA TornGrows ==
    ASSUME CacheTypeOK, Writing, CacheNext
    PROVE  torn \subseteq torn'
<1>1. ASSUME NEW t \in Putter, PutWrite(t) \/ PutShort(t)  PROVE torn \subseteq torn'
  BY <1>1, WriteFacts, ShortFacts
<1>2. CASE DeleteRow
  BY <1>2 DEF DeleteRow
<1>3. CASE Crash
  BY <1>3, CrashLeaves
<1>4. QED  BY <1>1, <1>2, <1>3, HistoryChanges

LEMMA WritingStep ==
    ASSUME CacheTypeOK, Writing, CacheNext
    PROVE  Writing'
<1>t. torn \subseteq torn'
  BY TornGrows
<1>0. put \in [Putter -> Writer] /\ file \in [Dat -> Seq(Block)]
  BY TypeParts DEF PutType, FileType
<1>w. \A t \in Putter : WritingWell(put[t])
  BY DEF Writing
<1>i. \A t \in Putter : put'[t].pc \notin {"write", "queue"} => WritingWell(put[t])'
  BY DEF WritingWell
<1>1. CASE UNCHANGED <<file, put>>
  <2>1. ASSUME NEW t \in Putter  PROVE WritingWell(put[t])'
    BY <1>1, <1>t, <1>w DEF WritingWell
  <2>2. QED  BY <2>1 DEF Writing
<1>2. ASSUME NEW t \in Putter, NEW d \in Dat, NEW p \in Part, PutStat(t, d, p)  PROVE Writing'
  <2>1. file' = file
    BY <1>2 DEF PutStat
  <2>2. /\ put'[t] \in Busy /\ put'[t].dat = d /\ put'[t].part = p
        /\ put'[t].pc \in {"load", "write"} /\ ~put'[t].late
        /\ put'[t].pc = "write" => put'[t].size = Len(file[d]) /\ Len(file[d]) = p.start
        /\ \A u \in Putter \ {t} : put'[u] = put[u]
    BY <1>2, StatFacts
  <2>3. p.start \in Nat /\ p.len \in Nat /\ p.len > 0
    BY WriterFacts
  <2>4. CASE put'[t].pc = "write"
    <3>1. put'[t].size = p.start /\ Len(file[d]) = put'[t].size
      BY <2>2, <2>4
    <3>2. Span(put'[t])
      BY <2>2, <2>3, <3>1 DEF Span
    <3>3. Seen(put'[t], file'[d])
      BY <2>1, <2>2, <2>3, <3>1 DEF Seen
    <3>4. QED
      <4>1. WritingWell(put[t])'
        BY <2>2, <2>4, <3>2, <3>3 DEF WritingWell, Span
      <4>2. \A u \in Putter \ {t} : WritingWell(put[u])'
        BY <1>t, <1>w, <2>1, <2>2 DEF WritingWell
      <4>3. QED  BY <4>1, <4>2 DEF Writing
  <2>5. CASE put'[t].pc = "load"
    <3>1. WritingWell(put[t])'
      BY <1>i, <2>5
    <3>2. \A u \in Putter \ {t} : WritingWell(put[u])'
      BY <1>t, <1>w, <2>1, <2>2 DEF WritingWell
    <3>3. QED  BY <3>1, <3>2 DEF Writing
  <2>6. QED  BY <2>2, <2>4, <2>5
<1>3. ASSUME NEW t \in Putter, PutLoad(t)  PROVE Writing'
  <2>1. file' = file
    BY <1>3 DEF PutLoad
  <2>2. /\ put'[t].pc \in {"idle", "write"}
        /\ put'[t].pc = "write" =>
             /\ put'[t].dat = put[t].dat
             /\ Span(put'[t]) /\ Seen(put'[t], file[put[t].dat])
        /\ \A u \in Putter \ {t} : put'[u] = put[u]
    BY <1>3, LoadFacts
  <2>3. WritingWell(put[t])'
    BY <2>1, <2>2 DEF WritingWell, Span
  <2>4. \A u \in Putter \ {t} : WritingWell(put[u])'
    BY <1>t, <1>w, <2>1, <2>2 DEF WritingWell
  <2>5. QED  BY <2>3, <2>4 DEF Writing
<1>4. ASSUME NEW t \in Putter, PutWrite(t)  PROVE Writing'
  <2> DEFINE w == put[t]  d == w.dat  f == file[d]  g == Stored(f, w, News(w))
  <2>1. /\ w \in Busy /\ w.pc = "write" /\ d \in Dat /\ Span(w) /\ f \in Seq(Block)
        /\ \/ file' = file /\ torn' = torn /\ put' = [put EXCEPT ![t] = NotBusy]
           \/ /\ file' = [file EXCEPT ![d] = g]
              /\ torn' = IF w.late THEN torn \cup {d} ELSE torn
              /\ put'[t] \in Busy /\ put'[t].pc = "queue" /\ put'[t].dat = d
              /\ put'[t].part = w.part /\ put'[t].late = w.late
              /\ put'[t].total = TotalSize(w)
              /\ \A u \in Putter \ {t} : MadeLate(put[u], put'[u], {"write"}, d)
    BY <1>4, WriteFacts
  <2>2. CASE file' = file /\ torn' = torn /\ put' = [put EXCEPT ![t] = NotBusy]
    <3>1. put'[t].pc = "idle"
      BY <1>0, <2>2, WriterFacts
    <3>2. WritingWell(put[t])'
      BY <1>i, <3>1
    <3>3. \A u \in Putter \ {t} : WritingWell(put[u])'
      BY <1>0, <1>t, <1>w, <2>2 DEF WritingWell
    <3>4. QED  BY <3>2, <3>3 DEF Writing
  <2>3. CASE /\ file' = [file EXCEPT ![d] = g]
             /\ torn' = IF w.late THEN torn \cup {d} ELSE torn
             /\ put'[t] \in Busy /\ put'[t].pc = "queue" /\ put'[t].dat = d
             /\ put'[t].part = w.part /\ put'[t].late = w.late
             /\ \A u \in Putter \ {t} : MadeLate(put[u], put'[u], {"write"}, d)
    <3>1. w.late => d \in torn'
      BY <2>3
    <3>2. ~w.late => /\ Has(g, w.part)
                     /\ \A p \in Part : Has(f, p) => Has(g, p)
      <4>1. w.late \/ Seen(w, f)
        BY <1>w, <2>1 DEF WritingWell
      <4>2. g = Stored(f, w, News(w))
        OBVIOUS
      <4> HIDE DEF w, f, g
      <4>3. QED  BY <2>1, <4>1, <4>2, WrittenHas
    <3>3. file'[d] = g /\ \A e \in Dat \ {d} : file'[e] = file[e]
      <4> HIDE DEF g, d
      <4>1. QED  BY <1>0, <2>1, <2>3
    <3> HIDE DEF g
    <3>4. WritingWell(put[t])'
      BY <2>3, <3>1, <3>2, <3>3 DEF WritingWell
    <3>5. ASSUME NEW u \in Putter \ {t}  PROVE WritingWell(put[u])'
      <4> DEFINE v == put[u]  r == put'[u]
      <4>1. MadeLate(v, r, {"write"}, d) /\ WritingWell(v)
        BY <1>w, <2>3
      <4>2. v.pc # "idle" => v.dat \in Dat /\ v.part \in Part
        BY TypeFacts
      <4>3. CASE r.pc \notin {"write", "queue"}
        BY <1>i, <4>3
      <4>4. CASE r.pc \in {"write", "queue"} /\ v.dat # d
        <5>1. r = v /\ file'[v.dat] = file[v.dat]
          BY <3>3, <4>1, <4>2, <4>4 DEF MadeLate
        <5>2. QED  BY <1>t, <4>1, <5>1 DEF WritingWell
      <4>5. CASE r.pc = "write" /\ v.dat = d
        <5>1. v.pc = "write" /\ r.late /\ r.part = v.part /\ r.size = v.size
          BY <4>1, <4>5 DEF MadeLate
        <5>2. Span(r)
          BY <4>1, <5>1 DEF WritingWell, Span
        <5>3. QED  BY <4>5, <5>1, <5>2 DEF WritingWell, Span
      <4>6. CASE r.pc = "queue" /\ v.dat = d
        <5>1. /\ v.pc = "queue" /\ r.part = v.part /\ r.dat = d /\ (v.late => r.late)
              /\ v.part \in Part
          BY <4>1, <4>2, <4>6 DEF MadeLate
        <5>2. v.late \/ d \in torn \/ Has(f, v.part)
          BY <4>1, <4>6, <5>1 DEF WritingWell
        <5>3. r.late \/ d \in torn' \/ Has(g, r.part)
          BY <1>t, <3>1, <3>2, <5>1, <5>2
        <5>4. QED  BY <3>3, <4>6, <5>1, <5>3 DEF WritingWell
      <4>7. QED  BY <4>3, <4>4, <4>5, <4>6
    <3>6. QED  BY <3>4, <3>5 DEF Writing
  <2>4. QED  BY <2>1, <2>2, <2>3
<1>5. ASSUME NEW t \in Putter, PutFail(t) \/ PutQueue(t)  PROVE Writing'
  <2>1. file' = file /\ put' = [put EXCEPT ![t] = NotBusy]
    BY <1>5 DEF PutFail, PutQueue
  <2>2. put'[t].pc = "idle"
    BY <1>0, <2>1, WriterFacts
  <2>3. WritingWell(put[t])'
    BY <1>i, <2>2
  <2>4. \A u \in Putter \ {t} : WritingWell(put[u])'
    BY <1>0, <1>t, <1>w, <2>1 DEF WritingWell
  <2>5. QED  BY <2>3, <2>4 DEF Writing
<1>6. ASSUME NEW d \in Dat, DeleteFile(d)  PROVE Writing'
  <2>1. /\ file' = [file EXCEPT ![d] = <<>>]
        /\ \A t \in Putter : MadeLate(put[t], put'[t], {"write", "queue"}, d)
    BY <1>6, DeleteFacts
  <2>2. \A e \in Dat \ {d} : file'[e] = file[e]
    BY <1>0, <2>1
  <2>3. ASSUME NEW u \in Putter  PROVE WritingWell(put[u])'
    <3> DEFINE v == put[u]  r == put'[u]
    <3>1. MadeLate(v, r, {"write", "queue"}, d) /\ WritingWell(v)
      BY <1>w, <2>1
    <3>2. v.pc # "idle" => v.dat \in Dat /\ v.part \in Part
      BY TypeFacts
    <3>3. CASE r.pc \notin {"write", "queue"}
      BY <1>i, <3>3
    <3>4. CASE r.pc \in {"write", "queue"} /\ v.dat # d
      <4>1. r = v /\ file'[v.dat] = file[v.dat]
        BY <2>2, <3>1, <3>2, <3>4 DEF MadeLate
      <4>2. QED  BY <1>t, <3>1, <4>1 DEF WritingWell
    <3>5. CASE r.pc \in {"write", "queue"} /\ v.dat = d
      <4>1. v.pc = r.pc /\ r.late /\ r.part = v.part /\ r.size = v.size
        BY <3>1, <3>5 DEF MadeLate
      <4>2. r.pc = "write" => Span(r)
        BY <3>1, <4>1 DEF WritingWell, Span
      <4>3. QED  BY <3>5, <4>1, <4>2 DEF WritingWell, Span
    <3>6. QED  BY <3>3, <3>4, <3>5
  <2>4. QED  BY <2>3 DEF Writing
<1>7. CASE Crash
  <2>1. \A t \in Putter : put'[t].pc = "idle"
    BY <1>7, CrashLeaves, WriterFacts
  <2>2. QED  BY <1>i, <2>1 DEF Writing
<1>8. ASSUME NEW t \in Putter, PutShort(t)  PROVE Writing'
  <2> DEFINE d == put[t].dat
  <2>1. /\ \A e \in Dat \ {d} : file'[e] = file[e]
        /\ torn' = torn \cup {d}
        /\ put'[t].pc = "queue" /\ put'[t].dat = d
        /\ \A u \in Putter \ {t} : MadeLate(put[u], put'[u], {"write"}, d)
    BY <1>8, ShortFacts
  <2>2. WritingWell(put[t])'
    BY <2>1 DEF WritingWell
  <2>3. ASSUME NEW u \in Putter \ {t}  PROVE WritingWell(put[u])'
    <3> DEFINE v == put[u]  r == put'[u]
    <3>1. MadeLate(v, r, {"write"}, d) /\ WritingWell(v)
      BY <1>w, <2>1
    <3>2. v.pc # "idle" => v.dat \in Dat /\ v.part \in Part
      BY TypeFacts
    <3>3. CASE r.pc \notin {"write", "queue"}
      BY <1>i, <3>3
    <3>4. CASE r.pc \in {"write", "queue"} /\ v.dat # d
      <4>1. r = v /\ file'[v.dat] = file[v.dat]
        BY <2>1, <3>1, <3>2, <3>4 DEF MadeLate
      <4>2. QED  BY <1>t, <3>1, <4>1 DEF WritingWell
    <3>5. CASE r.pc = "write" /\ v.dat = d
      <4>1. v.pc = "write" /\ r.late /\ r.part = v.part /\ r.size = v.size
        BY <3>1, <3>5 DEF MadeLate
      <4>2. Span(r)
        BY <3>1, <4>1 DEF WritingWell, Span
      <4>3. QED  BY <3>5, <4>1, <4>2 DEF WritingWell, Span
    <3>6. CASE r.pc = "queue" /\ v.dat = d
      <4>1. r.dat = d /\ d \in torn'
        BY <2>1, <3>1, <3>6 DEF MadeLate
      <4>2. QED  BY <3>6, <4>1 DEF WritingWell
    <3>7. QED  BY <3>3, <3>4, <3>5, <3>6
  <2>4. QED  BY <2>2, <2>3 DEF Writing
<1>9. QED
  BY <1>1, <1>2, <1>3, <1>4, <1>5, <1>6, <1>7, <1>8, PutChanges, FileChanges
-----------------------------------------------------------------------------
(* The rebuild and UpdateThread. *)

LEMMA PhasesStep ==
    ASSUME CacheTypeOK, Phases, CacheNext
    PROVE  Phases'
<1>0. /\ rb.pc \notin {"none", "join"} => upd.pc = "none"
      /\ ~dbTable => \A d \in Dat : ~db[d].row
      /\ rb.pc \in {"old", "new"} => rb.todo = {} /\ rb.list = <<>>
      /\ RebuildType /\ UpdateType /\ dbTable \in BOOLEAN
  BY TypeParts DEF Phases, RowType
<1>1. (rb.pc \notin {"none", "join"} => upd.pc = "none")'
  <2>1. CASE UNCHANGED <<upd, rb>>
    BY <1>0, <2>1
  <2>2. CASE UpdateTake \/ Update \/ UpdateEnd
    BY <1>0, <2>2, ThreadFacts DEF UpdateTake, Update, UpdateEnd, UpdateType
  <2>3. CASE Rebuild \/ StopRebuildDB
    BY <1>0, <2>3 DEF Rebuild, StopRebuildDB, RebuildType, UpdateType
  <2>4. CASE RebuildFlush
    BY <1>0, <2>4 DEF RebuildFlush
  <2>5. CASE RebuildBefore \/ (\E d \in Dat : RebuildScan(d)) \/ RebuildInsert \/ RebuildEnd
             \/ RebuildOld \/ RebuildNew
    BY <1>0, <2>5 DEF RebuildBefore, RebuildScan, RebuildInsert, RebuildEnd,
                      RebuildOld, RebuildNew
  <2>6. CASE RebuildStart \/ Crash
    BY <2>6, ThreadFacts DEF RebuildStart, Crash
  <2>7. QED  BY <2>1, <2>2, <2>3, <2>4, <2>5, <2>6, ThreadChanges
<1>2. (~dbTable => \A d \in Dat : ~db[d].row)'
  <2>1. CASE UNCHANGED <<db, newdb, dbTable>>
    BY <1>0, <2>1
  <2>2. CASE DeleteRow \/ Update \/ RebuildFlush
    BY <1>0, <2>2 DEF DeleteRow, Update, RebuildFlush
  <2>3. CASE RebuildBefore \/ RebuildInsert \/ RebuildNew \/ RebuildStart \/ Crash
    BY <1>0, <2>3 DEF RebuildBefore, RebuildInsert, RebuildNew, RebuildStart, Crash
  <2>4. CASE RebuildOld
    BY <1>0, <2>4, RowFacts DEF RebuildOld
  <2>5. QED  BY <2>1, <2>2, <2>3, <2>4, RowChanges
<1>3. (rb.pc \in {"old", "new"} => rb.todo = {} /\ rb.list = <<>>)'
  <2>1. CASE UNCHANGED rb
    BY <1>0, <2>1
  <2>2. CASE UpdateTake \/ Update \/ UpdateEnd
    BY <2>1, <2>2 DEF UpdateTake, Update, UpdateEnd
  <2>3. CASE Rebuild \/ StopRebuildDB \/ RebuildFlush \/ RebuildBefore
    BY <1>0, <2>3 DEF Rebuild, StopRebuildDB, RebuildFlush, RebuildBefore, RebuildType
  <2>4. CASE (\E d \in Dat : RebuildScan(d)) \/ RebuildInsert \/ RebuildEnd
    BY <1>0, <2>4 DEF RebuildScan, RebuildInsert, RebuildEnd, RebuildType
  <2>5. CASE RebuildOld \/ RebuildNew
    BY <1>0, <2>5 DEF RebuildOld, RebuildNew, RebuildType
  <2>6. CASE RebuildStart \/ Crash
    BY <2>6, ThreadFacts DEF RebuildStart, Crash
  <2>7. QED  BY <2>1, <2>2, <2>3, <2>4, <2>5, <2>6, ThreadChanges
<1>4. QED  BY <1>1, <1>2, <1>3 DEF Phases

-----------------------------------------------------------------------------
(* Entries do not get lost on their way. *)

LEMMA AboutKept ==
    ASSUME CacheTypeOK, CacheNext, NEW d \in Dat, About(queue, d)
    PROVE  About(queue, d)' \/ UpdateTake \/ RebuildFlush \/ Crash
<1>0. queue \in Seq(Entry)
  BY TypeParts DEF QueueType
<1>1. CASE UNCHANGED queue
  BY <1>1 DEF About
<1>2. ASSUME NEW e \in Entry, AddUpdateQueue(e)  PROVE About(queue, d)'
  <2>1. queue' = Append(queue, e)
    BY <1>2 DEF AddUpdateQueue
  <2>2. About(Append(queue, e), d)
    BY <1>0, AppendFacts
  <2>3. QED  BY <2>1, <2>2 DEF About
<1>3. ASSUME NEW t \in Putter, PutQueue(t)  PROVE About(queue, d)'
  <2>1. put[t] \in Busy
    BY <1>3, TypeFacts DEF PutQueue
  <2>2. [dat |-> put[t].dat, userdata |-> 0, size |-> put[t].total] \in Entry
    BY <2>1, WriterFacts DEF Entry
  <2>3. QED  BY <1>2, <1>3, <2>2 DEF PutQueue
<1>4. ASSUME NEW e \in Dat, PublishQueue(e)  PROVE About(queue, d)'
  <2>1. [dat |-> e, userdata |-> 1, size |-> 0] \in Entry
    BY DEF Entry
  <2>2. QED  BY <1>2, <1>4, <2>1 DEF PublishQueue
<1>5. QED  BY <1>1, <1>3, <1>4, QueueChanges

LEMMA QueueingKept ==
    ASSUME CacheTypeOK, Writing, CacheNext, ~Crash, NEW d \in Dat, Queueing(d)
    PROVE  Coming(d)'
<1>1. PICK u \in Putter : put[u].pc = "queue" /\ put[u].dat = d
  BY DEF Queueing
<1>0. put \in [Putter -> Writer] /\ queue \in Seq(Entry)
  BY TypeParts DEF PutType, QueueType
<1>2. SUFFICES ASSUME ~PutQueue(u)
               PROVE  put'[u].pc = "queue" /\ put'[u].dat = d
  <2>1. CASE PutQueue(u)
    <3> DEFINE e == [dat |-> put[u].dat, userdata |-> 0, size |-> put[u].total]
    <3>1. put[u] \in Busy
      BY <1>1, TypeFacts
    <3>2. e \in Entry /\ e.dat = d
      BY <1>1, <3>1, WriterFacts DEF Entry
    <3>3. queue' = Append(queue, e)
      BY <2>1 DEF PutQueue, AddUpdateQueue
    <3> HIDE DEF e
    <3>4. About(Append(queue, e), d)
      BY <1>0, <3>2, AppendFacts
    <3>5. QED  BY <3>3, <3>4 DEF Coming, About
  <2>2. CASE ~PutQueue(u)
    BY <2>2 DEF Coming, Queueing
  <2>3. QED  BY <2>1, <2>2
<1>3. CASE UNCHANGED put
  BY <1>1, <1>3
<1>4. ASSUME NEW t \in Putter, NEW e \in Dat, NEW p \in Part, PutStat(t, e, p)
      PROVE  put'[u] = put[u]
  <2>1. t # u
    BY <1>1, <1>4, WriterFacts DEF PutStat
  <2>2. QED  BY <1>4, <2>1, StatFacts
<1>5. ASSUME NEW t \in Putter, PutLoad(t)  PROVE put'[u] = put[u]
  <2>1. t # u
    BY <1>1, <1>5 DEF PutLoad
  <2>2. QED  BY <1>5, <2>1, LoadFacts
<1>6. ASSUME NEW t \in Putter, PutWrite(t) \/ PutShort(t)
      PROVE  put'[u].pc = "queue" /\ put'[u].dat = d
  <2>1. t # u
    BY <1>1, <1>6 DEF PutWrite, PutShort
  <2>2. put'[u] = put[u] \/ MadeLate(put[u], put'[u], {"write"}, put[t].dat)
    BY <1>0, <1>6, <2>1, WriteFacts, ShortFacts
  <2>3. QED  BY <1>1, <2>2 DEF MadeLate
<1>7. ASSUME NEW t \in Putter, PutFail(t) \/ PutQueue(t)  PROVE put'[u] = put[u]
  <2>1. t # u
    BY <1>1, <1>2, <1>7 DEF PutFail
  <2>2. QED  BY <1>0, <1>7, <2>1 DEF PutFail, PutQueue
<1>8. ASSUME NEW e \in Dat, DeleteFile(e)  PROVE put'[u].pc = "queue" /\ put'[u].dat = d
  <2>1. MadeLate(put[u], put'[u], {"write", "queue"}, e)
    BY <1>8, DeleteFacts
  <2>2. QED  BY <1>1, <2>1 DEF MadeLate
<1>9. QED  BY <1>1, <1>3, <1>4, <1>5, <1>6, <1>7, <1>8, PutChanges

(* A file that is there now was there before, or its entry comes. *)
LEMMA FileComes ==
    ASSUME CacheTypeOK, Writing, CacheNext, ~Crash, NEW d \in Dat, file'[d] # <<>>
    PROVE  file[d] # <<>> \/ Coming(d)'
<1>0. file \in [Dat -> Seq(Block)]
  BY TypeParts DEF FileType
<1>1. CASE UNCHANGED file
  BY <1>1
<1>2. ASSUME NEW t \in Putter, PutWrite(t)  PROVE file[d] # <<>> \/ Coming(d)'
  <2> DEFINE w == put[t]  e == w.dat  g == Stored(file[e], w, News(w))
  <2>1. /\ e \in Dat
        /\ \/ file' = file
           \/ file' = [file EXCEPT ![e] = g] /\ put'[t].pc = "queue" /\ put'[t].dat = e
    BY <1>2, WriteFacts
  <2> HIDE DEF g, e
  <2>2. CASE file' = file
    BY <2>2
  <2>3. CASE file' = [file EXCEPT ![e] = g] /\ put'[t].pc = "queue" /\ put'[t].dat = e
    <3>1. CASE e = d
      BY <2>3, <3>1 DEF Coming, Queueing
    <3>2. CASE e # d
      BY <1>0, <2>1, <2>3, <3>2
    <3>3. QED  BY <3>1, <3>2
  <2>4. QED  BY <2>1, <2>2, <2>3
<1>3. ASSUME NEW e \in Dat, DeleteFile(e)  PROVE file[d] # <<>>
  <2>1. file' = [file EXCEPT ![e] = <<>>]
    BY <1>3, DeleteFacts
  <2>2. e # d
    BY <1>0, <2>1
  <2>3. QED  BY <1>0, <2>1, <2>2
<1>4. ASSUME NEW t \in Putter, PutShort(t)  PROVE file[d] # <<>> \/ Coming(d)'
  <2>1. /\ put'[t].pc = "queue" /\ put'[t].dat = put[t].dat
        /\ \A e \in Dat \ {put[t].dat} : file'[e] = file[e]
    BY <1>4, ShortFacts
  <2>2. CASE put[t].dat = d
    BY <2>1, <2>2 DEF Coming, Queueing
  <2>3. CASE put[t].dat # d
    BY <2>1, <2>3
  <2>4. QED  BY <2>2, <2>3
<1>5. QED  BY <1>1, <1>2, <1>3, <1>4, FileChanges

LEMMA FoundStep ==
    ASSUME CacheTypeOK, Writing, Phases, Found, CacheNext
    PROVE  Found'
<1> SUFFICES ASSUME NEW d \in Dat, rb'.pc \in {"scan", "old", "new"}, file'[d] # <<>>,
                    d \notin torn', d \notin rb'.missed
             PROVE  \/ d \in rb'.todo \/ About(rb'.list, d) \/ newdb'[d].row \/ Coming(d)'
  BY DEF Found, About
<1>0. RebuildType /\ rb.list \in Seq(Entry) /\ newdb \in Rows /\ torn \subseteq torn'
  BY TypeParts, TypeFacts, TornGrows DEF RowType
<1>1. ~Crash /\ ~RebuildFlush /\ ~Rebuild /\ ~RebuildStart /\ ~RebuildNew
  BY <1>0, CrashLeaves, ThreadFacts
     DEF RebuildFlush, Rebuild, RebuildStart, RebuildNew, RebuildType
<1>2. CASE RebuildBefore
  BY <1>0, <1>2 DEF RebuildBefore, RebuildType
<1>3. CASE ~RebuildBefore
  <2>1. rb.pc \in {"scan", "old", "new"}
    <3>1. CASE UNCHANGED rb
      BY <3>1
    <3>2. CASE UpdateTake \/ Update \/ UpdateEnd
      BY <3>2 DEF UpdateTake, Update, UpdateEnd
    <3>3. CASE (\E e \in Dat : RebuildScan(e)) \/ RebuildInsert \/ RebuildEnd \/ RebuildOld
      BY <3>3 DEF RebuildScan, RebuildInsert, RebuildEnd, RebuildOld
    <3>4. CASE StopRebuildDB
      BY <1>0, <3>4 DEF StopRebuildDB, RebuildType
    <3>5. QED  BY <1>1, <1>3, <3>1, <3>2, <3>3, <3>4, ThreadChanges
  <2>2. ~UpdateTake
    BY <2>1 DEF Phases, UpdateTake
  <2>3. CASE file[d] = <<>>
    BY <1>1, <2>3, FileComes
  <2>4. CASE file[d] # <<>> /\ Coming(d)
    <3>1. CASE About(queue, d)
      BY <1>1, <2>2, <3>1, AboutKept DEF Coming
    <3>2. CASE Queueing(d)
      BY <1>1, <3>2, QueueingKept
    <3>3. QED  BY <2>4, <3>1, <3>2 DEF Coming
  <2>5. CASE file[d] # <<>> /\ ~Coming(d)
    <3>m. d \notin rb.missed
      <4>1. CASE UNCHANGED rb
        BY <4>1
      <4>2. CASE UpdateTake \/ Update \/ UpdateEnd
        BY <4>2 DEF UpdateTake, Update, UpdateEnd
      <4>3. CASE (\E e \in Dat : RebuildScan(e)) \/ RebuildEnd \/ RebuildOld \/ StopRebuildDB
        BY <1>0, <4>3 DEF RebuildScan, RebuildEnd, RebuildOld, StopRebuildDB, RebuildType
      <4>4. CASE RebuildInsert
        BY <1>0, <4>4 DEF RebuildInsert, RebuildType
      <4>5. QED  BY <1>1, <1>3, <4>1, <4>2, <4>3, <4>4, ThreadChanges
    <3>0. d \in rb.todo \/ About(rb.list, d) \/ newdb[d].row
      BY <1>0, <2>1, <2>5, <3>m DEF Found
    <3>n. newdb[d].row => newdb'[d].row
      <4>1. CASE RebuildInsert
        <5>1. Source(newdb, rb.list, Inserted(newdb, rb.list), d)
          BY <1>0, InsertedRows
        <5>2. QED  BY <4>1, <5>1 DEF Source, RebuildInsert
      <4>2. CASE UNCHANGED <<db, newdb, dbTable>>
        BY <4>2
      <4>3. CASE DeleteRow \/ Update \/ RebuildOld
        BY <4>3 DEF DeleteRow, Update, RebuildOld
      <4>4. QED  BY <1>1, <1>3, <4>1, <4>2, <4>3, RowChanges
    <3>1. CASE newdb[d].row
      BY <3>n, <3>1
    <3>2. CASE ~newdb[d].row
      <4>1. CASE UNCHANGED rb
        BY <3>0, <3>2, <4>1
      <4>2. CASE UpdateTake \/ Update \/ UpdateEnd
        BY <3>0, <3>2, <4>2 DEF UpdateTake, Update, UpdateEnd
      <4>3. ASSUME NEW e \in Dat, RebuildScan(e)
            PROVE  d \in rb'.todo \/ About(rb'.list, d)
        <5> DEFINE new == [dat |-> e, userdata |-> 0, size |-> Len(file[e])]
                   list == IF file[e] = <<>> THEN rb.list ELSE Append(rb.list, new)
        <5>1. Len(file[e]) \in Nat
          BY TypeFacts, LenProperties
        <5>2. new \in Entry /\ new.dat = e
          BY <5>1 DEF Entry
        <5>3. rb' = [rb EXCEPT !.todo = rb.todo \ {e}, !.list = list]
          BY <4>3 DEF RebuildScan
        <5> HIDE DEF new
        <5>4. About(Append(rb.list, new), d) <=> About(rb.list, d) \/ e = d
          BY <1>0, <5>2, AppendFacts
        <5>5. (e = d => About(list, d)) /\ (About(rb.list, d) => About(list, d))
          BY <2>5, <5>4
        <5> HIDE DEF list
        <5>6. rb'.todo = rb.todo \ {e} /\ rb'.list = list
          BY <1>0, <5>3 DEF RebuildType
        <5>7. QED  BY <3>0, <3>2, <5>5, <5>6
      <4>4. CASE RebuildInsert
        <5>1. Source(newdb, rb.list, Inserted(newdb, rb.list), d)
          BY <1>0, InsertedRows
        <5>2. \/ newdb' = Inserted(newdb, rb.list) /\ rb' = [rb EXCEPT !.list = <<>>]
              \/ rb' = [rb EXCEPT !.list = <<>>, !.missed = rb.missed \cup Dats(rb.list)]
          BY <4>4 DEF RebuildInsert
        <5>3. rb'.todo = rb.todo
          BY <1>0, <5>2 DEF RebuildType
        <5>4. CASE newdb' = Inserted(newdb, rb.list)
          BY <3>0, <3>2, <5>1, <5>3, <5>4 DEF Source
        <5>5. CASE rb' = [rb EXCEPT !.list = <<>>, !.missed = rb.missed \cup Dats(rb.list)]
          <6>1. d \notin Dats(rb.list)
            BY <1>0, <5>5 DEF RebuildType
          <6>2. ~About(rb.list, d)
            BY <1>0, <6>1, ListFacts
          <6>3. QED  BY <3>0, <3>2, <5>3, <6>2
        <5>6. QED  BY <5>2, <5>4, <5>5
      <4>5. CASE RebuildEnd
        <5>1. rb.todo = {} /\ rb.list = <<>>
          BY <1>0, <4>5 DEF RebuildEnd, RebuildType
        <5>2. QED  BY <1>0, <3>0, <3>2, <5>1, ListFacts
      <4>6. CASE RebuildOld
        <5>1. rb'.todo = rb.todo /\ rb'.list = rb.list
          BY <1>0, <4>6 DEF RebuildOld, RebuildType
        <5>2. QED  BY <3>0, <3>2, <5>1
      <4>7. CASE StopRebuildDB
        <5>1. rb'.todo = rb.todo /\ rb'.list = rb.list
          BY <1>0, <4>7 DEF StopRebuildDB, RebuildType
        <5>2. QED  BY <3>0, <3>2, <5>1
      <4>8. QED  BY <1>1, <1>3, <4>1, <4>2, <4>3, <4>4, <4>5, <4>6, <4>7, ThreadChanges
    <3>3. QED  BY <3>1, <3>2
  <2>6. QED  BY <2>3, <2>4, <2>5
<1>4. QED  BY <1>2, <1>3

(* A row stays, unless the dat is deleted or the database goes. *)
LEMMA RowKept ==
    ASSUME CacheTypeOK, CacheNext, ~RebuildNew, NEW d \in Dat, db[d].row, dbTable',
           file[d] # <<>>, d \notin torn'
    PROVE  db'[d].row
<1>0. /\ db \in Rows /\ queue \in Seq(Entry) /\ upd.batch \in Seq(Entry)
  BY TypeParts, TypeFacts DEF RowType, QueueType
<1>1. CASE UNCHANGED <<db, newdb, dbTable>>
  BY <1>1
<1>2. CASE DeleteRow
  <2>1. del.dat # d
    BY <1>2 DEF DeleteRow
  <2>2. QED  BY <1>0, <1>2, <2>1 DEF DeleteRow, Rows
<1>3. CASE Update
  <2>1. Source(db, upd.batch, Updated(db, upd.batch), d)
    BY <1>0, UpdatedRows
  <2>2. QED  BY <1>3, <2>1 DEF Update, Source
<1>4. CASE RebuildFlush
  <2>1. Source(db, queue, Updated(db, queue), d)
    BY <1>0, UpdatedRows
  <2>2. QED  BY <1>4, <2>1 DEF RebuildFlush, Source
<1>5. CASE RebuildBefore \/ RebuildInsert \/ RebuildOld \/ RebuildStart
  BY <1>5 DEF RebuildBefore, RebuildInsert, RebuildOld, RebuildStart
<1>6. CASE Crash
  BY <1>6, CrashLeaves
<1>7. QED  BY <1>1, <1>2, <1>3, <1>4, <1>5, <1>6, RowChanges

LEMMA BatchKept ==
    ASSUME CacheTypeOK, Phases, CacheNext, ~Crash, NEW d \in Dat, About(upd.batch, d)
    PROVE  About(upd'.batch, d) \/ db'[d].row \/ d \in lost'
<1>0. /\ UpdateType /\ db \in Rows /\ upd.batch \in Seq(Entry)
  BY TypeParts, TypeFacts DEF RowType
<1>1. upd.batch # <<>> /\ upd.pc = "update" /\ rb.pc \in {"none", "join"}
  BY <1>0, ListFacts DEF UpdateType, Phases
<1>2. CASE UNCHANGED upd
  BY <1>2
<1>3. CASE Update
  <2>1. Source(db, upd.batch, Updated(db, upd.batch), d) /\ d \in Dats(upd.batch)
    BY <1>0, UpdatedRows, ListFacts
  <2>2. QED  BY <1>3, <2>1 DEF Update, Source
<1>4. CASE Rebuild
  BY <1>0, <1>4 DEF Rebuild, UpdateType
<1>5. CASE UpdateTake \/ UpdateEnd
  BY <1>1, <1>5 DEF UpdateTake, UpdateEnd
<1>6. CASE RebuildFlush \/ RebuildBefore \/ (\E e \in Dat : RebuildScan(e))
           \/ RebuildInsert \/ RebuildEnd \/ RebuildOld \/ RebuildNew \/ StopRebuildDB
  BY <1>2, <1>6 DEF RebuildFlush, RebuildBefore, RebuildScan, RebuildInsert, RebuildEnd,
                    RebuildOld, RebuildNew, StopRebuildDB
<1>7. CASE RebuildStart
  BY <1>1, <1>7 DEF RebuildStart
<1>8. QED  BY <1>2, <1>3, <1>4, <1>5, <1>6, <1>7, ThreadChanges

LEMMA NothingForgottenStep ==
    ASSUME CacheTypeOK, Writing, Phases, Found, NothingForgotten, CacheNext
    PROVE  NothingForgotten'
<1> SUFFICES ASSUME NEW d \in Dat, file'[d] # <<>>, d \notin torn', d \notin lost', dbTable'
             PROVE  db'[d].row \/ About(upd'.batch, d) \/ Coming(d)'
  BY DEF NothingForgotten, Coming, Queueing, About
<1>0. /\ db \in Rows /\ queue \in Seq(Entry) /\ upd.batch \in Seq(Entry) /\ rb.list \in Seq(Entry)
      /\ torn \subseteq torn' /\ dbTable \in BOOLEAN
  BY TypeParts, TypeFacts, TornGrows DEF RowType, QueueType
<1>1. CASE Crash
  <2>1. /\ dbTable /\ d \notin lost /\ d \notin torn /\ file[d] # <<>> /\ db'[d] = db[d]
        /\ ~(About(queue, d) \/ About(upd.batch, d) \/ Queueing(d))
    BY <1>1, CrashLeaves, CrashFacts
  <2>2. QED  BY <2>1 DEF NothingForgotten, Queueing
<1>2. CASE RebuildNew
  <2>1. /\ file' = file /\ queue' = queue /\ put' = put /\ torn' = torn /\ upd' = upd
        /\ rb.pc = "new" /\ db' = newdb /\ d \notin rb.missed
    BY <1>2 DEF RebuildNew
  <2>2. rb.todo = {} /\ rb.list = <<>>
    BY <2>1 DEF Phases
  <2>3. newdb[d].row \/ Coming(d)
    BY <1>0, <2>1, <2>2, ListFacts DEF Found
  <2>4. QED  BY <2>1, <2>3 DEF Coming, About, Queueing
<1>3. CASE ~Crash /\ ~RebuildNew
  <2>1. d \notin lost /\ d \notin torn
    BY <1>0, <1>3, HistoryChanges DEF Update, RebuildFlush
  <2>2. dbTable
    BY <1>3, RowChanges DEF DeleteRow, Update, RebuildFlush, RebuildBefore, RebuildInsert,
                            RebuildOld, RebuildStart
  <2>3. CASE file[d] = <<>>
    BY <1>3, <2>3, FileComes
  <2>4. CASE file[d] # <<>>
    <3>1. db[d].row \/ About(queue, d) \/ About(upd.batch, d) \/ Queueing(d)
      BY <2>1, <2>2, <2>4 DEF NothingForgotten, Queueing
    <3>2. CASE db[d].row
      BY <1>3, <2>4, <3>2, RowKept
    <3>3. CASE About(queue, d)
      <4>1. CASE UpdateTake
        <5>1. UpdateType
          BY TypeParts
        <5>2. upd'.batch = queue
          BY <4>1, <5>1 DEF UpdateTake, UpdateType
        <5>3. QED  BY <3>3, <5>2
      <4>2. CASE RebuildFlush
        <5>1. Source(db, queue, Updated(db, queue), d) /\ d \in Dats(queue) /\ queue # <<>>
          BY <1>0, <3>3, UpdatedRows, ListFacts
        <5>2. QED  BY <4>2, <5>1, <3>3 DEF RebuildFlush, Source
      <4>3. QED  BY <1>3, <3>3, <4>1, <4>2, AboutKept DEF Coming
    <3>4. CASE About(upd.batch, d)
      BY <1>3, <3>4, BatchKept
    <3>5. CASE Queueing(d)
      BY <1>3, <3>5, QueueingKept
    <3>6. QED  BY <3>1, <3>2, <3>3, <3>4, <3>5
  <2>5. QED  BY <2>3, <2>4
<1>4. QED  BY <1>1, <1>2, <1>3
-----------------------------------------------------------------------------
(* Nothing in the database or on its way to it is ahead of the files. *)

(* The file of a dat holds what it held, unless the dat is torn by the     *)
(* step or about to lose its row.                                          *)
LEMMA HeldKept ==
    ASSUME CacheTypeOK, Writing, CacheNext, NEW d \in Dat, d \notin torn', ~Deleting(d)',
           NEW n \in Nat, Held(file[d], n)
    PROVE  Held(file'[d], n)
<1>0. file \in [Dat -> Seq(Block)]
  BY TypeParts DEF FileType
<1>1. CASE UNCHANGED file
  BY <1>1
<1>2. ASSUME NEW t \in Putter, PutWrite(t)  PROVE Held(file'[d], n)
  <2> DEFINE w == put[t]  e == w.dat  f == file[e]  g == Stored(f, w, News(w))
  <2>1. /\ w \in Busy /\ w.pc = "write" /\ e \in Dat /\ Span(w) /\ f \in Seq(Block)
        /\ file' = file \/ (file' = [file EXCEPT ![e] = g] /\ (w.late => e \in torn'))
    BY <1>2, WriteFacts
  <2>2. w.late \/ Seen(w, f)
    BY <2>1 DEF Writing, WritingWell
  <2>3. g = Stored(f, w, News(w))
    OBVIOUS
  <2>4. CASE file' = file \/ e # d
    <3> HIDE DEF g, e
    <3>1. file'[d] = file[d]
      BY <1>0, <2>1, <2>4
    <3>2. QED  BY <3>1
  <2>5. CASE e = d /\ file' = [file EXCEPT ![e] = g] /\ (w.late => e \in torn')
    <3>1. f = file[d] /\ file'[d] = g
      <4> HIDE DEF g
      <4>1. QED  BY <1>0, <2>1, <2>5
    <3>2. Seen(w, f) /\ Held(f, n)
      BY <2>2, <2>5, <3>1
    <3> HIDE DEF w, f, g
    <3>3. Held(g, n)
      BY <2>1, <2>3, <3>2, WrittenHas
    <3>4. QED  BY <3>1, <3>3
  <2>6. QED  BY <2>1, <2>4, <2>5
<1>3. ASSUME NEW e \in Dat, DeleteFile(e)  PROVE Held(file'[d], n)
  <2>1. e # d /\ file' = [file EXCEPT ![e] = <<>>]
    BY <1>3, DeleteFacts DEF Deleting
  <2>2. QED  BY <1>0, <2>1
<1>4. CASE Crash
  BY <1>4, CrashFacts
<1>5. ASSUME NEW t \in Putter, PutShort(t)  PROVE Held(file'[d], n)
  <2>1. file'[d] = file[d]
    BY <1>5, ShortFacts
  <2>2. QED  BY <2>1
<1>6. QED  BY <1>1, <1>2, <1>3, <1>4, <1>5, FileChanges

LEMMA RowSound ==
    ASSUME CacheTypeOK, CacheNext, NEW d \in Dat, Sound(d)
    PROVE  /\ db'[d].row => Held(file[d], db'[d].size)
           /\ newdb'[d].row => Held(file[d], newdb'[d].size)
<1>0. /\ db \in Rows /\ newdb \in Rows
      /\ queue \in Seq(Entry) /\ upd.batch \in Seq(Entry) /\ rb.list \in Seq(Entry)
  BY TypeParts, TypeFacts DEF RowType, QueueType
<1>s. /\ db[d].row => Held(file[d], db[d].size)
      /\ newdb[d].row => Held(file[d], newdb[d].size)
      /\ Told(queue, d, file[d]) /\ Told(upd.batch, d, file[d]) /\ Told(rb.list, d, file[d])
  BY DEF Sound
<1>1. CASE UNCHANGED <<db, newdb, dbTable>>
  BY <1>s, <1>1
<1>2. CASE DeleteRow
  <2>1. newdb' = newdb /\ (db' = db \/ db' = [db EXCEPT ![del.dat] = NoRow])
    BY <1>2 DEF DeleteRow
  <2>2. db'[d] = db[d] \/ db'[d] = NoRow
    BY <1>0, <2>1 DEF Rows
  <2>3. QED  BY <1>s, <2>1, <2>2, RowFacts
<1>3. CASE Update
  <2>1. Source(db, upd.batch, Updated(db, upd.batch), d)
    BY <1>0, UpdatedRows
  <2>2. Updated(db, upd.batch)[d].row => Held(file[d], Updated(db, upd.batch)[d].size)
    BY <1>0, <1>s, <2>1, SourceHeld
  <2>3. QED  BY <1>s, <1>3, <2>2 DEF Update
<1>4. CASE RebuildFlush
  <2>1. Source(db, queue, Updated(db, queue), d)
    BY <1>0, UpdatedRows
  <2>2. Updated(db, queue)[d].row => Held(file[d], Updated(db, queue)[d].size)
    BY <1>0, <1>s, <2>1, SourceHeld
  <2>3. QED  BY <1>s, <1>4, <2>2 DEF RebuildFlush
<1>5. CASE RebuildInsert
  <2>1. Source(newdb, rb.list, Inserted(newdb, rb.list), d)
    BY <1>0, InsertedRows
  <2>2. Inserted(newdb, rb.list)[d].row => Held(file[d], Inserted(newdb, rb.list)[d].size)
    BY <1>0, <1>s, <2>1, SourceHeld
  <2>3. QED  BY <1>s, <1>5, <2>2 DEF RebuildInsert
<1>6. CASE RebuildBefore \/ RebuildOld \/ RebuildNew \/ RebuildStart
  BY <1>s, <1>6, RowFacts DEF RebuildBefore, RebuildOld, RebuildNew, RebuildStart
<1>7. CASE Crash
  BY <1>s, <1>7, CrashLeaves, RowFacts
<1>8. QED  BY <1>1, <1>2, <1>3, <1>4, <1>5, <1>6, <1>7, RowChanges

LEMMA QueueSound ==
    ASSUME CacheTypeOK, CacheNext, NEW d \in Dat, Sound(d)
    PROVE  Told(queue', d, file[d])
<1>0. queue \in Seq(Entry) /\ file[d] \in Seq(Block)
  BY TypeParts, TypeFacts DEF QueueType
<1>s. /\ Told(queue, d, file[d])
      /\ d \in pub => file[d] # <<>>
      /\ \A t \in Putter : put[t].pc = "queue" /\ put[t].dat = d => Held(file[d], put[t].total)
  BY DEF Sound
<1>1. CASE UNCHANGED queue
  BY <1>s, <1>1
<1>2. ASSUME NEW e \in Entry, AddUpdateQueue(e), e.dat = d => Held(file[d], e.size)
      PROVE  Told(queue', d, file[d])
  <2>1. queue' = Append(queue, e)
    BY <1>2 DEF AddUpdateQueue
  <2>2. QED  BY <1>0, <1>s, <1>2, <2>1, AppendFacts
<1>3. ASSUME NEW t \in Putter, PutQueue(t)  PROVE Told(queue', d, file[d])
  <2> DEFINE e == [dat |-> put[t].dat, userdata |-> 0, size |-> put[t].total]
  <2>1. put[t] \in Busy /\ put[t].pc = "queue"
    BY <1>3, TypeFacts DEF PutQueue
  <2>2. e \in Entry /\ e.dat = put[t].dat /\ e.size = put[t].total
    BY <2>1, WriterFacts DEF Entry
  <2>3. AddUpdateQueue(e)
    BY <1>3 DEF PutQueue
  <2> HIDE DEF e
  <2>4. QED  BY <1>2, <1>s, <2>1, <2>2, <2>3
<1>4. ASSUME NEW c \in Dat, PublishQueue(c)  PROVE Told(queue', d, file[d])
  <2> DEFINE e == [dat |-> c, userdata |-> 1, size |-> 0]
  <2>1. e \in Entry /\ e.dat = c /\ e.size = 0
    BY DEF Entry
  <2>2. AddUpdateQueue(e) /\ c \in pub
    BY <1>4 DEF PublishQueue
  <2>3. file[d] # <<>> => Held(file[d], 0)
    BY <1>0, LenProperties DEF Held
  <2> HIDE DEF e
  <2>4. QED  BY <1>2, <1>s, <2>1, <2>2, <2>3
<1>5. CASE UpdateTake \/ RebuildFlush \/ Crash
  BY <1>0, <1>5, ListFacts DEF UpdateTake, RebuildFlush, Crash
<1>6. QED  BY <1>1, <1>3, <1>4, <1>5, QueueChanges

LEMMA ListSound ==
    ASSUME CacheTypeOK, CacheNext, NEW d \in Dat, Sound(d)
    PROVE  Told(upd'.batch, d, file[d]) /\ Told(rb'.list, d, file[d])
<1>0. /\ UpdateType /\ RebuildType /\ rb.list \in Seq(Entry) /\ file[d] \in Seq(Block)
      /\ Told(<<>>, d, file[d])
  BY TypeParts, TypeFacts, ListFacts
<1>s. Told(queue, d, file[d]) /\ Told(upd.batch, d, file[d]) /\ Told(rb.list, d, file[d])
  BY DEF Sound
<1>1. CASE UNCHANGED <<upd, rb>>
  BY <1>s, <1>1
<1>2. CASE UpdateTake
  <2>1. upd'.batch = queue /\ rb' = rb
    BY <1>0, <1>2 DEF UpdateTake, UpdateType
  <2>2. QED  BY <1>s, <2>1
<1>3. CASE Update
  <2>1. upd'.batch = <<>> /\ rb' = rb
    BY <1>0, <1>3 DEF Update, UpdateType
  <2>2. QED  BY <1>0, <1>s, <2>1
<1>4. CASE UpdateEnd
  BY <1>0, <1>s, <1>4, ThreadFacts DEF UpdateEnd
<1>5. CASE Rebuild
  <2>1. upd'.batch = upd.batch /\ rb'.list = rb.list
    BY <1>0, <1>5 DEF Rebuild, UpdateType, RebuildType
  <2>2. QED  BY <1>s, <2>1
<1>6. CASE RebuildFlush \/ RebuildBefore \/ RebuildOld \/ RebuildNew \/ StopRebuildDB
  <2>1. upd' = upd /\ rb'.list = rb.list
    BY <1>0, <1>6 DEF RebuildFlush, RebuildBefore, RebuildOld, RebuildNew, StopRebuildDB,
                      RebuildType
  <2>2. QED  BY <1>s, <2>1
<1>7. ASSUME NEW e \in Dat, RebuildScan(e)
      PROVE  Told(upd'.batch, d, file[d]) /\ Told(rb'.list, d, file[d])
  <2> DEFINE new == [dat |-> e, userdata |-> 0, size |-> Len(file[e])]
             list == IF file[e] = <<>> THEN rb.list ELSE Append(rb.list, new)
  <2>1. Len(file[e]) \in Nat
    BY TypeFacts, LenProperties
  <2>2. new \in Entry /\ new.dat = e /\ new.size = Len(file[e])
    BY <2>1 DEF Entry
  <2>3. rb' = [rb EXCEPT !.todo = rb.todo \ {e}, !.list = list] /\ upd' = upd
    BY <1>7 DEF RebuildScan
  <2> HIDE DEF new
  <2>4. file[e] # <<>> => (new.dat = d => Held(file[d], new.size))
    BY <2>1, <2>2 DEF Held
  <2>5. Told(list, d, file[d])
    BY <1>0, <1>s, <2>2, <2>4, AppendFacts
  <2> HIDE DEF list
  <2>6. rb'.list = list
    BY <1>0, <2>3 DEF RebuildType
  <2>7. QED  BY <1>s, <2>3, <2>5, <2>6
<1>8. CASE RebuildInsert \/ RebuildEnd
  <2>1. upd' = upd /\ rb'.list = <<>>
    BY <1>0, <1>8 DEF RebuildInsert, RebuildEnd, RebuildType
  <2>2. QED  BY <1>0, <1>s, <2>1
<1>9. CASE RebuildStart \/ Crash
  BY <1>0, <1>9, ThreadFacts DEF RebuildStart, Crash
<1>10. QED
  BY <1>1, <1>2, <1>3, <1>4, <1>5, <1>6, <1>7, <1>8, <1>9, ThreadChanges

LEMMA PubSound ==
    ASSUME CacheTypeOK, CacheNext, NEW d \in Dat, Sound(d), d \in pub'
    PROVE  file[d] # <<>>
<1>s. (d \in pub => file[d] # <<>>) /\ (db[d].row => file[d] # <<>>)
  BY DEF Sound, Held
<1>1. CASE UNCHANGED <<del, pub>>
  BY <1>s, <1>1
<1>2. ASSUME NEW e \in Dat, DeleteFile(e) \/ PublishQueue(e)  PROVE file[d] # <<>>
  BY <1>s, <1>2 DEF DeleteFile, PublishQueue
<1>3. CASE DeleteRow
  BY <1>s, <1>3 DEF DeleteRow
<1>4. ASSUME NEW ds \in SUBSET Dat, Publish(ds)  PROVE file[d] # <<>>
  BY <1>s, <1>4 DEF Publish
<1>5. CASE Crash
  BY <1>5, CrashLeaves
<1>6. QED  BY <1>1, <1>2, <1>3, <1>4, <1>5, DeleteChanges

LEMMA PutSound ==
    ASSUME CacheTypeOK, Writing, CacheNext, NEW d \in Dat, Sound(d), d \notin torn', ~Deleting(d)',
           NEW u \in Putter, put'[u].pc = "queue", put'[u].dat = d
    PROVE  Held(file'[d], put'[u].total)
<1>0. /\ put \in [Putter -> Writer] /\ file \in [Dat -> Seq(Block)]
  BY TypeParts DEF PutType, FileType
<1>s. ASSUME put[u].pc = "queue", put[u].dat = d, put'[u].total = put[u].total
      PROVE  Held(file'[d], put'[u].total)
  <2>1. Held(file[d], put[u].total)
    BY <1>s DEF Sound
  <2>2. put[u].total \in Nat
    BY <1>s, TypeFacts, WriterFacts
  <2>3. QED  BY <1>s, <2>1, <2>2, HeldKept
<1>1. CASE put'[u] = put[u]
  BY <1>s, <1>1
<1>2. ASSUME NEW t \in Putter, NEW e \in Dat, NEW p \in Part, PutStat(t, e, p)
      PROVE  put'[u] = put[u]
  BY <1>2, StatFacts
<1>3. ASSUME NEW t \in Putter, PutLoad(t)  PROVE put'[u] = put[u]
  BY <1>3, LoadFacts
<1>4. ASSUME NEW t \in Putter, PutWrite(t)  PROVE Held(file'[d], put'[u].total)
  <2> DEFINE w == put[t]  e == w.dat  f == file[e]  g == Stored(f, w, News(w))
  <2>1. /\ w \in Busy /\ w.pc = "write" /\ e \in Dat /\ Span(w) /\ f \in Seq(Block)
        /\ \/ put' = [put EXCEPT ![t] = NotBusy]
           \/ /\ file' = [file EXCEPT ![e] = g]
              /\ w.late => e \in torn'
              /\ put'[t].dat = e /\ put'[t].total = TotalSize(w)
              /\ \A v \in Putter \ {t} : MadeLate(put[v], put'[v], {"write"}, e)
    BY <1>4, WriteFacts
  <2>2. w.late \/ Seen(w, f)
    BY <2>1 DEF Writing, WritingWell
  <2>3. g = Stored(f, w, News(w))
    OBVIOUS
  <2>4. CASE put' = [put EXCEPT ![t] = NotBusy]
    <3>1. put'[u] = put[u]
      BY <1>0, <2>4, WriterFacts
    <3>2. QED  BY <1>1, <3>1
  <2>5. CASE /\ file' = [file EXCEPT ![e] = g]
             /\ w.late => e \in torn'
             /\ put'[t].dat = e /\ put'[t].total = TotalSize(w)
             /\ \A v \in Putter \ {t} : MadeLate(put[v], put'[v], {"write"}, e)
    <3>1. CASE u = t
      <4>1. e = d
        BY <2>5, <3>1
      <4>2. file'[d] = g
        <5> HIDE DEF g
        <5>1. QED  BY <1>0, <2>1, <2>5, <4>1
      <4>3. Seen(w, f) /\ put'[u].total = TotalSize(w)
        BY <2>2, <2>5, <3>1, <4>1
      <4> HIDE DEF w, f, g
      <4>4. g # <<>> /\ TotalSize(w) <= Len(g)
        BY <2>1, <2>3, <4>3, WrittenHas
      <4>5. QED  BY <4>2, <4>3, <4>4 DEF Held
    <3>2. CASE u # t
      <4>1. MadeLate(put[u], put'[u], {"write"}, e)
        BY <2>5, <3>2
      <4>2. put[u].pc = "queue" /\ put[u].dat = d /\ put'[u].total = put[u].total
        BY <4>1 DEF MadeLate
      <4>3. QED  BY <1>s, <4>2
    <3>3. QED  BY <3>1, <3>2
  <2>6. QED  BY <2>1, <2>4, <2>5
<1>5. ASSUME NEW t \in Putter, PutFail(t) \/ PutQueue(t)  PROVE put'[u] = put[u]
  BY <1>0, <1>5, WriterFacts DEF PutFail, PutQueue
<1>6. ASSUME NEW e \in Dat, DeleteFile(e)  PROVE Held(file'[d], put'[u].total)
  <2>1. MadeLate(put[u], put'[u], {"write", "queue"}, e)
    BY <1>6, DeleteFacts
  <2>2. put[u].pc = "queue" /\ put[u].dat = d /\ put'[u].total = put[u].total
    BY <2>1 DEF MadeLate
  <2>3. QED  BY <1>s, <2>2
<1>7. ~Crash
  BY CrashLeaves, WriterFacts
<1>8. ASSUME NEW t \in Putter, PutShort(t)  PROVE Held(file'[d], put'[u].total)
  <2>1. put[t].dat # d /\ u # t /\ MadeLate(put[u], put'[u], {"write"}, put[t].dat)
    BY <1>8, ShortFacts
  <2>2. put[u].pc = "queue" /\ put[u].dat = d /\ put'[u].total = put[u].total
    BY <2>1 DEF MadeLate
  <2>3. QED  BY <1>s, <2>2
<1>9. QED  BY <1>1, <1>2, <1>3, <1>4, <1>5, <1>6, <1>7, <1>8, PutChanges

LEMMA SoundStep ==
    ASSUME CacheTypeOK, Writing, AllSound, Phases, CacheNext
    PROVE  AllSound'
<1> SUFFICES ASSUME NEW d \in Dat, d \notin torn', d \notin ghost', ~Deleting(d)'
             PROVE  Sound(d)'
  BY DEF AllSound
<1>1. d \notin torn /\ (d \in ghost => Deleting(d))
  <2>1. CASE DeleteRow
    BY <2>1, TornGrows DEF DeleteRow, Deleting
  <2>2. CASE Crash
    BY <2>2, CrashLeaves
  <2>3. QED  BY <2>1, <2>2, TornGrows, HistoryChanges
<1>t. CacheTypeOK'
  BY TypeStep
<1>2. CASE Deleting(d)
  <2>0. del # NotBusy /\ del.dat = d
    BY <1>2 DEF Deleting
  <2>1. DeleteRow
    <3>1. ~Crash
      BY <2>0, CrashLeaves
    <3>2. \A e \in Dat : ~DeleteFile(e)
      BY <2>0 DEF DeleteFile
    <3>3. del' # del
      BY <1>2 DEF Deleting
    <3>4. ASSUME NEW e \in Dat, PublishQueue(e)  PROVE del' = del
      BY <3>4 DEF PublishQueue
    <3>5. ASSUME NEW ds \in SUBSET Dat, Publish(ds)  PROVE del' = del
      BY <3>5 DEF Publish
    <3>6. QED  BY <3>1, <3>2, <3>3, <3>4, <3>5, DeleteChanges
  <2>2. ~UnderWay(d) /\ file[d] = <<>>
    BY <2>0, <2>1 DEF DeleteRow
  <2>3. /\ newdb' = newdb /\ queue' = queue /\ upd' = upd /\ rb' = rb /\ pub' = pub /\ put' = put
        /\ db' = IF dbTable THEN [db EXCEPT ![d] = NoRow] ELSE db
    BY <2>0, <2>1 DEF DeleteRow
  <2>4. ~db'[d].row
    BY <2>3, TypeParts, RowFacts DEF RowType, Rows, Phases
  <2>5. /\ ~About(queue, d) /\ ~About(upd.batch, d) /\ ~About(rb.list, d)
        /\ d \notin pub /\ ~newdb[d].row
        /\ \A t \in Putter : ~(put[t].pc = "queue" /\ put[t].dat = d)
    BY <2>2 DEF UnderWay
  <2>6. Told(queue', d, file'[d]) /\ Told(upd'.batch, d, file'[d]) /\ Told(rb'.list, d, file'[d])
    BY <2>3, <2>5, TypeParts, TypeFacts, ListFacts DEF QueueType
  <2>7. QED  BY <2>3, <2>4, <2>5, <2>6 DEF Sound
<1>3. CASE Sound(d)
  <2>1. /\ db' \in Rows /\ newdb' \in Rows /\ queue' \in Seq(Entry)
        /\ upd'.batch \in Seq(Entry) /\ rb'.list \in Seq(Entry)
    BY <1>t DEF CacheTypeOK, Rows
  <2>2. /\ db'[d].row => db'[d].size \in Nat
        /\ newdb'[d].row => newdb'[d].size \in Nat
    BY <2>1, RowFacts DEF Rows
  <2>3. \A n \in Nat : Held(file[d], n) => Held(file'[d], n)
    BY HeldKept
  <2>4. /\ db'[d].row => Held(file'[d], db'[d].size)
        /\ newdb'[d].row => Held(file'[d], newdb'[d].size)
    BY <1>3, <2>2, <2>3, RowSound
  <2>5. Told(queue', d, file'[d]) /\ Told(upd'.batch, d, file'[d]) /\ Told(rb'.list, d, file'[d])
    <3>1. Told(queue', d, file[d]) /\ Told(upd'.batch, d, file[d]) /\ Told(rb'.list, d, file[d])
      BY <1>3, QueueSound, ListSound
    <3>2. QED  BY <2>1, <2>3, <3>1, GrownTold
  <2>6. d \in pub' => file'[d] # <<>>
    <3>1. d \in pub' => file[d] # <<>>
      BY <1>3, PubSound
    <3>2. Len(file[d]) \in Nat
      BY TypeFacts, LenProperties
    <3>3. file[d] # <<>> => Held(file[d], 0)
      BY <3>2 DEF Held
    <3>4. QED  BY <2>3, <3>1, <3>3 DEF Held
  <2>7. \A t \in Putter : put'[t].pc = "queue" /\ put'[t].dat = d => Held(file'[d], put'[t].total)
    BY <1>3, PutSound
  <2>8. QED  BY <2>4, <2>5, <2>6, <2>7 DEF Sound
<1>4. QED  BY <1>1, <1>2, <1>3 DEF AllSound
-----------------------------------------------------------------------------
(* The theorems. *)

LEMMA CacheInitInv == CacheInit => CacheInv
<1> SUFFICES ASSUME CacheInit  PROVE CacheInv
  OBVIOUS
<1> USE DEF CacheInit
<1>1. <<>> \in Seq(Entry) /\ <<>> \in Seq(Block) /\ NotBusy \in Writer
  BY EmptySeq, WriterFacts
<1>2. CacheTypeOK
  <2>1. FileType /\ PutType /\ QueueType
    BY <1>1 DEF FileType, PutType, QueueType
  <2>2. RowType /\ DeleteType
    BY DEF RowType, Rows, DeleteType
  <2>3. UpdateType /\ RebuildType
    BY ThreadFacts DEF UpdateType, RebuildType
  <2>4. HistoryType
    BY DatCacheAssumption DEF HistoryType
  <2>5. QED  BY <2>1, <2>2, <2>3, <2>4, TypeParts
<1>3. Writing
  BY WriterFacts DEF Writing, WritingWell
<1>4. AllSound
  <2>1. ASSUME NEW d \in Dat  PROVE Sound(d)
    <3>1. /\ ~db[d].row /\ ~newdb[d].row
          /\ d \notin pub /\ \A t \in Putter : put[t].pc = "idle"
      BY RowFacts, WriterFacts
    <3>2. Told(queue, d, file[d]) /\ Told(upd.batch, d, file[d]) /\ Told(rb.list, d, file[d])
      BY <1>1, ThreadFacts, ListFacts
    <3>3. QED  BY <3>1, <3>2 DEF Sound
  <2>2. QED  BY <2>1 DEF AllSound
<1>5. Phases /\ Found /\ NothingForgotten
  BY ThreadFacts DEF Phases, Found, NothingForgotten
<1>6. QED  BY <1>2, <1>3, <1>4, <1>5 DEF CacheInv

LEMMA CacheStepInv == CacheInv /\ [CacheNext]_cacheVars => CacheInv'
<1> SUFFICES ASSUME CacheInv, [CacheNext]_cacheVars  PROVE CacheInv'
  OBVIOUS
<1>1. CASE CacheNext
  <2>1. CacheTypeOK' /\ Writing' /\ AllSound' /\ Phases' /\ Found' /\ NothingForgotten'
    BY <1>1, TypeStep, WritingStep, SoundStep, PhasesStep, FoundStep, NothingForgottenStep DEF CacheInv
  <2>2. QED  BY <2>1 DEF CacheInv
<1>2. CASE UNCHANGED cacheVars
  <2>1. CacheTypeOK'
    BY <1>2 DEF CacheInv, CacheTypeOK, cacheVars
  <2>2. Writing'
    BY <1>2 DEF CacheInv, Writing, WritingWell, cacheVars
  <2>3. AllSound'
    BY <1>2 DEF CacheInv, AllSound, Sound, Deleting, cacheVars
  <2>4. Phases' /\ Found' /\ NothingForgotten'
    BY <1>2 DEF CacheInv, Phases, Found, Coming, Queueing, About, NothingForgotten, cacheVars
  <2>5. QED  BY <2>1, <2>2, <2>3, <2>4 DEF CacheInv
<1>3. QED  BY <1>1, <1>2

(* CacheInv is an invariant of the cache of dats, with any number of threads   *)
(* in Put, dats, crashes and rebuilds.                                     *)
THEOREM CacheInvariance == CacheSpec => []CacheInv
<1>1. QED  BY CacheInitInv, CacheStepInv, PTL DEF CacheSpec

(* Every variable of DatCache has its type. *)
THEOREM CacheTypeCorrect == CacheSpec => []CacheTypeOK
<1>1. CacheInv => CacheTypeOK
  BY DEF CacheInv
<1>2. QED  BY <1>1, CacheInvariance, PTL

(* When Put has written and comes to queue the entry, the file has the     *)
(* whole part at its place, unless it was late or the dat is torn.         *)
THEOREM PartsStored == CacheSpec => []StoredAsGiven
<1>1. CacheInv => StoredAsGiven
  <2> SUFFICES ASSUME CacheInv, NEW t \in Putter, put[t].pc = "queue", ~put[t].late,
                      put[t].dat \notin torn
               PROVE  LET w == put[t] IN
                      /\ Len(file[w.dat]) >= w.part.start + w.part.len
                      /\ SubSeq(file[w.dat], w.part.start + 1, w.part.start + w.part.len)
                           = Blocks(w.part)
    BY DEF StoredAsGiven
  <2> DEFINE p == put[t].part  f == file[put[t].dat]
             k == p.start + 1  n == p.start + p.len  s == SubSeq(f, k, n)
  <2>1. p \in Part /\ f \in Seq(Block) /\ Has(f, p)
    BY TypeFacts DEF CacheInv, Writing, WritingWell
  <2> HIDE DEF p, f
  <2>2. p.start \in Nat /\ p.len \in Nat /\ Len(f) \in Nat /\ n <= Len(f)
    BY <2>1, WriterFacts, LenProperties DEF Has
  <2>3. k \in Int /\ n \in Int /\ n - k + 1 = p.len /\ (IF k <= n THEN n - k + 1 ELSE 0) = p.len
    BY <2>2
  <2>4. \A i \in k..n : f[i] \in Block
    BY <2>1, <2>2, ElementOfSeq
  <2>5. s \in Seq(Block) /\ Len(s) = p.len /\ \A i \in 1..p.len : s[i] = f[k + i - 1]
    <3> HIDE DEF k, n
    <3>1. QED  BY <2>3, <2>4, SubSeqProperties
  <2>6. ASSUME NEW i \in 1..p.len  PROVE s[i] = f[p.start + i]
    <3>1. k + i - 1 = p.start + i
      BY <2>2
    <3>2. s[i] = f[k + i - 1]
      BY <2>5
    <3> HIDE DEF k, s
    <3>3. QED  BY <3>1, <3>2
  <2>7. /\ Blocks(p) \in Seq(Block) /\ Len(Blocks(p)) = p.len
        /\ \A i \in 1..p.len : Blocks(p)[i] = <<p.ver, p.start + i>>
    BY <2>1, BlocksFacts
  <2>8. \A i \in 1..Len(s) : s[i] = Blocks(p)[i]
    BY <2>1, <2>5, <2>6, <2>7 DEF Has
  <2> HIDE DEF s
  <2>9. s = Blocks(p)
    BY <2>5, <2>7, <2>8, SeqEqual
  <2>10. QED  BY <2>2, <2>9 DEF p, f, s
<1>2. QED  BY <1>1, CacheInvariance, PTL

(* A row says no more of a dat than the file has, and is gone when the     *)
(* file is, unless the dat is torn, a ghost (the row could not be removed  *)
(* with the file) or being deleted.                                        *)
THEOREM RowsNotAhead == CacheSpec => []RowNotAhead
<1>1. CacheInv => RowNotAhead
  BY DEF CacheInv, AllSound, Sound, Held, Deleting, RowNotAhead
<1>2. QED  BY <1>1, CacheInvariance, PTL

(* Every file has a row or is about to get one, through all of a rebuild,  *)
(* unless the dat is torn or its entry lost: in a crash, an SQLite error,  *)
(* or an insertion into the new database that failed.                      *)
THEOREM NoFileForgotten == CacheSpec => []NothingForgotten
<1>1. CacheInv => NothingForgotten
  BY DEF CacheInv
<1>2. QED  BY <1>1, CacheInvariance, PTL

-----------------------------------------------------------------------------
(* KeyStore: the inductive invariant. *)

Accounted ==
    /\ \A j \in Job : job[j].hashlist \subseteq taken
    /\ \A j \in Job : j # "original" \/ job[j].pc = "rest" => job[j].hashlist = {}
    /\ job["original"].batch \subseteq Own

IInv == TypeOK /\ Accounted /\ Bounded /\ DatedIsTaken

-----------------------------------------------------------------------------
LEMMA RestingType == Resting \in Pass
  BY DEF Resting, Pass

LEMMA IdleType == Idle \in Thread /\ Touching \in Thread
  BY DEF Thread

LEMMA FiniteKeys == ASSUME NEW ks \in SUBSET Key PROVE IsFiniteSet(ks) /\ Cardinality(ks) \in Nat
  BY KeyStoreAssumption, FS_Subset, FS_CardinalityType

(* What Expire leaves: no more than the limit, and when anything goes, as  *)
(* much as the limit.                                                      *)
LEMMA ExpiredWithin ==
    ASSUME NEW ks \in SUBSET Key, NEW n \in Nat, NEW S \in Expired(ks, n)
    PROVE  /\ S \subseteq ks
           /\ Cardinality(S) <= n
           /\ S # ks => Cardinality(S) = n
           /\ \A k \in S, l \in ks \ S : Distance[k] <= Distance[l]
  <1>1. /\ S \in SUBSET ks
        /\ Cardinality(S) = IF Cardinality(ks) <= n THEN Cardinality(ks) ELSE n
        /\ \A k \in S, l \in ks \ S : Distance[k] <= Distance[l]
    BY DEF Expired, First
  <1>2. IsFiniteSet(ks) /\ Cardinality(ks) \in Nat
    BY FiniteKeys
  <1>3. Cardinality(ks) = Cardinality(S) => ks = S
    BY <1>1, <1>2, FS_Subset
  <1> QED
    BY <1>1, <1>2, <1>3

LEMMA BeginType ==
    ASSUME TypeOK, NEW ks \in SUBSET Key
    PROVE  Begin(ks) \in Pass /\ Begin(ks).pc = "go" /\ Begin(ks).hashlist = {} /\ Begin(ks).batch = ks
  BY RestingType DEF Begin, Resting, Pass, TypeOK

LEMMA ReturnedType ==
    ASSUME TypeOK, NEW j \in Job, job[j].pc = "out"
    PROVE  /\ Spoke(j) \in Pass /\ Silent(j) \in Pass
           /\ Spoke(j).pc = "go" /\ Silent(j).pc = "go"
           /\ Spoke(j).hashlist = job[j].hashlist /\ Silent(j).hashlist = job[j].hashlist
           /\ Spoke(j).batch = job[j].batch /\ Silent(j).batch = job[j].batch
  <1>1. job[j] \in Pass /\ job[j].at \in Node
    BY DEF TypeOK
  <1> QED
    BY <1>1 DEF Spoke, Silent, Pass

LEMMA InitInv == Init => IInv
  <1> SUFFICES ASSUME Init PROVE IInv
    OBVIOUS
  <1>1. TypeOK
    <2>1. job \in [Job -> Pass] /\ \A j \in Job : job[j].pc \notin {"out", "forget"}
      BY RestingType DEF Init, Resting
    <2>2. parse \in [Node -> Thread]
      BY IdleType DEF Init
    <2> QED
      BY <2>1, <2>2, KeyStoreAssumption DEF Init, TypeOK, Own
  <1>2. Accounted
    BY DEF Init, Accounted, Resting, Job
  <1>3. Bounded
    BY FS_EmptySet, KeyStoreAssumption DEF Init, Bounded
  <1>4. DatedIsTaken
    BY DEF Init, DatedIsTaken
  <1> QED
    BY <1>1, <1>2, <1>3, <1>4 DEF IInv

-----------------------------------------------------------------------------
(* The types of all but the jobs and what they have brought about. *)
StoreOK ==
    /\ up \subseteq Node /\ table \subseteq Node
    /\ keys \subseteq Key \ Own /\ old \subseteq keys
    /\ limit \in Limits
    /\ lastpublish \in [Own -> Nat] /\ due \subseteq Own
    /\ active \in BOOLEAN
    /\ parse \in [Node -> Thread]
    /\ events \in 0..MaxEvents

LEMMA PublishedType ==
    ASSUME NEW ks
    PROVE  Published(ks) \in [Own -> Nat]
  <1>1. ASSUME NEW k \in Own
        PROVE  Cardinality({l \in Own \ ks : k \in ks \/ lastpublish[l] < lastpublish[k]}) \in Nat
    <2>1. {l \in Own \ ks : k \in ks \/ lastpublish[l] < lastpublish[k]} \in SUBSET Key
      BY DEF Own
    <2> QED
      BY <2>1, FiniteKeys
  <1> QED
    BY <1>1 DEF Published

LEMMA StoreType == ASSUME TypeOK, [Next]_vars PROVE StoreOK'
  <1> USE DEF world, published
  <1>t. StoreOK
    BY DEF TypeOK, StoreOK
  <1>e. Event => events' \in 0..MaxEvents
    BY <1>t, KeyStoreAssumption DEF Event, StoreOK
  <1>l. limit \in Nat /\ \A n \in Limits : n \in Nat
    BY <1>t, KeyStoreAssumption DEF StoreOK
  <1>k. keys \in SUBSET Key
    BY <1>t DEF StoreOK
  <1>1. ASSUME NEW n \in Node, CallStore(n) PROVE StoreOK'
    <2>1. [pc |-> "import", todo |-> Given[n]] \in Thread
      BY KeyStoreAssumption DEF Thread
    <2> QED
      BY <1>t, <1>e, <1>1, <2>1 DEF CallStore, StoreOK
  <1>2. ASSUME NEW n \in Node, NEW k \in Key, AddKey(n, k) PROVE StoreOK'
    <2>1. [parse EXCEPT ![n].todo = @ \ {k}] \in [Node -> Thread]
      <3>1. parse[n] \in Thread /\ parse[n] \notin {Idle, Touching}
        BY <1>t, <1>2 DEF AddKey, StoreOK, Idle, Touching
      <3>2. [parse[n] EXCEPT !.todo = @ \ {k}] \in Thread
        BY <3>1 DEF Thread
      <3> QED
        BY <1>t, <3>2 DEF StoreOK
    <2> QED
      BY <1>t, <1>2, <2>1 DEF AddKey, StoreOK
  <1>3. ASSUME NEW n \in Node, ImportEnds(n) PROVE StoreOK'
    <2>1. PICK S \in Expired(keys, limit) : keys' = S /\ old' = old \cap S
      BY <1>3 DEF ImportEnds
    <2>2. S \subseteq keys
      BY <1>k, <1>l, ExpiredWithin
    <2> QED
      BY <1>t, <1>3, <2>1, <2>2, IdleType DEF ImportEnds, StoreOK
  <1>4. ASSUME NEW n \in Limits, SetLimit(n) PROVE StoreOK'
    <2>1. PICK S \in Expired(keys, n) : keys' = S /\ old' = old \cap S
      BY <1>4 DEF SetLimit
    <2>2. S \subseteq keys
      BY <1>k, <1>l, ExpiredWithin
    <2> QED
      BY <1>t, <1>e, <1>4, <2>1, <2>2 DEF SetLimit, StoreOK
  <1>5. ASSUME NEW n \in Node, ParseTouch(n) \/ Leave(n) \/ Return(n) PROVE StoreOK'
    BY <1>t, <1>e, <1>5, IdleType DEF ParseTouch, Leave, Return, StoreOK
  <1>6. CASE Start
    BY <1>t, <1>6 DEF Start, PublishKeys, PublishOriginal, AskAround, StoreOK
  <1>7. ASSUME NEW j \in Job, NEW n \in Node, Send(j, n) \/ Touch(j, n) \/ Remove(j, n) PROVE StoreOK'
    BY <1>t, <1>7 DEF Send, Touch, Remove, StoreOK
  <1>8. ASSUME NEW j \in Job, DeleteKeys(j) PROVE StoreOK'
    BY <1>t, <1>8 DEF DeleteKeys, StoreOK
  <1>9. ASSUME NEW j \in Job, Answered(j) PROVE StoreOK'
    <2>1. job[j].at \in Node
      BY <1>9 DEF Answered, TypeOK
    <2>2. Named[job[j].at] \ {Self} \subseteq Node
      BY <2>1, KeyStoreAssumption
    <2>3. PICK S \in {{}, Named[job[j].at] \ {Self}} : table' = table \cup S
      BY <1>9 DEF Answered
    <2>4. S \subseteq Node
      BY <2>2, <2>3
    <2> QED
      BY <1>t, <1>9, <2>3, <2>4 DEF Answered, StoreOK
  <1>10. ASSUME NEW j \in Job, Refused(j) \/ Lost(j) PROVE StoreOK'
    BY <1>t, <1>e, <1>10 DEF Refused, Lost, StoreOK
  <1>11. ASSUME NEW j \in Job, NotThere(j) \/ Finish(j) PROVE StoreOK'
    BY <1>t, <1>11, PublishedType DEF NotThere, Finish, StoreOK
  <1>12. ASSUME (\E k \in Key : KeyGetsOld(k)) \/ OriginalsGetDue PROVE StoreOK'
    BY <1>t, <1>12 DEF KeyGetsOld, OriginalsGetDue, StoreOK
  <1>13. CASE StopP2P \/ StartP2P
    BY <1>t, <1>e, <1>13 DEF StopP2P, StartP2P, StoreOK
  <1>14. CASE UNCHANGED vars
    BY <1>t, <1>14 DEF vars, StoreOK
  <1> QED
    BY <1>1, <1>2, <1>3, <1>4, <1>5, <1>6, <1>7, <1>8, <1>9, <1>10, <1>11, <1>12, <1>13, <1>14
    DEF Next, JobStep, ParseStep

(* What the jobs are and have brought about. *)
JobsOK ==
    /\ taken \subseteq Own
    /\ job \in [Job -> Pass]
    /\ \A j \in Job : job[j].pc \in {"out", "forget"} => job[j].at \in Node
    /\ Accounted

LEMMA TypesAreAll == StoreOK /\ JobsOK <=> TypeOK /\ Accounted
  BY DEF StoreOK, JobsOK, TypeOK

(* One pass is changed to p. *)
LEMMA PassChanged ==
    ASSUME JobsOK, NEW j \in Job, NEW p \in Pass,
           job' = [job EXCEPT ![j] = p],
           taken \subseteq taken', taken' \subseteq Own,
           p.pc \in {"out", "forget"} => p.at \in Node,
           p.hashlist \subseteq taken',
           j # "original" \/ p.pc = "rest" => p.hashlist = {},
           j = "original" => p.batch \subseteq Own
    PROVE  JobsOK'
  <1>1. job' \in [Job -> Pass] /\ \A i \in Job : job'[i] = IF i = j THEN p ELSE job[i]
    BY DEF JobsOK
  <1>2. \A i \in Job : job'[i].pc \in {"out", "forget"} => job'[i].at \in Node
    BY <1>1 DEF JobsOK
  <1>3. \A i \in Job : job'[i].hashlist \subseteq taken'
    BY <1>1 DEF JobsOK, Accounted
  <1>4. \A i \in Job : i # "original" \/ job'[i].pc = "rest" => job'[i].hashlist = {}
    BY <1>1 DEF JobsOK, Accounted
  <1>5. job'["original"].batch \subseteq Own
    BY <1>1 DEF JobsOK, Accounted, Job
  <1> QED
    BY <1>1, <1>2, <1>3, <1>4, <1>5 DEF JobsOK, Accounted

LEMMA JobsType == ASSUME TypeOK, Accounted, [Next]_vars PROVE JobsOK'
  <1> USE DEF world, published
  <1>t. JobsOK
    BY TypesAreAll
  <1>o. due \subseteq Own /\ Own \subseteq Key /\ old \subseteq Key /\ taken \subseteq Own
    BY DEF TypeOK, Own
  <1>p. \A j \in Job : job[j] \in Pass
    BY DEF TypeOK
  <1>a. \A j \in Job : /\ job[j].hashlist \subseteq taken
                       /\ j # "original" \/ job[j].pc = "rest" => job[j].hashlist = {}
                       /\ j = "original" => job[j].batch \subseteq Own
    BY DEF Accounted
  <1>1. ASSUME NEW j \in Job, NEW ks \in SUBSET Key, j = "original" => ks \subseteq Own,
               job' = [job EXCEPT ![j] = Begin(ks)], UNCHANGED taken
        PROVE  JobsOK'
    BY <1>t, <1>o, <1>1, BeginType, PassChanged
  <1>2. CASE Start
    <2>1. "keys" \in Job /\ "original" \in Job /\ "ask" \in Job
      BY DEF Job
    <2>2. CASE PublishKeys
      BY <1>1, <1>o, <2>1, <2>2 DEF PublishKeys
    <2>3. CASE PublishOriginal
      <3>1. PICK S \in First(due, PublishLimit, lastpublish) :
                job' = [job EXCEPT !["original"] = Begin(S)] /\ UNCHANGED taken
        BY <2>3 DEF PublishOriginal
      <3>2. S \subseteq Own /\ S \in SUBSET Key
        BY <1>o DEF First
      <3> QED
        BY <1>1, <2>1, <3>1, <3>2
    <2>4. CASE AskAround
      <3>1. job' = [job EXCEPT !["ask"] = Begin({})] /\ UNCHANGED taken
        BY <2>4 DEF AskAround
      <3>2. {} \in SUBSET Key /\ "ask" # "original"
        OBVIOUS
      <3> QED
        BY <1>1, <2>1, <3>1, <3>2
    <2> QED
      BY <1>2, <2>2, <2>3, <2>4 DEF Start
  <1>3. ASSUME NEW j \in Job, NEW n \in Node, Send(j, n) PROVE JobsOK'
    <2> DEFINE p == [job[j] EXCEPT !.pc = "out", !.at = n, !.todo = @ \ {n}]
    <2>1. p \in Pass /\ p.at \in Node /\ p.pc # "rest"
          /\ p.hashlist = job[j].hashlist /\ p.batch = job[j].batch
      BY <1>p DEF Pass
    <2>2. job' = [job EXCEPT ![j] = p] /\ UNCHANGED taken
      BY <1>3 DEF Send
    <2> QED
      BY <1>t, <1>o, <1>a, <2>1, <2>2, PassChanged
  <1>4. ASSUME NEW j \in Job, NEW n \in Node, Touch(j, n) \/ Remove(j, n) PROVE JobsOK'
    <2>1. PICK p \in Pass : /\ job' = [job EXCEPT ![j] = p]
                            /\ p.pc \in {"go", "forget"} /\ (p.pc = "forget" => p.at \in Node)
                            /\ p.hashlist = job[j].hashlist /\ p.batch = job[j].batch
      <3>1. CASE Touch(j, n)
        <4> DEFINE p == [job[j] EXCEPT !.spoke = @ \ {n}]
        <4>1. p \in Pass /\ p.pc = job[j].pc /\ p.hashlist = job[j].hashlist /\ p.batch = job[j].batch
          BY <1>p DEF Pass
        <4>2. job' = [job EXCEPT ![j] = p] /\ job[j].pc = "go"
          BY <3>1 DEF Touch, AllSent
        <4> QED
          BY <4>1, <4>2
      <3>2. CASE Remove(j, n)
        <4> DEFINE p == [job[j] EXCEPT !.pc = "forget", !.at = n, !.silent = @ \ {n}]
        <4>1. /\ p \in Pass /\ p.pc = "forget" /\ p.at \in Node
              /\ p.hashlist = job[j].hashlist /\ p.batch = job[j].batch
          BY <1>p DEF Pass
        <4>2. job' = [job EXCEPT ![j] = p] /\ job[j].pc = "go"
          BY <3>2 DEF Remove, AllSent
        <4> QED
          BY <4>1, <4>2
      <3> QED
        BY <1>4, <3>1, <3>2
    <2>2. UNCHANGED taken /\ job[j].pc = "go"
      BY <1>4 DEF Touch, Remove, AllSent
    <2> QED
      BY <1>t, <1>o, <1>a, <2>1, <2>2, PassChanged
  <1>5. ASSUME NEW j \in Job, Answered(j) PROVE JobsOK'
    <2> DEFINE p == [Spoke(j) EXCEPT
                        !.hashlist = IF j = "original" /\ active THEN @ \cup job[j].batch ELSE @]
    <2>1. /\ Spoke(j) \in Pass /\ Spoke(j).pc = "go"
          /\ Spoke(j).hashlist = job[j].hashlist /\ Spoke(j).batch = job[j].batch
      BY <1>5, ReturnedType DEF Answered
    <2>2. job[j].batch \subseteq Key
      BY <1>p DEF Pass
    <2>3. p \in Pass /\ p.pc = "go" /\ p.batch = job[j].batch
          /\ p.hashlist = IF j = "original" /\ active THEN job[j].hashlist \cup job[j].batch
                                                      ELSE job[j].hashlist
      BY <2>1, <2>2 DEF Pass
    <2>4. job' = [job EXCEPT ![j] = p]
          /\ taken' = IF j = "original" THEN taken \cup job[j].batch ELSE taken
      BY <1>5 DEF Answered
    <2> HIDE DEF p
    <2>5. taken \subseteq taken' /\ taken' \subseteq Own /\ p.hashlist \subseteq taken'
      BY <1>o, <1>a, <2>3, <2>4
    <2> QED
      BY <1>t, <1>a, <2>3, <2>4, <2>5, PassChanged
  <1>6. ASSUME NEW j \in Job, Refused(j) PROVE JobsOK'
    <2>1. job' = [job EXCEPT ![j] = Spoke(j)] /\ UNCHANGED taken /\ job[j].pc = "out"
      BY <1>6 DEF Refused
    <2>2. /\ Spoke(j) \in Pass /\ Spoke(j).pc = "go"
          /\ Spoke(j).hashlist = job[j].hashlist /\ Spoke(j).batch = job[j].batch
      BY <2>1, ReturnedType
    <2> QED
      BY <1>t, <1>o, <1>a, <2>1, <2>2, PassChanged
  <1>7. ASSUME NEW j \in Job, NotThere(j) \/ Lost(j) PROVE JobsOK'
    <2>1. job' = [job EXCEPT ![j] = Silent(j)] /\ UNCHANGED taken /\ job[j].pc = "out"
      BY <1>7 DEF NotThere, Lost
    <2>2. /\ Silent(j) \in Pass /\ Silent(j).pc = "go"
          /\ Silent(j).hashlist = job[j].hashlist /\ Silent(j).batch = job[j].batch
      BY <2>1, ReturnedType
    <2> QED
      BY <1>t, <1>o, <1>a, <2>1, <2>2, PassChanged
  <1>8. ASSUME NEW j \in Job, DeleteKeys(j) PROVE JobsOK'
    <2> DEFINE p == [job[j] EXCEPT !.pc = "go", !.at = Self]
    <2>1. p \in Pass /\ p.pc = "go" /\ p.hashlist = job[j].hashlist /\ p.batch = job[j].batch
      BY <1>p DEF Pass
    <2>2. job' = [job EXCEPT ![j] = p] /\ UNCHANGED taken /\ job[j].pc = "forget"
      BY <1>8 DEF DeleteKeys
    <2> QED
      BY <1>t, <1>o, <1>a, <2>1, <2>2, PassChanged
  <1>9. ASSUME NEW j \in Job, Finish(j) PROVE JobsOK'
    <2>1. /\ job' = [job EXCEPT ![j] = Resting]
          /\ taken' \subseteq taken /\ (j # "original" => UNCHANGED taken)
      BY <1>9 DEF Finish
    <2>2. Resting.pc = "rest" /\ Resting.hashlist = {} /\ Resting.batch = {}
      BY DEF Resting
    <2>3. \A i \in Job : job'[i] = IF i = j THEN Resting ELSE job[i]
      BY <1>t, <2>1 DEF JobsOK
    <2>4. job' \in [Job -> Pass]
      BY <1>t, <2>1, RestingType DEF JobsOK
    <2>5. \A i \in Job : job'[i].pc \in {"out", "forget"} => job'[i].at \in Node
      BY <1>t, <2>2, <2>3 DEF JobsOK
    <2>6. \A i \in Job : job'[i].hashlist \subseteq taken'
      BY <1>a, <2>1, <2>2, <2>3
    <2>7. \A i \in Job : i # "original" \/ job'[i].pc = "rest" => job'[i].hashlist = {}
      BY <1>a, <2>2, <2>3
    <2>8. job'["original"].batch \subseteq Own
      BY <1>a, <2>2, <2>3 DEF Job
    <2> QED
      BY <1>o, <2>1, <2>4, <2>5, <2>6, <2>7, <2>8 DEF JobsOK, Accounted
  <1>10. CASE OriginalsGetDue
    <2>1. UNCHANGED job /\ taken' \subseteq taken /\ job["original"].pc = "rest"
      BY <1>10 DEF OriginalsGetDue
    <2>2. \A j \in Job : job[j].hashlist = {}
      BY <1>a, <2>1
    <2> QED
      BY <1>t, <2>1, <2>2 DEF JobsOK, Accounted
  <1>11. ASSUME NEW n \in Node, CallStore(n) \/ ImportEnds(n) \/ ParseTouch(n) \/ Leave(n) \/ Return(n) PROVE JobsOK'
    BY <1>t, <1>11 DEF CallStore, ImportEnds, ParseTouch, Leave, Return, JobsOK, Accounted
  <1>12. ASSUME NEW n \in Node, NEW k \in Key, AddKey(n, k) PROVE JobsOK'
    BY <1>t, <1>12 DEF AddKey, JobsOK, Accounted
  <1>13. ASSUME NEW n \in Limits, SetLimit(n) PROVE JobsOK'
    BY <1>t, <1>13 DEF SetLimit, JobsOK, Accounted
  <1>14. ASSUME (\E k \in Key : KeyGetsOld(k)) \/ StopP2P \/ StartP2P \/ UNCHANGED vars PROVE JobsOK'
    BY <1>t, <1>14 DEF KeyGetsOld, StopP2P, StartP2P, vars, JobsOK, Accounted
  <1> QED
    BY <1>2, <1>3, <1>4, <1>5, <1>6, <1>7, <1>8, <1>9, <1>10, <1>11, <1>12, <1>13, <1>14
    DEF Next, JobStep, ParseStep

-----------------------------------------------------------------------------
LEMMA BoundedStep == ASSUME IInv, [Next]_vars PROVE Bounded'
  <1> USE DEF world, published
  <1>t. TypeOK /\ Bounded /\ keys \in SUBSET Key /\ limit \in Nat
    BY KeyStoreAssumption DEF IInv, TypeOK
  <1>1. ASSUME NEW n \in Node, CallStore(n) PROVE Bounded'
    <2>1. parse'[n].pc = "import"
      BY <1>1, <1>t DEF CallStore, TypeOK
    <2> QED
      BY <2>1 DEF Bounded
  <1>2. ASSUME NEW n \in Node, NEW k \in Key, AddKey(n, k) PROVE Bounded'
    <2>1. parse[n] \in Thread /\ parse[n] \notin {Idle, Touching}
      BY <1>2, <1>t DEF AddKey, TypeOK, Idle, Touching
    <2>2. parse[n].pc = "import"
      BY <2>1 DEF Thread
    <2>3. parse' = [parse EXCEPT ![n].todo = @ \ {k}] /\ parse \in [Node -> Thread]
      BY <1>2, <1>t DEF AddKey, TypeOK
    <2>4. parse'[n].pc = "import"
      BY <2>1, <2>2, <2>3 DEF Thread
    <2> QED
      BY <2>4 DEF Bounded
  <1>3. ASSUME NEW n \in Node, ImportEnds(n) PROVE Bounded'
    <2>1. PICK S \in Expired(keys, limit) : keys' = S
      BY <1>3 DEF ImportEnds
    <2>2. Cardinality(S) <= limit /\ limit' = limit
      BY <1>3, <1>t, ExpiredWithin DEF ImportEnds
    <2> QED
      BY <2>1, <2>2 DEF Bounded
  <1>4. ASSUME NEW n \in Limits, SetLimit(n) PROVE Bounded'
    <2>1. PICK S \in Expired(keys, n) : keys' = S
      BY <1>4 DEF SetLimit
    <2>2. n \in Nat
      BY KeyStoreAssumption
    <2>3. Cardinality(S) <= n /\ limit' = n
      BY <1>4, <1>t, <2>2, ExpiredWithin DEF SetLimit
    <2> QED
      BY <2>1, <2>3 DEF Bounded
  <1>5. ASSUME NEW j \in Job, DeleteKeys(j) PROVE Bounded'
    <2>1. keys' \in SUBSET keys /\ UNCHANGED <<limit, parse>>
      BY <1>5 DEF DeleteKeys
    <2>2. Cardinality(keys') <= Cardinality(keys) /\ Cardinality(keys') \in Nat /\ Cardinality(keys) \in Nat
      BY <1>t, <2>1, FiniteKeys, FS_Subset
    <2> QED
      BY <1>t, <2>1, <2>2 DEF Bounded
  <1>6. ASSUME UNCHANGED <<keys, limit, parse>> PROVE Bounded'
    BY <1>t, <1>6 DEF Bounded
  <1>7. ASSUME NEW n \in Node, Leave(n) \/ Return(n) PROVE Bounded'
    BY <1>6, <1>7 DEF Leave, Return
  <1>12. ASSUME NEW n \in Node, ParseTouch(n) PROVE Bounded'
    <2>1. /\ parse[n].pc # "import" /\ UNCHANGED <<keys, limit>>
          /\ \A m \in Node \ {n} : parse'[m] = parse[m]
      BY <1>12, <1>t DEF ParseTouch, TypeOK, Touching
    <2> QED
      BY <1>t, <2>1 DEF Bounded
  <1>8. CASE Start
    BY <1>6, <1>8 DEF Start, PublishKeys, PublishOriginal, AskAround
  <1>9. ASSUME NEW j \in Job, NEW n \in Node, Send(j, n) \/ Touch(j, n) \/ Remove(j, n) PROVE Bounded'
    BY <1>6, <1>9 DEF Send, Touch, Remove
  <1>10. ASSUME NEW j \in Job, Answered(j) \/ Refused(j) \/ NotThere(j) \/ Lost(j) \/ Finish(j)
         PROVE  Bounded'
    BY <1>6, <1>10 DEF Answered, Refused, NotThere, Lost, Finish
  <1>11. ASSUME (\E k \in Key : KeyGetsOld(k)) \/ OriginalsGetDue \/ StopP2P \/ StartP2P \/ UNCHANGED vars
         PROVE  Bounded'
    BY <1>6, <1>11 DEF KeyGetsOld, OriginalsGetDue, StopP2P, StartP2P, vars
  <1> QED
    BY <1>1, <1>2, <1>3, <1>4, <1>5, <1>7, <1>8, <1>9, <1>10, <1>11, <1>12 DEF Next, JobStep, ParseStep

LEMMA DatedIsTakenStep == ASSUME IInv, [Next]_vars PROVE DatedIsTaken'
  <1> USE DEF world, published
  <1>t. DatedIsTaken /\ Own \ due \subseteq taken
    BY DEF IInv, DatedIsTaken
  <1>1. ASSUME UNCHANGED due, taken \subseteq taken' PROVE DatedIsTaken'
    BY <1>t, <1>1 DEF DatedIsTaken
  <1>2. ASSUME NEW j \in Job, Finish(j) PROVE DatedIsTaken'
    <2>1. job[j].hashlist \subseteq taken
      BY DEF IInv, Accounted
    <2> QED
      BY <1>t, <1>2, <2>1 DEF Finish, DatedIsTaken
  <1>3. CASE OriginalsGetDue
    <2>1. due \subseteq due' /\ taken' = taken \ due'
      <3>1. PICK k \in Own \ due : due' = due \cup {l \in Own : lastpublish[l] <= lastpublish[k]}
        BY <1>3 DEF OriginalsGetDue
      <3> QED
        BY <1>3, <3>1 DEF OriginalsGetDue
    <2> QED
      BY <1>t, <2>1 DEF DatedIsTaken
  <1>4. ASSUME NEW n \in Node, CallStore(n) \/ ImportEnds(n) \/ ParseTouch(n) \/ Leave(n) \/ Return(n) PROVE DatedIsTaken'
    BY <1>1, <1>4 DEF CallStore, ImportEnds, ParseTouch, Leave, Return
  <1>5. ASSUME NEW n \in Node, NEW k \in Key, AddKey(n, k) PROVE DatedIsTaken'
    BY <1>1, <1>5 DEF AddKey
  <1>6. ASSUME NEW n \in Limits, SetLimit(n) PROVE DatedIsTaken'
    BY <1>1, <1>6 DEF SetLimit
  <1>7. CASE Start
    BY <1>1, <1>7 DEF Start, PublishKeys, PublishOriginal, AskAround
  <1>8. ASSUME NEW j \in Job, NEW n \in Node, Send(j, n) \/ Touch(j, n) \/ Remove(j, n) PROVE DatedIsTaken'
    BY <1>1, <1>8 DEF Send, Touch, Remove
  <1>9. ASSUME NEW j \in Job, DeleteKeys(j) \/ Answered(j) \/ Refused(j) \/ NotThere(j) \/ Lost(j)
        PROVE  DatedIsTaken'
    BY <1>1, <1>9 DEF DeleteKeys, Answered, Refused, NotThere, Lost
  <1>10. ASSUME (\E k \in Key : KeyGetsOld(k)) \/ StopP2P \/ StartP2P \/ UNCHANGED vars PROVE DatedIsTaken'
    BY <1>1, <1>10 DEF KeyGetsOld, StopP2P, StartP2P, vars
  <1> QED
    BY <1>2, <1>3, <1>4, <1>5, <1>6, <1>7, <1>8, <1>9, <1>10 DEF Next, JobStep, ParseStep

LEMMA NextInv == ASSUME IInv, [Next]_vars PROVE IInv'
  <1>1. TypeOK /\ Accounted
    BY DEF IInv
  <1>2. StoreOK' /\ JobsOK'
    BY <1>1, StoreType, JobsType
  <1>3. (TypeOK /\ Accounted)'
    BY <1>2 DEF StoreOK, JobsOK, TypeOK, Accounted
  <1> QED
    BY <1>3, BoundedStep, DatedIsTakenStep DEF IInv

(* Of a step: a key that leaves has a reason to. *)
Reason ==
    \A k \in keys \ keys' :
        \/ \E j \in Job : job[j].pc = "forget" /\ job[j].at = Owner[k]
        \/ Cardinality(keys') = limit' /\ \A l \in keys' : Distance[l] <= Distance[k]

LEMMA LeavesStep == ASSUME IInv, [Next]_vars PROVE Reason
  <1> USE DEF world, published
  <1>t. limit \in Nat /\ keys \in SUBSET Key
    BY KeyStoreAssumption DEF IInv, TypeOK
  <1>1. ASSUME keys \subseteq keys' PROVE Reason
    BY <1>1 DEF Reason
  <1>2. ASSUME NEW n \in Nat, keys' \in Expired(keys, n), limit' = n PROVE Reason
    BY <1>t, <1>2, ExpiredWithin DEF Reason
  <1>3. ASSUME NEW n \in Node, ImportEnds(n) PROVE Reason
    <2>1. keys' \in Expired(keys, limit) /\ limit' = limit
      BY <1>3 DEF ImportEnds
    <2> QED
      BY <1>2, <1>t, <2>1
  <1>4. ASSUME NEW n \in Limits, SetLimit(n) PROVE Reason
    <2>1. keys' \in Expired(keys, n) /\ limit' = n /\ n \in Nat
      BY <1>4, KeyStoreAssumption DEF SetLimit
    <2> QED
      BY <1>2, <2>1
  <1>5. ASSUME NEW j \in Job, DeleteKeys(j) PROVE Reason
    BY <1>5 DEF DeleteKeys, Reason
  <1>6. ASSUME NEW n \in Node, CallStore(n) \/ ParseTouch(n) \/ Leave(n) \/ Return(n) PROVE Reason
    BY <1>1, <1>6 DEF CallStore, ParseTouch, Leave, Return
  <1>7. ASSUME NEW n \in Node, NEW k \in Key, AddKey(n, k) PROVE Reason
    BY <1>1, <1>7 DEF AddKey
  <1>8. CASE Start
    BY <1>1, <1>8 DEF Start, PublishKeys, PublishOriginal, AskAround
  <1>9. ASSUME NEW j \in Job, NEW n \in Node, Send(j, n) \/ Touch(j, n) \/ Remove(j, n) PROVE Reason
    BY <1>1, <1>9 DEF Send, Touch, Remove
  <1>10. ASSUME NEW j \in Job, Answered(j) \/ Refused(j) \/ NotThere(j) \/ Lost(j) \/ Finish(j)
         PROVE  Reason
    BY <1>1, <1>10 DEF Answered, Refused, NotThere, Lost, Finish
  <1>11. ASSUME (\E k \in Key : KeyGetsOld(k)) \/ OriginalsGetDue \/ StopP2P \/ StartP2P \/ UNCHANGED vars
         PROVE  Reason
    BY <1>1, <1>11 DEF KeyGetsOld, OriginalsGetDue, StopP2P, StartP2P, vars
  <1> QED
    BY <1>3, <1>4, <1>5, <1>6, <1>7, <1>8, <1>9, <1>10, <1>11 DEF Next, JobStep, ParseStep

-----------------------------------------------------------------------------
(* IInv is an invariant. *)
THEOREM Invariance == Spec => []IInv
  BY InitInv, NextInv, PTL DEF Spec

(* The variables have their types; no own key is ever in KeyDB
   (O2KeyDB::CheckKey).                                                    *)
THEOREM TypeCorrect == Spec => []TypeOK
  <1>1. IInv => TypeOK
    BY DEF IInv
  <1> QED
    BY <1>1, Invariance, PTL

(* Once all imports are done KeyDB is within the limit set last
   (O2KeyDB::ImportFromXML, SetLimit).                                     *)
THEOREM WithinLimit == Spec => []Bounded
  <1>1. IInv => Bounded
    BY DEF IInv
  <1> QED
    BY <1>1, Invariance, PTL

(* lastpublish is set only for what some node has accepted
   (O2Job_PublishOriginal::JobThreadFunc).                                 *)
THEOREM PublishedIsTaken == Spec => []DatedIsTaken
  <1>1. IInv => DatedIsTaken
    BY DEF IInv
  <1> QED
    BY <1>1, Invariance, PTL

(* No key leaves KeyDB but with an owner that failed or for nearer ones.   *)
THEOREM NoKeyLost == Spec => LeavesForReason
  <1>1. IInv /\ [Next]_vars => [Reason]_vars
    BY LeavesStep
  <1> QED
    BY <1>1, Invariance, PTL DEF Spec, LeavesForReason, Reason
=============================================================================
