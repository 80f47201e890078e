--------------------------- MODULE QueryStoreProofs ---------------------------
(***************************************************************************)
(* Theorems about QueryStore, for any number of dats and of the admin's    *)
(* threads, and any limits, which the user changes at any time: its types, *)
(* and that the user finds again what was registered.  The argument is     *)
(* that what the user should find is the nearest part of what is in the    *)
(* file, or of a text on its way there, and that the rest of it is dropped *)
(* (Restores); so that a start under any limit finds all of it that there  *)
(* is place for, before anything that comes back.                          *)
(***************************************************************************)
EXTENDS QueryStore, FiniteSetTheorems, TLAPS

LagType == [Dat -> {"none", "new", "fresh", "due"}]
CheckType == [pc : {"wait", "pass", "gone"}, active : BOOLEAN, todo : SUBSET Dat]
SaveType == [pc : {"idle", "export", "open", "write"}, text : Queries]
Budget == visits \in 0..MaxVisits /\ edits \in 0..MaxEdits /\ rare \in 0..MaxRare
Tables == qdb \in Queries /\ file \in Queries /\ asked \in Queries
CheckOK == chk \in CheckType /\ (chk.todo # {} => chk.pc = "pass")
PhaseType == {"up", "stopped", "saved", "deleted", "joining", "ended"}

Typed ==
    /\ Tables /\ CheckOK /\ Budget
    /\ lag \in LagType
    /\ save \in [Saver -> SaveType]
    /\ phase \in PhaseType
    /\ limit \in Limits
    /\ stale \in BOOLEAN /\ dropped \subseteq Dat

(* Typed is TypeOK with a name for each of its parts. *)
LEMMA TypedIsTypeOK == Typed <=> TypeOK
BY DEF Typed, TypeOK, Tables, CheckOK, CheckType, Budget, LagType, SaveType, PhaseType

-----------------------------------------------------------------------------
(* Helpers. *)

(* The value of one dat may be replaced by any other. *)
LEMMA QuerySet ==
    ASSUME NEW qs \in Queries, NEW d \in Dat, NEW q \in {"none", "on", "off"}
    PROVE  [qs EXCEPT ![d] = q] \in Queries
BY DEF Queries

(* Expire leaves queries. *)
LEMMA ExpireType ==
    ASSUME NEW qs \in Queries, NEW n
    PROVE  Expire(qs, n) \in Queries
BY DEF Expire, Queries

LEMMA NoQueriesType == NoQueries \in Queries
BY DEF NoQueries, Queries

LEMMA IdleType == Idle \in SaveType
BY NoQueriesType DEF Idle, SaveType

(* A thread may go on to another step of Save. *)
LEMMA SaveStep ==
    ASSUME NEW s \in [Saver -> SaveType], NEW t \in Saver,
           NEW p \in {"idle", "export", "open", "write"}
    PROVE  [s EXCEPT ![t].pc = p] \in [Saver -> SaveType]
BY DEF SaveType

LEMMA SaverNames == "checker" \in Saver /\ "final" \in Saver /\ Admin \subseteq Saver
BY DEF Saver

LEMMA LagSet ==
    ASSUME NEW l \in LagType, NEW d \in Dat, NEW v \in {"none", "new", "fresh", "due"}
    PROVE  [l EXCEPT ![d] = v] \in LagType
BY DEF LagType

-----------------------------------------------------------------------------
(* Every step keeps the types. *)

LEMMA SaveTyped ==
    ASSUME Typed, NEW t \in Saver, Save(t) \/ SaveFail(t)
    PROVE  Typed'
<1>1. CASE SaveExport(t)
  BY <1>1, QueryStoreAssumption DEF SaveExport, Typed, Tables, CheckOK, Budget, budget, SaveType, Writing
<1>2. CASE SaveOpen(t)
  BY <1>2, NoQueriesType, SaveStep DEF SaveOpen, Typed, Tables, CheckOK, Budget, budget
<1>3. CASE SaveFail(t)
  BY <1>3, IdleType, QueryStoreAssumption DEF SaveFail, Rare, Typed, Tables, CheckOK, Budget
<1>4. CASE SaveWrite(t)
  <2>1. save[t].text \in Queries
    BY DEF Typed, SaveType
  <2>2. QED  BY <1>4, <2>1, IdleType DEF SaveWrite, Typed, Tables, CheckOK, Budget, budget
<1>5. QED  BY <1>1, <1>2, <1>3, <1>4 DEF Save

LEMMA ProxyTyped ==
    ASSUME Typed, NEW d \in Dat, Add(d) \/ Remove(d) \/ FiveSeconds(d)
    PROVE  Typed'
<1>1. lag' \in LagType
  BY LagSet DEF Typed, Add, Remove, FiveSeconds, LagType
<1>2. Budget'
  BY QueryStoreAssumption DEF Typed, Budget, budget, Add, Remove, FiveSeconds
<1>3. QED  BY <1>1, <1>2 DEF Add, Remove, FiveSeconds, Typed, Tables, CheckOK

LEMMA CheckTyped ==
    ASSUME Typed, Check
    PROVE  Typed'
<1>1. CASE CheckStart
  BY <1>1 DEF CheckStart, Typed, Tables, CheckOK, CheckType, Budget, budget, Known
<1>2. ASSUME NEW d \in Dat, CheckSkip(d)  PROVE Typed'
  BY <1>2 DEF CheckSkip, Typed, Tables, CheckOK, CheckType, Budget, budget
<1>3. ASSUME NEW d \in Dat, CheckRegister(d)  PROVE Typed'
  <2>1. save' \in [Saver -> SaveType]
    BY <1>3, SaveStep, SaverNames DEF CheckRegister, Typed
  <2>2. CheckOK'
    BY <1>3 DEF CheckRegister, Typed, CheckOK, CheckType
  <2>3. Tables' /\ lag' \in LagType
    BY <1>3, QuerySet, LagSet DEF CheckRegister, Typed, Tables
  <2>4. QED  BY <1>3, <2>1, <2>2, <2>3 DEF CheckRegister, Typed, Budget, budget
<1>4. CASE CheckEnd
  BY <1>4 DEF CheckEnd, Typed, Tables, CheckOK, CheckType, Budget, budget
<1>5. CASE CheckStop
  BY <1>5 DEF CheckStop, Typed, Tables, CheckOK, CheckType, Budget, budget
<1>6. QED  BY <1>1, <1>2, <1>3, <1>4, <1>5 DEF Check

LEMMA AdminTyped ==
    ASSUME Typed, NEW a \in Admin, NEW d \in Dat,
           AdminAdd(a, d) \/ AdminDelete(a, d) \/ AdminActivate(a, d) \/ AdminDeactivate(a, d)
    PROVE  Typed'
<1>1. PICK q \in {"none", "on", "off"} : Change(a, d, q)
  BY DEF AdminAdd, AdminDelete, AdminActivate, AdminDeactivate
<1>2. Tables'
  BY <1>1, QuerySet DEF Change, Typed, Tables
<1>3. save' \in [Saver -> SaveType]
  BY <1>1, SaveStep, SaverNames DEF Change, Typed
<1>4. Budget'
  BY <1>1, QueryStoreAssumption DEF Change, Edit, Typed, Budget
<1>5. QED  BY <1>1, <1>2, <1>3, <1>4 DEF Change, Typed, CheckOK

LEMMA EndTyped ==
    ASSUME Typed,
           Stop \/ Saved \/ DeleteQueryDB \/ DeleteLagQueryQueue \/ End
    PROVE  Typed'
<1>1. CASE Stop
  <2>1. save' \in [Saver -> SaveType]
    BY <1>1, SaveStep, SaverNames DEF Stop, Typed
  <2>2. QED  BY <1>1, <2>1, QueryStoreAssumption
               DEF Stop, Rare, Typed, Tables, CheckOK, Budget, PhaseType
<1>2. CASE Saved \/ DeleteQueryDB \/ End
  BY <1>2 DEF Saved, DeleteQueryDB, End, Typed, Tables, CheckOK, Budget, budget, PhaseType
<1>3. CASE DeleteLagQueryQueue
  BY <1>3 DEF DeleteLagQueryQueue, Typed, Tables, CheckOK, CheckType, Budget, budget, PhaseType
<1>4. QED  BY <1>1, <1>2, <1>3

LEMMA RestTyped ==
    ASSUME Typed, SetLimit \/ (\E n \in Limits : StoreSettings(n)) \/ UseAfterDelete \/ Crash \/ Start
    PROVE  Typed'
<1>1. CASE SetLimit
  <2>1. qdb' \in Queries
    BY <1>1, ExpireType DEF SetLimit, Typed, Tables
  <2>2. asked' \in Queries
    BY <1>1 DEF SetLimit, Typed, Tables, Queries
  <2>3. dropped' \subseteq Dat
    BY <1>1 DEF SetLimit, Typed, Known
  <2>4. QED  BY <1>1, <2>1, <2>2, <2>3 DEF SetLimit, Typed, Tables, CheckOK, Budget, budget
<1>2. CASE UseAfterDelete \/ Crash
  <2>1. Fallen
    BY <1>2 DEF UseAfterDelete, Crash
  <2>2. Budget'
    BY <1>2, QueryStoreAssumption DEF UseAfterDelete, Crash, Rare, Typed, Budget, budget
  <2>3. CheckOK'
    BY <2>1 DEF Fallen, CheckOK, CheckType
  <2>4. Tables' /\ lag' \in LagType /\ phase' \in PhaseType
    BY <2>1 DEF Fallen, Typed, Tables, PhaseType
  <2>5. save' \in [Saver -> SaveType]
    BY <2>1, IdleType DEF Fallen
  <2>6. stale \in BOOLEAN => stale' \in BOOLEAN
    <3> DEFINE busy == \E t \in Saver : save[t] # Idle
    <3>1. stale' = (stale \/ busy)
      BY <2>1 DEF Fallen
    <3> HIDE DEF busy
    <3>2. stale \in BOOLEAN => (stale \/ busy) \in BOOLEAN
      BY Zenon
    <3>3. QED  BY <3>1, <3>2, Zenon
  <2>7. limit' = limit /\ dropped' = dropped
    BY <2>1 DEF Fallen
  <2>8. QED  BY <2>2, <2>3, <2>4, <2>5, <2>6, <2>7 DEF Typed
<1>3. CASE Start
  <2>1. qdb' \in Queries
    BY <1>3, ExpireType DEF Start, Loaded, Typed, Tables
  <2>2. asked' \in Queries /\ dropped' \subseteq Dat
    BY <1>3, <2>1 DEF Start, Typed, Tables, Queries, Known
  <2>3. CheckOK'
    BY <1>3 DEF Start, CheckOK, CheckType
  <2>4. lag' \in LagType
    BY <1>3 DEF Start, LagType
  <2>5. QED  BY <1>3, <2>1, <2>2, <2>3, <2>4
               DEF Start, Typed, Tables, Budget, budget, PhaseType
<1>4. ASSUME NEW n \in Limits, StoreSettings(n)  PROVE Typed'
  <2>1. Budget'
    BY <1>4, QueryStoreAssumption DEF StoreSettings, Edit, Typed, Budget
  <2>2. QED  BY <1>4, <2>1 DEF StoreSettings, Typed, Tables, CheckOK
<1>5. QED  BY <1>1, <1>2, <1>3, <1>4

LEMMA TypesHold == Spec => []Typed
<1>1. Init => Typed
  <2> SUFFICES ASSUME Init  PROVE Typed
    OBVIOUS
  <2>1. /\ Tables /\ lag \in LagType /\ phase \in PhaseType /\ stale \in BOOLEAN
        /\ limit \in Limits /\ dropped \subseteq Dat
    BY NoQueriesType DEF Init, Tables, LagType, PhaseType
  <2>2. CheckOK
    BY DEF Init, CheckOK, CheckType
  <2>3. save \in [Saver -> SaveType]
    BY IdleType DEF Init
  <2>4. Budget
    BY QueryStoreAssumption DEF Init, Budget
  <2>5. QED  BY <2>1, <2>2, <2>3, <2>4 DEF Typed
<1>2. Typed /\ [Next]_vars => Typed'
  <2> SUFFICES ASSUME Typed, [Next]_vars  PROVE Typed'
    OBVIOUS
  <2>1. CASE UNCHANGED vars
    BY <2>1 DEF vars, Typed, Tables, CheckOK, Budget
  <2>2. CASE Next
    BY <2>2, SaveTyped, ProxyTyped, CheckTyped, AdminTyped, EndTyped, RestTyped DEF Next
  <2>3. QED  BY <2>1, <2>2
<1>3. QED  BY <1>1, <1>2, PTL DEF Spec

(* For any dats, any threads of the admin server and any limits, every     *)
(* variable of the query store keeps its type; in particular the Checker   *)
(* has entries to look at only during a pass, when it holds the lock.      *)
THEOREM TypeCorrect == Spec => []TypeOK
BY TypesHold, TypedIsTypeOK, PTL

-----------------------------------------------------------------------------
(* What is kept. *)

(* The queries qs are those the user should find. *)
Agrees(qs) ==
    /\ Known(asked) = Known(qs)
    /\ \A d \in Dat : asked[d] = "off" => qs[d] = "off"

(* To load the text qs would bring them back: they are the nearest of qs,  *)
(* the others have been dropped over a limit, and a query may be off there *)
(* that a visit has switched on.                                           *)
Restores(qs) ==
    /\ \E k \in Nat : Known(asked) = Known(Expire(qs, k))
    /\ Known(qs) \subseteq Known(asked) \cup dropped
    /\ \A d \in Dat : asked[d] = "off" => qs[d] = "off"

OneWriter == \A t, u \in Saver : Writing(t) /\ Writing(u) => t = u

(* As long as the file is not stale, a save is still to begin, or the text *)
(* that is being written is good, or the file is.                          *)
Current ==
    \/ \E t \in Saver : save[t].pc = "export"
    \/ \E t \in Saver : Writing(t) /\ Restores(save[t].text)
    \/ (\A t \in Saver : ~Writing(t)) /\ Restores(file)

(* Which threads may be in Save. *)
Savers ==
    /\ phase # "up" => \A a \in Admin : save[a] = Idle
    /\ phase # "stopped" => save["final"] = Idle
    /\ chk.pc # "pass" => save["checker"] = Idle
    /\ phase = "ended" => chk.pc = "gone"

KInv == Agrees(qdb) /\ (~stale => OneWriter /\ Current) /\ Savers

(* The queries of qs that are no further than d. *)
Before(qs, d) == {c \in Known(qs) : Distance[c] <= Distance[d]}

LEMMA BeforeFinite ==
    ASSUME NEW qs, NEW d
    PROVE  IsFiniteSet(Before(qs, d)) /\ Cardinality(Before(qs, d)) \in Nat
<1>1. Before(qs, d) \in SUBSET Dat
  BY DEF Before, Known
<1>2. IsFiniteSet(Before(qs, d))
  BY <1>1, FS_Subset, QueryStoreAssumption
<1>3. QED  BY <1>2, FS_CardinalityType

(* What Expire leaves. *)
LEMMA ExpireKnown ==
    ASSUME NEW qs, NEW n
    PROVE  /\ Known(Expire(qs, n)) = {d \in Known(qs) : Cardinality(Before(qs, d)) <= n}
           /\ \A d \in Known(Expire(qs, n)) : Expire(qs, n)[d] = qs[d]
BY DEF Expire, Known, Before

(* It depends on which queries there are only. *)
LEMMA ExpireSame ==
    ASSUME NEW p, NEW q, NEW n, Known(p) = Known(q)
    PROVE  Known(Expire(p, n)) = Known(Expire(q, n))
<1>1. \A d : Before(p, d) = Before(q, d)
  BY DEF Before
<1>2. QED  BY <1>1, ExpireKnown

Least(m, n) == IF m <= n THEN m ELSE n

LEMMA LeastType == ASSUME NEW m \in Nat, NEW n \in Nat PROVE Least(m, n) \in Nat
BY DEF Least

(* Of two limits the lower one counts. *)
LEMMA ExpireTwice ==
    ASSUME NEW qs, NEW first \in Nat, NEW second \in Nat
    PROVE  Known(Expire(Expire(qs, first), second)) = Known(Expire(qs, Least(first, second)))
<1> DEFINE e == Expire(qs, first)
<1>1. Known(e) = {d \in Known(qs) : Cardinality(Before(qs, d)) <= first}
  BY ExpireKnown
<1>2. \A d \in Dat : Distance[d] \in Nat
  BY QueryStoreAssumption
<1>3. Known(qs) \subseteq Dat
  BY DEF Known
<1> HIDE DEF e
<1>4. ASSUME NEW d \in Known(e)
      PROVE  Before(e, d) = Before(qs, d)
  <2>1. d \in Dat /\ Cardinality(Before(qs, d)) <= first
    BY <1>1, <1>3, <1>4
  <2>2. ASSUME NEW c \in Before(qs, d)
        PROVE  c \in Known(e)
    <3>1. c \in Known(qs) /\ c \in Dat /\ Distance[c] <= Distance[d]
      BY <1>3, <2>2 DEF Before
    <3>2. Before(qs, c) \subseteq Before(qs, d)
      BY <1>2, <1>3, <2>1, <3>1 DEF Before
    <3>3. /\ Cardinality(Before(qs, c)) <= Cardinality(Before(qs, d))
          /\ Cardinality(Before(qs, c)) \in Nat /\ Cardinality(Before(qs, d)) \in Nat
      BY <3>2, BeforeFinite, FS_Subset
    <3>4. QED  BY <1>1, <2>1, <3>1, <3>3
  <2>3. QED  BY <1>1, <2>2 DEF Before
<1>5. Known(Expire(e, second)) = {d \in Known(e) : Cardinality(Before(qs, d)) <= second}
  BY <1>4, ExpireKnown
<1>6. \A d : /\ Cardinality(Before(qs, d)) \in Nat
             /\ Cardinality(Before(qs, d)) <= Least(first, second)
                  <=> Cardinality(Before(qs, d)) <= first /\ Cardinality(Before(qs, d)) <= second
  BY BeforeFinite DEF Least
<1>7. /\ Known(Expire(qs, Least(first, second)))
           = {d \in Known(qs) : Cardinality(Before(qs, d)) <= Least(first, second)}
  BY ExpireKnown
<1>8. QED  BY <1>1, <1>5, <1>6, <1>7 DEF e

(* A limit that is high enough drops nothing. *)
LEMMA ExpireNothing ==
    ASSUME NEW qs
    PROVE  \E k \in Nat : Known(Expire(qs, k)) = Known(qs)
<1>1. IsFiniteSet(Known(qs)) /\ Cardinality(Known(qs)) \in Nat
  <2>1. Known(qs) \in SUBSET Dat
    BY DEF Known
  <2>2. IsFiniteSet(Known(qs))
    BY <2>1, FS_Subset, QueryStoreAssumption
  <2>3. QED  BY <2>2, FS_CardinalityType
<1>2. \A d : Cardinality(Before(qs, d)) <= Cardinality(Known(qs))
  <2> TAKE d
  <2>1. Before(qs, d) \in SUBSET Known(qs)
    BY DEF Before
  <2>2. QED  BY <1>1, <2>1, FS_Subset
<1>3. Known(Expire(qs, Cardinality(Known(qs)))) = Known(qs)
  BY <1>2, ExpireKnown
<1>4. QED  BY <1>1, <1>3

(* What a start makes of a text whose nearest part is what the user should *)
(* find: all of that there is place for, and what was dropped.             *)
LEMMA LoadedNearest ==
    ASSUME Typed, Restores(file)
    PROVE  /\ Known(Loaded(asked)) \subseteq Known(asked)
           /\ Known(Loaded(asked)) \subseteq Known(Loaded(file))
           /\ Known(Loaded(file)) \subseteq Known(Loaded(asked)) \cup dropped
<1> DEFINE m == Least(DefaultLimit, limit)
<1>1. DefaultLimit \in Nat /\ limit \in Nat /\ m \in Nat
  BY QueryStoreAssumption, LeastType DEF Typed
<1>2. PICK k \in Nat : Known(asked) = Known(Expire(file, k))
  BY DEF Restores
<1> DEFINE e == Expire(file, k)
<1>3. /\ Known(Loaded(asked)) = Known(Expire(asked, m))
      /\ Known(Loaded(file)) = Known(Expire(file, m))
  BY <1>1, ExpireTwice DEF Loaded
<1> HIDE DEF m
<1>4. Known(Loaded(asked)) = Known(Expire(file, Least(k, m)))
  <2>1. Known(Expire(asked, m)) = Known(Expire(Expire(file, k), m))
    BY <1>2, ExpireSame
  <2>2. QED  BY <1>1, <1>3, <2>1, ExpireTwice
<1>5. \A d : /\ Cardinality(Before(file, d)) \in Nat
             /\ Cardinality(Before(file, d)) <= Least(k, m)
                  <=> Cardinality(Before(file, d)) <= k /\ Cardinality(Before(file, d)) <= m
  BY <1>1, BeforeFinite DEF Least
<1>6. /\ Known(Expire(file, k)) = {d \in Known(file) : Cardinality(Before(file, d)) <= k}
      /\ Known(Expire(file, m)) = {d \in Known(file) : Cardinality(Before(file, d)) <= m}
      /\ Known(Expire(file, Least(k, m)))
           = {d \in Known(file) : Cardinality(Before(file, d)) <= Least(k, m)}
  BY ExpireKnown
<1>7. Known(file) \subseteq Known(asked) \cup dropped
  BY DEF Restores
<1>8. QED  BY <1>2, <1>3, <1>4, <1>5, <1>6, <1>7

LEMMA IdleSaver == Idle.pc = "idle" /\ \A t : save[t] = Idle => ~Writing(t) /\ save[t].pc # "export"
BY DEF Idle, Writing

LEMMA SaverThreads == "checker" \notin Admin /\ "final" \notin Admin
BY QueryStoreAssumption

-----------------------------------------------------------------------------
(* The threads in Save. *)

LEMMA SaversKept ==
    ASSUME Typed, Savers, [Next]_vars
    PROVE  Savers'
<1>0. save \in [Saver -> SaveType]
  BY DEF Typed
<1>1. ASSUME NEW t \in Saver, Save(t) \/ SaveFail(t)  PROVE Savers'
  <2>1. phase' = phase /\ chk' = chk
    BY <1>1 DEF Save, SaveExport, SaveOpen, SaveWrite, SaveFail
  <2>2. save[t] # Idle /\ \A u \in Saver : u # t => save'[u] = save[u]
    BY <1>0, <1>1, IdleSaver DEF Save, SaveExport, SaveOpen, SaveWrite, SaveFail
  <2>3. QED  BY <2>1, <2>2, SaverNames DEF Savers
<1>2. ASSUME NEW d \in Dat, Add(d) \/ Remove(d) \/ FiveSeconds(d)  PROVE Savers'
  BY <1>2 DEF Add, Remove, FiveSeconds, Savers
<1>3. CASE Check
  <2>1. CASE CheckStart \/ CheckEnd \/ CheckStop \/ \E d \in Dat : CheckSkip(d)
    BY <2>1 DEF CheckStart, CheckEnd, CheckStop, CheckSkip, Savers, Typed, CheckOK, CheckType
  <2>2. ASSUME NEW d \in Dat, CheckRegister(d)  PROVE Savers'
    <3>1. phase' = phase /\ chk.pc = "pass" /\ chk'.pc = "pass"
      BY <2>2 DEF CheckRegister, Typed, CheckOK, CheckType
    <3>2. \A u \in Saver : u # "checker" => save'[u] = save[u]
      BY <1>0, <2>2 DEF CheckRegister
    <3>3. QED  BY <3>1, <3>2, SaverThreads, SaverNames DEF Savers
  <2>3. QED  BY <1>3, <2>1, <2>2 DEF Check
<1>4. ASSUME NEW a \in Admin, NEW d \in Dat, NEW q, Change(a, d, q)  PROVE Savers'
  <2>1. phase = "up" /\ phase' = phase /\ chk' = chk
    BY <1>4 DEF Change
  <2>2. \A u \in Saver : u # a => save'[u] = save[u]
    BY <1>0, <1>4 DEF Change
  <2>3. QED  BY <2>1, <2>2, SaverThreads, SaverNames DEF Savers
<1>5. CASE SetLimit \/ (\E n \in Limits : StoreSettings(n)) \/ Saved \/ DeleteQueryDB
           \/ DeleteLagQueryQueue \/ End
  BY <1>5 DEF SetLimit, StoreSettings, Saved, DeleteQueryDB, DeleteLagQueryQueue, End, Savers, Typed, CheckOK, CheckType
<1>6. CASE Stop
  <2>1. phase' = "stopped" /\ chk' = chk /\ (\A a \in Admin : save[a] = Idle)
        /\ phase = "up" /\ \A u \in Saver : u # "final" => save'[u] = save[u]
    BY <1>0, <1>6 DEF Stop
  <2>2. QED  BY <2>1, SaverThreads, SaverNames DEF Savers
<1>7. CASE UseAfterDelete \/ Crash
  BY <1>7, SaverNames DEF UseAfterDelete, Crash, Fallen, Savers
<1>8. CASE Start
  BY <1>8 DEF Start, Savers
<1>9. CASE UNCHANGED vars
  BY <1>9 DEF vars, Savers
<1>10. QED
  BY <1>1, <1>2, <1>3, <1>4, <1>5, <1>6, <1>7, <1>8, <1>9
     DEF Next, AdminAdd, AdminDelete, AdminActivate, AdminDeactivate

(* When the program has ended nobody is in Save. *)
LEMMA NobodySaves ==
    ASSUME Savers, phase = "ended"
    PROVE  \A t \in Saver : save[t] = Idle
BY DEF Savers, Saver

-----------------------------------------------------------------------------
(* QueryDB and the file. *)

(* The steps of Save. *)
LEMMA SaveKeeps ==
    ASSUME Typed, KInv, NEW t \in Saver, Save(t) \/ SaveFail(t)
    PROVE  Agrees(qdb)' /\ (~stale' => (OneWriter /\ Current)')
<1>0. save \in [Saver -> SaveType] /\ qdb' = qdb /\ asked' = asked
  BY DEF Typed, Save, SaveExport, SaveOpen, SaveWrite, SaveFail
<1>1. Agrees(qdb)'
  BY <1>0 DEF KInv, Agrees
<1>2. CASE SaveExport(t)
  <2>1. save'[t] = [pc |-> "open", text |-> qdb] /\ \A u \in Saver : u # t => save'[u] = save[u]
    BY <1>0, <1>2 DEF SaveExport
  <2>2. Writing(t)' /\ Restores(save[t].text)'
    <3>1. \E k \in Nat : Known(asked) = Known(Expire(qdb, k))
      BY ExpireNothing DEF KInv, Agrees
    <3>2. save'[t].pc = "open" /\ save'[t].text = qdb /\ asked' = asked
      BY <1>0, <2>1
    <3>3. Known(qdb) = Known(asked) /\ \A d \in Dat : asked[d] = "off" => qdb[d] = "off"
      BY DEF KInv, Agrees
    <3>4. Restores(save[t].text)'
      BY <3>1, <3>2, <3>3 DEF Restores
    <3>5. QED  BY <3>2, <3>4 DEF Writing
  <2>3. Current'
    BY <2>2 DEF Current
  <2>4. ~stale' => OneWriter'
    BY <1>2, <2>1 DEF SaveExport, OneWriter, Writing
  <2>5. QED  BY <1>1, <2>3, <2>4
<1>3. CASE SaveOpen(t)
  <2>1. /\ save' = [save EXCEPT ![t].pc = "write"] /\ save[t].pc = "open"
        /\ stale' = stale /\ dropped' = dropped
    BY <1>3 DEF SaveOpen
  <2>2. \A u \in Saver : /\ save'[u].text = save[u].text
                         /\ Writing(u)' <=> Writing(u)
                         /\ save'[u].pc = "export" <=> save[u].pc = "export"
    BY <1>0, <2>1 DEF Writing, SaveType
  <2>3. Writing(t)
    BY <2>1 DEF Writing
  <2>4. ~stale' => OneWriter'
    BY <2>1, <2>2 DEF KInv, OneWriter
  <2>5. ~stale' => Current'
    BY <1>0, <2>1, <2>2, <2>3 DEF KInv, Current, Restores
  <2>6. QED  BY <1>1, <2>4, <2>5
<1>4. CASE SaveFail(t)
  BY <1>1, <1>4 DEF SaveFail
<1>5. CASE SaveWrite(t)
  <2>1. /\ save' = [save EXCEPT ![t] = Idle] /\ save[t].pc = "write"
        /\ file' = save[t].text /\ stale' = stale /\ dropped' = dropped
    BY <1>5 DEF SaveWrite
  <2>2. \A u \in Saver : u # t => save'[u] = save[u]
    BY <1>0, <2>1
  <2>3. Writing(t) /\ save'[t] = Idle /\ save'[t].pc = "idle"
    BY <1>0, <2>1, IdleSaver DEF Writing
  <2>4. ~stale' => OneWriter'
    BY <2>1, <2>2, <2>3 DEF KInv, OneWriter, Writing
  <2>5. ASSUME ~stale'  PROVE Current'
    <3>1. OneWriter /\ Current
      BY <2>1, <2>5 DEF KInv
    <3>2. CASE \E u \in Saver : save[u].pc = "export"
      BY <2>1, <2>2, <3>2 DEF Current
    <3>3. ASSUME NEW u \in Saver, Writing(u), Restores(save[u].text)  PROVE Current'
      <4>1. u = t
        BY <2>3, <3>1, <3>3 DEF OneWriter
      <4>2. Restores(file)'
        BY <1>0, <2>1, <3>3, <4>1 DEF Restores
      <4>3. \A w \in Saver : ~Writing(w)'
        BY <2>2, <2>3, <3>1 DEF OneWriter, Writing
      <4>4. QED  BY <4>2, <4>3 DEF Current
    <3>4. QED  BY <2>3, <3>1, <3>2, <3>3 DEF Current
  <2>6. QED  BY <1>1, <2>4, <2>5
<1>6. QED  BY <1>2, <1>3, <1>4, <1>5 DEF Save

(* A query is registered again without a save, or there is a save to come. *)
LEMMA RegisterKeeps ==
    ASSUME Typed, KInv, NEW d \in Dat, CheckRegister(d)
    PROVE  Agrees(qdb)' /\ (~stale' => (OneWriter /\ Current)')
<1>1. /\ qdb' = [qdb EXCEPT ![d] = "on"] /\ asked' = [asked EXCEPT ![d] = "on"]
      /\ file' = file /\ stale' = stale /\ dropped' = dropped /\ save["checker"] = Idle
      /\ save' = IF qdb[d] = "none" THEN [save EXCEPT !["checker"].pc = "export"] ELSE save
  BY DEF CheckRegister
<1>2. qdb \in [Dat -> {"none", "on", "off"}] /\ asked \in [Dat -> {"none", "on", "off"}]
      /\ save \in [Saver -> SaveType]
  BY DEF Typed, Tables, Queries
<1>3. /\ qdb'[d] = "on" /\ asked'[d] = "on"
      /\ \A c \in Dat : c # d => qdb'[c] = qdb[c] /\ asked'[c] = asked[c]
  BY <1>1, <1>2
<1>4. Agrees(qdb)'
  BY <1>3 DEF KInv, Agrees, Known
<1>5. CASE qdb[d] = "none"
  <2>1. save'["checker"].pc = "export" /\ \A t \in Saver : t # "checker" => save'[t] = save[t]
    BY <1>1, <1>2, <1>5, SaverNames DEF SaveType
  <2>2. Current'
    BY <2>1, SaverNames DEF Current
  <2>3. \A t \in Saver : Writing(t)' => Writing(t)
    BY <2>1 DEF Writing
  <2>4. QED  BY <1>1, <1>4, <2>2, <2>3 DEF KInv, OneWriter
<1>6. CASE qdb[d] # "none"
  <2>1. save' = save /\ asked[d] # "none"
    BY <1>1, <1>6 DEF KInv, Agrees, Known
  <2>2. Known(asked') = Known(asked)
    BY <1>3, <2>1 DEF Known
  <2>3. ASSUME NEW qs, Restores(qs)
        PROVE  /\ \E k \in Nat : Known(asked') = Known(Expire(qs, k))
               /\ Known(qs) \subseteq Known(asked') \cup dropped'
               /\ \A c \in Dat : asked'[c] = "off" => qs[c] = "off"
    BY <1>1, <1>3, <2>2, <2>3 DEF Restores
  <2>4. /\ \A t \in Saver : Restores(save[t].text) => Restores(save[t].text)'
        /\ Restores(file) => Restores(file)'
    BY <1>1, <2>1, <2>3 DEF Restores
  <2>5. \A t \in Saver : Writing(t)' <=> Writing(t)
    BY <2>1 DEF Writing
  <2>6. ~stale' => OneWriter'
    BY <1>1, <2>5 DEF KInv, OneWriter
  <2>7. ~stale' => Current'
    BY <1>1, <2>1, <2>4, <2>5 DEF KInv, Current
  <2>8. QED  BY <1>4, <2>6, <2>7
<1>7. QED  BY <1>5, <1>6

LEMMA ChangeKeeps ==
    ASSUME Typed, KInv, NEW a \in Admin, NEW d \in Dat, NEW q \in {"none", "on", "off"},
           Change(a, d, q)
    PROVE  Agrees(qdb)' /\ (~stale' => (OneWriter /\ Current)')
<1>1. /\ qdb' = [qdb EXCEPT ![d] = q] /\ asked' = [asked EXCEPT ![d] = q] /\ stale' = stale
      /\ save' = [save EXCEPT ![a].pc = "export"]
  BY DEF Change
<1>2. qdb \in [Dat -> {"none", "on", "off"}] /\ asked \in [Dat -> {"none", "on", "off"}]
      /\ save \in [Saver -> SaveType] /\ a \in Saver
  BY SaverNames DEF Typed, Tables, Queries
<1>3. /\ qdb'[d] = q /\ asked'[d] = q
      /\ \A c \in Dat : c # d => qdb'[c] = qdb[c] /\ asked'[c] = asked[c]
  BY <1>1, <1>2
<1>4. Agrees(qdb)'
  BY <1>3 DEF KInv, Agrees, Known
<1>5. save'[a].pc = "export" /\ \A t \in Saver : t # a => save'[t] = save[t]
  BY <1>1, <1>2 DEF SaveType
<1>6. Current'
  BY <1>2, <1>5 DEF Current
<1>7. \A t \in Saver : Writing(t)' => Writing(t)
  BY <1>5 DEF Writing
<1>8. QED  BY <1>1, <1>4, <1>6, <1>7 DEF KInv, OneWriter

LEMMA SetLimitKeeps ==
    ASSUME Typed, KInv, SetLimit
    PROVE  Agrees(qdb)' /\ (~stale' => (OneWriter /\ Current)')
<1>1. /\ qdb' = Expire(qdb, limit) /\ save' = save /\ file' = file /\ stale' = stale
      /\ dropped' = dropped \cup (Known(qdb) \ Known(qdb'))
      /\ asked' = [d \in Dat |-> IF qdb'[d] = "none" THEN "none" ELSE asked[d]]
  BY DEF SetLimit
<1>2. Known(asked) = Known(qdb) /\ \A d \in Dat : asked[d] = "off" => qdb[d] = "off"
  BY DEF KInv, Agrees
<1>3. Known(qdb') \subseteq Known(qdb) /\ \A d \in Known(qdb') : qdb'[d] = qdb[d]
  BY <1>1, ExpireKnown
<1>4. Known(asked') = Known(qdb')
  BY <1>1, <1>2, <1>3 DEF Known
<1>5. \A d \in Dat : asked'[d] = "off" => d \in Known(qdb') /\ asked[d] = "off"
  BY <1>1 DEF Known
<1>6. Agrees(qdb)'
  BY <1>2, <1>3, <1>4, <1>5 DEF Agrees
<1>7. Known(asked') = Known(Expire(asked, limit))
  BY <1>1, <1>2, <1>4, ExpireSame
<1>8. ASSUME NEW qs, Restores(qs)
      PROVE  /\ \E k \in Nat : Known(asked') = Known(Expire(qs, k))
             /\ Known(qs) \subseteq Known(asked') \cup dropped'
             /\ \A d \in Dat : asked'[d] = "off" => qs[d] = "off"
  <2>1. PICK k \in Nat : Known(asked) = Known(Expire(qs, k))
    BY <1>8 DEF Restores
  <2>2. limit \in Nat /\ Least(k, limit) \in Nat
    BY QueryStoreAssumption, LeastType DEF Typed
  <2>3. Known(asked') = Known(Expire(qs, Least(k, limit)))
    <3>1. Known(Expire(asked, limit)) = Known(Expire(Expire(qs, k), limit))
      BY <2>1, ExpireSame
    <3>2. QED  BY <1>7, <2>2, <3>1, ExpireTwice
  <2>4. Known(qs) \subseteq Known(asked') \cup dropped'
    BY <1>1, <1>2, <1>4, <1>8 DEF Restores
  <2>5. \A d \in Dat : asked'[d] = "off" => qs[d] = "off"
    BY <1>5, <1>8 DEF Restores
  <2>6. QED  BY <2>2, <2>3, <2>4, <2>5
<1>9. \A t \in Saver : Writing(t)' <=> Writing(t)
  BY <1>1 DEF Writing
<1>10. ~stale' => OneWriter'
  BY <1>1, <1>9 DEF KInv, OneWriter
<1>11. ~stale' => Current'
  <2>1. \A t \in Saver : Restores(save[t].text) => Restores(save[t].text)'
    BY <1>1, <1>8 DEF Restores
  <2>2. Restores(file) => Restores(file)'
    BY <1>1, <1>8 DEF Restores
  <2>3. QED  BY <1>1, <1>9, <2>1, <2>2 DEF KInv, Current
<1>12. QED  BY <1>6, <1>10, <1>11

(* The program falls: when nobody was saving the file is good. *)
LEMMA FallenKeeps ==
    ASSUME Typed, KInv, Fallen
    PROVE  Agrees(qdb)' /\ (~stale' => (OneWriter /\ Current)')
<1>1. /\ qdb' = qdb /\ asked' = asked /\ file' = file /\ dropped' = dropped
      /\ \A t \in Saver : save'[t] = Idle
      /\ ~stale' => ~stale /\ \A t \in Saver : save[t] = Idle
  BY DEF Fallen
<1>2. Agrees(qdb)'
  BY <1>1 DEF KInv, Agrees
<1>3. \A t \in Saver : ~Writing(t)'
  BY <1>1, IdleSaver DEF Writing
<1>4. ASSUME ~stale'  PROVE Restores(file)'
  <2>1. Current /\ \A t \in Saver : ~Writing(t) /\ save[t].pc # "export"
    BY <1>1, <1>4, IdleSaver DEF KInv
  <2>2. QED  BY <1>1, <2>1 DEF Current, Restores
<1>5. QED  BY <1>2, <1>3, <1>4 DEF OneWriter, Current

(* The program starts again and loads the file. *)
LEMMA StartKeeps ==
    ASSUME Typed, KInv, Start
    PROVE  Agrees(qdb)' /\ (~stale' => (OneWriter /\ Current)')
<1>1. /\ qdb' = Loaded(file) /\ file' = file /\ save' = save /\ phase = "ended"
      /\ dropped' = Known(file) \ Known(qdb')
      /\ asked' = IF stale THEN qdb'
                  ELSE [d \in Dat |-> IF d \in Known(Loaded(asked)) THEN asked[d]
                                      ELSE IF d \in dropped THEN qdb'[d] ELSE "none"]
  BY DEF Start
<1>2. \A t \in Saver : save[t] = Idle
  BY <1>1, NobodySaves DEF KInv
<1>3. \A t \in Saver : ~Writing(t) /\ save[t].pc # "export" /\ ~Writing(t)'
  BY <1>1, <1>2, IdleSaver DEF Writing
<1>4. Known(qdb') \subseteq Known(file) /\ \A d \in Known(qdb') : qdb'[d] = file[d]
  <2> DEFINE loaded == Expire(file, DefaultLimit)
  <2>1. qdb' = Expire(loaded, limit)
    BY <1>1 DEF Loaded
  <2>2. Known(loaded) \subseteq Known(file) /\ \A d \in Known(loaded) : loaded[d] = file[d]
    BY ExpireKnown
  <2> HIDE DEF loaded
  <2>3. Known(qdb') \subseteq Known(loaded) /\ \A d \in Known(qdb') : qdb'[d] = loaded[d]
    BY <2>1, ExpireKnown
  <2>4. QED  BY <2>2, <2>3
<1>5. \E k \in Nat : Known(qdb') = Known(Expire(file, k))
  <2>1. DefaultLimit \in Nat /\ limit \in Nat
    BY QueryStoreAssumption DEF Typed
  <2>2. QED  BY <1>1, <2>1, ExpireTwice, LeastType DEF Loaded
<1>6. Agrees(qdb)' /\ \A d \in Dat : asked'[d] = "off" => file[d] = "off"
  <2>1. CASE stale
    <3>1. asked' = qdb'
      BY <1>1, <2>1
    <3>2. QED  BY <1>4, <3>1 DEF Agrees, Known
  <2>2. CASE ~stale
    <3>1. Restores(file)
      BY <1>3, <2>2 DEF KInv, Current
    <3>2. /\ Known(Loaded(asked)) \subseteq Known(asked)
          /\ Known(Loaded(asked)) \subseteq Known(qdb')
          /\ Known(qdb') \subseteq Known(Loaded(asked)) \cup dropped
      BY <1>1, <3>1, LoadedNearest
    <3> DEFINE ks == Known(Loaded(asked))
    <3>3. asked' = [d \in Dat |-> IF d \in ks THEN asked[d]
                                  ELSE IF d \in dropped THEN qdb'[d] ELSE "none"]
      BY <1>1, <2>2
    <3> HIDE DEF ks
    <3>4. \A d \in Dat : asked'[d] # "none" <=> qdb'[d] # "none"
      BY <3>2, <3>3 DEF Known, ks
    <3>5. Known(asked') = Known(qdb')
      BY <3>4 DEF Known
    <3>6. \A d \in Dat : asked'[d] = "off" => file[d] = "off" /\ qdb'[d] = "off"
      <4> TAKE d \in Dat
      <4>1. asked'[d] = "off" => asked[d] = "off" \/ qdb'[d] = "off"
        BY <3>3
      <4>2. asked[d] = "off" => file[d] = "off"
        BY <3>1 DEF Restores
      <4>3. asked'[d] = "off" => d \in Known(qdb')
        BY <3>5 DEF Known
      <4>4. QED  BY <1>4, <4>1, <4>2, <4>3
    <3>7. QED  BY <3>5, <3>6 DEF Agrees
  <2>3. QED  BY <2>1, <2>2
<1>7. Restores(file)'
  BY <1>1, <1>4, <1>5, <1>6 DEF Restores, Agrees
<1>8. QED  BY <1>3, <1>6, <1>7 DEF OneWriter, Current

(* Nothing of it changes, or a save is to come at the end. *)
LEMMA OthersKeep ==
    ASSUME Typed, KInv, UNCHANGED <<qdb, file, asked, stale, dropped>>,
           save' = save \/ save' = [save EXCEPT !["final"].pc = "export"]
    PROVE  Agrees(qdb)' /\ (~stale' => (OneWriter /\ Current)')
<1>1. Agrees(qdb)'
  BY DEF KInv, Agrees
<1>2. CASE save' = save
  BY <1>1, <1>2 DEF KInv, OneWriter, Current, Writing, Restores
<1>3. CASE save' = [save EXCEPT !["final"].pc = "export"]
  <2>1. save'["final"].pc = "export" /\ \A t \in Saver : t # "final" => save'[t] = save[t]
    BY <1>3, SaverNames DEF Typed, SaveType
  <2>2. Current'
    BY <2>1, SaverNames DEF Current
  <2>3. \A t \in Saver : Writing(t)' => Writing(t)
    BY <2>1 DEF Writing
  <2>4. QED  BY <1>1, <2>2, <2>3 DEF KInv, OneWriter
<1>4. QED  BY <1>2, <1>3

(* The invariant holds always. *)
LEMMA KeptInvariance == Spec => []KInv
<1>1. Init => KInv
  <2> SUFFICES ASSUME Init  PROVE KInv
    OBVIOUS
  <2>1. Agrees(qdb) /\ Restores(file)
    <3>1. \E k \in Nat : Known(asked) = Known(Expire(file, k))
      BY ExpireNothing DEF Init
    <3>2. QED  BY <3>1 DEF Init, Agrees, Restores, Known, NoQueries
  <2>2. \A t \in Saver : save[t] = Idle
    BY DEF Init
  <2>3. Savers
    BY <2>2, SaverNames DEF Init, Savers
  <2>4. QED  BY <2>1, <2>2, <2>3, IdleSaver DEF KInv, OneWriter, Current
<1>2. Typed /\ KInv /\ [Next]_vars => KInv'
  <2> SUFFICES ASSUME Typed, KInv, [Next]_vars
               PROVE  Agrees(qdb)' /\ (~stale' => (OneWriter /\ Current)')
    BY SaversKept DEF KInv
  <2>1. ASSUME NEW t \in Saver, Save(t) \/ SaveFail(t)
        PROVE  Agrees(qdb)' /\ (~stale' => (OneWriter /\ Current)')
    BY <2>1, SaveKeeps
  <2>2. ASSUME NEW d \in Dat, CheckRegister(d)
        PROVE  Agrees(qdb)' /\ (~stale' => (OneWriter /\ Current)')
    BY <2>2, RegisterKeeps
  <2>3. ASSUME NEW a \in Admin, NEW d \in Dat,
               AdminAdd(a, d) \/ AdminDelete(a, d) \/ AdminActivate(a, d) \/ AdminDeactivate(a, d)
        PROVE  Agrees(qdb)' /\ (~stale' => (OneWriter /\ Current)')
    BY <2>3, ChangeKeeps DEF AdminAdd, AdminDelete, AdminActivate, AdminDeactivate
  <2>4. CASE SetLimit
    BY <2>4, SetLimitKeeps
  <2>5. CASE UseAfterDelete \/ Crash
    BY <2>5, FallenKeeps DEF UseAfterDelete, Crash
  <2>6. CASE Start
    BY <2>6, StartKeeps
  <2>7. ASSUME \/ \E d \in Dat : Add(d) \/ Remove(d) \/ FiveSeconds(d) \/ CheckSkip(d)
               \/ CheckStart \/ CheckEnd \/ CheckStop
               \/ \E n \in Limits : StoreSettings(n)
               \/ Stop \/ Saved \/ DeleteQueryDB \/ DeleteLagQueryQueue \/ End
               \/ UNCHANGED vars
        PROVE  Agrees(qdb)' /\ (~stale' => (OneWriter /\ Current)')
    BY <2>7, OthersKeep
       DEF Add, Remove, FiveSeconds, CheckSkip, CheckStart, CheckEnd, CheckStop, StoreSettings, Stop, Saved,
           DeleteQueryDB, DeleteLagQueryQueue, End, vars
  <2>8. QED  BY <2>1, <2>2, <2>3, <2>4, <2>5, <2>6, <2>7 DEF Next, Check
<1>3. QED  BY <1>1, <1>2, TypesHold, PTL DEF Spec

(* For any limits, in any order: whatever the order of the saves, and      *)
(* through ends, crashes and restarts, the user finds the queries that     *)
(* were registered, not deleted and not dropped over a limit (at a start:  *)
(* also over DEFAULT_LIMIT, under which Query.xml is loaded), and no       *)
(* others, but for those that were lost with a stale file and those that   *)
(* a limit had dropped and that are still in the file.                     *)
THEOREM QueriesKept == Spec => []Kept
<1>1. KInv => Kept
  BY DEF KInv, Agrees, Kept
<1>2. QED  BY <1>1, KeptInvariance, PTL

(* A query that was switched off stays off until the user or a visit       *)
(* switches it on, though the file is not written when a visit does.       *)
THEOREM OffQueriesStayOff == Spec => []StaysOff
<1>1. KInv => StaysOff
  BY DEF KInv, Agrees, StaysOff
<1>2. QED  BY <1>1, KeptInvariance, PTL
=============================================================================
