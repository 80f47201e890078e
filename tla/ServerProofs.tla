---------------------------- MODULE ServerProofs ----------------------------
(***************************************************************************)
(* Proofs about Server, for any set of session addresses, any finite set   *)
(* of filtering threads, any limits and any number of restarts.            *)
(*                                                                         *)
(* Who owns a session decides everything else: a session that ListenThread *)
(* or a filtering thread holds is as it was made, one in the map has been  *)
(* accepted or turned away, and only a session in the map is given to a    *)
(* parse thread.  What Stop leaves in the map follows from the phases of   *)
(* Active, NetIOThread and the caller of Stop.                             *)
(***************************************************************************)
EXTENDS Server, FiniteSetTheorems, TLAPS

USE ServerAssumption

(* IPFilteringThreadCount is the number of the threads between the two    *)
(* assignments to it.                                                      *)
CountedThreads == {t \in Thread : filter[t].pc \in {"lookup", "insert", "signal", "log", "exit"}}
Counted == filterCount = Cardinality(CountedThreads)

(* What ListenThread and NetIOThread have in their hands, and when. *)
Hands ==
    /\ accepted # NoSession <=> listen \in {"count", "decide"}
    /\ hand # NoSession <=> netio = "close"

Cursor == CursorValid /\ (cursor = NoSession => ahead = {})

(* NetIOThread ends only while the server is not active, and is not there  *)
(* from the join to the next Start.                                        *)
Phases ==
    /\ active <=> stop \in {"run", "start"}
    /\ netio \in {"end", "endscan", "endwait"} => ~active
    /\ netio = "done" => ~active \/ stop = "start"
    /\ stop \in {"poll", "stopped", "start"} => listen = "done" /\ netio = "done"

(* A session that is not in the map yet is as operator new made it. *)
Fresh ==
    /\ accepted # NoSession => ss[accepted] = NewSession
    /\ \A t \in Thread : Holds(t) => ss[filter[t].ss] = NewSession

(* The reply to a request is made after the request, and by its thread. *)
Replies(o, p) ==
    /\ o.io # "none"
    /\ p # "none" => o.io = "send" /\ (o.active \/ o.error)
    /\ p \in {"show", "finish"} => o.reply # "none"
    /\ o.io = "send" /\ p = "none" => o.reply # "none"
    /\ o.io = "send" /\ ~o.active /\ ~o.error => o.reply = "sent"
    /\ o.limited => o.io = "send" /\ p = "none"
    /\ p = "none" <=> o.canDelete
    /\ o.timer = "unset" => o.limited

Served ==
    /\ \A s \in Listed : Replies(ss[s], parse[s])
    /\ hand # NoSession => Replies(ss[hand], parse[hand])
    /\ \A s \in Session : parse[s] # "none" => s \in Listed

(* A session that ended before its request was received is deleted before  *)
(* NetIOThread looks at another, so that no request is received on it.     *)
Judged ==
    \A s \in Listed :
        ss[s].io = "recv" /\ ~ss[s].active => netio = "delete" /\ cursor = s

(* While the server is down, only a session turned away is in the map. *)
Emptied == netio = "done" /\ ~active => \A s \in sss : ss[s].limited

(* NetIOThread has erased a session for one of two reasons. *)
Dismissed == hand # NoSession => ~ss[hand].active \/ TimedOut(ss[hand])

Owners == OneOwner /\ Fresh /\ Served

IInv ==
    /\ TypeOK /\ Counted /\ Hands /\ Cursor /\ Phases
    /\ Owners /\ Judged /\ Emptied /\ Dismissed

-----------------------------------------------------------------------------
(* The session objects stay in their type through every change the code    *)
(* makes to one of them.                                                   *)
LEMMA SessionTypes ==
    /\ NewSession \in SessionObject /\ Deleted \in SessionObject
    /\ \A o \in SessionObject :
          /\ Deactivated(o) \in SessionObject
          /\ Broken(o) \in SessionObject
          /\ Closed(o) \in SessionObject
          /\ Accepted(o) \in SessionObject
          /\ Limited(o) \in SessionObject
          /\ Requested(o) \in SessionObject
          /\ OnSend(o) \in SessionObject
          /\ Moved(o) \in SessionObject
          /\ Broken([o EXCEPT !.timer = "fresh"]) \in SessionObject
          /\ OnSend([o EXCEPT !.timer = "fresh", !.reply = "sent"]) \in SessionObject
          /\ [o EXCEPT !.reply = "unsent"] \in SessionObject
          /\ [o EXCEPT !.canDelete = TRUE] \in SessionObject
          /\ [o EXCEPT !.timer = "old"] \in SessionObject
<1>1. NewSession \in SessionObject
  BY DEF NewSession, SessionObject
<1>2. Deleted \in SessionObject
  BY <1>1 DEF Deleted, SessionObject
<1>3. ASSUME NEW o \in SessionObject
      PROVE  /\ Deactivated(o) \in SessionObject
             /\ Broken(o) \in SessionObject
             /\ Closed(o) \in SessionObject
             /\ Accepted(o) \in SessionObject
             /\ Limited(o) \in SessionObject
             /\ Requested(o) \in SessionObject
  BY DEF SessionObject, Deactivated, Broken, Closed, Accepted, Limited, Requested
<1>4. ASSUME NEW o \in SessionObject
      PROVE  /\ [o EXCEPT !.reply = "unsent"] \in SessionObject
             /\ [o EXCEPT !.canDelete = TRUE] \in SessionObject
             /\ [o EXCEPT !.timer = "old"] \in SessionObject
             /\ [o EXCEPT !.timer = "fresh"] \in SessionObject
             /\ [o EXCEPT !.timer = "fresh", !.reply = "sent"] \in SessionObject
  BY DEF SessionObject
<1>5. ASSUME NEW o \in SessionObject PROVE OnSend(o) \in SessionObject
  BY <1>3 DEF OnSend
<1>6. ASSUME NEW o \in SessionObject PROVE Moved(o) \in SessionObject
  BY DEF SessionObject, Moved
<1> QED BY <1>1, <1>2, <1>3, <1>4, <1>5, <1>6

(* What a part of a transfer leaves alone.                                 *)
LEMMA TransferFields ==
    ASSUME NEW o \in SessionObject
    PROVE  \A r \in {o, Broken(o), Moved(o), Deactivated(o), Broken([o EXCEPT !.timer = "fresh"])} :
               /\ r.io = o.io /\ r.limited = o.limited
               /\ r.reply = o.reply /\ r.canDelete = o.canDelete
               /\ r.timer = "unset" => o.timer = "unset"
<1>1. /\ Broken(o).io = o.io /\ Broken(o).limited = o.limited
      /\ Broken(o).reply = o.reply /\ Broken(o).canDelete = o.canDelete
      /\ Broken(o).timer = "unset" => o.timer = "unset"
  BY DEF SessionObject, Broken
<1>2. /\ Moved(o).io = o.io /\ Moved(o).limited = o.limited
      /\ Moved(o).reply = o.reply /\ Moved(o).canDelete = o.canDelete
      /\ Moved(o).timer = "unset" => o.timer = "unset"
  BY DEF SessionObject, Moved
<1>3. /\ Deactivated(o).io = o.io /\ Deactivated(o).limited = o.limited
      /\ Deactivated(o).reply = o.reply /\ Deactivated(o).canDelete = o.canDelete
      /\ Deactivated(o).timer = "unset" => o.timer = "unset"
  BY DEF SessionObject, Deactivated
<1>4. ASSUME NEW r, r = Broken([o EXCEPT !.timer = "fresh"])
      PROVE  /\ r.io = o.io /\ r.limited = o.limited
             /\ r.reply = o.reply /\ r.canDelete = o.canDelete
             /\ r.timer = "unset" => o.timer = "unset"
  BY <1>4 DEF SessionObject, Broken
<1> QED BY <1>1, <1>2, <1>3, <1>4

(* What a session in the map goes through keeps it in order; an object at  *)
(* which a transfer or a parse thread has worked is not a deleted one.     *)
LEMMA OneTransfer ==
    ASSUME NEW o \in SessionObject, NEW p \in ParsePc, Replies(o, p),
           o.io = "recv" => o.active,
           NEW q \in IF o.io = "recv" THEN Received(o) ELSE Sent(o)
    PROVE  /\ q \in SessionObject
           /\ q.limited = o.limited
           /\ q.io # "none"
           /\ Replies(q, IF q.io # o.io THEN "parse" ELSE p)
<1> USE DEF ParsePc, Replies
<1>1. q \in SessionObject
  BY SessionTypes DEF Received, Sent
<1>2. CASE o.io = "recv"
  <2>1. p = "none"
    BY <1>2
  <2>2. q \in Received(o)
    BY <1>2
  <2>3. CASE q \in {o, Broken(o), Moved(o), Deactivated(o), Broken([o EXCEPT !.timer = "fresh"])}
    <3>1. /\ q.io = o.io /\ q.limited = o.limited
          /\ q.reply = o.reply /\ q.canDelete = o.canDelete
          /\ q.timer = "unset" => o.timer = "unset"
      BY <2>3, TransferFields
    <3> QED BY <1>1, <1>2, <2>1, <3>1
  <2>4. CASE q = Requested(o)
    BY <1>1, <1>2, <2>1, <2>4 DEF SessionObject, Requested
  <2> QED BY <2>2, <2>3, <2>4 DEF Received
<1>3. CASE o.io = "send"
  <2>1. q \in Sent(o)
    BY <1>3
  <2>2. CASE q \in {o, Broken(o), Moved(o)}
    <3>1. /\ q.io = o.io /\ q.limited = o.limited
          /\ q.reply = o.reply /\ q.canDelete = o.canDelete
          /\ q.timer = "unset" => o.timer = "unset"
          /\ q.error \/ (q.active = o.active /\ q.error = o.error)
      <4>1. CASE q = o
        BY <4>1
      <4>2. CASE q = Broken(o)
        BY ONLY o \in SessionObject, <4>2 DEF SessionObject, Broken
      <4>3. CASE q = Moved(o)
        BY ONLY o \in SessionObject, <4>3 DEF SessionObject, Moved
      <4> QED BY <2>2, <4>1, <4>2, <4>3
    <3> QED BY <1>1, <1>3, <3>1
  <2>3. CASE o.reply # "unsent" /\ q = OnSend(o)
    BY <1>1, <1>3, <2>3 DEF SessionObject, OnSend, Deactivated
  <2>4. CASE q = OnSend([o EXCEPT !.timer = "fresh", !.reply = "sent"])
    BY <1>1, <1>3, <2>4 DEF SessionObject, OnSend, Deactivated
  <2> QED BY <2>1, <2>2, <2>3, <2>4 DEF Sent
<1> QED BY <1>1, <1>2, <1>3 DEF SessionObject

LEMMA Objects ==
    /\ NewSession # Deleted
    /\ Deleted.io = "none" /\ NewSession.io = "none" /\ NewSession.canDelete
    /\ NewSession.timer = "unset" /\ Deleted.timer = "unset"
    /\ Replies(Accepted(NewSession), "none") /\ Accepted(NewSession).io = "recv"
    /\ Accepted(NewSession).active
    /\ Replies(Limited(NewSession), "none") /\ Limited(NewSession).limited
    /\ Limited(NewSession).io = "send"
    /\ \A o \in SessionObject :
          /\ Closed(o).io = o.io /\ Closed(o).limited = o.limited
          /\ Closed(o).active = o.active
          /\ \A p \in ParsePc : Replies(o, p) => Replies(Closed(o), p)
<1>1. /\ NewSession.io = "none" /\ NewSession.canDelete /\ NewSession.timer = "unset"
      /\ NewSession.open /\ ~NewSession.limited /\ NewSession.reply = "none"
  BY DEF NewSession
<1>2. Deleted.io = "none" /\ Deleted.timer = "unset" /\ ~Deleted.open
  BY SessionTypes DEF Deleted, NewSession
<1>3. /\ Replies(Accepted(NewSession), "none") /\ Accepted(NewSession).io = "recv"
      /\ Accepted(NewSession).active
  BY DEF Accepted, Replies, NewSession
<1>4. /\ Replies(Limited(NewSession), "none") /\ Limited(NewSession).limited
      /\ Limited(NewSession).io = "send"
  BY DEF Limited, Replies, NewSession
<1>5. ASSUME NEW o \in SessionObject
      PROVE  /\ Closed(o).io = o.io /\ Closed(o).limited = o.limited
             /\ Closed(o).active = o.active
             /\ \A p \in ParsePc : Replies(o, p) => Replies(Closed(o), p)
  BY DEF Closed, SessionObject, Replies, ParsePc
<1>6. NewSession # Deleted
  BY <1>1, <1>2
<1> QED BY <1>1, <1>2, <1>3, <1>4, <1>5, <1>6

LEMMA FilterMoves ==
    ASSUME TypeOK, NEW t \in Thread, filter[t].pc # "idle", NEW pc \in FilterPc,
           filter' = [filter EXCEPT ![t].pc = pc]
    PROVE  /\ filter[t].ss \in Session
           /\ filter' \in [Thread -> FilterState]
           /\ filter'[t].pc = pc /\ filter'[t].ss = filter[t].ss
           /\ \A u \in Thread \ {t} : filter'[u] = filter[u]
<1>1. /\ filter[t] \in [pc : FilterPc, ss : Session]
      /\ filter \in [Thread -> FilterState]
  BY DEF TypeOK, FilterState
<1>2. [filter[t] EXCEPT !.pc = pc] \in [pc : FilterPc, ss : Session]
  BY <1>1
<1>3. filter' = [filter EXCEPT ![t] = [filter[t] EXCEPT !.pc = pc]]
  BY <1>1
<1> QED BY <1>1, <1>2, <1>3 DEF FilterState

LEMMA FilterEnds ==
    ASSUME TypeOK, NEW t \in Thread, NEW s \in Session,
           \/ filter' = [filter EXCEPT ![t] = [pc |-> "start", ss |-> s]]
           \/ filter' = [filter EXCEPT ![t] = [pc |-> "idle", ss |-> NoSession]]
    PROVE  filter' \in [Thread -> FilterState]
<1>1. {[pc |-> "start", ss |-> s], [pc |-> "idle", ss |-> NoSession]} \subseteq FilterState
  BY DEF FilterState, FilterPc
<1> QED BY <1>1 DEF TypeOK

-----------------------------------------------------------------------------
LEMMA InitInv == Init => IInv
<1> SUFFICES ASSUME Init PROVE IInv
  OBVIOUS
<1>1. TypeOK
  <2>1. starts \in 1..MaxStarts
    BY DEF Init
  <2> QED BY <2>1, SessionTypes DEF Init, TypeOK, FilterState, NetIOPc, ParsePc
<1>2. Counted
  <2>1. CountedThreads = {}
    BY DEF CountedThreads, Init
  <2> QED BY <2>1, FS_EmptySet DEF Counted, Init
<1>3. Hands /\ Cursor /\ Phases /\ Emptied
  BY DEF Init, Hands, Cursor, CursorValid, Phases, Emptied
<1>4. Owners /\ Judged /\ Dismissed
  BY DEF Init, Owners, Dismissed, OneOwner, Fresh, Served, Judged, Listed, MapLockFree, Alive, Holds
<1> QED BY <1>1, <1>2, <1>3, <1>4 DEF IInv

(* A filtering thread is counted once it has counted itself and until it   *)
(* has uncounted itself.                                                   *)
LEMMA CountStep ==
    ASSUME TypeOK, Counted, [Next]_vars PROVE filterCount' \in Nat /\ Counted'
<1> USE DEF Counted, filterVars
<1>1. IsFiniteSet(CountedThreads) /\ filterCount \in Nat
  BY FS_Subset, FS_CardinalityType DEF CountedThreads
<1>2. ASSUME CountedThreads' = CountedThreads, filterCount' = filterCount
      PROVE  filterCount' \in Nat /\ Counted'
  BY <1>1, <1>2
<1>3. ASSUME NEW t \in Thread, ListenSpawn(t) PROVE filterCount' \in Nat /\ Counted'
  <2>1. CountedThreads' = CountedThreads
    BY <1>3 DEF ListenSpawn, CountedThreads, TypeOK
  <2> QED BY <1>2, <1>3, <2>1 DEF ListenSpawn
<1>4. ASSUME NEW t \in Thread, FilterDeny(t) \/ FilterPass(t) \/ FilterInsert(t)
             \/ FilterSignal(t)
      PROVE  filterCount' \in Nat /\ Counted'
  <2>1. PICK pc \in {"insert", "signal", "log", "exit"} : filter' = [filter EXCEPT ![t].pc = pc]
    BY <1>4 DEF FilterDeny, FilterPass, FilterInsert, FilterSignal
  <2>2. filter[t].pc \in {"lookup", "insert", "signal"} /\ filterCount' = filterCount
    BY <1>4 DEF FilterDeny, FilterPass, FilterInsert, FilterSignal
  <2>3. filter'[t].pc = pc /\ \A u \in Thread \ {t} : filter'[u] = filter[u]
    BY <2>1, <2>2, FilterMoves DEF FilterPc
  <2> QED BY <1>2, <2>2, <2>3 DEF CountedThreads
<1>5. ASSUME NEW t \in Thread, FilterStart(t) \/ FilterExit(t)
      PROVE  filterCount' \in Nat /\ Counted'
  <2>1. CASE FilterStart(t)
    <3>1. filter'[t].pc = "lookup" /\ \A u \in Thread \ {t} : filter'[u] = filter[u]
      BY <2>1, FilterMoves DEF FilterStart, FilterPc
    <3>2. CountedThreads' = CountedThreads \cup {t} /\ t \notin CountedThreads
      BY <2>1, <3>1 DEF FilterStart, CountedThreads
    <3>3. Cardinality(CountedThreads') = Cardinality(CountedThreads) + 1
      BY <1>1, <3>2, FS_AddElement
    <3> QED BY <1>1, <2>1, <3>3 DEF FilterStart
  <2>2. CASE FilterExit(t)
    <3>1. CountedThreads' = CountedThreads \ {t} /\ t \in CountedThreads
      BY <2>2 DEF FilterExit, CountedThreads, TypeOK
    <3>2. /\ Cardinality(CountedThreads') = Cardinality(CountedThreads) - 1
          /\ Cardinality(CountedThreads') \in Nat
      BY <1>1, <3>1, FS_RemoveElement, FS_CardinalityType
    <3> QED BY <1>1, <2>2, <3>2 DEF FilterExit
  <2> QED BY <1>5, <2>1, <2>2
<1>6. ASSUME UNCHANGED <<filter, filterCount>> PROVE filterCount' \in Nat /\ Counted'
  BY <1>2, <1>6 DEF CountedThreads
<1>7. CASE ListenCheck \/ ListenAccept \/ ListenCount \/ ListenLimit \/ ListenQuit \/ ListenEnd
  BY <1>6, <1>7 DEF ListenCheck, ListenAccept, ListenCount, ListenLimit, ListenQuit, ListenEnd
<1>8. ASSUME NEW s \in Session, Parse(s) \/ Expire(s)
      PROVE  filterCount' \in Nat /\ Counted'
  BY <1>6, <1>8 DEF Parse, ParseReply, ParseShow, ParseDone, Expire
<1>9. CASE NetIO
  BY <1>6, <1>9 DEF NetIO, NetIOCheck, NetIOReset, NetIOWake, NetIOSelect, NetIOBegin, NetIOScan,
     NetIOTransfer, NetIODelete, NetIOClose, NetIONext, NetIOEnd, NetIOEndClose,
     NetIOEndDelete, NetIOEndClear
<1>10. CASE StopBegin \/ StopSteps \/ StartBegin \/ StartThreads
  BY <1>6, <1>10 DEF StopBegin, StopSteps, StopCloseSockets, StopSignal, StopJoin, StopPoll,
     StartBegin, StartThreads
<1>11. CASE UNCHANGED vars
  BY <1>6, <1>11 DEF vars
<1>12. ASSUME NEW t \in Thread, Filter(t) PROVE filterCount' \in Nat /\ Counted'
  BY <1>4, <1>5, <1>12 DEF Filter
<1>13. CASE Listen
  BY <1>3, <1>7, <1>13 DEF Listen
<1> QED BY <1>8, <1>9, <1>10, <1>11, <1>12, <1>13 DEF Next

LEMMA Inserted ==
    ASSUME NEW s \in Session, Insert(s)
    PROVE  /\ sss' = sss \cup {s}
           /\ ahead' \subseteq ahead \cup {s} /\ ahead \subseteq ahead'
           /\ cursor = NoSession => ahead' = ahead
BY DEF Insert

(* A step keeps the types. *)
LEMMA TypeStep ==
    ASSUME TypeOK, Counted, Hands, Cursor, Owners, Judged, [Next]_vars PROVE TypeOK'
<1>0. filterCount' \in Nat
  BY CountStep
<1>1. /\ ss \in [Session -> SessionObject]
      /\ \A s \in Session : ss[s] \in SessionObject
      /\ accepted # NoSession => accepted \in Session
      /\ cursor # NoSession => cursor \in Session
      /\ hand # NoSession => hand \in Session
  BY DEF TypeOK
<1>2. ASSUME NEW S \in SUBSET Session, MoveCursor(S)
      PROVE  cursor' \in Session \cup {NoSession} /\ ahead' \subseteq Session
  BY <1>2 DEF MoveCursor
<1>3. CASE ListenCheck \/ ListenCount \/ ListenEnd
  <2>1. full' \in BOOLEAN
    <3>1. CASE ListenCount
      <4>1. (Cardinality(sss) >= SessionLimit) \in BOOLEAN
        OBVIOUS
      <4> QED BY ONLY <3>1, <4>1 DEF ListenCount
    <3>2. CASE ListenCheck \/ ListenEnd
      BY <3>2 DEF TypeOK, ListenCheck, ListenEnd
    <3> QED BY <1>3, <3>1, <3>2
  <2>2. listen' \in {"check", "select", "count", "decide", "end", "done"}
    BY <1>3 DEF ListenCheck, ListenCount, ListenEnd
  <2>3. UNCHANGED <<active, sss, sessionSignal, ss, parse, accepted, filterVars, netioVars, stopVars>>
    BY <1>3 DEF ListenCheck, ListenCount, ListenEnd
  <2> QED BY ONLY TypeOK, <2>1, <2>2, <2>3 DEF TypeOK, filterVars, netioVars, stopVars
<1>4. CASE ListenAccept \/ ListenQuit
  <2>1. ss' \in [Session -> SessionObject] /\ accepted' \in Session \cup {NoSession}
    <3>1. CASE ListenAccept
      BY <1>1, <3>1, SessionTypes DEF TypeOK, ListenAccept
    <3>2. CASE ListenQuit
      BY <1>1, <3>2, SessionTypes DEF ListenQuit
    <3> QED BY <1>4, <3>1, <3>2
  <2>2. /\ listen' \in {"check", "select", "count", "decide", "end", "done"} /\ full' \in BOOLEAN
        /\ UNCHANGED <<active, sss, sessionSignal, parse, filterVars, netioVars, stopVars>>
    BY <1>4 DEF TypeOK, ListenAccept, ListenQuit
  <2> QED BY ONLY TypeOK, <2>1, <2>2 DEF TypeOK, filterVars, netioVars, stopVars
<1>5. CASE ListenLimit
  <2>1. accepted \in Session
    BY <1>1, <1>5 DEF Hands, ListenLimit
  <2>2. ss' \in [Session -> SessionObject]
    BY <1>1, <1>5, <2>1, SessionTypes DEF ListenLimit
  <2>3. sss' \subseteq Session /\ ahead' \subseteq Session
    BY <1>5, <2>1, Inserted DEF TypeOK, ListenLimit
  <2>4. /\ listen' = "check" /\ accepted' = NoSession /\ full' = FALSE
        /\ UNCHANGED <<active, sessionSignal, parse, filterVars, netio, fds, cursor, hand,
                       stopVars>>
    BY <1>5 DEF ListenLimit
  <2> QED BY ONLY TypeOK, <2>2, <2>3, <2>4 DEF TypeOK, filterVars, stopVars
<1>6. ASSUME NEW t \in Thread, ListenSpawn(t) PROVE TypeOK'
  <2>1. accepted \in Session
    BY <1>1, <1>6 DEF Hands, ListenSpawn
  <2>2. filter' \in [Thread -> FilterState]
    BY <1>6, <2>1, FilterEnds DEF ListenSpawn
  <2> QED BY <1>0, <1>6, <2>2 DEF TypeOK, ListenSpawn, netioVars, stopVars
<1>7. ASSUME NEW t \in Thread, FilterStart(t) \/ FilterPass(t) \/ FilterSignal(t) PROVE TypeOK'
  <2>1. filter' \in [Thread -> FilterState]
    BY <1>7, FilterMoves DEF FilterPc, FilterStart, FilterPass, FilterSignal
  <2>2. sessionSignal' \in BOOLEAN
    BY <1>7 DEF TypeOK, FilterStart, FilterPass, FilterSignal
  <2>3. UNCHANGED <<active, sss, ss, parse, listenVars, netioVars, stopVars>>
    BY <1>7 DEF FilterStart, FilterPass, FilterSignal
  <2> QED BY ONLY TypeOK, <1>0, <2>1, <2>2, <2>3 DEF TypeOK, listenVars, netioVars, stopVars
<1>8. ASSUME NEW t \in Thread, FilterDeny(t) \/ FilterInsert(t) PROVE TypeOK'
  <2>1. filter[t].ss \in Session /\ filter' \in [Thread -> FilterState]
    BY <1>8, FilterMoves DEF FilterPc, FilterDeny, FilterInsert
  <2>2. ss' \in [Session -> SessionObject]
    <3>1. ss' = [ss EXCEPT ![filter[t].ss] = Deleted]
          \/ ss' = [ss EXCEPT ![filter[t].ss] = Accepted(ss[filter[t].ss])]
      BY <1>8 DEF FilterDeny, FilterInsert
    <3>2. Deleted \in SessionObject /\ Accepted(ss[filter[t].ss]) \in SessionObject
      BY <1>1, <2>1, SessionTypes
    <3> QED BY ONLY <1>1, <3>1, <3>2
  <2>3. sss' \subseteq Session /\ ahead' \subseteq Session
    BY <1>8, <2>1, Inserted DEF TypeOK, FilterDeny, FilterInsert, netioVars
  <2>4. UNCHANGED <<active, sessionSignal, parse, listenVars, filterCount, netio, fds, cursor, hand,
                    stopVars>>
    BY <1>8 DEF FilterDeny, FilterInsert, netioVars
  <2> QED BY ONLY TypeOK, <2>1, <2>2, <2>3, <2>4 DEF TypeOK, listenVars, stopVars
<1>9. ASSUME NEW t \in Thread, FilterExit(t) PROVE TypeOK'
  <2>1. filter' \in [Thread -> FilterState]
    BY <1>9 DEF FilterExit, FilterState, TypeOK
  <2> QED BY <1>0, <1>9, <2>1 DEF TypeOK, FilterExit, listenVars, netioVars, stopVars
<1>10. ASSUME NEW s \in Session, Parse(s) \/ Expire(s) PROVE TypeOK'
  <2>1. ss' \in [Session -> SessionObject]
    <3>1. CASE Parse(s)
      <4>1. \/ ss' = [ss EXCEPT ![s] = [ss[s] EXCEPT !.reply = "unsent"]]
            \/ ss' = [ss EXCEPT ![s] = [ss[s] EXCEPT !.canDelete = TRUE]]
            \/ ss' = ss
        BY <3>1 DEF Parse, ParseReply, ParseShow, ParseDone
      <4>2. /\ [ss[s] EXCEPT !.reply = "unsent"] \in SessionObject
            /\ [ss[s] EXCEPT !.canDelete = TRUE] \in SessionObject
        BY <1>1, SessionTypes
      <4> QED BY ONLY <1>1, <4>1, <4>2
    <3>2. CASE Expire(s)
      BY <1>1, <3>2, SessionTypes DEF Expire
    <3> QED BY <1>10, <3>1, <3>2
  <2>2. parse' \in [Session -> ParsePc]
    BY <1>10 DEF TypeOK, ParsePc, Parse, ParseReply, ParseShow, ParseDone, Expire
  <2>3. UNCHANGED <<active, sss, sessionSignal, listenVars, filterVars, netioVars, stopVars>>
    BY <1>10 DEF Parse, ParseReply, ParseShow, ParseDone, Expire
  <2> QED BY ONLY TypeOK, <2>1, <2>2, <2>3 DEF TypeOK, listenVars, filterVars, netioVars, stopVars
<1>11. CASE NetIOCheck \/ NetIOReset \/ NetIOWake
  <2>1. /\ sessionSignal' \in BOOLEAN /\ netio' \in NetIOPc
        /\ UNCHANGED <<active, sss, ss, parse, listenVars, filterVars, fds, cursor, ahead, hand,
                       stopVars>>
    BY <1>11 DEF TypeOK, NetIOPc, NetIOCheck, NetIOReset, NetIOWake
  <2> QED BY ONLY TypeOK, <2>1 DEF TypeOK, listenVars, filterVars, stopVars
<1>12. CASE NetIOSelect \/ NetIOScan
  BY <1>0, <1>12 DEF TypeOK, NetIOPc, NetIOSelect, NetIOScan, listenVars, filterVars, stopVars
<1>13. CASE NetIOBegin \/ NetIONext \/ NetIOEnd
  <2>1. cursor' \in Session \cup {NoSession} /\ ahead' \subseteq Session
    BY <1>2, <1>13 DEF TypeOK, NetIOBegin, NetIONext, NetIOEnd
  <2> QED BY <1>0, <1>13, <2>1
      DEF TypeOK, NetIOPc, NetIOBegin, NetIONext, NetIOEnd, listenVars, filterVars, stopVars
<1>14. CASE NetIOTransfer
  <2>1. CASE cursor \in fds
    <3>1. cursor \in Listed /\ cursor \in Session
      BY <1>1, <1>14 DEF Cursor, CursorValid, NetIOTransfer, Listed, MapLockFree
    <3>2. /\ Replies(ss[cursor], parse[cursor]) /\ parse[cursor] \in ParsePc
          /\ ss[cursor].io = "recv" => ss[cursor].active
      BY <1>14, <3>1 DEF Owners, Served, Judged, TypeOK, ParsePc, NetIOTransfer
    <3>3. PICK o \in IF ss[cursor].io = "recv" THEN Received(ss[cursor]) ELSE Sent(ss[cursor]) :
             /\ ss' = [ss EXCEPT ![cursor] = o]
             /\ parse' = IF o.io # ss[cursor].io THEN [parse EXCEPT ![cursor] = "parse"]
                                                  ELSE parse
      BY <1>14, <2>1 DEF NetIOTransfer
    <3>4. o \in SessionObject
      BY <1>1, <3>1, <3>2, <3>3, OneTransfer
    <3>5. ss' \in [Session -> SessionObject]
      BY <1>1, <3>3, <3>4
    <3>6. parse' \in [Session -> ParsePc]
      BY <3>3 DEF TypeOK, ParsePc
    <3> QED BY <1>0, <1>14, <3>5, <3>6
        DEF TypeOK, NetIOPc, NetIOTransfer, listenVars, filterVars, stopVars
  <2>2. CASE cursor \notin fds
    BY <1>0, <1>14, <2>2 DEF TypeOK, NetIOPc, NetIOTransfer, listenVars, filterVars, stopVars
  <2> QED BY <2>1, <2>2
<1>15. CASE NetIODelete
  <2>1. ss' \in [Session -> SessionObject]
    BY <1>1, <1>15, SessionTypes DEF NetIODelete
  <2>2. cursor' \in Session \cup {NoSession} /\ ahead' \subseteq Session
    BY <1>2, <1>15 DEF TypeOK, NetIODelete
  <2> QED BY <1>0, <1>15, <2>1, <2>2
      DEF TypeOK, NetIOPc, NetIODelete, listenVars, filterVars, stopVars
<1>16. CASE NetIOClose \/ NetIOEndClose
  <2>1. ss' \in [Session -> SessionObject]
    <3>1. ASSUME NEW o \in SessionObject  PROVE Closed(o) \in SessionObject
      BY SessionTypes
    <3>2. CASE NetIOClose
      BY <1>1, <3>1, <3>2, SessionTypes DEF NetIOClose
    <3>3. CASE NetIOEndClose
      BY <1>1, <3>1, <3>3 DEF NetIOEndClose
    <3> QED BY <1>16, <3>2, <3>3
  <2> QED BY <1>0, <1>16, <2>1
      DEF TypeOK, NetIOPc, NetIOClose, NetIOEndClose, listenVars, filterVars, stopVars
<1>17. CASE NetIOEndDelete
  <2>1. ss' \in [Session -> SessionObject]
    BY <1>1, <1>17, SessionTypes DEF NetIOEndDelete
  <2>2. cursor' \in Session \cup {NoSession} /\ ahead' \subseteq Session
    BY <1>2, <1>17 DEF TypeOK, NetIOEndDelete
  <2>3. /\ netio' \in NetIOPc /\ sss' \subseteq Session
        /\ UNCHANGED <<active, sessionSignal, parse, listenVars, filterVars, fds, hand, stopVars>>
    BY <1>17 DEF TypeOK, NetIOPc, NetIOEndDelete
  <2> QED BY ONLY TypeOK, <2>1, <2>2, <2>3 DEF TypeOK, listenVars, filterVars, stopVars
<1>18. CASE NetIOEndClear
  BY <1>0, <1>18 DEF TypeOK, NetIOPc, NetIOEndClear, listenVars, filterVars, stopVars
<1>19. CASE StopBegin \/ StopSignal \/ StopJoin \/ StopPoll
  BY <1>0, <1>19 DEF TypeOK, StopBegin, StopSignal, StopJoin, StopPoll,
     listenVars, filterVars, netioVars
<1>20. CASE StopCloseSockets
  <2>1. ss' \in [Session -> SessionObject]
    BY <1>1, <1>20, SessionTypes DEF StopCloseSockets
  <2> QED BY <1>0, <1>20, <2>1 DEF TypeOK, StopCloseSockets, listenVars, filterVars, netioVars
<1>21. CASE StartBegin
  <2>1. starts' \in 1..MaxStarts
    BY <1>21 DEF StartBegin, TypeOK
  <2> QED BY <1>0, <1>21, <2>1 DEF TypeOK, StartBegin, listenVars, filterVars, netioVars
<1>22. CASE StartThreads
  BY <1>0, <1>22 DEF TypeOK, NetIOPc, StartThreads, filterVars
<1>23. CASE UNCHANGED vars
  BY <1>0, <1>23 DEF TypeOK, vars, listenVars, filterVars, netioVars, stopVars
<1> QED
  BY <1>3, <1>4, <1>5, <1>6, <1>7, <1>8, <1>9, <1>10, <1>11, <1>12, <1>13, <1>14, <1>15, <1>16,
     <1>17, <1>18, <1>19, <1>20, <1>21, <1>22, <1>23
  DEF Next, Listen, Filter, NetIO, StopSteps

-----------------------------------------------------------------------------
LEMMA HandsStep ==
    ASSUME TypeOK, Hands, Cursor, Phases, [Next]_vars PROVE Hands'
<1> USE DEF Hands, TypeOK, listenVars, netioVars
<1>1. CASE Listen
  BY <1>1 DEF Listen, ListenCheck, ListenAccept, ListenCount, ListenLimit, ListenQuit, ListenEnd,
     ListenSpawn
<1>2. ASSUME NEW t \in Thread, Filter(t) PROVE Hands'
  BY <1>2 DEF Filter, FilterStart, FilterDeny, FilterPass, FilterInsert, FilterSignal, FilterExit
<1>3. ASSUME NEW s \in Session, Parse(s) \/ Expire(s) PROVE Hands'
  BY <1>3 DEF Parse, ParseReply, ParseShow, ParseDone, Expire
<1>4. CASE NetIO
  <2>1. netio = "delete" => cursor # NoSession
    BY DEF Cursor, CursorValid
  <2> QED BY <1>4, <2>1 DEF NetIO, NetIOCheck, NetIOReset, NetIOWake, NetIOSelect, NetIOBegin,
      NetIOScan, NetIOTransfer, NetIODelete, NetIOClose, NetIONext, NetIOEnd, NetIOEndClose,
      NetIOEndDelete, NetIOEndClear
<1>5. CASE StopBegin \/ StopSteps \/ StartBegin
  BY <1>5 DEF StopBegin, StopSteps, StopCloseSockets, StopSignal, StopJoin, StopPoll, StartBegin
<1>6. CASE StartThreads
  BY <1>6 DEF StartThreads, Phases
<1>7. CASE UNCHANGED vars
  BY <1>7 DEF vars
<1> QED BY <1>1, <1>2, <1>3, <1>4, <1>5, <1>6, <1>7 DEF Next

LEMMA PhasesStep == ASSUME TypeOK, Phases, [Next]_vars PROVE Phases'
<1> USE DEF Phases, TypeOK, listenVars, netioVars, stopVars
<1>1. CASE Listen
  BY <1>1 DEF Listen, ListenCheck, ListenAccept, ListenCount, ListenLimit, ListenQuit, ListenEnd,
     ListenSpawn
<1>2. ASSUME NEW t \in Thread, Filter(t) PROVE Phases'
  BY <1>2 DEF Filter, FilterStart, FilterDeny, FilterPass, FilterInsert, FilterSignal, FilterExit
<1>3. ASSUME NEW s \in Session, Parse(s) \/ Expire(s) PROVE Phases'
  BY <1>3 DEF Parse, ParseReply, ParseShow, ParseDone, Expire
<1>4. CASE NetIO
  BY <1>4 DEF NetIO, NetIOCheck, NetIOReset, NetIOWake, NetIOSelect, NetIOBegin,
     NetIOScan, NetIOTransfer, NetIODelete, NetIOClose, NetIONext, NetIOEnd, NetIOEndClose,
     NetIOEndDelete, NetIOEndClear
<1>5. CASE StopBegin \/ StopSteps \/ StartBegin
  BY <1>5 DEF StopBegin, StopSteps, StopCloseSockets, StopSignal, StopJoin, StopPoll, StartBegin
<1>6. CASE StartThreads
  BY <1>6 DEF StartThreads
<1>7. CASE UNCHANGED vars
  BY <1>7 DEF vars
<1> QED BY <1>1, <1>2, <1>3, <1>4, <1>5, <1>6, <1>7 DEF Next

(* The iterator stays valid. *)
LEMMA CursorStep ==
    ASSUME TypeOK, Hands, Cursor, OneOwner, [Next]_vars PROVE Cursor'
<1> USE DEF Cursor, CursorValid
<1>1. ASSUME UNCHANGED <<sss, netio, cursor, ahead>> PROVE Cursor'
  BY <1>1
<1>2. ASSUME NEW S \in SUBSET Session, MoveCursor(S), S \subseteq sss',
             netio' \notin {"visit", "delete", "endwait"}
      PROVE  Cursor'
  <2>1. /\ cursor' # NoSession => cursor' \in S
        /\ ahead' = S \ {cursor'}
        /\ cursor' = NoSession => S = {}
    BY <1>2 DEF MoveCursor
  <2> QED BY <1>2, <2>1
<1>3. ASSUME NEW s \in Session, Insert(s), s \notin sss, netio' = netio, cursor' = cursor
      PROVE  Cursor'
  BY <1>3, Inserted
<1>4. CASE ListenCheck \/ ListenAccept \/ ListenCount \/ ListenQuit \/ ListenEnd
           \/ \E t \in Thread : ListenSpawn(t)
  BY <1>1, <1>4 DEF ListenCheck, ListenAccept, ListenCount, ListenQuit, ListenEnd, ListenSpawn,
     netioVars
<1>5. CASE ListenLimit
  <2>1. CASE Answers503
    <3>1. accepted \in Session /\ accepted \notin sss
      BY <1>5, <2>1 DEF ListenLimit, Hands, OneOwner, Listed, TypeOK
    <3> QED BY <1>3, <1>5, <2>1, <3>1 DEF ListenLimit
  <2>2. CASE ~Answers503
    BY <1>1, <1>5, <2>2 DEF ListenLimit
  <2> QED BY <2>1, <2>2
<1>6. ASSUME NEW t \in Thread, FilterInsert(t) PROVE Cursor'
  <2>1. CASE active
    <3>1. filter[t].ss \in Session /\ filter[t].ss \notin sss
      BY <1>6 DEF FilterInsert, OneOwner, Listed, Holds, TypeOK, FilterState
    <3> QED BY <1>3, <1>6, <2>1, <3>1 DEF FilterInsert
  <2>2. CASE ~active
    BY <1>1, <1>6, <2>2 DEF FilterInsert
  <2> QED BY <2>1, <2>2
<1>7. ASSUME NEW t \in Thread, FilterStart(t) \/ FilterDeny(t) \/ FilterPass(t)
             \/ FilterSignal(t) \/ FilterExit(t)
      PROVE  Cursor'
  BY <1>1, <1>7 DEF FilterStart, FilterDeny, FilterPass, FilterSignal, FilterExit, netioVars
<1>8. ASSUME NEW s \in Session, Parse(s) \/ Expire(s) PROVE Cursor'
  BY <1>1, <1>8 DEF Parse, ParseReply, ParseShow, ParseDone, Expire, netioVars
<1>9. CASE NetIOCheck \/ NetIOReset \/ NetIOWake \/ NetIOSelect \/ NetIOScan \/ NetIOTransfer
           \/ NetIOClose \/ NetIOEndClose
  BY <1>9 DEF NetIOCheck, NetIOReset, NetIOWake, NetIOSelect, NetIOScan, NetIOTransfer, NetIOClose,
     NetIOEndClose
<1>10. CASE NetIOBegin \/ NetIOEnd
  BY <1>2, <1>10 DEF TypeOK, NetIOBegin, NetIOEnd
<1>11. CASE NetIODelete \/ NetIONext \/ NetIOEndDelete
  BY <1>2, <1>11 DEF TypeOK, NetIODelete, NetIONext, NetIOEndDelete
<1>12. CASE NetIOEndClear
  BY <1>12 DEF NetIOEndClear
<1>13. CASE StopBegin \/ StopSteps \/ StartBegin
  BY <1>1, <1>13 DEF StopBegin, StopSteps, StopCloseSockets, StopSignal, StopJoin, StopPoll,
     StartBegin, netioVars
<1>14. CASE StartThreads
  BY <1>14 DEF StartThreads
<1>15. CASE UNCHANGED vars
  BY <1>1, <1>15 DEF vars, netioVars
<1> QED
  BY <1>4, <1>5, <1>6, <1>7, <1>8, <1>9, <1>10, <1>11, <1>12, <1>13, <1>14, <1>15
  DEF Next, Listen, Filter, NetIO

-----------------------------------------------------------------------------
(* What NetIOThread has not deleted yet is in the map. *)
LEMMA ListedInMap ==
    ASSUME TypeOK, Cursor
    PROVE  Listed \subseteq sss /\ Listed \subseteq Session /\ NoSession \notin Listed
BY DEF Listed, Cursor, CursorValid, TypeOK

(* A step that touches no session and passes none on. *)
LEMMA OwnersFrame ==
    ASSUME TypeOK, Owners, UNCHANGED <<ss, parse, accepted, hand>>, Listed' = Listed,
           \A t \in Thread : /\ Holds(t)' <=> Holds(t)
                             /\ Holds(t) => filter'[t].ss = filter[t].ss
    PROVE  Owners'
<1>1. \A s \in Session : Alive(s)' <=> Alive(s)
  BY DEF Alive
<1>2. OneOwner'
  BY <1>1 DEF Owners, OneOwner
<1>3. Fresh'
  BY DEF Owners, Fresh
<1>4. Served'
  BY DEF Owners, Served
<1> QED BY <1>2, <1>3, <1>4 DEF Owners

(* A step that works on one session in the map. *)
LEMMA OwnersChange ==
    ASSUME TypeOK, Cursor, Owners, NEW s \in Listed, NEW o \in SessionObject, NEW p \in ParsePc,
           ss' = [ss EXCEPT ![s] = o], parse' = [parse EXCEPT ![s] = p], Replies(o, p),
           o # Deleted, UNCHANGED <<accepted, filter, hand>>, Listed' = Listed
    PROVE  Owners'
<1> USE DEF Owners
<1>1. s \in Session /\ s # NoSession
  BY ListedInMap
<1>2. /\ ss'[s] = o /\ parse'[s] = p
      /\ \A u \in Session \ {s} : ss'[u] = ss[u] /\ parse'[u] = parse[u]
  BY <1>1 DEF TypeOK
<1>3. /\ s # accepted /\ s # hand
      /\ \A t \in Thread : (Holds(t)' <=> Holds(t)) /\ (Holds(t) => s # filter[t].ss)
  <2>1. s # accepted /\ s # hand /\ \A t \in Thread : Holds(t) => s # filter[t].ss
    BY <1>1 DEF OneOwner
  <2>2. \A t \in Thread : Holds(t)' <=> Holds(t)
    BY DEF Holds
  <2> QED BY <2>1, <2>2
<1>4. Alive(s) /\ \A u \in Session : Alive(u)' <=> Alive(u)
  <2>1. Alive(s)
    BY <1>1 DEF OneOwner
  <2> QED BY <1>1, <1>2, <2>1 DEF Alive
<1>5. OneOwner'
  <2>1. \A t \in Thread : filter'[t].ss = filter[t].ss
    OBVIOUS
  <2> QED BY <1>3, <1>4, <2>1 DEF OneOwner
<1>6. Fresh'
  <2>1. accepted # NoSession => accepted \in Session /\ ss'[accepted] = ss[accepted]
    BY <1>2, <1>3 DEF TypeOK
  <2>2. ASSUME NEW t \in Thread, Holds(t) PROVE ss'[filter[t].ss] = ss[filter[t].ss]
    <3>1. filter[t].ss \in Session
      BY <2>2 DEF TypeOK, Holds, FilterState
    <3> QED BY <1>2, <1>3, <2>2, <3>1
  <2> QED BY <1>3, <2>1, <2>2 DEF Fresh
<1>7. Served'
  <2>1. \A u \in Listed : u \in Session
    BY ListedInMap
  <2>2. hand # NoSession => hand \in Session
    BY DEF TypeOK
  <2>3. \A u \in Listed : Replies(ss'[u], parse'[u])
    BY <1>2, <2>1 DEF Served
  <2>4. hand # NoSession => Replies(ss'[hand], parse'[hand])
    BY <1>2, <1>3, <2>2 DEF Served
  <2>5. \A u \in Session : parse'[u] # "none" => u \in Listed
    BY <1>2 DEF Served
  <2> QED BY <2>3, <2>4, <2>5 DEF Served
<1> QED BY <1>5, <1>6, <1>7

(* ListenThread or a filtering thread holds s. *)
Held(s) == accepted = s \/ \E t \in Thread : Holds(t) /\ filter[t].ss = s

(* It gives s up, and the others keep what they hold. *)
GivenUp(s) ==
    /\ accepted' = IF accepted = s THEN NoSession ELSE accepted
    /\ \A t \in Thread : Holds(t)' <=> Holds(t) /\ filter[t].ss # s
    /\ \A t \in Thread : Holds(t)' => filter'[t].ss = filter[t].ss
    /\ hand' = hand /\ parse' = parse

(* A session held is not in the map, nobody else has it, and it is new. *)
LEMMA HeldIsNew ==
    ASSUME TypeOK, Owners, NEW s \in Session, Held(s)
    PROVE  /\ s \notin Listed /\ s # hand /\ ss[s] = NewSession /\ parse[s] = "none"
<1>1. s # NoSession
  OBVIOUS
<1>2. s \notin Listed /\ s # hand
  BY <1>1 DEF Held, Owners, OneOwner
<1>3. ss[s] = NewSession
  BY <1>1 DEF Held, Owners, Fresh
<1> QED BY <1>2, <1>3 DEF Owners, Served

(* What becomes of the session that is given up: it is in the map with an  *)
(* object that fits, or it is not there any more.                          *)
LEMMA OwnersGiveUp ==
    ASSUME TypeOK, Cursor, Owners, NEW s \in Session, Held(s), GivenUp(s), NEW o \in SessionObject,
           ss' = [ss EXCEPT ![s] = o],
           \/ Listed' = Listed \cup {s} /\ o.io # "none" /\ Replies(o, "none")
           \/ Listed' = Listed /\ o = Deleted
    PROVE  Owners'
<1> USE DEF Owners
<1>1. s \notin Listed /\ s # hand /\ s # NoSession /\ parse[s] = "none"
  BY HeldIsNew
<1>2. ss'[s] = o /\ \A u \in Session \ {s} : ss'[u] = ss[u]
  BY DEF TypeOK
<1>3. accepted' # s /\ \A t \in Thread : Holds(t)' => filter'[t].ss # s
  BY <1>1 DEF GivenUp
<1>4. \A u \in Session \ {s} : Alive(u)' <=> Alive(u)
  BY <1>2 DEF Alive
<1>5. Alive(s)' <=> s \in Listed'
  <2>1. Deleted.io = "none"
    BY Objects
  <2> QED BY <1>1, <1>2, <2>1 DEF Alive
<1>6. OneOwner'
  <2>1. ASSUME NEW u \in Session \ {s}
        PROVE  /\ u \in Listed' <=> u \in Listed
               /\ accepted' = u <=> accepted = u
               /\ (\E t \in Thread : Holds(t)' /\ filter'[t].ss = u)
                     <=> \E t \in Thread : Holds(t) /\ filter[t].ss = u
    BY DEF GivenUp
  <2>2. ASSUME NEW u \in Session
        PROVE  Alive(u)' <=> \/ accepted' = u
                             \/ \E t \in Thread : Holds(t)' /\ filter'[t].ss = u
                             \/ u \in Listed'
                             \/ hand' = u
    <3>1. CASE u = s
      BY <1>1, <1>3, <1>5, <3>1 DEF GivenUp
    <3>2. CASE u # s
      BY <1>4, <2>1, <3>2 DEF GivenUp, OneOwner
    <3> QED BY <3>1, <3>2
  <2>3. accepted' # NoSession => accepted' \notin Listed' \cup {hand'}
    BY <1>3 DEF GivenUp, OneOwner
  <2>4. hand' \notin Listed'
    BY <1>1 DEF GivenUp, OneOwner
  <2>5. ASSUME NEW t \in Thread, Holds(t)'
        PROVE  /\ filter'[t].ss \notin Listed' \cup {accepted', hand'}
               /\ \A u \in Thread \ {t} : Holds(u)' => filter'[u].ss # filter'[t].ss
    <3>1. Holds(t) /\ filter'[t].ss = filter[t].ss /\ filter[t].ss # s
      BY <2>5 DEF GivenUp
    <3>2. filter[t].ss # NoSession
      BY <3>1 DEF TypeOK, Holds, FilterState
    <3> QED BY <1>3, <3>1, <3>2 DEF GivenUp, OneOwner
  <2> QED BY <2>2, <2>3, <2>4, <2>5 DEF OneOwner
<1>7. Fresh'
  <2>1. accepted' # NoSession => ss'[accepted'] = NewSession
    BY <1>2, <1>3 DEF GivenUp, Fresh, TypeOK
  <2>2. ASSUME NEW t \in Thread, Holds(t)' PROVE ss'[filter'[t].ss] = NewSession
    <3>1. Holds(t) /\ filter'[t].ss = filter[t].ss /\ filter[t].ss # s
      BY <2>2 DEF GivenUp
    <3>2. filter[t].ss \in Session
      BY <3>1 DEF TypeOK, Holds, FilterState
    <3> QED BY <1>2, <3>1, <3>2 DEF Fresh
  <2> QED BY <2>1, <2>2 DEF Fresh
<1>8. Served'
  <2>1. \A u \in Listed : u \in Session \ {s}
    BY <1>1, ListedInMap
  <2>2. \A u \in Listed : Replies(ss'[u], parse'[u])
    BY <1>2, <2>1 DEF Served, GivenUp
  <2>3. s \in Listed' => Replies(ss'[s], parse'[s])
    BY <1>1, <1>2 DEF GivenUp
  <2>4. hand # NoSession => Replies(ss'[hand], parse'[hand])
    BY <1>1, <1>2 DEF Served, GivenUp, TypeOK
  <2>5. \A u \in Session : parse'[u] # "none" => u \in Listed'
    BY DEF Served, GivenUp
  <2> QED BY <2>2, <2>3, <2>4, <2>5 DEF Served, GivenUp
<1> QED BY <1>6, <1>7, <1>8

LEMMA OwnersListen ==
    ASSUME TypeOK, Hands, Cursor, Owners, Listen PROVE Owners'
<1> USE DEF netioVars, filterVars
<1>1. (\A t \in Thread : filter'[t] = filter[t]) =>
         \A t \in Thread : (Holds(t)' <=> Holds(t)) /\ filter'[t].ss = filter[t].ss
  BY DEF Holds
<1>2. CASE ListenCheck \/ ListenCount \/ ListenEnd
  <2>1. UNCHANGED <<ss, parse, accepted, hand, filter>> /\ Listed' = Listed
    BY <1>2 DEF ListenCheck, ListenCount, ListenEnd, Listed, MapLockFree
  <2> QED BY <1>1, <2>1, OwnersFrame
<1>3. CASE ListenAccept
  <2>1. UNCHANGED <<parse, hand, filter>> /\ Listed' = Listed
    BY <1>3 DEF ListenAccept, Listed, MapLockFree
  <2>2. CASE UNCHANGED <<ss, accepted>>
    BY <1>1, <2>1, <2>2, OwnersFrame
  <2>3. ASSUME NEW s \in Session, ~Alive(s), ss' = [ss EXCEPT ![s] = NewSession], accepted' = s
        PROVE  Owners'
    <3> USE DEF Owners
    <3>1. /\ accepted = NoSession /\ s # NoSession /\ s # hand /\ s \notin Listed
          /\ \A t \in Thread : Holds(t) => filter[t].ss # s
      BY <1>3, <2>3 DEF ListenAccept, Hands, OneOwner
    <3>2. ss'[s] = NewSession /\ \A u \in Session \ {s} : ss'[u] = ss[u]
      BY <2>3 DEF TypeOK
    <3>3. Alive(s)' /\ \A u \in Session \ {s} : Alive(u)' <=> Alive(u)
      BY <3>2, Objects DEF Alive
    <3>4. \A t \in Thread : (Holds(t)' <=> Holds(t)) /\ filter'[t].ss = filter[t].ss
      BY <1>1, <2>1
    <3>5. OneOwner'
      BY <2>1, <2>3, <3>1, <3>3, <3>4 DEF OneOwner
    <3>6. Fresh'
      <4>1. \A t \in Thread : Holds(t) => filter[t].ss \in Session
        BY DEF TypeOK, Holds, FilterState
      <4> QED BY <2>3, <3>1, <3>2, <3>4, <4>1 DEF Fresh
    <3>7. Served'
      <4>1. \A u \in Listed : u \in Session \ {s}
        BY <3>1, ListedInMap
      <4>2. hand # NoSession => hand \in Session \ {s}
        BY <3>1 DEF TypeOK
      <4> QED BY <2>1, <3>2, <4>1, <4>2 DEF Served
    <3> QED BY <3>5, <3>6, <3>7
  <2> QED BY <1>3, <2>2, <2>3 DEF ListenAccept
<1>4. accepted # NoSession => Held(accepted) /\ accepted \in Session
  BY DEF Held, TypeOK
<1>5. ASSUME accepted # NoSession, accepted' = NoSession, UNCHANGED <<filter, hand, parse>>
      PROVE  GivenUp(accepted)
  <2>1. \A t \in Thread : Holds(t) => filter[t].ss # accepted
    BY <1>5 DEF Owners, OneOwner
  <2> QED BY <1>1, <1>5, <2>1 DEF GivenUp
<1>6. CASE ListenQuit
  <2>1. accepted # NoSession /\ Listed' = Listed
    BY <1>6 DEF ListenQuit, Hands, Listed, MapLockFree
  <2>2. GivenUp(accepted) /\ ss' = [ss EXCEPT ![accepted] = Deleted]
    BY <1>5, <1>6, <2>1 DEF ListenQuit
  <2> QED BY <1>4, <2>1, <2>2, SessionTypes, OwnersGiveUp
<1>7. CASE ListenLimit
  <2>1. accepted # NoSession /\ GivenUp(accepted)
    BY <1>5, <1>7 DEF ListenLimit, Hands
  <2>2. CASE Answers503
    <3>1. ss[accepted] = NewSession
      BY <1>4, <2>1, HeldIsNew
    <3>2. ss' = [ss EXCEPT ![accepted] = Limited(NewSession)]
      BY <1>7, <2>2, <3>1 DEF ListenLimit
    <3>3. Listed' = Listed \cup {accepted}
      BY <1>7, <2>2 DEF ListenLimit, Listed, MapLockFree, Insert
    <3>4. Limited(NewSession) \in SessionObject /\ Limited(NewSession).io # "none"
      BY SessionTypes, Objects
    <3> QED BY <1>4, <2>1, <3>2, <3>3, <3>4, Objects, OwnersGiveUp
  <2>3. CASE ~Answers503
    <3>1. Listed' = Listed /\ ss' = [ss EXCEPT ![accepted] = Deleted]
      BY <1>7, <2>3 DEF ListenLimit, Listed, MapLockFree
    <3> QED BY <1>4, <2>1, <3>1, SessionTypes, OwnersGiveUp
  <2> QED BY <2>2, <2>3
<1>8. ASSUME NEW t \in Thread, ListenSpawn(t) PROVE Owners'
  <2> USE DEF Owners
  <2>1. /\ accepted \in Session /\ accepted # NoSession /\ accepted' = NoSession
        /\ UNCHANGED <<ss, parse, hand>> /\ Listed' = Listed
    BY <1>8 DEF ListenSpawn, Hands, TypeOK, Listed, MapLockFree
  <2>2. /\ filter'[t] = [pc |-> "start", ss |-> accepted]
        /\ \A u \in Thread \ {t} : filter'[u] = filter[u]
    BY <1>8 DEF ListenSpawn, TypeOK
  <2>3. ~Holds(t) /\ Holds(t)' /\ filter'[t].ss = accepted
    BY <1>8, <2>2 DEF ListenSpawn, Holds
  <2>4. \A u \in Thread \ {t} : (Holds(u)' <=> Holds(u)) /\ filter'[u].ss = filter[u].ss
    BY <2>2 DEF Holds
  <2>5. \A s \in Session : Alive(s)' <=> Alive(s)
    BY <2>1 DEF Alive
  <2>6. OneOwner'
    <3>1. ASSUME NEW s \in Session
          PROVE  Alive(s)' <=> \/ accepted' = s
                               \/ \E u \in Thread : Holds(u)' /\ filter'[u].ss = s
                               \/ s \in Listed'
                               \/ hand' = s
      <4>1. (\E u \in Thread : Holds(u)' /\ filter'[u].ss = s)
               <=> accepted = s \/ \E u \in Thread : Holds(u) /\ filter[u].ss = s
        BY <2>3, <2>4
      <4> QED BY <2>1, <2>5, <4>1 DEF OneOwner
    <3>2. hand' \notin Listed'
      BY <2>1 DEF OneOwner
    <3>3. ASSUME NEW u \in Thread, Holds(u)'
          PROVE  /\ filter'[u].ss \notin Listed' \cup {accepted', hand'}
                 /\ \A v \in Thread \ {u} : Holds(v)' => filter'[v].ss # filter'[u].ss
      <4>1. CASE u = t
        BY <2>1, <2>3, <2>4, <4>1 DEF OneOwner
      <4>2. CASE u # t
        <5>1. Holds(u) /\ filter[u].ss \in Session /\ filter'[u].ss = filter[u].ss
          BY <2>4, <3>3, <4>2 DEF TypeOK, Holds, FilterState
        <5> QED BY <2>1, <2>3, <2>4, <4>2, <5>1 DEF OneOwner
      <4> QED BY <4>1, <4>2
    <3> QED BY <2>1, <3>1, <3>2, <3>3 DEF OneOwner
  <2>7. Fresh'
    BY <2>1, <2>3, <2>4 DEF Fresh
  <2>8. Served'
    BY <2>1 DEF Served
  <2> QED BY <2>6, <2>7, <2>8
<1> QED BY <1>2, <1>3, <1>6, <1>7, <1>8 DEF Listen

LEMMA OwnersFilter ==
    ASSUME TypeOK, Cursor, Owners, NEW t \in Thread, Filter(t) PROVE Owners'
<1> USE DEF netioVars, listenVars
<1>1. /\ filter[t].pc # "idle" /\ filter[t].ss \in Session
      /\ \A u \in Thread \ {t} : filter'[u] = filter[u]
  <2>1. filter[t].pc # "idle"
    BY DEF Filter, FilterStart, FilterDeny, FilterPass, FilterInsert, FilterSignal, FilterExit
  <2>2. filter[t].ss \in Session
    BY <2>1 DEF TypeOK, FilterState
  <2>3. \A u \in Thread \ {t} : filter'[u] = filter[u]
    BY DEF TypeOK, Filter, FilterStart, FilterDeny, FilterPass, FilterInsert, FilterSignal,
       FilterExit
  <2> QED BY <2>1, <2>2, <2>3
<1>2. \A u \in Thread \ {t} : (Holds(u)' <=> Holds(u)) /\ filter'[u].ss = filter[u].ss
  BY <1>1 DEF Holds
<1>3. CASE FilterStart(t) \/ FilterPass(t) \/ FilterSignal(t) \/ FilterExit(t)
  <2>1. UNCHANGED <<ss, parse, accepted, hand>> /\ Listed' = Listed
    BY <1>3 DEF FilterStart, FilterPass, FilterSignal, FilterExit, Listed, MapLockFree
  <2>2. CASE FilterStart(t) \/ FilterPass(t) \/ FilterSignal(t)
    <3>1. /\ filter'[t].ss = filter[t].ss
          /\ FilterStart(t) => filter'[t].pc = "lookup"
          /\ FilterPass(t) => filter'[t].pc = "insert"
          /\ FilterSignal(t) => filter'[t].pc = "log"
      BY <1>1, <2>2, FilterMoves DEF FilterPc, FilterStart, FilterPass, FilterSignal
    <3>2. Holds(t)' <=> Holds(t)
      BY <2>2, <3>1 DEF Holds, FilterStart, FilterPass, FilterSignal
    <3> QED BY <1>2, <2>1, <3>1, <3>2, OwnersFrame
  <2>3. CASE FilterExit(t)
    <3>1. ~Holds(t) /\ ~Holds(t)'
      BY <2>3 DEF FilterExit, Holds, TypeOK
    <3> QED BY <1>2, <2>1, <3>1, OwnersFrame
  <2> QED BY <1>3, <2>2, <2>3
<1>4. CASE FilterDeny(t) \/ FilterInsert(t)
  <2> DEFINE s == filter[t].ss
  <2>1. Holds(t) /\ s \in Session /\ Held(s)
    BY <1>1, <1>4 DEF FilterDeny, FilterInsert, Holds, Held
  <2>2. filter'[t].pc \in {"signal", "exit"}
    BY <1>1, <1>4, FilterMoves DEF FilterPc, FilterDeny, FilterInsert
  <2>3. UNCHANGED <<accepted, hand, parse>> /\ accepted # s
    BY <1>4, <2>1 DEF FilterDeny, FilterInsert, Owners, OneOwner
  <2>4. ~Holds(t)' /\ \A u \in Thread \ {t} : Holds(u) => filter[u].ss # s
    BY <2>1, <2>2 DEF Holds, Owners, OneOwner
  <2>5. GivenUp(s)
    BY <1>2, <2>3, <2>4 DEF GivenUp
  <2>6. CASE FilterInsert(t) /\ active
    <3>1. ss' = [ss EXCEPT ![s] = Accepted(NewSession)]
      BY <2>1, <2>6, HeldIsNew DEF FilterInsert
    <3>2. Listed' = Listed \cup {s}
      BY <2>6 DEF FilterInsert, Listed, MapLockFree, Insert
    <3>3. Accepted(NewSession) \in SessionObject /\ Accepted(NewSession).io # "none"
      BY SessionTypes, Objects
    <3> QED BY <2>1, <2>5, <3>1, <3>2, <3>3, Objects, OwnersGiveUp
  <2>7. CASE FilterDeny(t) \/ ~active
    <3>1. ss' = [ss EXCEPT ![s] = Deleted] /\ Listed' = Listed
      BY <1>4, <2>7 DEF FilterDeny, FilterInsert, Listed, MapLockFree
    <3> QED BY <2>1, <2>5, <3>1, SessionTypes, OwnersGiveUp
  <2> QED BY <1>4, <2>6, <2>7
<1> QED BY <1>3, <1>4 DEF Filter

(* The steps of a parse thread and of time. *)
LEMMA OwnersParse ==
    ASSUME TypeOK, Hands, Cursor, Owners, NEW s \in Session, Parse(s) \/ Expire(s) PROVE Owners'
<1> USE DEF netioVars, listenVars, filterVars
<1>1. UNCHANGED <<accepted, filter, hand>> /\ Listed' = Listed
  BY DEF Parse, ParseReply, ParseShow, ParseDone, Expire, Listed, MapLockFree
<1>2. ss[s] \in SessionObject /\ parse[s] \in ParsePc
  BY DEF TypeOK, ParsePc
<1>3. ss = [ss EXCEPT ![s] = ss[s]] /\ parse = [parse EXCEPT ![s] = parse[s]]
  BY DEF TypeOK
<1>4. Deleted.io = "none"
  BY Objects
<1>5. CASE Parse(s)
  <2>1. s \in Listed /\ Replies(ss[s], parse[s])
    BY <1>5 DEF Parse, ParseReply, ParseShow, ParseDone, Owners, Served
  <2>2. CASE ParseReply(s)
    <3> DEFINE o == [ss[s] EXCEPT !.reply = "unsent"]
    <3>1. ss' = [ss EXCEPT ![s] = o] /\ o \in SessionObject
      BY <1>2, <2>2, SessionTypes DEF ParseReply
    <3>2. PICK p \in {"show", "finish"} : parse' = [parse EXCEPT ![s] = p]
      BY <2>2 DEF ParseReply
    <3>3. Replies(o, p) /\ o.io # "none"
      BY <1>2, <2>1, <2>2 DEF Replies, SessionObject, ParseReply
    <3>4. p \in ParsePc /\ o # Deleted
      BY <1>4, <3>3 DEF ParsePc
    <3> QED BY <1>1, <2>1, <3>1, <3>2, <3>3, <3>4, OwnersChange
  <2>3. CASE ParseShow(s)
    <3>1. ss' = [ss EXCEPT ![s] = ss[s]] /\ parse' = [parse EXCEPT ![s] = "finish"]
      BY <1>3, <2>3 DEF ParseShow
    <3>2. Replies(ss[s], "finish") /\ ss[s] # Deleted
      BY <1>4, <2>1, <2>3 DEF Replies, ParseShow
    <3> QED BY <1>1, <1>2, <2>1, <3>1, <3>2, OwnersChange DEF ParsePc
  <2>4. CASE ParseDone(s)
    <3> DEFINE o == [ss[s] EXCEPT !.canDelete = TRUE]
    <3>1. /\ ss' = [ss EXCEPT ![s] = o] /\ o \in SessionObject
          /\ parse' = [parse EXCEPT ![s] = "none"]
      BY <1>2, <2>4, SessionTypes DEF ParseDone
    <3>2. Replies(o, "none") /\ o.io # "none"
      BY <1>2, <2>1, <2>4 DEF Replies, SessionObject, ParseDone
    <3>3. o # Deleted
      BY <1>4, <3>2
    <3> QED BY <1>1, <2>1, <3>1, <3>2, <3>3, OwnersChange DEF ParsePc
  <2> QED BY <1>5, <2>2, <2>3, <2>4 DEF Parse
<1>6. CASE Expire(s)
  <2> DEFINE o == [ss[s] EXCEPT !.timer = "old"]
  <2>1. ss' = [ss EXCEPT ![s] = o] /\ o \in SessionObject /\ parse' = [parse EXCEPT ![s] = parse[s]]
    BY <1>2, <1>3, <1>6, SessionTypes DEF Expire
  <2>2. s \in Listed
    <3>1. ~Held(s)
      BY <1>6, HeldIsNew, Objects DEF Expire
    <3>2. hand = s => Listed = sss
      BY DEF Hands, Listed, MapLockFree
    <3> QED BY <1>6, <3>1, <3>2 DEF Expire, Owners, OneOwner, Held
  <2>3. Replies(ss[s], parse[s])
    BY <2>2 DEF Owners, Served
  <2>4. Replies(o, parse[s]) /\ o.io # "none"
    BY <1>2, <2>3 DEF Replies, SessionObject
  <2>5. o # Deleted
    BY <1>4, <2>4
  <2> QED BY <1>1, <1>2, <2>1, <2>2, <2>4, <2>5, OwnersChange
<1> QED BY <1>5, <1>6

(* NetIOThread deletes the object of s, which it alone has. *)
LEMMA OwnersDelete ==
    ASSUME TypeOK, Cursor, Owners, NEW s \in Session, UNCHANGED <<filter, accepted, parse>>,
           ss' = [ss EXCEPT ![s] = Deleted], parse[s] = "none",
           \/ s = hand /\ hand' = NoSession /\ Listed' = Listed
           \/ s \in Listed /\ hand' = hand /\ Listed' = Listed \ {s}
    PROVE  Owners'
<1> USE DEF Owners
<1>1. s # NoSession /\ NoSession \notin Listed
  BY ListedInMap
<1>2. s # accepted /\ \A t \in Thread : Holds(t) => filter[t].ss # s
  BY <1>1 DEF OneOwner
<1>3. ss'[s] = Deleted /\ \A u \in Session \ {s} : ss'[u] = ss[u]
  BY DEF TypeOK
<1>4. ~Alive(s)' /\ \A u \in Session \ {s} : Alive(u)' <=> Alive(u)
  BY <1>3 DEF Alive
<1>5. \A t \in Thread : (Holds(t)' <=> Holds(t)) /\ filter'[t].ss = filter[t].ss
  BY DEF Holds
<1>6. s \notin Listed' /\ s # hand'
  BY <1>1 DEF OneOwner
<1>7. \A u \in Session \ {s} : (u \in Listed' <=> u \in Listed) /\ (u = hand' <=> u = hand)
  OBVIOUS
<1>8. OneOwner'
  <2>1. ASSUME NEW u \in Session
        PROVE  Alive(u)' <=> \/ accepted' = u
                             \/ \E t \in Thread : Holds(t)' /\ filter'[t].ss = u
                             \/ u \in Listed'
                             \/ hand' = u
    <3>1. CASE u = s
      BY <1>2, <1>4, <1>5, <1>6, <3>1
    <3>2. CASE u # s
      BY <1>4, <1>5, <1>7, <3>2 DEF OneOwner
    <3> QED BY <3>1, <3>2
  <2>2. /\ accepted' # NoSession => accepted' \notin Listed' \cup {hand'}
        /\ hand' \notin Listed'
    BY <1>1 DEF OneOwner
  <2>3. \A t \in Thread :
           Holds(t)' => /\ filter'[t].ss \notin Listed' \cup {accepted', hand'}
                        /\ \A u \in Thread \ {t} : Holds(u)' => filter'[u].ss # filter'[t].ss
    <3>1. \A t \in Thread : Holds(t) => filter[t].ss # NoSession
      BY DEF TypeOK, Holds, FilterState
    <3> QED BY <1>5, <3>1 DEF OneOwner
  <2> QED BY <2>1, <2>2, <2>3 DEF OneOwner
<1>9. Fresh'
  <2>1. \A t \in Thread : Holds(t) => filter[t].ss \in Session
    BY DEF TypeOK, Holds, FilterState
  <2>2. accepted # NoSession => accepted \in Session
    BY DEF TypeOK
  <2> QED BY <1>2, <1>3, <1>5, <2>1, <2>2 DEF Fresh
<1>10. Served'
  <2>1. \A u \in Listed' : u \in Listed /\ u \in Session \ {s}
    BY <1>6, ListedInMap
  <2>2. hand' # NoSession => hand' = hand /\ hand \in Session \ {s}
    BY <1>6 DEF TypeOK
  <2> QED BY <1>3, <2>1, <2>2 DEF Served
<1> QED BY <1>8, <1>9, <1>10

LEMMA OwnersNetIO ==
    ASSUME TypeOK, Hands, Cursor, Owners, Judged, NetIO PROVE Owners'
<1> USE DEF listenVars, filterVars
<1>1. /\ \A t \in Thread : (Holds(t)' <=> Holds(t)) /\ filter'[t].ss = filter[t].ss
      /\ UNCHANGED <<accepted, filter>>
  <2>1. UNCHANGED <<accepted, filter>>
    BY DEF NetIO, NetIOCheck, NetIOReset, NetIOWake, NetIOSelect, NetIOBegin, NetIOScan,
       NetIOTransfer, NetIODelete, NetIOClose, NetIONext, NetIOEnd, NetIOEndClose,
       NetIOEndDelete, NetIOEndClear
  <2> QED BY <2>1 DEF Holds
<1>2. ss \in [Session -> SessionObject] /\ parse \in [Session -> ParsePc]
  BY DEF TypeOK, ParsePc
<1>3. ASSUME NEW S \in SUBSET Session, MoveCursor(S)
      PROVE  (ahead' \cup {cursor'}) \ {NoSession} = S
  <2>1. CASE S = {}
    BY <1>3, <2>1 DEF MoveCursor
  <2>2. CASE S # {}
    <3>1. cursor' \in S /\ ahead' = S \ {cursor'} /\ NoSession \notin S
      BY <1>3, <2>2 DEF MoveCursor
    <3> QED BY <3>1
  <2> QED BY <2>1, <2>2
<1>4. CASE NetIOCheck \/ NetIOReset \/ NetIOWake \/ NetIOSelect \/ NetIOBegin \/ NetIOScan
           \/ NetIONext
  <2>1. UNCHANGED <<ss, parse, hand>> /\ Listed' = Listed
    BY <1>4 DEF NetIOCheck, NetIOReset, NetIOWake, NetIOSelect, NetIOBegin, NetIOScan,
       NetIONext, Listed, MapLockFree
  <2> QED BY <1>1, <2>1, OwnersFrame
<1>5. CASE NetIOEnd
  <2>1. Listed' = (ahead' \cup {cursor'}) \ {NoSession} /\ Listed = sss
    BY <1>5 DEF NetIOEnd, Listed, MapLockFree
  <2>2. UNCHANGED <<ss, parse, hand>> /\ Listed' = Listed
    BY <1>3, <1>5, <2>1 DEF NetIOEnd, TypeOK
  <2> QED BY <1>1, <2>2, OwnersFrame
<1>6. CASE NetIOEndClear
  <2>1. Listed = {} /\ Listed' = {}
    BY <1>6 DEF NetIOEndClear, Listed, MapLockFree, Cursor
  <2>2. UNCHANGED <<ss, parse, hand>>
    BY <1>6 DEF NetIOEndClear
  <2> QED BY <1>1, <2>1, <2>2, OwnersFrame
<1>7. netio \in {"visit", "delete", "endwait"} => cursor \in Listed /\ cursor \in Session
  BY DEF Cursor, CursorValid, Listed, MapLockFree, TypeOK
<1>8. CASE NetIOTransfer
  <2>1. Listed' = Listed /\ hand' = hand
    BY <1>8 DEF NetIOTransfer, Listed, MapLockFree
  <2>2. CASE cursor \notin fds
    <3>1. UNCHANGED <<ss, parse, hand>>
      BY <1>8, <2>2 DEF NetIOTransfer
    <3> QED BY <1>1, <2>1, <3>1, OwnersFrame
  <2>3. CASE cursor \in fds
    <3>1. /\ cursor \in Listed /\ cursor \in Session
          /\ ss[cursor].io = "recv" => ss[cursor].active
          /\ Replies(ss[cursor], parse[cursor])
      BY <1>7, <1>8 DEF NetIOTransfer, Judged, Owners, Served
    <3>2. PICK o \in IF ss[cursor].io = "recv" THEN Received(ss[cursor]) ELSE Sent(ss[cursor]) :
             /\ ss' = [ss EXCEPT ![cursor] = o]
             /\ parse' = IF o.io # ss[cursor].io THEN [parse EXCEPT ![cursor] = "parse"]
                                                  ELSE parse
      BY <1>8, <2>3 DEF NetIOTransfer
    <3> DEFINE p == IF o.io # ss[cursor].io THEN "parse" ELSE parse[cursor]
    <3>3. o \in SessionObject /\ o.io # "none" /\ Replies(o, p)
      BY <1>2, <3>1, <3>2, OneTransfer
    <3>4. parse' = [parse EXCEPT ![cursor] = p]
      BY <1>2, <3>2
    <3>5. p \in ParsePc /\ o # Deleted
      BY <1>2, <3>1, <3>3, Objects DEF ParsePc
    <3> HIDE DEF p
    <3> QED BY <1>1, <2>1, <3>1, <3>2, <3>3, <3>4, <3>5, OwnersChange
  <2> QED BY <2>2, <2>3
<1>9. CASE NetIOEndClose
  <2>1. cursor \in Listed /\ cursor \in Session
    BY <1>9 DEF NetIOEndClose, Listed, MapLockFree, TypeOK
  <2>2. /\ Replies(Closed(ss[cursor]), parse[cursor])
        /\ Closed(ss[cursor]) \in SessionObject /\ Closed(ss[cursor]) # Deleted
    <3>1. Replies(ss[cursor], parse[cursor])
      BY <2>1 DEF Owners, Served
    <3>2. Closed(ss[cursor]).io = ss[cursor].io /\ ss[cursor].io # "none"
      BY <1>2, <2>1, <3>1, Objects DEF Replies
    <3> QED BY <1>2, <2>1, <3>1, <3>2, Objects, SessionTypes
  <2>3. /\ ss' = [ss EXCEPT ![cursor] = Closed(ss[cursor])]
        /\ parse' = [parse EXCEPT ![cursor] = parse[cursor]]
        /\ hand' = hand /\ Listed' = Listed
    BY <1>2, <1>9, <2>1 DEF NetIOEndClose, Listed, MapLockFree
  <2> QED BY <1>1, <1>2, <2>1, <2>2, <2>3, OwnersChange
<1>10. CASE NetIOEndDelete
  <2>1. cursor \in Listed /\ cursor \in Session /\ parse[cursor] = "none"
    BY <1>7, <1>10 DEF NetIOEndDelete, Owners, Served, Replies
  <2>2. Listed' = Listed \ {cursor}
    <3>1. Listed' = (ahead' \cup {cursor'}) \ {NoSession}
          /\ Listed = (ahead \cup {cursor}) \ {NoSession}
      BY <1>10 DEF NetIOEndDelete, Listed, MapLockFree
    <3>2. Listed' = ahead
      BY <1>3, <1>10, <3>1 DEF NetIOEndDelete, TypeOK
    <3> QED BY <2>1, <3>1, <3>2 DEF Cursor, CursorValid, TypeOK
  <2> QED BY <1>1, <1>10, <2>1, <2>2, OwnersDelete DEF NetIOEndDelete
<1>11. CASE NetIOClose
  <2>1. hand \in Session /\ Listed' = Listed
    BY <1>11 DEF NetIOClose, Hands, TypeOK, Listed, MapLockFree
  <2>2. parse[hand] = "none"
    BY <2>1 DEF Owners, Served, OneOwner
  <2> QED BY <1>1, <1>11, <2>1, <2>2, OwnersDelete DEF NetIOClose
<1>12. CASE NetIODelete
  <2> USE DEF Owners
  <2>1. /\ cursor \in Listed /\ cursor \in Session /\ cursor # NoSession
        /\ parse[cursor] = "none" /\ Replies(ss[cursor], parse[cursor])
    BY <1>7, <1>12 DEF NetIODelete, Served, Replies, MayDelete
  <2>2. /\ hand = NoSession /\ hand' = cursor /\ parse' = parse
        /\ ss' = [ss EXCEPT ![cursor] = Closed(ss[cursor])]
        /\ Listed' = Listed \ {cursor}
    BY <1>12 DEF NetIODelete, Hands, Listed, MapLockFree
  <2>3. /\ ss'[cursor] = Closed(ss[cursor])
        /\ \A u \in Session \ {cursor} : ss'[u] = ss[u]
    BY <1>2, <2>1, <2>2
  <2>4. Replies(ss'[cursor], parse[cursor]) /\ ss'[cursor] # Deleted
    <3>1. Closed(ss[cursor]).io = ss[cursor].io /\ ss[cursor].io # "none"
      BY <1>2, <2>1, Objects DEF Replies
    <3> QED BY <1>2, <2>1, <2>3, <3>1, Objects
  <2>5. \A u \in Session : Alive(u)' <=> Alive(u)
    <3>1. Alive(cursor)
      BY <2>1 DEF OneOwner
    <3> QED BY <2>3, <2>4, <3>1 DEF Alive
  <2>6. /\ accepted # cursor
        /\ \A t \in Thread : Holds(t) => filter[t].ss # cursor /\ filter[t].ss \in Session
    BY <2>1 DEF OneOwner, TypeOK, Holds, FilterState
  <2>7. OneOwner'
    <3>1. ASSUME NEW u \in Session
          PROVE  Alive(u)' <=> \/ accepted' = u
                               \/ \E t \in Thread : Holds(t)' /\ filter'[t].ss = u
                               \/ u \in Listed'
                               \/ hand' = u
      <4>1. (u \in Listed' \/ hand' = u) <=> (u \in Listed \/ hand = u)
        BY <2>1, <2>2
      <4> QED BY <1>1, <2>5, <4>1 DEF OneOwner
    <3>2. /\ accepted' # NoSession => accepted' \notin Listed' \cup {hand'}
          /\ hand' \notin Listed'
      BY <1>1, <2>2, <2>6 DEF OneOwner
    <3>3. \A t \in Thread :
             Holds(t)' => /\ filter'[t].ss \notin Listed' \cup {accepted', hand'}
                          /\ \A u \in Thread \ {t} : Holds(u)' => filter'[u].ss # filter'[t].ss
      BY <1>1, <2>2, <2>6 DEF OneOwner
    <3> QED BY <3>1, <3>2, <3>3 DEF OneOwner
  <2>8. Fresh'
    BY <1>1, <2>3, <2>6 DEF Fresh, TypeOK
  <2>9. Served'
    <3>1. \A u \in Listed' : u \in Listed /\ u \in Session \ {cursor}
      BY <2>2, ListedInMap
    <3>2. \A u \in Session : parse'[u] # "none" => u \in Listed'
      BY <2>1, <2>2 DEF Served
    <3> QED BY <2>2, <2>3, <2>4, <3>1, <3>2 DEF Served
  <2> QED BY <2>7, <2>8, <2>9
<1> QED BY <1>4, <1>5, <1>6, <1>8, <1>9, <1>10, <1>11, <1>12 DEF NetIO

LEMMA OwnersStop ==
    ASSUME TypeOK, Phases, Cursor, Owners,
           StopBegin \/ StopSteps \/ StartBegin \/ StartThreads \/ UNCHANGED vars
    PROVE  Owners'
<1> USE DEF listenVars, filterVars, netioVars
<1>1. CASE ~StopCloseSockets
  <2>1. UNCHANGED <<ss, parse, accepted, hand, filter, sss, cursor, ahead>>
    BY <1>1 DEF StopBegin, StopSteps, StopSignal, StopJoin, StopPoll, StartBegin, StartThreads,
       vars
  <2>2. MapLockFree' <=> MapLockFree
    BY <1>1 DEF StopBegin, StopSteps, StopSignal, StopJoin, StopPoll, StartBegin, StartThreads,
       vars, MapLockFree, Phases
  <2>3. Listed' = Listed
    BY <2>1, <2>2 DEF Listed
  <2>4. \A t \in Thread : (Holds(t)' <=> Holds(t)) /\ filter'[t].ss = filter[t].ss
    BY <2>1 DEF Holds
  <2> QED BY <2>1, <2>3, <2>4, OwnersFrame
<1>2. CASE StopCloseSockets
  <2> USE DEF Owners
  <2>1. Listed = sss /\ Listed' = Listed /\ UNCHANGED <<parse, accepted, hand, filter>>
    BY <1>2 DEF StopCloseSockets, Listed, MapLockFree
  <2>2. \A s \in Session : ss'[s] = IF s \in sss THEN Closed(ss[s]) ELSE ss[s]
    BY <1>2 DEF StopCloseSockets
  <2>3. ASSUME NEW s \in Listed
        PROVE  Replies(ss'[s], parse[s]) /\ Alive(s) /\ Alive(s)'
    <3>1. s \in Session /\ ss[s] \in SessionObject /\ parse[s] \in ParsePc
      BY ListedInMap DEF TypeOK, ParsePc
    <3>2. Replies(ss[s], parse[s]) /\ ss'[s] = Closed(ss[s])
      BY <2>1, <2>2, <3>1 DEF Served
    <3>3. Replies(ss'[s], parse[s]) /\ ss'[s].io # "none"
      BY <3>1, <3>2, Objects DEF Replies
    <3> QED BY <3>1, <3>3, Objects DEF OneOwner, Alive
  <2>4. \A s \in Session : Alive(s)' <=> Alive(s)
    BY <2>1, <2>2, <2>3 DEF Alive
  <2>5. \A t \in Thread : (Holds(t)' <=> Holds(t)) /\ filter'[t].ss = filter[t].ss
    BY <2>1 DEF Holds
  <2>6. OneOwner'
    BY <2>1, <2>4, <2>5 DEF OneOwner
  <2>7. Fresh'
    <3>1. accepted # NoSession => accepted \in Session \ sss
      BY <2>1 DEF OneOwner, TypeOK
    <3>2. \A t \in Thread : Holds(t) => filter[t].ss \in Session \ sss
      BY <2>1 DEF OneOwner, TypeOK, Holds, FilterState
    <3> QED BY <2>1, <2>2, <2>5, <3>1, <3>2 DEF Fresh
  <2>8. Served'
    <3>1. hand # NoSession => ss'[hand] = ss[hand]
      BY <2>1, <2>2 DEF OneOwner, TypeOK
    <3> QED BY <2>1, <2>3, <3>1 DEF Served
  <2> QED BY <2>6, <2>7, <2>8
<1> QED BY <1>1, <1>2

LEMMA OwnersStep ==
    ASSUME TypeOK, Hands, Phases, Cursor, Owners, Judged, [Next]_vars PROVE Owners'
BY OwnersListen, OwnersFilter, OwnersParse, OwnersNetIO, OwnersStop DEF Next

-----------------------------------------------------------------------------
(* A session that ends before its request was received goes at once. *)
LEMMA JudgedStep ==
    ASSUME TypeOK, Hands, Phases, Cursor, Owners, Judged, [Next]_vars PROVE Judged'
<1> USE DEF filterVars, listenVars, stopVars
<1>1. /\ ss \in [Session -> SessionObject]
      /\ \A s \in Listed : s \in Session /\ Replies(ss[s], parse[s]) /\ parse[s] \in ParsePc
  BY ListedInMap DEF Owners, Served, TypeOK, ParsePc
<1>2. ASSUME UNCHANGED <<netio, cursor>>, Listed' \subseteq Listed,
             \A s \in Listed : ss'[s].io = ss[s].io /\ ss'[s].active = ss[s].active
      PROVE  Judged'
  BY <1>2 DEF Judged
<1>3. ASSUME netio' # "delete", netio # "delete", Listed' \subseteq Listed,
             \A s \in Listed' : ss'[s].io = ss[s].io /\ ss'[s].active = ss[s].active
      PROVE  Judged'
  BY <1>3 DEF Judged
<1>4. ASSUME NEW s \in Session, NEW o \in SessionObject, s \notin Listed,
             ss' = [ss EXCEPT ![s] = o], UNCHANGED <<netio, cursor>>,
             \/ Listed' = Listed
             \/ Listed' = Listed \cup {s} /\ (o.io = "send" \/ o.active)
      PROVE  Judged'
  <2>1. ss'[s] = o /\ \A u \in Listed : ss'[u] = ss[u]
    BY <1>1, <1>4
  <2> QED BY <1>4, <2>1 DEF Judged
<1>5. accepted # NoSession => accepted \notin Listed /\ accepted \in Session
  BY DEF Owners, OneOwner, TypeOK
<1>6. CASE ListenCheck \/ ListenCount \/ ListenEnd \/ \E t \in Thread : ListenSpawn(t)
  <2>1. UNCHANGED <<netio, cursor, ss>> /\ Listed' = Listed
    BY <1>6 DEF ListenCheck, ListenCount, ListenEnd, ListenSpawn, netioVars, Listed, MapLockFree
  <2> QED BY <1>2, <2>1
<1>7. CASE ListenAccept
  <2>1. UNCHANGED <<netio, cursor>> /\ Listed' = Listed
    BY <1>7 DEF ListenAccept, netioVars, Listed, MapLockFree
  <2>2. CASE UNCHANGED <<ss, accepted>>
    BY <1>2, <2>1, <2>2
  <2>3. ASSUME NEW s \in Session, ~Alive(s), ss' = [ss EXCEPT ![s] = NewSession] PROVE Judged'
    <3>1. s \notin Listed
      BY <2>3 DEF Owners, OneOwner
    <3> QED BY <1>4, <2>1, <2>3, <3>1, SessionTypes
  <2> QED BY <1>7, <2>2, <2>3 DEF ListenAccept
<1>8. CASE ListenQuit
  <2>1. accepted # NoSession /\ UNCHANGED <<netio, cursor>> /\ Listed' = Listed
    BY <1>8 DEF ListenQuit, Hands, netioVars, Listed, MapLockFree
  <2> QED BY <1>4, <1>5, <1>8, <2>1, SessionTypes DEF ListenQuit
<1>9. CASE ListenLimit
  <2>1. accepted # NoSession /\ UNCHANGED <<netio, cursor>>
    BY <1>9 DEF ListenLimit, Hands
  <2>2. CASE Answers503
    <3>1. Listed' = Listed \cup {accepted} /\ ss' = [ss EXCEPT ![accepted] = Limited(ss[accepted])]
      BY <1>9, <2>2 DEF ListenLimit, Listed, MapLockFree, Insert
    <3>2. ss[accepted] \in SessionObject /\ Limited(ss[accepted]) \in SessionObject
      BY <1>1, <1>5, <2>1, SessionTypes
    <3>3. Limited(ss[accepted]).io = "send"
      BY <3>2 DEF Limited, SessionObject
    <3> QED BY <1>4, <1>5, <2>1, <3>1, <3>2, <3>3
  <2>3. CASE ~Answers503
    <3>1. Listed' = Listed /\ ss' = [ss EXCEPT ![accepted] = Deleted]
      BY <1>9, <2>3 DEF ListenLimit, Listed, MapLockFree
    <3> QED BY <1>4, <1>5, <2>1, <3>1, SessionTypes
  <2> QED BY <2>2, <2>3
<1>10. ASSUME NEW t \in Thread, FilterStart(t) \/ FilterPass(t) \/ FilterSignal(t) \/ FilterExit(t)
       PROVE  Judged'
  <2>1. UNCHANGED <<netio, cursor, ss>> /\ Listed' = Listed
    BY <1>10 DEF FilterStart, FilterPass, FilterSignal, FilterExit, netioVars, Listed, MapLockFree
  <2> QED BY <1>2, <2>1
<1>11. ASSUME NEW t \in Thread, FilterDeny(t) \/ FilterInsert(t) PROVE Judged'
  <2> DEFINE s == filter[t].ss
  <2>1. s \in Session /\ s \notin Listed /\ UNCHANGED <<netio, cursor>>
    BY <1>11 DEF FilterDeny, FilterInsert, netioVars, TypeOK, FilterState, Holds, Owners, OneOwner
  <2>2. CASE FilterInsert(t) /\ active
    <3>1. Listed' = Listed \cup {s} /\ ss' = [ss EXCEPT ![s] = Accepted(ss[s])]
      BY <2>2 DEF FilterInsert, Listed, MapLockFree, Insert
    <3>2. ss[s] \in SessionObject /\ Accepted(ss[s]) \in SessionObject
      BY <1>1, <2>1, SessionTypes
    <3>3. Accepted(ss[s]).active
      BY <3>2 DEF Accepted, SessionObject
    <3> QED BY <1>4, <2>1, <3>1, <3>2, <3>3
  <2>3. CASE FilterDeny(t) \/ ~active
    <3>1. Listed' = Listed /\ ss' = [ss EXCEPT ![s] = Deleted]
      BY <1>11, <2>3 DEF FilterDeny, FilterInsert, netioVars, Listed, MapLockFree
    <3> QED BY <1>4, <2>1, <3>1, SessionTypes
  <2> QED BY <1>11, <2>2, <2>3
<1>12. ASSUME NEW s \in Session, Parse(s) \/ Expire(s) PROVE Judged'
  <2>1. UNCHANGED <<netio, cursor>> /\ Listed' = Listed
    BY <1>12 DEF Parse, ParseReply, ParseShow, ParseDone, Expire, netioVars, Listed, MapLockFree
  <2>2. \/ ss' = [ss EXCEPT ![s] = [ss[s] EXCEPT !.reply = "unsent"]]
        \/ ss' = [ss EXCEPT ![s] = [ss[s] EXCEPT !.canDelete = TRUE]]
        \/ ss' = [ss EXCEPT ![s] = [ss[s] EXCEPT !.timer = "old"]]
        \/ ss' = ss
    BY <1>12 DEF Parse, ParseReply, ParseShow, ParseDone, Expire
  <2>3. \A u \in Session : ss'[u].io = ss[u].io /\ ss'[u].active = ss[u].active
    BY <1>1, <2>2 DEF SessionObject
  <2> QED BY <1>1, <1>2, <2>1, <2>3
<1>13. CASE NetIOCheck \/ NetIOReset \/ NetIOWake \/ NetIOSelect \/ NetIOBegin \/ NetIOScan
  <2>1. netio # "delete" /\ netio' # "delete" /\ ss' = ss /\ Listed' = Listed
    BY <1>13 DEF NetIOCheck, NetIOReset, NetIOWake, NetIOSelect, NetIOBegin, NetIOScan,
       Listed, MapLockFree
  <2> QED BY <1>3, <2>1
<1>14. CASE NetIOEnd \/ NetIOEndClear
  <2>1. netio # "delete" /\ netio' # "delete" /\ ss' = ss
    BY <1>14 DEF NetIOEnd, NetIOEndClear
  <2>2. Listed' \subseteq Listed
    <3>1. CASE NetIOEnd
      <4>1. Listed = sss /\ Listed' = (ahead' \cup {cursor'}) \ {NoSession} /\ MoveCursor(sss)
        BY <3>1 DEF NetIOEnd, Listed, MapLockFree
      <4> QED BY <4>1 DEF MoveCursor
    <3>2. CASE NetIOEndClear
      BY <3>2 DEF NetIOEndClear, Listed, MapLockFree
    <3> QED BY <1>14, <3>1, <3>2
  <2> QED BY <1>3, <2>1, <2>2
<1>15. CASE NetIOTransfer
  <2>1. /\ netio = "visit" /\ netio' = "delete" /\ cursor' = cursor /\ Listed' = Listed
        /\ \A s \in Session \ {cursor} : ss'[s] = ss[s]
    BY <1>1, <1>15 DEF NetIOTransfer, Listed, MapLockFree
  <2> QED BY <1>1, <2>1 DEF Judged
<1>16. CASE NetIODelete \/ NetIONext
  <2>1. cursor \in Listed /\ cursor \in Session
    BY <1>16, <1>1 DEF NetIODelete, NetIONext, Cursor, CursorValid, Listed, MapLockFree
  <2>2. /\ \A s \in Session \ {cursor} : ss'[s] = ss[s]
        /\ Listed' \subseteq Listed
    BY <1>1, <1>16 DEF NetIODelete, NetIONext, Listed, MapLockFree
  <2>3. CASE NetIODelete
    <3>1. cursor \notin Listed'
      BY <2>3 DEF NetIODelete, Listed, MapLockFree
    <3> QED BY <1>1, <2>2, <3>1 DEF Judged
  <2>4. CASE NetIONext
    <3>1. ss' = ss /\ ~MayDelete(ss[cursor])
      BY <2>4 DEF NetIONext
    <3>2. ss[cursor].io = "recv" => ss[cursor].active
      BY <1>1, <2>1, <3>1 DEF Replies, MayDelete
    <3> QED BY <2>2, <3>1, <3>2 DEF Judged
  <2> QED BY <1>16, <2>3, <2>4
<1>17. CASE NetIOClose
  <2>1. /\ netio # "delete" /\ netio' # "delete" /\ Listed' = Listed
        /\ ss' = [ss EXCEPT ![hand] = Deleted] /\ hand \notin Listed
    BY <1>17 DEF NetIOClose, Listed, MapLockFree, Owners, OneOwner
  <2> QED BY <1>1, <1>3, <2>1
<1>18. CASE NetIOEndClose
  <2>1. /\ netio # "delete" /\ netio' # "delete" /\ Listed' = Listed
        /\ ss' = [ss EXCEPT ![cursor] = Closed(ss[cursor])]
    BY <1>18 DEF NetIOEndClose, Listed, MapLockFree
  <2>2. \A s \in Listed : ss'[s].io = ss[s].io /\ ss'[s].active = ss[s].active
    BY <1>1, <2>1, Objects
  <2> QED BY <1>3, <2>1, <2>2
<1>19. CASE NetIOEndDelete
  <2>1. /\ netio # "delete" /\ netio' # "delete" /\ MoveCursor(ahead)
        /\ ss' = [ss EXCEPT ![cursor] = Deleted]
        /\ Listed = (ahead \cup {cursor}) \ {NoSession}
        /\ Listed' = (ahead' \cup {cursor'}) \ {NoSession}
    BY <1>19 DEF NetIOEndDelete, Listed, MapLockFree
  <2>2. Listed' \subseteq Listed /\ cursor \notin Listed'
    BY <2>1 DEF MoveCursor, Cursor, CursorValid
  <2> QED BY <1>1, <1>3, <2>1, <2>2
<1>20. CASE StopBegin \/ StopSignal \/ StopJoin \/ StopPoll \/ StartBegin
  <2>1. UNCHANGED <<netio, cursor, ss>> /\ Listed' = Listed
    BY <1>20 DEF StopBegin, StopSignal, StopJoin, StopPoll, StartBegin, netioVars, Listed, MapLockFree
  <2> QED BY <1>2, <2>1
<1>21. CASE StartThreads
  <2>1. netio # "delete" /\ netio' # "delete" /\ ss' = ss /\ Listed' = Listed
    BY <1>21 DEF StartThreads, Phases, Listed, MapLockFree
  <2> QED BY <1>3, <2>1
<1>22. CASE StopCloseSockets
  <2>1. UNCHANGED <<netio, cursor>> /\ Listed' = Listed
    BY <1>22 DEF StopCloseSockets, netioVars, Listed, MapLockFree
  <2>2. \A s \in Session : ss'[s] = Closed(ss[s]) \/ ss'[s] = ss[s]
    BY <1>22 DEF StopCloseSockets
  <2>3. \A s \in Session : ss'[s].io = ss[s].io /\ ss'[s].active = ss[s].active
    BY <1>1, <2>2, Objects
  <2> QED BY <1>1, <1>2, <2>1, <2>3
<1>23. CASE UNCHANGED vars
  <2>1. UNCHANGED <<netio, cursor, ss>> /\ Listed' = Listed
    BY <1>23 DEF vars, netioVars, Listed, MapLockFree
  <2> QED BY <1>2, <2>1
<1> QED
  BY <1>6, <1>7, <1>8, <1>9, <1>10, <1>11, <1>12, <1>13, <1>14, <1>15, <1>16, <1>17, <1>18, <1>19,
     <1>20, <1>21, <1>22, <1>23
  DEF Next, Listen, Filter, NetIO, StopSteps

(* When the server is down only sessions turned away come into the map. *)
LEMMA EmptiedStep ==
    ASSUME TypeOK, Hands, Phases, Cursor, Owners, Emptied, [Next]_vars PROVE Emptied'
<1> USE DEF Emptied, Phases, filterVars, listenVars, netioVars, stopVars
<1>1. ss \in [Session -> SessionObject] /\ sss \subseteq Session
  BY DEF TypeOK
<1>2. ASSUME (netio' = "done" /\ ~active') => (netio = "done" /\ ~active), sss' \subseteq sss,
             \A s \in sss : ss'[s].limited = ss[s].limited
      PROVE  Emptied'
  BY <1>2
<1>3. ASSUME NEW s \in Session, NEW o \in SessionObject, s \notin sss, UNCHANGED <<netio, active>>,
             ss' = [ss EXCEPT ![s] = o], (sss' = sss \/ (sss' = sss \cup {s} /\ o.limited))
      PROVE  Emptied'
  BY <1>1, <1>3
<1>4. ASSUME NEW s \in Session, s \notin sss, UNCHANGED <<netio, active, sss>>,
              ss' = [ss EXCEPT ![s] = Deleted]
       PROVE  Emptied'
  BY <1>1, <1>4
<1>5. netio = "done" /\ ~active => Listed = sss
  BY DEF Listed, MapLockFree
<1>6. CASE ListenCheck \/ ListenCount \/ ListenEnd \/ \E t \in Thread : ListenSpawn(t)
  BY <1>2, <1>6 DEF ListenCheck, ListenCount, ListenEnd, ListenSpawn
<1>7. CASE Listen /\ (netio # "done" \/ active)
  BY <1>7 DEF Listen, ListenCheck, ListenAccept, ListenCount, ListenLimit, ListenQuit, ListenEnd,
     ListenSpawn
<1>8. CASE (ListenAccept \/ ListenQuit \/ ListenLimit) /\ netio = "done" /\ ~active
  <2>1. UNCHANGED <<netio, active>>
    BY <1>8 DEF ListenAccept, ListenQuit, ListenLimit
  <2>2. accepted # NoSession => accepted \in Session /\ accepted \notin sss
    BY <1>5, <1>8 DEF Owners, OneOwner, TypeOK
  <2>3. CASE ListenAccept
    <3>1. sss' = sss /\ ss' = ss
      BY <1>8, <2>3 DEF ListenAccept
    <3> QED BY <1>2, <2>1, <3>1
  <2>4. CASE ListenQuit
    <3>1. accepted # NoSession
      BY <2>4 DEF ListenQuit, Hands
    <3> QED BY <1>4, <2>1, <2>2, <2>4, <3>1 DEF ListenQuit
  <2>5. CASE ListenLimit
    <3>1. accepted # NoSession
      BY <2>5 DEF ListenLimit, Hands
    <3>2. CASE Answers503
      <4>1. sss' = sss \cup {accepted} /\ ss' = [ss EXCEPT ![accepted] = Limited(NewSession)]
        BY <2>5, <3>1, <3>2 DEF ListenLimit, Insert, Owners, Fresh
      <4> QED BY <1>3, <2>1, <2>2, <3>1, <4>1, SessionTypes, Objects
    <3>3. CASE ~Answers503
      BY <1>4, <2>1, <2>2, <2>5, <3>1, <3>3 DEF ListenLimit
    <3> QED BY <3>2, <3>3
  <2> QED BY <1>8, <2>3, <2>4, <2>5
<1>9. ASSUME NEW t \in Thread, Filter(t) PROVE Emptied'
  <2>1. UNCHANGED <<netio, active>>
    BY <1>9 DEF Filter, FilterStart, FilterDeny, FilterPass, FilterInsert, FilterSignal, FilterExit
  <2>2. CASE netio # "done" \/ active
    BY <2>1, <2>2
  <2>3. CASE FilterStart(t) \/ FilterPass(t) \/ FilterSignal(t) \/ FilterExit(t)
    BY <1>2, <2>3 DEF FilterStart, FilterPass, FilterSignal, FilterExit
  <2>4. CASE (FilterDeny(t) \/ FilterInsert(t)) /\ netio = "done" /\ ~active
    <3>1. filter[t].ss \in Session /\ filter[t].ss \notin sss
      BY <1>5, <2>4 DEF FilterDeny, FilterInsert, TypeOK, FilterState, Holds, Owners, OneOwner
    <3>2. ss' = [ss EXCEPT ![filter[t].ss] = Deleted] /\ sss' = sss
      BY <2>4 DEF FilterDeny, FilterInsert
    <3> QED BY <1>4, <2>1, <3>1, <3>2
  <2> QED BY <1>9, <2>2, <2>3, <2>4 DEF Filter
<1>10. ASSUME NEW s \in Session, Parse(s) \/ Expire(s) PROVE Emptied'
  <2>1. UNCHANGED <<netio, active, sss>>
    BY <1>10 DEF Parse, ParseReply, ParseShow, ParseDone, Expire
  <2>2. \/ ss' = [ss EXCEPT ![s] = [ss[s] EXCEPT !.reply = "unsent"]]
        \/ ss' = [ss EXCEPT ![s] = [ss[s] EXCEPT !.canDelete = TRUE]]
        \/ ss' = [ss EXCEPT ![s] = [ss[s] EXCEPT !.timer = "old"]]
        \/ ss' = ss
    BY <1>10 DEF Parse, ParseReply, ParseShow, ParseDone, Expire
  <2>3. \A u \in Session : ss'[u].limited = ss[u].limited
    BY <1>1, <2>2 DEF SessionObject
  <2> QED BY <1>1, <1>2, <2>1, <2>3
<1>11. CASE NetIO
  <2>1. CASE NetIOEndClear
    BY <2>1 DEF NetIOEndClear
  <2>2. CASE ~NetIOEndClear
    <3>1. netio' # "done"
      BY <1>11, <2>2 DEF NetIO, NetIOCheck, NetIOReset, NetIOWake, NetIOSelect, NetIOBegin,
         NetIOScan, NetIOTransfer, NetIODelete, NetIOClose, NetIONext, NetIOEnd,
         NetIOEndClose, NetIOEndDelete
    <3> QED BY <3>1
  <2> QED BY <2>1, <2>2
<1>12. CASE StopBegin \/ StopSignal \/ StopJoin \/ StopPoll \/ StartBegin
  BY <1>2, <1>12 DEF StopBegin, StopSignal, StopJoin, StopPoll, StartBegin
<1>13. CASE StartThreads
  BY <1>13 DEF StartThreads
<1>14. CASE StopCloseSockets
  <2>1. \A s \in Session : ss'[s] = Closed(ss[s]) \/ ss'[s] = ss[s]
    BY <1>14 DEF StopCloseSockets
  <2>2. \A s \in Session : ss'[s].limited = ss[s].limited
    BY <1>1, <2>1, Objects
  <2> QED BY <1>1, <1>2, <1>14, <2>2 DEF StopCloseSockets
<1>15. CASE UNCHANGED vars
  BY <1>2, <1>15 DEF vars
<1> QED
  BY <1>6, <1>7, <1>8, <1>9, <1>10, <1>11, <1>12, <1>13, <1>14, <1>15 DEF Next, Listen, StopSteps

-----------------------------------------------------------------------------
(* While NetIOThread has a session in its hand, nobody changes it.         *)
LEMMA DismissedStep ==
    ASSUME IInv, [Next]_vars PROVE Dismissed'
<1> USE DEF IInv
<1> SUFFICES ASSUME hand' # NoSession PROVE ~ss'[hand'].active \/ TimedOut(ss'[hand'])
  BY DEF Dismissed, TimedOut
<1>1. CASE NetIODelete
  <2>1. ss[cursor] \in SessionObject /\ hand' = cursor /\ ss'[cursor] = Closed(ss[cursor])
    BY <1>1 DEF NetIODelete, TypeOK, Cursor, CursorValid
  <2>2. ss'[cursor].active = ss[cursor].active /\ ss'[cursor].timer = ss[cursor].timer
    BY <2>1 DEF Closed, SessionObject
  <2> QED BY <1>1, <2>1, <2>2 DEF NetIODelete, MayDelete, TimedOut
<1> SUFFICES ASSUME ~NetIODelete PROVE ~ss'[hand'].active \/ TimedOut(ss'[hand'])
  BY <1>1
<1>2. hand' = hand /\ netio = "close" /\ ~NetIO
  <2>1. hand' = hand
    BY DEF Next, vars, netioVars, Listen, ListenCheck, ListenAccept, ListenCount, ListenLimit,
           ListenQuit, ListenEnd, ListenSpawn, Filter, FilterStart, FilterDeny, FilterPass,
           FilterInsert, FilterSignal, FilterExit, Parse, ParseReply, ParseShow, ParseDone, NetIO,
           NetIOCheck, NetIOReset, NetIOWake, NetIOSelect, NetIOBegin, NetIOScan, NetIOTransfer,
           NetIOClose, NetIONext, NetIOEnd, NetIOEndClose, NetIOEndDelete, NetIOEndClear, Expire,
           StopBegin, StopSteps, StopCloseSockets, StopSignal, StopJoin, StopPoll, StartBegin,
           StartThreads
  <2>2. netio = "close"
    BY <2>1 DEF Hands
  <2> QED
    BY <2>1, <2>2 DEF NetIO, NetIOCheck, NetIOReset, NetIOWake, NetIOSelect, NetIOBegin, NetIOScan,
           NetIOTransfer, NetIOClose, NetIONext, NetIOEnd, NetIOEndClose, NetIOEndDelete, NetIOEndClear
<1>3. /\ hand \in Session /\ ss \in [Session -> SessionObject]
      /\ hand \notin sss /\ accepted # hand /\ ~Parsed(hand)
      /\ \A t \in Thread : Holds(t) => filter[t].ss # hand /\ filter[t].ss \in Session
  <2>1. hand # NoSession /\ Listed = sss
    BY <1>2 DEF Listed, MapLockFree
  <2>2. \A t \in Thread : Holds(t) => filter[t].ss \in Session
    BY DEF Holds, TypeOK, FilterState
  <2> QED BY <2>1, <2>2 DEF TypeOK, Owners, OneOwner, Served, Parsed
<1>4. \/ ss'[hand] = ss[hand] \/ ss'[hand] = Closed(ss[hand])
  <2>1. CASE Listen
    <3>1. accepted \in Session \/ UNCHANGED ss \/ ListenAccept
      BY <2>1 DEF Listen, ListenCheck, ListenAccept, ListenCount, ListenLimit, ListenQuit,
                  ListenEnd, ListenSpawn, Hands, TypeOK
    <3>2. Alive(hand)
      BY <1>2, <1>3 DEF Owners, OneOwner
    <3> QED
      BY <2>1, <1>3, <3>1, <3>2 DEF Listen, ListenCheck, ListenAccept, ListenCount, ListenLimit,
         ListenQuit, ListenEnd, ListenSpawn
  <2>2. ASSUME NEW t \in Thread, Filter(t) PROVE ss'[hand] = ss[hand]
    BY <2>2, <1>3 DEF Filter, FilterStart, FilterDeny, FilterPass, FilterInsert, FilterSignal,
       FilterExit, Holds
  <2>3. ASSUME NEW s \in Session, Parse(s) \/ Expire(s) PROVE ss'[hand] = ss[hand]
    BY <2>3, <1>3 DEF Parse, ParseReply, ParseShow, ParseDone, Expire, Parsed
  <2>4. CASE StopCloseSockets
    BY <2>4, <1>3 DEF StopCloseSockets
  <2>5. CASE StopBegin \/ StopSignal \/ StopJoin \/ StopPoll \/ StartBegin \/ StartThreads
             \/ UNCHANGED vars
    BY <2>5 DEF StopBegin, StopSignal, StopJoin, StopPoll, StartBegin, StartThreads, vars
  <2> QED BY <1>2, <2>1, <2>2, <2>3, <2>4, <2>5 DEF Next, StopSteps
<1>5. \A o \in SessionObject : Closed(o).active = o.active /\ Closed(o).timer = o.timer
  BY DEF Closed, SessionObject
<1>6. ~ss[hand].active \/ TimedOut(ss[hand])
  BY <1>2 DEF Dismissed
<1> QED BY <1>2, <1>3, <1>4, <1>5, <1>6 DEF TimedOut

-----------------------------------------------------------------------------
THEOREM Invariance == Spec => []IInv
<1>1. ASSUME IInv, [Next]_vars PROVE IInv'
  <2> USE <1>1 DEF IInv
  <2>1. TypeOK' /\ Counted'
    BY TypeStep, CountStep
  <2>2. Hands' /\ Phases'
    BY HandsStep, PhasesStep
  <2>3. Cursor'
    BY CursorStep DEF Owners
  <2>4. Owners'
    BY OwnersStep
  <2>5. Judged' /\ Emptied' /\ Dismissed'
    BY JudgedStep, EmptiedStep, DismissedStep
  <2> QED BY <2>1, <2>2, <2>3, <2>4, <2>5
<1> QED BY InitInv, <1>1, PTL DEF Spec

(* Every variable keeps its type, the count of filtering threads among     *)
(* them, which is never negative.                                          *)
THEOREM TypeCorrect == Spec => []TypeOK
<1>1. IInv => TypeOK
  BY DEF IInv
<1> QED BY Invariance, <1>1, PTL

(* No session is lost, deleted twice or changed after it has been deleted; *)
(* the only thing anybody does to one it does not own is FilterExit's read *)
(* of its address.                                                         *)
THEOREM OwnedOnce == Spec => []OneOwner
<1>1. IInv => OneOwner
  BY DEF IInv, Owners
<1> QED BY Invariance, <1>1, PTL

(* NetIOThread's iterator points at a session in the map. *)
THEOREM IteratorValid == Spec => []CursorValid
<1>1. IInv => CursorValid
  BY DEF IInv, Cursor
<1> QED BY Invariance, <1>1, PTL

(* The session a parse thread works on is there as long as it works. *)
THEOREM ParsedIsKept == Spec => []ParseKeepsSession
<1>1. IInv => ParseKeepsSession
  BY DEF IInv, Owners, Served, Replies, ParseKeepsSession, Parsed
<1> QED BY Invariance, <1>1, PTL

(* A session is deleted once, and never under the thread that parses it. *)
THEOREM OwnedAndKept == Spec => []SessionsOwned
<1>1. OneOwner /\ ParseKeepsSession => SessionsOwned
  BY DEF SessionsOwned
<1> QED BY OwnedOnce, ParsedIsKept, <1>1, PTL

(* A request that was received is left without its whole reply only when   *)
(* the connection broke, when the reply -- its making included -- took     *)
(* longer than timeout_s, or when it is the 503 of a session turned away.  *)
THEOREM RepliesWhole == Spec => []ReplyComplete
<1>1. ASSUME IInv PROVE ReplyComplete
  <2> SUFFICES ASSUME NEW s \in Session, hand = s, ss[s].io = "send", ss[s].reply # "sent",
                      ~ss[s].error, ~ss[s].limited
               PROVE  ss[s].timer = "old"
    BY DEF ReplyComplete
  <2> USE <1>1 DEF IInv, Owners
  <2>1. Replies(ss[s], parse[s]) /\ (~ss[s].active \/ TimedOut(ss[s]))
    BY ServerAssumption DEF Served, Dismissed
  <2>2. ss[s].active /\ ss[s].timer # "unset"
    BY <2>1 DEF Replies
  <2>3. ss[s].timer \in {"unset", "fresh", "old"}
    BY DEF TypeOK, SessionObject
  <2> QED BY <2>1, <2>2, <2>3 DEF TimedOut
<1> QED BY Invariance, <1>1, PTL

(* When Stop has returned no parse thread works, nothing is in anybody's   *)
(* hands, and only sessions turned away may still be in the map.           *)
THEOREM StoppedClean == Spec => []NothingLeftBehind
<1>1. ASSUME IInv PROVE NothingLeftBehind
  <2> SUFFICES ASSUME stop = "stopped"
               PROVE  /\ \A s \in sss : ss[s].limited
                      /\ accepted = NoSession /\ hand = NoSession
                      /\ \A s \in Session : parse[s] = "none"
    BY DEF NothingLeftBehind, Parsed
  <2> USE <1>1 DEF IInv, Owners
  <2>1. netio = "done" /\ listen = "done" /\ ~active
    BY DEF Phases
  <2>2. /\ \A s \in sss : ss[s].limited
        /\ accepted = NoSession /\ hand = NoSession
    BY <2>1 DEF Emptied, Hands
  <2>3. \A s \in Listed : s \in sss /\ parse[s] = "none"
    BY <2>1, <2>2, ListedInMap DEF Served, Replies
  <2> QED BY <2>2, <2>3 DEF Served
<1> QED BY Invariance, <1>1, PTL
-----------------------------------------------------------------------------
(* NetIOThread is woken for a session: the event is set, or the filtering  *)
(* thread that has inserted the session is about to set it.                *)
Waking(s) ==
    sessionSignal \/ \E t \in Thread : filter[t].pc = "signal" /\ filter[t].ss = s

(* A session that is to be served, and was not just turned away. *)
Unserved(s) == s \in Listed /\ ~ss[s].limited

(* NetIOThread does not sleep while there is a session to serve. *)
Awake == \A s \in Session : Unserved(s) => Waking(s)

(* Start switches the event off while a filtering thread that Stop did not *)
(* wait for has inserted a session already.                                *)
ResetByStart == StartThreads /\ \E s \in Session : Unserved(s)

LEMMA AwakeRule ==
    ASSUME Awake, sessionSignal => sessionSignal',
           \A t \in Thread : filter[t].pc = "signal" => filter'[t] = filter[t] \/ sessionSignal',
           \A s \in Session : Unserved(s)' => Unserved(s) \/ Waking(s)'
    PROVE  Awake'
<1> SUFFICES ASSUME NEW s \in Session, Unserved(s), Waking(s) PROVE Waking(s)'
  BY DEF Awake
<1>1. CASE sessionSignal
  BY <1>1 DEF Waking
<1>2. CASE \E t \in Thread : filter[t].pc = "signal" /\ filter[t].ss = s
  BY <1>2 DEF Waking
<1> QED BY <1>1, <1>2 DEF Waking

(* The rule for what does not touch the event or a thread that will set it.*)
LEMMA AwakeFrame ==
    ASSUME Awake, UNCHANGED sessionSignal,
           \A t \in Thread : filter[t].pc = "signal" => filter'[t] = filter[t],
           \A s \in Session : Unserved(s)' => Unserved(s)
    PROVE  Awake'
BY AwakeRule

LEMMA AwakeListen ==
    ASSUME IInv, Awake, Listen PROVE Awake'
<1> USE DEF IInv
<1>1. Listed \subseteq Session /\ ss \in [Session -> SessionObject]
  BY ListedInMap DEF TypeOK
<1>2. CASE ListenCheck \/ ListenCount \/ ListenEnd
  <2>1. UNCHANGED <<sessionSignal, filter, ss>> /\ Listed' = Listed
    BY <1>2 DEF ListenCheck, ListenCount, ListenEnd, filterVars, netioVars, Listed, MapLockFree
  <2> QED BY <2>1, AwakeFrame DEF Unserved
<1>3. CASE ListenAccept
  <2>1. UNCHANGED <<sessionSignal, filter>> /\ Listed' = Listed
    BY <1>3 DEF ListenAccept, filterVars, netioVars, Listed, MapLockFree
  <2>2. ss' = ss \/ \E s \in Session : ~Alive(s) /\ ss' = [ss EXCEPT ![s] = NewSession]
    BY <1>3 DEF ListenAccept
  <2>3. \A s \in Listed : ss'[s] = ss[s]
    BY <1>1, <2>2 DEF Owners, OneOwner
  <2> QED BY <2>1, <2>3, AwakeFrame DEF Unserved
<1>4. CASE ListenLimit \/ ListenQuit
  <2>1. accepted \in Session /\ Held(accepted)
    BY <1>4 DEF ListenLimit, ListenQuit, Hands, TypeOK, Held
  <2>2. accepted \notin Listed /\ ss[accepted] = NewSession
    BY <2>1, HeldIsNew
  <2>3. UNCHANGED <<sessionSignal, filter>>
    BY <1>4 DEF ListenLimit, ListenQuit, filterVars
  <2>4. PICK o : ss' = [ss EXCEPT ![accepted] = o] /\ (Listed' # Listed => o.limited)
                 /\ Listed' \subseteq Listed \cup {accepted}
    <3>1. CASE Answers503 /\ ListenLimit
      <4>1. ss' = [ss EXCEPT ![accepted] = Limited(NewSession)]
        BY <2>2, <3>1 DEF ListenLimit
      <4>2. MapLockFree /\ netio' = netio /\ sss' = sss \cup {accepted}
        BY <2>1, <3>1, Inserted DEF ListenLimit
      <4>3. Listed' \subseteq Listed \cup {accepted}
        BY <4>2 DEF Listed, MapLockFree
      <4> QED BY <4>1, <4>3, Objects
    <3>2. CASE ~Answers503 \/ ListenQuit
      <4>1. /\ ss' = [ss EXCEPT ![accepted] = Deleted]
            /\ UNCHANGED <<sss, netio, ahead, cursor>>
        BY <1>4, <3>2 DEF ListenLimit, ListenQuit, netioVars
      <4>2. Listed' = Listed
        BY <4>1 DEF Listed, MapLockFree
      <4> QED BY <4>1, <4>2
    <3> QED BY <1>4, <3>1, <3>2
  <2>5. ASSUME NEW s \in Session, Unserved(s)' PROVE Unserved(s)
    <3>1. s # accepted
      BY <1>1, <2>1, <2>2, <2>4, <2>5 DEF Unserved
    <3> QED BY <1>1, <2>1, <2>4, <2>5, <3>1 DEF Unserved
  <2> QED BY <2>3, <2>5, AwakeFrame
<1>5. ASSUME NEW t \in Thread, ListenSpawn(t) PROVE Awake'
  <2>1. UNCHANGED <<sessionSignal, ss>> /\ Listed' = Listed
    BY <1>5 DEF ListenSpawn, netioVars, Listed, MapLockFree
  <2>2. \A u \in Thread : filter[u].pc = "signal" => filter'[u] = filter[u]
    BY <1>5 DEF ListenSpawn, TypeOK
  <2> QED BY <2>1, <2>2, AwakeFrame DEF Unserved
<1> QED BY <1>2, <1>3, <1>4, <1>5 DEF Listen

LEMMA AwakeFilter ==
    ASSUME IInv, Awake, NEW t \in Thread, Filter(t) PROVE Awake'
<1> USE DEF IInv
<1>1. /\ Listed \subseteq Session /\ ss \in [Session -> SessionObject]
      /\ filter \in [Thread -> FilterState]
  BY ListedInMap DEF TypeOK
<1>2. CASE FilterStart(t) \/ FilterPass(t) \/ FilterExit(t)
  <2>1. UNCHANGED <<sessionSignal, ss>> /\ Listed' = Listed
    BY <1>2 DEF FilterStart, FilterPass, FilterExit, netioVars, Listed, MapLockFree
  <2>2. filter[t].pc # "signal" /\ \A u \in Thread \ {t} : filter'[u] = filter[u]
    BY <1>1, <1>2 DEF FilterStart, FilterPass, FilterExit
  <2> QED BY <2>1, <2>2, AwakeFrame DEF Unserved
<1>3. CASE FilterDeny(t) \/ FilterInsert(t)
  <2>0. PICK s \in Session : s = filter[t].ss /\ filter[t].pc \in {"lookup", "insert"}
    BY <1>1, <1>3 DEF FilterDeny, FilterInsert, FilterState
  <2>1. s \in Session /\ Held(s) /\ filter[t].pc # "signal"
    BY <2>0 DEF Held, Holds
  <2>2. s \notin Listed
    BY <2>1, HeldIsNew
  <2>3. sessionSignal' = sessionSignal
    BY <1>3 DEF FilterDeny, FilterInsert
  <2>4. \A u \in Thread \ {t} : filter'[u] = filter[u]
    BY <1>1, <1>3 DEF FilterDeny, FilterInsert
  <2>5. \A u \in Session \ {s} : ss'[u] = ss[u]
    BY <1>1, <1>3, <2>0 DEF FilterDeny, FilterInsert
  <2>6. CASE UNCHANGED <<sss, ahead, cursor, netio>>
    <3>1. Listed' = Listed
      BY <2>6 DEF Listed, MapLockFree
    <3> QED BY <1>1, <2>1, <2>2, <2>3, <2>4, <2>5, <3>1, AwakeFrame DEF Unserved
  <2>7. CASE FilterInsert(t) /\ active
    <3>1. MapLockFree /\ netio' = netio /\ sss' = sss \cup {s}
      BY <2>0, <2>7, Inserted DEF FilterInsert
    <3>2. Listed' \subseteq Listed \cup {s}
      BY <3>1 DEF Listed, MapLockFree
    <3>3. filter' = [filter EXCEPT ![t].pc = "signal"]
      BY <2>7 DEF FilterInsert
    <3>4. filter'[t].pc = "signal" /\ filter'[t].ss = s
      BY <1>1, <2>0, <3>3, FilterMoves DEF FilterPc
    <3>5. Waking(s)'
      BY <3>4 DEF Waking
    <3>6. ASSUME NEW u \in Session, Unserved(u)' PROVE Unserved(u) \/ Waking(u)'
      BY <2>5, <3>2, <3>5, <3>6 DEF Unserved
    <3> QED BY <2>1, <2>3, <2>4, <3>6, AwakeRule
  <2> QED BY <1>3, <2>6, <2>7 DEF FilterDeny, FilterInsert, netioVars
<1>4. CASE FilterSignal(t)
  <2>1. sessionSignal'
    BY <1>4 DEF FilterSignal
  <2> QED BY <2>1 DEF Awake, Waking
<1> QED BY <1>2, <1>3, <1>4 DEF Filter

LEMMA AwakeNetIO ==
    ASSUME IInv, Awake, NetIO PROVE Awake'
<1> USE DEF IInv
<1>1. /\ Listed \subseteq Session /\ ss \in [Session -> SessionObject]
      /\ cursor # NoSession => cursor \in Session
      /\ hand # NoSession => hand \in Session
  BY ListedInMap DEF TypeOK
<1>2. UNCHANGED filter
  BY DEF NetIO, NetIOCheck, NetIOReset, NetIOWake, NetIOSelect, NetIOBegin, NetIOScan,
     NetIOTransfer, NetIODelete, NetIOClose, NetIONext, NetIOEnd, NetIOEndClose,
     NetIOEndDelete, NetIOEndClear, filterVars
<1>3. ASSUME NEW S \in SUBSET Session, MoveCursor(S)
      PROVE  (ahead' \cup {cursor'}) \ {NoSession} = S
  <2>1. CASE S = {}
    BY <1>3, <2>1 DEF MoveCursor
  <2>2. CASE S # {}
    <3>1. cursor' \in S /\ ahead' = S \ {cursor'} /\ NoSession \notin S
      BY <1>3, <2>2 DEF MoveCursor
    <3> QED BY <3>1
  <2> QED BY <2>1, <2>2
<1>4. CASE NetIOCheck \/ NetIOWake \/ NetIOSelect \/ NetIOBegin \/ NetIOScan \/ NetIONext
  <2>1. UNCHANGED <<ss, sessionSignal>> /\ Listed' = Listed
    BY <1>4 DEF NetIOCheck, NetIOWake, NetIOSelect, NetIOBegin, NetIOScan, NetIONext,
       Listed, MapLockFree
  <2> QED BY <1>2, <2>1, AwakeFrame DEF Unserved
<1>5. CASE NetIOReset
  <2>1. UNCHANGED ss /\ Listed' = Listed /\ Listed = sss
    BY <1>5 DEF NetIOReset, Listed, MapLockFree
  <2>2. CASE sss = {}
    BY <2>1, <2>2 DEF Awake, Unserved
  <2>3. CASE sss # {}
    <3>1. sessionSignal' = sessionSignal
      BY <1>5, <2>3 DEF NetIOReset, TypeOK
    <3> QED BY <1>2, <2>1, <3>1, AwakeFrame DEF Unserved
  <2> QED BY <2>2, <2>3
<1>6. CASE NetIOTransfer
  <2>1. UNCHANGED sessionSignal /\ Listed' = Listed /\ cursor \in Listed /\ cursor \in Session
    BY <1>1, <1>6 DEF NetIOTransfer, Cursor, CursorValid, Listed, MapLockFree
  <2>2. \A s \in Session : ss'[s].limited = ss[s].limited
    <3>1. CASE cursor \in fds
      <4>1. /\ Replies(ss[cursor], parse[cursor]) /\ parse[cursor] \in ParsePc
            /\ ss[cursor].io = "recv" => ss[cursor].active
        BY <1>6, <2>1 DEF Owners, Served, Judged, TypeOK, ParsePc, NetIOTransfer
      <4>2. PICK o \in IF ss[cursor].io = "recv" THEN Received(ss[cursor]) ELSE Sent(ss[cursor]) :
               ss' = [ss EXCEPT ![cursor] = o]
        BY <1>6, <3>1 DEF NetIOTransfer
      <4>3. o.limited = ss[cursor].limited
        BY <1>1, <2>1, <4>1, <4>2, OneTransfer
      <4> QED BY <1>1, <2>1, <4>2, <4>3
    <3>2. CASE cursor \notin fds
      BY <1>6, <3>2 DEF NetIOTransfer
    <3> QED BY <3>1, <3>2
  <2> QED BY <1>2, <2>1, <2>2, AwakeFrame DEF Unserved
<1>7. CASE NetIODelete
  <2>1. UNCHANGED sessionSignal /\ Listed' \subseteq Listed /\ cursor \in Session
    BY <1>1, <1>7 DEF NetIODelete, Cursor, CursorValid, Listed, MapLockFree
  <2>2. \A s \in Session : ss'[s].limited = ss[s].limited
    BY <1>1, <1>7, <2>1, Objects DEF NetIODelete
  <2> QED BY <1>2, <2>1, <2>2, AwakeFrame DEF Unserved
<1>8. CASE NetIOClose
  <2>1. UNCHANGED sessionSignal /\ Listed' = Listed /\ hand \notin Listed
    BY <1>7, <1>8 DEF NetIOClose, Listed, MapLockFree, Owners, OneOwner
  <2>2. \A s \in Session \ {hand} : ss'[s] = ss[s]
    BY <1>1, <1>8 DEF NetIOClose
  <2> QED BY <1>2, <2>1, <2>2, AwakeFrame DEF Unserved
<1>9. CASE NetIOEnd
  <2>1. UNCHANGED <<sessionSignal, ss>>
    BY <1>9 DEF NetIOEnd
  <2>2. Listed' = (ahead' \cup {cursor'}) \ {NoSession} /\ Listed = sss
    BY <1>9 DEF NetIOEnd, Listed, MapLockFree
  <2>3. Listed' = Listed
    BY <1>3, <1>9, <2>2 DEF NetIOEnd, TypeOK
  <2> QED BY <1>2, <2>1, <2>3, AwakeFrame DEF Unserved
<1>10. CASE NetIOEndClose
  <2>1. UNCHANGED sessionSignal /\ Listed' = Listed /\ cursor \in Session
    BY <1>1, <1>10 DEF NetIOEndClose, Listed, MapLockFree
  <2>2. \A s \in Session : ss'[s].limited = ss[s].limited
    BY <1>1, <1>10, <2>1, Objects DEF NetIOEndClose
  <2> QED BY <1>2, <2>1, <2>2, AwakeFrame DEF Unserved
<1>11. CASE NetIOEndDelete
  <2>1. UNCHANGED sessionSignal /\ cursor \in Session /\ cursor \notin ahead
    BY <1>1, <1>11 DEF NetIOEndDelete, Cursor, CursorValid
  <2>2. Listed = (ahead \cup {cursor}) \ {NoSession} /\ Listed' = (ahead' \cup {cursor'}) \ {NoSession}
    BY <1>11 DEF NetIOEndDelete, Listed, MapLockFree
  <2>3. Listed' = ahead
    BY <1>3, <1>11, <2>2 DEF NetIOEndDelete, TypeOK
  <2>4. \A s \in Session \ {cursor} : ss'[s] = ss[s]
    BY <1>1, <1>11 DEF NetIOEndDelete
  <2>5. ASSUME NEW s \in Session, Unserved(s)' PROVE Unserved(s)
    BY <2>1, <2>2, <2>3, <2>4, <2>5 DEF Unserved
  <2> QED BY <1>2, <2>1, <2>5, AwakeFrame
<1>12. CASE NetIOEndClear
  <2>1. Listed' = {}
    BY <1>12 DEF NetIOEndClear, Listed, MapLockFree
  <2> QED BY <2>1 DEF Awake, Unserved
<1> QED
  BY <1>4, <1>5, <1>6, <1>7, <1>8, <1>9, <1>10, <1>11, <1>12 DEF NetIO

LEMMA AwakeStop ==
    ASSUME IInv, Awake, StopBegin \/ StopSteps \/ StartBegin \/ StartThreads, ~ResetByStart
    PROVE  Awake'
<1> USE DEF IInv
<1>1. Listed \subseteq Session /\ ss \in [Session -> SessionObject] /\ sss \subseteq Session
  BY ListedInMap DEF TypeOK
<1>2. CASE StopBegin \/ StopJoin \/ StopPoll \/ StartBegin
  <2>1. UNCHANGED <<sessionSignal, ss, filter>> /\ Listed' = Listed
    BY <1>2 DEF StopBegin, StopJoin, StopPoll, StartBegin, filterVars, netioVars, Listed,
       MapLockFree
  <2> QED BY <2>1, AwakeFrame DEF Unserved
<1>3. CASE StopSignal
  BY <1>3 DEF StopSignal, Awake, Waking
<1>4. CASE StopCloseSockets
  <2>1. UNCHANGED <<sessionSignal, filter>> /\ Listed' = Listed
    BY <1>4 DEF StopCloseSockets, filterVars, netioVars, Listed, MapLockFree
  <2>2. \A s \in Session : ss'[s] = Closed(ss[s]) \/ ss'[s] = ss[s]
    BY <1>4 DEF StopCloseSockets
  <2>3. \A s \in Session : ss'[s].limited = ss[s].limited
    BY <1>1, <2>2, Objects
  <2> QED BY <2>1, <2>3, AwakeFrame DEF Unserved
<1>5. CASE StartThreads
  <2>1. Listed' = Listed /\ ss' = ss
    BY <1>5 DEF StartThreads, Listed, MapLockFree, Phases
  <2>2. \A s \in Session : ~Unserved(s)
    BY <1>5 DEF ResetByStart
  <2> QED BY <2>1, <2>2 DEF Awake, Unserved
<1> QED BY <1>2, <1>3, <1>4, <1>5 DEF StopSteps

LEMMA AwakeStep ==
    ASSUME IInv, Awake, [Next]_vars, ~ResetByStart PROVE Awake'
<1>1. ASSUME NEW s \in Session, Parse(s) \/ Expire(s) PROVE Awake'
  <2>1. UNCHANGED <<sessionSignal, filter>> /\ Listed' = Listed
    BY <1>1 DEF Parse, ParseReply, ParseShow, ParseDone, Expire, filterVars, netioVars, Listed,
       MapLockFree
  <2>2. \/ ss' = [ss EXCEPT ![s] = [ss[s] EXCEPT !.reply = "unsent"]]
        \/ ss' = [ss EXCEPT ![s] = [ss[s] EXCEPT !.canDelete = TRUE]]
        \/ ss' = [ss EXCEPT ![s] = [ss[s] EXCEPT !.timer = "old"]]
        \/ ss' = ss
    BY <1>1 DEF Parse, ParseReply, ParseShow, ParseDone, Expire
  <2>3. \A u \in Session : ss'[u].limited = ss[u].limited
    <3>1. ss \in [Session -> SessionObject]
      BY DEF IInv, TypeOK
    <3> QED BY <2>2, <3>1 DEF SessionObject
  <2> QED BY <2>1, <2>3, AwakeFrame DEF Unserved
<1>2. CASE UNCHANGED vars
  <2>1. UNCHANGED <<sessionSignal, filter, ss>> /\ Listed' = Listed
    BY <1>2 DEF vars, filterVars, netioVars, Listed, MapLockFree
  <2> QED BY <2>1, AwakeFrame DEF Unserved
<1> QED BY <1>1, <1>2, AwakeListen, AwakeFilter, AwakeNetIO, AwakeStop DEF Next

(* No wake-up is lost: NetIOThread, once there is nothing to serve that it *)
(* is not told of, is told of everything that comes into the map, and only *)
(* the ResetEvent of Start can take that back.                             *)
THEOREM WakeUpsKept == Spec => [][Awake /\ ~ResetByStart => Awake']_vars
<1>1. IInv /\ [Next]_vars => [Awake /\ ~ResetByStart => Awake']_vars
  BY AwakeStep
<1> QED BY Invariance, <1>1, PTL DEF Spec

LEMMA StartStep ==
    ASSUME [Next]_vars
    PROVE  \/ starts' = starts /\ (stop' = "start" => stop = "start")
           \/ starts' = starts + 1 /\ StartBegin
<1> DEFINE Same == starts' = starts /\ (stop' = "start" => stop = "start")
<1>1. CASE Listen
  BY <1>1 DEF Listen, ListenCheck, ListenAccept, ListenCount, ListenLimit, ListenQuit, ListenEnd,
     ListenSpawn, stopVars
<1>2. ASSUME NEW t \in Thread, Filter(t) PROVE Same
  BY <1>2 DEF Filter, FilterStart, FilterDeny, FilterPass, FilterInsert, FilterSignal, FilterExit,
     stopVars
<1>3. ASSUME NEW s \in Session, Parse(s) \/ Expire(s) PROVE Same
  BY <1>3 DEF Parse, ParseReply, ParseShow, ParseDone, Expire, stopVars
<1>4. CASE NetIO
  BY <1>4 DEF NetIO, NetIOCheck, NetIOReset, NetIOWake, NetIOSelect, NetIOBegin, NetIOScan,
     NetIOTransfer, NetIODelete, NetIOClose, NetIONext, NetIOEnd, NetIOEndClose, NetIOEndDelete,
     NetIOEndClear, stopVars
<1>5. CASE StopBegin \/ StopSteps \/ StartThreads
  BY <1>5 DEF StopBegin, StopSteps, StopCloseSockets, StopSignal, StopJoin, StopPoll, StartThreads
<1>6. CASE StartBegin
  BY <1>6 DEF StartBegin
<1>7. CASE UNCHANGED vars
  BY <1>7 DEF vars, stopVars
<1> QED BY <1>1, <1>2, <1>3, <1>4, <1>5, <1>6, <1>7 DEF Next

(* Until the server is started again it is so at every moment: however the *)
(* filtering threads insert while NetIOThread looks at the map and resets  *)
(* the event, it does not sleep on a session.                              *)
THEOREM NeverOversleeps == Spec => [](starts = 1 => Awake)
<1> DEFINE First == (stop = "start" => starts > 1) /\ (starts = 1 => Awake)
<1>1. ASSUME Init PROVE First
  BY <1>1 DEF Init, Awake, Unserved, Listed, MapLockFree
<1>2. ASSUME IInv, First, [Next]_vars PROVE First'
  <2>1. starts \in 1..MaxStarts /\ starts' \in 1..MaxStarts
    <3>1. TypeOK /\ TypeOK'
      BY <1>2, TypeStep DEF IInv
    <3> QED BY <3>1 DEF TypeOK
  <2>2. \/ starts' = starts /\ (stop' = "start" => stop = "start")
        \/ starts' = starts + 1 /\ StartBegin
    BY <1>2, StartStep
  <2>5. starts' = 1 => starts = 1 /\ ~ResetByStart
    BY <1>2, <2>1, <2>2 DEF ResetByStart, StartThreads
  <2>6. starts' = 1 => Awake'
    BY <1>2, <2>5, AwakeStep
  <2>7. stop' = "start" => starts' > 1
    BY <1>2, <2>1, <2>2
  <2> QED BY <2>6, <2>7
<1>3. First => (starts = 1 => Awake)
  OBVIOUS
<1> QED BY Invariance, <1>1, <1>2, <1>3, PTL DEF Spec

(* What the threads are waiting for, and the caller of Stop: their guards. *)
ListenReady ==
    \/ listen \in {"check", "select", "end"}
    \/ listen = "count" /\ MapLockFree
    \/ listen = "decide" /\ full /\ (Answers503 => MapLockFree)
    \/ listen = "decide" /\ ~full /\ (active => \E t \in Thread : filter[t].pc = "idle")
FilterReady(t) ==
    \/ filter[t].pc \in {"start", "lookup", "signal", "log", "exit"}
    \/ filter[t].pc = "insert" /\ MapLockFree
ParseReady(s) ==
    \/ parse[s] \in {"parse", "finish"}
    \/ parse[s] = "show" /\ stop \in {"run", "stopped"}
NetIOReady ==
    \/ netio \notin {"wait", "endwait", "done"}
    \/ netio = "wait" /\ sessionSignal
    \/ netio = "endwait" /\ ss[cursor].canDelete
StopReady ==
    \/ stop = "sss" /\ MapLockFree
    \/ stop = "signal"
    \/ stop = "join" /\ listen = "done" /\ netio = "done"
    \/ stop = "poll" /\ filterCount = 0

(* NetIOThread waits for an event that is not set. *)
Overslept == netio = "wait" /\ ~sessionSignal

(* Somebody can go on until Stop returns. *)
StopGoesOn ==
    stop \in {"sss", "signal", "join", "poll"} =>
        \/ StopReady \/ ListenReady \/ NetIOReady
        \/ \E t \in Thread : FilterReady(t)
        \/ \E s \in Session : ParseReady(s)
        \/ Deadlocked \/ Overslept

(* Stop, which waits for two threads and a count, which wait for the lock  *)
(* of the map, for each other and for the parse threads, comes to a        *)
(* standstill in two cases only: a balloon that waits for the caller of    *)
(* Stop, and NetIOThread asleep behind its own ResetEvent.                 *)
THEOREM NoOtherStandstill == Spec => []StopGoesOn
<1>1. ASSUME IInv PROVE StopGoesOn
  <2> SUFFICES ASSUME stop \in {"sss", "signal", "join", "poll"}, ~StopReady, ~ListenReady,
                      ~NetIOReady, \A t \in Thread : ~FilterReady(t),
                      \A s \in Session : ~ParseReady(s), ~Deadlocked
               PROVE  Overslept
    BY DEF StopGoesOn
  <2> USE <1>1 DEF IInv
  <2>1. ~active
    BY DEF Phases
  <2>2. netio # "endwait"
    <3> SUFFICES ASSUME netio = "endwait" PROVE FALSE
      OBVIOUS
    <3>1. cursor \in Listed /\ cursor \in Session
      BY DEF Cursor, CursorValid, Listed, MapLockFree, TypeOK
    <3>2. ~ss[cursor].canDelete
      BY DEF NetIOReady
    <3>3. parse[cursor] \in ParsePc /\ parse[cursor] # "none"
      BY <3>1, <3>2 DEF Owners, Served, Replies, TypeOK, ParsePc
    <3>4. parse[cursor] = "show"
      BY <3>1, <3>3 DEF ParseReady, ParsePc
    <3> QED BY <3>1, <3>4 DEF Deadlocked
  <2>3. netio \in {"wait", "done"} /\ MapLockFree
    BY <2>2 DEF NetIOReady, MapLockFree
  <2>4. listen = "done"
    BY <2>1, <2>3 DEF ListenReady, TypeOK
  <2>5. CASE netio = "wait"
    BY <2>5 DEF NetIOReady, Overslept
  <2>6. CASE netio = "done"
    <3>1. stop = "poll" /\ filterCount # 0
      BY <2>3, <2>4, <2>6 DEF StopReady
    <3>2. PICK t \in Thread : filter[t].pc \in {"lookup", "insert", "signal", "log", "exit"}
      BY <3>1, FS_EmptySet DEF Counted, CountedThreads
    <3> QED BY <2>3, <3>2 DEF FilterReady
  <2> QED BY <2>3, <2>5, <2>6
<1> QED BY Invariance, <1>1, PTL
=============================================================================
