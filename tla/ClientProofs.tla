---------------------------- MODULE ClientProofs ----------------------------
(***************************************************************************)
(* Theorems about Client, for any set of sessions and any set of           *)
(* connection threads.                                                     *)
(***************************************************************************)
EXTENDS Client, SequenceTheorems, TLAPS

USE ClientAssumption

(* The queue of requests as the set of the requests in it. *)
LEMMA QueueAdd ==
    ASSUME NEW S, NEW q \in Seq(S), NEW e \in S
    PROVE  /\ Append(q, e) \in Seq(S) /\ Cons(e, q) \in Seq(S)
           /\ Append(q, e) # << >> /\ Cons(e, q) # << >>
           /\ ToSet(Append(q, e)) = ToSet(q) \cup {e}
           /\ ToSet(Cons(e, q)) = ToSet(q) \cup {e}
           /\ IsInjective(q) /\ e \notin ToSet(q) =>
                 IsInjective(Append(q, e)) /\ IsInjective(Cons(e, q))
<1>1. /\ <<e>> \in Seq(S) /\ Len(<<e>>) = 1 /\ <<e>>[1] = e
      /\ Len(q) \in Nat /\ DOMAIN q = 1..Len(q)
  OBVIOUS
<1> DEFINE c == Cons(e, q)
           a == Append(q, e)
<1>2. /\ c \in Seq(S) /\ Len(c) = Len(q) + 1
      /\ c[1] = e /\ \A i \in 1..Len(q) : c[i + 1] = q[i]
  BY <1>1, ConcatProperties DEF Cons
<1>3. /\ a \in Seq(S) /\ Len(a) = Len(q) + 1
      /\ a[Len(q) + 1] = e /\ \A i \in 1..Len(q) : a[i] = q[i]
  BY <1>1, AppendProperties
<1>4. DOMAIN a = 1..Len(q) + 1 /\ DOMAIN c = 1..Len(q) + 1
  BY <1>2, <1>3, LenProperties
<1> HIDE DEF a, c
<1>5. ToSet(a) = ToSet(q) \cup {e}
  BY <1>1, <1>3, <1>4 DEF ToSet
<1>6. \A i \in 1..Len(q) + 1 : i = 1 \/ (i - 1 \in 1..Len(q) /\ c[i] = q[i - 1])
  BY <1>1, <1>2
<1>7. ToSet(c) = ToSet(q) \cup {e}
  <2>1. ASSUME NEW x \in ToSet(c) PROVE x \in ToSet(q) \cup {e}
    <3>1. PICK i \in 1..Len(q) + 1 : x = c[i]
      BY <1>4 DEF ToSet
    <3>2. CASE i = 1
      BY <1>2, <3>1, <3>2
    <3>3. CASE i - 1 \in 1..Len(q) /\ c[i] = q[i - 1]
      BY <1>1, <3>1, <3>3 DEF ToSet
    <3> QED BY <1>6, <3>2, <3>3
  <2>2. \A x \in ToSet(q) : x \in ToSet(c)
    BY <1>1, <1>2, <1>4 DEF ToSet
  <2>3. e \in ToSet(c)
    BY <1>1, <1>2, <1>4 DEF ToSet
  <2> QED BY <2>1, <2>2, <2>3
<1>8. ASSUME IsInjective(q), e \notin ToSet(q)
      PROVE  IsInjective(a) /\ IsInjective(c)
  <2>1. IsInjective(a)
    BY <1>1, <1>3, <1>4, <1>8 DEF ToSet, IsInjective
  <2>2. IsInjective(c)
    <3> SUFFICES ASSUME NEW i \in 1..Len(q) + 1, NEW j \in 1..Len(q) + 1, c[i] = c[j]
                 PROVE  i = j
      BY <1>4 DEF IsInjective
    <3>1. \A k \in 1..Len(q) : q[k] # e
      BY <1>1, <1>8 DEF ToSet
    <3>2. \A k, l \in 1..Len(q) : q[k] = q[l] => k = l
      BY <1>1, <1>8 DEF IsInjective
    <3>3. ASSUME NEW k \in 1..Len(q) + 1, c[k] = e PROVE k = 1
      BY <1>6, <3>1, <3>3
    <3>4. CASE i # 1 /\ j # 1
      <4>1. /\ i - 1 \in 1..Len(q) /\ c[i] = q[i - 1]
            /\ j - 1 \in 1..Len(q) /\ c[j] = q[j - 1]
        BY <1>6, <3>4
      <4>2. i - 1 = j - 1
        BY <3>2, <4>1
      <4> QED BY <1>1, <4>2
    <3> QED BY <1>2, <3>3, <3>4
  <2> QED BY <2>1, <2>2
<1>9. a # << >> /\ c # << >>
  BY <1>1, <1>2, <1>3
<1> QED BY <1>2, <1>3, <1>5, <1>7, <1>8, <1>9 DEF a, c

LEMMA QueueTake ==
    ASSUME NEW S, NEW q \in Seq(S), q # << >>
    PROVE  /\ Head(q) \in S /\ Tail(q) \in Seq(S)
           /\ Head(q) \in ToSet(q)
           /\ IsInjective(q) => /\ IsInjective(Tail(q))
                               /\ ToSet(Tail(q)) = ToSet(q) \ {Head(q)}
<1>1. /\ Head(q) \in S /\ Tail(q) \in Seq(S) /\ Len(Tail(q)) = Len(q) - 1
      /\ \A i \in 1..Len(Tail(q)) : Tail(q)[i] = q[i + 1]
  BY HeadTailProperties
<1>2. Len(q) \in Nat \ {0} /\ Head(q) = q[1] /\ DOMAIN q = 1..Len(q)
  BY EmptySeq, LenProperties
<1>3. DOMAIN Tail(q) = 1..Len(q) - 1
  BY <1>1, LenProperties
<1>4. Head(q) \in ToSet(q)
  BY <1>2 DEF ToSet
<1>5. ASSUME IsInjective(q)
      PROVE  IsInjective(Tail(q)) /\ ToSet(Tail(q)) = ToSet(q) \ {Head(q)}
  <2>1. IsInjective(Tail(q))
    BY <1>1, <1>2, <1>3, <1>5 DEF IsInjective
  <2>2. \A x \in ToSet(Tail(q)) : x \in ToSet(q) /\ x # Head(q)
    BY <1>1, <1>2, <1>3, <1>5 DEF ToSet, IsInjective
  <2>3. \A x \in ToSet(q) : x # Head(q) => x \in ToSet(Tail(q))
    <3> SUFFICES ASSUME NEW i \in 1..Len(q), q[i] # Head(q)
                 PROVE  q[i] \in ToSet(Tail(q))
      BY <1>2 DEF ToSet
    <3>1. i - 1 \in 1..Len(q) - 1 /\ Tail(q)[i - 1] = q[i]
      BY <1>1, <1>2
    <3> QED BY <1>3, <3>1 DEF ToSet
  <2> QED BY <2>1, <2>2, <2>3
<1> QED BY <1>1, <1>4, <1>5

LEMMA QueueEmpty ==
    /\ \A S : << >> \in Seq(S)
    /\ ToSet(<< >>) = {} /\ IsInjective(<< >>)
BY DEF ToSet, IsInjective

(* The session objects and the states of connection threads stay in their *)
(* types through every change the code makes to one of them.               *)
LEMMA SessionTypes ==
    /\ NewSession \in SessionObject
    /\ Failed(NewSession) \in SessionObject
    /\ \A o \in SessionObject :
          /\ Finished(o) \in SessionObject
          /\ Failed(o) \in SessionObject
          /\ Broken(o) \in SessionObject
          /\ Released(o) \in SessionObject
          /\ Finished(Released(o)) \in SessionObject
          /\ SocketClosed(o) \in SessionObject
          /\ [o EXCEPT !.stale = TRUE] \in SessionObject
          /\ [o EXCEPT !.sock = "open", !.stale = FALSE, !.active = TRUE,
                       !.io = "send"] \in SessionObject
<1>1. NewSession \in SessionObject /\ Failed(NewSession) \in SessionObject
  <2>2. NewSession \in SessionObject
    BY DEF NewSession, SessionObject
  <2>3. \A o \in SessionObject : Failed(o) \in SessionObject
    BY DEF Failed, SessionObject
  <2> QED BY <2>2, <2>3
<1>2. ASSUME NEW o \in SessionObject
      PROVE  /\ Finished(o) \in SessionObject
             /\ Failed(o) \in SessionObject
  BY DEF Finished, Failed, SessionObject
<1>4. ASSUME NEW o \in SessionObject
      PROVE  /\ Broken(o) \in SessionObject
             /\ Released(o) \in SessionObject
  BY DEF Broken, Released, SessionObject
<1>3. ASSUME NEW o \in SessionObject
      PROVE  /\ Finished(Released(o)) \in SessionObject
             /\ SocketClosed(o) \in SessionObject
             /\ [o EXCEPT !.stale = TRUE] \in SessionObject
             /\ [o EXCEPT !.sock = "open", !.stale = FALSE, !.active = TRUE,
                          !.io = "send"] \in SessionObject
  BY DEF Finished, Released, SocketClosed, SessionObject
<1> QED BY <1>1, <1>2, <1>3, <1>4

LEMMA TransferredType ==
    ASSUME NEW o \in SessionObject, NEW p \in Transferred(o)
    PROVE  p \in SessionObject
<1>1. Broken(o) \in SessionObject
  BY SessionTypes
<1>2. Moved(o) \in SessionObject
  BY DEF Moved, SessionObject
<1>3. /\ [o EXCEPT !.stale = FALSE, !.io = "recv"] \in SessionObject
      /\ [o EXCEPT !.stale = FALSE, !.active = FALSE] \in SessionObject
      /\ [o EXCEPT !.active = FALSE] \in SessionObject
  BY DEF SessionObject
<1> QED BY <1>1, <1>2, <1>3 DEF Transferred

LEMMA ConnTypes ==
    /\ [pc |-> "idle", ss |-> NoSession] \in ConnState
    /\ \A s \in Session : [pc |-> "insert", ss |-> s] \in ConnState
    /\ \A c \in ConnState : c.pc # "idle" =>
          /\ c.ss \in Session
          /\ \A pc \in ConnPc \ {"idle"} : [c EXCEPT !.pc = pc] \in ConnState
    /\ {"connect", "push", "signal", "log", "erase"} \subseteq ConnPc \ {"idle"}
BY DEF ConnState, ConnPc

LEMMA InitTypeOK == Init => TypeOK
<1> SUFFICES ASSUME Init PROVE TypeOK
  OBVIOUS
<1>1. ss \in [Session -> SessionObject] /\ conn \in [Thread -> ConnState]
  BY SessionTypes, ConnTypes DEF Init
<1>2. queue \in Seq(Session) /\ req \in [Session -> ReqPc]
  BY DEF Init, ReqPc
<1> QED BY <1>1, <1>2 DEF Init, TypeOK, LaunchPc, NetIOPc, StopPc

LEMMA NextTypeOK == TypeOK /\ [Next]_vars => TypeOK'
<1> SUFFICES ASSUME TypeOK, [Next]_vars PROVE TypeOK'
  OBVIOUS
<1> USE SessionTypes, ConnTypes DEF TypeOK, ioVars
<1>1. ASSUME NEW s \in Session, Requester(s) PROVE TypeOK'
  <2>1. CASE AddRequestRefused(s)
    BY <2>1 DEF AddRequestRefused, MayRequest, ReqPc
  <2>2. CASE AddRequestAccepted(s)
    BY <2>2 DEF AddRequestAccepted, MayRequest, ReqPc
  <2>3. CASE AddRequestPush(s)
    <3>1. queue' \in Seq(Session)
      BY <2>3, QueueAdd DEF AddRequestPush
    <3>2. req' \in [Session -> ReqPc]
      BY <2>3 DEF AddRequestPush, ReqPc
    <3> QED BY <2>3, <3>1, <3>2 DEF AddRequestPush
  <2>4. CASE AddRequestSignal(s)
    BY <2>4 DEF AddRequestSignal, ReqPc
  <2>5. CASE Collect(s)
    BY <2>5 DEF Collect, ReqPc
  <2> QED BY <1>1, <2>1, <2>2, <2>3, <2>4, <2>5 DEF Requester
<1>2. ASSUME NEW s \in Session, Expire(s) PROVE TypeOK'
  BY <1>2 DEF Expire
<1>3. ASSUME NEW t \in Thread, Connection(t) PROVE TypeOK'
  <2>1. CASE ConnInsert(t)
    <3>1. conn[t].ss \in Session
      BY <2>1 DEF ConnInsert
    <3> QED BY <2>1, <3>1 DEF ConnInsert
  <2>2. CASE ConnFail(t)
    BY <2>2 DEF ConnFail
  <2>3. CASE ConnOpen(t)
    BY <2>3 DEF ConnOpen
  <2>4. CASE ConnPush(t)
    BY <2>4 DEF ConnPush
  <2>5. CASE ConnSignal(t)
    BY <2>5 DEF ConnSignal
  <2>7. CASE ConnLog(t)
    BY <2>7 DEF ConnLog
  <2>6. CASE ConnErase(t)
    BY <2>6 DEF ConnErase
  <2> QED BY <1>3, <2>1, <2>2, <2>3, <2>4, <2>5, <2>6, <2>7 DEF Connection
<1>4. CASE Launch
  <2>1. ASSUME NEW t \in Thread, LaunchSpawn(t) PROVE TypeOK'
    <3>1. queue # << >> /\ Head(queue) \in Session /\ Tail(queue) \in Seq(Session)
      BY <2>1, QueueTake DEF LaunchSpawn
    <3> QED BY <2>1, <3>1 DEF LaunchSpawn
  <2>2. CASE LaunchEnd
    <3>1. queue' \in Seq(Session)
      BY <2>2, QueueEmpty DEF LaunchEnd
    <3> QED BY <2>2, <3>1 DEF LaunchEnd, LaunchPc
  <2>3. CASE LaunchCheck \/ LaunchReset \/ LaunchWake \/ LaunchDrained
    BY <2>3 DEF LaunchCheck, LaunchReset, LaunchWake, LaunchDrained, LaunchPc
  <2> QED BY <1>4, <2>1, <2>2, <2>3 DEF Launch
<1>5. CASE NetIO
  <2>1. CASE NetIOCheck \/ NetIOReset \/ NetIOWake \/ NetIOSelect \/ NetIOScan
    <3>1. CASE NetIOCheck \/ NetIOReset \/ NetIOWake
      BY <3>1 DEF NetIOCheck, NetIOReset, NetIOWake, NetIOPc
    <3>2. CASE NetIOSelect \/ NetIOScan
      BY <3>2 DEF NetIOSelect, NetIOScan, NetIOPc
    <3> QED BY <2>1, <3>1, <3>2
  <2>2. CASE NetIOBegin \/ NetIONext
    BY <2>2 DEF NetIOBegin, NetIONext, MoveCursor, NetIOPc
  <2>3. CASE NetIOTransfer
    BY <2>3, TransferredType DEF NetIOTransfer, NetIOPc
  <2>4. CASE NetIODelete
    BY <2>4 DEF NetIODelete, MoveCursor, NetIOPc
  <2>5. CASE NetIOClose
    BY <2>5 DEF NetIOClose, NetIOPc
  <2>6. CASE NetIOEnd
    BY <2>6 DEF NetIOEnd, NetIOPc
  <2> QED BY <1>5, <2>1, <2>2, <2>3, <2>4, <2>5, <2>6 DEF NetIO
<1>6. CASE StopBegin \/ StopSteps
  <2>1. CASE StopCloseConnecting
    <3>1. PICK S \in SUBSET Session :
              ss' = [s \in Session |-> IF s \in S THEN SocketClosed(ss[s]) ELSE ss[s]]
      <4>1. PICK stray \in SUBSET Session :
                ss' = [s \in Session |-> IF s \in connectss \cup stray
                                           THEN SocketClosed(ss[s]) ELSE ss[s]]
        BY <2>1 DEF StopCloseConnecting
      <4> QED BY <4>1
    <3>2. ss' \in [Session -> SessionObject]
      BY <3>1
    <3> QED BY <2>1, <3>2 DEF StopCloseConnecting, StopPc
  <2>2. CASE StopCloseConnected
    BY <2>2 DEF StopCloseConnected, StopPc
  <2>3. CASE StopBegin \/ StopSignalQueue \/ StopSignalSession \/ StopJoin \/ StopPoll
    BY <2>3
    DEF StopBegin, StopSignalQueue, StopSignalSession, StopJoin, StopPoll, StopPc
  <2> QED BY <1>6, <2>1, <2>2, <2>3 DEF StopSteps
<1>7. CASE UNCHANGED vars
  BY <1>7 DEF vars
<1> QED BY <1>1, <1>2, <1>3, <1>4, <1>5, <1>6, <1>7 DEF Next

(* Every variable keeps its type. *)
THEOREM TypeCorrect == Spec => []TypeOK
BY InitTypeOK, NextTypeOK, PTL DEF Spec

-----------------------------------------------------------------------------
(* The inductive invariant.  OneHolder is not inductive by itself: that a  *)
(* session is released before it is finished needs what is known of the    *)
(* object at each place where it is held.                                  *)

(* A session nobody has connected yet is as its owner made it. *)
Fresh ==
    \A s \in Session :
        \/ req[s] \in {"idle", "push"}
        \/ s \in ToSet(queue)
        \/ \E t \in Thread : conn[t].pc \in {"insert", "connect"} /\ conn[t].ss = s
        => ss[s] = NewSession

(* A session in the list, or on its way there, was connected; the one in   *)
(* NetIOThread's hands is closed already.                                  *)
Opened ==
    /\ \A t \in Thread : conn[t].pc = "push" => ss[conn[t].ss].io # "none"
    /\ \A s \in sss : ss[s].io # "none"
    /\ hand # NoSession => ss[hand].io # "none" /\ ss[hand].sock = "none"

HandFull == netio = "close" <=> hand # NoSession

Inv ==
    /\ TypeOK /\ OneHolder /\ CursorValid /\ SocketsReleased
    /\ Fresh /\ Opened /\ HandFull

(* What the changes to a session object do to the fields that matter here. *)
SameState(o, p) == p.signaled = o.signaled /\ p.io = o.io /\ p.error = o.error

LEMMA Fields ==
    /\ /\ NewSession.signaled = FALSE /\ NewSession.error = FALSE
       /\ NewSession.io = "none" /\ NewSession.sock = "none"
       /\ SocketClosed(NewSession) = NewSession
       /\ Failed(NewSession).signaled = TRUE /\ Failed(NewSession).error = TRUE
       /\ Failed(NewSession).io = "none" /\ Failed(NewSession).sock = "none"
    /\ \A o \in SessionObject :
          /\ Finished(o).signaled = TRUE /\ Finished(o).io = o.io
          /\ Finished(o).error = o.error /\ Finished(o).sock = o.sock
          /\ Finished(Released(o)).signaled = TRUE
          /\ Finished(Released(o)).io = o.io
          /\ Finished(Released(o)).error = o.error
          /\ Finished(Released(o)).sock = "none"
          /\ SameState(o, Released(o)) /\ Released(o).sock = "none"
          /\ SameState(o, SocketClosed(o))
          /\ o.sock = "none" => SocketClosed(o).sock = "none"
    /\ \A o \in SessionObject :
          LET x == [o EXCEPT !.stale = TRUE] IN SameState(o, x) /\ x.sock = o.sock
    /\ \A o \in SessionObject :
          LET x == [o EXCEPT !.sock = "open", !.stale = FALSE, !.active = TRUE,
                             !.io = "send"]
          IN  x.signaled = o.signaled /\ x.error = o.error /\ x.io = "send"
<1>1. /\ NewSession.signaled = FALSE /\ NewSession.error = FALSE
      /\ NewSession.io = "none" /\ NewSession.sock = "none"
      /\ SocketClosed(NewSession) = NewSession
      /\ Failed(NewSession).signaled = TRUE /\ Failed(NewSession).error = TRUE
      /\ Failed(NewSession).io = "none" /\ Failed(NewSession).sock = "none"
  BY DEF NewSession, SocketClosed, Failed
<1>2. ASSUME NEW o \in SessionObject
      PROVE  /\ Finished(o).signaled = TRUE /\ Finished(o).io = o.io
             /\ Finished(o).error = o.error /\ Finished(o).sock = o.sock
             /\ Finished(Released(o)).signaled = TRUE
             /\ Finished(Released(o)).io = o.io
             /\ Finished(Released(o)).error = o.error
             /\ Finished(Released(o)).sock = "none"
  BY DEF Finished, Released, SessionObject
<1>3. ASSUME NEW o \in SessionObject
      PROVE  /\ SameState(o, Released(o)) /\ Released(o).sock = "none"
             /\ SameState(o, SocketClosed(o))
             /\ o.sock = "none" => SocketClosed(o).sock = "none"
  BY DEF SameState, Released, SocketClosed, SessionObject
<1>4. ASSUME NEW o \in SessionObject
      PROVE  LET x == [o EXCEPT !.stale = TRUE]
             IN  SameState(o, x) /\ x.sock = o.sock
  BY DEF SameState, SessionObject
<1>5. ASSUME NEW o \in SessionObject
      PROVE  LET x == [o EXCEPT !.sock = "open", !.stale = FALSE, !.active = TRUE,
                                !.io = "send"]
             IN  x.signaled = o.signaled /\ x.error = o.error /\ x.io = "send"
  BY DEF SessionObject
<1> QED BY <1>1, <1>2, <1>3, <1>4, <1>5

LEMMA TransferredFields ==
    ASSUME NEW o \in SessionObject, NEW p \in Transferred(o), o.io # "none"
    PROVE  /\ p.signaled = o.signaled /\ p.sock = o.sock
           /\ p.io # "none" /\ p.error \in {o.error, TRUE}
<1>1. CASE p \in {o, Broken(o)}
  BY <1>1 DEF Broken, SessionObject
<1>2. CASE p = Moved(o)
  BY <1>2 DEF Moved, SessionObject
<1>3. CASE \/ p = [o EXCEPT !.stale = FALSE, !.io = "recv"]
           \/ p = [o EXCEPT !.stale = FALSE, !.active = FALSE]
           \/ p = [o EXCEPT !.active = FALSE]
  BY <1>3 DEF SessionObject
<1> QED BY <1>1, <1>2, <1>3 DEF Transferred

LEMMA InitInv == Init => Inv
<1> SUFFICES ASSUME Init PROVE Inv
  OBVIOUS
<1>1. TypeOK
  BY InitTypeOK
<1>2. OneHolder
  BY QueueEmpty, Fields
  DEF Init, OneHolder, Pending, Held, Owns
<1>3. CursorValid /\ SocketsReleased /\ Fresh /\ Opened /\ HandFull
  BY QueueEmpty, Fields
  DEF Init, CursorValid, SocketsReleased, Fresh, Opened, HandFull
<1> QED BY <1>1, <1>2, <1>3 DEF Inv

(* A step that moves no request and finishes none. *)
LEMMA OneHolderFrame ==
    ASSUME OneHolder,
           UNCHANGED <<req, queue, sss, hand>>,
           \A s \in Session : ss'[s].signaled = ss[s].signaled,
           \A t \in Thread : conn'[t].ss = conn[t].ss /\ (Owns(t)' <=> Owns(t))
    PROVE  OneHolder'
BY DEF OneHolder, Pending, Held

(* Every step keeps each pending request in exactly one place. *)
LEMMA NextOneHolder == Inv /\ [Next]_vars => OneHolder'
<1> SUFFICES ASSUME Inv, [Next]_vars PROVE OneHolder'
  OBVIOUS
<1> USE DEF Inv, ioVars
<1>t. /\ ss \in [Session -> SessionObject] /\ conn \in [Thread -> ConnState]
      /\ queue \in Seq(Session) /\ sss \subseteq Session
      /\ cursor \in Session \cup {NoSession} /\ hand \in Session \cup {NoSession}
      /\ req \in [Session -> ReqPc]
      /\ \A s \in Session : ss[s] \in SessionObject
  BY DEF TypeOK
<1>1. ASSUME NEW s \in Session, Requester(s) PROVE OneHolder'
  <2>1. CASE AddRequestRefused(s)
    BY <1>t, <2>1, Fields
    DEF AddRequestRefused, MayRequest, OneHolder, Pending, Held, Owns, Fresh
  <2>2. CASE AddRequestAccepted(s)
    BY <1>t, <2>2, Fields
    DEF AddRequestAccepted, MayRequest, OneHolder, Pending, Held, Owns, Fresh
  <2>3. CASE AddRequestPush(s)
    <3>1. ~Pending(s) /\ ~Held(s) /\ ss[s] = NewSession
      BY <1>t, <2>3 DEF AddRequestPush, OneHolder, Pending, Fresh
    <3>2. s \notin ToSet(queue) /\ IsInjective(queue)
      BY <3>1 DEF OneHolder, Held
    <3>3. queue' = Append(queue, s) \/ queue' = Cons(s, queue)
      BY <2>3 DEF AddRequestPush
    <3>4. ToSet(queue') = ToSet(queue) \cup {s} /\ IsInjective(queue')
      <4>1. CASE queue' = Append(queue, s)
        <5>1. ToSet(Append(queue, s)) = ToSet(queue) \cup {s}
          BY <1>t, QueueAdd
        <5>2. IsInjective(Append(queue, s))
          BY <1>t, <3>2, QueueAdd
        <5> QED BY <4>1, <5>1, <5>2
      <4>2. CASE queue' = Cons(s, queue)
        <5>1. ToSet(Cons(s, queue)) = ToSet(queue) \cup {s}
          BY <1>t, QueueAdd
        <5>2. IsInjective(Cons(s, queue))
          BY <1>t, <3>2, QueueAdd
        <5> QED BY <4>2, <5>1, <5>2
      <4> QED BY <3>3, <4>1, <4>2
    <3> QED
      BY <1>t, <2>3, <3>1, <3>4, Fields
      DEF AddRequestPush, OneHolder, Pending, Held, Owns
  <2>4. CASE AddRequestSignal(s)
    BY <1>t, <2>4 DEF AddRequestSignal, OneHolder, Pending, Held, Owns
  <2>5. CASE Collect(s)
    BY <1>t, <2>5, Fields DEF Collect, OneHolder, Pending, Held, Owns
  <2> QED BY <1>1, <2>1, <2>2, <2>3, <2>4, <2>5 DEF Requester
<1>2. ASSUME NEW s \in Session, Expire(s) PROVE OneHolder'
  BY <1>t, <1>2, Fields, OneHolderFrame DEF Expire, SameState, Owns
<1>3. ASSUME NEW t \in Thread, Connection(t) PROVE OneHolder'
  <2>t. conn[t].pc # "idle" => conn[t].ss \in Session
    BY <1>t, ConnTypes
  <2>1. CASE ConnInsert(t)
    BY <1>t, <2>1, OneHolderFrame DEF ConnInsert, Owns, ConnState
  <2>2. CASE ConnFail(t)
    BY <1>t, <2>2
    DEF ConnFail, OneHolder, Pending, Held, Owns, Failed, ConnState, SessionObject
  <2>3. CASE ConnOpen(t)
    <3>1. \A s \in Session : ss'[s].signaled = ss[s].signaled
      BY <1>t, <2>3, Fields DEF ConnOpen
    <3> QED BY <1>t, <2>3, <3>1, OneHolderFrame DEF ConnOpen, Owns, ConnState
  <2>4. CASE ConnPush(t)
    BY <1>t, <2>t, <2>4 DEF ConnPush, OneHolder, Pending, Held, Owns, ConnState
  <2>5. CASE ConnSignal(t) \/ ConnLog(t)
    BY <1>t, <2>5, OneHolderFrame DEF ConnSignal, ConnLog, Owns, ConnState
  <2>6. CASE ConnErase(t)
    BY <1>t, <2>6 DEF ConnErase, OneHolder, Pending, Held, Owns, ConnState
  <2> QED BY <1>3, <2>1, <2>2, <2>3, <2>4, <2>5, <2>6 DEF Connection
<1>4. CASE Launch
  <2>1. ASSUME NEW t \in Thread, LaunchSpawn(t) PROVE OneHolder'
    <3>1. /\ Head(queue) \in Session /\ Head(queue) \in ToSet(queue)
          /\ IsInjective(queue') /\ ToSet(queue') = ToSet(queue) \ {Head(queue)}
      BY <1>t, <2>1, QueueTake DEF LaunchSpawn, OneHolder
    <3> QED BY <1>t, <2>1, <3>1 DEF LaunchSpawn, OneHolder, Pending, Held, Owns
  <2>2. CASE LaunchEnd
    <3>1. /\ \A s \in ToSet(queue) : s \in Session => ss'[s].signaled
          /\ \A s \in Session \ ToSet(queue) : ss'[s] = ss[s]
      BY <1>t, <2>2 DEF LaunchEnd, Failed, SessionObject
    <3>2. ToSet(queue') = {} /\ IsInjective(queue')
      BY <2>2, QueueEmpty DEF LaunchEnd
    <3>3. UNCHANGED <<req, conn, sss, hand>>
      BY <2>2 DEF LaunchEnd
    <3>4. ASSUME NEW s \in Session PROVE Pending(s)' <=> Held(s)'
      BY <3>1, <3>2, <3>3 DEF OneHolder, Pending, Held, Owns
    <3> QED BY <3>2, <3>3, <3>4 DEF OneHolder, Owns
  <2>3. CASE LaunchCheck \/ LaunchReset \/ LaunchWake \/ LaunchDrained
    BY <1>t, <2>3, OneHolderFrame
    DEF LaunchCheck, LaunchReset, LaunchWake, LaunchDrained, Owns
  <2> QED BY <1>4, <2>1, <2>2, <2>3 DEF Launch
<1>5. CASE NetIO
  <2>1. CASE \/ NetIOCheck \/ NetIOReset \/ NetIOWake \/ NetIOSelect
             \/ NetIOBegin \/ NetIOScan \/ NetIONext
    BY <2>1, OneHolderFrame
    DEF NetIOCheck, NetIOReset, NetIOWake, NetIOSelect, NetIOBegin, NetIOScan,
        NetIONext, Owns
  <2>2. CASE NetIOTransfer
    <3>1. cursor \in sss /\ ss[cursor].io # "none"
      BY <2>2 DEF NetIOTransfer, CursorValid, Opened
    <3>2. \A s \in Session : ss'[s].signaled = ss[s].signaled
      <4>1. CASE ss' = ss
        BY <4>1
      <4>2. ASSUME NEW o \in Transferred(ss[cursor]), ss' = [ss EXCEPT ![cursor] = o]
            PROVE  \A s \in Session : ss'[s].signaled = ss[s].signaled
        <5>1. o.signaled = ss[cursor].signaled
          BY <1>t, <3>1, TransferredFields
        <5> QED BY <1>t, <3>1, <4>2, <5>1
      <4> QED BY <2>2, <4>1, <4>2 DEF NetIOTransfer
    <3> QED BY <2>2, <3>2, OneHolderFrame DEF NetIOTransfer, Owns
  <2>3. CASE NetIODelete
    <3>1. cursor \in sss /\ cursor # NoSession /\ hand = NoSession
      BY <2>3 DEF NetIODelete, CursorValid, HandFull
    <3>2. \A s \in Session : ss'[s].signaled = ss[s].signaled
      BY <1>t, <2>3, Fields DEF NetIODelete, SameState
    <3> QED
      BY <1>t, <2>3, <3>1, <3>2 DEF NetIODelete, OneHolder, Pending, Held, Owns
  <2>4. CASE NetIOClose
    <3>1. hand \in Session /\ hand # NoSession
      BY <1>t, <2>4 DEF NetIOClose, HandFull
    <3>2. ss'[hand].signaled /\ \A s \in Session \ {hand} : ss'[s] = ss[s]
      BY <1>t, <2>4, <3>1, Fields DEF NetIOClose
    <3>3. UNCHANGED <<req, queue, conn, sss>> /\ hand' = NoSession
      BY <2>4 DEF NetIOClose
    <3>4. \A s \in ToSet(queue) : s \in Session
      BY <1>t DEF ToSet
    <3>5. ASSUME NEW s \in Session PROVE Pending(s)' <=> Held(s)'
      BY <3>1, <3>2, <3>3, <3>5 DEF OneHolder, Pending, Held, Owns
    <3>6. \A t \in Thread : Owns(t) => conn[t].ss # NoSession
      BY <1>t, ConnTypes DEF Owns
    <3> QED BY <1>t, <3>3, <3>4, <3>5, <3>6 DEF OneHolder, Owns
  <2>5. CASE NetIOEnd
    <3>1. /\ \A s \in sss : ss'[s].signaled
          /\ \A s \in Session \ sss : ss'[s] = ss[s]
      BY <1>t, <2>5, Fields DEF NetIOEnd
    <3>2. UNCHANGED <<req, queue, conn, hand>> /\ sss' = {}
      BY <2>5 DEF NetIOEnd
    <3>3. ASSUME NEW s \in Session PROVE Pending(s)' <=> Held(s)'
      BY <3>1, <3>2, <3>3 DEF OneHolder, Pending, Held, Owns
    <3> QED BY <3>2, <3>3 DEF OneHolder, Owns
  <2> QED BY <1>5, <2>1, <2>2, <2>3, <2>4, <2>5 DEF NetIO
<1>6. CASE StopBegin \/ StopSteps
  <2>1. CASE StopCloseConnecting \/ StopCloseConnected
    <3>1. \A s \in Session : ss'[s].signaled = ss[s].signaled
      BY <1>t, <2>1, Fields DEF StopCloseConnecting, StopCloseConnected, SameState
    <3> QED
      BY <2>1, <3>1, OneHolderFrame
      DEF StopCloseConnecting, StopCloseConnected, Owns
  <2>2. CASE StopBegin \/ StopSignalQueue \/ StopSignalSession \/ StopJoin \/ StopPoll
    BY <2>2, OneHolderFrame
    DEF StopBegin, StopSignalQueue, StopSignalSession, StopJoin, StopPoll, Owns
  <2> QED BY <1>6, <2>1, <2>2 DEF StopSteps
<1>7. CASE UNCHANGED vars
  BY <1>7, OneHolderFrame DEF vars, Owns
<1> QED BY <1>1, <1>2, <1>3, <1>4, <1>5, <1>6, <1>7 DEF Next

(* NetIOThread's iterator stays in the list. *)
LEMMA NextCursorValid == Inv /\ [Next]_vars => CursorValid'
<1> SUFFICES ASSUME Inv, [Next]_vars PROVE CursorValid'
  OBVIOUS
<1> USE DEF Inv, ioVars, CursorValid
<1>1. ASSUME NEW s \in Session, Requester(s) \/ Expire(s) PROVE CursorValid'
  BY <1>1
  DEF Requester, AddRequestRefused, AddRequestAccepted, AddRequestPush,
      AddRequestSignal, Collect, Expire
<1>2. ASSUME NEW t \in Thread, Connection(t) PROVE CursorValid'
  <2>1. CASE ConnPush(t)
    <3>1. conn[t].ss \notin sss
      BY <2>1 DEF ConnPush, OneHolder, Owns
    <3> QED BY <2>1, <3>1 DEF ConnPush
  <2>2. CASE ConnInsert(t) \/ ConnFail(t) \/ ConnOpen(t) \/ ConnSignal(t) \/ ConnLog(t) \/ ConnErase(t)
    BY <2>2 DEF ConnInsert, ConnFail, ConnOpen, ConnSignal, ConnLog, ConnErase
  <2> QED BY <1>2, <2>1, <2>2 DEF Connection
<1>3. CASE Launch
  BY <1>3
  DEF Launch, LaunchCheck, LaunchReset, LaunchWake, LaunchSpawn, LaunchDrained,
      LaunchEnd
<1>4. CASE NetIO
  <2>1. CASE NetIOCheck \/ NetIOReset \/ NetIOWake \/ NetIOSelect \/ NetIOScan
    BY <2>1 DEF NetIOCheck, NetIOReset, NetIOWake, NetIOSelect, NetIOScan
  <2>2. CASE NetIOBegin \/ NetIONext
    BY <2>2 DEF NetIOBegin, NetIONext, MoveCursor
  <2>3. CASE NetIODelete
    BY <2>3 DEF NetIODelete, MoveCursor
  <2>4. CASE NetIOTransfer \/ NetIOClose \/ NetIOEnd
    BY <2>4 DEF NetIOTransfer, NetIOClose, NetIOEnd
  <2> QED BY <1>4, <2>1, <2>2, <2>3, <2>4 DEF NetIO
<1>5. CASE StopBegin \/ StopSteps
  BY <1>5
  DEF StopBegin, StopSteps, StopCloseConnecting, StopCloseConnected,
      StopSignalQueue, StopSignalSession, StopJoin, StopPoll
<1>6. CASE UNCHANGED vars
  BY <1>6 DEF vars
<1> QED BY <1>1, <1>2, <1>3, <1>4, <1>5, <1>6 DEF Next

(* NetIOThread has something in its hands just between erase and OnClose. *)
LEMMA NextHandFull == Inv /\ [Next]_vars => HandFull'
<1> SUFFICES ASSUME Inv, [Next]_vars PROVE HandFull'
  OBVIOUS
<1> USE DEF Inv, ioVars, HandFull
<1>1. CASE NetIO
  <2>1. CASE NetIODelete
    BY <2>1 DEF NetIODelete, CursorValid
  <2>2. CASE NetIOClose
    BY <2>2 DEF NetIOClose
  <2>3. CASE \/ NetIOCheck \/ NetIOReset \/ NetIOWake \/ NetIOSelect
             \/ NetIOBegin \/ NetIOScan \/ NetIOTransfer \/ NetIONext \/ NetIOEnd
    BY <2>3
    DEF NetIOCheck, NetIOReset, NetIOWake, NetIOSelect, NetIOBegin, NetIOScan,
        NetIOTransfer, NetIONext, NetIOEnd
  <2> QED BY <1>1, <2>1, <2>2, <2>3 DEF NetIO
<1>2. UNCHANGED <<netio, hand>> => HandFull'
  OBVIOUS
<1>3. ASSUME NEW s \in Session, Requester(s) \/ Expire(s) PROVE HandFull'
  BY <1>2, <1>3
  DEF Requester, AddRequestRefused, AddRequestAccepted, AddRequestPush,
      AddRequestSignal, Collect, Expire
<1>4. ASSUME NEW t \in Thread, Connection(t) PROVE HandFull'
  BY <1>2, <1>4
  DEF Connection, ConnInsert, ConnFail, ConnOpen, ConnPush, ConnSignal, ConnLog, ConnErase
<1>5. CASE Launch
  BY <1>2, <1>5
  DEF Launch, LaunchCheck, LaunchReset, LaunchWake, LaunchSpawn, LaunchDrained,
      LaunchEnd
<1>6. CASE StopBegin \/ StopSteps
  BY <1>2, <1>6
  DEF StopBegin, StopSteps, StopCloseConnecting, StopCloseConnected,
      StopSignalQueue, StopSignalSession, StopJoin, StopPoll
<1>7. CASE UNCHANGED vars
  BY <1>2, <1>7 DEF vars
<1> QED BY <1>1, <1>3, <1>4, <1>5, <1>6, <1>7 DEF Next

(* What is known of the session objects at each place is kept. *)
Objects == Fresh /\ Opened /\ SocketsReleased

LEMMA NextObjects == Inv /\ [Next]_vars => Objects'
<1> SUFFICES ASSUME Inv, [Next]_vars PROVE Objects'
  OBVIOUS
<1> USE DEF Inv, ioVars, Objects
<1>t. /\ ss \in [Session -> SessionObject] /\ conn \in [Thread -> ConnState]
      /\ queue \in Seq(Session) /\ sss \subseteq Session
      /\ cursor \in Session \cup {NoSession} /\ hand \in Session \cup {NoSession}
      /\ req \in [Session -> ReqPc]
      /\ \A s \in Session : ss[s] \in SessionObject
  BY DEF TypeOK
<1>c. \A t \in Thread : conn[t].pc # "idle" => conn[t].ss \in Session
  BY <1>t, ConnTypes
(* A step that leaves the objects alone and brings none to a new place. *)
<1>f. ASSUME UNCHANGED <<ss, req, conn>>, ToSet(queue') \subseteq ToSet(queue),
             sss' \subseteq sss, hand' \in {hand, NoSession}
      PROVE  Objects'
  BY <1>f DEF Fresh, Opened, SocketsReleased
<1>1. ASSUME NEW s \in Session, Requester(s) PROVE Objects'
  <2>1. CASE AddRequestRefused(s)
    BY <1>t, <2>1, Fields
    DEF AddRequestRefused, MayRequest, OneHolder, Pending, Held, Owns, Fresh,
        Opened, SocketsReleased
  <2>2. CASE AddRequestAccepted(s)
    BY <1>t, <2>2, Fields
    DEF AddRequestAccepted, MayRequest, OneHolder, Pending, Held, Owns, Fresh,
        Opened, SocketsReleased
  <2>3. CASE AddRequestPush(s)
    <3>1. /\ ~Pending(s) /\ ~Held(s) /\ ss[s] = NewSession
          /\ s \notin ToSet(queue) /\ IsInjective(queue)
      BY <1>t, <2>3 DEF AddRequestPush, OneHolder, Pending, Fresh, Held
    <3>2. ToSet(queue') = ToSet(queue) \cup {s}
      <4>1. CASE queue' = Append(queue, s)
        BY <1>t, <4>1, QueueAdd
      <4>2. CASE queue' = Cons(s, queue)
        <5>1. ToSet(Cons(s, queue)) = ToSet(queue) \cup {s}
          BY <1>t, QueueAdd
        <5> QED BY <4>2, <5>1
      <4> QED BY <2>3, <4>1, <4>2 DEF AddRequestPush
    <3> QED
      BY <1>t, <2>3, <3>1, <3>2, Fields
      DEF AddRequestPush, Fresh, Opened, SocketsReleased
  <2>4. CASE AddRequestSignal(s)
    BY <1>t, <2>4 DEF AddRequestSignal, Fresh, Opened, SocketsReleased
  <2>5. CASE Collect(s)
    BY <1>t, <2>5, Fields
    DEF Collect, OneHolder, Pending, Held, Owns, Fresh, Opened, SocketsReleased
  <2> QED BY <1>1, <2>1, <2>2, <2>3, <2>4, <2>5 DEF Requester
<1>2. ASSUME NEW s \in Session, Expire(s) PROVE Objects'
  <2>1. /\ req[s] \notin {"idle", "push"} /\ s \notin ToSet(queue)
        /\ \A t \in Thread : Owns(t) => conn[t].ss # s
    BY <1>t, <1>2 DEF Expire, OneHolder, Pending, Held
  <2>2. \A u \in Session : ss'[u].io = ss[u].io /\ ss'[u].sock = ss[u].sock
                            /\ ss'[u].signaled = ss[u].signaled
    BY <1>t, <1>2, Fields DEF Expire, SameState
  <2>3. \A u \in Session \ {s} : ss'[u] = ss[u]
    BY <1>t, <1>2 DEF Expire
  <2>4. UNCHANGED <<req, queue, conn, sss, hand>>
    BY <1>2 DEF Expire
  <2>5. Fresh'
    BY <2>1, <2>3, <2>4 DEF Fresh, Owns
  <2>6. Opened' /\ SocketsReleased'
    BY <1>t, <1>c, <2>2, <2>4 DEF Opened, SocketsReleased
  <2> QED BY <2>5, <2>6
<1>3. ASSUME NEW t \in Thread, Connection(t) PROVE Objects'
  <2>1. CASE ConnInsert(t)
    BY <1>t, <2>1 DEF ConnInsert, Fresh, Opened, SocketsReleased, ConnState
  <2>2. CASE ConnFail(t)
    <3>1. ss[conn[t].ss] = NewSession
      BY <1>c, <2>2 DEF ConnFail, Fresh
    <3> QED
      BY <1>t, <1>c, <2>2, <3>1, Fields
      DEF ConnFail, OneHolder, Pending, Held, Owns, Fresh, Opened,
          SocketsReleased, ConnState
  <2>3. CASE ConnOpen(t)
    <3>1. Held(conn[t].ss)
      BY <2>3 DEF ConnOpen, Held, Owns
    <3>2. req[conn[t].ss] \notin {"idle", "push"} /\ ~ss[conn[t].ss].signaled
      BY <1>c, <2>3, <3>1 DEF ConnOpen, OneHolder, Pending
    <3>3. ss'[conn[t].ss].io = "send" /\ ~ss'[conn[t].ss].signaled
      BY <1>t, <1>c, <2>3, <3>2, Fields DEF ConnOpen
    <3>4. \A u \in Session \ {conn[t].ss} : ss'[u] = ss[u]
      BY <1>t, <2>3 DEF ConnOpen
    <3>5. /\ conn[t].ss \notin ToSet(queue) /\ conn[t].ss # hand
          /\ \A u \in Thread \ {t} : Owns(u) => conn[u].ss # conn[t].ss
      BY <1>t, <2>3 DEF ConnOpen, OneHolder, Owns
    <3>6. /\ conn' = [conn EXCEPT ![t].pc = "push"]
          /\ UNCHANGED <<req, queue, sss, hand>>
      BY <2>3 DEF ConnOpen
    <3>7. Fresh'
      BY <1>t, <3>2, <3>4, <3>5, <3>6 DEF Fresh, Owns, ConnState
    <3>8. Opened'
      <4>1. ASSUME NEW u \in Thread, conn'[u].pc = "push"
            PROVE  ss'[conn'[u].ss].io # "none"
        <5>1. CASE u = t
          BY <1>t, <3>3, <3>6, <5>1 DEF ConnState
        <5>2. CASE u # t
          <6>1. conn'[u] = conn[u]
            BY <1>t, <3>6, <5>2
          <6>2. conn[u].ss \in Session \ {conn[t].ss}
            BY <1>c, <3>5, <4>1, <5>2, <6>1 DEF Owns
          <6> QED BY <3>4, <4>1, <6>1, <6>2 DEF Opened
        <5> QED BY <5>1, <5>2
      <4>2. \A s \in sss' : ss'[s].io # "none"
        BY <1>t, <3>3, <3>4, <3>6 DEF Opened
      <4>3. hand' # NoSession => ss'[hand'].io # "none" /\ ss'[hand'].sock = "none"
        BY <1>t, <3>4, <3>5, <3>6 DEF Opened
      <4> QED BY <4>1, <4>2, <4>3 DEF Opened
    <3>9. SocketsReleased'
      BY <3>2, <3>3, <3>4, <3>6 DEF SocketsReleased
    <3> QED BY <3>7, <3>8, <3>9
  <2>4. CASE ConnPush(t)
    BY <1>t, <1>c, <2>4 DEF ConnPush, Fresh, Opened, SocketsReleased, ConnState
  <2>5. CASE ConnSignal(t) \/ ConnLog(t) \/ ConnErase(t)
    BY <1>t, <2>5
    DEF ConnSignal, ConnLog, ConnErase, Fresh, Opened, SocketsReleased, ConnState
  <2> QED BY <1>3, <2>1, <2>2, <2>3, <2>4, <2>5 DEF Connection
<1>4. CASE Launch
  <2>1. ASSUME NEW t \in Thread, LaunchSpawn(t) PROVE Objects'
    <3>1. /\ Head(queue) \in Session /\ Head(queue) \in ToSet(queue)
          /\ ToSet(queue') = ToSet(queue) \ {Head(queue)}
      BY <1>t, <2>1, QueueTake DEF LaunchSpawn, OneHolder
    <3> QED
      BY <1>t, <2>1, <3>1 DEF LaunchSpawn, Fresh, Opened, SocketsReleased, ConnState
  <2>2. CASE LaunchEnd
    <3>1. /\ ToSet(queue') = {} /\ UNCHANGED <<req, conn, sss, hand>>
          /\ \A s \in Session :
                ss'[s] = IF s \in ToSet(queue) THEN Failed(ss[s]) ELSE ss[s]
      BY <2>2, QueueEmpty DEF LaunchEnd
    <3>2. \A s \in Session \cap ToSet(queue) :
              ss[s] = NewSession /\ ss'[s] = Failed(NewSession)
      BY <3>1 DEF Fresh
    <3>3. \A s \in Session \cap ToSet(queue) :
              /\ req[s] \notin {"idle", "push"} /\ s \notin sss /\ s # hand
              /\ \A t \in Thread : Owns(t) => conn[t].ss # s
      BY DEF OneHolder, Pending, Held
    <3>4. \A s \in Session \ ToSet(queue) : ss'[s] = ss[s]
      BY <3>1
    <3>5. Fresh'
      BY <3>1, <3>3, <3>4 DEF Fresh, Owns
    <3>6. Opened'
      BY <1>t, <1>c, <3>1, <3>3, <3>4 DEF Opened, Owns
    <3>7. SocketsReleased'
      BY <3>1, <3>2, <3>4, Fields DEF SocketsReleased
    <3> QED BY <3>5, <3>6, <3>7
  <2>3. CASE LaunchCheck \/ LaunchReset \/ LaunchWake \/ LaunchDrained
    BY <1>f, <2>3 DEF LaunchCheck, LaunchReset, LaunchWake, LaunchDrained
  <2> QED BY <1>4, <2>1, <2>2, <2>3 DEF Launch
<1>5. CASE NetIO
  (* A session in the list is nowhere else, and its owner waits. *)
  <2>l. \A s \in sss :
            /\ req[s] \notin {"idle", "push"} /\ s \notin ToSet(queue) /\ s # hand
            /\ \A t \in Thread : Owns(t) => conn[t].ss # s
            /\ ~ss[s].signaled
    BY <1>t DEF OneHolder, Pending, Held
  <2>1. CASE \/ NetIOCheck \/ NetIOReset \/ NetIOWake \/ NetIOSelect
             \/ NetIOBegin \/ NetIOScan \/ NetIONext
    BY <1>f, <2>1
    DEF NetIOCheck, NetIOReset, NetIOWake, NetIOSelect, NetIOBegin, NetIOScan,
        NetIONext
  <2>2. CASE NetIOTransfer
    <3>1. cursor \in sss /\ ss[cursor].io # "none" /\ cursor \in Session
      BY <1>t, <2>2 DEF NetIOTransfer, CursorValid, Opened
    <3>2. CASE ss' = ss
      BY <1>f, <2>2, <3>2 DEF NetIOTransfer
    <3>3. ASSUME NEW o \in Transferred(ss[cursor]), ss' = [ss EXCEPT ![cursor] = o]
          PROVE  Objects'
      <4>1. o.signaled = ss[cursor].signaled /\ o.io # "none"
        BY <1>t, <3>1, TransferredFields
      <4>2. UNCHANGED <<req, queue, conn, sss, hand>>
        BY <2>2 DEF NetIOTransfer
      <4>3. ss'[cursor] = o /\ \A s \in Session \ {cursor} : ss'[s] = ss[s]
        BY <1>t, <3>1, <3>3
      <4>4. Fresh'
        BY <2>l, <3>1, <4>2, <4>3 DEF Fresh, Owns
      <4>5. Opened' /\ SocketsReleased'
        BY <1>t, <1>c, <2>l, <3>1, <4>1, <4>2, <4>3 DEF Opened, SocketsReleased
      <4> QED BY <4>4, <4>5
    <3> QED BY <2>2, <3>2, <3>3 DEF NetIOTransfer
  <2>3. CASE NetIODelete
    <3>1. /\ cursor \in sss /\ cursor \in Session /\ hand' = cursor
          /\ sss' = sss \ {cursor} /\ UNCHANGED <<req, queue, conn>>
      BY <1>t, <2>3 DEF NetIODelete, CursorValid
    <3>2. /\ ss'[cursor] = Released(ss[cursor])
          /\ \A s \in Session \ {cursor} : ss'[s] = ss[s]
      BY <1>t, <2>3, <3>1 DEF NetIODelete
    <3>3. /\ ss'[cursor].io = ss[cursor].io /\ ss'[cursor].sock = "none"
          /\ ss'[cursor].signaled = ss[cursor].signaled
      BY <1>t, <3>1, <3>2, Fields DEF SameState
    <3>4. Fresh'
      BY <2>l, <3>1, <3>2 DEF Fresh, Owns
    <3>5. Opened' /\ SocketsReleased'
      BY <1>t, <1>c, <2>l, <3>1, <3>2, <3>3 DEF Opened, SocketsReleased, Owns
    <3> QED BY <3>4, <3>5
  <2>4. CASE NetIOClose
    <3>1. /\ hand \in Session /\ hand # NoSession /\ hand' = NoSession
          /\ UNCHANGED <<req, queue, conn, sss>>
      BY <1>t, <2>4 DEF NetIOClose, HandFull
    <3>2. /\ ss'[hand] = Finished(ss[hand])
          /\ \A s \in Session \ {hand} : ss'[s] = ss[s]
      BY <1>t, <2>4, <3>1 DEF NetIOClose
    <3>3. ss'[hand].sock = "none" /\ ss'[hand].io = ss[hand].io
      BY <1>t, <3>1, <3>2, Fields DEF Opened
    <3>4. /\ req[hand] \notin {"idle", "push"} /\ hand \notin ToSet(queue)
          /\ \A t \in Thread : Owns(t) => conn[t].ss # hand
      BY <3>1 DEF OneHolder, Pending, Held
    <3>5. Fresh'
      BY <3>1, <3>2, <3>4 DEF Fresh, Owns
    <3>6. Opened' /\ SocketsReleased'
      BY <1>t, <1>c, <3>1, <3>2, <3>3, <3>4 DEF Opened, SocketsReleased, Owns
    <3> QED BY <3>5, <3>6
  <2>5. CASE NetIOEnd
    <3>1. /\ sss' = {} /\ UNCHANGED <<req, queue, conn, hand>>
          /\ \A s \in sss : ss'[s] = Finished(Released(ss[s]))
          /\ \A s \in Session \ sss : ss'[s] = ss[s]
      BY <1>t, <2>5 DEF NetIOEnd
    <3>2. Fresh'
      BY <2>l, <3>1 DEF Fresh, Owns
    <3>3. Opened'
      BY <1>t, <1>c, <2>l, <3>1 DEF Opened, Owns
    <3>4. SocketsReleased'
      BY <1>t, <3>1, Fields DEF SocketsReleased
    <3> QED BY <3>2, <3>3, <3>4
  <2> QED BY <1>5, <2>1, <2>2, <2>3, <2>4, <2>5 DEF NetIO
<1>6. CASE StopBegin \/ StopSteps
  <2>1. CASE StopCloseConnecting \/ StopCloseConnected
    <3>1. UNCHANGED <<req, queue, conn, sss, hand>>
      BY <2>1 DEF StopCloseConnecting, StopCloseConnected
    <3>2. \A s \in Session : ss'[s] \in {ss[s], SocketClosed(ss[s])}
      BY <1>t, <2>1 DEF StopCloseConnecting, StopCloseConnected
    <3>3. \A s \in Session :
              /\ ss'[s].io = ss[s].io /\ ss'[s].signaled = ss[s].signaled
              /\ ss[s].sock = "none" => ss'[s].sock = "none"
      <4> SUFFICES ASSUME NEW s \in Session
                   PROVE  /\ ss'[s].io = ss[s].io /\ ss'[s].signaled = ss[s].signaled
                          /\ ss[s].sock = "none" => ss'[s].sock = "none"
        OBVIOUS
      <4>1. CASE ss'[s] = ss[s]
        BY <4>1
      <4>2. CASE ss'[s] = SocketClosed(ss[s])
        <5>1. ss[s] \in SessionObject
          BY <1>t
        <5>2. /\ SameState(ss[s], SocketClosed(ss[s]))
              /\ ss[s].sock = "none" => SocketClosed(ss[s]).sock = "none"
          BY <5>1, Fields
        <5> QED BY <4>2, <5>2 DEF SameState
      <4> QED BY <3>2, <4>1, <4>2
    <3>4. Fresh'
      BY <3>1, <3>2, Fields DEF Fresh
    <3>5. Opened' /\ SocketsReleased'
      BY <1>t, <1>c, <3>1, <3>3 DEF Opened, SocketsReleased
    <3> QED BY <3>4, <3>5
  <2>2. CASE StopBegin \/ StopSignalQueue \/ StopSignalSession \/ StopJoin \/ StopPoll
    BY <1>f, <2>2
    DEF StopBegin, StopSignalQueue, StopSignalSession, StopJoin, StopPoll
  <2> QED BY <1>6, <2>1, <2>2 DEF StopSteps
<1>7. CASE UNCHANGED vars
  BY <1>f, <1>7 DEF vars
<1> QED BY <1>1, <1>2, <1>3, <1>4, <1>5, <1>6, <1>7 DEF Next

LEMMA InvStep == Inv /\ [Next]_vars => Inv'
BY NextTypeOK, NextOneHolder, NextCursorValid, NextHandFull, NextObjects
DEF Inv, Objects

THEOREM Invariance == Spec => []Inv
BY InitInv, InvStep, PTL DEF Spec

(* Each pending request is in one place, and only pending requests are.    *)
THEOREM EachRequestHeldOnce == Spec => []OneHolder
<1>1. Inv => OneHolder
  BY DEF Inv
<1> QED BY Invariance, <1>1, PTL

(* NetIOThread's iterator is valid whenever it is used. *)
THEOREM IteratorValid == Spec => []CursorValid
<1>1. Inv => CursorValid
  BY DEF Inv
<1> QED BY Invariance, <1>1, PTL

(* A finished session has no socket. *)
THEOREM NoSocketLeft == Spec => []SocketsReleased
<1>1. Inv => SocketsReleased
  BY DEF Inv
<1> QED BY Invariance, <1>1, PTL

-----------------------------------------------------------------------------
(* The events. *)

LEMMA NextNoLost ==
    TypeOK /\ NoLostRequest /\ NoLostSession /\ [Next]_vars
        => NoLostRequest' /\ NoLostSession'
<1> SUFFICES ASSUME TypeOK, NoLostRequest, NoLostSession, [Next]_vars
             PROVE  NoLostRequest' /\ NoLostSession'
  OBVIOUS
<1> USE DEF ioVars
<1>t. conn \in [Thread -> ConnState] /\ req \in [Session -> ReqPc]
  BY DEF TypeOK
<1>a. ASSUME \/ UNCHANGED <<queue, queueSignal>> \/ queue' = << >> \/ queueSignal'
             \/ queue # << >> /\ queueSignal' = queueSignal,
             UNCHANGED req
      PROVE  NoLostRequest'
  BY <1>a DEF NoLostRequest
<1>b. ASSUME \/ UNCHANGED <<sss, sessionSignal>> \/ sss' = {} \/ sessionSignal'
             \/ sss # {} /\ sessionSignal' = sessionSignal,
             \A t \in Thread : conn[t].pc = "signal" => conn'[t].pc = "signal"
      PROVE  NoLostSession'
  BY <1>b DEF NoLostSession
<1>1. ASSUME NEW s \in Session, Requester(s)
      PROVE  NoLostRequest' /\ NoLostSession'
  <2>1. UNCHANGED <<sss, sessionSignal, conn>>
    BY <1>1
    DEF Requester, AddRequestRefused, AddRequestAccepted, AddRequestPush,
        AddRequestSignal, Collect
  <2>b. NoLostSession'
    BY <1>b, <2>1
  <2>2. CASE AddRequestPush(s)
    BY <1>t, <2>b, <2>2 DEF AddRequestPush, NoLostRequest
  <2>3. CASE AddRequestSignal(s)
    BY <2>b, <2>3 DEF AddRequestSignal, NoLostRequest
  <2>4. CASE AddRequestRefused(s) \/ AddRequestAccepted(s) \/ Collect(s)
    BY <1>t, <2>b, <2>4
    DEF AddRequestRefused, AddRequestAccepted, MayRequest, Collect, NoLostRequest
  <2> QED BY <1>1, <2>2, <2>3, <2>4 DEF Requester
<1>2. ASSUME NEW s \in Session, Expire(s) PROVE NoLostRequest' /\ NoLostSession'
  BY <1>2, <1>a, <1>b DEF Expire
<1>3. ASSUME NEW t \in Thread, Connection(t)
      PROVE  NoLostRequest' /\ NoLostSession'
  <2>1. CASE ConnPush(t)
    BY <1>t, <1>a, <2>1 DEF ConnPush, NoLostSession, ConnState
  <2>2. CASE ConnSignal(t)
    BY <1>a, <2>2 DEF ConnSignal, NoLostSession
  <2>3. CASE ConnInsert(t) \/ ConnFail(t) \/ ConnOpen(t) \/ ConnLog(t) \/ ConnErase(t)
    BY <1>t, <1>a, <1>b, <2>3
    DEF ConnInsert, ConnFail, ConnOpen, ConnLog, ConnErase, ConnState
  <2> QED BY <1>3, <2>1, <2>2, <2>3 DEF Connection
<1>4. CASE Launch
  <2>1. ASSUME NEW t \in Thread, LaunchSpawn(t)
        PROVE  NoLostRequest' /\ NoLostSession'
    BY <1>t, <1>a, <1>b, <2>1 DEF LaunchSpawn, ConnState
  <2>2. CASE LaunchReset
    BY <1>a, <1>b, <2>2 DEF LaunchReset, NoLostRequest
  <2>3. CASE LaunchCheck \/ LaunchWake \/ LaunchDrained \/ LaunchEnd
    BY <1>a, <1>b, <2>3 DEF LaunchCheck, LaunchWake, LaunchDrained, LaunchEnd
  <2> QED BY <1>4, <2>1, <2>2, <2>3 DEF Launch
<1>5. CASE NetIO
  <2>1. CASE NetIOReset
    BY <1>a, <1>b, <2>1 DEF NetIOReset, NoLostSession
  <2>2. CASE NetIODelete
    BY <1>a, <1>b, <2>2 DEF NetIODelete, NoLostSession
  <2>3. CASE \/ NetIOCheck \/ NetIOWake \/ NetIOSelect \/ NetIOBegin \/ NetIOScan
             \/ NetIOTransfer \/ NetIOClose \/ NetIONext \/ NetIOEnd
    BY <1>a, <1>b, <2>3
    DEF NetIOCheck, NetIOWake, NetIOSelect, NetIOBegin, NetIOScan, NetIOTransfer,
        NetIOClose, NetIONext, NetIOEnd
  <2> QED BY <1>5, <2>1, <2>2, <2>3 DEF NetIO
<1>6. CASE StopBegin \/ StopSteps
  BY <1>a, <1>b, <1>6
  DEF StopBegin, StopSteps, StopCloseConnecting, StopCloseConnected,
      StopSignalQueue, StopSignalSession, StopJoin, StopPoll
<1>7. CASE UNCHANGED vars
  BY <1>a, <1>b, <1>7 DEF vars
<1> QED BY <1>1, <1>2, <1>3, <1>4, <1>5, <1>6, <1>7 DEF Next

(* No thread sleeps on work: an event whose list is not empty is set, or   *)
(* is about to be.                                                         *)
THEOREM NothingLost == Spec => []NoLostWakeUp
<1>1. Init => NoLostRequest /\ NoLostSession
  BY DEF Init, NoLostRequest, NoLostSession
<1> QED BY <1>1, TypeCorrect, NextNoLost, PTL DEF Spec, NoLostWakeUp

-----------------------------------------------------------------------------
(* The refinement: every step of the client is a step of RequestService or *)
(* leaves the status and the error of every request as they are.           *)

LEMMA StatusStutter ==
    ASSUME UNCHANGED req,
           \A s \in Session : ss'[s] = ss[s] \/ SameState(ss[s], ss'[s])
    PROVE  UNCHANGED <<status, error>>
BY DEF status, error, SameState

LEMMA InitService == Init => Service!Init
<1> SUFFICES ASSUME Init PROVE Service!Init
  OBVIOUS
<1>1. status = [s \in Session |-> "idle"]
  BY DEF Init, status
<1>2. \A s \in Session : ss[s].error = FALSE
  BY Fields DEF Init
<1>3. error = [s \in Session |-> FALSE]
  BY <1>2 DEF error
<1> QED BY <1>1, <1>3 DEF Service!Init

LEMMA NextService == Inv /\ [Next]_vars => [Service!Next]_(Service!vars)
<1> SUFFICES ASSUME Inv, [Next]_vars
             PROVE  Service!Next \/ UNCHANGED <<status, error>>
  BY DEF Service!vars
<1> USE DEF Inv, ioVars
<1>t. /\ ss \in [Session -> SessionObject] /\ conn \in [Thread -> ConnState]
      /\ queue \in Seq(Session) /\ sss \subseteq Session
      /\ cursor \in Session \cup {NoSession} /\ hand \in Session \cup {NoSession}
      /\ req \in [Session -> ReqPc]
      /\ \A s \in Session : ss[s] \in SessionObject
  BY DEF TypeOK
<1>c. \A t \in Thread : conn[t].pc # "idle" => conn[t].ss \in Session
  BY <1>t, ConnTypes
<1>s. UNCHANGED <<ss, req>> => UNCHANGED <<status, error>>
  BY StatusStutter
(* A request that a thread holds is waiting if it is fresh, connected if   *)
(* not.                                                                    *)
<1>p. ASSUME NEW s \in Session, Held(s)
      PROVE  status[s] = IF ss[s].io = "none" THEN "waiting" ELSE "connected"
  BY <1>p DEF status, OneHolder, Pending
<1>1. ASSUME NEW s \in Session, Requester(s)
      PROVE  Service!Next \/ UNCHANGED <<status, error>>
  <2>1. CASE AddRequestRefused(s)
    <3>1. Service!Refuse(s)
      BY <1>t, <2>1, Fields
      DEF AddRequestRefused, MayRequest, Service!Refuse, status, error
    <3> QED BY <3>1 DEF Service!Next
  <2>2. CASE AddRequestAccepted(s)
    <3>1. Service!Submit(s)
      BY <1>t, <2>2, Fields
      DEF AddRequestAccepted, MayRequest, Service!Submit, status, error
    <3> QED BY <3>1 DEF Service!Next
  <2>3. CASE AddRequestPush(s) \/ AddRequestSignal(s)
    BY <1>t, <2>3 DEF AddRequestPush, AddRequestSignal, status, error
  <2>4. CASE Collect(s)
    <3>1. Service!Collect(s)
      BY <1>t, <2>4, Fields DEF Collect, Service!Collect, status, error
    <3> QED BY <3>1 DEF Service!Next
  <2> QED BY <1>1, <2>1, <2>2, <2>3, <2>4 DEF Requester
<1>2. ASSUME NEW s \in Session, Expire(s)
      PROVE  Service!Next \/ UNCHANGED <<status, error>>
  BY <1>t, <1>2, Fields, StatusStutter DEF Expire, SameState
<1>3. ASSUME NEW t \in Thread, Connection(t)
      PROVE  Service!Next \/ UNCHANGED <<status, error>>
  <2>1. CASE ConnFail(t)
    <3>1. /\ conn[t].ss \in Session /\ Held(conn[t].ss)
          /\ ss[conn[t].ss] = NewSession
      BY <1>c, <2>1 DEF ConnFail, Held, Owns, Fresh
    <3>2. status[conn[t].ss] = "waiting" /\ req[conn[t].ss] # "idle"
      BY <1>p, <3>1, Fields DEF OneHolder, Pending
    <3>3. /\ ss'[conn[t].ss] = Failed(NewSession) /\ UNCHANGED req
          /\ \A s \in Session \ {conn[t].ss} : ss'[s] = ss[s]
      BY <1>t, <2>1, <3>1 DEF ConnFail
    <3>4. /\ status' = [s \in Session |-> IF s \in {conn[t].ss} THEN "done" ELSE status[s]]
          /\ error' = [s \in Session |-> IF s \in {conn[t].ss} THEN TRUE ELSE error[s]]
      <4>1. \A s \in {conn[t].ss} : ss'[s].signaled /\ ss'[s].error = TRUE
        BY <3>3, Fields
      <4>2. status' = [s \in Session |-> IF s \in {conn[t].ss} THEN "done" ELSE status[s]]
        BY <3>1, <3>2, <3>3, <4>1 DEF status
      <4>3. error' = [s \in Session |-> IF s \in {conn[t].ss} THEN TRUE ELSE error[s]]
        BY <3>1, <3>2, <3>3, <4>1 DEF error
      <4> QED BY <4>2, <4>3
    <3>5. Service!Fail({conn[t].ss})
      BY <3>2, <3>4 DEF Service!Fail
    <3> QED BY <3>1, <3>5 DEF Service!Next
  <2>2. CASE ConnOpen(t)
    <3>1. /\ conn[t].ss \in Session /\ Held(conn[t].ss)
          /\ ss[conn[t].ss] = NewSession
      BY <1>c, <2>2 DEF ConnOpen, Held, Owns, Fresh
    <3>2. status[conn[t].ss] = "waiting" /\ req[conn[t].ss] # "idle"
          /\ ~ss[conn[t].ss].signaled
      BY <1>p, <3>1, Fields DEF OneHolder, Pending
    <3>3. /\ ss'[conn[t].ss].io = "send" /\ ~ss'[conn[t].ss].signaled
          /\ ss'[conn[t].ss].error = ss[conn[t].ss].error /\ UNCHANGED req
          /\ \A s \in Session \ {conn[t].ss} : ss'[s] = ss[s]
      BY <1>t, <2>2, <3>1, <3>2, Fields DEF ConnOpen
    <3>4. /\ status' = [status EXCEPT ![conn[t].ss] = "connected"]
          /\ UNCHANGED error
      BY <3>1, <3>2, <3>3 DEF status, error
    <3>5. Service!Connect(conn[t].ss)
      BY <3>2, <3>4 DEF Service!Connect
    <3> QED BY <3>1, <3>5 DEF Service!Next
  <2>3. CASE ConnInsert(t) \/ ConnPush(t) \/ ConnSignal(t) \/ ConnLog(t) \/ ConnErase(t)
    BY <1>s, <2>3 DEF ConnInsert, ConnPush, ConnSignal, ConnLog, ConnErase
  <2> QED BY <1>3, <2>1, <2>2, <2>3 DEF Connection
<1>4. CASE Launch
  <2>1. CASE LaunchEnd
    <3> DEFINE R == Session \cap ToSet(queue)
    <3>1. /\ \A s \in R : ss[s] = NewSession /\ ss'[s] = Failed(NewSession)
          /\ \A s \in Session \ R : ss'[s] = ss[s]
          /\ UNCHANGED req
      BY <2>1 DEF LaunchEnd, Fresh
    <3>2. \A s \in R : status[s] = "waiting" /\ req[s] # "idle"
      BY <1>p, <3>1, Fields DEF Held, OneHolder, Pending
    <3>3. /\ status' = [s \in Session |-> IF s \in R THEN "done" ELSE status[s]]
          /\ error' = [s \in Session |-> IF s \in R THEN TRUE ELSE error[s]]
      <4>1. \A s \in R : ss'[s].signaled /\ ss'[s].error = TRUE
        BY <3>1, Fields
      <4>2. status' = [s \in Session |-> IF s \in R THEN "done" ELSE status[s]]
        BY <3>1, <3>2, <4>1 DEF status
      <4>3. error' = [s \in Session |-> IF s \in R THEN TRUE ELSE error[s]]
        BY <3>1, <3>2, <4>1 DEF error
      <4> QED BY <4>2, <4>3
    <3>4. Service!Fail(R)
      BY <3>2, <3>3 DEF Service!Fail
    <3> QED BY <3>4 DEF Service!Next
  <2>2. CASE \/ LaunchCheck \/ LaunchReset \/ LaunchWake \/ LaunchDrained
             \/ \E t \in Thread : LaunchSpawn(t)
    BY <1>s, <2>2
    DEF LaunchCheck, LaunchReset, LaunchWake, LaunchDrained, LaunchSpawn
  <2> QED BY <1>4, <2>1, <2>2 DEF Launch
<1>5. CASE NetIO
  <2>1. CASE NetIOTransfer
    <3>1. cursor \in sss /\ ss[cursor].io # "none" /\ cursor \in Session
      BY <1>t, <2>1 DEF NetIOTransfer, CursorValid, Opened
    <3>2. status[cursor] = "connected"
      BY <1>p, <3>1 DEF Held
    <3>3. UNCHANGED req
      BY <2>1 DEF NetIOTransfer
    <3>4. ASSUME NEW o \in Transferred(ss[cursor]), ss' = [ss EXCEPT ![cursor] = o]
          PROVE  Service!Next \/ UNCHANGED <<status, error>>
      <4>1. /\ o.signaled = ss[cursor].signaled /\ o.io # "none"
            /\ o.error \in {ss[cursor].error, TRUE}
        BY <1>t, <3>1, TransferredFields
      <4>2. ss'[cursor] = o /\ \A s \in Session \ {cursor} : ss'[s] = ss[s]
        BY <1>t, <3>1, <3>4
      <4>3. UNCHANGED status
        BY <3>1, <3>3, <4>1, <4>2 DEF status
      <4>4. CASE o.error = ss[cursor].error
        <5>1. UNCHANGED error
          BY <4>2, <4>4 DEF error
        <5> QED BY <4>3, <5>1
      <4>5. CASE o.error = TRUE
        <5>1. error' = [error EXCEPT ![cursor] = TRUE]
          BY <3>1, <4>2, <4>5 DEF error
        <5>2. Service!Break(cursor)
          BY <3>2, <4>3, <5>1 DEF Service!Break
        <5> QED BY <3>1, <5>2 DEF Service!Next
      <4> QED BY <4>1, <4>4, <4>5
    <3> QED BY <1>s, <2>1, <3>3, <3>4 DEF NetIOTransfer
  <2>2. CASE NetIODelete
    <3>1. \A s \in Session : ss'[s] = ss[s] \/ SameState(ss[s], ss'[s])
      BY <1>t, <2>2, Fields DEF NetIODelete
    <3> QED BY <2>2, <3>1, StatusStutter DEF NetIODelete
  <2>3. CASE NetIOClose
    <3>1. hand \in Session /\ Held(hand) /\ ss[hand].io # "none"
      BY <1>t, <2>3 DEF NetIOClose, HandFull, Held, Opened
    <3>2. status[hand] = "connected" /\ req[hand] # "idle"
      BY <1>p, <3>1 DEF OneHolder, Pending
    <3>3. /\ ss'[hand].signaled /\ ss'[hand].error = ss[hand].error
          /\ \A s \in Session \ {hand} : ss'[s] = ss[s]
          /\ UNCHANGED req
      BY <1>t, <2>3, <3>1, Fields DEF NetIOClose
    <3>4. /\ status' = [s \in Session |-> IF s \in {hand} THEN "done" ELSE status[s]]
          /\ UNCHANGED error
      BY <3>1, <3>2, <3>3 DEF status, error
    <3>5. Service!Answer({hand})
      BY <3>2, <3>4 DEF Service!Answer
    <3> QED BY <3>1, <3>5 DEF Service!Next
  <2>4. CASE NetIOEnd
    <3>1. \A s \in sss : status[s] = "connected" /\ req[s] # "idle"
      BY <1>t, <1>p DEF Held, Opened, OneHolder, Pending
    <3>2. /\ \A s \in sss : ss'[s].signaled /\ ss'[s].error = ss[s].error
          /\ \A s \in Session \ sss : ss'[s] = ss[s]
          /\ UNCHANGED req
      BY <1>t, <2>4, Fields DEF NetIOEnd
    <3>3. /\ status' = [s \in Session |-> IF s \in sss THEN "done" ELSE status[s]]
          /\ UNCHANGED error
      <4>1. \A s \in Session : ss'[s].error = ss[s].error
        BY <3>2
      <4>2. UNCHANGED error
        BY <4>1 DEF error
      <4>3. status' = [s \in Session |-> IF s \in sss THEN "done" ELSE status[s]]
        BY <3>1, <3>2 DEF status
      <4> QED BY <4>2, <4>3
    <3>4. Service!Answer(sss)
      BY <3>1, <3>3 DEF Service!Answer
    <3> QED BY <1>t, <3>4 DEF Service!Next
  <2>5. CASE \/ NetIOCheck \/ NetIOReset \/ NetIOWake \/ NetIOSelect
             \/ NetIOBegin \/ NetIOScan \/ NetIONext
    BY <1>s, <2>5
    DEF NetIOCheck, NetIOReset, NetIOWake, NetIOSelect, NetIOBegin, NetIOScan,
        NetIONext
  <2> QED BY <1>5, <2>1, <2>2, <2>3, <2>4, <2>5 DEF NetIO
<1>6. CASE StopBegin \/ StopSteps
  <2>1. CASE StopCloseConnecting \/ StopCloseConnected
    <3>1. \A s \in Session : ss'[s] = ss[s] \/ SameState(ss[s], ss'[s])
      BY <1>t, <2>1, Fields DEF StopCloseConnecting, StopCloseConnected
    <3> QED BY <2>1, <3>1, StatusStutter DEF StopCloseConnecting, StopCloseConnected
  <2>2. CASE StopBegin \/ StopSignalQueue \/ StopSignalSession \/ StopJoin \/ StopPoll
    BY <1>s, <2>2
    DEF StopBegin, StopSignalQueue, StopSignalSession, StopJoin, StopPoll
  <2> QED BY <1>6, <2>1, <2>2 DEF StopSteps
<1>7. CASE UNCHANGED vars
  BY <1>s, <1>7 DEF vars
<1> QED BY <1>1, <1>2, <1>3, <1>4, <1>5, <1>6, <1>7 DEF Next

(* The client implements RequestService. *)
THEOREM ClientImplementsService == Spec => Implements
BY InitService, Invariance, NextService, PTL DEF Spec, Implements, Service!SafeSpec

-----------------------------------------------------------------------------
(* Stop and the two threads it waits for: the safety part of StopReturns.  *)

(* Both threads will see that the client is no longer active: neither is   *)
(* about to reset its event, and Stop's signal, once sent, is still there  *)
(* when the thread waits for it.                                           *)
Heard ==
    /\ stop # "run" /\ launch # "reset" /\ netio # "reset"
    /\ stop \in {"session", "join"} /\ launch = "wait" => queueSignal
    /\ stop = "join" /\ netio = "wait" => sessionSignal

(* A session is in the list of connecting sessions while a thread connects *)
(* it, and the client is active until Stop.                                *)
Connecting(t) == conn[t].pc \in {"connect", "push", "signal", "log", "erase"}
StopInv ==
    /\ active <=> stop = "run"
    /\ \A s \in connectss : \E t \in Thread : Connecting(t) /\ conn[t].ss = s

LEMMA ConnectingFrame ==
    ASSUME \A s \in connectss : \E t \in Thread : Connecting(t) /\ conn[t].ss = s,
           connectss' \subseteq connectss,
           \A t \in Thread : Connecting(t) => conn'[t] = conn[t]
    PROVE  \A s \in connectss' : \E t \in Thread : Connecting(t)' /\ conn'[t].ss = s
BY DEF Connecting

LEMMA ConnectingStep ==
    ASSUME TypeOK, StopInv, NEW t \in Thread, Connection(t)
    PROVE  \A s \in connectss' : \E u \in Thread : Connecting(u)' /\ conn'[u].ss = s
<1>1. conn \in [Thread -> ConnState]
  BY DEF TypeOK
<1> SUFFICES ASSUME NEW s \in connectss'
             PROVE  \E u \in Thread : Connecting(u)' /\ conn'[u].ss = s
  OBVIOUS
<1>2. \A u \in Thread \ {t} : conn'[u] = conn[u]
  BY <1>1 DEF Connection, ConnInsert, ConnFail, ConnOpen, ConnPush, ConnSignal, ConnLog, ConnErase
<1>3. CASE ConnErase(t)
  <2>1. s \in connectss /\ s # conn[t].ss
    BY <1>3 DEF ConnErase
  <2>2. PICK u \in Thread : Connecting(u) /\ conn[u].ss = s
    BY <2>1 DEF StopInv
  <2>3. u # t
    BY <2>1, <2>2
  <2> QED BY <1>2, <2>2, <2>3 DEF Connecting
<1>4. CASE ConnInsert(t) \/ ConnFail(t) \/ ConnOpen(t) \/ ConnPush(t) \/ ConnSignal(t)
      \/ ConnLog(t)
  <2>1. PICK c \in {"connect", "push", "signal", "log", "erase"} :
            conn' = [conn EXCEPT ![t].pc = c]
    BY <1>4 DEF ConnInsert, ConnFail, ConnOpen, ConnPush, ConnSignal, ConnLog
  <2>2. conn[t].pc # "idle"
    BY <1>4 DEF ConnInsert, ConnFail, ConnOpen, ConnPush, ConnSignal, ConnLog
  <2>3. conn[t] \in [pc : ConnPc \ {"idle"}, ss : Session]
    BY <1>1, <2>2 DEF ConnState
  <2>4. conn'[t].pc = c /\ conn'[t].ss = conn[t].ss
    BY <1>1, <2>1, <2>3
  <2>5. CASE s = conn[t].ss
    BY <2>1, <2>4, <2>5 DEF Connecting
  <2>6. CASE s # conn[t].ss
    <3>1. s \in connectss
      BY <1>4, <2>6 DEF ConnInsert, ConnFail, ConnOpen, ConnPush, ConnSignal, ConnLog
    <3>2. PICK u \in Thread : Connecting(u) /\ conn[u].ss = s
      BY <3>1 DEF StopInv
    <3>3. u # t
      BY <2>6, <3>2
    <3> QED BY <1>2, <3>2, <3>3 DEF Connecting
  <2> QED BY <2>5, <2>6
<1> QED BY <1>3, <1>4 DEF Connection

LEMMA StopInvStep == TypeOK /\ StopInv /\ [Next]_vars => StopInv'
<1> SUFFICES ASSUME TypeOK, StopInv, [Next]_vars PROVE StopInv'
  OBVIOUS
<1>1. conn \in [Thread -> ConnState]
  BY DEF TypeOK
<1>2. CASE UNCHANGED <<active, stop, connectss, conn>>
  BY <1>2 DEF StopInv, Connecting
<1>3. ASSUME NEW s \in Session, Requester(s) \/ Expire(s) PROVE StopInv'
  <2>1. UNCHANGED <<active, stop, connectss, conn>>
    BY <1>3 DEF Requester, AddRequestRefused, AddRequestAccepted, AddRequestPush,
       AddRequestSignal, Collect, Expire
  <2> QED BY <1>2, <2>1
<1>4. ASSUME NEW t \in Thread, Connection(t) PROVE StopInv'
  <2>1. UNCHANGED <<active, stop>>
    BY <1>4 DEF Connection, ConnInsert, ConnFail, ConnOpen, ConnPush, ConnSignal, ConnLog, ConnErase
  <2> QED BY <1>4, <2>1, ConnectingStep DEF StopInv
<1>5. CASE Launch
  <2>1. UNCHANGED <<active, stop, connectss>>
    BY <1>5 DEF Launch, LaunchCheck, LaunchReset, LaunchWake, LaunchSpawn, LaunchDrained,
       LaunchEnd
  <2>2. \A t \in Thread : Connecting(t) => conn'[t] = conn[t]
    <3>1. CASE UNCHANGED conn
      BY <3>1
    <3>2. ASSUME NEW u \in Thread, LaunchSpawn(u)
          PROVE  \A t \in Thread : Connecting(t) => conn'[t] = conn[t]
      BY <1>1, <3>2 DEF LaunchSpawn, Connecting
    <3> QED BY <1>5, <3>1, <3>2 DEF Launch, LaunchCheck, LaunchReset, LaunchWake,
            LaunchDrained, LaunchEnd
  <2> QED BY <2>1, <2>2, ConnectingFrame DEF StopInv
<1>6. CASE NetIO
  <2>1. UNCHANGED <<active, stop, connectss, conn>>
    BY <1>6 DEF NetIO, NetIOCheck, NetIOReset, NetIOWake, NetIOSelect, NetIOBegin,
       NetIOScan, NetIOTransfer, NetIODelete, NetIOClose, NetIONext, NetIOEnd
  <2> QED BY <1>2, <2>1
<1>7. CASE StopBegin \/ StopSteps
  <2>1. UNCHANGED <<connectss, conn>> /\ stop' # "run" /\ ~active'
    BY <1>7 DEF StopBegin, StopSteps, StopCloseConnecting, StopCloseConnected,
       StopSignalQueue, StopSignalSession, StopJoin, StopPoll, StopInv
  <2> QED BY <2>1 DEF StopInv, Connecting
<1>8. CASE UNCHANGED vars
  BY <1>2, <1>8 DEF vars
<1> QED BY <1>3, <1>4, <1>5, <1>6, <1>7, <1>8 DEF Next

LEMMA StopInvariance == Spec => [](TypeOK /\ StopInv)
<1>1. Init => StopInv
  BY DEF Init, StopInv
<1> QED BY <1>1, InitTypeOK, NextTypeOK, StopInvStep, PTL DEF Spec

(* What steps of the threads and of Stop's caller are possible. *)
LaunchReady ==
    \/ launch \in {"check", "reset", "end"}
    \/ launch = "wait" /\ queueSignal
    \/ launch = "drain" /\ (queue = << >> \/ \E t \in Thread : conn[t].pc = "idle")
NetIOReady == netio \notin {"wait", "done"} \/ (netio = "wait" /\ sessionSignal)
StopReady ==
    \/ stop \in {"connectss", "sss", "queue", "session"}
    \/ stop = "join" /\ launch = "done" /\ netio = "done"
    \/ stop = "poll" /\ connectss = {}

(* Somebody can go on until Stop returns: a connection thread that has not *)
(* come to its end is in need of nothing.                                  *)
StopGoesOn ==
    stop \notin {"run", "stopped"} =>
        \/ StopReady \/ LaunchReady \/ NetIOReady
        \/ \E t \in Thread : conn[t].pc # "idle"

(* A thread that Stop waits for waits for an event nobody has set. *)
Overslept ==
    /\ stop = "join"
    /\ (launch = "wait" /\ ~queueSignal) \/ (netio = "wait" /\ ~sessionSignal)

(* Stop is heard if it clears Active while neither thread is between its   *)
(* look at Active and its ResetEvent, and once it is heard it stays so: no *)
(* thread resets an event again, whatever requests still come in.          *)
THEOREM StopIsHeard ==
    Spec => [][Heard \/ (StopBegin /\ launch # "reset" /\ netio # "reset") => Heard']_vars
<1> DEFINE H == Heard \/ (StopBegin /\ launch # "reset" /\ netio # "reset")
<1>1. ASSUME TypeOK, StopInv, [Next]_vars, H PROVE Heard'
  <2>1. CASE StopBegin
    BY <1>1, <2>1 DEF StopBegin, Heard
  <2>2. CASE ~StopBegin
    <3>1. Heard /\ ~active
      BY <1>1, <2>2 DEF StopInv, Heard
    <3>2. ASSUME NEW s \in Session, Requester(s) \/ Expire(s) PROVE Heard'
      <4>1. UNCHANGED <<stop, launch, netio, sessionSignal>> /\ (queueSignal => queueSignal')
        BY <3>2 DEF Requester, AddRequestRefused, AddRequestAccepted, AddRequestPush,
           AddRequestSignal, Collect, Expire
      <4> QED BY <3>1, <4>1 DEF Heard
    <3>3. ASSUME NEW t \in Thread, Connection(t) PROVE Heard'
      <4>1. UNCHANGED <<stop, launch, netio, queueSignal>> /\ (sessionSignal => sessionSignal')
        BY <3>3 DEF Connection, ConnInsert, ConnFail, ConnOpen, ConnPush, ConnSignal,
           ConnLog, ConnErase
      <4> QED BY <3>1, <4>1 DEF Heard
    <3>4. CASE Launch
      <4>1. UNCHANGED <<stop, netio, sessionSignal, queueSignal>>
        BY <3>1, <3>4 DEF Launch, LaunchCheck, LaunchReset, LaunchWake, LaunchSpawn,
           LaunchDrained, LaunchEnd, Heard
      <4>2. launch' # "reset" /\ (launch' = "wait" => launch = "wait")
        BY <3>1, <3>4 DEF Launch, LaunchCheck, LaunchReset, LaunchWake, LaunchSpawn,
           LaunchDrained, LaunchEnd, Heard
      <4> QED BY <3>1, <4>1, <4>2 DEF Heard
    <3>5. CASE NetIO
      <4>1. UNCHANGED <<stop, launch, queueSignal, sessionSignal>>
        BY <3>1, <3>5 DEF NetIO, NetIOCheck, NetIOReset, NetIOWake, NetIOSelect,
           NetIOBegin, NetIOScan, NetIOTransfer, NetIODelete, NetIOClose, NetIONext,
           NetIOEnd, Heard
      <4>2. netio' \notin {"reset", "wait"}
        BY <3>1, <3>5 DEF NetIO, NetIOCheck, NetIOReset, NetIOWake, NetIOSelect,
           NetIOBegin, NetIOScan, NetIOTransfer, NetIODelete, NetIOClose, NetIONext,
           NetIOEnd, Heard
      <4> QED BY <3>1, <4>1, <4>2 DEF Heard
    <3>6. CASE StopSteps
      BY <3>1, <3>6 DEF StopSteps, StopCloseConnecting, StopCloseConnected,
         StopSignalQueue, StopSignalSession, StopJoin, StopPoll, Heard
    <3>7. CASE UNCHANGED vars
      BY <3>1, <3>7 DEF vars, Heard
    <3> QED BY <1>1, <2>2, <3>2, <3>3, <3>4, <3>5, <3>6, <3>7 DEF Next
  <2> QED BY <2>1, <2>2
<1> QED BY <1>1, StopInvariance, PTL DEF Spec

(* Stop, which waits for two threads and for the list of connecting        *)
(* sessions, comes to a standstill only behind a thread that has erased    *)
(* its signal and sleeps, and never when it is heard.                      *)
THEOREM NoOtherStandstill ==
    ASSUME Thread # {}
    PROVE  Spec => []((StopGoesOn \/ Overslept) /\ (Heard => StopGoesOn))
<1>1. ASSUME TypeOK, StopInv PROVE (StopGoesOn \/ Overslept) /\ (Heard => StopGoesOn)
  <2>1. Heard => ~Overslept
    BY DEF Heard, Overslept
  <2>2. ASSUME ~StopGoesOn PROVE Overslept
    <3>1. /\ stop \in {"join", "poll"} /\ ~LaunchReady /\ ~NetIOReady /\ ~StopReady
          /\ \A t \in Thread : conn[t].pc = "idle"
      BY <1>1, <2>2 DEF StopGoesOn, StopReady, TypeOK, StopPc
    <3>2. connectss = {}
      BY <1>1, <3>1 DEF StopInv, Connecting
    <3>3. stop = "join" /\ (launch # "done" \/ netio # "done")
      BY <3>1, <3>2 DEF StopReady
    <3>4. launch # "done" => launch = "wait" /\ ~queueSignal
      BY <1>1, <3>1 DEF LaunchReady, TypeOK, LaunchPc
    <3>5. netio # "done" => netio = "wait" /\ ~sessionSignal
      BY <3>1 DEF NetIOReady
    <3> QED BY <3>3, <3>4, <3>5 DEF Overslept
  <2> QED BY <2>1, <2>2
<1> QED BY <1>1, StopInvariance, PTL
=============================================================================
