------------------------------- MODULE Client -------------------------------
(***************************************************************************)
(* O2Client and O2Client_HTTP (src.o2on/O2Client.cpp, O2Client_HTTP.hpp)   *)
(* with the session objects they pass around (O2SocketSession.hpp).        *)
(*                                                                         *)
(* The threads: any number of requesters (the jobs and the admin server's  *)
(* handlers), each of which adds the session object it owns and waits for  *)
(* it; the launch thread, which takes requests from the queue and starts   *)
(* one connection thread each; the connection threads; the network I/O     *)
(* thread, which serves the connected sessions; and the thread that stops  *)
(* the client.  One action per section of code that holds a lock, or that  *)
(* touches shared state without one.                                       *)
(*                                                                         *)
(* A member of Session is the address of a session object: its owner       *)
(* disposes of the object after Wait() and may use the address again, as   *)
(* the jobs' loops do with an object on their stack.                       *)
(***************************************************************************)
EXTENDS Naturals, Sequences, SequencesExt

CONSTANTS
    Session,        \* addresses of session objects
    NoSession,      \* no session: the end() of a list, an empty hand
    Thread,         \* connection threads that may be alive together
    HighPriority,   \* sessions added with high_priority = true
    Late            \* sessions whose owner may still be waiting when Stop is called

ASSUME ClientAssumption ==
    /\ NoSession \notin Session
    /\ HighPriority \subseteq Session
    /\ Late \subseteq Session

VARIABLES
    active,         \* O2Client::Active
    queue,          \* the requests that wait for a connection thread
    queueSignal,    \* QueueExistSignal
    connectss,      \* sessions registered by a connection thread
    sss,            \* the connected sessions
    sessionSignal,  \* SessionExistSignal
    ss,             \* the session objects
    req,            \* where the owner of each session object is
    launch,         \* where LaunchThread is
    conn,           \* where each connection thread is, and with which session
    netio,          \* where NetIOThread is
    fds,            \* the sessions select found ready
    cursor,         \* NetIOThread's list iterator ssit; NoSession is end()
    ahead,          \* the sessions behind ssit in the list
    hand,           \* the session NetIOThread has erased and not finished yet
    stop            \* where the caller of Stop is

ioVars == <<fds, cursor, ahead, hand>>
vars == <<active, queue, queueSignal, connectss, sss, sessionSignal, ss, req,
          launch, conn, netio, ioVars, stop>>

-----------------------------------------------------------------------------
(* The session objects. *)

(* A fresh O2SocketSession.  io stands for the flags can_send, can_recv;   *)
(* stale says that timeout_s have passed since t, which starts as 0.       *)
NewSession ==
    [signaled |-> FALSE, error |-> FALSE, active |-> FALSE, io |-> "none",
     sock |-> "none", stale |-> TRUE]

SessionObject ==
    [signaled : BOOLEAN, error : BOOLEAN, active : BOOLEAN,
     io : {"none", "send", "recv"}, sock : {"none", "open", "closed"},
     stale : BOOLEAN]

Finished(o) == [o EXCEPT !.signaled = TRUE]
Failed(o) == [o EXCEPT !.signaled = TRUE, !.error = TRUE]
Broken(o) == [o EXCEPT !.error = TRUE, !.active = FALSE]
Released(o) == [o EXCEPT !.sock = "none"]
(* closesocket does nothing to the value INVALID_SOCKET. *)
SocketClosed(o) == [o EXCEPT !.sock = IF o.sock = "open" THEN "closed" ELSE o.sock]

ReqPc == {"idle", "push", "signal", "wait"}
LaunchPc == {"check", "reset", "wait", "drain", "end", "done"}
ConnPc == {"idle", "insert", "connect", "push", "signal", "log", "erase"}
ConnState ==
    {[pc |-> "idle", ss |-> NoSession]} \cup [pc : ConnPc \ {"idle"}, ss : Session]
NetIOPc == {"check", "reset", "wait", "select", "begin", "scan", "visit",
            "delete", "close", "end", "done"}
StopPc == {"run", "connectss", "sss", "queue", "session", "join", "poll", "stopped"}

TypeOK ==
    /\ active \in BOOLEAN
    /\ queue \in Seq(Session)
    /\ queueSignal \in BOOLEAN
    /\ connectss \subseteq Session
    /\ sss \subseteq Session
    /\ sessionSignal \in BOOLEAN
    /\ ss \in [Session -> SessionObject]
    /\ req \in [Session -> ReqPc]
    /\ launch \in LaunchPc
    /\ conn \in [Thread -> ConnState]
    /\ netio \in NetIOPc
    /\ fds \subseteq Session
    /\ cursor \in Session \cup {NoSession}
    /\ ahead \subseteq Session
    /\ hand \in Session \cup {NoSession}
    /\ stop \in StopPc

(* The state in which Start returns: main starts the client before it       *)
(* starts anything that uses it.                                            *)
Init ==
    /\ active = TRUE
    /\ queue = << >>
    /\ queueSignal = FALSE
    /\ connectss = {}
    /\ sss = {}
    /\ sessionSignal = FALSE
    /\ ss = [s \in Session |-> NewSession]
    /\ req = [s \in Session |-> "idle"]
    /\ launch = "check"
    /\ conn = [t \in Thread |-> [pc |-> "idle", ss |-> NoSession]]
    /\ netio = "check"
    /\ fds = {}
    /\ cursor = NoSession
    /\ ahead = {}
    /\ hand = NoSession
    /\ stop = "run"

-----------------------------------------------------------------------------
(* The owner of session s: AddRequest, then Wait. *)

(* Jobs make requests only while the client runs: main stops the scheduler *)
(* and waits for its jobs before it stops the client.                      *)
MayRequest(s) == req[s] = "idle" /\ (stop = "run" \/ s \in Late)

(* The client is not active, or the session has no address or nothing to   *)
(* send: the request is finished with an error.                            *)
AddRequestRefused(s) ==
    /\ MayRequest(s)
    /\ ss' = [ss EXCEPT ![s] = Failed(NewSession)]
    /\ req' = [req EXCEPT ![s] = "wait"]
    /\ UNCHANGED <<active, queue, queueSignal, connectss, sss, sessionSignal,
                   launch, conn, netio, ioVars, stop>>

(* Active is read without a lock, before QueueLock is taken. *)
AddRequestAccepted(s) ==
    /\ MayRequest(s)
    /\ active
    /\ ss' = [ss EXCEPT ![s] = NewSession]
    /\ req' = [req EXCEPT ![s] = "push"]
    /\ UNCHANGED <<active, queue, queueSignal, connectss, sss, sessionSignal,
                   launch, conn, netio, ioVars, stop>>

AddRequestPush(s) ==
    /\ req[s] = "push"
    /\ queue' = IF s \in HighPriority THEN Cons(s, queue) ELSE Append(queue, s)
    /\ req' = [req EXCEPT ![s] = "signal"]
    /\ UNCHANGED <<active, queueSignal, connectss, sss, sessionSignal, ss,
                   launch, conn, netio, ioVars, stop>>

AddRequestSignal(s) ==
    /\ req[s] = "signal"
    /\ queueSignal' = TRUE
    /\ req' = [req EXCEPT ![s] = "wait"]
    /\ UNCHANGED <<active, queue, connectss, sss, sessionSignal, ss, launch,
                   conn, netio, ioVars, stop>>

(* ss.Wait() returns and the owner disposes of the session object. *)
Collect(s) ==
    /\ req[s] = "wait"
    /\ ss[s].signaled
    /\ ss' = [ss EXCEPT ![s] = NewSession]
    /\ req' = [req EXCEPT ![s] = "idle"]
    /\ UNCHANGED <<active, queue, queueSignal, connectss, sss, sessionSignal,
                   launch, conn, netio, ioVars, stop>>

Requester(s) ==
    \/ AddRequestRefused(s) \/ AddRequestAccepted(s) \/ AddRequestPush(s)
    \/ AddRequestSignal(s) \/ Collect(s)

-----------------------------------------------------------------------------
(* LaunchThread. *)

LaunchCheck ==
    /\ launch = "check"
    /\ launch' = IF active THEN "reset" ELSE "end"
    /\ UNCHANGED <<active, queue, queueSignal, connectss, sss, sessionSignal,
                   ss, req, conn, netio, ioVars, stop>>

\* Bug: the event is reset whether or not the queue is empty.
LaunchReset_Unconditional ==
    /\ launch = "reset"
    /\ queueSignal' = FALSE
    /\ launch' = "wait"
    /\ UNCHANGED <<active, queue, connectss, sss, sessionSignal, ss, req, conn,
                   netio, ioVars, stop>>

LaunchReset ==
    /\ launch = "reset"
    /\ queueSignal' = (queueSignal /\ queue # << >>)
    /\ launch' = "wait"
    /\ UNCHANGED <<active, queue, connectss, sss, sessionSignal, ss, req, conn,
                   netio, ioVars, stop>>

LaunchWake ==
    /\ launch = "wait"
    /\ queueSignal
    /\ launch' = IF active THEN "drain" ELSE "end"
    /\ UNCHANGED <<active, queue, queueSignal, connectss, sss, sessionSignal,
                   ss, req, conn, netio, ioVars, stop>>

(* Take the first request and start a connection thread for it. *)
LaunchSpawn(t) ==
    /\ launch = "drain"
    /\ queue # << >>
    /\ conn[t].pc = "idle"
    /\ conn' = [conn EXCEPT ![t] = [pc |-> "insert", ss |-> Head(queue)]]
    /\ queue' = Tail(queue)
    /\ UNCHANGED <<active, queueSignal, connectss, sss, sessionSignal, ss, req,
                   launch, netio, ioVars, stop>>

LaunchDrained ==
    /\ launch = "drain"
    /\ queue = << >>
    /\ launch' = "check"
    /\ UNCHANGED <<active, queue, queueSignal, connectss, sss, sessionSignal,
                   ss, req, conn, netio, ioVars, stop>>

\* Bug: the queue is not cleared.
LaunchEnd_NoClear ==
    /\ launch = "end"
    /\ ss' = [s \in Session |-> IF s \in ToSet(queue) THEN Failed(ss[s]) ELSE ss[s]]
    /\ launch' = "done"
    /\ UNCHANGED <<active, queue, queueSignal, connectss, sss, sessionSignal,
                   req, conn, netio, ioVars, stop>>

(* The thread ends: whatever is queued is finished with an error. *)
LaunchEnd ==
    /\ launch = "end"
    /\ ss' = [s \in Session |-> IF s \in ToSet(queue) THEN Failed(ss[s]) ELSE ss[s]]
    /\ queue' = << >>
    /\ launch' = "done"
    /\ UNCHANGED <<active, queueSignal, connectss, sss, sessionSignal, req,
                   conn, netio, ioVars, stop>>

Launch ==
    \/ LaunchCheck \/ LaunchReset \/ LaunchWake \/ LaunchDrained \/ LaunchEnd
    \/ \E t \in Thread : LaunchSpawn(t)

-----------------------------------------------------------------------------
(* Connection thread t. *)

ConnInsert(t) ==
    /\ conn[t].pc = "insert"
    /\ connectss' = connectss \cup {conn[t].ss}
    /\ conn' = [conn EXCEPT ![t].pc = "connect"]
    /\ UNCHANGED <<active, queue, queueSignal, sss, sessionSignal, ss, req,
                   launch, netio, ioVars, stop>>

\* Bug: the session is finished without its error flag.
ConnFail_NoError(t) ==
    /\ conn[t].pc = "connect"
    /\ ss' = [ss EXCEPT ![conn[t].ss] = Finished(@)]
    /\ conn' = [conn EXCEPT ![t].pc = "erase"]
    /\ UNCHANGED <<active, queue, queueSignal, connectss, sss, sessionSignal,
                   req, launch, netio, ioVars, stop>>

(* No socket, or connect2 failed or timed out. *)
ConnFail(t) ==
    /\ conn[t].pc = "connect"
    /\ ss' = [ss EXCEPT ![conn[t].ss] = Failed(@)]
    /\ conn' = [conn EXCEPT ![t].pc = "erase"]
    /\ UNCHANGED <<active, queue, queueSignal, connectss, sss, sessionSignal,
                   req, launch, netio, ioVars, stop>>

(* Connected: UpdateTimer, Activate, OnConnect. *)
ConnOpen(t) ==
    /\ conn[t].pc = "connect"
    /\ ss' = [ss EXCEPT ![conn[t].ss] =
                 [@ EXCEPT !.sock = "open", !.stale = FALSE, !.active = TRUE,
                           !.io = "send"]]
    /\ conn' = [conn EXCEPT ![t].pc = "push"]
    /\ UNCHANGED <<active, queue, queueSignal, connectss, sss, sessionSignal,
                   req, launch, netio, ioVars, stop>>

(* push_back: an iterator that has not reached end() will reach the new    *)
(* element.                                                                *)
ConnPush(t) ==
    /\ conn[t].pc = "push"
    /\ sss' = sss \cup {conn[t].ss}
    /\ ahead' = IF cursor = NoSession THEN ahead ELSE ahead \cup {conn[t].ss}
    /\ conn' = [conn EXCEPT ![t].pc = "signal"]
    /\ UNCHANGED <<active, queue, queueSignal, connectss, sessionSignal, ss,
                   req, launch, netio, fds, cursor, hand, stop>>

ConnSignal(t) ==
    /\ conn[t].pc = "signal"
    /\ sessionSignal' = TRUE
    /\ conn' = [conn EXCEPT ![t].pc = "log"]
    /\ UNCHANGED <<active, queue, queueSignal, connectss, sss, ss, req, launch,
                   netio, ioVars, stop>>

(* The log line reads ss->ip and ss->port of a session that NetIOThread may *)
(* have finished, and its owner disposed of, since it was pushed.           *)
ConnLog(t) ==
    /\ conn[t].pc = "log"
    /\ conn' = [conn EXCEPT ![t].pc = "erase"]
    /\ UNCHANGED <<active, queue, queueSignal, connectss, sss, sessionSignal,
                   ss, req, launch, netio, ioVars, stop>>

ConnErase(t) ==
    /\ conn[t].pc = "erase"
    /\ connectss' = connectss \ {conn[t].ss}
    /\ conn' = [conn EXCEPT ![t] = [pc |-> "idle", ss |-> NoSession]]
    /\ UNCHANGED <<active, queue, queueSignal, sss, sessionSignal, ss, req,
                   launch, netio, ioVars, stop>>

Connection(t) ==
    \/ ConnInsert(t) \/ ConnFail(t) \/ ConnOpen(t) \/ ConnPush(t)
    \/ ConnSignal(t) \/ ConnLog(t) \/ ConnErase(t)

-----------------------------------------------------------------------------
(* NetIOThread. *)

NetIOCheck ==
    /\ netio = "check"
    /\ netio' = IF active THEN "reset" ELSE "end"
    /\ UNCHANGED <<active, queue, queueSignal, connectss, sss, sessionSignal,
                   ss, req, launch, conn, ioVars, stop>>

NetIOReset ==
    /\ netio = "reset"
    /\ sessionSignal' = (sessionSignal /\ sss # {})
    /\ netio' = "wait"
    /\ UNCHANGED <<active, queue, queueSignal, connectss, sss, ss, req, launch,
                   conn, ioVars, stop>>

NetIOWake ==
    /\ netio = "wait"
    /\ sessionSignal
    /\ netio' = IF active THEN "select" ELSE "end"
    /\ UNCHANGED <<active, queue, queueSignal, connectss, sss, sessionSignal,
                   ss, req, launch, conn, ioVars, stop>>

(* Fill the fd_sets and select: any of the registered sockets may be ready. *)
NetIOSelect ==
    /\ netio = "select"
    /\ \E ready \in SUBSET sss : fds' = ready
    /\ netio' = IF active THEN "begin" ELSE "end"
    /\ UNCHANGED <<active, queue, queueSignal, connectss, sss, sessionSignal,
                   ss, req, launch, conn, cursor, ahead, hand, stop>>

(* ssit moves to the first of the sessions S, or to end(). *)
MoveCursor(S) ==
    /\ cursor' \in IF S = {} THEN {NoSession} ELSE S
    /\ ahead' = S \ {cursor'}

NetIOBegin ==
    /\ netio = "begin"
    /\ MoveCursor(sss)
    /\ netio' = "scan"
    /\ UNCHANGED <<active, queue, queueSignal, connectss, sss, sessionSignal,
                   ss, req, launch, conn, fds, hand, stop>>

NetIOScan ==
    /\ netio = "scan"
    /\ IF active /\ cursor # NoSession
         THEN netio' = "visit" /\ UNCHANGED fds
         ELSE netio' = "check" /\ fds' = {}
    /\ UNCHANGED <<active, queue, queueSignal, connectss, sss, sessionSignal,
                   ss, req, launch, conn, cursor, ahead, hand, stop>>

(* What send or recv can do to session o: a piece moves and the time       *)
(* begins anew, however many have moved before; or all is sent, or the     *)
(* answer is complete.  A socket that Stop has closed gives an error; so   *)
(* may any other.                                                          *)
Moved(o) == [o EXCEPT !.stale = FALSE]
Transferred(o) ==
    {o, Broken(o)} \cup
    IF o.sock # "open" THEN {}
    ELSE {Moved(o)} \cup
         IF o.io = "send"
           THEN {[o EXCEPT !.stale = FALSE, !.io = "recv"]}     \* OnSend: all sent
           ELSE {[o EXCEPT !.stale = FALSE, !.active = FALSE],  \* OnRecv: complete
                 [o EXCEPT !.active = FALSE]}                   \* recv returned 0

(* The socket of the session at ssit is ready, or is not. *)
NetIOTransfer ==
    /\ netio = "visit"
    /\ IF cursor \in fds
         THEN \E o \in Transferred(ss[cursor]) : ss' = [ss EXCEPT ![cursor] = o]
         ELSE UNCHANGED ss
    /\ fds' = fds \ {cursor}
    /\ netio' = "delete"
    /\ UNCHANGED <<active, queue, queueSignal, connectss, sss, sessionSignal,
                   req, launch, conn, cursor, ahead, hand, stop>>

\* Bug: the timeout is not looked at.
NetIODelete_NoTimeout ==
    /\ netio = "delete"
    /\ ~ss[cursor].active
    /\ ss' = [ss EXCEPT ![cursor] = Released(@)]
    /\ sss' = sss \ {cursor}
    /\ hand' = cursor
    /\ MoveCursor(ahead)
    /\ netio' = "close"
    /\ UNCHANGED <<active, queue, queueSignal, connectss, sessionSignal, req,
                   launch, conn, fds, stop>>

(* The connection is over or has timed out: close it and take it out. *)
NetIODelete ==
    /\ netio = "delete"
    /\ ~ss[cursor].active \/ ss[cursor].stale
    /\ ss' = [ss EXCEPT ![cursor] = Released(@)]
    /\ sss' = sss \ {cursor}
    /\ hand' = cursor
    /\ MoveCursor(ahead)
    /\ netio' = "close"
    /\ UNCHANGED <<active, queue, queueSignal, connectss, sessionSignal, req,
                   launch, conn, fds, stop>>

(* OnClose finishes the request. *)
NetIOClose ==
    /\ netio = "close"
    /\ ss' = [ss EXCEPT ![hand] = Finished(@)]
    /\ hand' = NoSession
    /\ netio' = "scan"
    /\ UNCHANGED <<active, queue, queueSignal, connectss, sss, sessionSignal,
                   req, launch, conn, fds, cursor, ahead, stop>>

NetIONext ==
    /\ netio = "delete"
    /\ ss[cursor].active /\ ~ss[cursor].stale
    /\ MoveCursor(ahead)
    /\ netio' = "scan"
    /\ UNCHANGED <<active, queue, queueSignal, connectss, sss, sessionSignal,
                   ss, req, launch, conn, fds, hand, stop>>

(* The thread ends: every connected session is closed and finished. *)
NetIOEnd ==
    /\ netio = "end"
    /\ ss' = [s \in Session |-> IF s \in sss THEN Finished(Released(ss[s])) ELSE ss[s]]
    /\ sss' = {}
    /\ fds' = {}
    /\ cursor' = NoSession
    /\ ahead' = {}
    /\ netio' = "done"
    /\ UNCHANGED <<active, queue, queueSignal, connectss, sessionSignal, req,
                   launch, conn, hand, stop>>

NetIO ==
    \/ NetIOCheck \/ NetIOReset \/ NetIOWake \/ NetIOSelect \/ NetIOBegin
    \/ NetIOScan \/ NetIOTransfer \/ NetIODelete \/ NetIOClose \/ NetIONext
    \/ NetIOEnd

(* timeout_s pass without a transfer on a connected session. *)
Expire(s) ==
    /\ s \in sss
    /\ ~ss[s].stale
    /\ ss' = [ss EXCEPT ![s].stale = TRUE]
    /\ UNCHANGED <<active, queue, queueSignal, connectss, sss, sessionSignal,
                   req, launch, conn, netio, ioVars, stop>>

-----------------------------------------------------------------------------
(* Stop. *)

(* main has waited for the jobs; the handlers of the admin server, which   *)
(* it stops later, may still be waiting for a request.                     *)
StopBegin ==
    /\ stop = "run"
    /\ \A s \in Session \ Late : req[s] = "idle"
    /\ active' = FALSE
    /\ stop' = "connectss"
    /\ UNCHANGED <<queue, queueSignal, connectss, sss, sessionSignal, ss, req,
                   launch, conn, netio, ioVars>>

(* The sockets of the sessions in connectss.  One that is still connecting  *)
(* has INVALID_SOCKET there: its connect2 goes on.  One that its owner has  *)
(* disposed of is listed until its thread erases it: what is read as its    *)
(* socket may be any number, and Stop may close any socket with it.         *)
StopCloseConnecting ==
    /\ stop = "connectss"
    /\ \E stray \in SUBSET Session :
          /\ stray # {} => \E s \in connectss : req[s] = "idle"
          /\ ss' = [s \in Session |-> IF s \in connectss \cup stray
                                        THEN SocketClosed(ss[s]) ELSE ss[s]]
    /\ stop' = "sss"
    /\ UNCHANGED <<active, queue, queueSignal, connectss, sss, sessionSignal,
                   req, launch, conn, netio, ioVars>>

StopCloseConnected ==
    /\ stop = "sss"
    /\ ss' = [s \in Session |-> IF s \in sss THEN SocketClosed(ss[s]) ELSE ss[s]]
    /\ stop' = "queue"
    /\ UNCHANGED <<active, queue, queueSignal, connectss, sss, sessionSignal,
                   req, launch, conn, netio, ioVars>>

StopSignalQueue ==
    /\ stop = "queue"
    /\ queueSignal' = TRUE
    /\ stop' = "session"
    /\ UNCHANGED <<active, queue, connectss, sss, sessionSignal, ss, req,
                   launch, conn, netio, ioVars>>

\* Bug: NetIOThread is not woken up.
StopSignalSession_NoSignal ==
    /\ stop = "session"
    /\ stop' = "join"
    /\ UNCHANGED <<active, queue, queueSignal, connectss, sss, sessionSignal,
                   ss, req, launch, conn, netio, ioVars>>

StopSignalSession ==
    /\ stop = "session"
    /\ sessionSignal' = TRUE
    /\ stop' = "join"
    /\ UNCHANGED <<active, queue, queueSignal, connectss, sss, ss, req, launch,
                   conn, netio, ioVars>>

StopJoin ==
    /\ stop = "join"
    /\ launch = "done" /\ netio = "done"
    /\ stop' = "poll"
    /\ UNCHANGED <<active, queue, queueSignal, connectss, sss, sessionSignal,
                   ss, req, launch, conn, netio, ioVars>>

StopPoll ==
    /\ stop = "poll"
    /\ connectss = {}
    /\ stop' = "stopped"
    /\ UNCHANGED <<active, queue, queueSignal, connectss, sss, sessionSignal,
                   ss, req, launch, conn, netio, ioVars>>

StopSteps ==
    \/ StopCloseConnecting \/ StopCloseConnected \/ StopSignalQueue
    \/ StopSignalSession \/ StopJoin \/ StopPoll

-----------------------------------------------------------------------------
Next ==
    \/ \E s \in Session : Requester(s) \/ Expire(s)
    \/ \E t \in Thread : Connection(t)
    \/ Launch
    \/ NetIO
    \/ StopBegin
    \/ StopSteps

Spec == Init /\ [][Next]_vars

(* The operating system runs every thread that can run; the owner of a     *)
(* session goes through with the request it began and wakes up when it is  *)
(* finished; time passes.  Nothing forces an owner to make a request, or   *)
(* anybody to stop the client.                                             *)
Fairness ==
    /\ WF_vars(Launch)
    /\ WF_vars(NetIO)
    /\ \A t \in Thread : WF_vars(Connection(t))
    /\ \A s \in Session :
          /\ WF_vars(AddRequestPush(s) \/ AddRequestSignal(s) \/ Collect(s))
          /\ WF_vars(Expire(s))
    /\ WF_vars(StopSteps)

FairSpec == Spec /\ Fairness

-----------------------------------------------------------------------------
(* Properties. *)

(* Thread t was given its session and has not yet finished it or passed it *)
(* on to the list of connected sessions.                                   *)
Owns(t) == conn[t].pc \in {"insert", "connect", "push"}

(* A request whose owner waits and that is not finished yet. *)
Pending(s) == req[s] \in {"signal", "wait"} /\ ~ss[s].signaled

(* Where a request can be: in the queue, with a connection thread, in the   *)
(* list of connected sessions, or in NetIOThread's hands between the erase  *)
(* and OnClose.                                                             *)
Held(s) ==
    \/ s \in ToSet(queue)
    \/ \E t \in Thread : Owns(t) /\ conn[t].ss = s
    \/ s \in sss
    \/ hand = s

(* Every pending request is held in exactly one place, and nothing else is *)
(* held anywhere: no request is lost between the threads, none is finished *)
(* twice, and no thread changes a session that its owner may have disposed *)
(* of.  (Reading is another matter.  The code reads a session after it has *)
(* passed it on in two places, which the places of Held do not cover: the  *)
(* connection thread's log line, ConnLog, and Stop's walk of connectss,    *)
(* StopCloseConnecting.)                                                   *)
OneHolder ==
    /\ \A s \in Session : Pending(s) <=> Held(s)
    /\ IsInjective(queue)
    /\ \A t, u \in Thread :
          Owns(t) /\ Owns(u) /\ conn[t].ss = conn[u].ss => t = u
    /\ \A t \in Thread :
          Owns(t) => conn[t].ss \notin ToSet(queue) \cup sss \cup {hand}
    /\ ToSet(queue) \cap sss = {}
    /\ hand \notin ToSet(queue) \cup sss

(* The event is set whenever there is a request in the queue, unless the   *)
(* owner of a request is just about to set it: LaunchThread, which tests   *)
(* for the empty queue and resets the event under the lock that guards the *)
(* queue, never sleeps on a request.                                       *)
NoLostRequest ==
    queue # << >> => queueSignal \/ \E s \in Session : req[s] = "signal"

(* The same for NetIOThread and the connected sessions. *)
NoLostSession ==
    sss # {} => sessionSignal \/ \E t \in Thread : conn[t].pc = "signal"

(* No wake-up is lost on either of the two lists. *)
NoLostWakeUp == NoLostRequest /\ NoLostSession

(* NetIOThread's iterator points at a session that is in the list, through *)
(* the erase in the middle of the scan and the insertions of others.       *)
CursorValid ==
    /\ cursor # NoSession => cursor \in sss
    /\ ahead \subseteq sss \ {cursor}
    /\ netio \in {"visit", "delete"} => cursor # NoSession

(* A session whose owner is told that it is finished has no socket left. *)
SocketsReleased ==
    \A s \in Session : req[s] = "idle" \/ ss[s].signaled => ss[s].sock = "none"

(* What the client promises, in terms of RequestService. *)
status ==
    [s \in Session |->
        IF req[s] = "idle" THEN "idle"
        ELSE IF ss[s].signaled THEN "done"
        ELSE IF ss[s].io = "none" THEN "waiting"
        ELSE "connected"]
error == [s \in Session |-> ss[s].error]

Service == INSTANCE RequestService WITH Request <- Session

(* The client implements RequestService. *)
Implements == Service!SafeSpec

(* The peer of session s keeps it alive with one piece after the other: a  *)
(* piece moves when the time since the last one was up, again and again.   *)
(* (Expire is fair, so a session that lives for ever for any other reason  *)
(* would be stale for ever.)                                               *)
Piece(s) ==
    NetIOTransfer /\ cursor = s /\ ss[s].stale /\ ss'[s] = Moved(ss[s])
Drips(s) == []<><<Piece(s)>>_vars

(* A request that came too late for the thread it needs, which has ended    *)
(* with Stop: nobody takes it out of the list any more.                     *)
LeftBehind(s) ==
    \/ launch = "done" /\ s \in ToSet(queue)
    \/ netio = "done" /\ s \in sss

(* Every request is answered -- connected or not, through partial          *)
(* transfers, timeouts and a Stop at any moment -- unless it came too late *)
(* for a thread that Stop has ended, unless its peer drips for ever, or    *)
(* unless other requests with high priority keep coming, which are put     *)
(* before it in the queue.                                                 *)
EveryRequestAnswered ==
    \A s \in Session :
        \/ []<>(\E h \in HighPriority \ {s} : req[h] = "push")
        \/ Drips(s)
        \/ req[s] = "push" ~> req[s] = "idle" \/ LeftBehind(s)

(* Stop returns, provided that neither thread had found the client active  *)
(* and was about to reset its event when Stop cleared Active.  (A thread   *)
(* in that window can erase the signal that Stop sends it and sleep for    *)
(* good, and Stop with it.)                                                *)
StopReturns ==
    stop = "connectss" /\ launch # "reset" /\ netio # "reset" ~> stop = "stopped"
=============================================================================
