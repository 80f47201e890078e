------------------------------- MODULE Server -------------------------------
(***************************************************************************)
(* O2Server and O2Server_HTTP (O2Server.cpp, O2Server_HTTP.hpp) with the   *)
(* overrides of the peer-to-peer server (O2Server_HTTP_P2P.hpp).           *)
(*                                                                         *)
(* The listen thread accepts connections and starts an IP filtering thread *)
(* for each; the filtering thread inserts the session into the map sss or  *)
(* deletes it; the network I/O thread serves the sessions in the map and   *)
(* deletes them; a parse thread makes the reply to a complete request;     *)
(* and main stops the server and starts it again.  SessionMapLock guards   *)
(* sss, but the NetIO thread releases it between the steps of its scan.    *)
(*                                                                         *)
(* A member of Session is an address that operator new can return for a    *)
(* session object; it is used again once the object is deleted.  The       *)
(* servers set RejectMultiLink to false and never change it (main.cpp), so *)
(* the rejection of a second connection from one address is left out.  A   *)
(* socket handle that is closed and given out again is taken for a new one.*)
(***************************************************************************)
EXTENDS Naturals, FiniteSets

CONSTANTS
    Session,        \* addresses of session objects
    NoSession,      \* no session: the end() of the map, an empty hand
    Thread,         \* IP filtering threads that may be alive together
    SessionLimit,   \* sessions in the map from which on connections are refused
    Answers503,     \* OnSessionLimit answers 503 (P2P) or closes the socket
    ShowsBalloon,   \* a request may show a balloon, in the thread that calls Stop
    MaxStarts,      \* calls of Start, and
    MaxStops        \* calls of Stop (bounds of the model)

ASSUME ServerAssumption ==
    /\ NoSession \notin Session
    /\ IsFiniteSet(Session) /\ IsFiniteSet(Thread)
    /\ SessionLimit \in Nat \ {0}
    /\ Answers503 \in BOOLEAN
    /\ ShowsBalloon \in BOOLEAN
    /\ MaxStarts \in Nat \ {0}
    /\ MaxStops \in Nat

VARIABLES
    active,         \* O2Server::Active
    sss,            \* the sessions in the map
    sessionSignal,  \* SessionExistSignal
    ss,             \* the session objects
    parse,          \* where the parse thread of each session is
    listen,         \* where ListenThread is
    accepted,       \* the session ListenThread has accepted
    full,           \* whether the map was full when ListenThread looked
    filter,         \* where each filtering thread is, and with which session
    filterCount,    \* IPFilteringThreadCount
    netio,          \* where NetIOThread is
    fds,            \* the sessions select found ready
    cursor,         \* NetIOThread's iterator ssit; NoSession is end()
    ahead,          \* the sessions behind ssit in the map
    hand,           \* the session NetIOThread has erased and not deleted yet
    stop,           \* where the caller of Stop and Start is
    starts          \* calls of Start so far

listenVars == <<listen, accepted, full>>
filterVars == <<filter, filterCount>>
netioVars == <<netio, fds, cursor, ahead, hand>>
stopVars == <<stop, starts>>
vars == <<active, sss, sessionSignal, ss, parse, listenVars, filterVars, netioVars,
          stopVars>>

-----------------------------------------------------------------------------
(* The session objects.  limited: turned away with 503.  io: can_recv,     *)
(* can_send.  reply: sbuff is empty, has something to send, is all sent.   *)
(* timer: t is still 0, is recent, or is timeout_s old.                    *)
NewSession ==
    [limited |-> FALSE, active |-> FALSE, error |-> FALSE, canDelete |-> TRUE,
     io |-> "none", reply |-> "none", open |-> TRUE, timer |-> "unset"]
(* There is no object at the address. *)
Deleted == [NewSession EXCEPT !.open = FALSE, !.canDelete = FALSE]

SessionObject ==
    [limited : BOOLEAN, active : BOOLEAN, error : BOOLEAN, canDelete : BOOLEAN,
     io : {"none", "recv", "send"}, reply : {"none", "unsent", "sent"},
     open : BOOLEAN, timer : {"unset", "fresh", "old"}]

Alive(s) == ss[s] # Deleted

Deactivated(o) == [o EXCEPT !.active = FALSE]
Broken(o) == [o EXCEPT !.active = FALSE, !.error = TRUE]
Closed(o) == [o EXCEPT !.open = FALSE]
(* UpdateTimer, SetConnectTime, Activate, OnAccept. *)
Accepted(o) == [o EXCEPT !.timer = "fresh", !.active = TRUE, !.io = "recv"]
(* The time that has passed since t = 0 exceeds every timeout_s. *)
TimedOut(o) == o.timer # "fresh"
(* OnSessionLimit of the P2P server does not set the timer. *)
Limited(o) ==
    [o EXCEPT !.limited = TRUE, !.active = TRUE, !.io = "send", !.reply = "unsent"]

NetIOPc == {"check", "reset", "wait", "select", "begin", "scan", "visit", "delete",
            "close", "end", "endscan", "endwait", "done"}
(* NetIOThread keeps the lock from the first close of its end to the last. *)
MapLockFree == netio \notin {"endscan", "endwait"}

ParsePc == {"none", "parse", "show", "finish"}
FilterPc == {"start", "lookup", "insert", "signal", "log", "exit"}
FilterState ==
    {[pc |-> "idle", ss |-> NoSession]} \cup [pc : FilterPc, ss : Session]

TypeOK ==
    /\ active \in BOOLEAN
    /\ sss \subseteq Session
    /\ sessionSignal \in BOOLEAN
    /\ ss \in [Session -> SessionObject]
    /\ parse \in [Session -> ParsePc]
    /\ listen \in {"check", "select", "count", "decide", "end", "done"}
    /\ accepted \in Session \cup {NoSession}
    /\ full \in BOOLEAN
    /\ filter \in [Thread -> FilterState]
    /\ filterCount \in Nat
    /\ netio \in NetIOPc
    /\ fds \subseteq Session
    /\ cursor \in Session \cup {NoSession}
    /\ ahead \subseteq Session
    /\ hand \in Session \cup {NoSession}
    /\ stop \in {"run", "sss", "signal", "join", "poll", "stopped", "start"}
    /\ starts \in 1..MaxStarts

(* The state in which the first call of Start returns. *)
Init ==
    /\ active = TRUE
    /\ sss = {}
    /\ sessionSignal = FALSE
    /\ ss = [s \in Session |-> Deleted]
    /\ parse = [s \in Session |-> "none"]
    /\ listen = "check"
    /\ accepted = NoSession
    /\ full = FALSE
    /\ filter = [t \in Thread |-> [pc |-> "idle", ss |-> NoSession]]
    /\ filterCount = 0
    /\ netio = "check"
    /\ fds = {}
    /\ cursor = NoSession
    /\ ahead = {}
    /\ hand = NoSession
    /\ stop = "run"
    /\ starts = 1

(* A session is inserted into the map at the place of its address: before  *)
(* or behind the iterator, but an iterator at end() stays there.           *)
Insert(s) ==
    /\ sss' = sss \cup {s}
    /\ ahead' \in IF cursor = NoSession THEN {ahead} ELSE {ahead, ahead \cup {s}}

-----------------------------------------------------------------------------
(* ListenThread. *)

ListenCheck ==
    /\ listen = "check"
    /\ listen' = IF active THEN "select" ELSE "end"
    /\ UNCHANGED <<active, sss, sessionSignal, ss, parse, accepted, full,
                   filterVars, netioVars, stopVars>>

(* select and accept: nothing, or a new session. *)
ListenAccept ==
    /\ listen = "select"
    /\ \/ /\ listen' = IF active THEN "check" ELSE "end"
          /\ UNCHANGED <<ss, accepted>>
       \/ /\ active
          /\ \E s \in Session :
                /\ ~Alive(s)
                /\ ss' = [ss EXCEPT ![s] = NewSession]
                /\ accepted' = s
          /\ listen' = "count"
    /\ UNCHANGED <<active, sss, sessionSignal, parse, full, filterVars, netioVars,
                   stopVars>>

(* The size of the map is read under the lock and used after its release. *)
ListenCount ==
    /\ listen = "count"
    /\ MapLockFree
    /\ full' = (Cardinality(sss) >= SessionLimit)
    /\ listen' = "decide"
    /\ UNCHANGED <<active, sss, sessionSignal, ss, parse, accepted, filterVars,
                   netioVars, stopVars>>

(* OnSessionLimit.  The 503 session goes into the map whether or not the   *)
(* server is active, and the event is not set.                             *)
ListenLimit ==
    /\ listen = "decide"
    /\ full
    /\ IF Answers503
         THEN /\ MapLockFree
              /\ ss' = [ss EXCEPT ![accepted] = Limited(@)]
              /\ Insert(accepted)
         ELSE /\ ss' = [ss EXCEPT ![accepted] = Deleted]
              /\ UNCHANGED <<sss, ahead>>
    /\ accepted' = NoSession
    /\ full' = FALSE
    /\ listen' = "check"
    /\ UNCHANGED <<active, sessionSignal, parse, filterVars, netio, fds,
                   cursor, hand, stopVars>>

ListenQuit ==
    /\ listen = "decide"
    /\ ~full /\ ~active
    /\ ss' = [ss EXCEPT ![accepted] = Deleted]
    /\ accepted' = NoSession
    /\ full' = FALSE
    /\ listen' = "end"
    /\ UNCHANGED <<active, sss, sessionSignal, parse, filterVars, netioVars,
                   stopVars>>

ListenSpawn(t) ==
    /\ listen = "decide"
    /\ ~full /\ active
    /\ filter[t].pc = "idle"
    /\ filter' = [filter EXCEPT ![t] = [pc |-> "start", ss |-> accepted]]
    /\ accepted' = NoSession
    /\ full' = FALSE
    /\ listen' = "check"
    /\ UNCHANGED <<active, sss, sessionSignal, ss, parse, filterCount,
                   netioVars, stopVars>>

(* The listening socket is closed. *)
ListenEnd ==
    /\ listen = "end"
    /\ listen' = "done"
    /\ UNCHANGED <<active, sss, sessionSignal, ss, parse, accepted, full,
                   filterVars, netioVars, stopVars>>

Listen ==
    \/ ListenCheck \/ ListenAccept \/ ListenCount \/ ListenLimit \/ ListenQuit
    \/ ListenEnd \/ \E t \in Thread : ListenSpawn(t)

-----------------------------------------------------------------------------
(* Filtering thread t. *)

(* The thread counts itself, not the listen thread that starts it. *)
FilterStart(t) ==
    /\ filter[t].pc = "start"
    /\ filterCount' = filterCount + 1
    /\ filter' = [filter EXCEPT ![t].pc = "lookup"]
    /\ UNCHANGED <<active, sss, sessionSignal, ss, parse, listenVars, netioVars,
                   stopVars>>

FilterDeny(t) ==
    /\ filter[t].pc = "lookup"
    /\ ss' = [ss EXCEPT ![filter[t].ss] = Deleted]
    /\ filter' = [filter EXCEPT ![t].pc = "exit"]
    /\ UNCHANGED <<active, sss, sessionSignal, parse, listenVars, filterCount,
                   netioVars, stopVars>>

FilterPass(t) ==
    /\ filter[t].pc = "lookup"
    /\ filter' = [filter EXCEPT ![t].pc = "insert"]
    /\ UNCHANGED <<active, sss, sessionSignal, ss, parse, listenVars, filterCount,
                   netioVars, stopVars>>

\* Bug: the session is inserted whether or not the server is active.
FilterInsert_Always(t) ==
    /\ filter[t].pc = "insert"
    /\ MapLockFree
    /\ ss' = [ss EXCEPT ![filter[t].ss] = Accepted(@)]
    /\ Insert(filter[t].ss)
    /\ filter' = [filter EXCEPT ![t].pc = "signal"]
    /\ UNCHANGED <<active, sessionSignal, parse, listenVars, filterCount, netio,
                   fds, cursor, hand, stopVars>>

FilterInsert(t) ==
    /\ filter[t].pc = "insert"
    /\ MapLockFree
    /\ IF active
         THEN /\ ss' = [ss EXCEPT ![filter[t].ss] = Accepted(@)]
              /\ Insert(filter[t].ss)
              /\ filter' = [filter EXCEPT ![t].pc = "signal"]
         ELSE /\ ss' = [ss EXCEPT ![filter[t].ss] = Deleted]
              /\ UNCHANGED <<sss, ahead>>
              /\ filter' = [filter EXCEPT ![t].pc = "exit"]
    /\ UNCHANGED <<active, sessionSignal, parse, listenVars, filterCount, netio,
                   fds, cursor, hand, stopVars>>

FilterSignal(t) ==
    /\ filter[t].pc = "signal"
    /\ sessionSignal' = TRUE
    /\ filter' = [filter EXCEPT ![t].pc = "log"]
    /\ UNCHANGED <<active, sss, ss, parse, listenVars, filterCount, netioVars,
                   stopVars>>

(* A thread that comes from FilterSignal first reads ss->ip and ss->port of *)
(* a session that NetIOThread may have deleted since it was inserted.       *)
FilterExit(t) ==
    /\ filter[t].pc \in {"log", "exit"}
    /\ filterCount' = filterCount - 1
    /\ filter' = [filter EXCEPT ![t] = [pc |-> "idle", ss |-> NoSession]]
    /\ UNCHANGED <<active, sss, sessionSignal, ss, parse, listenVars, netioVars,
                   stopVars>>

Filter(t) ==
    \/ FilterStart(t) \/ FilterDeny(t) \/ FilterPass(t) \/ FilterInsert(t)
    \/ FilterSignal(t) \/ FilterExit(t)

-----------------------------------------------------------------------------
(* The parse thread of session s. *)

(* The reply is put into sbuff under the lock of the session. *)
ParseReply(s) ==
    /\ parse[s] = "parse"
    /\ ss' = [ss EXCEPT ![s].reply = "unsent"]
    /\ \E pc \in {"finish"} \cup IF ShowsBalloon THEN {"show"} ELSE {} :
          parse' = [parse EXCEPT ![s] = pc]
    /\ UNCHANGED <<active, sss, sessionSignal, listenVars, filterVars, netioVars,
                   stopVars>>

(* SendMessage returns when the window's thread has taken the message; it  *)
(* takes none in Stop and Start.                                           *)
ParseShow(s) ==
    /\ parse[s] = "show"
    /\ stop \in {"run", "stopped"}
    /\ parse' = [parse EXCEPT ![s] = "finish"]
    /\ UNCHANGED <<active, sss, sessionSignal, ss, listenVars, filterVars,
                   netioVars, stopVars>>

(* SetCanDelete: the thread does not use the session any more.  It goes on *)
(* to touch the node table (ParseTouch of Broadcast and KeyStore) and to   *)
(* lower ThreadNum, which nobody waits for: no state of the server.        *)
ParseDone(s) ==
    /\ parse[s] = "finish"
    /\ ss' = [ss EXCEPT ![s].canDelete = TRUE]
    /\ parse' = [parse EXCEPT ![s] = "none"]
    /\ UNCHANGED <<active, sss, sessionSignal, listenVars, filterVars, netioVars, stopVars>>

Parse(s) == ParseReply(s) \/ ParseShow(s) \/ ParseDone(s)

-----------------------------------------------------------------------------
(* NetIOThread. *)

NetIOCheck ==
    /\ netio = "check"
    /\ netio' = IF active THEN "reset" ELSE "end"
    /\ UNCHANGED <<active, sss, sessionSignal, ss, parse, listenVars, filterVars,
                   fds, cursor, ahead, hand, stopVars>>

NetIOReset ==
    /\ netio = "reset"
    /\ sessionSignal' = (sessionSignal /\ sss # {})
    /\ netio' = "wait"
    /\ UNCHANGED <<active, sss, ss, parse, listenVars, filterVars, fds, cursor,
                   ahead, hand, stopVars>>

NetIOWake ==
    /\ netio = "wait"
    /\ sessionSignal
    /\ netio' = IF active THEN "select" ELSE "end"
    /\ UNCHANGED <<active, sss, sessionSignal, ss, parse, listenVars, filterVars,
                   fds, cursor, ahead, hand, stopVars>>

(* Every session in the map is registered; any of them may be ready. *)
NetIOSelect ==
    /\ netio = "select"
    /\ \E ready \in SUBSET sss : fds' = ready
    /\ netio' = IF active THEN "begin" ELSE "end"
    /\ UNCHANGED <<active, sss, sessionSignal, ss, parse, listenVars, filterVars,
                   cursor, ahead, hand, stopVars>>

(* ssit moves to the first of the sessions S, or to end(). *)
MoveCursor(S) ==
    /\ cursor' \in IF S = {} THEN {NoSession} ELSE S
    /\ ahead' = S \ {cursor'}

NetIOBegin ==
    /\ netio = "begin"
    /\ MoveCursor(sss)
    /\ netio' = "scan"
    /\ UNCHANGED <<active, sss, sessionSignal, ss, parse, listenVars, filterVars,
                   fds, hand, stopVars>>

NetIOScan ==
    /\ netio = "scan"
    /\ IF active /\ cursor # NoSession
         THEN netio' = "visit" /\ UNCHANGED <<fds, cursor, ahead>>
         ELSE netio' = "check" /\ fds' = {} /\ cursor' = NoSession /\ ahead' = {}
    /\ UNCHANGED <<active, sss, sessionSignal, ss, parse, listenVars, filterVars,
                   hand, stopVars>>

\* Bug: the session is deactivated though the reply is still being made.
OnSend_NoCanDelete(o) == IF o.reply # "unsent" THEN Deactivated(o) ELSE o

OnSend(o) == IF o.canDelete /\ o.reply # "unsent" THEN Deactivated(o) ELSE o

(* A transfer that leaves more to receive or to send, however many were     *)
(* before it.                                                               *)
Moved(o) == [o EXCEPT !.timer = "fresh"]
(* OnRecv, whole request: ParseRequest starts the parse thread. *)
Requested(o) == [o EXCEPT !.timer = "fresh", !.canDelete = FALSE, !.io = "send"]

(* What recv can do to o: nothing, an error, part of a request, 0 bytes or *)
(* a request longer than RecvSizeLimit, a bad request, a whole request.    *)
Received(o) ==
    {o, Broken(o)} \cup
    IF ~o.open THEN {}
    ELSE {Moved(o), Deactivated(o), Broken([o EXCEPT !.timer = "fresh"]), Requested(o)}

(* What send can do to o; without anything to send there is only OnSend. *)
Sent(o) ==
    IF o.reply # "unsent" THEN {OnSend(o)}
    ELSE {o, Broken(o)} \cup
         IF ~o.open THEN {}
         ELSE {Moved(o), OnSend([o EXCEPT !.timer = "fresh", !.reply = "sent"])}

(* The socket of the session at ssit is ready, or is not. *)
NetIOTransfer ==
    /\ netio = "visit"
    /\ IF cursor \in fds
         THEN \E o \in IF ss[cursor].io = "recv" THEN Received(ss[cursor])
                                                 ELSE Sent(ss[cursor]) :
                /\ ss' = [ss EXCEPT ![cursor] = o]
                /\ parse' = IF o.io # ss[cursor].io THEN [parse EXCEPT ![cursor] = "parse"]
                                                    ELSE parse
         ELSE UNCHANGED <<ss, parse>>
    /\ fds' = fds \ {cursor}
    /\ netio' = "delete"
    /\ UNCHANGED <<active, sss, sessionSignal, listenVars, filterVars, cursor,
                   ahead, hand, stopVars>>

\* Bug: a session that a parse thread works on is deleted.
MayDelete_NoCanDelete(o) == ~o.active \/ TimedOut(o)

\* Bug: the timeout is not looked at.
MayDelete_NoTimeout(o) == o.canDelete /\ ~o.active

MayDelete(o) == o.canDelete /\ (~o.active \/ TimedOut(o))

NetIODelete ==
    /\ netio = "delete"
    /\ MayDelete(ss[cursor])
    /\ ss' = [ss EXCEPT ![cursor] = Closed(@)]
    /\ sss' = sss \ {cursor}
    /\ hand' = cursor
    /\ MoveCursor(ahead)
    /\ netio' = "close"
    /\ UNCHANGED <<active, sessionSignal, parse, listenVars, filterVars, fds,
                   stopVars>>

(* OnClose deletes the object. *)
NetIOClose ==
    /\ netio = "close"
    /\ ss' = [ss EXCEPT ![hand] = Deleted]
    /\ hand' = NoSession
    /\ netio' = "scan"
    /\ UNCHANGED <<active, sss, sessionSignal, parse, listenVars, filterVars, fds,
                   cursor, ahead, stopVars>>

NetIONext ==
    /\ netio = "delete"
    /\ ~MayDelete(ss[cursor])
    /\ MoveCursor(ahead)
    /\ netio' = "scan"
    /\ UNCHANGED <<active, sss, sessionSignal, ss, parse, listenVars, filterVars,
                   fds, hand, stopVars>>

(* The thread ends.  It takes SessionMapLock and keeps it to the end. *)
NetIOEnd ==
    /\ netio = "end"
    /\ MoveCursor(sss)
    /\ fds' = {}
    /\ netio' = "endscan"
    /\ UNCHANGED <<active, sss, sessionSignal, ss, parse, listenVars, filterVars,
                   hand, stopVars>>

NetIOEndClose ==
    /\ netio = "endscan"
    /\ cursor # NoSession
    /\ ss' = [ss EXCEPT ![cursor] = Closed(@)]
    /\ netio' = "endwait"
    /\ UNCHANGED <<active, sss, sessionSignal, parse, listenVars, filterVars, fds,
                   cursor, ahead, hand, stopVars>>

(* Wait for the parse thread. *)
NetIOEndDelete ==
    /\ netio = "endwait"
    /\ ss[cursor].canDelete
    /\ ss' = [ss EXCEPT ![cursor] = Deleted]
    /\ MoveCursor(ahead)
    /\ netio' = "endscan"
    /\ UNCHANGED <<active, sss, sessionSignal, parse, listenVars, filterVars, fds,
                   hand, stopVars>>

NetIOEndClear ==
    /\ netio = "endscan"
    /\ cursor = NoSession
    /\ sss' = {}
    /\ netio' = "done"
    /\ UNCHANGED <<active, sessionSignal, ss, parse, listenVars, filterVars, fds,
                   cursor, ahead, hand, stopVars>>

NetIO ==
    \/ NetIOCheck \/ NetIOReset \/ NetIOWake \/ NetIOSelect \/ NetIOBegin
    \/ NetIOScan \/ NetIOTransfer \/ NetIODelete \/ NetIOClose \/ NetIONext
    \/ NetIOEnd \/ NetIOEndClose \/ NetIOEndDelete \/ NetIOEndClear

(* timeout_s pass without a transfer on a session in the map. *)
Expire(s) ==
    /\ Alive(s) /\ s \in sss
    /\ ss[s].timer = "fresh"
    /\ ss' = [ss EXCEPT ![s].timer = "old"]
    /\ UNCHANGED <<active, sss, sessionSignal, parse, listenVars, filterVars,
                   netioVars, stopVars>>

-----------------------------------------------------------------------------
(* Stop, and Start after it. *)

StopBegin ==
    /\ stop = "run"
    /\ starts <= MaxStops
    /\ active' = FALSE
    /\ stop' = "sss"
    /\ UNCHANGED <<sss, sessionSignal, ss, parse, listenVars, filterVars,
                   netioVars, starts>>

StopCloseSockets ==
    /\ stop = "sss"
    /\ MapLockFree
    /\ ss' = [s \in Session |-> IF s \in sss THEN Closed(ss[s]) ELSE ss[s]]
    /\ stop' = "signal"
    /\ UNCHANGED <<active, sss, sessionSignal, parse, listenVars, filterVars,
                   netioVars, starts>>

\* Bug: NetIOThread is not woken up.
StopSignal_NoSignal ==
    /\ stop = "signal"
    /\ stop' = "join"
    /\ UNCHANGED <<active, sss, sessionSignal, ss, parse, listenVars, filterVars,
                   netioVars, starts>>

StopSignal ==
    /\ stop = "signal"
    /\ sessionSignal' = TRUE
    /\ stop' = "join"
    /\ UNCHANGED <<active, sss, ss, parse, listenVars, filterVars, netioVars,
                   starts>>

StopJoin ==
    /\ stop = "join"
    /\ listen = "done" /\ netio = "done"
    /\ stop' = "poll"
    /\ UNCHANGED <<active, sss, sessionSignal, ss, parse, listenVars, filterVars,
                   netioVars, starts>>

StopPoll ==
    /\ stop = "poll"
    /\ filterCount = 0
    /\ stop' = "stopped"
    /\ UNCHANGED <<active, sss, sessionSignal, ss, parse, listenVars, filterVars,
                   netioVars, starts>>

StopSteps == StopCloseSockets \/ StopSignal \/ StopJoin \/ StopPoll

(* Bind, Active = true. *)
StartBegin ==
    /\ stop = "stopped"
    /\ starts < MaxStarts
    /\ active' = TRUE
    /\ starts' = starts + 1
    /\ stop' = "start"
    /\ UNCHANGED <<sss, sessionSignal, ss, parse, listenVars, filterVars,
                   netioVars>>

(* The event is reset after Active is set, whatever is in the map. *)
StartThreads ==
    /\ stop = "start"
    /\ sessionSignal' = FALSE
    /\ listen' = "check"
    /\ netio' = "check"
    /\ stop' = "run"
    /\ UNCHANGED <<active, sss, ss, parse, accepted, full, filterVars, fds,
                   cursor, ahead, hand, starts>>

Next ==
    \/ Listen
    \/ \E t \in Thread : Filter(t)
    \/ \E s \in Session : Parse(s) \/ Expire(s)
    \/ NetIO
    \/ StopBegin \/ StopSteps
    \/ StartBegin \/ StartThreads

Spec == Init /\ [][Next]_vars

(* Threads that can run are run and time passes.  Nothing forces a client  *)
(* to connect, or anybody to stop the server or to start it again.         *)
Fairness ==
    /\ WF_vars(Listen)
    /\ WF_vars(NetIO)
    /\ \A t \in Thread : WF_vars(Filter(t))
    /\ \A s \in Session : WF_vars(Parse(s)) /\ WF_vars(Expire(s))
    /\ WF_vars(StopSteps)
    /\ WF_vars(StartThreads)

FairSpec == Spec /\ Fairness

-----------------------------------------------------------------------------
(* Properties. *)

(* A parse thread works on session s: it is not behind SetCanDelete yet. *)
Parsed(s) == parse[s] # "none"

(* Thread t has a session that it has neither deleted nor inserted.        *)
Holds(t) == filter[t].pc \in {"start", "lookup", "insert"}

(* The sessions that can be reached through the map.  When NetIOThread     *)
(* ends, what it has deleted stays in the map until the clear().           *)
Listed == IF MapLockFree THEN sss ELSE (ahead \cup {cursor}) \ {NoSession}

(* Every session object belongs to exactly one of ListenThread, a          *)
(* filtering thread, the map and NetIOThread's hands, and whatever belongs *)
(* to one of them exists: no session is lost or deleted twice, and none is *)
(* changed after it has been deleted.                                      *)
OneOwner ==
    /\ \A s \in Session :
          Alive(s) <=> \/ accepted = s
                       \/ \E t \in Thread : Holds(t) /\ filter[t].ss = s
                       \/ s \in Listed
                       \/ hand = s
    /\ accepted # NoSession => accepted \notin Listed \cup {hand}
    /\ hand \notin Listed
    /\ \A t \in Thread :
          Holds(t) => /\ filter[t].ss \notin Listed \cup {accepted, hand}
                      /\ \A u \in Thread \ {t} :
                            Holds(u) => filter[u].ss # filter[t].ss

(* A parse thread works on a session exactly while can_delete is false,    *)
(* and the session stays reachable through the map all that time.          *)
ParseKeepsSession ==
    \A s \in Session :
        /\ Parsed(s) => s \in Listed /\ ~ss[s].canDelete
        /\ s \in Listed /\ ~ss[s].canDelete => Parsed(s)

(* Who has a session object, and who works on it: a session is deleted     *)
(* once, by the thread that has it alone, and never under a parse thread.  *)
(* (It may be deleted under a filtering thread, which reads the address in *)
(* FilterExit of a session it no longer has.)                              *)
SessionsOwned == OneOwner /\ ParseKeepsSession

(* NetIOThread's iterator points at a session in the map, through the      *)
(* erase in the middle of the scan and the insertions of others.           *)
CursorValid ==
    /\ cursor # NoSession => cursor \in sss
    /\ ahead \subseteq sss \ {cursor}
    /\ netio \in {"visit", "delete", "endwait"} => cursor # NoSession

(* While the server runs it closes a connection whose request it has        *)
(* received -- before the reply is made, or in the middle of it -- only if  *)
(* the connection broke, or if nothing had moved on it for timeout_s.  The  *)
(* making of the reply counts towards that time: a reply that took longer   *)
(* may be thrown away at the moment it is complete.  The 503 of a session   *)
(* turned away, whose timer is never set, may be thrown away at any time.   *)
ReplyComplete ==
    \A s \in Session :
        hand = s /\ ss[s].io = "send" /\ ss[s].reply # "sent" =>
            ss[s].error \/ ss[s].timer = "old" \/ ss[s].limited

(* What is left when Stop has returned is the sessions turned away with    *)
(* 503 after NetIOThread cleared the map, those of the filtering threads   *)
(* that had not counted themselves when Stop looked, and parse threads     *)
(* that are behind SetCanDelete.                                           *)
NothingLeftBehind ==
    stop = "stopped" =>
        /\ \A s \in sss : ss[s].limited
        /\ accepted = NoSession /\ hand = NoSession
        /\ \A s \in Session : ~Parsed(s)

(* A parse thread waits for the window's thread, which waits in Stop for   *)
(* NetIOThread, which waits for the parse thread.                          *)
Deadlocked == stop # "run" /\ \E s \in Session : parse[s] = "show"

(* The client of session s keeps it alive with one piece after the other:  *)
(* a piece moves when the time since the last one was up, again and again. *)
(* (Expire is fair, so a session that lives for ever for any other reason  *)
(* would be timed out for ever.)                                           *)
Piece(s) ==
    NetIOTransfer /\ cursor = s /\ ss[s].timer = "old" /\ ss'[s] = Moved(ss[s])
Drips(s) == []<><<Piece(s)>>_vars

(* Every session in the map is served or times out, and is taken out of    *)
(* it, unless its client drips for ever or a balloon is shown during Stop. *)
EverySessionEnds ==
    \A s \in Session :
        Drips(s) \/ (s \in sss /\ ~ss[s].limited ~> s \notin sss \/ Deadlocked)

(* Stop returns, provided that NetIOThread had not found the server active *)
(* and was about to reset the event when Stop cleared Active, and that no  *)
(* balloon is shown meanwhile.                                             *)
StopReturns == stop = "sss" /\ netio # "reset" ~> stop = "stopped" \/ Deadlocked
=============================================================================
