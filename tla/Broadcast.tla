----------------------------- MODULE Broadcast -----------------------------
(***************************************************************************)
(* Broadcast messages: O2Job_Broadcast, Parse_Broadcast of the P2P server, *)
(* POST_xml_imbroadcast of the admin server and the BroadcastDB of every   *)
(* node, with the nodes of a network and the requests between them.        *)
(*                                                                         *)
(* A node that receives a message asks its BroadcastDB whether it is new,  *)
(* queues it for its job and stores it, in three steps of a parse thread;  *)
(* the job takes the whole queue and sends each message to the neighbours  *)
(* that are neither its author nor on its path.  The sender waits for an   *)
(* answer, which the receiver's server may send before the parse thread    *)
(* has looked at the message.  The job removes from the routing table the  *)
(* nodes that did not answer; a parse thread puts the sender into it.      *)
(*                                                                         *)
(* The job runs under Scheduler, its requests under Client and the parse   *)
(* threads under Server; RoutingTable says which nodes neighbors returns.  *)
(***************************************************************************)
EXTENDS Naturals, FiniteSets, Sequences, SequencesExt

CONSTANTS
    Node,
    Message,        \* what tells messages apart: address of the author and text
    Author,         \* the node that each message names as its author
    Peers,          \* the nodes in each node's routing table at its start
    PathLimit,      \* O2_BROADCAST_PATH_LIMIT
    Unreliable,     \* the nodes that something may go wrong with, and
    MaxEvents       \* posts of users and failures of any kind (bounds of the model)

ASSUME BroadcastAssumption ==
    /\ IsFiniteSet(Node)
    /\ Author \in [Message -> Node]
    /\ Peers \in [Node -> SUBSET Node]
    /\ \A n \in Node : n \notin Peers[n]
    /\ PathLimit \in Nat \ {0}
    /\ Unreliable \subseteq Node
    /\ MaxEvents \in Nat

VARIABLES
    peers,          \* NodeDB of each node
    stored,         \* how often each message is in the BroadcastDB of each node
    queue,          \* O2Job_Broadcast::Queue
    active,         \* whether the P2P server and the jobs of the node are started
    job,            \* the job thread of each node
    parse,          \* the thread at parse[<<p, n>>] handles at n a request of p
    posts, faults,  \* messages posted and failures so far
    crashed         \* the nodes that have been started again since the beginning

nodeVars == <<peers, stored, queue, job, parse>>
vars == <<nodeVars, active, posts, faults, crashed>>

-----------------------------------------------------------------------------
\* Copies of a message in a database that are counted (bound of the model).
MaxCopies == 2

(* A message on its way: the author is given by the message. *)
IMessage == [msg : Message, paths : Seq(Node)]

Idle == [pc |-> "idle", batch |-> <<>>, todo |-> {}, bad |-> {}]

Job == [pc : {"idle", "next", "send"},
        batch : Seq(IMessage),          \* the copy of Queue; its head is being sent
        todo : SUBSET Node,             \* neighbours to send the head to
        bad : SUBSET Node]              \* neighbours that did not answer

NoThread == [pc |-> "none", im |-> <<>>]

Thread == {NoThread} \cup [pc : {"check", "push", "store", "touch"}, im : IMessage]

TypeOK ==
    /\ peers \in [Node -> SUBSET Node]
    /\ stored \in [Node -> [Message -> 0..MaxCopies]]
    /\ queue \in [Node -> Seq(IMessage)]
    /\ active \in [Node -> BOOLEAN]
    /\ job \in [Node -> Job]
    /\ parse \in [Node \X Node -> Thread]
    /\ posts \in Nat /\ faults \in Nat /\ posts + faults <= MaxEvents
    /\ crashed \subseteq Node
    /\ \A n \in Node :
          /\ n \notin peers[n]
          /\ job[n].pc = "send" => job[n].batch # <<>>
          /\ n \notin job[n].todo
          /\ \A i \in 1..Len(queue[n]) : Len(queue[n][i].paths) <= PathLimit

Init ==
    /\ peers = Peers
    /\ stored = [n \in Node |-> [m \in Message |-> 0]]
    /\ queue = [n \in Node |-> <<>>]
    /\ active = [n \in Node |-> TRUE]
    /\ job = [n \in Node |-> Idle]
    /\ parse = [c \in Node \X Node |-> NoThread]
    /\ posts = 0
    /\ faults = 0
    /\ crashed = {}

\* Something goes wrong with n.
Fault(n) == n \in Unreliable /\ posts + faults < MaxEvents /\ faults' = faults + 1

-----------------------------------------------------------------------------
(* The parse threads of P2P and admin server.  The thread at <<n, n>> is   *)
(* the one of n's admin server: its message has no path yet.               *)

Exist(n, m) == stored[n][m] > 0

(* The user posts a message.  (The message is as new as its text: Exist    *)
(* compares author and text.)                                              *)
Post(m) ==
    LET a == Author[m] IN
    /\ posts + faults < MaxEvents
    /\ parse[<<a, a>>] = NoThread
    /\ parse' = [parse EXCEPT ![<<a, a>>] =
                    [pc |-> "check", im |-> [msg |-> m, paths |-> <<>>]]]
    /\ posts' = posts + 1
    /\ UNCHANGED <<peers, stored, queue, job, active, faults, crashed>>

\* What is left to do when the message has been dealt with.
Leave(c) ==
    parse' = [parse EXCEPT ![c] = IF c[1] = c[2] THEN NoThread ELSE [@ EXCEPT !.pc = "touch"]]

(* Add: a message that is in the database is not taken. *)
ParseCheck(c) ==
    /\ parse[c].pc = "check"
    /\ IF Exist(c[2], parse[c].im.msg)
         THEN Leave(c)
         ELSE parse' = [parse EXCEPT ![c].pc = "push"]
    /\ UNCHANGED <<peers, stored, queue, job, active, posts, faults, crashed>>

\* Bug: the message is queued and not stored.
ParsePush_NotStored(c) ==
    /\ parse[c].pc = "push"
    /\ queue' = [queue EXCEPT ![c[2]] = Append(@, parse[c].im)]
    /\ Leave(c)
    /\ UNCHANGED <<peers, stored, job, active, posts, faults, crashed>>

(* Add puts the message at the end of the queue. *)
ParsePush(c) ==
    /\ parse[c].pc = "push"
    /\ queue' = [queue EXCEPT ![c[2]] = Append(@, parse[c].im)]
    /\ parse' = [parse EXCEPT ![c].pc = "store"]
    /\ UNCHANGED <<peers, stored, job, active, posts, faults, crashed>>

(* AddMessage, after Add. *)
ParseStore(c) ==
    /\ parse[c].pc = "store"
    /\ stored' = [stored EXCEPT ![c[2]][parse[c].im.msg] = IF @ = MaxCopies THEN @ ELSE @ + 1]
    /\ Leave(c)
    /\ UNCHANGED <<peers, queue, job, active, posts, faults, crashed>>

(* ParseThread puts the sender into the routing table. *)
ParseTouch(c) ==
    /\ parse[c].pc = "touch"
    /\ peers' = [peers EXCEPT ![c[2]] = @ \cup {c[1]}]
    /\ parse' = [parse EXCEPT ![c] = NoThread]
    /\ UNCHANGED <<stored, queue, job, active, posts, faults, crashed>>

Parse(c) == ParseCheck(c) \/ ParsePush(c) \/ ParseStore(c) \/ ParseTouch(c)

-----------------------------------------------------------------------------
(* The job. *)

\* Bug: the queue is not cleared.
JobStart_NotCleared(n) ==
    /\ active[n]
    /\ job[n].pc = "idle"
    /\ queue[n] # <<>>
    /\ job' = [job EXCEPT ![n] = [Idle EXCEPT !.pc = "next", !.batch = queue[n]]]
    /\ UNCHANGED <<peers, stored, queue, parse, active, posts, faults, crashed>>

(* The job takes the whole queue. *)
JobStart(n) ==
    /\ active[n]
    /\ job[n].pc = "idle"
    /\ queue[n] # <<>>
    /\ job' = [job EXCEPT ![n] = [Idle EXCEPT !.pc = "next", !.batch = queue[n]]]
    /\ queue' = [queue EXCEPT ![n] = <<>>]
    /\ UNCHANGED <<peers, stored, parse, active, posts, faults, crashed>>

(* What neighbors may return: every node in a small network, and at least  *)
(* PathLimit + 2 in a larger one.                                          *)
Neighbors(n) ==
    IF Cardinality(peers[n]) <= PathLimit + 2
      THEN {peers[n]}
      ELSE {found \in SUBSET peers[n] : Cardinality(found) >= PathLimit + 2}

(* The nodes that are not known to have the message. *)
Unaware(found, im) == {p \in found : p # Author[im.msg] /\ p \notin Range(im.paths)}

(* The path with n at its end: its oldest nodes are forgotten. *)
Extended(paths, n) ==
    LET longer == Append(paths, n) IN
    IF Len(longer) > PathLimit THEN SubSeq(longer, Len(longer) - PathLimit + 1, Len(longer))
                               ELSE longer

\* The loop ends, or there are no neighbours and the job returns.
JobEnd(n) ==
    /\ job[n].pc = "next"
    /\ job[n].batch = <<>> \/ ~active[n] \/ peers[n] = {}
    /\ job' = [job EXCEPT ![n] = Idle]
    /\ UNCHANGED <<peers, stored, queue, parse, active, posts, faults, crashed>>

(* The next message: passed over when nobody is left to send it to. *)
JobNext(n) ==
    /\ job[n].pc = "next"
    /\ job[n].batch # <<>> /\ active[n] /\ peers[n] # {}
    /\ LET im == Head(job[n].batch) IN
       \E found \in Neighbors(n) :
          LET todo == Unaware(found, im) IN
          \/ /\ todo = {}
             /\ job' = [job EXCEPT ![n].batch = Tail(@)]
          \/ /\ todo # {}
             /\ job' = [job EXCEPT ![n].pc = "send",
                                   ![n].batch[1].paths = Extended(@, n),
                                   ![n].todo = todo]
    /\ UNCHANGED <<peers, stored, queue, parse, active, posts, faults, crashed>>

(* One request: the job takes up a neighbour and waits for its answer.     *)
(* With failed the request counts as failed.                               *)
Asked(n, p, failed) ==
    /\ job[n].pc = "send" /\ active[n]
    /\ p \in job[n].todo
    /\ job' = [job EXCEPT ![n].todo = @ \ {p}, ![n].bad = IF failed THEN @ \cup {p} ELSE @]

(* The request reaches the neighbour, whose server starts a parse thread   *)
(* and may answer before that thread has done anything; or the answer is   *)
(* lost.  (An earlier request of the same node has been handled by then:   *)
(* the job sleeps a second after each.)                                    *)
Deliver(n, p) ==
    /\ active[p]
    /\ parse[<<n, p>>] = NoThread
    /\ \/ Asked(n, p, FALSE) /\ faults' = faults
       \/ Asked(n, p, TRUE) /\ Fault(p)
    /\ parse' = [parse EXCEPT ![<<n, p>>] = [pc |-> "check", im |-> Head(job[n].batch)]]
    /\ UNCHANGED <<peers, stored, queue, active, posts, crashed>>

(* No connection, an error or a timeout before the neighbour has seen the  *)
(* message.  It is not sent again.                                         *)
Fail(n, p) ==
    /\ Asked(n, p, TRUE)
    /\ IF active[p] THEN Fault(p) ELSE faults' = faults
    /\ UNCHANGED <<peers, stored, queue, parse, active, posts, crashed>>

(* The neighbour has too many sessions and answers 503: it stays in the    *)
(* routing table and does not get the message.                             *)
Refuse(n, p) ==
    /\ active[p]
    /\ Asked(n, p, FALSE)
    /\ Fault(p)
    /\ UNCHANGED <<peers, stored, queue, parse, active, posts, crashed>>

\* Bug: the loop over the neighbours is left too early.
JobSent_Break(n) ==
    /\ job[n].pc = "send"
    /\ peers' = [peers EXCEPT ![n] = IF active[n] THEN @ \ job[n].bad ELSE @]
    /\ job' = [job EXCEPT ![n] = [Idle EXCEPT !.pc = "next", !.batch = Tail(job[n].batch)]]
    /\ UNCHANGED <<stored, queue, parse, active, posts, faults, crashed>>

(* Nodes that failed are removed from the routing table, those that        *)
(* answered are in it; nothing of it when the job has been deactivated.    *)
JobSent(n) ==
    /\ job[n].pc = "send"
    /\ job[n].todo = {} \/ ~active[n]
    /\ peers' = [peers EXCEPT ![n] = IF active[n] THEN @ \ job[n].bad ELSE @]
    /\ job' = [job EXCEPT ![n] = [Idle EXCEPT !.pc = "next", !.batch = Tail(job[n].batch)]]
    /\ UNCHANGED <<stored, queue, parse, active, posts, faults, crashed>>

Send(n) == \E p \in Node : Deliver(n, p) \/ Fail(n, p) \/ Refuse(n, p)

Work(n) == JobStart(n) \/ JobNext(n) \/ JobEnd(n) \/ JobSent(n) \/ Send(n)

-----------------------------------------------------------------------------
(* StopP2P and StartP2P; the end of the program and another run of it. *)

StopP2P(n) ==
    /\ active[n] /\ Fault(n)
    /\ active' = [active EXCEPT ![n] = FALSE]
    /\ UNCHANGED <<nodeVars, posts, crashed>>

(* The server and the jobs have stopped when StopP2P returns. *)
StartP2P(n) ==
    /\ ~active[n]
    /\ job[n].pc = "idle"
    /\ \A p \in Node \ {n} : parse[<<p, n>>].pc \in {"none", "touch"}
    /\ active' = [active EXCEPT ![n] = TRUE]
    /\ UNCHANGED <<nodeVars, posts, faults, crashed>>

(* BroadcastDB is not saved. *)
Crash(n) ==
    /\ Fault(n)
    /\ crashed' = crashed \cup {n}
    /\ peers' = [peers EXCEPT ![n] = Peers[n]]
    /\ stored' = [stored EXCEPT ![n] = [m \in Message |-> 0]]
    /\ queue' = [queue EXCEPT ![n] = <<>>]
    /\ job' = [job EXCEPT ![n] = Idle]
    /\ parse' = [c \in Node \X Node |-> IF c[2] = n THEN NoThread ELSE parse[c]]
    /\ active' = [active EXCEPT ![n] = TRUE]
    /\ posts' = posts

Next ==
    \/ \E m \in Message : Post(m)
    \/ \E c \in Node \X Node : Parse(c)
    \/ \E n \in Node : Work(n) \/ StopP2P(n) \/ StartP2P(n) \/ Crash(n)

Spec == Init /\ [][Next]_vars

(* As long as some thread can go on, one of them does: requests are        *)
(* answered or fail (EveryRequestAnswered of Client).  Nobody has to post, *)
(* stop, start or crash.                                                   *)
Fairness == WF_vars((\E n \in Node : Work(n)) \/ (\E c \in Node \X Node : Parse(c)))

FairSpec == Spec /\ Fairness

-----------------------------------------------------------------------------
(* Properties. *)

(* n has the message, or has queued it and is about to store it; or it has *)
(* lost all it knew.                                                       *)
Knows(n, m) ==
    \/ n \in crashed
    \/ Exist(n, m)
    \/ \E p \in Node : parse[<<p, n>>].pc = "store" /\ parse[<<p, n>>].im.msg = m

PathKnows(im) == \A k \in Range(im.paths) \cup {Author[im.msg]} : Knows(k, im.msg)

(* Whoever is left out when a message is forwarded has it already: its     *)
(* author, and the nodes on its path, wherever the message is on its way.  *)
PathsKnow ==
    /\ \A n \in Node :
          /\ \A i \in 1..Len(queue[n]) : PathKnows(queue[n][i])
          /\ \A i \in 1..Len(job[n].batch) : PathKnows(job[n].batch[i])
    /\ \A c \in Node \X Node :
          c[1] # c[2] /\ parse[c] # NoThread => PathKnows(parse[c].im)

Quiet(n) == job[n].pc = "idle" /\ \A p \in Node : parse[<<p, n>>] = NoThread

(* When nothing has failed and nothing is left to do, every neighbour of a *)
(* node that has a message has it too, though answers come early and the   *)
(* message comes from several sides, on several paths, at the same time.   *)
Spread ==
    faults = 0 /\ (\A n \in Node : Quiet(n) /\ queue[n] = <<>>) =>
        \A n \in Node : \A p \in Peers[n], m \in Message : Exist(n, m) => Exist(p, m)

(* Messages do not go round for ever, whatever fails. *)
Settles == <>[](\A n \in Node : Quiet(n) /\ (active[n] => queue[n] = <<>>))
=============================================================================
