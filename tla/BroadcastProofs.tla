--------------------------- MODULE BroadcastProofs ---------------------------
(***************************************************************************)
(* The types of Broadcast, PathsKnow and Spread, for any network, messages *)
(* and length of the paths.  TypeOK bounds the paths in the queues only; it is *)
(* inductive when the paths are bounded wherever a message is, and when    *)
(* the thread of the admin server, which has no sender, does not touch.    *)
(* PathsKnow needs that a node that is about to add itself to a path has   *)
(* the message too, from the moment it queues it.  Spread needs that who   *)
(* has a message that a neighbour lacks owes it, at every step on the way. *)
(***************************************************************************)
EXTENDS Broadcast, FiniteSetTheorems, TLAPS

Short == {im \in IMessage : Len(im.paths) <= PathLimit}
JobType == [pc : {"idle", "next", "send"}, batch : Seq(Short),
            todo : SUBSET Node, bad : SUBSET Node]
ThreadType == {NoThread} \cup [pc : {"check", "push", "store", "touch"}, im : Short]

Stores == stored \in [Node -> [Message -> 0..MaxCopies]]
Tables == peers \in [Node -> SUBSET Node] /\ (\A n \in Node : n \notin peers[n])
Queues == queue \in [Node -> Seq(Short)]
JobOK(n) == (job[n].pc = "send" => job[n].batch # <<>>) /\ n \notin job[n].todo
Jobs == job \in [Node -> JobType] /\ (\A n \in Node : JobOK(n))
Threads ==
    /\ parse \in [Node \X Node -> ThreadType]
    /\ \A n \in Node : parse[<<n, n>>].pc # "touch"
Counts == posts \in Nat /\ faults \in Nat /\ posts + faults <= MaxEvents
Rest == active \in [Node -> BOOLEAN] /\ crashed \subseteq Node

IInv == Stores /\ Tables /\ Queues /\ Jobs /\ Threads /\ Counts /\ Rest

-----------------------------------------------------------------------------
(* Sequences and messages. *)

LEMMA ShortIsMessage == Short \subseteq IMessage
BY DEF Short

LEMMA AppendType ==
    ASSUME NEW S, NEW s \in Seq(S), NEW e \in S
    PROVE  Append(s, e) \in Seq(S)
OBVIOUS

LEMMA TailType ==
    ASSUME NEW S, NEW s \in Seq(S), s # <<>>
    PROVE  Tail(s) \in Seq(S) /\ Head(s) \in S
OBVIOUS

(* A path that has been extended is one of nodes, and not too long. *)
LEMMA ExtendedType ==
    ASSUME NEW paths \in Seq(Node), NEW n \in Node, Len(paths) <= PathLimit
    PROVE  Extended(paths, n) \in Seq(Node) /\ Len(Extended(paths, n)) <= PathLimit
<1> DEFINE longer == Append(paths, n)
<1>1. longer \in Seq(Node) /\ Len(longer) \in Nat /\ Len(longer) <= PathLimit + 1
  BY BroadcastAssumption
<1>2. CASE Len(longer) > PathLimit
  <2>1. Len(longer) = PathLimit + 1
    BY <1>1, <1>2, BroadcastAssumption
  <2>2. Extended(paths, n) = SubSeq(longer, 2, PathLimit + 1)
    BY <2>1, <1>2, BroadcastAssumption DEF Extended
  <2> HIDE DEF longer
  <2>3. SubSeq(longer, 2, PathLimit + 1) \in Seq(Node)
    BY <2>1, <1>1, BroadcastAssumption
  <2>4. Len(SubSeq(longer, 2, PathLimit + 1)) = PathLimit
    BY <2>1, <1>1, BroadcastAssumption
  <2>5. QED  BY <2>2, <2>3, <2>4, BroadcastAssumption
<1>3. CASE Len(longer) <= PathLimit
  BY <1>1, <1>3, BroadcastAssumption DEF Extended
<1>4. QED  BY <1>1, <1>2, <1>3, BroadcastAssumption

(* The head of a batch with its path extended. *)
LEMMA HeadType ==
    ASSUME NEW b \in Seq(Short), b # <<>>, NEW n \in Node
    PROVE  [b EXCEPT ![1].paths = Extended(@, n)] \in Seq(Short)
           /\ [b EXCEPT ![1].paths = Extended(@, n)] # <<>>
<1>1. b[1] \in Short /\ 1 \in DOMAIN b /\ Len(b) \in Nat
  OBVIOUS
<1>2. [b[1] EXCEPT !.paths = Extended(@, n)] \in Short
  BY <1>1, ExtendedType DEF Short, IMessage
<1>3. [b EXCEPT ![1] = [b[1] EXCEPT !.paths = Extended(@, n)]] \in Seq(Short)
  <2> HIDE DEF Short
  <2>1. QED  BY <1>1, <1>2
<1>4. [b EXCEPT ![1].paths = Extended(@, n)] = [b EXCEPT ![1] = [b[1] EXCEPT !.paths = Extended(@, n)]]
  OBVIOUS
<1>5. [b EXCEPT ![1] = [b[1] EXCEPT !.paths = Extended(@, n)]] # <<>>
  BY <1>1
<1>6. QED  BY <1>3, <1>4, <1>5

LEMMA ThreadFacts ==
    /\ NoThread \in ThreadType
    /\ \A t \in ThreadType : t.pc # "none" => t.im \in Short /\ t.im.msg \in Message
    /\ NoThread.pc = "none"
BY DEF ThreadType, NoThread, Short, IMessage

LEMMA MakeThread ==
    ASSUME NEW p \in {"check", "push", "store", "touch"}, NEW im \in Short
    PROVE  [pc |-> p, im |-> im] \in ThreadType
BY DEF ThreadType

LEMMA IdleJob == Idle \in JobType /\ Idle.pc = "idle" /\ Idle.todo = {}
BY DEF Idle, JobType

(* What the updates of the job leave. *)
LEMMA IdleWith ==
    ASSUME NEW b \in Seq(Short)
    PROVE  LET j == [Idle EXCEPT !.pc = "next", !.batch = b] IN
           j \in JobType /\ j.pc = "next" /\ j.todo = {}
BY DEF Idle, JobType

LEMMA JobPasses ==
    ASSUME NEW j \in JobType, NEW b \in Seq(Short)
    PROVE  LET k == [j EXCEPT !.batch = b] IN
           k \in JobType /\ k.pc = j.pc /\ k.todo = j.todo
BY DEF JobType

JobWith(j, todo, bad) == [j EXCEPT !.todo = todo, !.bad = bad]

LEMMA JobAsked ==
    ASSUME NEW j \in JobType, NEW t \in SUBSET Node, NEW d \in SUBSET Node,
           NEW k, k = JobWith(j, t, d)
    PROVE  k \in JobType /\ k.pc = j.pc /\ k.batch = j.batch /\ k.todo = t
BY DEF JobType, JobWith

LEMMA JobFields ==
    ASSUME NEW j \in JobType
    PROVE  /\ j.pc \in {"idle", "next", "send"} /\ j.batch \in Seq(Short)
           /\ j.todo \in SUBSET Node /\ j.bad \in SUBSET Node
BY DEF JobType

(* One job is replaced. *)
LEMMA JobsStep ==
    ASSUME Jobs, NEW n \in Node, NEW j \in JobType,
           j.pc = "send" => j.batch # <<>>, n \notin j.todo,
           job' = [job EXCEPT ![n] = j]
    PROVE  Jobs'
BY DEF Jobs, JobOK

(* One thread is replaced. *)
LEMMA ThreadsStep ==
    ASSUME Threads, NEW c \in Node \X Node, NEW t \in ThreadType,
           c[1] = c[2] => t.pc # "touch",
           parse' = [parse EXCEPT ![c] = t]
    PROVE  Threads'
<1>1. parse' \in [Node \X Node -> ThreadType]
  BY DEF Threads
<1>2. ASSUME NEW n \in Node  PROVE parse'[<<n, n>>].pc # "touch"
  <2>1. CASE c = <<n, n>>
    BY <2>1, <1>1 DEF Threads
  <2>2. CASE c # <<n, n>>
    BY <2>2 DEF Threads
  <2>3. QED  BY <2>1, <2>2
<1>3. QED  BY <1>1, <1>2 DEF Threads

-----------------------------------------------------------------------------
(* The parse threads. *)

LEMMA PostStep ==
    ASSUME IInv, NEW m \in Message, Post(m)
    PROVE  IInv'
<1>1. Author[m] \in Node
  BY BroadcastAssumption
<1>2. [msg |-> m, paths |-> <<>>] \in Short
  BY BroadcastAssumption DEF Short, IMessage
<1>3. Threads'
  BY <1>1, <1>2, MakeThread, ThreadsStep DEF Post, IInv
<1>4. Counts'
  BY BroadcastAssumption DEF IInv, Counts, Post
<1>5. QED  BY <1>3, <1>4 DEF IInv, Post, Stores, Tables, Queues, Jobs, JobOK, Rest

(* After Leave the thread touches, unless it has no sender. *)
LEMMA LeaveStep ==
    ASSUME Threads, NEW c \in Node \X Node, parse[c].pc # "none", Leave(c)
    PROVE  Threads'
<1>1. parse[c] \in ThreadType /\ parse[c].im \in Short
  BY ThreadFacts DEF Threads
<1>2. CASE c[1] = c[2]
  BY <1>2, ThreadFacts, ThreadsStep DEF Leave
<1>3. CASE c[1] # c[2]
  <2>1. [parse[c] EXCEPT !.pc = "touch"] = [pc |-> "touch", im |-> parse[c].im]
    BY <1>1, ThreadFacts DEF ThreadType, NoThread
  <2>2. parse' = [parse EXCEPT ![c] = [pc |-> "touch", im |-> parse[c].im]]
    BY <1>3, <2>1 DEF Leave
  <2>3. QED  BY <1>1, <1>3, <2>2, MakeThread, ThreadsStep
<1>4. QED  BY <1>2, <1>3

(* The thread goes on to another step. *)
LEMMA PcStep ==
    ASSUME Threads, NEW c \in Node \X Node, parse[c].pc # "none",
           NEW p \in {"push", "store"}, parse' = [parse EXCEPT ![c].pc = p]
    PROVE  Threads'
<1>1. parse[c] \in ThreadType /\ parse[c].im \in Short
  BY ThreadFacts DEF Threads
<1>2. [parse[c] EXCEPT !.pc = p] = [pc |-> p, im |-> parse[c].im]
  BY <1>1, ThreadFacts DEF ThreadType, NoThread
<1>3. parse' = [parse EXCEPT ![c] = [pc |-> p, im |-> parse[c].im]]
  BY <1>2
<1>4. QED  BY <1>1, <1>3, MakeThread, ThreadsStep

LEMMA ParseStep ==
    ASSUME IInv, NEW c \in Node \X Node, Parse(c)
    PROVE  IInv'
<1>0. c[1] \in Node /\ c[2] \in Node /\ parse[c] \in ThreadType
  BY DEF IInv, Threads
<1>1. CASE ParseCheck(c)
  <2>1. Threads'
    BY <1>1, LeaveStep, PcStep DEF ParseCheck, IInv
  <2>2. QED  BY <1>1, <2>1 DEF ParseCheck, IInv, Stores, Tables, Queues, Jobs, JobOK, Counts, Rest
<1>2. CASE ParsePush(c)
  <2>1. Threads'
    BY <1>2, PcStep DEF ParsePush, IInv
  <2>2. parse[c].im \in Short
    BY <1>0, <1>2, ThreadFacts DEF ParsePush
  <2>3. Append(queue[c[2]], parse[c].im) \in Seq(Short)
    BY <1>0, <2>2, AppendType DEF IInv, Queues
  <2>4. Queues'
    BY <1>2, <2>3 DEF ParsePush, IInv, Queues
  <2>5. QED  BY <1>2, <2>1, <2>4 DEF ParsePush, IInv, Stores, Tables, Jobs, JobOK, Counts, Rest
<1>3. CASE ParseStore(c)
  <2>1. Threads'
    BY <1>3, LeaveStep DEF ParseStore, IInv
  <2>2. parse[c].im.msg \in Message
    BY <1>0, <1>3, ThreadFacts DEF ParseStore
  <2>3. Stores'
    <3>1. stored \in [Node -> [Message -> 0..MaxCopies]] /\ c[2] \in Node
      BY <1>0 DEF IInv, Stores
    <3> DEFINE m == parse[c].im.msg
               copies == IF stored[c[2]][m] = MaxCopies THEN MaxCopies ELSE stored[c[2]][m] + 1
    <3>2. stored' = [stored EXCEPT ![c[2]] = [stored[c[2]] EXCEPT ![m] = copies]]
      BY <1>3 DEF ParseStore
    <3>3. copies \in 0..MaxCopies
      BY <2>2, <3>1 DEF MaxCopies
    <3> HIDE DEF copies, m
    <3>4. [stored[c[2]] EXCEPT ![m] = copies] \in [Message -> 0..MaxCopies]
      BY <3>1, <3>3
    <3>5. QED  BY <3>1, <3>2, <3>4 DEF Stores
  <2>4. QED  BY <1>3, <2>1, <2>3 DEF ParseStore, IInv, Tables, Queues, Jobs, JobOK, Counts, Rest
<1>4. CASE ParseTouch(c)
  <2>1. Threads'
    BY <1>4, ThreadFacts, ThreadsStep DEF ParseTouch, IInv
  <2>2. c[1] # c[2]
    <3>1. c = <<c[1], c[2]>>
      BY <1>0
    <3>2. QED  BY <3>1, <1>0, <1>4 DEF ParseTouch, IInv, Threads
  <2>3. Tables'
    BY <1>0, <1>4, <2>2 DEF ParseTouch, IInv, Tables
  <2>4. QED  BY <1>4, <2>1, <2>3 DEF ParseTouch, IInv, Stores, Queues, Jobs, JobOK, Counts, Rest
<1>5. QED  BY <1>1, <1>2, <1>3, <1>4 DEF Parse

-----------------------------------------------------------------------------
(* The job. *)

LEMMA EmptyBatch == <<>> \in Seq(Short)
OBVIOUS

LEMMA JobStartStep ==
    ASSUME IInv, NEW n \in Node, JobStart(n)
    PROVE  IInv'
<1> DEFINE j == [Idle EXCEPT !.pc = "next", !.batch = queue[n]]
<1>1. queue[n] \in Seq(Short)
  BY DEF IInv, Queues
<1>2. j \in JobType /\ j.pc = "next" /\ j.todo = {}
  BY <1>1, IdleWith
<1>3. Jobs'
  <2>1. job' = [job EXCEPT ![n] = j]
    BY DEF JobStart
  <2> HIDE DEF j
  <2>2. QED  BY <1>2, <2>1, JobsStep DEF IInv
<1>4. Queues'
  BY EmptyBatch DEF JobStart, IInv, Queues
<1>5. QED  BY <1>3, <1>4 DEF JobStart, IInv, Stores, Tables, Threads, Counts, Rest

LEMMA JobEndStep ==
    ASSUME IInv, NEW n \in Node, JobEnd(n)
    PROVE  IInv'
<1>1. Jobs'
  BY IdleJob, JobsStep DEF JobEnd, IInv
<1>2. QED  BY <1>1 DEF JobEnd, IInv, Stores, Tables, Queues, Threads, Counts, Rest

LEMMA JobNextStep ==
    ASSUME IInv, NEW n \in Node, JobNext(n)
    PROVE  IInv'
<1> DEFINE im == Head(job[n].batch)
<1>1. job[n] \in JobType /\ job[n].batch \in Seq(Short) /\ job[n].bad \in SUBSET Node /\ n \notin job[n].todo
      /\ job[n].todo \in SUBSET Node
  BY JobFields DEF IInv, Jobs, JobOK
<1>2. job[n].batch # <<>>
  BY DEF JobNext
<1>3. PICK found \in Neighbors(n) :
        \/ /\ Unaware(found, im) = {}
           /\ job' = [job EXCEPT ![n].batch = Tail(@)]
        \/ /\ Unaware(found, im) # {}
           /\ job' = [job EXCEPT ![n].pc = "send",
                                 ![n].batch[1].paths = Extended(@, n),
                                 ![n].todo = Unaware(found, im)]
  BY DEF JobNext
<1>4. found \subseteq peers[n]
  BY DEF Neighbors
<1>5. Unaware(found, im) \in SUBSET Node /\ n \notin Unaware(found, im)
  BY <1>4 DEF Unaware, IInv, Tables
<1>6. CASE Unaware(found, im) = {}
  <2>1. Tail(job[n].batch) \in Seq(Short)
    BY <1>1, <1>2, TailType
  <2> DEFINE j == [job[n] EXCEPT !.batch = Tail(job[n].batch)]
  <2>2. j \in JobType /\ j.pc = job[n].pc /\ j.todo = job[n].todo
    BY <1>1, <2>1, JobPasses
  <2>3. job[n].pc = "next" /\ job' = [job EXCEPT ![n] = j]
    <3>1. job' = [job EXCEPT ![n].batch = Tail(@)]
      BY <1>3, <1>6
    <3>2. QED  BY <3>1 DEF JobNext
  <2> HIDE DEF j
  <2>4. Jobs'
    BY <1>1, <2>2, <2>3, JobsStep DEF IInv
  <2>5. QED  BY <2>4 DEF JobNext, IInv, Stores, Tables, Queues, Threads, Counts, Rest
<1>7. CASE Unaware(found, im) # {}
  <2> DEFINE b == [job[n].batch EXCEPT ![1].paths = Extended(@, n)]
             u == Unaware(found, im)
  <2>1. b \in Seq(Short) /\ b # <<>>
    BY <1>1, <1>2, HeadType
  <2>2. u \in SUBSET Node /\ n \notin u
    BY <1>5
  <2> DEFINE j == [job[n] EXCEPT !.pc = "send", !.batch = b, !.todo = u]
  <2>3. job' = [job EXCEPT ![n] = j]
    <3>1. job' = [job EXCEPT ![n].pc = "send",
                             ![n].batch[1].paths = Extended(@, n),
                             ![n].todo = Unaware(found, im)]
      BY <1>3, <1>7
    <3>2. job \in [Node -> JobType]
      BY DEF IInv, Jobs
    <3> HIDE DEF im
    <3>3. QED  BY <3>1, <3>2
  <2> HIDE DEF b, u
  <2>4. j \in JobType /\ j.batch = b /\ j.todo = u
    BY <1>1, <2>1, <2>2 DEF JobType
  <2> HIDE DEF j
  <2>5. Jobs'
    BY <2>1, <2>2, <2>3, <2>4, JobsStep DEF IInv
  <2>6. QED  BY <2>5 DEF JobNext, IInv, Stores, Tables, Queues, Threads, Counts, Rest
<1>8. QED  BY <1>6, <1>7

(* A neighbour has been asked, whatever came of it. *)
LEMMA AskedStep ==
    ASSUME IInv, NEW n \in Node, NEW p \in Node, NEW failed \in BOOLEAN, Asked(n, p, failed)
    PROVE  Jobs'
<1> DEFINE bad == IF failed THEN job[n].bad \cup {p} ELSE job[n].bad
<1>1. job[n] \in JobType /\ JobOK(n)
  BY DEF IInv, Jobs
<1> DEFINE todo == job[n].todo \ {p}
           j == [job[n] EXCEPT !.todo = todo, !.bad = bad]
<1>2. todo \in SUBSET Node /\ bad \in SUBSET Node
  BY <1>1, JobFields
<1>3. job' = [job EXCEPT ![n] = j]
  BY DEF Asked, IInv, Jobs
<1>4. j \in JobType /\ j.pc = job[n].pc /\ j.batch = job[n].batch /\ j.todo = job[n].todo \ {p}
  <2> DEFINE before == job[n]
  <2> HIDE DEF todo, bad
  <2>1. before \in JobType /\ j = JobWith(before, todo, bad)
    BY <1>1 DEF JobWith
  <2> HIDE DEF j, before
  <2>2. j \in JobType /\ j.pc = before.pc /\ j.batch = before.batch /\ j.todo = todo
    BY ONLY <1>2, <2>1, JobAsked
  <2>3. QED  BY <2>2 DEF todo, before
<1> HIDE DEF bad, todo, j
<1>5. n \notin j.todo /\ (j.pc = "send" => j.batch # <<>>)
  BY <1>1, <1>4 DEF JobOK
<1>6. QED  BY <1>3, <1>4, <1>5, JobsStep DEF IInv

LEMMA SendStep ==
    ASSUME IInv, NEW n \in Node, NEW p \in Node, Deliver(n, p) \/ Fail(n, p) \/ Refuse(n, p)
    PROVE  IInv'
<1>1. Jobs' /\ job[n].pc = "send"
  BY AskedStep DEF Deliver, Fail, Refuse, Asked
<1>2. Counts'
  <2>1. posts' = posts /\ (faults' = faults \/ Fault(p))
    BY DEF Deliver, Fail, Refuse
  <2>2. QED  BY <2>1, BroadcastAssumption DEF Fault, IInv, Counts
<1>3. Threads'
  <2>1. CASE Deliver(n, p)
    <3>1. job[n].batch # <<>> /\ job[n].batch \in Seq(Short)
      BY <1>1, JobFields DEF IInv, Jobs, JobOK
    <3>2. Head(job[n].batch) \in Short
      BY <3>1, TailType
    <3>3. parse' = [parse EXCEPT ![<<n, p>>] = [pc |-> "check", im |-> Head(job[n].batch)]]
      BY <2>1 DEF Deliver
    <3>4. QED  BY <3>2, <3>3, MakeThread, ThreadsStep DEF IInv
  <2>2. CASE Fail(n, p) \/ Refuse(n, p)
    BY <2>2 DEF Fail, Refuse, IInv, Threads
  <2>3. QED  BY <2>1, <2>2
<1>4. QED  BY <1>1, <1>2, <1>3 DEF Deliver, Fail, Refuse, IInv, Stores, Tables, Queues, Rest

LEMMA JobSentStep ==
    ASSUME IInv, NEW n \in Node, JobSent(n)
    PROVE  IInv'
<1>1. job[n].batch # <<>> /\ job[n].batch \in Seq(Short)
  BY JobFields DEF IInv, Jobs, JobOK, JobSent
<1>2. Tail(job[n].batch) \in Seq(Short)
  BY <1>1, TailType
<1> DEFINE j == [Idle EXCEPT !.pc = "next", !.batch = Tail(job[n].batch)]
<1>3. j \in JobType /\ j.pc = "next" /\ j.todo = {}
  BY <1>2, IdleWith
<1>4. Jobs'
  <2>1. job' = [job EXCEPT ![n] = j]
    BY DEF JobSent
  <2> HIDE DEF j
  <2>2. QED  BY <1>3, <2>1, JobsStep DEF IInv
<1>5. Tables'
  BY DEF JobSent, IInv, Tables
<1>6. QED  BY <1>4, <1>5 DEF JobSent, IInv, Stores, Queues, Threads, Counts, Rest

-----------------------------------------------------------------------------
(* StopP2P, StartP2P and crashes. *)
LEMMA NodeStep ==
    ASSUME IInv, NEW n \in Node, StopP2P(n) \/ StartP2P(n) \/ Crash(n)
    PROVE  IInv'
<1>1. Counts'
  BY BroadcastAssumption DEF StopP2P, StartP2P, Crash, Fault, IInv, Counts
<1>2. Rest'
  BY DEF StopP2P, StartP2P, Crash, IInv, Rest
<1>3. CASE StopP2P(n) \/ StartP2P(n)
  BY <1>1, <1>2, <1>3 DEF StopP2P, StartP2P, nodeVars, IInv, Stores, Tables, Queues, Jobs, JobOK, Threads
<1>4. CASE Crash(n)
  <2>1. Stores'
    BY <1>4 DEF Crash, IInv, Stores, MaxCopies
  <2>2. Tables'
    BY <1>4, BroadcastAssumption DEF Crash, IInv, Tables
  <2>3. Queues'
    BY <1>4, EmptyBatch DEF Crash, IInv, Queues
  <2>4. Jobs'
    BY <1>4, IdleJob, JobsStep DEF Crash, IInv
  <2>5. Threads'
    BY <1>4, ThreadFacts DEF Crash, IInv, Threads
  <2>6. QED  BY <1>1, <1>2, <2>1, <2>2, <2>3, <2>4, <2>5 DEF IInv
<1>5. QED  BY <1>3, <1>4

LEMMA InitHolds == Init => IInv
<1> SUFFICES ASSUME Init  PROVE IInv
  OBVIOUS
<1>1. Stores
  BY DEF Init, Stores, MaxCopies
<1>2. Tables
  BY BroadcastAssumption DEF Init, Tables
<1>3. Queues
  BY EmptyBatch DEF Init, Queues
<1>4. Jobs
  BY IdleJob DEF Init, Jobs, JobOK
<1>5. Threads
  BY ThreadFacts DEF Init, Threads
<1>6. Counts /\ Rest
  BY BroadcastAssumption DEF Init, Counts, Rest
<1>7. QED  BY <1>1, <1>2, <1>3, <1>4, <1>5, <1>6 DEF IInv

(* What is inductive holds always. *)
THEOREM Invariance == Spec => []IInv
<1>1. IInv /\ [Next]_vars => IInv'
  <2> SUFFICES ASSUME IInv, [Next]_vars  PROVE IInv'
    OBVIOUS
  <2>1. CASE UNCHANGED vars
    BY <2>1 DEF vars, nodeVars, IInv, Stores, Tables, Queues, Jobs, JobOK, Threads, Counts, Rest
  <2>2. CASE \E m \in Message : Post(m)
    BY <2>2, PostStep
  <2>3. CASE \E c \in Node \X Node : Parse(c)
    BY <2>3, ParseStep
  <2>4. ASSUME NEW n \in Node, Work(n)  PROVE IInv'
    BY <2>4, JobStartStep, JobNextStep, JobEndStep, JobSentStep, SendStep DEF Work, Send
  <2>5. ASSUME NEW n \in Node, StopP2P(n) \/ StartP2P(n) \/ Crash(n)  PROVE IInv'
    BY <2>5, NodeStep
  <2>6. QED  BY <2>1, <2>2, <2>3, <2>4, <2>5 DEF Next
<1>2. QED  BY InitHolds, <1>1, PTL DEF Spec

(* For any network, messages and limit of the paths, every variable keeps  *)
(* its type: no path in a queue grows beyond the limit, no node has itself *)
(* in its routing table, and the job sends a message only while its batch  *)
(* has one.                                                                *)
THEOREM TypeCorrect == Spec => []TypeOK
<1>1. IInv => TypeOK
  <2> SUFFICES ASSUME IInv  PROVE TypeOK
    OBVIOUS
  <2>1. Seq(Short) \subseteq Seq(IMessage)
    BY ShortIsMessage
  <2>2. queue \in [Node -> Seq(IMessage)]
    BY <2>1 DEF IInv, Queues
  <2>3. job \in [Node -> Job]
    BY <2>1 DEF IInv, Jobs, JobType, Job
  <2>4. parse \in [Node \X Node -> Thread]
    BY ShortIsMessage DEF IInv, Threads, ThreadType, Thread
  <2>5. ASSUME NEW n \in Node, NEW i \in 1..Len(queue[n])  PROVE Len(queue[n][i].paths) <= PathLimit
    <3>1. queue[n] \in Seq(Short)
      BY DEF IInv, Queues
    <3>2. queue[n][i] \in Short
      BY <3>1
    <3>3. QED  BY <3>2 DEF Short
  <2>6. QED  BY <2>2, <2>3, <2>4, <2>5
              DEF TypeOK, IInv, Stores, Tables, Counts, Rest, Jobs, JobOK
<1>2. QED  BY <1>1, Invariance, PTL

-----------------------------------------------------------------------------
(* Who is on a path knows the message.  That is inductive together with    *)
(* this: who has a message in its queue or its job knows it too, and the   *)
(* message at a thread of the admin server is its node's own, without a    *)
(* path.                                                                   *)
Good(n, im) == PathKnows(im) /\ Knows(n, im.msg)

Queued == \A n \in Node : \A i \in 1..Len(queue[n]) : Good(n, queue[n][i])
Batched == \A n \in Node : \A i \in 1..Len(job[n].batch) : Good(n, job[n].batch[i])
Handled ==
    \A c \in Node \X Node :
        parse[c].pc # "none" =>
            IF c[1] = c[2] THEN Author[parse[c].im.msg] = c[2] /\ parse[c].im.paths = <<>>
                           ELSE PathKnows(parse[c].im)

KInv == Queued /\ Batched /\ Handled

(* What a step does to the databases and to the thread of one request. *)
LEMMA StoredKept ==
    ASSUME IInv, [Next]_vars, NEW n \in Node, NEW m \in Message, Exist(n, m), n \notin crashed'
    PROVE  Exist(n, m)'
<1>1. CASE stored' = stored
  BY <1>1 DEF Exist
<1>2. ASSUME NEW c \in Node \X Node, ParseStore(c)  PROVE Exist(n, m)'
  <2>1. c[2] \in Node /\ parse[c].im.msg \in Message
    BY <1>2, ThreadFacts DEF ParseStore, IInv, Threads
  <2>2. stored[n][m] \in Nat /\ stored[n][m] > 0
    BY DEF IInv, Stores, Exist, MaxCopies
  <2>3. stored'[n][m] = stored[n][m] \/ stored'[n][m] = stored[n][m] + 1
    BY <1>2, <2>1 DEF ParseStore, IInv, Stores
  <2>4. QED  BY <2>2, <2>3 DEF Exist
<1>3. ASSUME NEW k \in Node, Crash(k)  PROVE Exist(n, m)'
  <2>1. k # n
    BY <1>3 DEF Crash
  <2>2. QED  BY <1>3, <2>1 DEF Crash, Exist, IInv, Stores
<1>4. stored' = stored \/ (\E c \in Node \X Node : ParseStore(c)) \/ (\E k \in Node : Crash(k))
  BY DEF Next, vars, nodeVars, Post, Parse, ParseCheck, ParsePush, ParseTouch, Work, JobStart, JobNext,
     JobEnd, JobSent, Send, Deliver, Fail, Refuse, StopP2P, StartP2P
<1>5. QED  BY <1>1, <1>2, <1>3, <1>4

LEMMA StoringKept ==
    ASSUME IInv, [Next]_vars, NEW p \in Node, NEW n \in Node, NEW m,
           parse[<<p, n>>].pc = "store", parse[<<p, n>>].im.msg = m, n \notin crashed'
    PROVE  parse'[<<p, n>>] = parse[<<p, n>>] \/ Exist(n, m)'
<1> DEFINE d == <<p, n>>
<1>1. d \in Node \X Node /\ d[2] = n /\ parse \in [Node \X Node -> ThreadType]
  BY DEF IInv, Threads
<1>2. CASE parse' = parse
  BY <1>2
<1>3. ASSUME NEW l \in Message, Post(l)  PROVE parse'[d] = parse[d]
  BY <1>1, <1>3, ThreadFacts DEF Post
<1>4. ASSUME NEW c \in Node \X Node, Parse(c), c # d  PROVE parse'[d] = parse[d]
  BY <1>1, <1>4 DEF Parse, ParseCheck, ParsePush, ParseStore, ParseTouch, Leave
<1>5. CASE Parse(d)
  <2>1. ParseStore(d)
    BY <1>5 DEF Parse, ParseCheck, ParsePush, ParseTouch
  <2>2. m \in Message
    BY <1>1, ThreadFacts
  <2>3. stored[n][m] \in Nat
    BY <2>2 DEF IInv, Stores, MaxCopies
  <2>4. stored'[n][m] = IF stored[n][m] = MaxCopies THEN MaxCopies ELSE stored[n][m] + 1
    BY <2>1, <2>2, <1>1 DEF ParseStore, IInv, Stores
  <2>5. QED  BY <2>3, <2>4 DEF Exist, MaxCopies
<1>6. ASSUME NEW k \in Node, NEW q \in Node, Deliver(k, q)  PROVE parse'[d] = parse[d]
  BY <1>1, <1>6, ThreadFacts DEF Deliver
<1>7. ASSUME NEW k \in Node, Crash(k)  PROVE parse'[d] = parse[d]
  BY <1>1, <1>7 DEF Crash
<1>8. \/ parse' = parse
      \/ \E l \in Message : Post(l)
      \/ \E c \in Node \X Node : Parse(c)
      \/ \E k, q \in Node : Deliver(k, q)
      \/ \E k \in Node : Crash(k)
  BY DEF Next, vars, nodeVars, Work, JobStart, JobNext, JobEnd, JobSent, Send, Fail, Refuse, StopP2P,
     StartP2P
<1>9. QED  BY <1>2, <1>3, <1>4, <1>5, <1>6, <1>7, <1>8

(* What a node knows it goes on to know. *)
LEMMA KnowsKept ==
    ASSUME IInv, [Next]_vars, NEW n \in Node, NEW m \in Message, Knows(n, m)
    PROVE  Knows(n, m)'
<1>1. CASE n \in crashed'
  BY <1>1 DEF Knows
<1>2. CASE n \notin crashed'
  <2>1. crashed \subseteq crashed'
    <3>1. ASSUME NEW c \in Node \X Node, Parse(c)  PROVE crashed' = crashed
      BY <3>1 DEF Parse, ParseCheck, ParsePush, ParseStore, ParseTouch, nodeVars
    <3>2. ASSUME NEW k \in Node, Work(k)  PROVE crashed' = crashed
      BY <3>2 DEF Work, JobStart, JobNext, JobEnd, JobSent, Send, Fail, Refuse, Deliver, nodeVars
    <3>3. ASSUME NEW k \in Node, StopP2P(k) \/ StartP2P(k) \/ Crash(k)  PROVE crashed \subseteq crashed'
      BY <3>3 DEF StopP2P, StartP2P, Crash, nodeVars
    <3>4. ASSUME NEW l \in Message, Post(l)  PROVE crashed' = crashed
      BY <3>4 DEF Post, nodeVars
    <3>5. QED  BY <3>1, <3>2, <3>3, <3>4 DEF Next, vars
  <2>2. CASE Exist(n, m)
    BY <1>2, <2>2, StoredKept DEF Knows
  <2>3. ASSUME NEW p \in Node, parse[<<p, n>>].pc = "store", parse[<<p, n>>].im.msg = m
        PROVE  Knows(n, m)'
    BY <1>2, <2>3, StoringKept DEF Knows
  <2>4. QED  BY <1>2, <2>1, <2>2, <2>3 DEF Knows
<1>3. QED  BY <1>1, <1>2

LEMMA PathNodes == \A im \in Short : Range(im.paths) \cup {Author[im.msg]} \subseteq Node /\ im.msg \in Message
BY BroadcastAssumption DEF Short, IMessage, Range

LEMMA PathKept ==
    ASSUME IInv, [Next]_vars, NEW im \in Short, PathKnows(im)
    PROVE  PathKnows(im)'
BY PathNodes, KnowsKept DEF PathKnows

LEMMA GoodKept ==
    ASSUME IInv, [Next]_vars, NEW n \in Node, NEW im \in Short, Good(n, im)
    PROVE  Good(n, im)'
BY PathNodes, PathKept, KnowsKept DEF Good

LEMMA KInit == Init => KInv
BY ThreadFacts DEF Init, KInv, Queued, Batched, Handled, Idle

(* The queue and the batch of a node as sequences, and the message of a    *)
(* thread.                                                                 *)
LEMMA Types ==
    ASSUME IInv
    PROVE  /\ \A n \in Node : queue[n] \in Seq(Short) /\ job[n].batch \in Seq(Short)
           /\ \A c \in Node \X Node : parse[c] \in ThreadType /\ c[1] \in Node /\ c[2] \in Node
           /\ \A c \in Node \X Node : parse[c].pc # "none" => parse[c].im \in Short
<1>1. \A n \in Node : queue[n] \in Seq(Short)
  BY DEF IInv, Queues
<1>2. \A n \in Node : job[n].batch \in Seq(Short)
  BY JobFields DEF IInv, Jobs
<1>3. QED  BY <1>1, <1>2, ThreadFacts DEF IInv, Threads

LEMMA Elements ==
    ASSUME NEW b \in Seq(Short)
    PROVE  /\ \A i \in 1..Len(b) : b[i] \in Short
           /\ b # <<>> => /\ Head(b) = b[1] /\ 1 \in 1..Len(b)
                         /\ \A i \in 1..Len(Tail(b)) : Tail(b)[i] = b[i + 1] /\ i + 1 \in 1..Len(b)
<1> HIDE DEF Short
<1>1. QED  OBVIOUS

LEMMA AppendElements ==
    ASSUME NEW S, NEW s \in Seq(S), NEW e \in S, NEW i \in 1..Len(Append(s, e))
    PROVE  (i \in 1..Len(s) /\ Append(s, e)[i] = s[i]) \/ Append(s, e)[i] = e
OBVIOUS

(* The rule for the queues and the batches: what they have after a step is *)
(* good when it was there before, or is made good by the step.             *)
LEMMA QueuedStep ==
    ASSUME IInv, Queued, [Next]_vars,
           \A n \in Node : \A i \in 1..Len(queue'[n]) :
              \/ \E j \in 1..Len(queue[n]) : queue'[n][i] = queue[n][j]
              \/ Good(n, queue[n][i])'
    PROVE  Queued'
<1>1. ASSUME NEW n \in Node, NEW i \in 1..Len(queue'[n]), NEW j \in 1..Len(queue[n]),
             queue'[n][i] = queue[n][j]
      PROVE  Good(n, queue[n][i])'
  <2>1. queue[n][j] \in Short
    BY Types, Elements
  <2>2. PICK im \in Short : im = queue[n][j]
    BY <2>1
  <2>3. Good(n, im)'
    BY <2>2, GoodKept DEF Queued
  <2>4. queue[n][i]' = im
    BY <1>1, <2>2
  <2>5. QED  BY ONLY <2>3, <2>4 DEF Good, PathKnows, Knows, Exist
<1>2. QED  BY <1>1 DEF Queued

LEMMA BatchedStep ==
    ASSUME IInv, Batched, [Next]_vars,
           \A n \in Node : \A i \in 1..Len(job'[n].batch) :
              \/ \E j \in 1..Len(job[n].batch) : job'[n].batch[i] = job[n].batch[j]
              \/ Good(n, job[n].batch[i])'
    PROVE  Batched'
<1>1. ASSUME NEW n \in Node, NEW i \in 1..Len(job'[n].batch), NEW j \in 1..Len(job[n].batch),
             job'[n].batch[i] = job[n].batch[j]
      PROVE  Good(n, job[n].batch[i])'
  <2>1. job[n].batch[j] \in Short
    BY Types, Elements
  <2>2. PICK im \in Short : im = job[n].batch[j]
    BY <2>1
  <2>3. Good(n, im)'
    BY <2>2, GoodKept DEF Batched
  <2>4. job[n].batch[i]' = im
    BY <1>1, <2>2
  <2>5. QED  BY ONLY <2>3, <2>4 DEF Good, PathKnows, Knows, Exist
<1>2. QED  BY <1>1 DEF Batched

(* Of the threads one may be replaced, by one whose message is as it       *)
(* should be.                                                              *)
LEMMA HandledStep ==
    ASSUME IInv, Handled, [Next]_vars,
           \A c \in Node \X Node :
              \/ parse'[c].pc = "none"
              \/ parse[c].pc # "none" /\ parse'[c].im = parse[c].im
              \/ c[1] = c[2] /\ Author[parse'[c].im.msg] = c[2] /\ parse'[c].im.paths = <<>>
              \/ c[1] # c[2] /\ PathKnows(parse[c].im)'
    PROVE  Handled'
<1>1. ASSUME NEW c \in Node \X Node, parse[c].pc # "none", parse'[c].im = parse[c].im, c[1] # c[2]
      PROVE  PathKnows(parse[c].im)'
  <2>1. PICK im \in Short : im = parse[c].im
    BY <1>1, Types
  <2>2. PathKnows(im)'
    BY <1>1, <2>1, PathKept DEF Handled
  <2>3. (parse[c].im)' = im
    BY <1>1, <2>1
  <2>4. QED  BY ONLY <2>2, <2>3 DEF PathKnows, Knows, Exist
<1>2. QED  BY <1>1 DEF Handled

-----------------------------------------------------------------------------
(* Step by step: what happens to the queues, the batches and the threads.  *)
(* Same: nothing, or nothing but the loss of some of it.                   *)
SameQueues == queue' = queue
SameJobs == \A n \in Node : job'[n].batch = job[n].batch
SameThreads ==
    \A c \in Node \X Node :
        parse'[c].pc = "none" \/ (parse[c].pc # "none" /\ parse'[c].im = parse[c].im)

LEMMA SameQueuesStep == ASSUME IInv, Queued, [Next]_vars, SameQueues PROVE Queued'
BY QueuedStep DEF SameQueues

LEMMA SameJobsStep == ASSUME IInv, Batched, [Next]_vars, SameJobs PROVE Batched'
BY BatchedStep DEF SameJobs

LEMMA SameThreadsStep == ASSUME IInv, Handled, [Next]_vars, SameThreads PROVE Handled'
BY HandledStep DEF SameThreads

LEMMA KPost ==
    ASSUME IInv, KInv, NEW m \in Message, Post(m)  PROVE KInv'
<1>1. [Next]_vars
  BY DEF Next
<1>2. Handled'
  <2> DEFINE a == Author[m]
  <2>1. a \in Node /\ <<a, a>> \in Node \X Node
    BY BroadcastAssumption
  <2>2. parse \in [Node \X Node -> ThreadType]
    BY DEF IInv, Threads
  <2>3. parse' = [parse EXCEPT ![<<a, a>>] = [pc |-> "check", im |-> [msg |-> m, paths |-> <<>>]]]
    BY DEF Post
  <2>4. ASSUME NEW c \in Node \X Node
        PROVE  \/ parse'[c] = parse[c]
               \/ c[1] = c[2] /\ Author[parse'[c].im.msg] = c[2] /\ parse'[c].im.paths = <<>>
    BY <2>1, <2>2, <2>3
  <2>5. QED  BY <1>1, <2>4, HandledStep DEF KInv
<1>3. SameQueues /\ SameJobs
  BY DEF Post, SameQueues, SameJobs
<1>4. QED  BY <1>1, <1>2, <1>3, SameQueuesStep, SameJobsStep DEF KInv

LEMMA KParse ==
    ASSUME IInv, KInv, NEW c \in Node \X Node, Parse(c)  PROVE KInv'
<1>1. [Next]_vars
  BY DEF Next
<1>2. parse \in [Node \X Node -> ThreadType] /\ c[1] \in Node /\ c[2] \in Node /\ c = <<c[1], c[2]>>
  BY DEF IInv, Threads
<1>3. SameThreads
  <2>1. ASSUME NEW d \in Node \X Node, d # c  PROVE parse'[d] = parse[d]
    BY <1>2, <2>1 DEF Parse, ParseCheck, ParsePush, ParseStore, ParseTouch, Leave
  <2>2. parse[c].pc # "none"
    BY DEF Parse, ParseCheck, ParsePush, ParseStore, ParseTouch
  <2>4. parse'[c].pc = "none" \/ parse'[c].im = parse[c].im
    <3>1. ASSUME NEW q, parse' = [parse EXCEPT ![c].pc = q]  PROVE parse'[c].im = parse[c].im
      BY <1>2, <3>1
    <3>2. CASE parse' = [parse EXCEPT ![c] = NoThread]
      BY <1>2, <3>2, ThreadFacts
    <3>3. CASE Leave(c)
      BY <1>2, <3>3, ThreadFacts DEF Leave
    <3>4. Leave(c) \/ parse' = [parse EXCEPT ![c] = NoThread]
            \/ parse' = [parse EXCEPT ![c].pc = "push"] \/ parse' = [parse EXCEPT ![c].pc = "store"]
      BY DEF Parse, ParseCheck, ParsePush, ParseStore, ParseTouch
    <3>5. QED  BY <3>1, <3>2, <3>3, <3>4
  <2>5. QED  BY <2>1, <2>2, <2>4 DEF SameThreads
<1>4. SameJobs
  BY DEF Parse, ParseCheck, ParsePush, ParseStore, ParseTouch, SameJobs
<1>5. Queued'
  <2>1. CASE ~ParsePush(c)
    BY <1>1, <2>1, SameQueuesStep DEF Parse, ParseCheck, ParseStore, ParseTouch, SameQueues, KInv
  <2>2. CASE ParsePush(c)
    <3> DEFINE n == c[2]
    <3>1. PICK im \in Short : im = parse[c].im
      BY <2>2, Types DEF ParsePush
    <3>2. Knows(n, im.msg)'
      <4>1. parse'[c].pc = "store" /\ parse'[c].im = im
        BY <1>2, <2>2, <3>1, ThreadFacts DEF ParsePush, ThreadType, NoThread
      <4>2. QED  BY <1>2, <4>1 DEF Knows
    <3>3. PathKnows(im)'
      <4>1. CASE c[1] # c[2]
        BY <1>1, <2>2, <3>1, <4>1, PathKept DEF ParsePush, KInv, Handled
      <4>2. CASE c[1] = c[2]
        <5>1. Author[im.msg] = n /\ im.paths = <<>>
          BY <2>2, <3>1, <4>2 DEF ParsePush, KInv, Handled
        <5>2. Range(im.paths) = {}
          BY <5>1 DEF Range
        <5>3. QED  BY <3>2, <5>1, <5>2 DEF PathKnows
      <4>3. QED  BY <4>1, <4>2
    <3>4. Good(n, im)'
      BY <3>2, <3>3 DEF Good
    <3>5. queue' = [queue EXCEPT ![n] = Append(@, im)]
      BY <2>2, <3>1 DEF ParsePush
    <3>6. ASSUME NEW k \in Node, NEW i \in 1..Len(queue'[k])
          PROVE  \/ \E j \in 1..Len(queue[k]) : queue'[k][i] = queue[k][j]
                 \/ k = n /\ queue'[k][i] = im
      <4>1. queue[k] \in Seq(Short) /\ queue \in [Node -> Seq(Short)]
        BY DEF IInv, Queues
      <4>2. queue'[k] = queue[k] \/ (k = n /\ queue'[k] = Append(queue[k], im))
        BY <3>5, <4>1
      <4>3. CASE queue'[k] = queue[k]
        BY <4>3
      <4>4. CASE k = n /\ queue'[k] = Append(queue[k], im)
        BY <4>1, <4>4, AppendElements
      <4>5. QED  BY <4>2, <4>3, <4>4
    <3>7. ASSUME NEW k \in Node, NEW i \in 1..Len(queue'[k]), k = n, queue'[k][i] = im
          PROVE  Good(k, queue[k][i])'
      BY <3>4, <3>7 DEF Good, PathKnows, Knows, Exist
    <3> HIDE DEF n
    <3>8. QED  BY <1>1, <3>6, <3>7, QueuedStep DEF KInv
  <2>3. QED  BY <2>1, <2>2
<1>6. QED  BY <1>1, <1>3, <1>4, <1>5, SameThreadsStep, SameJobsStep DEF KInv

(* Range of a path that has been extended. *)
LEMMA ExtendedRange ==
    ASSUME NEW paths \in Seq(Node), NEW n \in Node
    PROVE  Range(Extended(paths, n)) \subseteq Range(paths) \cup {n}
<1> DEFINE longer == Append(paths, n)
           k == Len(longer) - PathLimit
<1>1. longer \in Seq(Node) /\ Len(longer) \in Nat /\ Len(longer) = Len(paths) + 1 /\ Len(paths) \in Nat
  OBVIOUS
<1>2. \A i \in 1..Len(longer) : longer[i] \in Range(paths) \cup {n}
  BY DEF Range
<1>3. CASE Len(longer) > PathLimit
  <2>1. k \in Nat /\ k + 1 \in 1..Len(longer)
    BY <1>1, <1>3, BroadcastAssumption
  <2>2. Extended(paths, n) = SubSeq(longer, k + 1, Len(longer))
    BY <1>3 DEF Extended
  <2> HIDE DEF longer, k
  <2>3. ASSUME NEW i \in DOMAIN SubSeq(longer, k + 1, Len(longer))
        PROVE  k + i \in 1..Len(longer) /\ SubSeq(longer, k + 1, Len(longer))[i] = longer[k + i]
    <3>1. Len(longer) \in Nat /\ i \in 1..Len(longer) - k
      BY ONLY <1>1, <2>1, <2>3
    <3>2. k + i \in 1..Len(longer)
      BY ONLY <2>1, <3>1
    <3>3. SubSeq(longer, k + 1, Len(longer))[i] = longer[k + i]
      BY ONLY <1>1, <2>1, <3>1
    <3>4. QED  BY <3>2, <3>3
  <2> DEFINE s == SubSeq(longer, k + 1, Len(longer))
  <2>4. ASSUME NEW i \in DOMAIN s  PROVE s[i] \in Range(paths) \cup {n}
    BY <1>2, <2>3
  <2> HIDE DEF s
  <2>5. Range(s) \subseteq Range(paths) \cup {n}
    <3>1. Range(s) = {s[i] : i \in DOMAIN s}
      BY DEF Range
    <3>2. QED  BY ONLY <2>4, <3>1
  <2>6. QED  BY <2>2, <2>5 DEF s
<1>4. CASE Len(longer) <= PathLimit
  <2>1. Extended(paths, n) = longer
    BY <1>1, <1>4, BroadcastAssumption DEF Extended
  <2> HIDE DEF longer
  <2>2. DOMAIN longer = 1..Len(longer)
    BY <1>1
  <2>3. QED  BY <1>2, <2>1, <2>2 DEF Range
<1>5. QED  BY <1>1, <1>3, <1>4, BroadcastAssumption

(* The job takes its queue, of which all is good. *)
LEMMA KJobStart ==
    ASSUME IInv, KInv, NEW n \in Node, JobStart(n)  PROVE KInv'
<1>1. [Next]_vars
  BY DEF Next, Work
<1>2. SameThreads
  BY ThreadFacts DEF JobStart, SameThreads, IInv, Threads
<1>3. Queued'
  <2>1. queue' = [queue EXCEPT ![n] = <<>>]
    BY DEF JobStart
  <2>2. \A k \in Node : queue'[k] = queue[k] \/ queue'[k] = <<>>
    BY <2>1 DEF IInv, Queues
  <2>3. QED  BY <1>1, <2>2, QueuedStep DEF KInv
<1>4. Batched'
  <2>1. job \in [Node -> JobType]
    BY DEF IInv, Jobs
  <2>2. job' = [job EXCEPT ![n] = [Idle EXCEPT !.pc = "next", !.batch = queue[n]]]
    BY DEF JobStart
  <2>3. job'[n].batch = queue[n] /\ \A k \in Node \ {n} : job'[k] = job[k]
    BY <2>1, <2>2 DEF Idle
  <2>4. ASSUME NEW i \in 1..Len(job'[n].batch)  PROVE Good(n, job[n].batch[i])'
    <3>1. i \in 1..Len(queue[n])
      BY <2>3
    <3>2. PICK im \in Short : im = queue[n][i]
      BY <3>1, Types, Elements
    <3>3. Good(n, im)'
      BY <1>1, <3>1, <3>2, GoodKept DEF KInv, Queued
    <3>4. QED  BY <2>3, <3>2, <3>3 DEF Good, PathKnows, Knows, Exist
  <2>5. QED  BY <1>1, <2>3, <2>4, BatchedStep DEF KInv
<1>5. QED  BY <1>1, <1>2, <1>3, <1>4, SameThreadsStep DEF KInv

(* The batch of n is shortened by its head, or emptied, or left. *)
LEMMA ShorterStep ==
    ASSUME IInv, KInv, [Next]_vars, NEW n \in Node, NEW b \in Seq(Short),
           \/ b = <<>>
           \/ b = job[n].batch
           \/ job[n].batch # <<>> /\ b = Tail(job[n].batch),
           job'[n].batch = b, \A k \in Node \ {n} : job'[k] = job[k]
    PROVE  Batched'
<1>1. \A i \in 1..Len(b) : \E j \in 1..Len(job[n].batch) : b[i] = job[n].batch[j]
  <2>1. CASE b = <<>> \/ b = job[n].batch
    BY <2>1
  <2>2. CASE job[n].batch # <<>> /\ b = Tail(job[n].batch)
    <3> DEFINE a == job[n].batch
    <3>1. a \in Seq(Short)
      BY Types
    <3>2. ASSUME NEW i \in 1..Len(b)  PROVE \E j \in 1..Len(a) : b[i] = a[j]
      <4>1. a # <<>> /\ i \in 1..Len(Tail(a)) /\ b[i] = Tail(a)[i]
        BY <2>2, <3>2
      <4> HIDE DEF a
      <4>2. Tail(a)[i] = a[i + 1] /\ i + 1 \in 1..Len(a)
        <5> DEFINE rest == Tail(a)
        <5>1. a # <<>> => \A l \in 1..Len(rest) : rest[l] = a[l + 1] /\ l + 1 \in 1..Len(a)
          BY ONLY <3>1, Elements
        <5>2. a # <<>> /\ i \in 1..Len(rest)
          BY ONLY <4>1
        <5> HIDE DEF rest
        <5>3. rest[i] = a[i + 1] /\ i + 1 \in 1..Len(a)
          BY ONLY <5>1, <5>2
        <5>4. QED  BY <5>3 DEF rest
      <4>3. QED  BY <4>1, <4>2
    <3>3. QED  BY <3>2
  <2>3. QED  BY <2>1, <2>2
<1>2. ASSUME NEW k \in Node, NEW i \in 1..Len(job'[k].batch)
      PROVE  \E j \in 1..Len(job[k].batch) : job'[k].batch[i] = job[k].batch[j]
  <2>1. CASE k = n
    BY <1>1, <1>2, <2>1
  <2>2. CASE k # n
    BY <1>2, <2>2
  <2>3. QED  BY <2>1, <2>2
<1>3. QED  BY <1>2, BatchedStep DEF KInv

LEMMA KJobShrinks ==
    ASSUME IInv, KInv, NEW n \in Node, JobEnd(n) \/ JobSent(n)  PROVE KInv'
<1>1. [Next]_vars
  BY DEF Next, Work
<1>2. SameThreads /\ SameQueues
  BY ThreadFacts DEF JobEnd, JobSent, SameThreads, SameQueues, IInv, Threads
<1>3. job \in [Node -> JobType] /\ job[n].batch \in Seq(Short)
  BY Types DEF IInv, Jobs
<1>4. CASE JobEnd(n)
  <2>1. job' = [job EXCEPT ![n] = Idle] /\ Idle.batch = <<>>
    BY <1>4 DEF JobEnd, Idle
  <2>2. job'[n].batch = <<>> /\ \A k \in Node \ {n} : job'[k] = job[k]
    BY <1>3, <2>1
  <2>3. Batched'
    BY <1>1, <2>2, EmptyBatch, ShorterStep
  <2>4. QED  BY <1>1, <1>2, <2>3, SameThreadsStep, SameQueuesStep DEF KInv
<1>5. CASE JobSent(n)
  <2>1. job[n].batch # <<>>
    BY <1>5 DEF JobSent, IInv, Jobs, JobOK
  <2>2. Tail(job[n].batch) \in Seq(Short)
    BY <1>3, <2>1, TailType
  <2>3. job' = [job EXCEPT ![n] = [Idle EXCEPT !.pc = "next", !.batch = Tail(job[n].batch)]]
    BY <1>5 DEF JobSent
  <2>4. job'[n].batch = Tail(job[n].batch) /\ \A k \in Node \ {n} : job'[k] = job[k]
    BY <1>3, <2>3 DEF Idle
  <2>5. Batched'
    BY <1>1, <2>1, <2>2, <2>4, ShorterStep
  <2>6. QED  BY <1>1, <1>2, <2>5, SameThreadsStep, SameQueuesStep DEF KInv
<1>6. QED  BY <1>4, <1>5

(* The node that adds itself to the path of the head knows the message. *)
LEMMA KJobNext ==
    ASSUME IInv, KInv, NEW n \in Node, JobNext(n)  PROVE KInv'
<1> DEFINE im == Head(job[n].batch)
<1>1. [Next]_vars
  BY DEF Next, Work
<1>2. SameThreads /\ SameQueues
  BY ThreadFacts DEF JobNext, SameThreads, SameQueues, IInv, Threads
<1>3. job \in [Node -> JobType] /\ job[n] \in JobType /\ job[n].batch \in Seq(Short) /\ job[n].batch # <<>>
  BY Types DEF IInv, Jobs, JobNext
<1>4. PICK found \in Neighbors(n) :
        \/ /\ Unaware(found, im) = {}
           /\ job' = [job EXCEPT ![n].batch = Tail(@)]
        \/ /\ Unaware(found, im) # {}
           /\ job' = [job EXCEPT ![n].pc = "send",
                                 ![n].batch[1].paths = Extended(@, n),
                                 ![n].todo = Unaware(found, im)]
  BY DEF JobNext
<1>5. CASE Unaware(found, im) = {}
  <2>1. Tail(job[n].batch) \in Seq(Short)
    BY <1>3, TailType
  <2>2. job' = [job EXCEPT ![n].batch = Tail(@)]
    BY <1>4, <1>5
  <2>3. job'[n].batch = Tail(job[n].batch) /\ \A k \in Node \ {n} : job'[k] = job[k]
    BY <1>3, <2>2 DEF JobType
  <2>4. Batched'
    BY <1>1, <1>3, <2>1, <2>3, ShorterStep
  <2>5. QED  BY <1>1, <1>2, <2>4, SameThreadsStep, SameQueuesStep DEF KInv
<1>6. CASE Unaware(found, im) # {}
  <2> DEFINE b == job[n].batch
             longer == [b[1] EXCEPT !.paths = Extended(@, n)]
             u == Unaware(found, im)
  <2>1. b[1] \in Short /\ 1 \in 1..Len(b)
    BY <1>3, Elements
  <2>2. longer \in Short /\ longer.msg = b[1].msg /\ longer.paths = Extended(b[1].paths, n)
    BY <2>1, ExtendedType DEF Short, IMessage
  <2>3. Good(n, b[1])
    BY <2>1 DEF KInv, Batched
  <2>4. Good(n, longer)
    <3>1. Range(longer.paths) \subseteq Range(b[1].paths) \cup {n}
      BY <2>1, <2>2, ExtendedRange DEF Short, IMessage
    <3> HIDE DEF longer, b
    <3>2. QED  BY <2>2, <2>3, <3>1 DEF Good, PathKnows
  <2>5. job' = [job EXCEPT ![n] = [job[n] EXCEPT !.pc = "send",
                                                 !.batch = [b EXCEPT ![1] = longer], !.todo = u]]
    <3>1. job' = [job EXCEPT ![n].pc = "send",
                             ![n].batch[1].paths = Extended(@, n),
                             ![n].todo = Unaware(found, im)]
      BY <1>4, <1>6
    <3> HIDE DEF im
    <3>2. QED  BY <3>1, <1>3
  <2> HIDE DEF longer, u
  <2>6. job'[n].batch = [b EXCEPT ![1] = longer] /\ \A k \in Node \ {n} : job'[k] = job[k]
    BY <1>3, <2>5 DEF JobType
  <2> HIDE DEF b
  <2>7. ASSUME NEW i \in 1..Len(job'[n].batch)
        PROVE  \/ \E j \in 1..Len(b) : job'[n].batch[i] = b[j]
               \/ job'[n].batch[i] = longer
    <3>1. b \in Seq(Short)
      BY <1>3 DEF b
    <3>2. Len(job'[n].batch) = Len(b)
      BY <2>6, <3>1
    <3>3. QED  BY <2>6, <3>1, <3>2
  <2>8. ASSUME NEW i \in 1..Len(job'[n].batch), job'[n].batch[i] = longer
        PROVE  Good(n, job[n].batch[i])'
    <3>1. PICK m \in Short : m = longer
      BY <2>2
    <3>2. Good(n, m)'
      BY <1>1, <2>4, <3>1, GoodKept
    <3>3. QED  BY <2>8, <3>1, <3>2 DEF Good, PathKnows, Knows, Exist
  <2>9. Batched'
    BY <1>1, <2>6, <2>7, <2>8, BatchedStep DEF KInv, b
  <2>10. QED  BY <1>1, <1>2, <2>9, SameThreadsStep, SameQueuesStep DEF KInv
<1>7. QED  BY <1>4, <1>5, <1>6

(* The receiver of a request is not the sender: the message at its thread  *)
(* is the head of the sender's batch.                                      *)
LEMMA KSend ==
    ASSUME IInv, KInv, NEW n \in Node, NEW p \in Node, Deliver(n, p) \/ Fail(n, p) \/ Refuse(n, p)
    PROVE  KInv'
<1>1. [Next]_vars
  BY DEF Next, Work, Send
<1>2. SameQueues
  BY DEF Deliver, Fail, Refuse, SameQueues
<1>3. job \in [Node -> JobType] /\ JobOK(n)
  BY DEF IInv, Jobs
<1>4. SameJobs
  <2>1. PICK failed \in BOOLEAN : Asked(n, p, failed)
    BY DEF Deliver, Fail, Refuse
  <2>2. QED  BY <1>3, <2>1 DEF Asked, SameJobs, JobType
<1>5. Handled'
  <2>1. CASE Deliver(n, p)
    <3>1. n # p /\ job[n].batch # <<>>
      BY <1>3, <2>1 DEF Deliver, Asked, JobOK
    <3>2. job[n].batch \in Seq(Short)
      BY Types
    <3>3. PICK im \in Short : im = Head(job[n].batch)
      BY <3>1, <3>2, Elements
    <3>4. PathKnows(im)
      BY <3>1, <3>2, <3>3, Elements DEF KInv, Batched, Good
    <3>5. PathKnows(im)'
      BY <1>1, <3>4, PathKept
    <3>6. parse \in [Node \X Node -> ThreadType]
      BY DEF IInv, Threads
    <3>7. parse' = [parse EXCEPT ![<<n, p>>] = [pc |-> "check", im |-> im]]
      BY <2>1, <3>3 DEF Deliver
    <3>8. parse'[<<n, p>>].im = im /\ \A c \in Node \X Node : c # <<n, p>> => parse'[c] = parse[c]
      BY <3>6, <3>7
    <3>9. PathKnows(parse[<<n, p>>].im)'
      BY <3>5, <3>8 DEF PathKnows, Knows, Exist
    <3>10. QED  BY <1>1, <3>1, <3>8, <3>9, HandledStep DEF KInv
  <2>2. CASE Fail(n, p) \/ Refuse(n, p)
    BY <1>1, <2>2, ThreadFacts, SameThreadsStep DEF Fail, Refuse, SameThreads, IInv, Threads, KInv
  <2>3. QED  BY <2>1, <2>2
<1>6. QED  BY <1>1, <1>2, <1>4, <1>5, SameQueuesStep, SameJobsStep DEF KInv

(* A crash empties what the node has; nothing else changes any of it. *)
LEMMA KNode ==
    ASSUME IInv, KInv, NEW n \in Node, StopP2P(n) \/ StartP2P(n) \/ Crash(n)
    PROVE  KInv'
<1>1. [Next]_vars
  BY DEF Next
<1>2. CASE StopP2P(n) \/ StartP2P(n)
  <2>1. SameQueues /\ SameJobs /\ SameThreads
    BY <1>2, ThreadFacts DEF StopP2P, StartP2P, nodeVars, SameQueues, SameJobs, SameThreads, IInv, Threads
  <2>2. QED  BY <1>1, <2>1, SameQueuesStep, SameJobsStep, SameThreadsStep DEF KInv
<1>3. CASE Crash(n)
  <2>1. Queued'
    <3>1. \A k \in Node : queue'[k] = queue[k] \/ queue'[k] = <<>>
      BY <1>3 DEF Crash, IInv, Queues
    <3>2. QED  BY <1>1, <3>1, QueuedStep DEF KInv
  <2>2. Batched'
    <3>1. \A k \in Node : job'[k] = job[k] \/ job'[k].batch = <<>>
      BY <1>3 DEF Crash, Idle, IInv, Jobs
    <3>2. QED  BY <1>1, <3>1, BatchedStep DEF KInv
  <2>3. SameThreads
    BY <1>3, ThreadFacts DEF Crash, SameThreads, IInv, Threads
  <2>4. QED  BY <1>1, <2>1, <2>2, <2>3, SameThreadsStep DEF KInv
<1>4. QED  BY <1>2, <1>3

(* What is inductive with PathsKnow holds always. *)
LEMMA KnownAlways == Spec => []KInv
<1>1. IInv /\ KInv /\ [Next]_vars => KInv'
  <2> SUFFICES ASSUME IInv, KInv, [Next]_vars  PROVE KInv'
    OBVIOUS
  <2>1. CASE UNCHANGED vars
    <3>1. SameQueues /\ SameJobs /\ SameThreads
      BY <2>1, ThreadFacts DEF vars, nodeVars, SameQueues, SameJobs, SameThreads, IInv, Threads
    <3>2. QED  BY <3>1, SameQueuesStep, SameJobsStep, SameThreadsStep DEF KInv
  <2>2. CASE \E m \in Message : Post(m)
    BY <2>2, KPost
  <2>3. CASE \E c \in Node \X Node : Parse(c)
    BY <2>3, KParse
  <2>4. ASSUME NEW n \in Node, Work(n)  PROVE KInv'
    BY <2>4, KJobStart, KJobNext, KJobShrinks, KSend DEF Work, Send
  <2>5. ASSUME NEW n \in Node, StopP2P(n) \/ StartP2P(n) \/ Crash(n)  PROVE KInv'
    BY <2>5, KNode
  <2>6. QED  BY <2>1, <2>2, <2>3, <2>4, <2>5 DEF Next
<1>2. QED  BY <1>1, KInit, Invariance, PTL DEF Spec

(* For any network, messages and limit of the paths, whatever fails, stops *)
(* or crashes: wherever a message is on its way, in a queue, in a job or   *)
(* at a parse thread that received it, its author and every node on its    *)
(* path have the message or are about to store it, unless they have been   *)
(* started again since.  So whom O2Job_Broadcast leaves out when it        *)
(* forwards the message has no need of it.                                 *)
THEOREM PathsAreKnown == Spec => []PathsKnow
<1>1. IInv /\ KInv => PathsKnow
  <2> SUFFICES ASSUME IInv, KInv  PROVE PathsKnow
    OBVIOUS
  <2>1. ASSUME NEW c \in Node \X Node, c[1] # c[2], parse[c] # NoThread
        PROVE  PathKnows(parse[c].im)
    <3>1. parse[c].pc # "none"
      BY <2>1, Types DEF ThreadType
    <3>2. QED  BY <2>1, <3>1 DEF KInv, Handled
  <2>2. QED  BY <2>1 DEF PathsKnow, KInv, Queued, Batched, Good
<1>2. QED  BY <1>1, KnownAlways, Invariance, PTL

-----------------------------------------------------------------------------
(* As long as nothing has failed, whoever has a message, or is about to    *)
(* store it, has done with each of its neighbours, or has the message      *)
(* still in its queue or its batch.                                        *)
Owes(n, m) ==
    \/ Exist(n, m)
    \/ \E q \in Node : parse[<<q, n>>].pc = "store" /\ parse[<<q, n>>].im.msg = m

Reached(p, m) ==
    \/ Exist(p, m)
    \/ \E q \in Node :
          parse[<<q, p>>].pc \in {"check", "push", "store"} /\ parse[<<q, p>>].im.msg = m

Waits(n, m) == \E i \in 1..Len(queue[n]) : queue[n][i].msg = m

Sends(n, p, m) ==
    \E i \in 1..Len(job[n].batch) :
        /\ job[n].batch[i].msg = m
        /\ \/ job[n].pc = "next"
           \/ job[n].pc = "send" /\ (i > 1 \/ p \in job[n].todo)

Calm == \A n \in Node : active[n] /\ Peers[n] \subseteq peers[n] /\ job[n].bad = {}

Paid ==
    \A n \in Node : \A p \in Peers[n], m \in Message :
        Owes(n, m) => Reached(p, m) \/ Waits(n, m) \/ Sends(n, p, m)

SInv == faults = 0 => crashed = {} /\ Calm /\ Paid

SmallTables == \A n \in Node : Cardinality(peers[n]) <= PathLimit + 2

(* The steps of a network in which nothing has failed. *)
CleanStep ==
    \/ \E m \in Message : Post(m)
    \/ \E c \in Node \X Node : Parse(c)
    \/ \E n \in Node : JobStart(n) \/ JobNext(n) \/ JobEnd(n) \/ JobSent(n)
    \/ \E n, p \in Node : Deliver(n, p) /\ Asked(n, p, FALSE)
    \/ UNCHANGED vars

LEMMA FaultsGrow ==
    ASSUME IInv, [Next]_vars, faults' = 0
    PROVE  faults = 0
<1>1. faults \in Nat
  BY DEF IInv, Counts
<1>2. faults' = faults \/ faults' = faults + 1
  <2> DEFINE Same == faults' = faults \/ faults' = faults + 1
  <2>1. ASSUME NEW c \in Node \X Node, Parse(c)  PROVE Same
    BY <2>1 DEF Parse, ParseCheck, ParsePush, ParseStore, ParseTouch, nodeVars
  <2>2. ASSUME NEW n \in Node, Work(n)  PROVE Same
    BY <2>2 DEF Work, JobStart, JobNext, JobEnd, JobSent, Send, Deliver, Fail, Refuse, Fault, nodeVars
  <2>3. ASSUME NEW n \in Node, StopP2P(n) \/ StartP2P(n) \/ Crash(n)  PROVE Same
    BY <2>3 DEF StopP2P, StartP2P, Crash, Fault, nodeVars
  <2>4. ASSUME NEW m \in Message, Post(m)  PROVE Same
    BY <2>4 DEF Post, nodeVars
  <2>5. QED  BY <2>1, <2>2, <2>3, <2>4 DEF Next, vars
<1>3. QED  BY <1>1, <1>2

LEMMA Clean ==
    ASSUME IInv, Calm, [Next]_vars, faults = 0, faults' = 0
    PROVE  CleanStep
<1>1. ASSUME NEW n \in Node, StopP2P(n) \/ Crash(n)  PROVE FALSE
  BY <1>1 DEF StopP2P, Crash, Fault
<1>2. ASSUME NEW n \in Node, StartP2P(n)  PROVE FALSE
  BY <1>2 DEF StartP2P, Calm
<1>3. ASSUME NEW n \in Node, NEW p \in Node, Fail(n, p) \/ Refuse(n, p)  PROVE FALSE
  BY <1>3 DEF Fail, Refuse, Fault, Calm
<1>4. ASSUME NEW n \in Node, NEW p \in Node, Deliver(n, p)  PROVE Asked(n, p, FALSE)
  <2>1. ~Fault(p)
    BY DEF Fault
  <2>2. QED  BY <1>4, <2>1 DEF Deliver
<1>5. ASSUME NEW n \in Node, Work(n)  PROVE CleanStep
  BY <1>3, <1>4, <1>5 DEF Work, Send, CleanStep
<1>6. QED  BY <1>1, <1>2, <1>5 DEF Next, CleanStep

(* Nobody has crashed, stopped or failed to answer. *)
LEMMA CalmKept ==
    ASSUME IInv, crashed = {}, Calm, CleanStep
    PROVE  crashed' = {} /\ Calm'
<1>1. crashed' = crashed /\ active' = active
  BY DEF CleanStep, vars, nodeVars, Post, Parse, ParseCheck, ParsePush, ParseStore, ParseTouch,
     JobStart, JobNext, JobEnd, JobSent, Deliver
<1>2. ASSUME NEW n \in Node  PROVE Peers[n] \subseteq peers'[n]
  <2>1. peers' = peers
         \/ (\E c \in Node \X Node : peers' = [peers EXCEPT ![c[2]] = @ \cup {c[1]}])
         \/ (\E k \in Node : peers' = [peers EXCEPT ![k] = IF active[k] THEN @ \ job[k].bad ELSE @])
    BY DEF CleanStep, vars, nodeVars, Post, Parse, ParseCheck, ParsePush, ParseStore, ParseTouch,
       JobStart, JobNext, JobEnd, JobSent, Deliver
  <2>2. peers \in [Node -> SUBSET Node]
    BY DEF IInv, Tables
  <2>3. peers[n] \subseteq peers'[n]
    BY <2>1, <2>2 DEF Calm
  <2>4. QED  BY <2>3 DEF Calm
<1>3. ASSUME NEW n \in Node  PROVE job'[n].bad = {}
  <2>1. job \in [Node -> JobType] /\ job[n].bad = {} /\ Idle.bad = {}
    BY DEF IInv, Jobs, Calm, Idle
  <2>2. CASE job' = job
    BY <2>1, <2>2
  <2>3. ASSUME NEW k \in Node, JobStart(k) \/ JobEnd(k) \/ JobSent(k)  PROVE job'[n].bad = {}
    <3>1. CASE JobStart(k)
      BY <2>1, <3>1 DEF JobStart
    <3>2. CASE JobEnd(k)
      BY <2>1, <3>2 DEF JobEnd
    <3>3. CASE JobSent(k)
      BY <2>1, <3>3 DEF JobSent
    <3>4. QED  BY <2>3, <3>1, <3>2, <3>3
  <2>4. ASSUME NEW k \in Node, JobNext(k)  PROVE job'[n].bad = {}
    <3> DEFINE im == Head(job[k].batch)
    <3>1. PICK found \in Neighbors(k) :
            \/ job' = [job EXCEPT ![k].batch = Tail(@)]
            \/ job' = [job EXCEPT ![k].pc = "send",
                                  ![k].batch[1].paths = Extended(@, k),
                                  ![k].todo = Unaware(found, im)]
      BY <2>4 DEF JobNext
    <3> DEFINE u == Unaware(found, im)
    <3>2. CASE job' = [job EXCEPT ![k].batch = Tail(@)]
      BY <2>1, <3>2 DEF JobType
    <3>3. CASE job' = [job EXCEPT ![k].pc = "send",
                                  ![k].batch[1].paths = Extended(@, k),
                                  ![k].todo = u]
      <4> HIDE DEF u
      <4>1. CASE k = n
        <5>1. job'[n].bad = job[n].bad
          BY <2>1, <3>3, <4>1 DEF JobType
        <5>2. QED  BY <2>1, <5>1
      <4>2. CASE k # n
        BY <2>1, <3>3, <4>2
      <4>3. QED  BY <4>1, <4>2
    <3>4. QED  BY <3>1, <3>2, <3>3
  <2>5. ASSUME NEW k \in Node, NEW p \in Node, Asked(k, p, FALSE)  PROVE job'[n].bad = {}
    BY <2>1, <2>5 DEF Asked, JobType
  <2>6. \/ job' = job
        \/ \E k \in Node : JobStart(k) \/ JobNext(k) \/ JobEnd(k) \/ JobSent(k)
        \/ \E k, p \in Node : Asked(k, p, FALSE)
    BY DEF CleanStep, vars, nodeVars, Post, Parse, ParseCheck, ParsePush, ParseStore, ParseTouch
  <2>7. QED  BY <2>2, <2>3, <2>4, <2>5, <2>6
<1>4. QED  BY <1>1, <1>2, <1>3 DEF Calm

-----------------------------------------------------------------------------
(* What becomes of the thread of a request, of a queue and of a batch. *)

(* The thread goes on with its message until it is stored or known. *)
LEMMA ReachedKept ==
    ASSUME IInv, crashed' = {}, [Next]_vars, CleanStep, NEW p \in Node, NEW m \in Message,
           Reached(p, m)
    PROVE  Reached(p, m)'
<1>1. CASE Exist(p, m)
  BY <1>1, StoredKept DEF Reached
<1>2. ASSUME NEW q \in Node, parse[<<q, p>>].pc \in {"check", "push", "store"},
             parse[<<q, p>>].im.msg = m
      PROVE  Reached(p, m)'
  <2> DEFINE d == <<q, p>>
  <2>1. d \in Node \X Node /\ d[1] = q /\ d[2] = p /\ parse[d] \in ThreadType
        /\ parse \in [Node \X Node -> ThreadType]
    BY DEF IInv, Threads
  <2>2. CASE parse'[d] = parse[d]
    BY <1>2, <2>2 DEF Reached
  <2>3. CASE ParseCheck(d)
    <3>1. CASE Exist(p, m)
      BY <3>1, StoredKept DEF Reached
    <3>2. CASE ~Exist(p, m)
      <4>1. parse' = [parse EXCEPT ![d].pc = "push"]
        BY <1>2, <2>1, <2>3, <3>2 DEF ParseCheck
      <4>2. parse'[d].pc = "push" /\ parse'[d].im = parse[d].im
        BY <1>2, <2>1, <4>1, ThreadFacts DEF ThreadType
      <4>3. QED  BY <1>2, <4>2 DEF Reached
    <3>3. QED  BY <3>1, <3>2
  <2>4. CASE ParsePush(d)
    <3>1. parse' = [parse EXCEPT ![d].pc = "store"]
      BY <2>4 DEF ParsePush
    <3>2. parse'[d].pc = "store" /\ parse'[d].im = parse[d].im
      BY <1>2, <2>1, <3>1, ThreadFacts DEF ThreadType
    <3>3. QED  BY <1>2, <3>2 DEF Reached
  <2>5. CASE ParseStore(d)
    <3>1. parse[d].pc = "store"
      BY <2>5 DEF ParseStore
    <3>2. parse'[d] = parse[d] \/ Exist(p, m)'
      BY <1>2, <3>1, StoringKept
    <3>3. QED  BY <1>2, <3>2 DEF Reached
  <2>6. ~ParseTouch(d)
    BY <1>2 DEF ParseTouch
  <2>7. ASSUME NEW c \in Node \X Node, Parse(c), c # d  PROVE parse'[d] = parse[d]
    BY <2>1, <2>7 DEF Parse, ParseCheck, ParsePush, ParseStore, ParseTouch, Leave
  <2>8. ASSUME NEW l \in Message, Post(l)  PROVE parse'[d] = parse[d]
    BY <1>2, <2>1, <2>8, ThreadFacts DEF Post
  <2>9. ASSUME NEW k \in Node, NEW o \in Node, Deliver(k, o)  PROVE parse'[d] = parse[d]
    BY <1>2, <2>1, <2>9, ThreadFacts DEF Deliver
  <2>10. \/ parse' = parse
         \/ \E l \in Message : Post(l)
         \/ \E c \in Node \X Node : Parse(c)
         \/ \E k, o \in Node : Deliver(k, o)
    BY DEF CleanStep, vars, nodeVars, JobStart, JobNext, JobEnd, JobSent
  <2> HIDE DEF d
  <2>11. QED  BY <2>2, <2>3, <2>4, <2>5, <2>6, <2>7, <2>8, <2>9, <2>10 DEF Parse
<1>3. QED  BY <1>1, <1>2 DEF Reached

(* Who begins to owe has the message in its queue. *)
LEMMA OwesBefore ==
    ASSUME IInv, CleanStep, NEW n \in Node, NEW m \in Message, Owes(n, m)'
    PROVE  Owes(n, m) \/ Waits(n, m)'
<1>1. ASSUME Exist(n, m)', ~Exist(n, m)  PROVE Owes(n, m)
  <2>1. PICK c \in Node \X Node : ParseStore(c)
    BY <1>1 DEF Exist, CleanStep, vars, nodeVars, Post, Parse, ParseCheck, ParsePush, ParseTouch,
       JobStart, JobNext, JobEnd, JobSent, Deliver
  <2>2. c[2] = n /\ parse[c].im.msg = m
    BY <1>1, <2>1 DEF ParseStore, Exist, IInv, Stores
  <2>3. c[1] \in Node /\ c = <<c[1], n>>
    BY <2>2
  <2>4. QED  BY <2>1, <2>2, <2>3 DEF ParseStore, Owes
<1>2. ASSUME NEW q \in Node, parse'[<<q, n>>].pc = "store", parse'[<<q, n>>].im.msg = m
      PROVE  Owes(n, m) \/ Waits(n, m)'
  <2> DEFINE d == <<q, n>>
  <2>1. d \in Node \X Node /\ d[2] = n /\ parse[d] \in ThreadType
        /\ parse \in [Node \X Node -> ThreadType]
    BY DEF IInv, Threads
  <2>2. CASE parse'[d] = parse[d]
    BY <1>2, <2>2 DEF Owes
  <2>3. CASE ParsePush(d)
    <3>1. parse' = [parse EXCEPT ![d].pc = "store"] /\ parse[d].pc = "push"
          /\ queue' = [queue EXCEPT ![n] = Append(@, parse[d].im)]
      BY <2>1, <2>3 DEF ParsePush
    <3>2. parse'[d].im = parse[d].im /\ parse[d].im \in Short
      BY <2>1, <3>1, ThreadFacts DEF ThreadType
    <3>3. queue[n] \in Seq(Short) /\ queue'[n] = Append(queue[n], parse[d].im)
      BY <3>1 DEF IInv, Queues
    <3> HIDE DEF d
    <3>4. Len(queue[n]) + 1 \in 1..Len(queue'[n])
          /\ queue'[n][Len(queue[n]) + 1] = parse[d].im
      BY <3>2, <3>3
    <3>5. QED  BY <1>2, <3>2, <3>4 DEF Waits, d
  <2>4. ASSUME ParseCheck(d) \/ ParseStore(d) \/ ParseTouch(d)  PROVE FALSE
    <3>1. parse[d].pc # "none"
      BY <2>4 DEF ParseCheck, ParseStore, ParseTouch
    <3>2. parse' = [parse EXCEPT ![d].pc = "push"] \/ Leave(d) \/ parse' = [parse EXCEPT ![d] = NoThread]
      BY <2>4 DEF ParseCheck, ParseStore, ParseTouch
    <3>3. parse'[d].pc # "store"
      BY <2>1, <3>1, <3>2, ThreadFacts DEF Leave, ThreadType
    <3>4. QED  BY <1>2, <3>3
  <2>5. ASSUME NEW c \in Node \X Node, Parse(c), c # d  PROVE parse'[d] = parse[d]
    BY <2>1, <2>5 DEF Parse, ParseCheck, ParsePush, ParseStore, ParseTouch, Leave
  <2>6. ASSUME NEW l \in Message, Post(l)  PROVE parse'[d] = parse[d]
    BY <1>2, <2>1, <2>6 DEF Post
  <2>7. ASSUME NEW k \in Node, NEW o \in Node, Deliver(k, o)  PROVE parse'[d] = parse[d]
    BY <1>2, <2>1, <2>7 DEF Deliver
  <2>8. \/ parse' = parse
        \/ \E l \in Message : Post(l)
        \/ \E c \in Node \X Node : Parse(c)
        \/ \E k, o \in Node : Deliver(k, o)
    BY DEF CleanStep, vars, nodeVars, JobStart, JobNext, JobEnd, JobSent
  <2> HIDE DEF d
  <2>9. QED  BY <2>2, <2>3, <2>4, <2>5, <2>6, <2>7, <2>8 DEF Parse
<1>3. QED  BY <1>1, <1>2 DEF Owes

(* A message waits in the queue until the job takes it. *)
LEMMA WaitsKept ==
    ASSUME IInv, CleanStep, NEW n \in Node, NEW p \in Node, NEW m \in Message, Waits(n, m)
    PROVE  Waits(n, m)' \/ Sends(n, p, m)'
<1>1. PICK i \in 1..Len(queue[n]) : queue[n][i].msg = m
  BY DEF Waits
<1>2. queue[n] \in Seq(Short) /\ queue \in [Node -> Seq(Short)] /\ job \in [Node -> JobType]
  BY DEF IInv, Queues, Jobs
<1>3. CASE queue'[n] = queue[n]
  BY <1>1, <1>3 DEF Waits
<1>4. ASSUME NEW e \in Short, queue'[n] = Append(queue[n], e)  PROVE Waits(n, m)'
  <2>1. i \in 1..Len(queue'[n]) /\ queue'[n][i] = queue[n][i]
    BY <1>1, <1>2, <1>4
  <2>2. QED  BY <1>1, <2>1 DEF Waits
<1>5. CASE JobStart(n)
  <2>1. job' = [job EXCEPT ![n] = [Idle EXCEPT !.pc = "next", !.batch = queue[n]]]
    BY <1>5 DEF JobStart
  <2>2. job'[n].batch = queue[n] /\ job'[n].pc = "next"
    BY <1>2, <2>1 DEF Idle
  <2>3. QED  BY <1>1, <2>2 DEF Sends
<1>6. ASSUME NEW k \in Node, JobStart(k), k # n  PROVE queue'[n] = queue[n]
  BY <1>2, <1>6 DEF JobStart
<1>7. ASSUME NEW c \in Node \X Node, ParsePush(c)
      PROVE  queue'[n] = queue[n] \/ \E e \in Short : queue'[n] = Append(queue[n], e)
  <2>1. parse[c].im \in Short
    BY <1>7, Types DEF ParsePush
  <2>2. QED  BY <1>2, <1>7, <2>1 DEF ParsePush
<1>8. \/ queue' = queue
      \/ \E k \in Node : JobStart(k)
      \/ \E c \in Node \X Node : ParsePush(c)
  BY DEF CleanStep, vars, nodeVars, Post, Parse, ParseCheck, ParseStore, ParseTouch,
     JobNext, JobEnd, JobSent, Deliver
<1>9. QED  BY <1>3, <1>4, <1>5, <1>6, <1>7, <1>8

(* A message stays in the batch until it has been sent to the neighbour,   *)
(* or the neighbour has it: its author and those on its path do.           *)
LEMMA SendsKept ==
    ASSUME IInv, KInv, crashed = {}, crashed' = {}, Calm, SmallTables, [Next]_vars, CleanStep,
           NEW n \in Node, NEW p \in Peers[n], NEW m \in Message, Sends(n, p, m)
    PROVE  Sends(n, p, m)' \/ Reached(p, m)'
<1> DEFINE b == job[n].batch
<1>1. PICK i \in 1..Len(b) :
        /\ b[i].msg = m
        /\ job[n].pc = "next" \/ (job[n].pc = "send" /\ (i > 1 \/ p \in job[n].todo))
  BY DEF Sends
<1>2. /\ job \in [Node -> JobType] /\ job[n] \in JobType /\ b \in Seq(Short) /\ b # <<>>
      /\ p \in Node /\ p \in peers[n] /\ active[n]
  BY <1>1, Types, BroadcastAssumption DEF IInv, Jobs, Calm
<1>3. CASE job'[n] = job[n]
  BY <1>1, <1>3 DEF Sends
\* The head is gone, and is not the message.
<1>4. ASSUME job'[n].batch = Tail(b), job'[n].pc = "next", i > 1
      PROVE  Sends(n, p, m)'
  <2> HIDE DEF b
  <2>1. i - 1 \in 1..Len(Tail(b)) /\ Tail(b)[i - 1] = b[i]
    <3> HIDE DEF Short
    <3>1. QED  BY <1>2, <1>4
  <2>2. QED  BY <1>1, <1>4, <2>1 DEF Sends
\* The neighbour is known to have the message.
<1>5. ASSUME i = 1, p \notin Unaware(peers[n], Head(b))
      PROVE  Reached(p, m)'
  <2>1. Head(b) = b[1] /\ Head(b) \in Short
    BY <1>2, Elements
  <2>2. PathKnows(Head(b))
    BY <1>1, <1>5, <2>1 DEF KInv, Batched, Good
  <2>3. Knows(p, m)
    BY <1>1, <1>2, <1>5, <2>1, <2>2 DEF Unaware, PathKnows
  <2>4. Reached(p, m)
    BY <2>3 DEF Knows, Reached
  <2>5. QED  BY <1>2, <2>4, ReachedKept
<1>6. CASE JobStart(n)
  BY <1>1, <1>6 DEF JobStart
<1>7. CASE JobEnd(n)
  BY <1>1, <1>2, <1>7 DEF JobEnd
<1>8. CASE JobSent(n)
  <2>1. i > 1
    BY <1>1, <1>2, <1>8 DEF JobSent
  <2>2. job' = [job EXCEPT ![n] = [Idle EXCEPT !.pc = "next", !.batch = Tail(b)]]
    BY <1>8 DEF JobSent
  <2>3. job'[n].batch = Tail(b) /\ job'[n].pc = "next"
    BY <1>2, <2>2 DEF Idle
  <2>4. QED  BY <1>4, <2>1, <2>3
<1>9. CASE JobNext(n)
  <2> DEFINE im == Head(b)
             u == Unaware(peers[n], im)
  <2>1. Neighbors(n) = {peers[n]}
    BY DEF Neighbors, SmallTables
  <2>2. /\ job[n].pc = "next"
        /\ \/ u = {} /\ job' = [job EXCEPT ![n].batch = Tail(@)]
           \/ job' = [job EXCEPT ![n].pc = "send",
                                 ![n].batch[1].paths = Extended(@, n),
                                 ![n].todo = u]
    BY <1>9, <2>1 DEF JobNext
  <2>3. CASE u = {} /\ job' = [job EXCEPT ![n].batch = Tail(@)]
    <3>1. job'[n].batch = Tail(b) /\ job'[n].pc = "next"
      BY <1>2, <2>2, <2>3 DEF JobType
    <3>2. i = 1 \/ i > 1
      BY <1>2
    <3>3. QED  BY <1>4, <1>5, <2>3, <3>1, <3>2
  <2>4. CASE job' = [job EXCEPT ![n].pc = "send",
                                ![n].batch[1].paths = Extended(@, n),
                                ![n].todo = u]
    <3> DEFINE longer == [b[1] EXCEPT !.paths = Extended(@, n)]
    <3>1. b[1] \in Short /\ 1 \in 1..Len(b) /\ longer.msg = b[1].msg
      BY <1>2, Elements DEF Short, IMessage
    <3>2. job' = [job EXCEPT ![n] = [job[n] EXCEPT !.pc = "send",
                                                   !.batch = [b EXCEPT ![1] = longer], !.todo = u]]
      <4> HIDE DEF u
      <4>1. QED  BY <1>2, <2>4
    <3> HIDE DEF longer, u
    <3>3. job'[n].batch = [b EXCEPT ![1] = longer] /\ job'[n].pc = "send" /\ job'[n].todo = u
      BY <1>2, <3>2 DEF JobType
    <3> HIDE DEF b
    <3>4. /\ Len(job'[n].batch) = Len(b)
          /\ i = 1 => job'[n].batch[i] = longer
          /\ i # 1 => job'[n].batch[i] = b[i] /\ i > 1
      BY <1>2, <3>1, <3>3
    <3>5. job'[n].batch[i].msg = m /\ i \in 1..Len(job'[n].batch)
      BY <1>1, <3>1, <3>4
    <3>6. CASE i = 1 /\ p \notin u
      BY <1>5, <3>6 DEF u
    <3>7. CASE i > 1 \/ p \in u
      BY <3>3, <3>5, <3>7 DEF Sends
    <3>8. QED  BY <3>4, <3>6, <3>7
  <2>5. QED  BY <2>2, <2>3, <2>4
<1>10. ASSUME NEW o \in Node, Deliver(n, o), Asked(n, o, FALSE)
      PROVE  Sends(n, p, m)' \/ Reached(p, m)'
  <2>1. /\ job[n].pc = "send" /\ parse[<<n, o>>] = NoThread
        /\ job' = [job EXCEPT ![n].todo = @ \ {o}, ![n].bad = @]
        /\ parse' = [parse EXCEPT ![<<n, o>>] = [pc |-> "check", im |-> Head(b)]]
    BY <1>10 DEF Deliver, Asked
  <2>2. job'[n].batch = b /\ job'[n].pc = "send" /\ job'[n].todo = job[n].todo \ {o}
    BY <1>2, <2>1 DEF JobType
  <2>3. CASE i > 1 \/ p # o
    BY <1>1, <2>1, <2>2, <2>3 DEF Sends
  <2>4. CASE i = 1 /\ p = o
    <3>1. Head(b) = b[1]
      BY <1>2, Elements
    <3>2. parse'[<<n, p>>] = [pc |-> "check", im |-> b[1]]
      BY <2>1, <2>4, <3>1 DEF IInv, Threads
    <3>3. QED  BY <1>1, <2>4, <3>2 DEF Reached
  <2>5. i = 1 \/ i > 1
    BY <1>2
  <2>6. QED  BY <2>3, <2>4, <2>5
<1>11. \/ job'[n] = job[n]
       \/ JobStart(n) \/ JobEnd(n) \/ JobSent(n) \/ JobNext(n)
       \/ \E o \in Node : Deliver(n, o) /\ Asked(n, o, FALSE)
  <2>1. ASSUME NEW k \in Node, k # n, JobStart(k) \/ JobEnd(k) \/ JobSent(k)
        PROVE  job'[n] = job[n]
    BY <1>2, <2>1 DEF JobStart, JobEnd, JobSent
  <2>2. ASSUME NEW k \in Node, k # n, JobNext(k)  PROVE job'[n] = job[n]
    <3> DEFINE im == Head(job[k].batch)
    <3>1. PICK found \in Neighbors(k) :
            \/ job' = [job EXCEPT ![k].batch = Tail(@)]
            \/ job' = [job EXCEPT ![k].pc = "send",
                                  ![k].batch[1].paths = Extended(@, k),
                                  ![k].todo = Unaware(found, im)]
      BY <2>2 DEF JobNext
    <3> HIDE DEF im
    <3>2. QED  BY <1>2, <2>2, <3>1
  <2>3. ASSUME NEW k \in Node, k # n, NEW o \in Node, Asked(k, o, FALSE)  PROVE job'[n] = job[n]
    BY <1>2, <2>3 DEF Asked
  <2>4. \/ job' = job
        \/ \E k \in Node : JobStart(k) \/ JobNext(k) \/ JobEnd(k) \/ JobSent(k)
        \/ \E k, o \in Node : Deliver(k, o) /\ Asked(k, o, FALSE)
    BY DEF CleanStep, vars, nodeVars, Post, Parse, ParseCheck, ParsePush, ParseStore, ParseTouch
  <2>5. QED  BY <2>1, <2>2, <2>3, <2>4
<1>12. QED  BY <1>3, <1>6, <1>7, <1>8, <1>9, <1>10, <1>11

LEMMA PaidKept ==
    ASSUME IInv, KInv, crashed = {}, crashed' = {}, Calm, SmallTables, [Next]_vars, CleanStep, Paid
    PROVE  Paid'
<1> SUFFICES ASSUME NEW n \in Node, NEW p \in Peers[n], NEW m \in Message, Owes(n, m)'
             PROVE  Reached(p, m)' \/ Waits(n, m)' \/ Sends(n, p, m)'
  BY DEF Paid
<1>1. p \in Node
  BY BroadcastAssumption
<1>2. CASE Owes(n, m)
  <2>1. Reached(p, m) \/ Waits(n, m) \/ Sends(n, p, m)
    BY <1>2 DEF Paid
  <2>2. QED  BY <1>1, <2>1, ReachedKept, WaitsKept, SendsKept
<1>3. QED  BY <1>2, OwesBefore

(* When no routing table is larger than what neighbors returns of it, and  *)
(* nothing has failed and nothing is left to do, every neighbour of a node *)
(* that has a message has it too, whatever the network looks like: the     *)
(* nodes that O2Job_Broadcast leaves out had it, a parse thread that finds *)
(* the message in the database has it, and what has been queued is sent.   *)
THEOREM MessagesSpread == Spec /\ []SmallTables => []Spread
<1>1. Init => SInv
  <2> SUFFICES ASSUME Init  PROVE SInv
    OBVIOUS
  <2>1. Calm
    BY DEF Init, Calm, Idle
  <2>2. \A n \in Node, m \in Message : ~Owes(n, m)
    <3>1. \A n \in Node, m \in Message : ~Exist(n, m)
      BY DEF Init, Exist
    <3>2. \A q, n \in Node : parse[<<q, n>>].pc = "none"
      BY ThreadFacts DEF Init
    <3>3. QED  BY <3>1, <3>2 DEF Owes
  <2>3. Paid
    BY <2>2 DEF Paid
  <2>4. QED  BY <2>1, <2>3 DEF SInv, Init
<1>2. IInv /\ KInv /\ SmallTables /\ SInv /\ [Next]_vars => SInv'
  <2> SUFFICES ASSUME IInv, KInv, SmallTables, SInv, [Next]_vars, faults' = 0
               PROVE  crashed' = {} /\ Calm' /\ Paid'
    BY DEF SInv
  <2>1. faults = 0 /\ crashed = {} /\ Calm /\ Paid
    BY FaultsGrow DEF SInv
  <2>2. CleanStep
    BY <2>1, Clean
  <2>3. crashed' = {} /\ Calm'
    BY <2>1, <2>2, CalmKept
  <2>4. QED  BY <2>1, <2>2, <2>3, PaidKept
<1>3. IInv /\ SInv => Spread
  <2> SUFFICES ASSUME IInv, SInv, faults = 0, \A n \in Node : Quiet(n) /\ queue[n] = <<>>,
                      NEW n \in Node, NEW p \in Peers[n], NEW m \in Message, Exist(n, m)
               PROVE  Exist(p, m)
    BY DEF Spread
  <2>1. p \in Node
    BY BroadcastAssumption
  <2>2. Reached(p, m) \/ Waits(n, m) \/ Sends(n, p, m)
    BY DEF SInv, Paid, Owes
  <2>3. ~Waits(n, m)
    BY DEF Waits
  <2>4. ~Sends(n, p, m)
    BY DEF Sends, Quiet
  <2>5. QED  BY <2>1, <2>2, <2>3, <2>4, ThreadFacts DEF Reached, Quiet
<1>4. QED  BY <1>1, <1>2, <1>3, Invariance, KnownAlways, PTL DEF Spec

(* No routing table is that large in a network of PathLimit + 3 nodes.     *)
THEOREM SmallNetworkSpread ==
    ASSUME Cardinality(Node) <= PathLimit + 3
    PROVE  Spec => []Spread
<1>1. IInv => SmallTables
  <2> SUFFICES ASSUME IInv, NEW n \in Node  PROVE Cardinality(peers[n]) <= PathLimit + 2
    BY DEF SmallTables
  <2>1. IsFiniteSet(Node) /\ PathLimit \in Nat
    BY BroadcastAssumption
  <2>2. peers[n] \in SUBSET (Node \ {n})
    BY DEF IInv, Tables
  <2>3. /\ IsFiniteSet(Node \ {n})
        /\ Cardinality(Node \ {n}) = Cardinality(Node) - 1
        /\ Cardinality(Node) \in Nat
    BY <2>1, FS_RemoveElement, FS_CardinalityType
  <2>4. Cardinality(peers[n]) <= Cardinality(Node \ {n}) /\ Cardinality(peers[n]) \in Nat
    BY <2>2, <2>3, FS_Subset, FS_CardinalityType
  <2>5. QED  BY <2>1, <2>3, <2>4
<1>2. QED  BY <1>1, MessagesSpread, Invariance, PTL
=============================================================================
