------------------------------- MODULE Lookup -------------------------------
(***************************************************************************)
(* How a node finds and fetches a dat that is queried: O2Job_Search asks   *)
(* the nodes nearest to the dat's hash (FIND_VALUE) and the ones they name *)
(* until the nearest it knows have all been asked; the keys it is given    *)
(* (who has the dat) go to O2Job_QueryDat, which asks their owners.        *)
(*                                                                         *)
(* One query and its dat are followed.  A key is the node that owns it,    *)
(* and the other nodes are described by what they would answer: the keys   *)
(* of the dat they store, the nodes they name, whether they have the dat.  *)
(* Nodes go and come back; a node that is up may fail to answer or may be  *)
(* too busy; nodes call at any time, with keys to store; the other jobs    *)
(* and the user change the node table, too.  P2P is stopped and started    *)
(* while the jobs run.                                                     *)
(***************************************************************************)
EXTENDS Integers, FiniteSets, FiniteSetsExt

CONSTANTS
    Node,           \* the other nodes
    Self,           \* this one
    Distance,       \* of a node to the dat's hash
    Names,          \* the nodes a node names in answer to a FIND_VALUE or FINDNODE
    Stored,         \* the owners of the keys it stores, which come first
    Owner,          \* the nodes that have the dat
    Known,          \* the nodes Node.xml has at the start
    NeighborsLimit, \* as many neighbours are wanted
    NeighborsMost,  \* and as many may come
    RefineBorder, MaxSession,
    MaxEvents       \* changes, calls, faults and stops (a bound of the model)

ASSUME LookupAssumption ==
    /\ IsFiniteSet(Node) /\ Self \notin Node
    /\ Distance \in [Node -> Nat]
    /\ \A m, n \in Node : Distance[m] = Distance[n] => m = n
    /\ Names \in [Node -> SUBSET (Node \cup {Self})]
    /\ Stored \in [Node -> SUBSET Node]
    /\ Owner \subseteq Node /\ Known \subseteq Node
    /\ NeighborsLimit \in Nat \ {0} /\ MaxSession \in Nat /\ RefineBorder \in Nat
    /\ NeighborsMost \in Nat /\ NeighborsLimit <= NeighborsMost
    /\ NeighborsLimit <= MaxSession
    /\ NeighborsMost <= RefineBorder /\ MaxSession <= RefineBorder
    /\ MaxEvents \in Nat

VARIABLES
    up,             \* the nodes that run
    table,          \* NodeDB
    keys,           \* KeyDB: the owners of the keys of the dat
    wanted,         \* the query is in QueryDB and enabled
    active,         \* of the jobs, between StartP2P and StopP2P
    search,         \* O2Job_Search
    queue,          \* RequestQueue of O2Job_QueryDat
    fetch,          \* its thread
    got,            \* the dat has been fetched
    met,            \* the nodes in Node.xml and all that have answered or called
    events

vars == <<up, table, keys, wanted, active, search, queue, fetch, got, met, events>>
world == <<up, wanted, active, met, events>>

-----------------------------------------------------------------------------
(* Session: not there, under way, or given back by the client with what.   *)
SearchSession == {"none", "out", "ok", "fail"}
FetchSession == {"none", "out", "dat", "nodat", "busy", "fail"}

Resting == [pc |-> "rest", near |-> {}, asked |-> {}, found |-> {},
            session |-> [n \in Node |-> "none"]]
Idle == [pc |-> "rest", todo |-> {}, node |-> Self, session |-> "none", spoke |-> {}, silent |-> {}]

SearchState ==
    [pc : {"rest", "send", "wait", "done", "touch"}, near : SUBSET Node, asked : SUBSET Node,
     found : SUBSET Node, session : [Node -> SearchSession]]

FetchState ==
    [pc : {"rest", "ask", "tail"}, todo : SUBSET Node, node : Node \cup {Self},
     session : FetchSession, spoke : SUBSET Node, silent : SUBSET Node]

TypeOK ==
    /\ up \subseteq Node /\ table \subseteq Node /\ keys \subseteq Node /\ met \subseteq Node
    /\ wanted \in BOOLEAN /\ active \in BOOLEAN /\ got \in BOOLEAN
    /\ search \in SearchState
    /\ search.pc = "wait" => \A n \in Node : search.session[n] # "none" => n \in search.near
    /\ queue \subseteq Node
    /\ fetch \in FetchState
    /\ fetch.session # "none" => fetch.node \in Node
    /\ events \in 0..MaxEvents

Init ==
    /\ up = Node /\ table = Known /\ met = Known
    /\ keys = {} /\ wanted = TRUE /\ active = TRUE
    /\ search = Resting /\ queue = {} /\ fetch = Idle /\ got = FALSE
    /\ events = 0

-----------------------------------------------------------------------------
(* NodeDB->neighbors: as many nodes of the table as the limit wants.  What *)
(* is there of the last bucket is not cut to it, so there may be more; how *)
(* many, and which, depends on the buckets (see RoutingTable).             *)
Neighbors ==
    {S \in SUBSET table :
        Cardinality(S) \in Min({NeighborsLimit, Cardinality(table)})..NeighborsMost}

(* The list of the nodes that may be asked is sorted by distance whenever  *)
(* one comes in, so a set says the same; before the first one does, all of *)
(* it is within the border.                                                *)
Nearer(near, n) == {m \in near : Distance[m] < Distance[n]}
Beyond(near, n) == Cardinality(Nearer(near, n)) >= RefineBorder

Sessions == {n \in Node : search.session[n] # "none"}

(* A node is asked when it is within the border and has not been asked     *)
(* (lastlink is 0), the nearest first, while there are sessions left.      *)
ToAsk == {n \in search.near \ search.asked : ~Beyond(search.near, n)}
MaySend == active /\ ToAsk # {} /\ Cardinality(Sessions) < MaxSession

-----------------------------------------------------------------------------
(* O2Job_Search *)

(* A pass over the one query: the keys this node has itself, then whom to  *)
(* ask.  A query without neighbours is left, with the keys found.          *)
SearchStart ==
    /\ search.pc = "rest"
    /\ active /\ wanted /\ table # {}
    /\ \E S \in Neighbors :
          search' = [Resting EXCEPT !.pc = "send", !.near = S, !.found = keys]
    /\ UNCHANGED <<table, keys, queue, fetch, got, world>>

(* lastlink is set before the request is sent, or the node would be asked  *)
(* again while it has not answered.                                        *)
SearchSend(n) ==
    /\ search.pc = "send" /\ MaySend
    /\ n \in ToAsk /\ Nearer(ToAsk, n) = {}
    /\ search' = [search EXCEPT !.asked = @ \cup {n}, !.session[n] = "out"]
    /\ UNCHANGED <<table, keys, queue, fetch, got, world>>

(* All that could be sent has been; without a session the refining ends.   *)
SearchSent ==
    /\ search.pc = "send" /\ ~MaySend
    /\ search' = [search EXCEPT !.pc = IF Sessions = {} THEN "done" ELSE "wait"]
    /\ UNCHANGED <<table, keys, queue, fetch, got, world>>

(* What an answer brings: its keys, *)
\* Bug: only the first key is taken.
Keys_First(n) == {m \in Stored[n] : Nearer(Stored[n], m) = {}}

Keys(n) == Stored[n]

(* or its nodes, which come into the list unless they are there. *)
Refined(s, nodes) == [s EXCEPT !.near = @ \cup nodes, !.asked = @ \ (nodes \ s.near)]

(* A node that failed or had nothing to answer leaves the list, and may    *)
(* come in again when another names it.                                    *)
\* Bug: it stays, to be asked again.
Failed_Again(s, n) == [s EXCEPT !.asked = @ \ {n}]

Failed(s, n) == [s EXCEPT !.near = @ \ {n}]

Answered(s, n) ==
    IF s.session[n] = "fail" \/ (Stored[n] = {} /\ Names[n] = {})
      THEN Failed(s, n)
      ELSE IF Stored[n] # {}
             THEN [s EXCEPT !.found = @ \cup Keys(n)]
             ELSE Refined(s, Names[n] \ {Self})

(* One of the sessions given back is taken. *)
\* Bug: the refining ends with the last session, whoever its answer named.
SearchTake_LastEnds(n) ==
    /\ search.pc = "wait" /\ search.session[n] \in {"ok", "fail"}
    /\ search' = [Answered(search, n) EXCEPT !.session[n] = "none",
                     !.pc = IF active /\ Sessions # {n} THEN "send" ELSE "done"]
    /\ UNCHANGED <<table, keys, queue, fetch, got, world>>

SearchTake(n) ==
    /\ search.pc = "wait" /\ search.session[n] \in {"ok", "fail"}
    /\ search' = [Answered(search, n) EXCEPT !.session[n] = "none",
                                             !.pc = IF active THEN "send" ELSE "done"]
    /\ UNCHANGED <<table, keys, queue, fetch, got, world>>

\* Bug: the nodes are touched after a stop, too.
SearchDone_Touches ==
    /\ search.pc = "done" /\ \A n \in Node : search.session[n] # "out"
    /\ queue' = queue \cup search.found
    /\ search' = [search EXCEPT !.pc = "touch", !.found = {}, !.session = Resting.session]
    /\ UNCHANGED <<table, keys, fetch, got, world>>

(* Sessions that a stop has left are waited for; their answers are not     *)
(* looked at.  Then O2Job_QueryDat::AddRequest for every key.              *)
SearchDone ==
    /\ search.pc = "done" /\ \A n \in Node : search.session[n] # "out"
    /\ queue' = queue \cup search.found
    /\ search' = IF active THEN [search EXCEPT !.pc = "touch", !.found = {},
                                               !.session = Resting.session]
                           ELSE Resting
    /\ UNCHANGED <<table, keys, fetch, got, world>>

(* The nodes with a lastlink are touched, as far as a stop allows.         *)
SearchTouch ==
    /\ search.pc = "touch"
    /\ \E S \in SUBSET (search.near \cap search.asked) :
          /\ active => S = search.near \cap search.asked
          /\ table' = table \cup S
    /\ search' = Resting
    /\ UNCHANGED <<keys, queue, fetch, got, world>>

-----------------------------------------------------------------------------
(* O2Job_QueryDat.  The order of its requests does not matter: whichever   *)
(* comes next is asked.                                                    *)
FetchStart ==
    /\ fetch.pc = "rest"
    /\ active /\ queue # {}
    /\ fetch' = [Idle EXCEPT !.pc = "ask", !.todo = queue]
    /\ queue' = {}
    /\ UNCHANGED <<table, keys, search, got, world>>

FetchSend(n) ==
    /\ fetch.pc = "ask" /\ fetch.session = "none"
    /\ active /\ n \in fetch.todo
    /\ fetch' = [fetch EXCEPT !.todo = @ \ {n}, !.node = n, !.session = "out"]
    /\ UNCHANGED <<table, keys, search, queue, got, world>>

(* CheckResponse sets lastlink for any node that spoke, busy or without    *)
(* the dat.                                                                *)
FetchTake ==
    /\ fetch.pc = "ask" /\ fetch.session \notin {"none", "out"}
    /\ got' = (got \/ fetch.session = "dat")
    /\ fetch' = IF fetch.session = "fail"
                  THEN [fetch EXCEPT !.session = "none", !.node = Self, !.silent = @ \cup {fetch.node}]
                  ELSE [fetch EXCEPT !.session = "none", !.node = Self, !.spoke = @ \cup {fetch.node}]
    /\ UNCHANGED <<table, keys, search, queue, world>>

(* A stop loses the requests that are left. *)
FetchAsked ==
    /\ fetch.pc = "ask" /\ fetch.session = "none"
    /\ ~active \/ fetch.todo = {}
    /\ fetch' = [fetch EXCEPT !.pc = "tail", !.todo = {}]
    /\ UNCHANGED <<table, keys, search, queue, got, world>>

(* Then those that spoke are touched, the others forgotten with their      *)
(* keys, one after the other until a stop.                                 *)
FetchTouch(n) ==
    /\ fetch.pc = "tail" /\ active /\ n \in fetch.spoke
    /\ table' = table \cup {n}
    /\ fetch' = [fetch EXCEPT !.spoke = @ \ {n}]
    /\ UNCHANGED <<keys, search, queue, got, world>>

FetchForget(n) ==
    /\ fetch.pc = "tail" /\ active /\ n \in fetch.silent
    /\ table' = table \ {n} /\ keys' = keys \ {n}
    /\ fetch' = [fetch EXCEPT !.silent = @ \ {n}]
    /\ UNCHANGED <<search, queue, got, world>>

FetchEnd ==
    /\ fetch.pc = "tail" /\ (~active \/ fetch.spoke \cup fetch.silent = {})
    /\ fetch' = Idle
    /\ UNCHANGED <<table, keys, search, queue, got, world>>

-----------------------------------------------------------------------------
(* The client gives each session back (EveryRequestAnswered of Client).    *)
Event == events < MaxEvents /\ events' = events + 1

(* A node that is up answers,                                              *)
AnswerSearch(n) ==
    /\ search.session[n] = "out" /\ n \in up
    /\ search' = [search EXCEPT !.session[n] = "ok"]
    /\ met' = met \cup {n}
    /\ UNCHANGED <<up, table, keys, wanted, active, queue, fetch, got, events>>

AnswerFetch ==
    /\ fetch.session = "out" /\ fetch.node \in up
    /\ fetch' = [fetch EXCEPT !.session = IF fetch.node \in Owner THEN "dat" ELSE "nodat"]
    /\ met' = met \cup {fetch.node}
    /\ UNCHANGED <<up, table, keys, wanted, active, search, queue, got, events>>

(* the client gives up on one that is not,                                 *)
GiveUpSearch(n) ==
    /\ search.session[n] = "out" /\ n \notin up
    /\ search' = [search EXCEPT !.session[n] = "fail"]
    /\ UNCHANGED <<table, keys, queue, fetch, got, world>>

GiveUpFetch ==
    /\ fetch.session = "out" /\ fetch.node \notin up
    /\ fetch' = [fetch EXCEPT !.session = "fail"]
    /\ UNCHANGED <<table, keys, search, queue, got, world>>

(* and sometimes the answer is lost, or is 503.                            *)
Fault ==
    /\ Event
    /\ \/ \E n \in up : /\ search.session[n] = "out"
                        /\ search' = [search EXCEPT !.session[n] = "fail"]
                        /\ UNCHANGED <<fetch, met>>
       \/ /\ fetch.session = "out" /\ fetch.node \in up
          /\ \/ fetch' = [fetch EXCEPT !.session = "fail"] /\ UNCHANGED met
             \/ /\ fetch' = [fetch EXCEPT !.session = "busy"]
                /\ met' = met \cup {fetch.node}
          /\ UNCHANGED search
    /\ UNCHANGED <<up, table, keys, wanted, active, queue, got>>

-----------------------------------------------------------------------------
(* A node calls: whatever it asks of this one, it is touched at the end.   *)
(* With STORE it brings keys; AddKey takes none of this node's own.        *)
Call(n) ==
    /\ active /\ n \in up
    /\ Event
    /\ table' = table \cup {n} /\ met' = met \cup {n}
    /\ keys' \in {keys, keys \cup Stored[n]}
    /\ UNCHANGED <<up, wanted, active, search, queue, fetch, got>>

(* O2Job_NodeCollector asks nodes of the table, too; all those that the    *)
(* answer names are touched at once, untried.  (It and the other jobs that *)
(* touch a node which has answered are like a call of that node.)          *)
Collect(n) ==
    /\ n \in table \cap up
    /\ Event
    /\ table' = table \cup (Names[n] \ {Self}) /\ met' = met \cup {n}
    /\ UNCHANGED <<up, keys, wanted, active, search, queue, fetch, got>>

(* A node that has not answered such a job is forgotten with its keys, the *)
(* last one while StopP2P waits for the job.                               *)
Forget(n) ==
    /\ n \in table
    /\ Event
    /\ table' = table \ {n} /\ keys' = keys \ {n}
    /\ UNCHANGED <<up, wanted, active, search, queue, fetch, got, met>>

(* On the administration page the user gives nodes that are added untried. *)
UserAdds(n) ==
    /\ n \notin table
    /\ Event
    /\ table' = table \cup {n}
    /\ UNCHANGED <<up, keys, wanted, active, search, queue, fetch, got, met>>

ComeOrGo(n) ==
    /\ Event
    /\ up' = IF n \in up THEN up \ {n} ELSE up \cup {n}
    /\ UNCHANGED <<table, keys, wanted, active, search, queue, fetch, got, met>>

(* The user switches the query off, and on. *)
SwitchQuery ==
    /\ Event
    /\ wanted' = ~wanted
    /\ UNCHANGED <<up, table, keys, active, search, queue, fetch, got, met>>

(* StopP2P deactivates the jobs and waits until they rest. *)
StopP2P ==
    /\ active
    /\ Event
    /\ active' = FALSE
    /\ UNCHANGED <<up, table, keys, wanted, search, queue, fetch, got, met>>

StartP2P ==
    /\ ~active /\ search.pc = "rest" /\ fetch.pc = "rest"
    /\ active' = TRUE
    /\ UNCHANGED <<up, table, keys, wanted, search, queue, fetch, got, met, events>>

-----------------------------------------------------------------------------
Search ==
    \/ SearchStart \/ SearchSent
    \/ \E n \in Node : SearchSend(n) \/ SearchTake(n)
    \/ SearchDone \/ SearchTouch

Fetch ==
    \/ FetchStart \/ FetchTake \/ FetchAsked \/ FetchEnd
    \/ \E n \in Node : FetchSend(n) \/ FetchTouch(n) \/ FetchForget(n)

Next ==
    \/ Search \/ Fetch
    \/ \E n \in Node : AnswerSearch(n) \/ GiveUpSearch(n) \/ Call(n) \/ ComeOrGo(n)
    \/ \E n \in Node : Collect(n) \/ Forget(n) \/ UserAdds(n)
    \/ AnswerFetch \/ GiveUpFetch \/ Fault
    \/ SwitchQuery \/ StopP2P \/ StartP2P

Spec == Init /\ [][Next]_vars

(* The scheduler starts a resting job again (ActiveJobRuns of Scheduler),  *)
(* a thread goes on, and a request is answered or given up.                *)
Fairness ==
    /\ WF_vars(Search) /\ WF_vars(Fetch)
    /\ \A n \in Node : WF_vars(AnswerSearch(n) \/ GiveUpSearch(n))
    /\ WF_vars(AnswerFetch \/ GiveUpFetch)

FairSpec == Spec /\ Fairness

-----------------------------------------------------------------------------
(* When the refining ends, every node that a living node on the way has    *)
(* named has been asked, unless RefineBorder of the others are nearer.     *)
(* (The list changes under the loop: nodes leave it, come in and come      *)
(* again.)                                                                 *)
AskedNearest ==
    search.pc = "touch" =>
      \A m \in search.near \cap search.asked :
        Stored[m] = {} => \A n \in Names[m] \ {Self} : n \in search.asked \/ Beyond(search.near, n)

(* A node comes into the table because it has answered or called, because  *)
(* a node that answered the collector named it, or because the user gave   *)
(* it.  So the search brings in none of those it has only been told of: a  *)
(* lastlink that it set ahead of an answer which never came does not       *)
(* count, not even when a stop cuts the pass short.                        *)
Newcomer(n) ==
    \/ n \in met'
    \/ \E m \in Node : Collect(m) /\ n \in Names[m]
    \/ UserAdds(n)

NewcomersMet == [][\A n \in Node : n \in table' \ table => Newcomer(n)]_vars

(* A pass of the search ends, however often nodes fail and are named again. *)
PassEnds == search.pc # "rest" ~> search.pc = "rest"

(* The dat can be fetched: some node that is up is always among the        *)
(* neighbours, and every node that is up either has the key of an owner    *)
(* that is up or names a node that is up and nearer.                       *)
Reachable ==
    /\ \A S \in Neighbors : S \cap up # {}
    /\ \A n \in up : IF Stored[n] = {}
                       THEN \E m \in Names[n] \cap up : Distance[m] < Distance[n]
                       ELSE Stored[n] \cap Owner \cap up # {}

(* What is queried and can be fetched is fetched in the end. *)
Fetched == <>[](active /\ wanted /\ Reachable) => <>got
=============================================================================
