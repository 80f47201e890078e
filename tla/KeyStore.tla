------------------------------ MODULE KeyStore ------------------------------
(***************************************************************************)
(* The keys of a node and the jobs that pass keys on.  A key says who has  *)
(* a dat.  Other nodes store keys here (STORE), KeyDB keeps as many as its *)
(* limit says, the nearest; O2Job_PublishKeys sends those that have been   *)
(* here for half an hour to the nodes nearest to them, and                 *)
(* O2Job_PublishOriginal the keys of this node's own dats every three      *)
(* hours.  They and the jobs that ask around (O2Job_NodeCollector,         *)
(* O2Job_AskCollection) treat the nodes alike: who answered is touched,    *)
(* who did not is removed, and then its keys - at the end of the pass.     *)
(*                                                                         *)
(* One node is followed.  Its table is small, so that all nodes in it are  *)
(* the nearest.  The other nodes go and come back, fail to answer or are   *)
(* too busy, and call at any time and any number of times.                 *)
(***************************************************************************)
EXTENDS Integers, FiniteSets, FiniteSetsExt

CONSTANTS
    Node,           \* the other nodes
    Self,           \* this one
    Key,            \* O2Key, without what can be said of it,
    Owner,          \* but whose it is
    Distance,       \* and O2Key::distance, from SelfNodeID
    Given,          \* the keys a node stores here when it calls
    Named,          \* the nodes a node names in answer to a FIND_NODE
    Known,          \* the nodes Node.xml has at the start
    Order,          \* of the nodes in nkmap and in a list of neighbours
    Limit,          \* of KeyDB at the start,
    Limits,         \* and what the user may set it to
    StartCount,     \* PUBLISH_START_NODE_COUNT
    PublishLimit,   \* PUBLISHNUM_PER_THREAD
    MaxThreads,     \* jobs and parse threads at work at a time and, both
    MaxEvents       \* bounds of the model, faults, stops and settings

Job == {"keys", "original", "ask"}

ASSUME KeyStoreAssumption ==
    /\ Self \notin Node /\ IsFiniteSet(Key)
    /\ Owner \in [Key -> Node \cup {Self}]
    /\ Distance \in [Key -> Nat]
    /\ Given \in [Node -> SUBSET Key]
    /\ Named \in [Node -> SUBSET (Node \cup {Self})]
    /\ Known \subseteq Node
    /\ Order \in [Node -> Nat] /\ \A m, n \in Node : Order[m] = Order[n] => m = n
    /\ Limits \subseteq Nat /\ Limit \in Limits
    /\ StartCount \in Nat /\ PublishLimit \in Nat \ {0} 
    /\ MaxThreads \in Nat /\ MaxEvents \in Nat

VARIABLES
    up,             \* the nodes that run
    table,          \* NodeDB
    keys, limit,    \* KeyDB,
    old,            \* and those of its keys that are older than PUBLISH_TT
    lastpublish,    \* of an own key, as the number of those published before it,
    due,            \* and the own keys for which it is older than PUBLISH_ORIGINAL_TT
    active,         \* of the jobs, between StartP2P and StopP2P
    job,            \* their threads
    parse,          \* the parse threads of STOREs, by caller
    taken,          \* the own keys some node has accepted in this pass or, not due, an earlier one
    events

vars == <<up, table, keys, limit, old, lastpublish, due, active, job, parse, taken, events>>
published == <<lastpublish, due, taken>>
world == <<up, limit, active, events>>

-----------------------------------------------------------------------------
Own == {k \in Key : Owner[k] = Self}

(* A pass over nodes: to be asked, being asked (pc is "out"), and those    *)
(* that have answered (their lastlink is set) or have not.  hashlist is    *)
(* what was accepted.                                                      *)
Pass == [pc : {"rest", "go", "out", "forget"}, todo : SUBSET Node, at : Node \cup {Self},
         batch : SUBSET Key, spoke : SUBSET Node, silent : SUBSET Node, hashlist : SUBSET Key]

Resting == [pc |-> "rest", todo |-> {}, at |-> Self, batch |-> {},
            spoke |-> {}, silent |-> {}, hashlist |-> {}]

Idle == [pc |-> "idle", todo |-> {}]
Touching == [pc |-> "touch", todo |-> {}]
Thread == {Idle, Touching} \cup [pc : {"import"}, todo : SUBSET Key]

TypeOK ==
    /\ up \subseteq Node /\ table \subseteq Node
    /\ keys \subseteq Key \ Own /\ old \subseteq keys
    /\ limit \in Limits
    /\ lastpublish \in [Own -> Nat] /\ due \subseteq Own /\ taken \subseteq Own
    /\ active \in BOOLEAN
    /\ job \in [Job -> Pass]
    /\ \A j \in Job : job[j].pc \in {"out", "forget"} => job[j].at \in Node
    /\ parse \in [Node -> Thread]
    /\ events \in 0..MaxEvents

Init ==
    /\ up = Node /\ table = Known
    /\ keys = {} /\ old = {} /\ limit = Limit
    /\ lastpublish = [k \in Own |-> 0] /\ due = Own /\ taken = {}
    /\ active = TRUE
    /\ job = [j \in Job |-> Resting]
    /\ parse = [n \in Node |-> Idle]
    /\ events = 0

Event == events < MaxEvents /\ events' = events + 1

Room == Cardinality({j \in Job : job[j].pc # "rest"})
            + Cardinality({n \in Node : parse[n] # Idle}) < MaxThreads

-----------------------------------------------------------------------------
(* KeyDB *)

(* The first n in an order in which which of two equals comes first is left*)
(* open.                                                                   *)
First(ks, n, order) ==
    {S \in SUBSET ks :
        /\ Cardinality(S) = IF Cardinality(ks) <= n THEN Cardinality(ks) ELSE n
        /\ \A k \in S, l \in ks \ S : order[k] <= order[l]}

(* Expire: the last in the order of distance goes until the rest is within *)
(* the limit.  Distances are lengths in bits.                              *)
\* Bug: it is the nearest that goes.
Expired_Nearest(ks, n) ==
    {S \in kSubset(Min({n, Cardinality(ks)}), ks) :
        \A k \in S, l \in ks \ S : Distance[l] <= Distance[k]}

Expired(ks, n) == First(ks, n, Distance)

(* SetLimit, from the options. *)
SetLimit(n) ==
    /\ Event
    /\ n # limit /\ limit' = n
    /\ \E S \in Expired(keys, n) : keys' = S /\ old' = old \cap S
    /\ UNCHANGED <<up, table, published, active, job, parse>>

(* A node calls with keys. *)
CallStore(n) ==
    /\ active /\ Room /\ n \in up /\ parse[n] = Idle
    /\ parse' = [parse EXCEPT ![n] = [pc |-> "import", todo |-> Given[n]]]
    /\ UNCHANGED <<table, keys, old, published, job, world>>

(* AddKey, for one key after another: CheckKey refuses the node's own, one *)
(* that is there is merged, and dated anew.  The limit is not looked at.   *)
AddKey(n, k) ==
    /\ k \in parse[n].todo
    /\ parse' = [parse EXCEPT ![n].todo = @ \ {k}]
    /\ IF k \in Own
         THEN UNCHANGED <<keys, old>>
         ELSE keys' = keys \cup {k} /\ old' = old \ {k}
    /\ UNCHANGED <<table, published, job, world>>

\* Bug: the limit is not looked at here either.
ImportEnds_Keeps(n) ==
    /\ parse[n] = [pc |-> "import", todo |-> {}]
    /\ parse' = [parse EXCEPT ![n] = Touching]
    /\ UNCHANGED <<table, keys, old, published, job, world>>

(* The end of ImportFromXML. *)
ImportEnds(n) ==
    /\ parse[n] = [pc |-> "import", todo |-> {}]
    /\ parse' = [parse EXCEPT ![n] = Touching]
    /\ \E S \in Expired(keys, limit) : keys' = S /\ old' = old \cap S
    /\ UNCHANGED <<table, published, job, world>>

(* ParseThread touches the caller last, whatever a job has found meanwhile.*)
ParseTouch(n) ==
    /\ parse[n] = Touching
    /\ parse' = [parse EXCEPT ![n] = Idle]
    /\ table' = table \cup {n}
    /\ UNCHANGED <<keys, old, published, job, world>>

-----------------------------------------------------------------------------
(* The jobs *)
Begin(ks) == [Resting EXCEPT !.pc = "go", !.todo = table, !.batch = ks]

MayBegin(j) == active /\ Room /\ job[j].pc = "rest" /\ table # {}

(* PublishKeys: all keys that are old enough, whenever they were sent      *)
(* last.  SakuKeyDB is empty, see the README.                              *)
PublishKeys ==
    /\ MayBegin("keys") /\ old # {}
    /\ job' = [job EXCEPT !["keys"] = Begin(old)]
    /\ UNCHANGED <<table, keys, old, published, parse, world>>

\* Bug: it takes any of them, not those that have waited longest.
PublishOriginal_Any ==
    /\ MayBegin("original") /\ due # {} /\ Cardinality(table) >= StartCount
    /\ \E S \in First(due, PublishLimit, [k \in Own |-> 0]) :
          job' = [job EXCEPT !["original"] = Begin(S)]
    /\ UNCHANGED <<table, keys, old, published, parse, world>>

(* PublishOriginal: what GetLocalFileKeys selects, by lastpublish and so   *)
(* many of it, once there are enough nodes.                                *)
PublishOriginal ==
    /\ MayBegin("original") /\ due # {} /\ Cardinality(table) >= StartCount
    /\ \E S \in First(due, PublishLimit, lastpublish) :
          job' = [job EXCEPT !["original"] = Begin(S)]
    /\ UNCHANGED <<table, keys, old, published, parse, world>>

(* NodeCollector, AskCollection *)
AskAround ==
    /\ MayBegin("ask")
    /\ job' = [job EXCEPT !["ask"] = Begin({})]
    /\ UNCHANGED <<table, keys, old, published, parse, world>>

Foremost(nodes, n) == n \in nodes /\ \A m \in nodes : Order[n] <= Order[m]

(* The next node is sent a request, *)
Send(j, n) ==
    /\ job[j].pc = "go" /\ active /\ Foremost(job[j].todo, n)
    /\ job' = [job EXCEPT ![j].pc = "out", ![j].at = n, ![j].todo = @ \ {n}]
    /\ UNCHANGED <<table, keys, old, published, parse, world>>

Spoke(j) == [job[j] EXCEPT !.pc = "go", !.at = Self, !.spoke = @ \cup {job[j].at}]

\* Bug: lastlink is not reset before the request.
Silent_KeepsLastlink(j) == Spoke(j)

Silent(j) == [job[j] EXCEPT !.pc = "go", !.at = Self, !.silent = @ \cup {job[j].at}]

(* and answers.  NodeCollector takes the nodes it names; what the other    *)
(* jobs sent has been accepted.                                            *)
Answered(j) ==
    /\ job[j].pc = "out" /\ job[j].at \in up
    /\ job' = [job EXCEPT ![j] = [Spoke(j) EXCEPT
                  !.hashlist = IF j = "original" /\ active THEN @ \cup job[j].batch ELSE @]]
    /\ taken' = IF j = "original" THEN taken \cup job[j].batch ELSE taken
    /\ \E S \in {{}, Named[job[j].at] \ {Self}} :
          /\ j # "ask" => S = {}
          /\ table' = table \cup S
    /\ UNCHANGED <<keys, old, lastpublish, due, parse, world>>

(* It is too busy (503): not removed, but nothing is accepted. *)
Refused(j) ==
    /\ job[j].pc = "out" /\ job[j].at \in up
    /\ job' = [job EXCEPT ![j] = Spoke(j)]
    /\ UNCHANGED <<table, keys, old, published, parse, world>>

(* It is not there, or the request or its answer is lost. *)
NotThere(j) ==
    /\ job[j].pc = "out" /\ job[j].at \notin up
    /\ job' = [job EXCEPT ![j] = Silent(j)]
    /\ UNCHANGED <<table, keys, old, published, parse, world>>

Lost(j) ==
    /\ job[j].pc = "out" /\ job[j].at \in up
    /\ Event
    /\ job' = [job EXCEPT ![j] = Silent(j)]
    /\ UNCHANGED <<up, table, keys, limit, old, published, active, parse>>

AllSent(j) == job[j].pc = "go" /\ active /\ job[j].todo = {}

(* The end of the pass: touch, *)
Touch(j, n) ==
    /\ AllSent(j) /\ n \in job[j].spoke
    /\ Foremost(job[j].spoke \cup job[j].silent, n)
    /\ table' = table \cup {n}
    /\ job' = [job EXCEPT ![j].spoke = @ \ {n}]
    /\ UNCHANGED <<keys, old, published, parse, world>>

(* or remove, whatever has come from the node since, *)
Remove(j, n) ==
    /\ AllSent(j) /\ n \in job[j].silent
    /\ Foremost(job[j].spoke \cup job[j].silent, n)
    /\ table' = table \ {n}
    /\ job' = [job EXCEPT ![j].pc = "forget", ![j].at = n, ![j].silent = @ \ {n}]
    /\ UNCHANGED <<keys, old, published, parse, world>>

(* and DeleteKeyByNodeID. *)
DeleteKeys(j) ==
    /\ job[j].pc = "forget"
    /\ keys' = {k \in keys : Owner[k] # job[j].at} /\ old' = old \cap keys'
    /\ job' = [job EXCEPT ![j].pc = "go", ![j].at = Self]
    /\ UNCHANGED <<table, published, parse, world>>

(* What any node has accepted gets its lastpublish, after a stop as well.  *)
Published(ks) ==
    [k \in Own |-> Cardinality({l \in Own \ ks : k \in ks \/ lastpublish[l] < lastpublish[k]})]

Finish(j) ==
    /\ job[j].pc = "go"
    /\ active => job[j].todo \cup job[j].spoke \cup job[j].silent = {}
    /\ due' = due \ job[j].hashlist
    /\ lastpublish' = Published(job[j].hashlist)
    /\ taken' = IF j = "original" THEN taken \ due' ELSE taken
    /\ job' = [job EXCEPT ![j] = Resting]
    /\ UNCHANGED <<table, keys, old, parse, world>>

JobStep(j) ==
    \/ \E n \in Node : Send(j, n) \/ Touch(j, n) \/ Remove(j, n)
    \/ DeleteKeys(j)
    \/ Answered(j) \/ Refused(j) \/ NotThere(j) \/ Lost(j)
    \/ Finish(j)

-----------------------------------------------------------------------------
(* Time: half an hour, three hours.  No pass takes as long.                *)
KeyGetsOld(k) ==
    /\ k \in keys \ old /\ old' = old \cup {k}
    /\ UNCHANGED <<table, keys, published, job, parse, world>>

OriginalsGetDue ==
    /\ job["original"].pc = "rest"
    /\ \E k \in Own \ due : due' = due \cup {l \in Own : lastpublish[l] <= lastpublish[k]}
    /\ taken' = taken \ due'
    /\ UNCHANGED <<table, keys, old, lastpublish, job, parse, world>>

Leave(n) ==
    /\ Event /\ n \in up /\ up' = up \ {n}
    /\ UNCHANGED <<table, keys, limit, old, published, active, job, parse>>

Return(n) ==
    /\ n \in Node \ up /\ up' = up \cup {n}
    /\ UNCHANGED <<table, keys, limit, old, published, active, job, parse, events>>

StopP2P ==
    /\ active /\ Event /\ active' = FALSE
    /\ UNCHANGED <<up, table, keys, limit, old, published, job, parse>>

(* StopP2P has waited for the jobs. *)
StartP2P ==
    /\ ~active /\ \A j \in Job : job[j].pc = "rest"
    /\ active' = TRUE
    /\ UNCHANGED <<up, table, keys, limit, old, published, job, parse, events>>

ParseStep(n) == ImportEnds(n) \/ ParseTouch(n) \/ \E k \in Key : AddKey(n, k)
Start == PublishKeys \/ PublishOriginal \/ AskAround

Next ==
    \/ \E n \in Node : CallStore(n) \/ ParseStep(n) \/ Leave(n) \/ Return(n)
    \/ \E j \in Job : JobStep(j)
    \/ \E n \in Limits : SetLimit(n)
    \/ Start
    \/ (\E k \in Key : KeyGetsOld(k)) \/ OriginalsGetDue
    \/ StopP2P \/ StartP2P

Spec == Init /\ [][Next]_vars

(* The program's threads and its clock go on.  Jobs do not wait for each   *)
(* other as MaxThreads makes them, hence the strong fairness.              *)
FairSpec ==
    /\ Spec
    /\ \A n \in Node : WF_vars(ParseStep(n))
    /\ \A j \in Job : WF_vars(JobStep(j))
    /\ SF_vars(PublishKeys) /\ SF_vars(PublishOriginal) /\ SF_vars(AskAround)
    /\ \A k \in Key \ Own : WF_vars(KeyGetsOld(k))
    /\ WF_vars(OriginalsGetDue)

-----------------------------------------------------------------------------
(* However many parse threads import keys at a time, and whatever limit is *)
(* set meanwhile, KeyDB is within its limit once they are done: each of    *)
(* them adds without a look at the limit and expires at its end            *)
(* (O2KeyDB::Expire).                                                      *)
Bounded == (\A n \in Node : parse[n].pc # "import") => Cardinality(keys) <= limit

(* A node that has left for good goes out of the table again whenever it   *)
(* has got into it: because another node still names it, because a job that*)
(* asked it before it left touches it now, or because of its last call.    *)
LeftNodesGo == \A n \in Node : <>[](active /\ n \notin up) => []<>(n \notin table)

(* A key that was accepted leaves KeyDB only when its owner has failed to  *)
(* answer a job, or when the limit is used up by keys as near or nearer.   *)
LeavesForReason ==
    [][\A k \in keys \ keys' :
          \/ \E j \in Job : job[j].pc = "forget" /\ job[j].at = Owner[k]
          \/ Cardinality(keys') = limit' /\ \A l \in keys' : Distance[l] <= Distance[k]]_vars

(* lastpublish is set only for keys that some node has accepted in this    *)
(* pass, not for those that were refused or not sent at all.               *)
DatedIsTaken == Own \ due \subseteq taken

(* A node that stays in the table and up is sent again and again every key *)
(* of an own dat, once enough nodes are known, and every key of others     *)
(* that stays; but not one of others that is stored here again and again,  *)
(* for it never gets old enough (and whoever stores it passes it on), and  *)
(* those of own dats may all wait behind some that no node ever accepts.   *)
Stays(k, n) ==
    /\ active /\ n \in up \cap table
    /\ IF k \in Own THEN Cardinality(table) >= StartCount ELSE k \in keys

Reaches(k, n) == \E j \in Job : job[j].pc = "out" /\ job[j].at = n /\ k \in job[j].batch

Renewed(k) == k \notin Own /\ \E n \in Node : k \in parse[n].todo

InVain == Finish("original") /\ job["original"].hashlist = {}

Spread ==
    \A k \in Key, n \in Node :
        <>[]Stays(k, n) =>
            []<>(Reaches(k, n) \/ Renewed(k)) \/ (k \in Own /\ []<><<InVain>>_vars)
=============================================================================
