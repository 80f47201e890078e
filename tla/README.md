# o2on in TLA+

o2on is a node of a peer-to-peer network, written in C++, whose nodes share the
thread files ("dats") of 2ch bulletin boards. It finds nodes and keys by Kademlia
lookups, answers other nodes over HTTP, serves the user's browser as a proxy, and
is run from an admin page. This directory holds TLA+ models of its core, the TLC
configurations that check them, and proofs checked by TLAPS. Paths below are
relative to `src/o2on/src.o2on/` unless they start with `src/`.

`tlc -config X.cfg M` repeats a run, `tlapm MProofs.tla` a proof. `PROJECT.json`
says for each definition which lines it models, for each property which bug of the
code would break it (the operators marked `Bug:` in the modules), and lists the
hazards the properties are for.

## 1. Inventory

### 1.1 Components

| Component | State | Operations | Used by | Status |
|---|---|---|---|---|
| `O2Client`, `O2Client_HTTP`, `O2SocketSession` | request queue, connecting set `connectss`, connected list `sss`, two events, `Active` | `AddRequest`, `Wait`, `Start`, `Stop`; launch, connection and network threads | every job, admin server | modelled: `Client` |
| `O2Server`, `O2Server_HTTP` (three instances: P2P, proxy, admin) | session map, event, counts, `Active` | `Start`, `Stop`; listen, filtering, network and parse threads | peers, browser | `Server` |
| `O2Scheduler`, `O2Job`, `O2Agent` | jobs with `Active`, `Working`, `LastTime`, `Interval` | `Add`, `Start`, `Stop`; scheduler and job threads | main | modelled: `Scheduler` |
| `KademliaKBucket`, `KademliaRoutingTable`, `O2NodeDB` | 160 buckets with a lock each, list of port-0 nodes, own node | `touch`, `remove`, `neighbors`; load, save, export | parse threads, jobs, admin | `RoutingTable` (not the files) |
| `O2Job_Broadcast`, `BroadcastDB` | queue, messages | `Add`, the job, `AddMessage`, `Exist` | parse threads, jobs | `Broadcast` |
| `O2Job_Search`, `O2Job_QueryDat` | nodes still to ask, sessions; requests | `JobThreadFunc`, `AddRequest` | scheduler | `Lookup` |
| `O2KeyDB` as KeyDB; `O2Job_PublishKeys`, `PublishOriginal`, `NodeCollector`, `AskCollection` | keys by id and hash, limit; what a pass has sent | add, delete, expire; the passes | P2P server, scheduler | `KeyStore` |
| `O2KeyDB` as QueryDB, `O2LagQueryQueue` | queries, their file; queries waiting to be registered | add, delete, activate, save, load; the Checker | proxy, admin, main | modelled: `QueryStore` |
| `O2DatIO`, `O2DatDB`, `O2DatPath` | dat files, SQLite rows, update queue, rebuild | `Put`, `Load`, `Delete`, update thread, rebuild, reindex | proxy, P2P, jobs, main | modelled: `DatCache`, `Program` |
| `main.cpp` | `Active`, dialogs, timers, flags | messages, menus, `StartP2P`, `StopP2P`, suspend, `FinalizeApp` and its thread | user, system | `Program` |
| `O2Job_GetGlobalIP` | – | deactivates itself | scheduler | in `Scheduler` |
| handlers of the three servers, `O2Protocol*`, `httpheader` | none | parsing, replies | parse threads | with the stores they change |
| `O2IMDB` as IMDB, `O2FriendDB`, `O2Boards`, `SearchFriends`, `DatCollector` | a list under a lock each | add, delete, limit, save | P2P, admin, jobs | not modelled, see 7 |
| `O2IPFilter` | ordered records | filtering | servers | verdict a choice in `Server` |
| `O2Profile`, `O2Logger`, `O2ReportMaker`, performance counter | settings, logs | get, set, save | all | no control of their own |
| platform layer, `wxmain.cpp`, browser, admin pages, babel, build, `src/opy2on` | – | – | – | not modelled |

### 1.2 Interaction

The three servers and the agent (scheduler and client) run in one process. A job
thread makes a request in a session object on its stack, gives its address to the
client (`AddRequest`) and waits on the event in it (`Wait`); the client's threads
pass the address on, and the one that finishes the session sets the event, after
which the object may be gone. A server's network thread owns the sessions in a map;
a parse thread gets a session when its request is complete and gives it back by
`SetCanDelete(true)`. Parse threads and jobs meet in the stores, each of which has
a lock of its own; nothing locks two stores together. The window thread starts and
stops the P2P server and the scheduler at any time (`StopP2P`, `main.cpp:3009`);
a thread that has something to show sends a message to it and waits. The final
shutdown, in a thread of its own, stops rebuild, P2P server, jobs, client, proxy,
admin, in that order, saves the stores and deletes everything (`main.cpp:797-920`).

The models meet in what one promises and the next assumes: `Client` answers each
request (`EveryRequestAnswered`), so that a request is one step with an answer in
`Broadcast`, `Lookup` and `KeyStore`; `Scheduler` runs an active job again and again
(`ActiveJobRuns`), so that a resting job may be taken as starting in these; `Server` and
`Scheduler` return from Stop when their threads do, which is what `Program`
keeps of them; `RoutingTable` says what `neighbors` returns.

### 1.3 What is hard, and what makes each component correct

* **Client.** Wake-ups: an event is reset when a list is empty, under the lock of the
  list, while others push. Ownership: an address is with exactly one thread at any
  time, and with its owner alone once the event is set. Timeouts race answers. Stop
  closes sockets under threads that use them. Right when every request is answered
  exactly once, and Stop returns.
* **Server.** The same two lists with other rules: the network thread deletes sessions
  and so must not while a parse thread has one; filtering threads are detached and
  count themselves; Stop, then Start, meets what the first run left. Right when each
  session object has one owner and is deleted once, replies are whole, every session
  ends, Stop returns.
* **Scheduler.** The fields of a job are read one at a time. Right when a job never
  runs twice at once, none runs after Stop, and an active one runs again and again.
* **Routing table.** Lookups go from bucket to bucket while others change them; two
  orders of identifiers are in use; nodes change address and identifier. Right when
  each node is where a lookup looks for it and lookups return near nodes and miss none.
* **Broadcast.** Nodes forward to all but the known; the path remembers four nodes; whether a
  message is new is asked and recorded in two calls; everything may fail or crash.
  Right when a message reaches all, and comes to rest.
* **Lookup.** The list of nodes to ask changes under the loop; a node's `lastlink` is set
  before it is asked; P2P is stopped in the middle. Right when a pass ends, has asked
  the nearest nodes there are, and what is queried and can be fetched is fetched.
* **Key store.** `AddKey` ignores the limit, the limit changes meanwhile, and who did not
  answer is removed at the end of a pass, while other passes and calls of the node overlap.
  Right when the limit holds, no key goes without a reason, nodes that have left go out of
  the table, and every key is sent again and again.
* **Query store.** Savers overlap, the file is emptied before it is written, the shutdown
  deletes in an order of its own. Right when the user finds his queries, and no
  others, after every end and crash.
* **Dat cache.** `Put` looks, compares and writes in separate steps; the row follows
  through a queue; the database is exchanged under both. Right when a file holds what was put
  there, its row claims no more than that, and no file is forgotten.
* **Program.** Menus that are out of date, dialogs over dialogs, threads that wait for the
  window thread. Right when `Active` tells the truth, P2P resumes after a suspend, the
  menu comes back, and the program ends when told to.

## 2. Modules

| Module | Role | Extended by |
|---|---|---|
| `RequestService` | what the client promises, without threads | instantiated by `Client` |
| `Client` | the client and its requesters | `MCClient`, `ClientProofs` |
| `Server` | one server, its connections, Stop and Start | `MCServer`, `ServerProofs` |
| `Scheduler` | scheduler, job threads, Stop and Start | `MCScheduler`, `ProgramProofs` |
| `RoutingTable` | the table, threads that change it, a lookup | `MCRoutingTable`, `RoutingTableProofs` |
| `Broadcast` | several nodes, their jobs, parse threads and the requests between them | `MCBroadcast`, `BroadcastProofs` |
| `Lookup` | a query, the search and the fetching job, the nodes they ask | `MCLookup`, `LookupProofs` |
| `KeyStore` | KeyDB and three jobs that treat nodes alike, the nodes around | `MCKeyStore`, `StoreProofs` |
| `QueryStore` | QueryDB, the Checker, the savers, the file, shutdown and crash | `MCQueryStore`, `QueryStoreProofs` |
| `DatCache` | files, rows, update queue, rebuild | `MCDatCache`, `StoreProofs` |
| `Program` | window thread, suspend, database tasks, the end | `MCProgram`, `ProgramProofs` |

Common decisions:

* A step is a section of code that holds a lock, or one access to shared data without
  it. Reads that are used later are kept in a variable (`fds`, `cursor`, `ahead`,
  `todo`, `batch`, `size`, the text of a save).
* Addresses of objects are members of a set: `Session` is what `new`, or the stack,
  can return, and is used again when the object is gone. Use after deletion and a
  second deletion are thus visible.
* Time is a flag: `stale` (of `Client` and `Server`), `timer`, `due`, `old` say that the
  interval has passed; a step of its own sets them at any moment.
* History variables say what the code does not record and a property needs, and change no
  behaviour: `steady`, `met`, `taken`, `owed`, `again`, `crossed`, `asked` with `stale` and
  `dropped` (of `QueryStore`), and `late`, `torn`, `ghost`, `lost` (of `DatCache`).
* The build modelled is the Windows one: recursive mutexes, manual-reset events,
  `WaitForSingleObject` on thread handles. The POSIX half is unfinished: the constructor
  in `event.hpp:78-89` calls itself, `LockTest` in `mutex.hpp:79-85` always succeeds, and
  the tests of `errno == EAGAIN` in `O2Client.cpp:729,776` and `O2Server.cpp:799,844` are
  the wrong way round.
* Sending and receiving end, fail, or move a piece, as often as the peer likes; each piece
  puts the timeout off (`O2Client.cpp:751`, `O2Server.cpp:773`).

### 2.1 Client

`queue`, `queueSignal`, `connectss`, `sss`, `sessionSignal`, `active` are the members;
`ss` the session objects; `req` says where each owner is, `launch`, `conn`, `netio`,
`stop` where each thread is. `AddRequest*` and `Collect` are the owner's, `Launch*` is
`LaunchThread`, `Conn*` `ConnectionThread`, `NetIO*` `NetIOThread` (its loop over `sss`
one session at a time, the lock released in between, `cursor` being the list iterator),
`Stop*` the statements of `Stop`. Two accesses come when the session may be its owner's again:
`ConnLog`, the read of its address for the log (`O2Client.cpp:587-589`), and
`StopCloseConnecting`, which reads and closes the socket of whatever is in `connectss`. Initially the client has been started and nobody has
made a request; nothing calls `Restart`.

`Late` are the owners that may still be waiting when Stop is called: the shutdown stops the
jobs before the client but the admin server after it (`main.cpp:810-822`).

### 2.2 Server

`listen` with `accepted` and `full`, `filter` with `filterCount`, `netio` with `cursor`,
`ahead`, `hand`, `parse` and `stop` are the threads; `sss` is the map and `ss` the
objects. The filtering thread reads its session once more for the log, after it has inserted it
(`FilterExit`, `O2Server.cpp:1064-1075`). `Answers503` selects the P2P server's `OnSessionLimit`, which inserts the
session with a 503 in place of closing it; the runs use it. `ShowsBalloon` lets a parse
thread wait in `SendMessage` for the window thread, as `O2Server_HTTP_P2P.hpp:437`
does; only `server_live` uses it. The reply itself, the counters, and the rejection of a
second connection from one address (turned off for all servers, `main.cpp:620,632,655`) are
left out, and a socket handle is never taken for another's. Behind `SetCanDelete` a parse thread
still touches NodeDB and lowers a count that is only displayed, which is none of the state here: the
touch is `Touch` of `RoutingTable`, `ParseTouch` of `KeyStore`.

### 2.3 Scheduler

The scheduler's test of a job is four steps, `Visit`, `TestWorking`, `TestDue`,
`Launch`, because the four reads lock separately. `JobDone` and `JobLast` end a job
thread: `SetWorking(false)`, then `SetLastTime`. `Reactivate` is the window thread's
`SetActive(true)` before it starts the scheduler again.

### 2.4 Routing table

Identifiers are sets of one-bits, so that distance is symmetric difference. The bucket
of a node is the highest bit of its distance when byte 19 is most significant
(`hash_xor_bitlength`), and `pick` sorts by `operator<` of `hashT`, for which byte 0 is.
`Touch`, `TouchPort0`, `RemoveNode` and `SetSelf` are taken by any thread between any two
buckets of a lookup (`WalkBegin` to `WalkReturn`). `steady` is a history variable: the
identifiers in the table since the lookup began. Of a node only identifier and address
are kept.

### 2.5 Broadcast

`parse[<<p, n>>]` is the thread at `n` that handles a request of `p` (with `p = n` the one
of the admin server that posts): it asks `Exist`, queues, stores, and touches the
sender. The job takes the queue (`JobStart`) and sends each message to whoever
`Unaware` leaves (`JobNext`, `Deliver`, `Fail`, `Refuse`), then removes those that
failed (`JobSent`). `Neighbors` is what `RoutingTable` says of `neighbors`: all nodes,
when there are few. Nodes stop, start and crash. Nobody sets a limit on `BroadcastDB`, so
that `Expire` (`O2IMDB.cpp:54-64`) removes nothing from it.

### 2.6 Lookup

One query and its dat. A key is the node that owns it; the other nodes are what they
would answer: `Stored` keys, or the nodes they `Names`. `search` is one pass of
`O2Job_Search`: the list `near`, of at most `NeighborsMost` nodes at the start since `pick` may overshoot
the limit (`KademliaKBucket.hpp:207-212`), of which `asked` have a `lastlink`, a session per node,
the keys `found`. The list is sorted whenever a node comes in, so that a set with
`Distance` says the same. `fetch` is `O2Job_QueryDat` with one session, `queue` its requests.
Nodes go, come, call and bring keys; requests fail or are refused; P2P is stopped and started.
The other writers of NodeDB are there too: `Collect`, the import of NodeCollector, which touches every node
that an answer names (`O2NodeDB.cpp:642`), `Forget`, the jobs that remove who did not answer, and
`UserAdds`, the admin page.

### 2.7 Key store

The STORE of a node is a parse thread that adds its keys one at a time (`AddKey`), expires
at the end (`ImportEnds`), and touches the caller last (`ParseTouch`). A job's pass is a
list of nodes taken at its start, those that `spoke` and those that were `silent`, who are
touched or removed (`Remove`, then `DeleteKeys`, which are two locks) at its end. `old` are the keys of others
that are to be sent, `due` the node's own; of these a pass takes `PublishLimit`
(`PUBLISHNUM_PER_THREAD`, 500) in the order of `lastpublish`, which is kept as a rank. That `lastpublish`
gets into the database through the update queue (`DatCache`) is left out. All nodes of the small table are
the nearest; which of two keys at the same bit length from the node goes first is left
open. Title, address and size of a key are left out, and the choice between two versions of
one (`marge`).

### 2.8 Query store

`lag` is LagQueryQueue with the age of each entry, `chk` the Checker, `save[t]` a thread
in `Save` with the text it has made: under the lock (`SaveExport`), then the file opened and
emptied (`SaveOpen`), then written (`SaveWrite`). `asked` is what the user should find;
`stale` says that the file may be behind: a text was made while another was being
written, or a save failed or was cut off. `phase` follows `FinalizeAppThread`, which
deletes QueryDB before it stops the Checker: `UseAfterDelete` is a crash like others. `SetLimit` is
the options dialog, at any time and in either direction: it drops what is over the limit and saves
the profile, not the queries (`main.cpp:1285`). `Load` runs under `DefaultLimit`; the profile's limit is set after it.

### 2.9 Dat cache

A file is the sequence of its blocks, each with the version of the dat it is from, since
other nodes may send another text under the same name. `PutStat`, `PutLoad`,
`PutWrite`, `PutQueue` are the four accesses of `Put`; `Delete` is two; `Update*` the
thread that takes the queue; `Rebuild*` the thread that reads the directories into a new
database, renames the old and the new one, and starts `UpdateThread` again. SQLite is a
table of rows that may fail, in `Delete` and in a rebuild's insertions too, whose callers do not look
(`O2DatIO.cpp:582,1205,1454`); and a write may fall short on a full disk (`PutShort`, `UpdateQueue` is told of
the whole part all the same). The windows that the code leaves are named by history
variables: `late` (another thread wrote the file between this one's look and its write),
`torn` (the dat of such a write or of a short one, or one deleted while something about it was on its way),
`ghost` (its row could not be removed with its file), `lost` (its entry went with a crash or an error; or,
`missed` by a rebuild's insertion, at the exchange of the databases). The run follows a dat until it is torn.

### 2.10 Program

`stack` is the stack of calls of the window thread: a menu, a message box, the options,
StopP2P, StartP2P, ChangeTrayIcon, a `StopRebuildDB` that waits, FinalizeApp. What is on top decides which
messages are taken (`Handles`, `HandlesPosted`). ChangeTrayIcon, which the icon timer, an emergency halt, StartP2P and
StopP2P call, stops and starts P2P itself when nobody has connected for five minutes, no job looks for the
global address and it has not done so for ten minutes (`recent`, `main.cpp:2742-2760`); StartP2P and StopP2P call it before they set Active (2991,
3026), so that a restart can be nested in either. `worker` are the threads that Stop waits
for, which may be in `SendMessage`; `rebuild` and `reindex` the database tasks; `fin`
where `FinalizeAppThread` is. `life = "fallen"` is the use of something deleted, after
which nothing is modelled. Assumed: automatic resuming is on; the user does not close the
progress dialog by force; opening a port is a start that may fail; the message box of such a
failure is a message box on the stack like the others. Port 0, with which StartP2P starts no server,
a change of the proxy's or the admin server's port, which restarts that server, and the few statements of a parse
thread behind `SetCanDelete` are left out.

## 3. Runs

| Run | Configuration | Checks | Shows |
|---|---|---|---|
| `client` | 2 requests, one with high priority, one owner late, 1 connection thread | `OneHolder`, `NoLostWakeUp`, `Implements`, `StopReturns`, `EveryRequestAnswered` | nothing is lost, answered twice, or changed after its owner has it back; no wake-up is lost; Stop at any moment; the client implements `RequestService`; every request is answered, but for a peer that drips or a thread that has ended |
| `server_safety` | 2 connections, 2 filtering threads, limit 1, Stop and a second Start | `SessionsOwned`, `ReplyComplete`, `NothingLeftBehind` | session objects have one owner, are not deleted under a parse thread; a connection whose request has come is cut off only for the named reasons; nothing works after Stop |
| `server_live` | 1 connection at a time, 2 filtering threads, any number of pieces, balloons | `EverySessionEnds`, `StopReturns` | sessions end and Stop returns, outside the windows and the deadlock of 3.2 |
| `scheduler` | 2 jobs, one stopping itself, 2 Starts | `JobsInHand`, `ActiveJobRuns`, `StopReturns` | see 1.3 |
| `routing_table` | 2 bytes of 2 bits, 9 nodes, 3 targets, K = 2, limit 2 | `TableSound`, `FoundIsNearer`, `NothingMissed` | nodes are in their buckets, lookups return the nearest buckets and miss nothing |
| `broadcast` | author and a ring of 3, path of 1, 2 events at one node | `PathsKnow`, `Spread`, `Settles` | see 1.3 |
| `lookup` | 3 nodes in a row, a key that is stale, 2 events | `AskedNearest`, `NewcomersMet`, `PassEnds`, `Fetched` | see 1.3; the search brings nobody into the table who has not answered |
| `key_store` | 2 nodes, 2 keys of theirs and 2 own ones, limit 0 or 1, 3 jobs, 1 fault at a time | `Bounded`, `LeavesForReason`, `LeftNodesGo`, `Spread` | see 1.3 |
| `query_store` | 2 queries, 2 admin threads, limits 1 and 2 | `Kept`, `StaysOff`, `Registered` | see 1.3, unless saves overlapped or a crash met one |
| `dat_cache` | 1 dat of 2 blocks in 2 versions, a proxy and a node thread, 2 rare events | `CacheTypeOK`, `StoredAsGiven`, `RowNotAhead`, `NothingForgotten`, `Recorded` | see 1.3, outside the named windows |
| `program` | 1 parse thread, 1 job, 3 events, 2 posted messages | `TypeOK`, `ActiveTells`, `Resumes`, `ExitEnds`, `MenuReturns` | see 1.3, outside the named windows |
| `program_stop` | the same | `StopStops` | violated, see 5 |

### 3.1 Bounds

* Two sessions suffice for the lists: one at the cursor and one that is inserted,
  deleted, or has its address reused meanwhile. In `client` one connection thread serves
  two requests, so that they also wait for each other. Two filtering threads: one that is
  ending and one that has started.
* Pieces are not bounded: a transfer that moves one returns the session to the scan with a new timer.
* Stop once and Start twice: what is left behind by the first run meets the second.
* `SessionLimit` 1 with two connections: one over the limit.
* Two bytes of two bits distinguish the two orders of identifiers, which one byte would
  not. `K` and the limit of 2 are exceeded by the four candidates of one bucket.
* `PathLimit` 1 on a ring of three forgets what the limit of 4 forgets on a ring of six.
  Two events at node `n3`: lost request, lost answer, 503, stop, crash, or a post.
  `MaxCopies` 2 means "more than one".
* `MaxLate` 2 threads of a job between their two last writes.
* `lookup`: the farthest node names the middle one, that one the nearest, which stores a
  good key and a stale one: two rounds of refining and two fetches. Border and sessions are 2 of 3
  nodes, and neighbours 1 or 2 (limit and overshoot), so that each is met. Two events: a node that
  leaves and comes back, a stop in the middle of a failure, or an import of the collector beside one.
* `key_store`: each node gives the other's key, as often as it likes, of which `Limit` 1 admits one; it may be set
  to 0. `PublishLimit` 1 of two own keys, so that one waits. `MaxEvents` 1: one departure, lost request, stop
  of P2P or limit; returns and starts are free. `MaxThreads` 2: any two passes or imports overlap, not all five. Because of
  that bound the jobs wait for room, so their starts are strongly fair.
* `query_store`: two queries and limits 1 and 2, so that one is dropped when the limit is lowered and comes back from the file
  when it is raised, by `SetLimit`, `Load` and restart; `DefaultLimit` 2 holds both, as 3000 does in the code. Two visits, edits and rare events: an edit during another's
  save, with a crash and a restart.
* `dat_cache`: parts of one block or two begin at the start or in the middle; the
  quota of 3 with clusters of 2 is passed by the second block.
* `program`: three events from each of the states in which `InitializeApp` leaves P2P: among
  them a suspend that is refused and asked for again, a task asked for twice, a balloon or a restart by the icon
  during the stop of a suspend. Two posted messages: one before another.

Symmetry is used in `server_safety`, whose sessions and filtering threads the constants do not
tell apart, and in no run with a liveness property. `CHECK_DEADLOCK FALSE`: the systems stop, when
stopped, when nobody posts, or when the bounded events are over.

### 3.2 Fairness

Weak fairness for each thread of the program, which is what a preemptive scheduler
gives; for the passing of time (`Expire`, `Tick`, `FiveSeconds`, `KeyGetsOld`,
`OriginalsGetDue`); and for the owner of a request, who does nothing but wait for it. Beyond that:

* `Broadcast`: one thread of all goes on; `Settles` needs no more.
* `Lookup`, `KeyStore`: a resting job starts again (`ActiveJobRuns` of `Scheduler`), a
  request is answered or given up (`EveryRequestAnswered` of `Client`; so these two, `Broadcast` and `Program`
  lean on peers that do not drip: one that does can hold a pass, or a Stop, for as long as it likes).
* `Program`: the window thread takes its messages in turn; what a worker does ends,
  for the same reasons. A menu, a dialog, a message box need never be answered.

Never for requests, connections, failures, posts, nodes that come or go, or calls of Stop
and Start by the user.

Some properties name the window in which the code does not have them; of the first three,
`StopIsHeard`, both `NoOtherStandstill`, `StuckForGood` and `NeverOversleeps` (section 4) show
that there is no other:

* `StopReturns` (client, server): a thread that found its component active and is about
  to reset the event when Stop sets it sleeps for ever. (`O2Client.cpp:634-641`,
  `O2Server.cpp:689-705`.)
* `Deadlocked` (server), `Stuck` (program): a thread that shows a balloon while the window
  thread is in Stop waits for it (`O2Server_HTTP_P2P.hpp:437`, `O2Protocol_Dat.hpp:246`), and
  it for the thread. The properties except this state by name.
* `OneHolder` (client), `SessionsOwned` (server): for changes. A session is read, and by the client's Stop closed,
  when it is no longer the thread's own (2.1, 2.2); what is read there goes into a log line, or is closed.
* `Drips` (client, server): a peer that sends a piece again and again, each before the scan that finds its time up, keeps its
  request or session for ever. `EverySessionEnds` and `EveryRequestAnswered` except it, and since `Expire` is fair, nothing else that
  merely lasts.
* `EverySessionEnds` (server): with one Start. In a second run a session inserted just
  before the event is switched off can sleep until the next connection. Not for those with 503.
* `EveryRequestAnswered`: not for a request left in the list of a thread that has ended with Stop (`LeftBehind`,
  `O2Client.cpp:338`), nor for one of low priority while requests of high priority keep coming, which are put before it.
* `ReplyComplete` (server): a reply that took longer than `timeout_s` to make may be thrown away when it is complete, since the
  time of its making counts (`O2Server.cpp:861-865`), and a 503 at any time. Nothing else cuts off a connection
  whose request has come.
* `Spread` (broadcast): when nothing fails. Nothing is sent again.
* `Spread` (key store): a key of others that is stored here again and again never gets old enough to be sent (`Renewed`,
  `O2KeyDB.cpp:334`); and own keys may wait behind 500 that no node ever accepts (`InVain`).
* `NewcomersMet` (lookup): for what the search and the calls bring in. The collector's import does not ask.
* `Kept`, `StaysOff` (query store): after the file was `stale`, what it has is what the user is left with. Queries `dropped` over
  a limit come back at a start when nothing was saved since; the limit keeps the nearest, so none gives way to them.
* `StoredAsGiven`, `RowNotAhead`, `NothingForgotten`, `Recorded` (dat cache): outside `late`, `torn`, `lost`; `RowNotAhead` outside `ghost` too.
* `ActiveTells` (program): not after a StartP2P or StopP2P in the middle of which the icon restarted P2P (`crossed`).
* `ExitEnds` (program): unless a dialog closed too early lets the window thread out of
  FinalizeApp (`LetOut`, `main.cpp:783`). `MenuReturns`: unless a task is asked for while its
  thread is still there (`again`, `O2DatIO.cpp:1001`), or the root of the cache cannot be read, when the thread
  returns without a word to its dialog (`LeftOpen`, `O2DatIO.cpp:1138`).

## 4. Proofs

All are for every value of the constants that the named assumptions admit: any
finite or infinite set of sessions and threads where no count is kept, identifiers of any
length, any number of jobs, nodes and keys. TLC evaluates the assumptions in the runs.

* **`ClientProofs`.** `OneHolder` is not inductive: that a session is finished only by the
  thread that holds it, and with its socket released, depends on what is known of the object at
  each place where it is held. `Inv` adds `Fresh` (a session nobody has connected is as its
  owner made it), `Opened` (one in the list was connected, the one in NetIOThread's hands is
  closed) and `HandFull` (when NetIOThread has one in its hands). From it follow
  `EachRequestHeldOnce`, `IteratorValid`, `NoSocketLeft`; `NothingLost`, that the event of
  either list is set, or about to be, when there is work in it; and
  `ClientImplementsService`, the refinement, one step of the client at a time (`NextService`).
  The safety part of `StopReturns` is proved apart. `Heard` says that neither thread is about to
  reset its event and that Stop's signal, once sent, is there for a thread that waits:
  `StopIsHeard`, that it begins with a Stop outside the window and is never lost. `StopInv` (a session
  in `connectss` has a thread that connects it, Active is cleared by Stop only) gives
  `NoOtherStandstill`: in every state of Stop a thread can go on, or `Overslept`, which `Heard` excludes.
  Its assumption is that a connection thread can be started at all.
* **`ServerProofs`.** `IInv` says where a session object can be and what is known of it
  there: `Counted` (the filtering threads), `Hands` and `Cursor` (NetIOThread's), `Phases`
  (what Stop has waited for), `Owners` (one owner, a fresh object at the filter, a served one at
  its parse thread), `Judged`, `Emptied` (what is in the map of a stopped server was turned away). `OneOwner`
  needs all of them: an object is not deleted twice because the one at the cursor is in the map, which
  it is because nobody else erases. `OwnedOnce`, `ParsedIsKept`, `OwnedAndKept`,
  `IteratorValid`, `RepliesWhole`, `StoppedClean`. The safety parts of `EverySessionEnds` and of
  `StopReturns` follow. `Awake`: who is to be served has NetIOThread's event set, or a filtering thread about
  to set it. It is no invariant, since Start resets the event; `WakeUpsKept`, an
  action property, says that nothing else takes it away (`ResetByStart`), and `NeverOversleeps` that in the first
  run it always holds. `NoOtherStandstill`: while Stop has not returned one of the threads can go on, except
  when `Deadlocked` or `Overslept`. It needs of `IInv` where the lock of the map can be held, and that
  who is counted is a thread that has not ended.
* **`ProgramProofs`.** Of `Program`, whose `ActiveTells` holds outside of StartP2P and StopP2P only, `InStep` says
  what holds inside, by the innermost call of the window thread's stack: in the middle of one, how far it has got
  (`HalfWay`), and otherwise that server and scheduler are `Even` and that Active has `Told` so. A restart by the icon
  comes between two steps of the call that it is nested in and leaves it at a place where nothing is claimed of Active
  (`crossed`); `Covered` says which calls can have others above them. `Busy`
  says that who works can work. `InStep` is claimed until FinalizeApp begins, whose thread
  calls StopP2P beside the window thread. `TypeCorrect`, `ActiveKnows`.
  `StuckForGood` says that `Stuck`, which the liveness properties except, is what its name says: by `InStep`
  the thread that shows the balloon is one that this StopP2P waits for, and whatever else moves, no step gets past
  it, nor is FinalizeApp called. `ExitNeverStuck` is the safety part of `ExitEnds`; with `InExit` (FinalizeApp
  is on the stack while its thread is there, whatever is pushed above it) each state of the end has somebody who
  can go on, or is `LetOut`.
  Of `Scheduler`, which Program starts and stops (hence its `SchedulerSpec`, `SchedulerTypeOK`: one
  module extends both): `SchedulerInv` adds to `OneThreadPerJob` that the scheduler between its
  test of Working and the launch looks at a job that is not working (only the scheduler
  sets it), and that the thread handle tells whether the thread lives. `NeverTwoThreads`,
  `QuietWhenStopped`, `AlwaysInHand`, `SchedulerTypeCorrect`; and `StopWaitsForFewer`, of the wait behind
  the join: the jobs at work only become fewer.
* **`RoutingTableProofs`.** `IInv` is `TypeOK`, `TableSound` and `WalkOrder`: the buckets still to
  visit are those that the target's bits leave. The argument is in two lemmas on
  identifiers, `VisitedIsNearer` and `SelfIsNearer`: for any bucket before and any after,
  every identifier of the first is nearer to the target. `TypeCorrect`, `TableStaysSound`, `NearestBucketsFirst`.
  `LookupMissesNothing` is `NothingMissed`. `MInv` says it of every place of the walk: whoever was in a
  visited bucket when the lookup came there, and in the table ever since, is in the list, or the list is
  full of nodes nearer to the target or of that bucket. `pick` is defined by taking the nearest that is left
  again and again; that there is a nearest is shown from the well-foundedness of the naturals
  (`Least`), not by induction.
* **`LookupProofs`.** `AskedNearest` is about the end of the refining and needs what holds in
  the middle of it: `Complete` (what a node that has answered named is in the list, or was
  asked before it left it), `Held` (a session is of a node of the list that was asked), and
  `Settled` (nothing within the border is left to ask when the sending is over). `OnlyMet`, an action
  property since the collector puts unknown nodes into the same table, needs `Linked` and `Spoke`: of the nodes in the list only
  those stay asked that have answered, so that what the search touches has shown up. `Rested` says that a pass leaves nothing. `NearestAsked`, `OnlyMet`.
* **`StoreProofs`.** Of `DatCache` (hence its `CacheSpec`, `CacheTypeOK`: one module extends both stores), for any
  number of threads in Put, dats, deletions, rebuilds, errors and crashes. `RowNotAhead` is not inductive: a
  size in a row was before in the update queue, a list of UpdateThread or of the rebuild, the new database, or a thread's
  hands, so `AllSound` says of all these places that the file holds as much. That a write takes nothing from a file
  rests on `Writing`: a thread that is not `late` has seen the file as it is, up to the end at which it writes. `Found` follows
  a rebuild: a file still to come to, in its list, in the new database, or with an entry that comes later; which needs of
  `Phases` that the queue is not taken meanwhile; or it is one of those an insertion has `missed`, which the exchange turns into
  `lost`. Crash, deletion and a short write need their windows only: whatever
  they disturb is in `torn`, `ghost` or `lost` in the same step. `CacheTypeCorrect`, `PartsStored`, `RowsNotAhead`,
  `NoFileForgotten`. The lemmas on `Updated` and `Inserted` (`UpdatedRows`, `InsertedRows`) say where a row of the
  outcome is from; that a list has a last entry about a dat is shown from the well-foundedness of the naturals (`MaxIn`).
  Of `KeyStore`: `IInv` adds `Accounted`: what a pass has recorded as accepted was
  taken by a node, in whatever state of the pass and of P2P.
  `WithinLimit`, `PublishedIsTaken`, `NoKeyLost`; the last is an action
  property that only two actions, `DeleteKeys` and an expiry, can disturb. The lemma on `Expired`
  (any choice among equals leaves at most the limit, and a full one when anything went) is
  shared by both.
* **`QueryStoreProofs`.** Type correctness, then `QueriesKept` and `OffQueriesStayOff` for any limits, set in any order. `KInv` says that the table `Agrees` with what
  the user asked for, and, as long as the file is not stale, that only `OneWriter` is between opening the file and the
  end of its write, and `Current`: a save is still to begin, or the text being written `Restores`
  what was asked, or the file does. A text restores it when the nearest so many of its queries are what the user asked for and the
  rest was dropped: so a start that takes the nearest `DefaultLimit` of it, and then the nearest of those that the profile's limit
  admits, finds what is asked, or brings back what was `dropped`, in that order of distance. `Savers` says who may be saving
  in which phase of the program.
* **`BroadcastProofs`.** Type correctness, with the bounds of the paths and of the counters, and
  no node its own neighbour. `PathsKnow` for every network and length of paths, whatever fails or
  crashes. It is not inductive: a job puts its node on the path of what it is about to send, so
  `KInv` adds that whoever has a message queued or in its batch knows it, from the step that
  queues it (its thread is then about to store it), and that what is at a thread of the admin
  server is the node's own message without a path. What a node knows it goes on to know
  (`KnowsKept`), which leaves for each action the messages it moves.
  `MessagesSpread` is about the end of a run and needs the way there: `SInv` says, as long as nothing has failed, that when
  a node has a message and its neighbour has not, the node still owes it (about to queue it, queued, or in its batch
  with that neighbour still to come) or the request is under way. Its
  hypothesis `SmallTables`, that no table holds more than `PathLimit + 2` nodes, the number that
  `neighbors` is asked for, is needed: of a larger table the job sends to the nearest only, and leaves the others to them.
  `SmallNetworkSpread` has none, for networks of at most `PathLimit + 3` nodes.

Only model-checked: all liveness properties, which are out of this prover's reach under
fairness, and `StopStops` of `Program`, which is false. What is proved of `StopReturns`,
`EverySessionEnds` and `ExitEnds` is their safety part, for every value of the constants: that
a wake-up is not lost and that somebody can go on. "Can go on" (`StopGoesOn`, `ExitGoesOn`) is written out as the
guards of the actions, ENABLED being out of reach too (on instances of the size of the runs TLC
finds them equal to ENABLED of the actions). That the threads then do go on, and arrive, is the fairness that TLC checks.

## 5. Findings

**P2P may be running when StopP2P has returned** (`program_stop`, `StopStops`). StopP2P stops the server and the
scheduler, calls ChangeTrayIcon (`main.cpp:3026`), which may stop them again, start them and set Active, and then sets Active
to false, with a balloon that says it has stopped (3027-3032). The menu then offers to start what is running. The conditions
for the restart are those of a new global address (2743), but StopP2P itself has just met them: it forgets when a peer
was last accepted (3019) and switches off the job that looks for the address. It happens in the stop from the menu, in an emergency
halt and in a suspend.
Likewise a restart nested in StartP2P that fails leaves P2P stopped behind Active set by the outer one (2991).

Disagreements met while modelling, which no run is kept for:

* *Server.* The session inserted by `OnSessionLimit` has its timer at 0, so the first scan
  finds it timed out and closes it, without a byte sent when it came in during `select`;
  `doc/history.txt:61` says 503 is returned in place of an immediate disconnection.
* *Scheduler.* A job that stops itself between the scheduler's first two reads runs once
  more; `O2Job_GetGlobalIP` then removes every node that answers it.
* *Routing table.* `neighbors` does not return the nearest of a bucket
  (`KademliaKBucket.hpp:209`): buckets and `pick` use different orders. A node that changes its
  identifier is listed twice, against `doc/history.txt:103`.
* *Broadcast.* A message that arrives from two sides at once is taken twice: `Add` tests
  and `AddMessage`, later, records. `src/ChangeLog:5090` says multiple sending was fixed.
* *Key store.* A deletion request (saku) has size 0, which `CheckKey` refuses at every receiver, so
  that SakuKeyDB is always empty, against `doc/history.txt:80`; a saku that was
  switched off is published all the same. `marge` lets the old address win, so that the key of an owner
  that moved is not corrected until the owner fails. `PublishKeys` never sets the date,
  so that old keys are sent in each pass. A node that answers under another identifier is
  removed but its keys stay (`O2Job.hpp:73`).
* *Query store.* A new query is registered at once, though `O2LagQueryQueue.hpp:191` says five
  seconds. `Load` drops what is over 3000 (`O2KeyDB.cpp:24`) before the limit is set.
* *Dat cache.* The comparison in `Put` reads past a part that ends inside the file and
  fails at its closing 0, so that the unsigned length (`O2DatIO.cpp:722`) is not reached;
  in an overlap `total_size` records too little (743). A row whose file is missing cannot be
  deleted. An update that waits when its dat is deleted inserts a row without a file. A second
  rename that fails leaves no table until the program is started again.
* *Program.* P2P can be started while a rebuild runs: whether it may is tested before
  the message box and not behind it (`main.cpp:1079`). `FinalizeAppThread` waits for a rebuild and not for the
  threads of Reindex and Analyze, under which it deletes `O2DatIO` and `O2DatDB` (801, 883, 907).
* *Node table.* The collector puts nodes into the table that another node only names, and those it removed a moment
  ago come back so (`O2NodeDB.cpp:642`), until they fail again.
* *Dat cache.* `O2DatDB::insert` and `remove` report no error to callers that go on as if there were none
  (`O2DatIO.cpp:582,1205,1454`), and what `f.write` returns is thrown away (740).

## 6. Plan

What was planned first is done. In this order, as far as the runs, which are one per
question and kept to a dozen, leave room:

| Module | Models | Properties |
|---|---|---|
| `KeyStore` | keys with addresses: `marge`, a node that moves, `CheckResponse` with another identifier | a key leads to its owner once the owner has spoken |
| `Lookup` | `SearchFriends` with its answer, several queries in one pass | as for one query |
| `Boards` | the ten collectors of a board, `DatCollector`, saves beside them | each collector is asked in its turn |
| `IMDB`, `FriendDB` | limits, deletion, saves, friends that are found | nothing lost between queue and job |
| `opy2on` | job threads and locks of the Python node | as `Scheduler` |

Every invariant and every action property that a run checks is proved, and so is the refinement;
what is left for theorems comes with the modules of the table.

## 7. Not modelled, and why

Most of the lines of this repository are outside the models, and stay there:

* `src/o2on/babel`, the icons and the build: vendored, or data.
* `wxmain.cpp`, `src.browser`, the dialogs of `main.cpp`, the pages of the admin server: user
  interface. `wxmain.cpp` is an unfinished port that starts the same components.
* Parsing and printing of HTTP, XML and dats, conversion of hashes, dates and character sets,
  logging, reports: no control that the properties could tell apart. A part of them that
  decides something (a refused key, an identifier that is one's own) is a guard.
* SQLite, zlib, the SAX parser, UPnP, RSA: libraries. SQLite is a table that may fail.
* The selects of `O2DatDB`, the lists of `O2KeyDB` and `O2NodeDB` for the pages: they only read.
* `O2Profile`: a record of settings under one lock; its keys and limits are constants here.
* `O2IMDB` as IMDB, `O2FriendDB`, `O2Boards`: lists under one lock with one step per operation,
  whose saves are like those of `QueryStore`. `O2IPFilter`: a loop over ordered
  records without state; its verdict is a choice in `Server`.
* Counters and statistics: written under locks, read for display.
