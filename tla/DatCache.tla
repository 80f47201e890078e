------------------------------ MODULE DatCache ------------------------------
(***************************************************************************)
(* The cache of dats: O2DatIO, which keeps a file for each dat, and        *)
(* O2DatDB, which keeps a row about each file in an SQLite database.       *)
(*                                                                         *)
(* Parts of dats come from the proxy (the answer of the board's server to  *)
(* the browser) and from other nodes (O2Job_QueryDat, O2Job_DatCollector,  *)
(* Parse_Dat).  Put adds what is new to the file and puts an entry for the *)
(* row into the update queue, which UpdateThread takes every 15 seconds.   *)
(* The admin page deletes dats, O2Job_PublishOriginal queues the dates of  *)
(* what it has published, and the user may have the database made anew     *)
(* from the files while all that goes on.  Nothing but the update queue    *)
(* has a lock.                                                             *)
(*                                                                         *)
(* A file is the sequence of its blocks, and a block is the version of the *)
(* dat it is from and its place.  No file and an empty file are the same   *)
(* to every step.                                                          *)
(***************************************************************************)
EXTENDS Integers, FiniteSets, Sequences, FiniteSetsExt

CONSTANTS
    Dat,
    Version,        \* what other nodes may have under the same name
    Current,        \* the version the board's server has
    Length,         \* blocks of a dat
    ProxyThread,    \* the threads of the proxy, and
    NodeThread,     \* of the jobs and the server, that call Put
    Quarter,        \* Profile->GetQuarterSize, 0 when there is no limit
    ClusterSize,
    MaxQueue,       \* entries waiting at a time, and
    MaxRare         \* deletions, publications, rebuilds, crashes and failures
                    \* (bounds of the model)

ASSUME DatCacheAssumption ==
    /\ IsFiniteSet(Dat)
    /\ Current \in Version
    /\ Length \in Nat \ {0}
    /\ Quarter \in Nat
    /\ ClusterSize \in Nat \ {0}
    /\ MaxQueue \in Nat \ {0}
    /\ MaxRare \in Nat

VARIABLES
    file,           \* the files below CacheRoot
    db,             \* the rows of the table dat
    dbTable,        \* whether the database has the table
    newdb,          \* the rows of the database that is being made
    queue,          \* UpdateQueue
    upd,            \* UpdateThread
    put,            \* the threads in Put
    del,            \* the thread of the admin server in Delete
    pub,            \* what O2Job_PublishOriginal has still to queue
    rb,             \* StaticRebuildDBThread
    rare,
    torn, ghost, lost   \* see "What may go wrong"

Putter == ProxyThread \cup NodeThread

history == <<torn, ghost, lost>>
cacheVars == <<file, db, dbTable, newdb, queue, upd, put, del, pub, rb, rare, history>>

-----------------------------------------------------------------------------
Block == Version \X (1..Length)

(* A part of a dat: len blocks after the first start ones. *)
Part == {p \in [ver : Version, start : 0..Length - 1, len : 1..Length] : p.start + p.len <= Length}

Blocks(p) == [i \in 1..p.len |-> <<p.ver, p.start + i>>]

NoRow == [row |-> FALSE]
Row == [row : {TRUE}, size : Nat, published : BOOLEAN]

(* userdata is 0 for the size of a dat and 1 for the date of a publication, *)
(* which comes with nothing but the hash.                                   *)
Entry == [dat : Dat, userdata : {0, 1}, size : Nat]

NotBusy == [pc |-> "idle"]

Writer == {NotBusy} \cup
    [pc : {"load", "write", "queue"},
     dat : Dat,
     part : Part,
     size : Nat,            \* st.st_size, then the size of what Load returned
     total : Nat,           \* total_size
     late : BOOLEAN]        \* see "What may go wrong"

CacheTypeOK ==
    /\ file \in [Dat -> Seq(Block)]
    /\ db \in [Dat -> {NoRow} \cup Row]
    /\ dbTable \in BOOLEAN
    /\ newdb \in [Dat -> {NoRow} \cup Row]
    /\ queue \in Seq(Entry)
    /\ upd \in [pc : {"none", "wait", "update"}, loop : BOOLEAN, batch : Seq(Entry)]
    /\ upd.batch # <<>> <=> upd.pc = "update"
    /\ put \in [Putter -> Writer]
    /\ del \in {NotBusy} \cup [pc : {"row"}, dat : Dat]
    /\ pub \subseteq Dat
    /\ rb \in [pc : {"none", "join", "flush", "before", "scan", "insert", "old", "new", "start"},
               loop : BOOLEAN, todo : SUBSET Dat, list : Seq(Entry), missed : SUBSET Dat]
    /\ rare \in 0..MaxRare
    /\ torn \subseteq Dat /\ ghost \subseteq Dat /\ lost \subseteq Dat

NoThread == [pc |-> "none", loop |-> FALSE, batch |-> <<>>]
UpdateThread == [pc |-> "wait", loop |-> TRUE, batch |-> <<>>]
NoRebuild == [pc |-> "none", loop |-> FALSE, todo |-> {}, list |-> <<>>, missed |-> {}]

(* The program has been started with an empty cache. *)
CacheInit ==
    /\ file = [d \in Dat |-> <<>>]
    /\ db = [d \in Dat |-> NoRow]
    /\ dbTable = TRUE
    /\ newdb = [d \in Dat |-> NoRow]
    /\ queue = <<>>
    /\ upd = UpdateThread
    /\ put = [t \in Putter |-> NotBusy]
    /\ del = NotBusy
    /\ pub = {}
    /\ rb = NoRebuild
    /\ rare = 0
    /\ torn = {} /\ ghost = {} /\ lost = {}

-----------------------------------------------------------------------------
(* What may go wrong.  History variables name the windows the code leaves: *)
(*   late  another thread has written or deleted the dat since this one's  *)
(*         stat (or, for a deletion, before it has queued the entry);      *)
(*   torn  the dats that a late thread wrote, those a write of which fell  *)
(*         short unnoticed, and those deleted while something about them   *)
(*         was on its way to the database;                                 *)
(*   ghost the dats whose file has been deleted and whose row has not,     *)
(*         because of an SQLite error nobody looks at, or of a crash;      *)
(*   lost  the dats whose entry a crash or an SQLite error has dropped     *)
(*         (rb.missed are those that an insertion into the new database    *)
(*         has dropped, which are lost when it takes the old one's place). *)

About(es, d) == \E i \in 1..Len(es) : es[i].dat = d

UnderWay(d) ==
    \/ About(queue, d) \/ About(upd.batch, d) \/ About(rb.list, d)
    \/ d \in pub
    \/ newdb[d].row
    \/ \E t \in Putter : put[t].pc = "queue" /\ put[t].dat = d

Disturbed(pcs, d) ==
    [t \in Putter |-> IF put[t].pc \in pcs /\ put[t].dat = d
                        THEN [put[t] EXCEPT !.late = TRUE] ELSE put[t]]

Rare == rare < MaxRare /\ rare' = rare + 1

-----------------------------------------------------------------------------
(* The database. *)

(* update: one transaction.  An entry whose dat has no row makes one, the  *)
(* entry of a publication too; the others change the size or the date of   *)
(* theirs.  (Rows are looked up by another connection, which does not see  *)
(* what the transaction has inserted: the last insertion counts.)          *)
Of(es, d, kinds) == {i \in 1..Len(es) : es[i].dat = d /\ es[i].userdata \in kinds}

UpdatedRow(row, es, d) ==
    LET all == Of(es, d, {0, 1})  sizes == Of(es, d, {0})  dates == Of(es, d, {1})
    IN  IF all = {} THEN row
        ELSE IF ~row.row
          THEN [row |-> TRUE, size |-> es[Max(all)].size, published |-> FALSE]
        ELSE [row |-> TRUE,
              size |-> IF sizes = {} THEN row.size ELSE es[Max(sizes)].size,
              published |-> row.published \/ dates # {}]

Updated(rows, es) == [d \in Dat |-> UpdatedRow(rows[d], es, d)]

(* insert, into the new database. *)
InsertedRow(row, es, d) ==
    LET all == Of(es, d, {0, 1})
    IN  IF all = {} THEN row
        ELSE [row |-> TRUE, size |-> es[Max(all)].size, published |-> FALSE]

Inserted(rows, es) == [d \in Dat |-> InsertedRow(rows[d], es, d)]

\* The dats that es is about: what is lost with it.
Dats(es) == {es[i].dat : i \in 1..Len(es)}

(* GetDiskFileSize: whole clusters. *)
DiskFileSize(n) == ((n + ClusterSize - 1) \div ClusterSize) * ClusterSize

(* select_totaldisksize. *)
TotalDiskSize == MapThenSumSet(LAMBDA d : DiskFileSize(db[d].size), {d \in Dat : db[d].row})

(* CheckQuarterOverflow.  What it asks the window thread for, StopP2P,     *)
(* leaves the proxy and the stores as they are.                            *)
CheckQuarterOverflow(add) == Quarter # 0 /\ TotalDiskSize + add >= Quarter

-----------------------------------------------------------------------------
(* Put. *)

(* Put looks at the file.  A part that does not begin where the file ends, *)
(* or before, is not taken.  (domaintype() never says DOMAINTYPE_MACHI.)   *)
PutStat(t, d, p) ==
    LET size == Len(file[d]) IN
    /\ put[t] = NotBusy
    /\ size >= p.start
    /\ put' = [put EXCEPT ![t] =
                 [pc |-> IF size > p.start THEN "load" ELSE "write",
                  dat |-> d, part |-> p, size |-> size, total |-> 0, late |-> FALSE]]
    /\ UNCHANGED <<file, db, dbTable, newdb, queue, upd, del, pub, rb, rare, history>>

(* The proxy passes on what the board's server sends for the range that    *)
(* the browser asked for.                                                  *)
Proxy(t, d) == \E p \in Part : p.ver = Current /\ PutStat(t, d, p)

(* ImportDat: another node sends a whole dat, as far as it has it. *)
ImportDat(t, d) == \E p \in Part : p.start = 0 /\ PutStat(t, d, p)

(* What is new in the part is appended if the rest is what the file has    *)
(* from there on.  The comparison reads past a part that is shorter than   *)
(* that and finds the 0 at its end, which is in no dat; the same is taken  *)
(* for a file that has become shorter than the part's place.               *)
Agrees(cache, p) ==
    /\ p.start <= Len(cache)
    /\ Len(cache) - p.start <= p.len
    /\ \A i \in 1..Len(cache) - p.start : cache[p.start + i] = Blocks(p)[i]

\* Bug: the part is not compared with the file.
PutLoad_Unseen(t) ==
    LET w == put[t]  cache == file[w.dat] IN
    /\ w.pc = "load"
    /\ put' = [put EXCEPT ![t] =
                 IF Len(cache) >= w.part.start + w.part.len \/ Len(cache) < w.part.start \/ cache = <<>>
                   THEN NotBusy
                   ELSE [w EXCEPT !.pc = "write", !.size = Len(cache), !.late = FALSE]]
    /\ UNCHANGED <<file, db, dbTable, newdb, queue, upd, del, pub, rb, rare, history>>

PutLoad(t) ==
    LET w == put[t]  cache == file[w.dat] IN
    /\ w.pc = "load"
    /\ put' = [put EXCEPT ![t] =
                 IF cache # <<>> /\ Agrees(cache, w.part) /\ Len(cache) < w.part.start + w.part.len
                   THEN [w EXCEPT !.pc = "write", !.size = Len(cache), !.late = FALSE]
                   ELSE NotBusy]
    /\ UNCHANGED <<file, db, dbTable, newdb, queue, upd, del, pub, rb, rare, history>>

\* What Put writes: the blocks of the part behind the end of the file it saw.
News(w) == SubSeq(Blocks(w.part), w.size - w.part.start + 1, w.part.len)

\* Bug: the size that is recorded counts the overlap twice.
TotalSize_Twice(w) == w.size + w.part.len

(* total_size: in the case of an overlap the length is that of what is     *)
(* new, so that less is recorded than the file has.                        *)
TotalSize(w) == IF w.size > w.part.start THEN w.part.start + Len(News(w))
                                         ELSE w.size + w.part.len

\* The file is opened, anew (MODE_W) if there was none, and written.
Stored(f, w, blocks) == (IF w.size = 0 THEN <<>> ELSE f) \o blocks

(* The quota is checked, and what is new written. *)
PutWrite(t) ==
    LET w == put[t] IN
    /\ w.pc = "write"
    /\ IF CheckQuarterOverflow(Len(News(w)))
         THEN /\ put' = [put EXCEPT ![t] = NotBusy]
              /\ UNCHANGED <<file, torn>>
         ELSE /\ file' = [file EXCEPT ![w.dat] = Stored(@, w, News(w))]
              /\ put' = [Disturbed({"write"}, w.dat) EXCEPT ![t] =
                           [w EXCEPT !.pc = "queue", !.size = 0, !.total = TotalSize(w)]]
              /\ torn' = IF w.late THEN torn \cup {w.dat} ELSE torn
    /\ UNCHANGED <<db, dbTable, newdb, queue, upd, del, pub, rb, rare, ghost, lost>>

(* The disk is full: less is written, and recorded as if it were all. *)
PutShort(t) ==
    LET w == put[t] IN
    /\ w.pc = "write"
    /\ ~CheckQuarterOverflow(Len(News(w)))
    /\ \E n \in 0..Length :
          /\ n < Len(News(w))
          /\ file' = [file EXCEPT ![w.dat] = Stored(@, w, SubSeq(News(w), 1, n))]
    /\ put' = [Disturbed({"write"}, w.dat) EXCEPT ![t] =
                 [w EXCEPT !.pc = "queue", !.size = 0, !.total = TotalSize(w)]]
    /\ torn' = torn \cup {w.dat}
    /\ Rare
    /\ UNCHANGED <<db, dbTable, newdb, queue, upd, del, pub, rb, ghost, lost>>

(* The file could not be opened. *)
PutFail(t) ==
    /\ put[t].pc = "write"
    /\ put' = [put EXCEPT ![t] = NotBusy]
    /\ UNCHANGED <<file, db, dbTable, newdb, queue, upd, del, pub, rb, rare, history>>

AddUpdateQueue(e) == Len(queue) < MaxQueue /\ queue' = Append(queue, e)

(* The entry for the row. *)
PutQueue(t) ==
    /\ put[t].pc = "queue"
    /\ AddUpdateQueue([dat |-> put[t].dat, userdata |-> 0, size |-> put[t].total])
    /\ put' = [put EXCEPT ![t] = NotBusy]
    /\ UNCHANGED <<file, db, dbTable, newdb, upd, del, pub, rb, rare, history>>

-----------------------------------------------------------------------------
(* Delete, of the admin server, and PublishOriginal. *)

(* The dat is looked up in the database and its file removed.  When there  *)
(* is no file, the row stays.                                              *)
DeleteFile(d) ==
    /\ del = NotBusy
    /\ dbTable /\ db[d].row /\ file[d] # <<>>
    /\ file' = [file EXCEPT ![d] = <<>>]
    /\ del' = [pc |-> "row", dat |-> d]
    /\ put' = Disturbed({"write", "queue"}, d)
    /\ Rare
    /\ UNCHANGED <<db, dbTable, newdb, queue, upd, pub, rb, history>>

(* Then its row is removed; nobody looks whether it could be.  A dat that  *)
(* something was on its way about, or that has a file again, is torn.      *)
DeleteRow ==
    /\ del # NotBusy
    /\ \/ /\ db' = IF dbTable THEN [db EXCEPT ![del.dat] = NoRow] ELSE db
          /\ ghost' = ghost \ {del.dat}
          /\ UNCHANGED rare
       \/ Rare /\ UNCHANGED db /\ ghost' = ghost \cup {del.dat}
    /\ torn' = IF UnderWay(del.dat) \/ file[del.dat] # <<>> THEN torn \cup {del.dat} ELSE torn
    /\ del' = NotBusy
    /\ UNCHANGED <<file, dbTable, newdb, queue, upd, put, pub, rb, lost>>

(* The job has sent the keys of some rows whose date is old to other nodes. *)
Publish(ds) ==
    /\ pub = {}
    /\ ds # {} /\ \A d \in ds : db[d].row /\ ~db[d].published
    /\ pub' = ds
    /\ Rare
    /\ UNCHANGED <<file, db, dbTable, newdb, queue, upd, put, del, rb, history>>

PublishQueue(d) ==
    /\ d \in pub
    /\ AddUpdateQueue([dat |-> d, userdata |-> 1, size |-> 0])
    /\ pub' = pub \ {d}
    /\ UNCHANGED <<file, db, dbTable, newdb, upd, put, del, rb, rare, history>>

-----------------------------------------------------------------------------
(* UpdateThread. *)

(* The interval is over: the queue is taken. *)
UpdateTake ==
    /\ upd.pc = "wait" /\ upd.loop
    /\ queue # <<>>
    /\ upd' = [upd EXCEPT !.pc = "update", !.batch = queue]
    /\ queue' = <<>>
    /\ UNCHANGED <<file, db, dbTable, newdb, put, del, pub, rb, rare, history>>

\* Bug: the list stays where the next one goes.
Update_Keep ==
    /\ upd.pc = "update"
    /\ db' = IF dbTable THEN Updated(db, upd.batch) ELSE db
    /\ upd' = [upd EXCEPT !.pc = "wait"]
    /\ UNCHANGED <<file, dbTable, newdb, queue, put, del, pub, rb, rare, history>>

(* update, which fails without its table, and may fail otherwise: nobody   *)
(* keeps the list.                                                         *)
Update ==
    /\ upd.pc = "update"
    /\ \/ dbTable /\ db' = Updated(db, upd.batch) /\ UNCHANGED <<rare, lost>>
       \/ /\ IF dbTable THEN Rare ELSE UNCHANGED rare
          /\ lost' = lost \cup Dats(upd.batch) /\ UNCHANGED db
    /\ upd' = [upd EXCEPT !.pc = "wait", !.batch = <<>>]
    /\ UNCHANGED <<file, dbTable, newdb, queue, put, del, pub, rb, torn, ghost>>

UpdateEnd ==
    /\ upd.pc = "wait" /\ ~upd.loop
    /\ upd' = NoThread
    /\ UNCHANGED <<file, db, dbTable, newdb, queue, put, del, pub, rb, rare, history>>

-----------------------------------------------------------------------------
(* The database is made anew. *)

(* RebuildDB starts the thread, which begins with StopUpdateThread. *)
Rebuild ==
    /\ rb.pc = "none"
    /\ rb' = [rb EXCEPT !.pc = "join", !.loop = TRUE]
    /\ upd' = [upd EXCEPT !.loop = FALSE]
    /\ Rare
    /\ UNCHANGED <<file, db, dbTable, newdb, queue, put, del, pub, history>>

\* Bug: the thread is waited for, and what is left in the queue is dropped.
RebuildFlush_Drop ==
    /\ rb.pc = "join" /\ upd.pc = "none"
    /\ queue' = <<>>
    /\ rb' = [rb EXCEPT !.pc = "before"]
    /\ UNCHANGED <<file, db, dbTable, newdb, upd, put, del, pub, rare, history>>

(* StopUpdateThread waits for the thread and updates what is left. *)
RebuildFlush ==
    /\ rb.pc = "join" /\ upd.pc = "none"
    /\ \/ dbTable /\ db' = Updated(db, queue) /\ UNCHANGED <<rare, lost>>
       \/ /\ queue # <<>>
          /\ IF dbTable THEN Rare ELSE UNCHANGED rare
          /\ lost' = lost \cup Dats(queue) /\ UNCHANGED db
       \/ ~dbTable /\ queue = <<>> /\ UNCHANGED <<db, rare, lost>>
    /\ queue' = <<>>
    /\ rb' = [rb EXCEPT !.pc = "before"]
    /\ UNCHANGED <<file, dbTable, newdb, upd, put, del, pub, torn, ghost>>

(* before_rebuild: an empty database, or none. *)
RebuildBefore ==
    /\ rb.pc = "before"
    /\ newdb' = [d \in Dat |-> NoRow]
    /\ \/ rb' = [rb EXCEPT !.pc = "scan", !.todo = Dat] /\ UNCHANGED rare
       \/ Rare /\ rb' = [rb EXCEPT !.pc = "start"]
    /\ UNCHANGED <<file, db, dbTable, queue, upd, put, del, pub, history>>

(* RebuildDBThread comes to the place of a dat in the directories, and     *)
(* finds its file or not.                                                  *)
RebuildScan(d) ==
    /\ rb.pc = "scan" /\ rb.loop /\ d \in rb.todo
    /\ rb' = [rb EXCEPT !.todo = @ \ {d},
                        !.list = IF file[d] = <<>> THEN @
                                 ELSE Append(@, [dat |-> d, userdata |-> 0, size |-> Len(file[d])])]
    /\ UNCHANGED <<file, db, dbTable, newdb, queue, upd, put, del, pub, rare, history>>

(* A thousand files, or all there are, go into the new database, in one    *)
(* transaction that may fail: the rebuild goes on without them.            *)
RebuildInsert ==
    /\ rb.pc = "scan" /\ rb.loop /\ rb.list # <<>>
    /\ \/ /\ newdb' = Inserted(newdb, rb.list)
          /\ rb' = [rb EXCEPT !.list = <<>>] /\ UNCHANGED rare
       \/ /\ Rare /\ UNCHANGED newdb
          /\ rb' = [rb EXCEPT !.list = <<>>, !.missed = @ \cup Dats(rb.list)]
    /\ UNCHANGED <<file, db, dbTable, queue, upd, put, del, pub, history>>

(* At the end the databases are exchanged, unless the user has stopped it. *)
RebuildEnd ==
    /\ rb.pc = "scan"
    /\ (rb.todo = {} /\ rb.list = <<>>) \/ ~rb.loop
    /\ rb' = [rb EXCEPT !.pc = IF rb.loop THEN "old" ELSE "start", !.todo = {}, !.list = <<>>]
    /\ UNCHANGED <<file, db, dbTable, newdb, queue, upd, put, del, pub, rare, history>>

(* after_rebuild: the first rename leaves no database, the second puts the *)
(* new one in its place.  Either may fail.                                 *)
RebuildOld ==
    /\ rb.pc = "old"
    /\ \/ /\ dbTable' = FALSE /\ db' = [d \in Dat |-> NoRow]
          /\ rb' = [rb EXCEPT !.pc = "new"] /\ UNCHANGED rare
       \/ Rare /\ rb' = [rb EXCEPT !.pc = "start"] /\ UNCHANGED <<dbTable, db>>
    /\ UNCHANGED <<file, newdb, queue, upd, put, del, pub, history>>

RebuildNew ==
    /\ rb.pc = "new"
    /\ \/ /\ dbTable' = TRUE /\ db' = newdb /\ newdb' = [d \in Dat |-> NoRow]
          /\ lost' = rb.missed /\ UNCHANGED rare
       \/ Rare /\ lost' = Dat /\ UNCHANGED <<dbTable, db, newdb>>
    /\ rb' = [rb EXCEPT !.pc = "start"]
    /\ UNCHANGED <<file, queue, upd, put, del, pub, torn, ghost>>

\* Bug: UpdateThread is not started after a cancellation.
RebuildStart_Finished ==
    /\ rb.pc = "start"
    /\ upd' = IF rb.loop THEN UpdateThread ELSE upd
    /\ rb' = NoRebuild
    /\ newdb' = [d \in Dat |-> NoRow]
    /\ UNCHANGED <<file, db, dbTable, queue, put, del, pub, rare, history>>

(* StartUpdateThread, and the end of the thread. *)
RebuildStart ==
    /\ rb.pc = "start"
    /\ upd' = UpdateThread
    /\ rb' = NoRebuild
    /\ newdb' = [d \in Dat |-> NoRow]   \* what is left of it is not used again
    /\ UNCHANGED <<file, db, dbTable, queue, put, del, pub, rare, history>>

(* The user cancels. *)
StopRebuildDB ==
    /\ rb.pc # "none" /\ rb.loop
    /\ rb' = [rb EXCEPT !.loop = FALSE]
    /\ UNCHANGED <<file, db, dbTable, newdb, queue, upd, put, del, pub, rare, history>>

-----------------------------------------------------------------------------
(* The program ends without notice, a file written in part, and is started *)
(* again.  create_table makes the table if there is none.                  *)
Crash ==
    /\ Rare
    /\ \/ UNCHANGED file
       \/ \E t \in Putter : \E n \in 1..Length :
             /\ put[t].pc = "write" /\ n < Len(News(put[t]))
             /\ file' = [file EXCEPT ![put[t].dat] =
                           Stored(@, put[t], SubSeq(News(put[t]), 1, n))]
    /\ queue' = <<>>
    /\ upd' = UpdateThread
    /\ put' = [t \in Putter |-> NotBusy]
    /\ del' = NotBusy
    /\ pub' = {}
    /\ rb' = NoRebuild
    /\ newdb' = [d \in Dat |-> NoRow]
    /\ dbTable' = TRUE
    /\ lost' = lost \cup Dats(queue) \cup Dats(upd.batch) \cup (IF dbTable THEN {} ELSE Dat)
                    \cup {put[t].dat : t \in {u \in Putter : put[u].pc \in {"write", "queue"}}}
    /\ torn' = torn \cup {put[t].dat : t \in {u \in Putter : put[u].pc = "write" /\ put[u].late}}
    /\ ghost' = ghost \cup (IF del = NotBusy THEN {} ELSE {del.dat})
    /\ UNCHANGED db

Rest ==
    \/ \E t \in Putter : PutLoad(t) \/ PutWrite(t) \/ PutShort(t) \/ PutFail(t) \/ PutQueue(t)
    \/ DeleteRow
    \/ \E d \in Dat : PublishQueue(d)
    \/ UpdateTake \/ Update \/ UpdateEnd
    \/ RebuildFlush \/ RebuildBefore
    \/ (\E d \in Dat : RebuildScan(d)) \/ RebuildInsert \/ RebuildEnd
    \/ RebuildOld \/ RebuildNew \/ RebuildStart

CacheNext ==
    \/ Rest
    \/ \E d \in Dat : \/ \E t \in ProxyThread : Proxy(t, d)
                     \/ \E t \in NodeThread : ImportDat(t, d)
    \/ \E d \in Dat : DeleteFile(d)
    \/ \E ds \in SUBSET Dat : Publish(ds)
    \/ Rebuild \/ StopRebuildDB
    \/ Crash

CacheSpec == CacheInit /\ [][CacheNext]_cacheVars

(* A thread that has something to do does it; the rest is up to users,     *)
(* servers and other nodes.                                                *)
CacheFairness ==
    /\ \A t \in Putter : WF_cacheVars(PutLoad(t) \/ PutWrite(t)) /\ WF_cacheVars(PutQueue(t))
    /\ WF_cacheVars(UpdateTake \/ Update \/ UpdateEnd)
    /\ WF_cacheVars(RebuildFlush \/ RebuildBefore \/ RebuildEnd
                    \/ RebuildOld \/ RebuildNew \/ RebuildStart)
    /\ WF_cacheVars((\E d \in Dat : RebuildScan(d)) \/ RebuildInsert)

CacheFairSpec == CacheSpec /\ CacheFairness

-----------------------------------------------------------------------------
(* What Put has stored is in the file, at its place, with what it was      *)
(* compared with before it: until the dat is deleted, and unless another   *)
(* thread wrote it between this one's look at the file and its write.      *)
StoredAsGiven ==
    \A t \in Putter :
        LET w == put[t] IN
        w.pc = "queue" /\ ~w.late /\ w.dat \notin torn =>
            /\ Len(file[w.dat]) >= w.part.start + w.part.len
            /\ SubSeq(file[w.dat], w.part.start + 1, w.part.start + w.part.len) = Blocks(w.part)

(* A row never claims more than the file holds, and none is left of a dat  *)
(* that is gone: what Load with a hash and the keys that are published     *)
(* rely on.  Not so for the dats that something happened to in a window or *)
(* that a write fell short of (torn), nor where the row could not be       *)
(* removed with the file (ghost).                                          *)
RowNotAhead ==
    \A d \in Dat :
        db[d].row /\ d \notin torn \cup ghost /\ (del = NotBusy \/ del.dat # d) =>
            file[d] # <<>> /\ db[d].size <= Len(file[d])

(* Every file has a row, or something on its way that makes one, through   *)
(* all of a rebuild; and a rebuild finds the files that a crash or an      *)
(* error has left without, but for those it could not insert, which are    *)
(* lost with the exchange of the databases.                                *)
NothingForgotten ==
    \A d \in Dat :
        file[d] # <<>> /\ d \notin torn \cup lost /\ dbTable =>
            \/ db[d].row
            \/ About(queue, d) \/ About(upd.batch, d)
            \/ \E t \in Putter : put[t].pc = "queue" /\ put[t].dat = d

(* What Put has written is soon in the database.                           *)
Recorded ==
    \A d \in Dat :
        (\E t \in Putter : put[t].pc = "queue" /\ put[t].dat = d)
            ~> (db[d].row \/ d \in torn \cup lost \/ file[d] = <<>>)
=============================================================================
