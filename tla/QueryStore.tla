----------------------------- MODULE QueryStore -----------------------------
(***************************************************************************)
(* The queries of the user: QueryDB (an O2KeyDB), its file Query.xml and   *)
(* LagQueryQueue.                                                          *)
(*                                                                         *)
(* A page that the proxy could not get becomes a query: the proxy puts it  *)
(* into LagQueryQueue, whose thread Checker registers it in QueryDB every  *)
(* 2.5 seconds, unless a later visit has got the page meanwhile.  The      *)
(* admin pages add, delete, activate and deactivate queries.  Each of them *)
(* then saves QueryDB: the text is made under QueryDB's lock, the file is  *)
(* emptied and written without it.  At the end of the program              *)
(* FinalizeAppThread saves once more and deletes QueryDB, and only then    *)
(* stops the Checker.                                                      *)
(*                                                                         *)
(* A query is "on" or "off" (its flag enable).  Its title, size and date   *)
(* do not matter here.                                                     *)
(***************************************************************************)
EXTENDS Integers, FiniteSets, FiniteSetsExt

CONSTANTS
    Dat,
    Distance,       \* of a dat to QueryDB's SelfNodeID, which is 0
    Admin,          \* threads of the admin server
    Limits,         \* that the user may set
    DefaultLimit,   \* DEFAULT_LIMIT, which holds while the file is loaded
    MaxVisits,      \* pages the proxy could not get, and
    MaxEdits,       \* what the user does (bounds of the model)
    MaxRare         \* failures, crashes and ends of the program (a bound too)

ASSUME QueryStoreAssumption ==
    /\ IsFiniteSet(Dat)
    /\ Admin \cap {"checker", "final"} = {}
    /\ Distance \in [Dat -> Nat]
    /\ \A c, d \in Dat : Distance[c] = Distance[d] => c = d
    /\ Limits \subseteq Nat /\ DefaultLimit \in Nat
    /\ MaxVisits \in Nat /\ MaxEdits \in Nat /\ MaxRare \in Nat

VARIABLES
    qdb,            \* QueryDB
    file,           \* Query.xml
    lag,            \* LagQueryQueue: how old each of its queries is
    chk,            \* its thread
    save,           \* the threads in Save
    phase,          \* how far the program is
    limit,          \* Profile->GetQueryLimit, which is saved when it is set
    asked,          \* the queries as the user should find them,
    stale, dropped, \* see "What may go wrong"
    visits, edits, rare

vars == <<qdb, file, lag, chk, save, phase, limit, asked, stale, dropped, visits, edits, rare>>
budget == <<visits, edits, rare>>

-----------------------------------------------------------------------------
Queries == [Dat -> {"none", "on", "off"}]
NoQueries == [d \in Dat |-> "none"]

Saver == Admin \cup {"checker", "final"}
Idle == [pc |-> "idle", text |-> NoQueries]

TypeOK ==
    /\ qdb \in Queries /\ file \in Queries /\ asked \in Queries
    /\ lag \in [Dat -> {"none", "new", "fresh", "due"}]
    /\ chk \in [pc : {"wait", "pass", "gone"}, active : BOOLEAN, todo : SUBSET Dat]
    /\ chk.todo # {} => chk.pc = "pass"
    /\ save \in [Saver -> [pc : {"idle", "export", "open", "write"}, text : Queries]]
    /\ phase \in {"up", "stopped", "saved", "deleted", "joining", "ended"}
    /\ limit \in Limits
    /\ stale \in BOOLEAN /\ dropped \subseteq Dat
    /\ visits \in 0..MaxVisits /\ edits \in 0..MaxEdits /\ rare \in 0..MaxRare

Init ==
    /\ qdb = NoQueries /\ file = NoQueries /\ asked = NoQueries
    /\ lag = [d \in Dat |-> "none"]
    /\ chk = [pc |-> "wait", active |-> TRUE, todo |-> {}]
    /\ save = [t \in Saver |-> Idle]
    /\ phase = "up"
    /\ limit \in Limits
    /\ stale = FALSE /\ dropped = {}
    /\ visits = 0 /\ edits = 0 /\ rare = 0

Edit == edits < MaxEdits /\ edits' = edits + 1 /\ UNCHANGED <<visits, rare>>
Rare == rare < MaxRare /\ rare' = rare + 1 /\ UNCHANGED <<visits, edits>>

Alive == phase \notin {"deleted", "joining", "ended"}    \* of QueryDB

Known(qs) == {d \in Dat : qs[d] # "none"}

(* Expire, at SetLimit and at the end of Load, drops the most distant ones. *)
Expire(qs, n) ==
    [d \in Dat |-> IF Cardinality({c \in Known(qs) : Distance[c] <= Distance[d]}) <= n
                     THEN qs[d] ELSE "none"]

-----------------------------------------------------------------------------
(* What may go wrong: while one thread has the text and has not written it *)
(* another makes a text of its own, and the older text may be written      *)
(* last; or the file cannot be opened.  Then the file is stale until a     *)
(* save begins with no other one under way.  And what a limit has dropped  *)
(* is not saved: the file still has it, until there is something to save,  *)
(* and a start under a higher limit finds it again (dropped).              *)
Writing(t) == save[t].pc \in {"open", "write"}

(* Save: the text under the lock, *)
SaveExport(t) ==
    /\ save[t].pc = "export" /\ Alive
    /\ save' = [save EXCEPT ![t] = [pc |-> "open", text |-> qdb]]
    /\ stale' = \E u \in Saver \ {t} : Writing(u)
    /\ dropped' = {}
    /\ UNCHANGED <<qdb, file, lag, chk, phase, limit, asked, budget>>

(* then the file, with nothing left in it (MODE_W), *)
SaveOpen(t) ==
    /\ save[t].pc = "open"
    /\ file' = NoQueries
    /\ save' = [save EXCEPT ![t].pc = "write"]
    /\ UNCHANGED <<qdb, lag, chk, phase, limit, asked, stale, dropped, budget>>

SaveFail(t) ==
    /\ save[t].pc = "open"
    /\ Rare
    /\ save' = [save EXCEPT ![t] = Idle]
    /\ stale' = TRUE
    /\ UNCHANGED <<qdb, file, lag, chk, phase, limit, asked, dropped>>

(* then the text, over whatever another thread has put there. *)
SaveWrite(t) ==
    /\ save[t].pc = "write"
    /\ file' = save[t].text
    /\ save' = [save EXCEPT ![t] = Idle]
    /\ UNCHANGED <<qdb, lag, chk, phase, limit, asked, stale, dropped, budget>>

-----------------------------------------------------------------------------
(* The proxy.  It waits while the Checker has the lock. *)

(* add: a page that the server no longer has.  The entry is made with the  *)
(* date 0, and is old at once; a second visit gives it the time.           *)
Add(d) ==
    /\ phase = "up" /\ chk.pc # "pass"
    /\ visits < MaxVisits /\ visits' = visits + 1 /\ UNCHANGED <<edits, rare>>
    /\ lag' = [lag EXCEPT ![d] = IF @ = "none" THEN "new" ELSE "fresh"]
    /\ UNCHANGED <<qdb, file, chk, save, phase, limit, asked, stale, dropped>>

(* remove: the server has the page. *)
Remove(d) ==
    /\ phase = "up" /\ chk.pc # "pass"
    /\ lag[d] # "none"
    /\ lag' = [lag EXCEPT ![d] = "none"]
    /\ UNCHANGED <<qdb, file, chk, save, phase, limit, asked, stale, dropped, budget>>

FiveSeconds(d) ==
    /\ lag[d] = "fresh"
    /\ lag' = [lag EXCEPT ![d] = "due"]
    /\ UNCHANGED <<qdb, file, chk, save, phase, limit, asked, stale, dropped, budget>>

-----------------------------------------------------------------------------
(* The Checker.  It has the lock of the queue during a whole pass. *)
CheckStart ==
    /\ chk.pc = "wait" /\ chk.active
    /\ \E d \in Dat : lag[d] # "none"       \* otherwise nothing happens
    /\ chk' = [chk EXCEPT !.pc = "pass", !.todo = Known(lag)]
    /\ UNCHANGED <<qdb, file, lag, save, phase, limit, asked, stale, dropped, budget>>

(* An entry of the last five seconds stays. *)
CheckSkip(d) ==
    /\ chk.pc = "pass" /\ d \in chk.todo /\ save["checker"] = Idle
    /\ lag[d] = "fresh"
    /\ chk' = [chk EXCEPT !.todo = @ \ {d}]
    /\ UNCHANGED <<qdb, file, lag, save, phase, limit, asked, stale, dropped, budget>>

\* Bug: the entry is not erased.
CheckRegister_NoErase(d) ==
    /\ chk.pc = "pass" /\ d \in chk.todo /\ save["checker"] = Idle
    /\ lag[d] # "fresh" /\ Alive
    /\ qdb' = [qdb EXCEPT ![d] = "on"]
    /\ asked' = [asked EXCEPT ![d] = "on"]
    /\ save' = IF qdb[d] = "none" THEN [save EXCEPT !["checker"].pc = "export"] ELSE save
    /\ chk' = [chk EXCEPT !.todo = @ \ {d}]
    /\ UNCHANGED <<file, lag, phase, limit, stale, dropped, budget>>

(* Another one is registered.  AddKey makes a new query, which is then     *)
(* saved, or takes the place of the one there is, which is switched on     *)
(* again and not saved.                                                    *)
CheckRegister(d) ==
    /\ chk.pc = "pass" /\ d \in chk.todo /\ save["checker"] = Idle
    /\ lag[d] # "fresh" /\ Alive
    /\ qdb' = [qdb EXCEPT ![d] = "on"]
    /\ asked' = [asked EXCEPT ![d] = "on"]
    /\ save' = IF qdb[d] = "none" THEN [save EXCEPT !["checker"].pc = "export"] ELSE save
    /\ lag' = [lag EXCEPT ![d] = "none"]
    /\ chk' = [chk EXCEPT !.todo = @ \ {d}]
    /\ UNCHANGED <<file, phase, limit, stale, dropped, budget>>

CheckEnd ==
    /\ chk.pc = "pass" /\ chk.todo = {} /\ save["checker"] = Idle
    /\ chk' = [chk EXCEPT !.pc = "wait"]
    /\ UNCHANGED <<qdb, file, lag, save, phase, limit, asked, stale, dropped, budget>>

CheckStop ==
    /\ chk.pc = "wait" /\ ~chk.active
    /\ chk' = [chk EXCEPT !.pc = "gone"]
    /\ UNCHANGED <<qdb, file, lag, save, phase, limit, asked, stale, dropped, budget>>

-----------------------------------------------------------------------------
(* POST_xml_query of the admin server: a change, and Save. *)
Change(a, d, q) ==
    /\ phase = "up" /\ save[a] = Idle
    /\ Edit
    /\ qdb' = [qdb EXCEPT ![d] = q]
    /\ asked' = [asked EXCEPT ![d] = q]
    /\ save' = [save EXCEPT ![a].pc = "export"]
    /\ UNCHANGED <<file, lag, chk, phase, limit, stale, dropped>>

\* Bug: the deletion is not saved.
AdminDelete_NoSave(a, d) ==
    /\ phase = "up" /\ save[a] = Idle
    /\ qdb[d] # "none"
    /\ Edit
    /\ qdb' = [qdb EXCEPT ![d] = "none"]
    /\ asked' = [asked EXCEPT ![d] = "none"]
    /\ UNCHANGED <<file, lag, chk, save, phase, limit, stale, dropped>>

AdminAdd(a, d) == Change(a, d, "on")
AdminDelete(a, d) == qdb[d] # "none" /\ Change(a, d, "none")
AdminActivate(a, d) == qdb[d] # "none" /\ Change(a, d, "on")

\* Bug: what has been switched off is not saved.
AdminDeactivate_NoSave(a, d) ==
    /\ phase = "up" /\ save[a] = Idle
    /\ qdb[d] # "none"
    /\ Edit
    /\ qdb' = [qdb EXCEPT ![d] = "off"]
    /\ asked' = [asked EXCEPT ![d] = "off"]
    /\ UNCHANGED <<file, lag, chk, save, phase, limit, stale, dropped>>

AdminDeactivate(a, d) == qdb[d] # "none" /\ Change(a, d, "off")

(* The settings are stored, with another limit or the same; *)
StoreSettings(n) ==
    /\ phase = "up"
    /\ Edit
    /\ limit' = n
    /\ UNCHANGED <<qdb, file, lag, chk, save, phase, asked, stale, dropped>>

(* then SetLimit drops what is over it, also what AddKey has let in since  *)
(* the last time.  It is still in the file.                                *)
SetLimit ==
    /\ phase = "up"
    /\ Cardinality(Known(qdb)) > limit
    /\ qdb' = Expire(qdb, limit)
    /\ asked' = [d \in Dat |-> IF qdb'[d] = "none" THEN "none" ELSE asked[d]]
    /\ dropped' = dropped \cup (Known(qdb) \ Known(qdb'))
    /\ UNCHANGED <<file, lag, chk, save, phase, limit, stale, budget>>

-----------------------------------------------------------------------------
(* FinalizeAppThread. *)

(* The servers are stopped, which waits for the admin's sessions. *)
Stop ==
    /\ phase = "up"
    /\ \A a \in Admin : save[a] = Idle
    /\ Rare
    /\ phase' = "stopped"
    /\ save' = [save EXCEPT !["final"].pc = "export"]
    /\ UNCHANGED <<qdb, file, lag, chk, limit, asked, stale, dropped>>

Saved ==
    /\ phase = "stopped" /\ save["final"] = Idle
    /\ phase' = "saved"
    /\ UNCHANGED <<qdb, file, lag, chk, save, limit, asked, stale, dropped, budget>>

DeleteQueryDB ==
    /\ phase = "saved"
    /\ phase' = "deleted"
    /\ UNCHANGED <<qdb, file, lag, chk, save, limit, asked, stale, dropped, budget>>

DeleteLagQueryQueue ==
    /\ phase = "deleted"
    /\ phase' = "joining"
    /\ chk' = [chk EXCEPT !.active = FALSE]
    /\ UNCHANGED <<qdb, file, lag, save, limit, asked, stale, dropped, budget>>

End ==
    /\ phase = "joining" /\ chk.pc = "gone"
    /\ phase' = "ended"
    /\ UNCHANGED <<qdb, file, lag, chk, save, limit, asked, stale, dropped, budget>>

Fallen ==
    /\ phase' = "ended"
    /\ stale' = (stale \/ \E t \in Saver : save[t] # Idle)
    /\ save' = [t \in Saver |-> Idle]
    /\ chk' = [pc |-> "gone", active |-> FALSE, todo |-> {}]
    /\ UNCHANGED <<qdb, file, lag, limit, asked, dropped>>

(* The Checker uses QueryDB after it has been deleted: the program falls.  *)
UseAfterDelete ==
    /\ ~Alive
    /\ \/ chk.pc = "pass" /\ \E d \in chk.todo : lag[d] # "fresh"
       \/ save["checker"].pc = "export"
    /\ Fallen
    /\ UNCHANGED budget

Crash ==
    /\ phase # "ended"
    /\ Rare
    /\ Fallen

(* The program is started again, after any of these: Load, under the limit *)
(* of a new O2KeyDB, then SetLimit.  Where the file was stale, what it has *)
(* is what the user is left with; of the queries that had been dropped,    *)
(* those that there is place for now are back.                             *)
Loaded(qs) == Expire(Expire(qs, DefaultLimit), limit)

Start ==
    /\ phase = "ended"
    /\ qdb' = Loaded(file)
    /\ asked' = IF stale THEN qdb'
                ELSE [d \in Dat |-> IF d \in Known(Loaded(asked)) THEN asked[d]
                                    ELSE IF d \in dropped THEN qdb'[d] ELSE "none"]
    /\ dropped' = Known(file) \ Known(qdb')
    /\ lag' = [d \in Dat |-> "none"]
    /\ chk' = [pc |-> "wait", active |-> TRUE, todo |-> {}]
    /\ phase' = "up"
    /\ stale' = FALSE
    /\ UNCHANGED <<file, save, limit, budget>>

-----------------------------------------------------------------------------
Check == CheckStart \/ (\E d \in Dat : CheckSkip(d) \/ CheckRegister(d)) \/ CheckEnd \/ CheckStop

Save(t) == SaveExport(t) \/ SaveOpen(t) \/ SaveWrite(t)

Next ==
    \/ \E t \in Saver : Save(t) \/ SaveFail(t)
    \/ \E d \in Dat : Add(d) \/ Remove(d) \/ FiveSeconds(d)
    \/ Check
    \/ \E a \in Admin, d \in Dat :
          AdminAdd(a, d) \/ AdminDelete(a, d) \/ AdminActivate(a, d) \/ AdminDeactivate(a, d)
    \/ SetLimit \/ \E n \in Limits : StoreSettings(n)
    \/ Stop \/ Saved \/ DeleteQueryDB \/ DeleteLagQueryQueue \/ End
    \/ UseAfterDelete \/ Crash \/ Start

Spec == Init /\ [][Next]_vars

Fairness ==
    /\ WF_vars(Check)
    /\ \A t \in Saver : WF_vars(Save(t))
    /\ \A d \in Dat : WF_vars(FiveSeconds(d))

FairSpec == Spec /\ Fairness

-----------------------------------------------------------------------------
(* The user finds the queries that were registered, not deleted and not    *)
(* dropped over the limit, and no others, through every end, crash and     *)
(* restart: Save of the thread that changed something comes before         *)
(* anything is lost.  Not so when the file was stale; and a start may      *)
(* bring back what a limit had dropped and nothing was saved after, but    *)
(* nothing gives way to it.                                                *)
Kept == phase = "up" => Known(qdb) = Known(asked)

(* A query that the user has switched off stays off, through restarts too, *)
(* until the user or another visit of the page switches it on.             *)
StaysOff == phase = "up" => \A d \in Dat : asked[d] = "off" => qdb[d] = "off"

(* Who keeps visiting a page that is gone keeps it out of QueryDB; but     *)
(* once the visits end it is registered, unless the server has it again.   *)
Registered == \A d \in Dat : lag[d] # "none" ~> (lag[d] = "none" \/ phase # "up")
=============================================================================
