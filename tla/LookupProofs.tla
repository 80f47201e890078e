---------------------------- MODULE LookupProofs ----------------------------
(***************************************************************************)
(* Proofs about Lookup, for any network, any limits and any number of      *)
(* events.                                                                 *)
(*                                                                         *)
(* A node that is in the list and has been asked has a session, or has     *)
(* given an answer that was good; then it is there (Linked) and the nodes  *)
(* it named are in the list or have failed since (Complete).  When a pass  *)
(* comes to its end without a stop, no session is left and nobody within   *)
(* the border is left to ask (Settled); that turns the two facts into the  *)
(* properties.                                                             *)
(***************************************************************************)
EXTENDS Lookup, TLAPS, FiniteSetTheorems

Held == \A n \in Node : search.session[n] # "none" => n \in search.near \cap search.asked

Linked ==
    \A n \in Node :
        /\ search.session[n] = "ok" => n \in met
        /\ n \in search.near \cap search.asked /\ search.session[n] = "none" => n \in met

Complete ==
    \A m \in search.near \cap search.asked :
        search.session[m] = "none" /\ Stored[m] = {} =>
            Names[m] \ {Self} \subseteq search.near \cup search.asked

Settled ==
    search.pc = "touch" \/ (search.pc = "done" /\ active) =>
        /\ \A n \in Node : search.session[n] = "none"
        /\ ToAsk = {}

Rested == search.pc = "rest" => search = Resting

Spoke ==
    /\ fetch.spoke \subseteq met
    /\ fetch.session \in {"dat", "nodat", "busy"} => fetch.node \in met

IInv == TypeOK /\ Held /\ Linked /\ Complete /\ Settled /\ Rested /\ Spoke

-----------------------------------------------------------------------------
LEMMA RestingType == Resting \in SearchState
  BY DEF Resting, SearchState, SearchSession

LEMMA IdleType == Idle \in FetchState
  BY DEF Idle, FetchState, FetchSession

(* What an answer makes of the search. *)
LEMMA AnsweredType ==
    ASSUME NEW s \in SearchState, NEW n \in Node
    PROVE  Answered(s, n) \in SearchState
  <1>1. Failed(s, n) \in SearchState
    BY DEF Failed, SearchState
  <1>2. [s EXCEPT !.found = @ \cup Keys(n)] \in SearchState
    BY LookupAssumption DEF Keys, SearchState
  <1>3. Refined(s, Names[n] \ {Self}) \in SearchState
    BY LookupAssumption DEF Refined, SearchState
  <1> QED
    BY <1>1, <1>2, <1>3 DEF Answered

LEMMA InitInv == Init => IInv
  <1> SUFFICES ASSUME Init PROVE IInv
    OBVIOUS
  <1>1. TypeOK
    <2>1. up \subseteq Node /\ table \subseteq Node /\ keys \subseteq Node /\ met \subseteq Node
      BY LookupAssumption DEF Init
    <2>2. wanted \in BOOLEAN /\ active \in BOOLEAN /\ got \in BOOLEAN /\ queue \subseteq Node
      BY DEF Init
    <2>3. search \in SearchState /\ fetch \in FetchState
      BY RestingType, IdleType DEF Init
    <2>4. search.pc # "wait" /\ fetch.session = "none"
      BY DEF Init, Resting, Idle
    <2>5. events \in 0..MaxEvents
      BY LookupAssumption DEF Init
    <2> QED
      BY <2>1, <2>2, <2>3, <2>4, <2>5 DEF TypeOK
  <1>2. Held /\ Linked /\ Complete /\ Settled
    BY DEF Init, Held, Linked, Complete, Settled, Resting
  <1>3. Rested /\ Spoke
    BY DEF Init, Rested, Spoke, Idle
  <1> QED
    BY <1>1, <1>2, <1>3 DEF IInv

-----------------------------------------------------------------------------
(* A step keeps the types of the plain variables, *)
LEMMA PlainType ==
    ASSUME TypeOK, [Next]_vars
    PROVE  /\ up' \subseteq Node /\ table' \subseteq Node /\ keys' \subseteq Node /\ met' \subseteq Node
           /\ wanted' \in BOOLEAN /\ active' \in BOOLEAN /\ got' \in BOOLEAN
           /\ queue' \subseteq Node /\ events' \in 0..MaxEvents
  <1> USE DEF world
  <1>t. /\ up \subseteq Node /\ table \subseteq Node /\ keys \subseteq Node /\ met \subseteq Node
        /\ wanted \in BOOLEAN /\ active \in BOOLEAN /\ got \in BOOLEAN
        /\ queue \subseteq Node /\ events \in 0..MaxEvents
    BY DEF TypeOK
  <1>s. search.near \subseteq Node /\ search.found \subseteq Node
    BY DEF TypeOK, SearchState
  <1>f. fetch.session # "none" => fetch.node \in Node
    BY DEF TypeOK
  <1>1. CASE Search
    <2>1. CASE SearchTouch
      BY <1>t, <1>s, <2>1 DEF SearchTouch
    <2>2. CASE SearchDone
      BY <1>t, <1>s, <2>2 DEF SearchDone
    <2>3. CASE SearchStart \/ SearchSent \/ \E n \in Node : SearchSend(n) \/ SearchTake(n)
      BY <1>t, <2>3 DEF SearchStart, SearchSent, SearchSend, SearchTake
    <2> QED
      BY <1>1, <2>1, <2>2, <2>3 DEF Search
  <1>2. CASE Fetch
    <2>1. CASE FetchStart \/ FetchAsked \/ FetchEnd
      BY <1>t, <2>1 DEF FetchStart, FetchAsked, FetchEnd
    <2>2. CASE FetchTake
      BY <1>t, <2>2 DEF FetchTake
    <2>3. CASE \E n \in Node : FetchSend(n) \/ FetchTouch(n) \/ FetchForget(n)
      BY <1>t, <2>3 DEF FetchSend, FetchTouch, FetchForget
    <2> QED
      BY <1>2, <2>1, <2>2, <2>3 DEF Fetch
  <1>3. CASE \E n \in Node : AnswerSearch(n) \/ GiveUpSearch(n)
    BY <1>t, <1>3 DEF AnswerSearch, GiveUpSearch
  <1>4. CASE AnswerFetch \/ GiveUpFetch
    BY <1>t, <1>f, <1>4 DEF AnswerFetch, GiveUpFetch
  <1>5. ASSUME Event PROVE events' \in 0..MaxEvents
    BY <1>t, <1>5, LookupAssumption DEF Event
  <1>6. CASE Fault
    BY <1>t, <1>f, <1>5, <1>6 DEF Fault
  <1>7. CASE \E n \in Node : Call(n) \/ ComeOrGo(n)
    BY <1>t, <1>5, <1>7, LookupAssumption DEF Call, ComeOrGo
  <1>11. CASE \E n \in Node : Collect(n) \/ Forget(n) \/ UserAdds(n)
    BY <1>t, <1>5, <1>11, LookupAssumption DEF Collect, Forget, UserAdds
  <1>8. CASE SwitchQuery \/ StopP2P
    BY <1>t, <1>5, <1>8 DEF SwitchQuery, StopP2P
  <1>9. CASE StartP2P
    BY <1>t, <1>9 DEF StartP2P
  <1>10. CASE UNCHANGED vars
    BY <1>t, <1>10 DEF vars
  <1> QED
    BY <1>1, <1>2, <1>3, <1>4, <1>6, <1>7, <1>8, <1>9, <1>10, <1>11 DEF Next

(* of the search, *)
LEMMA SearchType == ASSUME TypeOK, [Next]_vars PROVE search' \in SearchState
  <1> USE DEF world
  <1>t. search \in SearchState /\ table \subseteq Node /\ keys \subseteq Node
    BY DEF TypeOK
  <1>1. CASE SearchStart
    <2>1. PICK S \in Neighbors :
            search' = [Resting EXCEPT !.pc = "send", !.near = S, !.found = keys]
      BY <1>1 DEF SearchStart
    <2>2. S \subseteq Node
      BY <1>t, <2>1 DEF Neighbors
    <2> QED
      BY <1>t, <2>1, <2>2, RestingType DEF SearchState
  <1>2. ASSUME NEW n \in Node, SearchSend(n) PROVE search' \in SearchState
    BY <1>t, <1>2 DEF SearchSend, SearchState, SearchSession
  <1>3. CASE SearchSent
    BY <1>t, <1>3 DEF SearchSent, SearchState
  <1>4. ASSUME NEW n \in Node, SearchTake(n) PROVE search' \in SearchState
    <2> DEFINE s == Answered(search, n)
    <2>1. s \in SearchState
      BY <1>t, AnsweredType
    <2>2. search' = [s EXCEPT !.session[n] = "none", !.pc = IF active THEN "send" ELSE "done"]
      BY <1>4 DEF SearchTake
    <2> HIDE DEF s
    <2> QED
      BY <2>1, <2>2 DEF SearchState, SearchSession
  <1>5. CASE SearchDone
    BY <1>t, <1>5, RestingType DEF SearchDone, SearchState
  <1>6. CASE SearchTouch
    BY <1>6, RestingType DEF SearchTouch
  <1>7. ASSUME NEW n \in Node, AnswerSearch(n) \/ GiveUpSearch(n) PROVE search' \in SearchState
    BY <1>t, <1>7 DEF AnswerSearch, GiveUpSearch, SearchState, SearchSession
  <1>8. CASE Fault
    <2>1. PICK n \in Node : search' = [search EXCEPT !.session[n] = "fail"] \/ search' = search
      BY <1>8, LookupAssumption DEF Fault, TypeOK
    <2> QED
      BY <1>t, <2>1 DEF SearchState, SearchSession
  <1>9. CASE UNCHANGED search
    BY <1>t, <1>9
  <1>10. Fetch => UNCHANGED search
    BY DEF Fetch, FetchStart, FetchSend, FetchTake, FetchAsked, FetchTouch, FetchForget, FetchEnd
  <1>11. (\E n \in Node : Call(n) \/ ComeOrGo(n) \/ Collect(n) \/ Forget(n) \/ UserAdds(n))
            \/ SwitchQuery \/ StopP2P \/ StartP2P \/ AnswerFetch \/ GiveUpFetch => UNCHANGED search
    BY DEF Collect, Forget, UserAdds, Call, ComeOrGo, SwitchQuery, StopP2P, StartP2P, AnswerFetch, GiveUpFetch
  <1> QED
    BY <1>1, <1>2, <1>3, <1>4, <1>5, <1>6, <1>7, <1>8, <1>9, <1>10, <1>11 DEF Next, Search, vars

(* and of the fetching thread. *)
LEMMA FetchType ==
    ASSUME TypeOK, [Next]_vars
    PROVE  fetch' \in FetchState /\ (fetch'.session # "none" => fetch'.node \in Node)
  <1> USE DEF world
  <1> DEFINE Good(f) == f \in FetchState /\ (f.session # "none" => f.node \in Node)
  <1>t. Good(fetch) /\ queue \subseteq Node
    BY DEF TypeOK
  <1>1. CASE FetchStart
    <2>1. fetch' = [Idle EXCEPT !.pc = "ask", !.todo = queue]
      BY <1>1 DEF FetchStart
    <2> QED
      BY <1>t, <2>1, IdleType DEF FetchState, Idle
  <1>2. ASSUME NEW n \in Node, FetchSend(n) \/ FetchTouch(n) \/ FetchForget(n) PROVE Good(fetch')
    <2>1. CASE FetchSend(n)
      BY <1>t, <2>1 DEF FetchSend, FetchState, FetchSession
    <2>2. CASE FetchTouch(n)
      BY <1>t, <2>2 DEF FetchTouch, FetchState
    <2>3. CASE FetchForget(n)
      BY <1>t, <2>3 DEF FetchForget, FetchState
    <2> QED
      BY <1>2, <2>1, <2>2, <2>3
  <1>3. CASE FetchTake
    BY <1>t, <1>3 DEF FetchTake, FetchState, FetchSession
  <1>4. CASE FetchAsked
    BY <1>t, <1>4 DEF FetchAsked, FetchState
  <1>5. CASE FetchEnd
    BY <1>5, IdleType DEF FetchEnd, Idle
  <1>6. CASE AnswerFetch \/ GiveUpFetch \/ Fault
    BY <1>t, <1>6 DEF AnswerFetch, GiveUpFetch, Fault, FetchState, FetchSession
  <1>7. CASE UNCHANGED fetch
    BY <1>t, <1>7
  <1>8. Search => UNCHANGED fetch
    BY DEF Search, SearchStart, SearchSend, SearchSent, SearchTake, SearchDone, SearchTouch
  <1>9. (\E n \in Node : AnswerSearch(n) \/ GiveUpSearch(n) \/ Call(n) \/ ComeOrGo(n)
            \/ Collect(n) \/ Forget(n) \/ UserAdds(n))
            \/ SwitchQuery \/ StopP2P \/ StartP2P => UNCHANGED fetch
    BY DEF Collect, Forget, UserAdds, AnswerSearch, GiveUpSearch, Call, ComeOrGo, SwitchQuery, StopP2P, StartP2P
  <1> QED
    BY <1>1, <1>2, <1>3, <1>4, <1>5, <1>6, <1>7, <1>8, <1>9 DEF Next, Fetch, vars

-----------------------------------------------------------------------------
(* What the search does to its part of the invariant, *)
SearchInv == Held /\ Linked /\ Complete /\ Settled /\ Rested

LEMMA SearchStartInv == ASSUME TypeOK, SearchStart PROVE SearchInv'
  <1>1. PICK S \in Neighbors :
          search' = [Resting EXCEPT !.pc = "send", !.near = S, !.found = keys]
    BY DEF SearchStart
  <1>2. /\ search'.pc = "send" /\ search'.asked = {}
        /\ \A n \in Node : search'.session[n] = "none"
    BY <1>1 DEF Resting
  <1> QED
    BY <1>2 DEF SearchInv, Held, Linked, Complete, Settled, Rested

LEMMA SearchSendInv == ASSUME TypeOK, SearchInv, NEW n \in Node, SearchSend(n) PROVE SearchInv'
  <1>1. /\ search'.pc = "send" /\ search'.near = search.near /\ search'.asked = search.asked \cup {n}
        /\ \A m \in Node : search'.session[m] = IF m = n THEN "out" ELSE search.session[m]
        /\ n \in search.near /\ met' = met
    BY DEF SearchSend, TypeOK, SearchState, ToAsk, world
  <1>2. search.near \subseteq Node
    BY DEF TypeOK, SearchState
  <1>3. Held'
    BY <1>1 DEF SearchInv, Held
  <1>4. Linked'
    BY <1>1 DEF SearchInv, Linked
  <1>5. Complete'
    BY <1>1, <1>2 DEF SearchInv, Complete
  <1> QED
    BY <1>1, <1>3, <1>4, <1>5 DEF SearchInv, Settled, Rested

LEMMA SearchSentInv == ASSUME TypeOK, SearchInv, SearchSent PROVE SearchInv'
  <1>1. /\ search'.near = search.near /\ search'.asked = search.asked
        /\ search'.session = search.session /\ met' = met /\ active' = active
        /\ search'.pc = IF Sessions = {} THEN "done" ELSE "wait"
    BY DEF SearchSent, TypeOK, SearchState, world
  <1>2. Held' /\ Linked' /\ Complete'
    BY <1>1 DEF SearchInv, Held, Linked, Complete
  <1>3. ASSUME Sessions = {}, active PROVE ToAsk = {}
    <2>1. Cardinality(Sessions) = 0
      BY <1>3, FS_EmptySet
    <2>2. 0 < MaxSession
      BY LookupAssumption
    <2> QED
      BY <1>3, <2>1, <2>2 DEF SearchSent, MaySend
  <1>4. ToAsk' = ToAsk
    BY <1>1 DEF ToAsk, Beyond, Nearer
  <1>5. Settled'
    BY <1>1, <1>3, <1>4 DEF Settled, Sessions
  <1> QED
    BY <1>1, <1>2, <1>5 DEF SearchInv, Rested

LEMMA SearchTakeInv == ASSUME TypeOK, SearchInv, NEW n \in Node, SearchTake(n) PROVE SearchInv'
  <1> DEFINE a == Answered(search, n)
             nodes == Names[n] \ {Self}
  <1>1. search \in SearchState /\ a \in SearchState
    BY AnsweredType DEF TypeOK
  <1>2. /\ search'.pc = (IF active THEN "send" ELSE "done")
        /\ search'.near = a.near /\ search'.asked = a.asked
        /\ \A m \in Node : search'.session[m] = IF m = n THEN "none" ELSE a.session[m]
        /\ met' = met /\ active' = active
    <2> HIDE DEF a
    <2> QED
      BY <1>1 DEF SearchTake, SearchState, world, a
  <1>3. a.session = search.session
    BY <1>1 DEF Answered, Failed, Refined, SearchState
  <1>4. \/ /\ a.near = search.near \ {n} /\ a.asked = search.asked
        \/ /\ search.session[n] = "ok" /\ Stored[n] # {}
           /\ a.near = search.near /\ a.asked = search.asked
        \/ /\ search.session[n] = "ok"
           /\ a.near = search.near \cup nodes /\ a.asked = search.asked \ (nodes \ search.near)
    BY <1>1 DEF Answered, Failed, Refined, SearchState, SearchTake
  <1>5. n \in search.near \cap search.asked
    BY DEF SearchInv, Held, SearchTake
  <1>6. search.near \subseteq Node /\ search.asked \subseteq Node
    BY <1>1 DEF SearchState
  <1> HIDE DEF a
  <1>7. Held'
    BY <1>2, <1>3, <1>4 DEF SearchInv, Held
  <1>8. Linked'
    BY <1>2, <1>3, <1>4 DEF SearchInv, Linked
  <1>9. Complete'
    <2> SUFFICES ASSUME NEW m \in (search.near \cap search.asked)',
                        search'.session[m] = "none", Stored[m] = {}
                 PROVE  Names[m] \ {Self} \subseteq (search.near \cup search.asked)'
      BY DEF Complete
    <2>1. m \in search.near \cap search.asked
      BY <1>2, <1>4
    <2>2. CASE m = n
      BY <1>2, <1>4, <2>2
    <2>3. CASE m # n
      <3>1. Names[m] \ {Self} \subseteq search.near \cup search.asked
        BY <1>2, <1>3, <1>6, <2>1, <2>3 DEF SearchInv, Complete
      <3> QED
        BY <1>2, <1>4, <1>5, <3>1
    <2> QED
      BY <2>2, <2>3
  <1> QED
    BY <1>2, <1>7, <1>8, <1>9 DEF SearchInv, Settled, Rested

LEMMA SearchDoneInv == ASSUME TypeOK, SearchInv, SearchDone PROVE SearchInv'
  <1>1. CASE active
    <2>1. /\ search'.near = search.near /\ search'.asked = search.asked /\ search'.pc = "touch"
          /\ search'.session = [n \in Node |-> "none"] /\ met' = met
      BY <1>1 DEF SearchDone, TypeOK, SearchState, Resting, world
    <2>2. (\A n \in Node : search.session[n] = "none") /\ ToAsk = {}
      BY <1>1 DEF SearchInv, Settled, SearchDone
    <2>3. search.near \subseteq Node
      BY DEF TypeOK, SearchState
    <2>4. Held' /\ Linked'
      BY <2>1, <2>2 DEF SearchInv, Held, Linked
    <2>5. Complete'
      BY <2>1, <2>2, <2>3 DEF SearchInv, Complete
    <2>6. Settled'
      BY <2>1, <2>2 DEF Settled, ToAsk, Beyond, Nearer
    <2> QED
      BY <2>1, <2>4, <2>5, <2>6 DEF SearchInv, Rested
  <1>2. CASE ~active
    BY <1>2 DEF SearchDone, SearchInv, Held, Linked, Complete, Settled, Rested, Resting
  <1> QED
    BY <1>1, <1>2

LEMMA SearchTouchInv == ASSUME SearchTouch PROVE SearchInv'
  BY DEF SearchTouch, SearchInv, Held, Linked, Complete, Settled, Rested, Resting

(* and what happens to it from outside: a session is given back, *)
LEMMA GivenBackInv ==
    ASSUME TypeOK, SearchInv, NEW n \in Node, search.session[n] = "out",
           NEW what \in {"ok", "fail"}, what = "ok" => n \in met',
           search' = [search EXCEPT !.session[n] = what], met \subseteq met', active' = active
    PROVE  SearchInv'
  <1>1. /\ search'.pc = search.pc /\ search'.near = search.near /\ search'.asked = search.asked
        /\ \A m \in Node : search'.session[m] = IF m = n THEN what ELSE search.session[m]
    BY DEF TypeOK, SearchState
  <1>2. search.pc # "touch" /\ ~(search.pc = "done" /\ active) /\ search.pc # "rest"
    BY DEF SearchInv, Settled, Rested, Resting
  <1>3. search.near \subseteq Node
    BY DEF TypeOK, SearchState
  <1>4. Held' /\ Linked'
    BY <1>1 DEF SearchInv, Held, Linked
  <1>5. Complete'
    BY <1>1, <1>3 DEF SearchInv, Complete
  <1> QED
    BY <1>1, <1>2, <1>4, <1>5 DEF SearchInv, Settled, Rested

(* or nothing, while the jobs may be stopped. *)
LEMMA OutsideInv ==
    ASSUME SearchInv, search' = search, met \subseteq met', active' => active \/ search.pc = "rest"
    PROVE  SearchInv'
  <1>1. Held' /\ Linked' /\ Complete'
    BY DEF SearchInv, Held, Linked, Complete
  <1>2. Settled' /\ Rested'
    BY DEF SearchInv, Settled, Rested, ToAsk, Beyond, Nearer
  <1> QED
    BY <1>1, <1>2 DEF SearchInv

LEMMA SearchStep == ASSUME TypeOK, SearchInv, [Next]_vars PROVE SearchInv'
  <1> USE DEF world
  <1>1. CASE Search
    BY <1>1, SearchStartInv, SearchSendInv, SearchSentInv, SearchTakeInv, SearchDoneInv, SearchTouchInv
    DEF Search
  <1>2. ASSUME NEW n \in Node, AnswerSearch(n) PROVE SearchInv'
    BY <1>2, GivenBackInv DEF AnswerSearch
  <1>3. ASSUME NEW n \in Node, GiveUpSearch(n) PROVE SearchInv'
    BY <1>3, GivenBackInv DEF GiveUpSearch
  <1>4. CASE Fault
    <2>1. CASE \E n \in up : search.session[n] = "out" /\ search' = [search EXCEPT !.session[n] = "fail"]
                              /\ UNCHANGED <<fetch, met>>
      <3>1. PICK n \in Node : search.session[n] = "out" /\ search' = [search EXCEPT !.session[n] = "fail"]
                               /\ met' = met
        BY <2>1 DEF TypeOK
      <3> QED
        BY <1>4, <3>1, GivenBackInv DEF Fault
    <2>2. CASE search' = search /\ met \subseteq met'
      BY <1>4, <2>2, OutsideInv DEF Fault
    <2> QED
      BY <1>4, <2>1, <2>2 DEF Fault
  <1>5. CASE Fetch
    <2>1. search' = search /\ met' = met /\ active' = active
      BY <1>5 DEF Fetch, FetchStart, FetchSend, FetchTake, FetchAsked, FetchTouch, FetchForget, FetchEnd
    <2> QED
      BY <2>1, OutsideInv
  <1>6. CASE (\E n \in Node : Call(n) \/ ComeOrGo(n) \/ Collect(n) \/ Forget(n) \/ UserAdds(n))
              \/ AnswerFetch \/ GiveUpFetch \/ SwitchQuery
    <2>1. search' = search /\ met \subseteq met' /\ active' = active
      BY <1>6 DEF Collect, Forget, UserAdds, Call, ComeOrGo, AnswerFetch, GiveUpFetch, SwitchQuery
    <2> QED
      BY <2>1, OutsideInv
  <1>7. CASE StopP2P \/ StartP2P
    BY <1>7, OutsideInv DEF StopP2P, StartP2P
  <1>8. CASE UNCHANGED vars
    BY <1>8, OutsideInv DEF vars
  <1> QED
    BY <1>1, <1>2, <1>3, <1>4, <1>5, <1>6, <1>7, <1>8 DEF Next

-----------------------------------------------------------------------------
(* The nodes that QueryDat has heard of. *)
LEMMA SpokeStep == ASSUME TypeOK, Spoke, [Next]_vars PROVE Spoke'
  <1> USE DEF world
  <1>f. fetch \in FetchState
    BY DEF TypeOK
  <1>1. CASE Search
    <2>1. UNCHANGED <<fetch, met>>
      BY <1>1 DEF Search, SearchStart, SearchSend, SearchSent, SearchTake, SearchDone, SearchTouch
    <2> QED
      BY <2>1 DEF Spoke
  <1>2. CASE Fetch
    <2>1. CASE FetchStart \/ FetchEnd
      <3>1. Idle.spoke = {} /\ Idle.session = "none"
        BY DEF Idle
      <3>2. CASE FetchStart
        BY <3>1, <3>2, IdleType DEF FetchStart, FetchState, Spoke
      <3>3. CASE FetchEnd
        BY <3>1, <3>3 DEF FetchEnd, Spoke
      <3> QED
        BY <2>1, <3>2, <3>3
    <2>2. CASE \E n \in Node : FetchSend(n)
      BY <1>f, <2>2 DEF FetchSend, FetchState, Spoke
    <2>3. CASE FetchTake
      BY <1>f, <2>3 DEF FetchTake, FetchState, FetchSession, Spoke
    <2>4. CASE FetchAsked
      BY <1>f, <2>4 DEF FetchAsked, FetchState, Spoke
    <2>5. CASE \E n \in Node : FetchTouch(n) \/ FetchForget(n)
      BY <1>f, <2>5 DEF FetchTouch, FetchForget, FetchState, Spoke
    <2> QED
      BY <1>2, <2>1, <2>2, <2>3, <2>4, <2>5 DEF Fetch
  <1>3. CASE AnswerFetch \/ GiveUpFetch
    BY <1>f, <1>3 DEF AnswerFetch, GiveUpFetch, FetchState, Spoke
  <1>4. CASE Fault
    BY <1>f, <1>4 DEF Fault, FetchState, Spoke
  <1>5. CASE \E n \in Node : AnswerSearch(n) \/ GiveUpSearch(n) \/ Call(n) \/ ComeOrGo(n)
                             \/ Collect(n) \/ Forget(n) \/ UserAdds(n)
    BY <1>5 DEF AnswerSearch, GiveUpSearch, Call, ComeOrGo, Collect, Forget, UserAdds, Spoke
  <1>6. CASE SwitchQuery \/ StopP2P \/ StartP2P \/ UNCHANGED vars
    BY <1>6 DEF SwitchQuery, StopP2P, StartP2P, vars, Spoke
  <1> QED
    BY <1>1, <1>2, <1>3, <1>4, <1>5, <1>6 DEF Next

LEMMA StepInv == IInv /\ [Next]_vars => IInv'
  <1> SUFFICES ASSUME IInv, [Next]_vars PROVE IInv'
    OBVIOUS
  <1>1. TypeOK /\ SearchInv /\ Spoke
    BY DEF IInv, SearchInv
  <1>2. SearchInv' /\ Spoke'
    BY <1>1, SearchStep, SpokeStep
  <1>3. \A n \in Node : search'.session[n] # "none" => n \in search'.near
    BY <1>2 DEF SearchInv, Held
  <1>4. TypeOK'
    BY <1>1, <1>3, PlainType, SearchType, FetchType DEF TypeOK
  <1> QED
    BY <1>2, <1>4 DEF IInv, SearchInv

LEMMA Invariance == Spec => []IInv
  BY InitInv, StepInv, PTL DEF Spec

-----------------------------------------------------------------------------
(* The types, with: the answer that is taken is of a node in the list (the *)
(* code has a branch for one that is not).                                 *)
THEOREM TypeCorrect == Spec => []TypeOK
  BY Invariance, PTL DEF IInv

(* The refining ends only when every node that a living node has named is  *)
(* asked or beyond the border, in any network.                             *)
THEOREM NearestAsked == Spec => []AskedNearest
  <1>1. ASSUME IInv PROVE AskedNearest
    <2> SUFFICES ASSUME search.pc = "touch", NEW m \in search.near \cap search.asked,
                        Stored[m] = {}, NEW n \in Names[m] \ {Self}, n \notin search.asked
                 PROVE  Beyond(search.near, n)
      BY DEF AskedNearest
    <2>1. (\A k \in Node : search.session[k] = "none") /\ ToAsk = {}
      BY <1>1 DEF IInv, Settled
    <2>2. m \in Node
      BY <1>1 DEF IInv, TypeOK, SearchState
    <2>3. n \in search.near \cup search.asked
      BY <1>1, <2>1, <2>2 DEF IInv, Complete
    <2> QED
      BY <2>1, <2>3 DEF ToAsk
  <1> QED
    BY <1>1, Invariance, PTL

(* Whatever fails, is stopped or never answers, a node comes into the node *)
(* table because it has answered or called, or because the collector or    *)
(* the user was told of it: what the search touches at the end of a pass   *)
(* has answered in that pass (Settled, Linked), and what QueryDat touches  *)
(* has spoken (Spoke).                                                     *)
THEOREM OnlyMet == Spec => NewcomersMet
  <1>1. ASSUME IInv, [Next]_vars PROVE [\A n \in Node : n \in table' \ table => Newcomer(n)]_vars
    <2> SUFFICES ASSUME NEW n \in Node, n \in table' \ table PROVE Newcomer(n)
      OBVIOUS
    <2>1. CASE SearchTouch
      <3>1. search.near \cap search.asked \subseteq met
        BY <1>1, <2>1 DEF SearchTouch, IInv, Settled, Linked, TypeOK, SearchState
      <3> QED
        BY <2>1, <3>1 DEF SearchTouch, Newcomer, world
    <2>2. CASE \E k \in Node : FetchTouch(k)
      BY <1>1, <2>2 DEF FetchTouch, IInv, Spoke, Newcomer, world
    <2>3. CASE \E k \in Node : Call(k)
      BY <2>3 DEF Call, Newcomer
    <2>4. CASE \E k \in Node : Collect(k)
      BY <2>4 DEF Collect, Newcomer
    <2>5. CASE \E k \in Node : UserAdds(k)
      <3>1. PICK k \in Node : UserAdds(k)
        BY <2>5
      <3>2. k = n
        BY <3>1 DEF UserAdds
      <3> QED
        BY <3>1, <3>2 DEF Newcomer
    <2>6. CASE \E k \in Node : FetchForget(k) \/ Forget(k)
      BY <2>6 DEF FetchForget, Forget
    <2>7. CASE UNCHANGED table
      BY <2>7
    <2>8. SearchStart \/ SearchSent \/ SearchDone \/ (\E k \in Node : SearchSend(k) \/ SearchTake(k))
            => UNCHANGED table
      BY DEF SearchStart, SearchSent, SearchDone, SearchSend, SearchTake
    <2>9. FetchStart \/ FetchTake \/ FetchAsked \/ FetchEnd \/ (\E k \in Node : FetchSend(k))
            => UNCHANGED table
      BY DEF FetchStart, FetchTake, FetchAsked, FetchEnd, FetchSend
    <2>10. (\E k \in Node : AnswerSearch(k) \/ GiveUpSearch(k) \/ ComeOrGo(k)) \/ AnswerFetch
             \/ GiveUpFetch \/ Fault \/ SwitchQuery \/ StopP2P \/ StartP2P => UNCHANGED table
      BY DEF AnswerSearch, GiveUpSearch, ComeOrGo, AnswerFetch, GiveUpFetch, Fault, SwitchQuery,
             StopP2P, StartP2P
    <2>11. UNCHANGED vars => UNCHANGED table
      BY DEF vars
    <2> QED
      BY <1>1, <2>1, <2>2, <2>3, <2>4, <2>5, <2>6, <2>7, <2>8, <2>9, <2>10, <2>11
      DEF Next, Search, Fetch
  <1> QED
    BY <1>1, Invariance, PTL DEF Spec, NewcomersMet
=============================================================================
