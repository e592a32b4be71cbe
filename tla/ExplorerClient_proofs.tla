-------------------------- MODULE ExplorerClient_proofs --------------------------
(***************************************************************************)
(* Theorems about the browser side of Explorer, for any channels, queries  *)
(* and numbers of pages, any number of answers outstanding and any order   *)
(* in which they come.                                                     *)
(***************************************************************************)
EXTENDS ExplorerClient, TLAPS

-----------------------------------------------------------------------------
(* Types. *)

Stores == [channel : Channels, dash : Channels \cup {NoChannel},
           rows : [ch : Channels \cup {NoChannel}, params : ListParams],
           pages : Channels \cup {NoChannel}]
Headers == [selected : Channels, known : Channels, modal : BOOLEAN,
            timer : Channels \cup {NoChannel}, leaked : SUBSET Channels]
Lists == [page : 0..LastPage - 1, form : Queries, queryFlag : BOOLEAN,
          defaultQuery : BOOLEAN, search : BOOLEAN, timer : BOOLEAN]

LEMMA TypeParts ==
  TypeOK <=> /\ kind \in {"blocks", "transactions"} /\ phase \in {"landing", "app"}
             /\ store \in Stores /\ header \in Headers /\ tab \in Tabs /\ list \in Lists
             /\ flights \subseteq Flight /\ moves \subseteq Channels
             /\ disturbed \in BOOLEAN /\ acts \in 0..MaxActs
  BY DEF TypeOK, Stores, Headers, Lists

LEMMA SyncType ==
  ASSUME store \in Stores, NEW by \in Reasons, NEW ch \in Channels
  PROVE  /\ Sync(by, ch) \in Flight /\ Sync(by, ch).by = by /\ Sync(by, ch).ch = ch
  BY DEF Sync, Flight, Views, Stores

LEMMA SearchListType ==
  ASSUME store \in Stores, NEW by \in Reasons, NEW s \in Lists, NEW ch \in Channels
  PROVE  SearchList(by, s, ch) \in Flight /\ SearchList(by, s, ch).by = by
  <1>1. Query(s) \in Queries
    BY DEF Query, Stores, Lists, Queries, ListParams
  <1>2. PageAsked(s) \in Pages
    BY DEF PageAsked, Pages, Lists, LastPage
  <1>3. QED BY <1>1, <1>2 DEF SearchList, Flight, Views, ListParams

LEMMA ListTypes ==
  /\ NewList \in Lists
  /\ \A s \in Lists : Asked(s) \in Lists
  <1>1. NewList \in Lists
    BY DEF NewList, Lists, LastPage, Queries
  <1>2. ASSUME NEW s \in Lists PROVE Asked(s) \in Lists
    <2>1. [s EXCEPT !.queryFlag = FALSE] \in Lists /\ [s EXCEPT !.defaultQuery = FALSE] \in Lists
      BY DEF Lists
    <2>2. QED BY <2>1 DEF Asked
  <1>3. QED BY <1>1, <1>2

(* The tab that is mounted asks on its own behalf. *)
LEMMA MountType ==
  ASSUME store \in Stores, NEW t \in Tabs
  PROVE  /\ Mounted(t) \in Lists
         /\ MountSearch(t) \subseteq Flight
         /\ \A f \in MountSearch(t) : f.by \in {"search", "list"}
  <1>1. Mounted(t) \in Lists
    BY ListTypes DEF Mounted, Lists
  <1>2. store.channel \in Channels
    BY DEF Stores
  <1>3. /\ MountSearch(t) \subseteq Flight
        /\ \A f \in MountSearch(t) : f.by \in {"search", "list"}
    BY <1>2, ListTypes, SearchListType DEF MountSearch, Reasons
  <1>4. QED BY <1>1, <1>3

LEMMA ReceivedType ==
  ASSUME store \in Stores, NEW h \in Headers, NEW v
  PROVE  /\ Received(v, h) \in Headers
         /\ Received(v, h).selected = h.selected /\ Received(v, h).timer = h.timer
         /\ Received(v, h).leaked = h.leaked
  BY DEF Received, Headers, Stores

(* Only the end of a change of the channel touches the intervals. *)
LEMMA ClosedType ==
  ASSUME NEW f \in Flight, NEW h \in Headers
  PROVE  /\ Closed(f, h) \in Headers
         /\ Closed(f, h).selected = h.selected
         /\ f.by = "change" => /\ Closed(f, h).timer = f.ch
                               /\ h.timer = NoChannel => Closed(f, h).leaked = h.leaked
         /\ f.by # "change" => /\ Closed(f, h).timer = h.timer
                               /\ Closed(f, h).leaked = h.leaked
  <1>1. CASE f.by = "change"
    <2> DEFINE g == [h EXCEPT !.modal = FALSE]
    <2>1. Closed(f, h) = Restarted(g, f.ch)
      BY <1>1 DEF Closed
    <2>2. g \in Headers /\ g.selected = h.selected /\ g.timer = h.timer /\ g.leaked = h.leaked
      BY DEF Headers
    <2> HIDE DEF g
    <2>3. f.ch \in Channels /\ (g.timer # NoChannel => g.timer \in Channels)
      BY <2>2 DEF Flight, Headers
    <2>4. PICK ls \in SUBSET Channels :
            /\ Closed(f, h) = [g EXCEPT !.timer = f.ch, !.leaked = ls]
            /\ g.timer = NoChannel => ls = g.leaked
      <3>1. g.leaked \in SUBSET Channels /\ g.leaked \cup {g.timer} \in SUBSET (Channels \cup {NoChannel})
        BY <2>2 DEF Headers
      <3>2. CASE g.timer = NoChannel
        BY <2>1, <3>1, <3>2 DEF Restarted
      <3>3. CASE g.timer # NoChannel
        <4>1. g.leaked \cup {g.timer} \in SUBSET Channels
          BY <2>3, <3>1, <3>3
        <4>2. QED BY <2>1, <3>3, <4>1 DEF Restarted
      <3>4. QED BY <3>2, <3>3
    <2>5. QED BY <1>1, <2>2, <2>3, <2>4 DEF Headers
  <1>2. CASE f.by # "change"
    <2>1. Closed(f, h) = h \/ Closed(f, h) = [h EXCEPT !.modal = FALSE]
      BY <1>2 DEF Closed, Flight, Reasons
    <2>2. QED BY <1>2, <2>1 DEF Headers
  <1>3. QED BY <1>1, <1>2

(* One view of a call has been answered, or has failed. *)
LEMMA LandedStep ==
  ASSUME TypeOK, NEW f \in flights, NEW v \in f.asks, Landed(f, v)
  PROVE  /\ header' \in Headers /\ list' \in Lists /\ phase' \in {"landing", "app"}
         /\ flights' \subseteq Flight
         /\ header'.selected = header.selected
         /\ \/ /\ \E g \in Flight : g.by = f.by /\ g.ch = f.ch /\ flights' = (flights \ {f}) \cup {g}
               /\ header'.timer = header.timer /\ header'.leaked = header.leaked
            \/ /\ f.by # "change"
               /\ \E new \in SUBSET Flight : /\ flights' = (flights \ {f}) \cup new
                                            /\ \A g \in new : g.by \in {"search", "list"}
               /\ header'.timer = header.timer /\ header'.leaked = header.leaked
            \/ /\ f.by = "change" /\ flights' = flights \ {f}
               /\ header'.timer = f.ch
               /\ header.timer = NoChannel => header'.leaked = header.leaked
  <1>0. /\ f \in Flight /\ flights \subseteq Flight /\ store \in Stores /\ header \in Headers
        /\ list \in Lists /\ tab \in Tabs /\ phase \in {"landing", "app"}
    BY TypeParts
  <1>1. CASE f.asks # {v} /\ flights' = (flights \ {f}) \cup {[f EXCEPT !.asks = @ \ {v}]}
               /\ header' = Received(v, header) /\ UNCHANGED <<list, phase>>
    <2> DEFINE g == [f EXCEPT !.asks = @ \ {v}]
    <2>1. g \in Flight /\ g.by = f.by /\ g.ch = f.ch
      BY <1>0 DEF Flight
    <2> HIDE DEF g
    <2>2. flights' = (flights \ {f}) \cup {g}
      BY <1>1 DEF g
    <2>3. QED BY <1>0, <1>1, <2>1, <2>2, ReceivedType
  <1>2. CASE f.asks = {v} /\ f.by # "load" /\ flights' = flights \ {f}
               /\ header' = Closed(f, Received(v, header))
               /\ list' = (IF f.by = "search" THEN [list EXCEPT !.search = TRUE] ELSE list)
               /\ UNCHANGED phase
    <2> DEFINE h == Received(v, header)
    <2>1. /\ h \in Headers /\ h.selected = header.selected /\ h.timer = header.timer
          /\ h.leaked = header.leaked
      BY <1>0, ReceivedType
    <2>2. list' \in Lists
      BY <1>0, <1>2 DEF Lists
    <2> HIDE DEF h
    <2>3. header' = Closed(f, h)
      BY <1>2 DEF h
    <2>4. CASE f.by = "change"
      BY <1>0, <1>2, <2>1, <2>2, <2>3, <2>4, ClosedType
    <2>5. CASE f.by # "change"
      <3>1. \E new \in SUBSET Flight : /\ flights' = (flights \ {f}) \cup new
                                      /\ \A g \in new : g.by \in {"search", "list"}
        <4>1. {} \in SUBSET Flight
          OBVIOUS
        <4> WITNESS {} \in SUBSET Flight
        <4>2. QED BY <1>2
      <3>2. QED BY <1>0, <1>2, <2>1, <2>2, <2>3, <2>5, <3>1, ClosedType
    <2>6. QED BY <2>4, <2>5
  <1>3. CASE f.asks = {v} /\ f.by = "load" /\ phase' = "app"
               /\ flights' = (flights \ {f}) \cup MountSearch(tab)
               /\ list' = Mounted(tab) /\ header' = Received(v, header)
    <2>1. f.by # "change"
      BY <1>3
    <2>2. QED BY <1>0, <1>3, <2>1, MountType, ReceivedType
  <1>4. QED BY <1>1, <1>2, <1>3 DEF Landed

LEMMA ReducedType ==
  ASSUME store \in Stores, NEW f \in Flight, NEW v
  PROVE  Reduced(v, f) \in Stores /\ Reduced(v, f).channel = store.channel
  <1>1. f.ch \in Channels /\ f.params \in ListParams
    BY DEF Flight
  <1>2. QED BY <1>1 DEF Reduced, Stores

LEMMA TypeInit == Init => TypeOK
  <1> SUFFICES ASSUME Init PROVE TypeOK
    OBVIOUS
  <1>1. store \in Stores /\ header \in Headers /\ First \in Channels
    BY ClientAssumption DEF Init, Stores, Headers, ListParams, DefaultParams, Queries, Pages, LastPage
  <1>2. flights \subseteq Flight
    BY <1>1, SyncType DEF Init, Reasons
  <1>3. acts \in 0..MaxActs
    BY ClientAssumption DEF Init
  <1>4. QED
    BY <1>1, <1>2, <1>3, ListTypes, TypeParts DEF Init

LEMMA ActsType ==
  ASSUME TypeOK, Happens
  PROVE  acts' \in 0..MaxActs
  BY ClientAssumption DEF TypeOK, Happens

LEMMA ChannelTypes ==
  ASSUME TypeOK
  PROVE  /\ store.channel \in Channels /\ header.known \in Channels
         /\ header.timer # NoChannel => header.timer \in Channels
         /\ header.leaked \subseteq Channels
  BY TypeParts DEF Stores, Headers

LEMMA ForgottenType ==
  ASSUME TypeOK
  PROVE  /\ Forgotten \subseteq Flight
         /\ \A f \in Forgotten : f.by = "change" => f \in flights
         /\ \A f \in flights : f.by = "change" => f \in Forgotten
  <1>1. \A f \in flights : f \in Flight
    BY TypeParts
  <1>2. QED BY <1>1 DEF Forgotten, Flight, Reasons

(* The steps of the lists: they leave the rest of the page alone and add *)
(* calls of their own.                                                   *)
ListSteps ==
  \/ \E p \in 0..LastPage - 1 : HandlePageChange(p)
  \/ HandleRowsChange
  \/ \E q \in Searches : Search(q)
  \/ HandleClearSearch
  \/ ListTick

LEMMA NoMoreCalls ==
  ASSUME flights' = flights
  PROVE  \E new \in SUBSET Flight : /\ flights' = flights \cup new
                                    /\ \A f \in new : f.by \in {"search", "list"}
  <1>1. /\ {} \in SUBSET Flight /\ flights' = flights \cup {}
        /\ \A f \in {} : f.by \in {"search", "list"}
    OBVIOUS
  <1>2. QED BY <1>1

LEMMA OneMoreCall ==
  ASSUME NEW g \in Flight, g.by \in {"search", "list"}, flights' = flights \cup {g}
  PROVE  \E new \in SUBSET Flight : /\ flights' = flights \cup new
                                    /\ \A f \in new : f.by \in {"search", "list"}
  <1>1. {g} \in SUBSET Flight /\ \A f \in {g} : f.by \in {"search", "list"}
    OBVIOUS
  <1>2. QED BY <1>1

LEMMA ListStep ==
  ASSUME TypeOK, ListSteps
  PROVE  /\ UNCHANGED <<kind, phase, store, header, tab, moves, disturbed>>
         /\ acts' \in 0..MaxActs /\ list' \in Lists
         /\ \E new \in SUBSET Flight : /\ flights' = flights \cup new
                                       /\ \A f \in new : f.by \in {"search", "list"}
  <1>0. store \in Stores /\ list \in Lists /\ acts \in 0..MaxActs
    BY TypeParts
  <1>1. ASSUME NEW s \in Lists, HandleSearch(s)
        PROVE  /\ list' \in Lists
               /\ \E new \in SUBSET Flight : /\ flights' = flights \cup new
                                             /\ \A f \in new : f.by \in {"search", "list"}
    <2>1. list' \in Lists
      BY <1>1, ListTypes DEF HandleSearch, Lists
    <2>2. SearchList("search", s, store.channel) \in Flight
          /\ SearchList("search", s, store.channel).by = "search"
      BY <1>0, SearchListType, ChannelTypes DEF Reasons
    <2>3. flights' = flights \cup {SearchList("search", s, store.channel)}
      BY <1>1 DEF HandleSearch
    <2>4. QED BY <2>1, <2>2, <2>3, OneMoreCall
  <1>2. ASSUME NEW p \in 0..LastPage - 1, HandlePageChange(p)
        PROVE  /\ UNCHANGED <<kind, phase, store, header, tab, moves, disturbed>> /\ Happens
               /\ \E s \in Lists : HandleSearch(s)
    <2>1. [list EXCEPT !.page = p] \in Lists
      BY <1>0 DEF Lists
    <2>2. QED BY <1>2, <2>1 DEF HandlePageChange, ListAct, Act
  <1>3. ASSUME HandleRowsChange
        PROVE  /\ UNCHANGED <<kind, phase, store, header, tab, moves, disturbed>> /\ Happens
               /\ \E s \in Lists : HandleSearch(s)
    <2>1. [list EXCEPT !.page = 0] \in Lists
      BY <1>0 DEF Lists, LastPage
    <2>2. QED BY <1>3, <2>1 DEF HandleRowsChange, ListAct, Act
  <1>4. ASSUME NEW q \in Searches, Search(q)
        PROVE  /\ UNCHANGED <<kind, phase, store, header, tab, moves, disturbed>> /\ Happens
               /\ \E s \in Lists : HandleSearch(s)
    <2>1. [list EXCEPT !.page = 0, !.form = q, !.queryFlag = TRUE, !.defaultQuery = FALSE] \in Lists
      <3>1. q \in Queries /\ 0 \in 0..LastPage - 1
        BY DEF Queries, LastPage
      <3>2. QED BY <1>0, <3>1 DEF Lists
    <2>2. QED BY <1>4, <2>1 DEF Search, ListAct, Act
  <1>5. CASE HandleClearSearch
    <2>1. list' \in Lists
      BY <1>0, <1>5 DEF HandleClearSearch, Lists, Queries
    <2>2. flights' = flights
      BY <1>5 DEF HandleClearSearch
    <2>3. UNCHANGED <<kind, phase, store, header, tab, moves, disturbed>> /\ Happens
      BY <1>5 DEF HandleClearSearch, ListAct, Act
    <2>4. QED BY <2>1, <2>2, <2>3, NoMoreCalls, ActsType
  <1>6. CASE ListTick
    <2>1. list' \in Lists
      BY <1>0, <1>6, ListTypes DEF ListTick
    <2>2. SearchList("list", list, store.channel) \in Flight
          /\ SearchList("list", list, store.channel).by = "list"
      BY <1>0, SearchListType, ChannelTypes DEF Reasons
    <2>3. flights' = flights \cup {SearchList("list", list, store.channel)}
      BY <1>6 DEF ListTick
    <2>4. UNCHANGED <<kind, phase, store, header, tab, moves, disturbed, acts>>
      BY <1>6 DEF ListTick, bounds
    <2>5. QED BY <1>0, <2>1, <2>2, <2>3, <2>4, OneMoreCall
  <1>7. QED
    BY <1>1, <1>2, <1>3, <1>4, <1>5, <1>6, ActsType DEF ListSteps

LEMMA UserListSteps ==
  User => \/ \E ch \in Channels : HandleChange(ch)
          \/ CloseDialog
          \/ \E t \in Tabs : OpenTab(t)
          \/ ListSteps
  BY DEF User, ListSteps

LEMMA AnswerStep ==
  ASSUME TypeOK, NEW f \in flights, NEW v \in f.asks, Answer(f, v) \/ AnswerFails(f, v)
  PROVE  /\ Landed(f, v)
         /\ store' \in Stores /\ store'.channel = store.channel /\ acts' \in 0..MaxActs
         /\ UNCHANGED <<kind, tab, moves, disturbed>>
  <1>0. f \in Flight /\ store \in Stores /\ acts \in 0..MaxActs
    BY TypeParts
  <1>1. CASE Answer(f, v)
    BY <1>0, <1>1, ReducedType DEF Answer, bounds
  <1>2. CASE AnswerFails(f, v)
    BY <1>0, <1>2, ActsType DEF AnswerFails
  <1>3. QED BY <1>1, <1>2

(* A change of the channel has been answered. *)
LEMMA ChangeAnsweredStep ==
  ASSUME TypeOK, NEW ch \in Channels, ChangeAnswered(ch)
  PROVE  /\ UNCHANGED <<kind, phase, tab, disturbed, acts>>
         /\ ch \in moves /\ moves' = moves \ {ch}
         /\ store' \in Stores /\ store'.channel = ch
         /\ header' \in Headers /\ list' \in Lists
         /\ header'.timer = header.timer /\ header'.leaked = header.leaked
         /\ header'.selected \in {header.selected, ch}
         /\ \E new \in SUBSET Flight : /\ flights' = flights \cup new
                                       /\ \A f \in new : f.by \in {"props", "list"}
  <1>0. store \in Stores /\ header \in Headers /\ list \in Lists /\ store.channel \in Channels
    BY TypeParts, ChannelTypes
  <1>1. store' = [store EXCEPT !.channel = ch]
    BY DEF ChangeAnswered
  <1>2. store' \in Stores /\ store'.channel = ch
    BY <1>0, <1>1 DEF Stores
  <1>3. /\ UNCHANGED <<kind, phase, tab, disturbed, acts>>
        /\ ch \in moves /\ moves' = moves \ {ch}
    BY DEF ChangeAnswered, bounds
  <1>4. CASE ch = store.channel
    <2>1. UNCHANGED <<header, list, flights>>
      BY <1>4 DEF ChangeAnswered
    <2>2. \E new \in SUBSET Flight : /\ flights' = flights \cup new
                                    /\ \A f \in new : f.by \in {"props", "list"}
      <3>1. {} \in SUBSET Flight
        OBVIOUS
      <3> WITNESS {} \in SUBSET Flight
      <3>2. QED BY <2>1
    <2>3. QED BY <1>0, <1>2, <1>3, <2>1, <2>2
  <1>5. CASE ch # store.channel
    <2>1. header' = [header EXCEPT !.known = store.channel, !.selected = ch]
      BY <1>5 DEF ChangeAnswered
    <2>2. header' \in Headers /\ header'.selected = ch /\ header'.timer = header.timer
          /\ header'.leaked = header.leaked
      BY <1>0, <2>1 DEF Headers
    <2>3. Sync("props", ch) \in Flight /\ Sync("props", ch).by = "props"
      BY <1>0, SyncType DEF Reasons
    <2>4. SearchList("list", list, ch) \in Flight /\ SearchList("list", list, ch).by = "list"
      BY <1>0, SearchListType DEF Reasons
    <2>5. list' \in Lists
      BY <1>0, <1>5, ListTypes DEF ChangeAnswered, Lists
    <2>6. \/ flights' = flights \cup {Sync("props", ch), SearchList("list", list, ch)}
          \/ flights' = flights \cup {Sync("props", ch)}
      BY <1>5 DEF ChangeAnswered
    <2>7. \E new \in SUBSET Flight : /\ flights' = flights \cup new
                                    /\ \A f \in new : f.by \in {"props", "list"}
      <3>1. CASE flights' = flights \cup {Sync("props", ch), SearchList("list", list, ch)}
        <4>1. {Sync("props", ch), SearchList("list", list, ch)} \in SUBSET Flight
          BY <2>3, <2>4
        <4> WITNESS {Sync("props", ch), SearchList("list", list, ch)} \in SUBSET Flight
        <4>2. QED BY <2>3, <2>4, <3>1
      <3>2. CASE flights' = flights \cup {Sync("props", ch)}
        <4>1. {Sync("props", ch)} \in SUBSET Flight
          BY <2>3
        <4> WITNESS {Sync("props", ch)} \in SUBSET Flight
        <4>2. QED BY <2>3, <3>2
      <3>3. QED BY <2>6, <3>1, <3>2
    <2>8. QED BY <1>2, <1>3, <2>2, <2>5, <2>7
  <1>6. QED BY <1>4, <1>5

(* The calls the header adds by itself. *)
LEMMA HeaderTicks ==
  ASSUME TypeOK, Tick \/ Notification \/ \E ch \in Channels : LeakedTick(ch)
  PROVE  /\ UNCHANGED <<kind, phase, store, uiVars, moves, disturbed>> /\ acts' \in 0..MaxActs
         /\ \E g \in Flight : g.by \in {"timer", "event", "leaked"} /\ flights' = flights \cup {g}
  <1>0. store \in Stores /\ acts \in 0..MaxActs
    BY TypeParts
  <1>1. CASE Tick
    <2>1. Sync("timer", header.timer) \in Flight /\ Sync("timer", header.timer).by = "timer"
      BY <1>0, <1>1, ChannelTypes, SyncType DEF Tick, Reasons
    <2>2. QED BY <1>0, <1>1, <2>1 DEF Tick, bounds
  <1>2. CASE Notification
    <2>1. Sync("event", header.known) \in Flight /\ Sync("event", header.known).by = "event"
      BY <1>0, ChannelTypes, SyncType DEF Reasons
    <2>2. QED BY <1>2, <2>1, ActsType DEF Notification
  <1>3. ASSUME NEW ch \in Channels, LeakedTick(ch)
        PROVE  /\ UNCHANGED <<kind, phase, store, uiVars, moves, disturbed>> /\ acts' = acts
               /\ \E g \in Flight : g.by \in {"timer", "event", "leaked"} /\ flights' = flights \cup {g}
    <2>1. Sync("leaked", ch) \in Flight /\ Sync("leaked", ch).by = "leaked"
      BY <1>0, SyncType DEF Reasons
    <2>2. QED BY <1>3, <2>1 DEF LeakedTick, bounds
  <1>4. QED BY <1>0, <1>1, <1>2, <1>3

LEMMA HandleChangeStep ==
  ASSUME TypeOK, NEW ch \in Channels, HandleChange(ch)
  PROVE  /\ header' \in Headers /\ header'.timer = NoChannel /\ header'.selected = ch
         /\ header'.leaked = header.leaked
         /\ \E g \in Flight : g.by = "change" /\ g.ch = ch /\ flights' = flights \cup {g}
         /\ moves' = moves \cup {ch} /\ disturbed' = (disturbed \/ Busy("change") \/ moves # {})
         /\ UNCHANGED <<kind, phase, store, tab, list>> /\ acts' \in 0..MaxActs
  <1>0. store \in Stores /\ header \in Headers
    BY TypeParts
  <1>1. header' = [header EXCEPT !.timer = NoChannel, !.modal = TRUE, !.selected = ch]
    BY DEF HandleChange
  <1>2. header' \in Headers /\ header'.timer = NoChannel /\ header'.selected = ch
        /\ header'.leaked = header.leaked
    BY <1>0, <1>1 DEF Headers
  <1>3. Sync("change", ch) \in Flight /\ Sync("change", ch).by = "change" /\ Sync("change", ch).ch = ch
    BY <1>0, SyncType DEF Reasons
  <1>4. QED BY <1>2, <1>3, ActsType DEF HandleChange, Act

LEMMA TypeStep == TypeOK /\ [Next]_vars => TypeOK'
  <1> SUFFICES ASSUME TypeOK, [Next]_vars PROVE TypeOK'
    OBVIOUS
  <1>0. /\ kind \in {"blocks", "transactions"} /\ phase \in {"landing", "app"}
        /\ store \in Stores /\ header \in Headers /\ tab \in Tabs /\ list \in Lists
        /\ flights \subseteq Flight /\ moves \subseteq Channels
        /\ disturbed \in BOOLEAN /\ acts \in 0..MaxActs
    BY TypeParts
  <1> DEFINE Typed == /\ kind' \in {"blocks", "transactions"} /\ phase' \in {"landing", "app"}
                      /\ store' \in Stores /\ header' \in Headers /\ tab' \in Tabs /\ list' \in Lists
                      /\ flights' \subseteq Flight /\ moves' \subseteq Channels
                      /\ disturbed' \in BOOLEAN /\ acts' \in 0..MaxActs
  <1> SUFFICES Typed
    BY TypeParts DEF TypeOK, Stores, Headers, Lists
  <1>1. ASSUME NEW f \in flights, NEW v \in f.asks, Answer(f, v) \/ AnswerFails(f, v) PROVE Typed
    <2>1. /\ Landed(f, v)
          /\ store' \in Stores /\ acts' \in 0..MaxActs
          /\ UNCHANGED <<kind, tab, moves, disturbed>>
      BY <1>1, AnswerStep
    <2>2. /\ header' \in Headers /\ list' \in Lists /\ phase' \in {"landing", "app"}
          /\ flights' \subseteq Flight
      BY <2>1, LandedStep
    <2>3. QED BY <1>0, <2>1, <2>2
  <1>2. CASE Tick \/ Notification \/ \E ch \in Channels : LeakedTick(ch)
    BY <1>0, <1>2, HeaderTicks DEF uiVars
  <1>3. ASSUME NEW ch \in Channels, HandleChange(ch) PROVE Typed
    <2>1. /\ header' \in Headers /\ flights' \subseteq Flight /\ moves' \subseteq Channels
          /\ UNCHANGED <<kind, phase, store, tab, list>> /\ acts' \in 0..MaxActs
      BY <1>0, <1>3, HandleChangeStep
    <2>2. disturbed' \in BOOLEAN
      BY <1>3, HandleChangeStep
    <2>3. QED BY <1>0, <2>1, <2>2
  <1>4. CASE CloseDialog
    <2>1. header' \in Headers
      BY <1>0, <1>4 DEF CloseDialog, Headers
    <2>2. acts' \in 0..MaxActs
      BY <1>4, ActsType DEF CloseDialog
    <2>3. UNCHANGED <<kind, phase, store, tab, list, flights, moves, disturbed>>
      BY <1>4 DEF CloseDialog
    <2>4. QED BY <1>0, <2>1, <2>2, <2>3
  <1>5. ASSUME NEW t \in Tabs, OpenTab(t) PROVE Typed
    <2>1. list' \in Lists /\ flights' \subseteq Flight
      BY <1>0, <1>5, MountType, ForgottenType DEF OpenTab
    <2>2. acts' \in 0..MaxActs /\ tab' \in Tabs
          /\ UNCHANGED <<kind, phase, store, header, moves, disturbed>>
      BY <1>5, ActsType DEF OpenTab, Act
    <2>3. QED BY <1>0, <2>1, <2>2
  <1>6. CASE ListSteps
    BY <1>0, <1>6, ListStep
  <1>7. ASSUME NEW ch \in Channels, ChangeAnswered(ch) PROVE Typed
    BY <1>0, <1>7, ChangeAnsweredStep
  <1>8. ASSUME NEW ch \in Channels, ChangeFails(ch) PROVE Typed
    BY <1>0, <1>8, ActsType DEF ChangeFails, uiVars
  <1>9. CASE UNCHANGED vars
    BY <1>0, <1>9 DEF vars, uiVars, bounds
  <1>10. QED
    BY <1>1, <1>2, <1>3, <1>4, <1>5, <1>6, <1>7, <1>8, <1>9, UserListSteps
    DEF Next, Answers, ListSteps

(* Every answer that may come is one some call asked for. *)
THEOREM TypeCorrect == Spec => []TypeOK
  BY TypeInit, TypeStep, PTL DEF Spec

-----------------------------------------------------------------------------
(* The interval of the header. *)

(* A change of the channel that is being loaded, and no other. *)
NotLost == ~Busy("change") => header.timer # NoChannel

Settling ==
  ~disturbed =>
    /\ header.leaked = {}
    /\ \A f \in flights : f.by = "change" => /\ header.timer = NoChannel /\ f.ch = header.selected
                                            /\ \A g \in flights : g.by = "change" => g = f
    /\ ~Busy("change") => header.timer = header.selected
    /\ moves \subseteq {header.selected}
    /\ moves = {} => store.channel = header.selected

(* Calls of other reasons come, go or move on. *)
LEMMA OtherCalls ==
  ASSUME NotLost, Settling,
         \A f : f.by = "change" => (f \in flights <=> f \in flights'),
         header'.timer = header.timer, header'.leaked = header.leaked
  PROVE  /\ NotLost'
         /\ ~disturbed => /\ header'.leaked = {}
                          /\ \A f \in flights' : f.by = "change" =>
                                /\ header'.timer = NoChannel /\ f.ch = header.selected
                                /\ \A g \in flights' : g.by = "change" => g = f
                          /\ ~Busy("change")' => header'.timer = header.selected
  BY DEF NotLost, Settling, Busy

LEMMA RefreshInit == Init => NotLost /\ Settling
  <1> SUFFICES ASSUME Init PROVE NotLost /\ Settling
    OBVIOUS
  <1>1. First \in Channels /\ First # NoChannel
    BY ClientAssumption
  <1>2. /\ store.channel = First /\ header.selected = First /\ header.timer = First
        /\ header.leaked = {} /\ moves = {}
    BY DEF Init
  <1>3. \A f \in flights : f.by = "load"
    BY DEF Init, Sync
  <1>4. QED BY <1>1, <1>2, <1>3 DEF NotLost, Settling, Busy

LEMMA RefreshStep ==
  TypeOK /\ NotLost /\ Settling /\ [Next]_vars => NotLost' /\ Settling'
  <1> SUFFICES ASSUME TypeOK, NotLost, Settling, [Next]_vars PROVE NotLost' /\ Settling'
    OBVIOUS
  <1>0. flights \subseteq Flight /\ disturbed \in BOOLEAN
    BY TypeParts
  <1>1. ASSUME NEW f \in flights, NEW v \in f.asks, Answer(f, v) \/ AnswerFails(f, v)
        PROVE  NotLost' /\ Settling'
    <2>1. Landed(f, v) /\ store'.channel = store.channel /\ UNCHANGED <<moves, disturbed>>
      BY <1>1, AnswerStep
    <2>2. header'.selected = header.selected
      BY <2>1, LandedStep
    <2>3. CASE /\ \E g \in Flight : g.by = f.by /\ g.ch = f.ch /\ flights' = (flights \ {f}) \cup {g}
               /\ header'.timer = header.timer /\ header'.leaked = header.leaked
      <3>1. PICK g \in Flight : g.by = f.by /\ g.ch = f.ch /\ flights' = (flights \ {f}) \cup {g}
        BY <2>3
      <3>2. NotLost'
        BY <2>3, <3>1 DEF NotLost, Busy
      <3>3. Settling'
        <4> SUFFICES ASSUME ~disturbed PROVE Settling'
          BY <2>1 DEF Settling
        <4>1. \A e \in flights' : e.by = "change" =>
                 /\ header'.timer = NoChannel /\ e.ch = header'.selected
                 /\ \A d \in flights' : d.by = "change" => d = e
          BY <2>2, <2>3, <3>1 DEF Settling
        <4>2. ~Busy("change")' => header'.timer = header'.selected
          BY <2>2, <2>3, <3>1 DEF Settling, Busy
        <4>3. QED BY <2>1, <2>2, <2>3, <4>1, <4>2 DEF Settling
      <3>4. QED BY <3>2, <3>3
    <2>4. CASE /\ f.by # "change"
               /\ \E new \in SUBSET Flight : /\ flights' = (flights \ {f}) \cup new
                                            /\ \A g \in new : g.by \in {"search", "list"}
               /\ header'.timer = header.timer /\ header'.leaked = header.leaked
      <3>1. \A e : e.by = "change" => (e \in flights <=> e \in flights')
        BY <2>4
      <3>2. QED BY <2>1, <2>2, <2>4, <3>1, OtherCalls DEF Settling
    <2>5. CASE /\ f.by = "change" /\ flights' = flights \ {f}
               /\ header'.timer = f.ch
               /\ header.timer = NoChannel => header'.leaked = header.leaked
      <3>1. f.ch \in Channels /\ f.ch # NoChannel
        BY <1>0, ClientAssumption DEF Flight
      <3>2. NotLost'
        BY <2>5, <3>1 DEF NotLost
      <3>3. Settling'
        <4> SUFFICES ASSUME ~disturbed PROVE Settling'
          BY <2>1 DEF Settling
        <4>1. header.timer = NoChannel /\ f.ch = header.selected /\ header.leaked = {}
              /\ \A e \in flights' : e.by # "change"
          BY <2>5 DEF Settling
        <4>2. QED BY <2>1, <2>2, <2>5, <4>1 DEF Settling
      <3>4. QED BY <3>2, <3>3
    <2>6. QED BY <2>1, <2>3, <2>4, <2>5, LandedStep
  <1>2. CASE Tick \/ Notification \/ \E ch \in Channels : LeakedTick(ch)
    <2>1. UNCHANGED <<store, header, moves, disturbed>>
          /\ \E g \in Flight : g.by \in {"timer", "event", "leaked"} /\ flights' = flights \cup {g}
      BY <1>2, HeaderTicks DEF uiVars
    <2>2. \A e : e.by = "change" => (e \in flights <=> e \in flights')
      BY <2>1
    <2>3. QED BY <2>1, <2>2, OtherCalls DEF Settling
  <1>3. ASSUME NEW ch \in Channels, HandleChange(ch) PROVE NotLost' /\ Settling'
    <2>1. PICK g \in Flight : g.by = "change" /\ g.ch = ch /\ flights' = flights \cup {g}
      BY <1>3, HandleChangeStep
    <2>2. /\ header'.timer = NoChannel /\ header'.selected = ch
          /\ header'.leaked = header.leaked
          /\ moves' = moves \cup {ch} /\ disturbed' = (disturbed \/ Busy("change") \/ moves # {})
      BY <1>3, HandleChangeStep
    <2>3. NotLost'
      BY <2>1 DEF NotLost, Busy
    <2>4. Settling'
      <3> SUFFICES ASSUME ~disturbed' PROVE Settling'
        BY DEF Settling
      <3>1. ~disturbed /\ ~Busy("change") /\ moves = {} /\ header.leaked = {}
        BY <2>2 DEF Settling
      <3>2. \A e \in flights' : e.by = "change" => e = g
        BY <2>1, <3>1 DEF Busy
      <3>3. QED BY <2>1, <2>2, <3>1, <3>2 DEF Settling, Busy
    <2>5. QED BY <2>3, <2>4
  <1>4. CASE CloseDialog
    <2>1. /\ UNCHANGED <<store, flights, moves, disturbed>>
          /\ header' = [header EXCEPT !.modal = FALSE]
      BY <1>4 DEF CloseDialog
    <2>2. header'.timer = header.timer /\ header'.leaked = header.leaked
          /\ header'.selected = header.selected
      BY <2>1, TypeParts DEF Headers
    <2>3. QED BY <2>1, <2>2, OtherCalls DEF Settling
  <1>5. ASSUME NEW t \in Tabs, OpenTab(t) PROVE NotLost' /\ Settling'
    <2>1. UNCHANGED <<store, header, moves, disturbed>> /\ flights' = Forgotten \cup MountSearch(t)
      BY <1>5 DEF OpenTab
    <2>2. \A f \in MountSearch(t) : f.by \in {"search", "list"}
      BY MountType, TypeParts
    <2>3. \A e : e.by = "change" => (e \in flights <=> e \in flights')
      BY <2>1, <2>2, ForgottenType
    <2>4. QED BY <2>1, <2>3, OtherCalls DEF Settling
  <1>6. CASE ListSteps
    <2>1. UNCHANGED <<store, header, moves, disturbed>>
          /\ \E new \in SUBSET Flight : /\ flights' = flights \cup new
                                       /\ \A f \in new : f.by \in {"search", "list"}
      BY <1>6, ListStep
    <2>2. \A e : e.by = "change" => (e \in flights <=> e \in flights')
      BY <2>1
    <2>3. QED BY <2>1, <2>2, OtherCalls DEF Settling
  <1>7. ASSUME NEW ch \in Channels, ChangeAnswered(ch) PROVE NotLost' /\ Settling'
    <2>1. /\ UNCHANGED disturbed
          /\ ch \in moves /\ moves' = moves \ {ch} /\ store'.channel = ch
          /\ header'.timer = header.timer /\ header'.leaked = header.leaked
          /\ header'.selected \in {header.selected, ch}
          /\ \E new \in SUBSET Flight : /\ flights' = flights \cup new
                                       /\ \A f \in new : f.by \in {"props", "list"}
      BY <1>7, ChangeAnsweredStep
    <2>2. \A e : e.by = "change" => (e \in flights <=> e \in flights')
      BY <2>1
    <2>3. NotLost'
      BY <2>1, <2>2, OtherCalls
    <2>4. Settling'
      <3> SUFFICES ASSUME ~disturbed PROVE Settling'
        BY <2>1 DEF Settling
      <3>1. ch = header.selected /\ header'.selected = header.selected /\ moves' = {}
        BY <2>1 DEF Settling
      <3>2. /\ header'.leaked = {}
            /\ \A f \in flights' : f.by = "change" =>
                  /\ header'.timer = NoChannel /\ f.ch = header.selected
                  /\ \A g \in flights' : g.by = "change" => g = f
            /\ ~Busy("change")' => header'.timer = header.selected
        BY <2>1, <2>2, OtherCalls
      <3>3. QED BY <2>1, <3>1, <3>2 DEF Settling
    <2>5. QED BY <2>3, <2>4
  <1>8. ASSUME NEW ch \in Channels, ChangeFails(ch) PROVE NotLost' /\ Settling'
    BY <1>8 DEF ChangeFails, uiVars, NotLost, Settling, Busy
  <1>9. CASE UNCHANGED vars
    BY <1>9 DEF vars, uiVars, bounds, NotLost, Settling, Busy
  <1>10. QED
    BY <1>1, <1>2, <1>3, <1>4, <1>5, <1>6, <1>7, <1>8, <1>9, UserListSteps
    DEF Next, Answers, ListSteps

LEMMA RefreshHolds == Spec => [](NotLost /\ Settling)
  BY TypeInit, TypeStep, RefreshInit, RefreshStep, PTL DEF Spec

(* However changes of the channel overlap or fail, the header refreshes. *)
THEOREM RefreshTheorem == Spec => []AlwaysRefreshed
  <1>1. NotLost => AlwaysRefreshed
    BY DEF NotLost, AlwaysRefreshed
  <1>2. QED BY <1>1, RefreshHolds, PTL

(* Changed one at a time and answered, the channel is the same everywhere. *)
THEOREM SettleTheorem == Spec => []ChangesSettle
  <1>1. Settling => ChangesSettle
    BY DEF Settling, ChangesSettle
  <1>2. QED BY <1>1, RefreshHolds, PTL
=============================================================================
