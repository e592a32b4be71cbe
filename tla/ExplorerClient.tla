---------------------------- MODULE ExplorerClient ----------------------------
(***************************************************************************)
(* The browser side of Explorer: the landing page that loads everything    *)
(* once, the header that refreshes it (every minute, on a websocket        *)
(* notification, when the user changes the channel), and a paged list with *)
(* its own refresh: kind says whether it is the list of blocks or the one  *)
(* of transactions.  They share the redux store, where the last answer     *)
(* wins; an answer does not say to which request it belongs.               *)
(*                                                                         *)
(* What an answer holds is abstracted to what was asked: the channel, and  *)
(* for a list also the query and the page.  All the views                  *)
(* of the dashboard are the one view Dash: they are asked for together.    *)
(***************************************************************************)
EXTENDS Naturals, FiniteSets

CONSTANTS
  Channels, First,      \* and the one of the connection profile, curChannel
  Searches, Recent,     \* queries typed in the form; '' is the last day
  PagesOf,              \* the pages a channel fills
  NoChannel,
  MaxActs               \* bound of user acts, notifications and failures

ASSUME ClientAssumption ==
  /\ First \in Channels /\ NoChannel \notin Channels
  /\ Recent \notin Searches
  /\ PagesOf \in [Channels -> Nat \ {0}]
  /\ MaxActs \in Nat

Queries == Searches \cup {Recent}
Views == {"dash", "list"}
Tabs == {"dashboard", "list"}
LastPage == 10                \* bound of the pages a user turns to
Pages == 1..LastPage
ListParams == [q : Queries, page : Pages]
DefaultParams == [q |-> Recent, page |-> 1]

VARIABLES
  kind,         \* which of the two lists the tab "list" is
  phase,        \* "landing" until the first load has ended
  store,        \* redux: channel, dash, rows and pages of the list
  header,       \* HeaderView: selected, known (state.currentChannel), modal, timers
  tab, list,    \* the tab shown and, if it is a list, its component's state
  flights,      \* the calls whose answers are awaited
  moves,        \* the changeChannel requests in flight
  disturbed,    \* a change of the channel failed, or began before the last had ended
  acts

uiVars == <<header, tab, list>>
bounds == <<disturbed, acts>>
vars == <<kind, phase, store, uiVars, flights, moves, bounds>>

\* A call: why it was made, the channel it is for, the views not answered yet
\* and the parameters it sent for the list.
Reasons == {"load", "timer", "leaked", "event", "props", "change", "search", "list"}
Flight == [by : Reasons, ch : Channels, asks : SUBSET Views,
           params : ListParams]
NewList == [page |-> 0, form |-> Recent, queryFlag |-> FALSE,
            defaultQuery |-> TRUE, search |-> FALSE, timer |-> FALSE]

TypeOK ==
  /\ kind \in {"blocks", "transactions"} /\ phase \in {"landing", "app"}
  /\ store \in [channel : Channels, dash : Channels \cup {NoChannel},
                rows : [ch : Channels \cup {NoChannel}, params : ListParams],
                pages : Channels \cup {NoChannel}]
  /\ header \in [selected : Channels, known : Channels, modal : BOOLEAN,
                 timer : Channels \cup {NoChannel}, leaked : SUBSET Channels]
  /\ tab \in Tabs
  /\ list \in [page : 0..LastPage - 1, form : Queries, queryFlag : BOOLEAN, defaultQuery : BOOLEAN, search : BOOLEAN, timer : BOOLEAN]
  /\ flights \subseteq Flight /\ moves \subseteq Channels
  /\ disturbed \in BOOLEAN
  /\ acts \in 0..MaxActs

-----------------------------------------------------------------------------
(* The calls. *)

\* syncData(ch): everything for ch, the list as it was last answered.
Sync(by, ch) == [by |-> by, ch |-> ch, asks |-> Views, params |-> store.rows.params]

\* The query a list asks for: the form once after Search, the last day once
\* after the list is opened, and otherwise the query last answered.
Query(s) == IF s.queryFlag THEN s.form
            ELSE IF s.defaultQuery THEN Recent ELSE store.rows.params.q
Asked(s) == IF s.queryFlag THEN [s EXCEPT !.queryFlag = FALSE]
                           ELSE [s EXCEPT !.defaultQuery = FALSE]
\* searchBlockList, searchTransactionList, of the list in state s.
\* What if a list asked, as the header does, for the page last answered, or
\* counted from zero?
PageAnswered(s) == store.rows.params.page
PageFromZero(s) == s.page
PageAsked(s) == s.page + 1

SearchList(by, s, ch) ==
  [by |-> by, ch |-> ch, asks |-> {"list"}, params |-> [q |-> Query(s), page |-> PageAsked(s)]]

Init ==
  /\ kind \in {"blocks", "transactions"} /\ phase = "landing"
  /\ store = [channel |-> First, dash |-> NoChannel,
              rows |-> [ch |-> NoChannel, params |-> DefaultParams], pages |-> NoChannel]
  /\ header = [selected |-> First, known |-> First, modal |-> FALSE,
               timer |-> First, leaked |-> {}]
  /\ tab \in Tabs /\ list = NewList
  /\ flights = {Sync("load", First)}
  /\ moves = {}
  /\ disturbed = FALSE /\ acts = 0

-----------------------------------------------------------------------------
(* Answers, in any order. *)

\* The reducers.  The number of pages comes with page 1 only, and is kept.
Reduced(v, f) ==
  IF v = "dash" THEN [store EXCEPT !.dash = f.ch]
  ELSE [store EXCEPT !.rows = [ch |-> f.ch, params |-> f.params],
                     !.pages = IF f.params.page = 1 THEN f.ch ELSE @]

\* What if the interval were started for the channel of the state?
RestartedForKnown(h, ch) == [h EXCEPT !.timer = h.known]

\* The interval that handleChange starts after its syncData; whatever interval
\* another handleChange started meanwhile can no longer be cleared.
Restarted(h, ch) ==
  [h EXCEPT !.timer = ch,
            !.leaked = IF h.timer = NoChannel THEN @ ELSE @ \cup {h.timer}]

\* What if syncData did not close the dialog, or handleChange did not start its
\* interval again?
LeftOpen(f, h) == IF f.by = "change" THEN Restarted(h, f.ch) ELSE h
NotRestarted(f, h) == [h EXCEPT !.modal = FALSE]

\* What follows the last answer of a call.
Closed(f, h) ==
  CASE f.by \in {"timer", "leaked", "event", "props"} -> [h EXCEPT !.modal = FALSE]
    [] f.by = "change" -> Restarted([h EXCEPT !.modal = FALSE], f.ch)
    [] OTHER -> h

\* componentWillReceiveProps keeps the channel of the props it had.
Received(v, h) == IF v = "dash" THEN [h EXCEPT !.known = store.channel] ELSE h

\* The tab the address names is mounted when the landing page goes: the list of
\* blocks searches once, the list of transactions also starts its interval.
Mounted(t) == IF t = "dashboard" THEN NewList
              ELSE [Asked(NewList) EXCEPT !.timer = (kind = "transactions")]
MountSearch(t) ==
  IF t = "dashboard" THEN {}
  ELSE {SearchList(IF kind = "transactions" THEN "search" ELSE "list", NewList, store.channel)}

Landed(f, v) ==
  \/ /\ f.asks # {v}
     /\ flights' = (flights \ {f}) \cup {[f EXCEPT !.asks = @ \ {v}]}
     /\ header' = Received(v, header)
     /\ UNCHANGED <<list, phase>>
  \/ /\ f.asks = {v} /\ f.by # "load"
     /\ flights' = flights \ {f}
     /\ header' = Closed(f, Received(v, header))
     /\ list' = IF f.by = "search" THEN [list EXCEPT !.search = TRUE] ELSE list
     /\ UNCHANGED phase
  \/ /\ f.asks = {v} /\ f.by = "load"
     /\ phase' = "app"
     /\ flights' = (flights \ {f}) \cup MountSearch(tab)
     /\ list' = Mounted(tab)
     /\ header' = Received(v, header)

Answer(f, v) ==
  /\ f \in flights /\ v \in f.asks
  /\ store' = Reduced(v, f)
  /\ Landed(f, v)
  /\ UNCHANGED <<kind, tab, moves, bounds>>

\* What nobody is obliged to do.
Happens == acts < MaxActs /\ acts' = acts + 1

\* An error status or a network error: the operation catches it.
AnswerFails(f, v) ==
  /\ f \in flights /\ v \in f.asks
  /\ Happens
  /\ Landed(f, v)
  /\ UNCHANGED <<kind, store, tab, moves, disturbed>>

-----------------------------------------------------------------------------
(* The header. *)

Busy(by) == \E f \in flights : f.by = by
Ready == phase = "app"

\* A minute is longer than an answer takes.
Tick ==
  /\ Ready /\ header.timer # NoChannel /\ ~Busy("timer")
  /\ flights' = flights \cup {Sync("timer", header.timer)}
  /\ UNCHANGED <<kind, phase, store, uiVars, moves, bounds>>
LeakedTick(ch) ==
  /\ Ready /\ ch \in header.leaked /\ ~Busy("leaked")
  /\ flights' = flights \cup {Sync("leaked", ch)}
  /\ UNCHANGED <<kind, phase, store, uiVars, moves, bounds>>

\* handleData: a block was added to some channel.
Notification ==
  /\ Ready /\ Happens
  /\ flights' = flights \cup {Sync("event", header.known)}
  /\ UNCHANGED <<kind, phase, store, uiVars, moves, disturbed>>

Act == Ready /\ ~header.modal /\ Happens

\* handleChange; the dialog it opens keeps the user from the page.
HandleChange(ch) ==
  /\ Act /\ Cardinality(Channels) > 1
  /\ header' = [header EXCEPT !.timer = NoChannel, !.modal = TRUE, !.selected = ch]
  /\ moves' = moves \cup {ch}
  /\ flights' = flights \cup {Sync("change", ch)}
  /\ disturbed' = (disturbed \/ Busy("change") \/ moves # {})
  /\ UNCHANGED <<kind, phase, store, tab, list>>

\* A click beside the dialog closes it.
CloseDialog ==
  /\ header.modal /\ Happens
  /\ header' = [header EXCEPT !.modal = FALSE]
  /\ UNCHANGED <<kind, phase, store, tab, list, flights, moves, disturbed>>

\* CHANGE_CHANNEL: the header synchronizes once more, and a list that has been
\* searched asks again, for the page it is on.
ChangeAnswered(ch) ==
  /\ ch \in moves /\ moves' = moves \ {ch}
  /\ store' = [store EXCEPT !.channel = ch]
  /\ IF ch = store.channel
     THEN UNCHANGED <<header, list, flights>>
     ELSE /\ header' = [header EXCEPT !.known = store.channel, !.selected = ch]
          /\ IF list.search
             THEN /\ list' = [Asked(list) EXCEPT !.timer = TRUE]
                  /\ flights' = flights \cup {Sync("props", ch), SearchList("list", list, ch)}
             ELSE /\ flights' = flights \cup {Sync("props", ch)}
                  /\ UNCHANGED list
  /\ UNCHANGED <<kind, phase, tab, bounds>>

ChangeFails(ch) ==
  /\ ch \in moves /\ moves' = moves \ {ch}
  /\ Happens
  /\ disturbed' = TRUE
  /\ UNCHANGED <<kind, phase, store, uiVars, flights>>

-----------------------------------------------------------------------------
(* The lists. *)

\* handleSearch of the list in state s.
HandleSearch(s) ==
  /\ list' = [Asked(s) EXCEPT !.timer = TRUE]
  /\ flights' = flights \cup {SearchList("search", s, store.channel)}

\* An open list is unmounted, and its answers find no component any more.
Forgotten == {IF f.by = "search" THEN [f EXCEPT !.by = "list"] ELSE f : f \in flights}
OpenTab(t) ==
  /\ Act /\ t # tab /\ tab' = t
  /\ list' = Mounted(t)
  /\ flights' = Forgotten \cup MountSearch(t)
  /\ UNCHANGED <<kind, phase, store, header, moves, disturbed>>

ListAct == Act /\ tab = "list"
           /\ UNCHANGED <<kind, phase, store, header, tab, moves, disturbed>>

\* The pager is there when the rows are not empty; its arrows follow the number
\* of pages last answered.
Shown == store.rows
PagerShown == Shown.ch # NoChannel /\ Shown.params.page <= PagesOf[Shown.ch]
NextEnabled == store.pages = NoChannel \/ list.page + 1 # PagesOf[store.pages]

HandlePageChange(p) ==
  /\ ListAct /\ PagerShown
  /\ \/ p = list.page + 1 /\ NextEnabled /\ p < LastPage
     \/ p + 1 = list.page
  /\ HandleSearch([list EXCEPT !.page = p])

\* Other rows per page: back to page 0.
HandleRowsChange ==
  /\ ListAct /\ PagerShown
  /\ HandleSearch([list EXCEPT !.page = 0])

Search(q) ==
  /\ ListAct
  /\ HandleSearch([list EXCEPT !.page = 0, !.form = q, !.queryFlag = TRUE,
                                    !.defaultQuery = FALSE])

\* Only the list of blocks also stops its interval.
HandleClearSearch ==
  /\ ListAct
  /\ list' = [list EXCEPT !.form = Recent, !.timer = @ /\ kind = "transactions"]
  /\ UNCHANGED flights

ListTick ==
  /\ tab = "list" /\ list.timer /\ ~Busy("list") /\ ~Busy("search")
  /\ list' = Asked(list)
  /\ flights' = flights \cup {SearchList("list", list, store.channel)}
  /\ UNCHANGED <<kind, phase, store, header, tab, moves, bounds>>

-----------------------------------------------------------------------------
User ==
  \/ \E ch \in Channels : HandleChange(ch)
  \/ CloseDialog
  \/ \E t \in Tabs : OpenTab(t)
  \/ \E p \in 0..LastPage - 1 : HandlePageChange(p)
  \/ HandleRowsChange
  \/ \E q \in Searches : Search(q)
  \/ HandleClearSearch
Answers == \E f \in flights : \E v \in f.asks : Answer(f, v)
Next ==
  \/ User \/ Answers \/ Tick \/ ListTick \/ Notification
  \/ \E f \in flights : \E v \in f.asks : AnswerFails(f, v)
  \/ \E ch \in Channels : LeakedTick(ch) \/ ChangeAnswered(ch) \/ ChangeFails(ch)

\* Requests are answered and intervals fire; the user and the network need not.
Fairness ==
  /\ \A by \in Reasons : WF_vars(\E f \in flights : f.by = by /\ \E v \in f.asks : Answer(f, v))
  /\ WF_vars(Tick) /\ WF_vars(ListTick)
  /\ \A ch \in Channels : WF_vars(ChangeAnswered(ch))
Spec == Init /\ [][Next]_vars /\ Fairness

-----------------------------------------------------------------------------
(* Properties. *)

\* The header never stops refreshing: whatever overlaps or fails, once no
\* change of the channel is being loaded an interval runs.
AlwaysRefreshed == Ready /\ ~Busy("change") => header.timer # NoChannel

\* Changed one at a time and answered, the channel ends up the same everywhere:
\* the one selected, the one in the store, and the only one refreshed.
ChangesSettle ==
  Ready /\ ~disturbed /\ ~Busy("change") /\ moves = {} =>
    /\ header.timer = store.channel /\ header.selected = store.channel
    /\ header.leaked = {}

\* The dialog 'Loading Channel Details' closes, also when requests fail.
DialogCloses == header.modal ~> ~header.modal

\* A list that refreshes itself shows the page its pager says, of the current
\* channel, again and again, although the header asks for the page last
\* answered and the answers of both arrive in any order.
ListFollowsPager ==
  <>[](tab = "list" /\ list.timer)
    => []<>(Shown.params.page = list.page + 1 /\ Shown.ch = store.channel)
===============================================================================
