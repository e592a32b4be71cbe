----------------------------- MODULE ExplorerLists -----------------------------
(***************************************************************************)
(* The lists of Blocks.js and Transactions.js: page after page of what a   *)
(* window of time holds (blockAndTxList, txList: two statements each, over *)
(* tables that move), and the search for a range of blocks, block by block *)
(* from the database or else from the ledger (fetchDataByBlockRange).      *)
(***************************************************************************)
EXTENDS ExplorerCopy

CONSTANTS
  Elsewhere,             \* the <<blockid, creator>> of the other channels' transactions
  Day,                   \* the default window
  Size,                  \* rows per page
  Recent, Typed,         \* the searches of a list: the last day, or what was typed
  RangeLimit             \* the blocks a range may have

ASSUME ListsAssumption ==
  /\ Day \in Nat /\ {Size, RangeLimit} \subseteq Nat \ {0}
  /\ Typed \subseteq [from : Times, to : Times, orgs : SUBSET Orgs]
  /\ Recent \notin Typed

VARIABLES
  list, walk,            \* a paged list, and what was shown since its first page
  range                  \* a search for a range of blocks

lists == <<list, walk, range>>

-------------------------------------------------------------------------------
(* The paged lists. *)

By(o, orgs) == orgs = {} \/ o \in orgs

\* queryDatevalidator: what was typed, or the day before this very request.
DateWindow(s) ==
  IF s = Recent THEN [from |-> IF now > Day THEN now - Day ELSE 0, to |-> now, orgs |-> {}]
  ELSE s

\* The blocks of a window: those with a transaction of the organizations in it.
BlocksMatching(w) ==
  {b \in blocks : /\ Within(BlockTime(b), w)
                  /\ \E t \in Stored(b) : Within(Time[t], w) /\ By(Creator[t], w.orgs)}
TxsMatching(w) == {t \in txs : Within(Time[t], w) /\ By(Creator[t], w.orgs)}

\* The count of the blocks joins transactions by the number alone: those of
\* other channels, and of other days, count as well.
BlocksCounted(w) ==
  {b \in blocks : /\ Within(BlockTime(b), w)
                  /\ \/ \E t \in Stored(b) : By(Creator[t], w.orgs)
                     \/ \E e \in Elsewhere : e[1] = b /\ By(e[2], w.orgs)}

Matching(w) == IF list.table = "blocks" THEN BlocksMatching(w) ELSE TxsMatching(w)
Counted(w) == IF list.table = "blocks" THEN BlocksCounted(w) ELSE TxsMatching(w)

\* ORDER BY blocknum desc, and ORDER BY createdt desc, where ties are in no order.
Order(r) == IF list.table = "blocks" THEN r ELSE Time[r]
Ahead(S, T) == \A x \in S, y \in T : Order(x) >= Order(y)

\* LIMIT size OFFSET (page - 1) * size of the rows M.  What if it were page * size?
PagesAfter(M, before) ==
  {P \in SUBSET M : \E B \in SUBSET (M \ P) :
     /\ Cardinality(B) = Least(before, Cardinality(M))
     /\ Cardinality(P) = Least(Size, Cardinality(M) - Cardinality(B))
     /\ Ahead(B, M \ B) /\ Ahead(P, M \ (B \cup P))}
PagesFromOne(M, p) == PagesAfter(M, p * Size)
PagesOf(M, p) == PagesAfter(M, (p - 1) * Size)

\* Math.ceil.  What if the last page were left out when it is not full?
FullPages(n) == n \div Size
NumberOfPages(n) == (n + Size - 1) \div Size

Ask(l, s, p) ==
  list' = [l EXCEPT !.search = s, !.page = p, !.window = DateWindow(s),
                    !.pc = IF p = 1 THEN "count" ELSE "rows"]

\* The button is disabled while the dates are in the wrong order.
Submittable(s) == s.from <= s.to

\* The list is opened, searched, or its page turned by the arrows of the pager, by
\* a visitor who waits for the answer before.
SearchList(s) ==
  /\ Answering /\ list.pc = "idle"
  /\ s # Recent => list.page # 0 /\ Submittable(s)
  /\ Ask(list, s, 1)
  /\ UNCHANGED <<server, events, walk, range>>

\* The same page again is the interval of a minute.
TurnPage(p) ==
  /\ Answering /\ list.pc = "idle" /\ list.page > 0
  /\ \/ p = list.page
     \/ p = list.page + 1 /\ list.page # list.pages /\ list.shown # {}
     \/ p = list.page - 1 /\ p > 0 /\ list.shown # {}
  /\ Ask(list, list.search, p)
  /\ UNCHANGED <<server, events, walk, range>>

\* A walk begins when the rows of the first page are counted.
CountRows ==
  /\ Answering /\ list.pc = "count"
  /\ list' = [list EXCEPT !.pc = "rows", !.count = NumberOfPages(Cardinality(Counted(list.window)))]
  /\ walk' = [start |-> Matching(list.window), seen |-> {}, ever |-> {}, reached |-> 0]
  /\ UNCHANGED <<server, events, range>>

\* The reducer keeps the number of pages it has when none, or zero, comes.
ListRows ==
  /\ Answering /\ list.pc = "rows"
  /\ \E P \in PagesOf(Matching(list.window), list.page) :
       /\ list' = [list EXCEPT !.pc = "idle", !.shown = P, !.count = 0,
                               !.pages = IF list.count > 0 THEN list.count ELSE @]
       /\ walk' = [walk EXCEPT !.seen = @ \cup P, !.ever = @ \cup Matching(list.window),
                               !.reached = IF list.page > @ THEN list.page ELSE @]
  /\ UNCHANGED <<server, events, range>>

ListFails ==
  /\ Answering /\ list.pc \in {"count", "rows"} /\ Happens
  /\ Uncaught
  /\ list' = [list EXCEPT !.pc = "lost"]
  /\ UNCHANGED <<walk, range>>

-------------------------------------------------------------------------------
(* Blocks by number. *)

\* handleRangeSubmit and blockRangeSearch; asked is the height at that moment.
SearchBlockRange(lo, hi) ==
  /\ Answering /\ range.pc = "idle"
  /\ lo <= hi /\ hi - lo < RangeLimit
  /\ range' = [range EXCEPT !.pc = "db", !.lo = lo, !.hi = hi, !.at = lo, !.got = <<>>,
                            !.loaded = FALSE, !.page = 0, !.asked = height, !.failed = FALSE]
  /\ UNCHANGED <<server, events, list, walk>>

\* What is sent: the blocks, or 'Block(s) not found', which the browser loads as well.
Loaded(r, rows) == [r EXCEPT !.loaded = TRUE, !.shown = rows]
Finish(r) == [Loaded(r, r.got) EXCEPT !.pc = "idle", !.got = <<>>]
\* What if the loop ended before the last block?
EndsEarly(r, data) ==
  LET s == [r EXCEPT !.got = Append(@, data)] IN
    IF r.at + 1 >= r.hi THEN Finish(s) ELSE [s EXCEPT !.pc = "db", !.at = @ + 1]
Continue(r, data) ==
  LET s == [r EXCEPT !.got = Append(@, data)] IN
    IF r.at = r.hi THEN Finish(s) ELSE [s EXCEPT !.pc = "db", !.at = @ + 1]

RangeFromDatabase ==
  /\ Answering /\ range.pc = "db"
  /\ range' = IF InDatabase(range.at) THEN Continue(range, FromDatabase(range.at))
              ELSE [range EXCEPT !.pc = "peer"]
  /\ UNCHANGED <<server, events, list, walk>>

RangeFromLedger ==
  /\ Answering /\ range.pc = "peer"
  /\ range' = IF InLedger(range.at) THEN Continue(range, FromLedger(range.at)) ELSE Finish(range)
  /\ UNCHANGED <<server, events, list, walk>>

\* queryBlock catches the failure and returns null, as for a block there is not.
RangePeerFails ==
  /\ Answering /\ range.pc = "peer" /\ Happens
  /\ range' = Finish([range EXCEPT !.failed = TRUE])
  /\ UNCHANGED <<server, list, walk>>

RangeFails ==
  /\ Answering /\ range.pc = "db" /\ Happens
  /\ Uncaught
  /\ range' = [range EXCEPT !.pc = "lost"]
  /\ UNCHANGED <<list, walk>>

\* What was loaded is shown in pages, the last block first; the browser counts them.
RangePages == NumberOfPages(Len(range.shown))
RangeRows(p) ==
  LET last == Len(range.shown) - p * Size
      first == IF last > Size THEN last - Size + 1 ELSE 1
  IN SubSeq(range.shown, first, last)
RangeShown == range.loaded /\ RangeRows(range.page) # <<>>

TurnRangePage(p) ==
  /\ RangeShown /\ p >= 0
  /\ \/ p = range.page - 1
     \/ p = range.page + 1 /\ p # RangePages
  /\ range' = [range EXCEPT !.page = p]
  /\ UNCHANGED <<server, events, list, walk>>

-------------------------------------------------------------------------------
ListsInit ==
  /\ \E table \in {"blocks", "txs"} :
       list = [table |-> table, pc |-> "idle", search |-> Recent, page |-> 0,
               window |-> [from |-> 0, to |-> 0, orgs |-> {}], count |-> 0, pages |-> 0, shown |-> {}]
  /\ kind # "list" => list.table = "blocks"
  /\ walk = [start |-> {}, seen |-> {}, ever |-> {}, reached |-> 0]
  /\ range = [pc |-> "idle", lo |-> 0, hi |-> 0, at |-> 0, got |-> <<>>, loaded |-> FALSE,
              shown |-> <<>>, page |-> 0, asked |-> 0, failed |-> FALSE]

PagedList ==
  \/ \E s \in {Recent} \cup Typed : SearchList(s)
  \/ \E p \in 1..(Cardinality(Txs) + Cardinality(Elsewhere)) : TurnPage(p)
  \/ CountRows \/ ListRows \/ ListFails
RangeSearch ==
  \/ \E lo, hi \in 0..(MaxBlock + 1) : SearchBlockRange(lo, hi)
  \/ RangeFromDatabase \/ RangeFromLedger \/ RangePeerFails \/ RangeFails
  \/ \E p \in Blocks : TurnRangePage(p)

-------------------------------------------------------------------------------
(* Properties. *)

ListsOK ==
  /\ list.pc \in {"idle", "count", "rows", "lost"} /\ {list.page, list.pages} \subseteq Nat
  /\ list.pc = "idle" => list.shown \subseteq walk.seen
  /\ range.pc \in {"idle", "db", "peer", "lost"} /\ range.lo <= range.hi

\* Nothing a list had when it was opened is skipped by whoever turns its pages one
\* by one: a row not shown yet ranks behind the pages seen, whatever was stored
\* meanwhile (getBlockAndTxList, getTxList).  It may be skipped only among
\* transactions of one time, which createdt leaves in no order, or when a block
\* before it leaves the last day that every request takes anew.
Rank(r, M) == Cardinality({x \in M : Order(x) >= Order(r)})
Tied(r) == list.table = "txs" /\ \E x \in walk.ever \ {r} : Order(x) = Order(r)
LeftBefore(r, M) == \E x \in walk.ever \ M : Order(x) > Order(r)
Unseen == (walk.start \cap Matching(list.window)) \ walk.seen
NothingSkipped ==
  list.pc = "idle" =>
    \A r \in Unseen :
      LET M == Matching(list.window) IN
        \/ Tied(r) \/ LeftBefore(r, M)
        \/ /\ Rank(r, M) > walk.reached * Size
           \* and on the last page only what newcomers pushed off it is missing
           /\ list.page = list.pages => \E x \in M \ walk.start : Order(x) >= Order(r)

\* A range comes whole, block after block, up to what the ledger had when it was
\* asked, wherever the copy stands, unless a peer failed; and the pager never stands
\* on a page the range does not have (dataByBlockNo, fetchDataByBlockRange, Blocks).
RangeIsTrue ==
  range.loaded =>
    /\ \A i \in DOMAIN range.shown : range.shown[i] = FromLedger(range.lo + i - 1)
    /\ range.failed \/ range.lo + Len(range.shown) > Least(range.hi, range.asked - 1)
    /\ range.shown # <<>> => RangeRows(range.page) # <<>>
===============================================================================
