---------------------------- MODULE ExplorerFigures ----------------------------
(***************************************************************************)
(* The figures Explorer shows of a channel, each read by a request of its  *)
(* own, statement by statement, while what they count goes on moving: the  *)
(* counts, organizations, charts and activity of the dashboard, the nodes  *)
(* with their status, the channels and the chaincodes (MetricService and   *)
(* Proxy behind dbroutes and platformroutes, and the thunks and reducers   *)
(* of the browser's store that ask for them and keep them).                *)
(***************************************************************************)
EXTENDS ExplorerCopy

CONSTANTS
  Period, Unit,          \* what a chart looks back on, and truncates times to
  Latest,                \* the blocks of the activity
  MaxReports             \* bound of the requests

ASSUME FiguresAssumption ==
  /\ {Period, MaxReports} \subseteq Nat /\ {Unit, Latest} \subseteq Nat \ {0}
  /\ Period % Unit = 0

VARIABLES
  report,                \* the request under way
  figure                 \* what the store keeps of the last answer

figures == <<report, figure>>

\* The statements, and queries of a peer, of each request, in their order.
Statements ==
  [status |-> <<"chaincodes", "txs", "blocks", "peers">>, orgs |-> <<"senders", "members">>,
   txChart |-> <<"units">>, blockChart |-> <<"units">>, activity |-> <<"latest">>,
   nodes |-> <<"orderers", "rows", "discovery">>, channels |-> <<"channel", "ends", "height">>,
   chaincodes |-> <<"chaincode">>]
Reports == DOMAIN Statements

\* The world at a moment, to compare the answer with.
Moment ==
  [txs |-> txs, blocks |-> blocks, counter |-> counter, height |-> height, now |-> now,
   nodes |-> nodes, lives |-> lives]

-------------------------------------------------------------------------------
(* What the statements return. *)

\* getTxByOrgs: those that sent something, then the members that did not.
CreatedBy(o) == {t \in txs : Creator[t] = o}
Senders == {<<o, Cardinality(CreatedBy(o))>> : o \in {p \in Orgs : CreatedBy(p) # {}}}
Mspids == {OrgOf[n] : n \in nodes}
\* What if the members that sent something were not taken out?
EveryMember(rows) == rows \cup {<<o, 0>> : o \in Mspids}
Members(rows) == rows \cup {<<o, 0>> : o \in {p \in Mspids : \A g \in rows : g[1] # p}}

\* getTxByMinute and its like: a series of units, and the rows of each.
Trunc(time) == (time \div Unit) * Unit
\* What if the series began one unit later?
UnitsAfter == {Trunc(now) - Period + k * Unit : k \in 1..(Period \div Unit)}
Units == {Trunc(now) - Period + k * Unit : k \in 0..(Period \div Unit)}
Charted == IF kind = "txChart" THEN txs ELSE blocks
ChartTime(r) == IF kind = "txChart" THEN Time[r] ELSE BlockTime(r)
Chart == [u \in Units |-> Cardinality({r \in Charted : Trunc(ChartTime(r)) = u})]

Activity == {FromDatabase(b) : b \in {c \in blocks : Cardinality({d \in blocks : d > c}) < Latest}}

\* getTxPerChaincodeGenerate and getPeerData read what the rows hold; the channel's own peer
\* answers the height, its discovery service the nodes that are connected.
TxPerChaincode == counter.txs
PeerData == nodes
ChainInfo == height
ActiveOrderers == {n \in Orderers : Up(n)}
DiscoveredPeers == {n \in Peers : Up(n)}

\* getChannelsInfo and getLatestBlockTime: the age of the block with the latest time,
\* left out when it is none.
LatestTime(B) == CHOOSE x \in {BlockTime(b) : b \in B} : \A b \in B : BlockTime(b) <= x
Age == LET latest == LatestTime(blocks) IN IF now > latest THEN now - latest ELSE 0
Listed == blocks # {} /\ nodes # {}

Result(statement, got) ==
  CASE statement = "chaincodes" -> 1
    [] statement = "txs" -> Cardinality(txs)
    [] statement = "blocks" -> Cardinality(blocks)
    [] statement = "peers" -> Cardinality(nodes \cap Peers)
    [] statement = "senders" -> Senders
    [] statement = "members" -> Members(got["senders"])
    [] statement = "units" -> [at |-> now, counts |-> Chart]
    [] statement = "latest" -> Activity
    [] statement = "orderers" -> ActiveOrderers
    [] statement = "rows" -> PeerData
    [] statement = "discovery" -> DiscoveredPeers
    [] statement = "channel" -> [blocks |-> counter.blocks, age |-> Age]
    [] statement = "ends" -> Nodes
    [] statement = "height" -> ChainInfo
    [] statement = "chaincode" -> TxPerChaincode

\* getPeersStatus: nothing is known of the peers when the discovery failed, and a peer
\* whose organization has no live one is left out.
Discovered(got) == "discovery" \in DOMAIN got
InPeerList(got) ==
  {n \in got["rows"] : \/ n \in Orderers \/ ~Discovered(got)
                       \/ \E p \in got["discovery"] : OrgOf[p] = OrgOf[n]}
Status(got, n) ==
  CASE n \in Orderers -> IF n \in got["orderers"] THEN "UP" ELSE "DOWN"
    [] n \in Peers /\ ~Discovered(got) -> ""
    [] OTHER -> IF n \in got["discovery"] THEN "UP" ELSE "DOWN"
\* What if a peer were up whenever its organization is known?
OrgStatus(got, n) ==
  IF n \in Peers /\ Discovered(got) THEN "UP" ELSE Status(got, n)

-------------------------------------------------------------------------------
(* A request, and its answer in the store. *)

With(got, s, result) == [x \in DOMAIN got \cup {s} |-> IF x = s THEN result ELSE got[x]]
Ended(r) == [r EXCEPT !.pc = "sent", !.todo = <<>>]
After(r, got) ==
  LET s == [r EXCEPT !.got = got, !.todo = Tail(@)] IN IF s.todo = <<>> THEN Ended(s) ELSE s

AskReport ==
  /\ Answering /\ report.pc = "idle" /\ report.sent < MaxReports
  /\ report' = [pc |-> "db", todo |-> Statements[kind], got |-> <<>>, asked |-> Moment,
                sent |-> report.sent + 1]
  /\ UNCHANGED <<server, events, figure>>

\* Without a row of the channel there is nothing to ask the peer.
QueryFigures ==
  /\ Answering /\ report.pc = "db"
  /\ LET s == Head(report.todo) IN
       report' = IF s = "channel" /\ ~Listed THEN Ended(report)
                 ELSE After(report, With(report.got, s, Result(s, report.got)))
  /\ UNCHANGED <<server, events, figure>>

\* What becomes of a failure: it is answered as 'not found', an empty list or an error,
\* the result is left out, or nobody catches it.
Caught == [chaincodes |-> "none", txs |-> "none", blocks |-> "none", peers |-> "none",
           chaincode |-> "none", channel |-> "error", discovery |-> "left out",
           ends |-> "left out", height |-> "left out"]

FiguresFail ==
  /\ Answering /\ report.pc = "db" /\ Happens
  /\ LET s == Head(report.todo) IN
       IF s \notin DOMAIN Caught
       THEN Uncaught /\ report' = [report EXCEPT !.pc = "lost"]
       ELSE /\ UNCHANGED server
            /\ report' = CASE Caught[s] = "left out" -> After(report, report.got)
                           [] Caught[s] = "none" -> [Ended(report) EXCEPT !.got = <<>>]
                           [] Caught[s] = "error" -> [Ended(report) EXCEPT !.pc = "refused"]
  /\ UNCHANGED figure

\* The reducer keeps the answer, be it 'not found'; an error leaves what it had.
DeliverFigures ==
  /\ report.pc \in {"sent", "refused"}
  /\ figure' = IF report.pc = "sent" THEN [got |-> report.got, asked |-> report.asked] ELSE figure
  /\ report' = [report EXCEPT !.pc = "idle"]
  /\ UNCHANGED <<server, events>>

LoseFigures ==
  /\ report.pc # "idle"
  /\ \/ server = "down" /\ UNCHANGED events
     \/ Happens
  /\ report' = [report EXCEPT !.pc = "idle", !.todo = <<>>]
  /\ UNCHANGED <<server, figure>>

FiguresInit ==
  /\ report = [pc |-> "idle", todo |-> <<>>, got |-> <<>>, asked |-> Moment, sent |-> 0]
  /\ figure = [got |-> <<>>, asked |-> Moment]

Figures == AskReport \/ QueryFigures \/ FiguresFail \/ DeliverFigures \/ LoseFigures

-------------------------------------------------------------------------------
(* Properties. *)

FiguresOK ==
  /\ report.pc \in {"idle", "db", "sent", "refused", "lost"} /\ report.sent \in 0..MaxReports
  /\ report.pc = "db" => report.todo # <<>>
  /\ kind \in Reports => DOMAIN figure.got \subseteq {Statements[kind][i] : i \in DOMAIN Statements[kind]}

\* What the store shows is of the time between its request and its answer, though each
\* statement saw another moment, and it stays so when later requests fail:
Shows(k, statement) == kind = k /\ statement \in DOMAIN figure.got
Shown(statement) == figure.got[statement]
Between(S, n, T) == Cardinality(S) <= n /\ n <= Cardinality(T)

\* the counts (getStatusGenerate), also that of a chaincode (getTxPerChaincode);
StatusIsCurrent ==
  Shows("status", "peers") =>
    /\ Between(figure.asked.txs, Shown("txs"), txs)
    /\ Between(figure.asked.blocks, Shown("blocks"), blocks)
    /\ Between(figure.asked.nodes \cap Peers, Shown("peers"), nodes)
ChaincodeIsCurrent ==
  Shows("chaincodes", "chaincode") =>
    figure.asked.counter.txs <= Shown("chaincode") /\ Shown("chaincode") <= Cardinality(txs \cap Invocations)

\* each organization once, with what it created (getTxByOrgs of Proxy);
OrgsAreCurrent ==
  Shows("orgs", "members") =>
    LET asked == figure.asked
        rows == Shown("members")
    IN /\ \A g, h \in rows : g[1] = h[1] => g = h
       /\ \A o \in {OrgOf[n] : n \in asked.nodes} \cup {Creator[t] : t \in asked.txs} :
            o # NoOrg => \E g \in rows :
              g[1] = o /\ Between({t \in asked.txs : Creator[t] = o}, g[2], CreatedBy(o))

\* every row of the period of a chart once, and none older than its first unit
\* (getTxByMinute, getBlocksByMinute and those of the hours);
ChartIsCurrent ==
  \A k \in {"txChart", "blockChart"} : Shows(k, "units") =>
    LET at == Shown("units").at
        asked == IF k = "txChart" THEN figure.asked.txs ELSE figure.asked.blocks
    IN Between({r \in asked : Within(ChartTime(r), [from |-> at - Period, to |-> at])},
               Total(Shown("units").counts),
               {r \in Charted : Within(ChartTime(r), [from |-> Trunc(at) - Period, to |-> at + Unit])})

\* the latest blocks, whole (getBlockActivityList);
ActivityIsCurrent ==
  Shows("activity", "latest") =>
    LET nums == {g.num : g \in Shown("latest")} IN
      /\ \A g \in Shown("latest") : g = FromLedger(g.num)
      /\ \A b \in figure.asked.blocks \ nums : Cardinality(nums) = Latest /\ \A n \in nums : n > b

\* a node that did not move has its right status, or none was to be had, and is left
\* out only with its whole organization (getPeersStatus);
Moved(n) == lives[n] # figure.asked.lives[n]
NodesAreCurrent ==
  Shows("nodes", "rows") =>
    LET got == figure.got IN
      /\ figure.asked.nodes \subseteq got["rows"]
      /\ \A n \in InPeerList(got) :
           Moved(n) \/ Status(got, n) \in {"", IF Up(n) THEN "UP" ELSE "DOWN"}
      /\ \A n \in got["rows"] \ InPeerList(got) :
           \A p \in Peers : OrgOf[p] = OrgOf[n] => Moved(p) \/ ~Up(p)

\* the blocks recorded of a channel never more than its height, and neither they nor the
\* age of the last one older than the request (getChannelsInfo, getLatestBlockTime).
ChannelsAreCurrent ==
  Shows("channels", "channel") =>
    LET row == Shown("channel") IN
      /\ figure.asked.counter.blocks <= row.blocks
      /\ \/ row.age = 0 \/ figure.asked.blocks = {}
         \/ row.age <= now - LatestTime(figure.asked.blocks)
      /\ "height" \in DOMAIN figure.got =>
           row.blocks <= Shown("height") /\ figure.asked.height <= Shown("height") /\ Shown("height") <= height

FiguresAreCurrent ==
  /\ StatusIsCurrent /\ ChaincodeIsCurrent /\ OrgsAreCurrent /\ ChartIsCurrent /\ ActivityIsCurrent
  /\ NodesAreCurrent /\ ChannelsAreCurrent
===============================================================================
