------------------------------ MODULE ExplorerCopy ------------------------------
(***************************************************************************)
(* What every page of Explorer stands on: one channel's ledger and nodes,  *)
(* their copy in the database, which the sync process goes on writing      *)
(* (ExplorerSync, ExplorerNetwork), the clock, and the server that answers.*)
(*                                                                         *)
(* The pages are modules of their own (ExplorerLists, ExplorerSearch,      *)
(* ExplorerFigures, ExplorerDialogs, ExplorerUsers), put together in       *)
(* ExplorerPages.  They share nothing but what is here, so a behaviour     *)
(* looks at one of them (kind), from any moment of the copy on, and what   *)
(* that page cannot see (Sees) does not move.                              *)
(***************************************************************************)
EXTENDS Integers, Sequences, FiniteSets

CONSTANTS
  MaxBlock, TxCount,     \* bound of the ledger, and what its blocks hold
  Time, Creator,         \* createdt and creator_msp_id of each transaction
  Orgs, NoOrg,           \* NoOrg: the creator is not recorded
  Nodes, Orderers,       \* the members of the channel, and those that are orderers
  OrgOf,                 \* their mspid
  Invocations,           \* the transactions of the chaincode of the channel
  MaxTime,               \* bound of the clock
  Watched,               \* the blocks each page asks about: the others are at rest
  MaxEvents              \* bound of changes and failures while each page is looked at

Blocks == 0..MaxBlock
Txs == UNION {{b} \X (1..TxCount[b]) : b \in Blocks}
TxsOf(b) == {t \in Txs : t[1] = b}
Times == 0..MaxTime

\* What the answers of each page depend on.
Sees ==
  [list |-> {"rows", "clock"}, range |-> {"rows"}, search |-> {"rows"}, dialog |-> {"rows"},
   status |-> {"rows", "table peer"}, orgs |-> {"rows", "table peer"}, txChart |-> {"rows", "clock"},
   blockChart |-> {"rows", "clock"}, activity |-> {"rows"}, nodes |-> {"table peer", "nodes"},
   channels |-> {"rows", "counter", "clock"}, chaincodes |-> {"rows", "counter"}, users |-> {}]
Kinds == DOMAIN Sees

ASSUME CopyAssumption ==
  /\ {MaxBlock, MaxTime} \subseteq Nat /\ TxCount \in [Blocks -> Nat \ {0}]
  /\ Time \in [Txs -> Times] /\ Creator \in [Txs -> Orgs \cup {NoOrg}]
  /\ NoOrg \notin Orgs
  /\ IsFiniteSet(Nodes) /\ Orderers \subseteq Nodes /\ OrgOf \in [Nodes -> Orgs]
  /\ Invocations \subseteq Txs
  /\ MaxEvents \in [Kinds -> Nat] /\ Watched \in [Kinds -> SUBSET Blocks]

VARIABLES
  height, now,           \* the ledger has the blocks 0 .. height - 1; the clock
  txs, blocks,           \* the rows of transactions and blocks
  counter,               \* columns blocks of the channel's row, txcount of the chaincode's
  nodes,                 \* the rows of peer
  lives,                 \* how often each node stopped or started: up when even
  server,                \* "up", "stopping" (an exception nobody caught) or "down"
  events,
  kind                   \* the page looked at

world == <<height, now, txs, blocks, counter, nodes, lives>>

Up(n) == lives[n] % 2 = 0
Peers == Nodes \ Orderers

-------------------------------------------------------------------------------
(* The ledger grows; the sync process stores the transactions of a block in  *)
(* their order, then the block, and counts it, in any order of the blocks.   *)

Stored(b) == {t \in txs : t[1] = b}

WorldOK ==
  /\ \A t \in txs : t[1] < height /\ \A u \in TxsOf(t[1]) : u[2] < t[2] => u \in txs
  /\ \A b \in blocks : b < height /\ TxsOf(b) \subseteq txs
  /\ counter.blocks <= Cardinality(blocks) /\ counter.txs <= Cardinality(txs \cap Invocations)

Happens == events < MaxEvents[kind] /\ events' = events + 1
Changes(what) == what \in Sees[kind] /\ Happens /\ UNCHANGED <<server, kind>>

CommitBlock ==
  /\ Changes("rows") /\ height <= MaxBlock
  /\ height' = height + 1
  /\ UNCHANGED <<now, txs, blocks, counter, nodes, lives>>

SaveTransaction(t) ==
  /\ Changes("rows") /\ t[1] \in Watched[kind] /\ t[1] < height /\ t \notin txs
  /\ \A u \in TxsOf(t[1]) : u[2] < t[2] => u \in txs
  /\ txs' = txs \cup {t}
  /\ UNCHANGED <<height, now, blocks, counter, nodes, lives>>

\* What if the block were stored before its transactions?
SaveBlockFirst(b) ==
  /\ Changes("rows") /\ b \in Watched[kind] /\ b < height /\ b \notin blocks
  /\ blocks' = blocks \cup {b}
  /\ UNCHANGED <<height, now, txs, counter, nodes, lives>>

SaveBlock(b) ==
  /\ Changes("rows") /\ b \in Watched[kind] /\ b < height /\ b \notin blocks
  /\ TxsOf(b) \subseteq txs
  /\ blocks' = blocks \cup {b}
  /\ UNCHANGED <<height, now, txs, counter, nodes, lives>>

\* The next statements of saveTransaction and saveBlock; after a failure of one the
\* counter stays behind.
CountRow ==
  /\ Changes("counter")
  /\ \/ counter.blocks < Cardinality(blocks) /\ counter' = [counter EXCEPT !.blocks = @ + 1]
     \/ counter.txs < Cardinality(txs \cap Invocations) /\ counter' = [counter EXCEPT !.txs = @ + 1]
  /\ UNCHANGED <<height, now, txs, blocks, nodes, lives>>

SaveNode(n) ==
  /\ Changes("table peer") /\ n \notin nodes
  /\ nodes' = nodes \cup {n}
  /\ UNCHANGED <<height, now, txs, blocks, counter, lives>>

StopOrStart(n) ==
  /\ Changes("nodes")
  /\ lives' = [lives EXCEPT ![n] = @ + 1]
  /\ UNCHANGED <<height, now, txs, blocks, counter, nodes>>

Tick ==
  /\ Changes("clock") /\ now < MaxTime
  /\ now' = now + 1
  /\ UNCHANGED <<height, txs, blocks, counter, nodes, lives>>

-------------------------------------------------------------------------------
(* A statement that fails rejects; where no route catches it, the handler of *)
(* unhandledRejection stops the server two seconds later.                    *)

Uncaught == server' = IF server = "up" THEN "stopping" ELSE server
Answering == server # "down"

Stop ==
  /\ server = "stopping" /\ server' = "down"
  /\ UNCHANGED <<world, events, kind>>

-------------------------------------------------------------------------------
(* What several pages are about. *)

BlockTime(b) == Time[<<b, 1>>]
Within(time, w) == w.from <= time /\ time <= w.to
Least(m, n) == IF m < n THEN m ELSE n
\* The sum of the values of a function: its units, numbered, are as many.
Total(f) == Cardinality(UNION {{x} \X (1..f[x]) : x \in DOMAIN f})

\* formatBlockData and getBlockByBlocknum: a block with its transactions.
FromDatabase(b) == [num |-> b, txs |-> Cardinality(Stored(b))]
FromLedger(b) == [num |-> b, txs |-> TxCount[b]]
InDatabase(b) == b \in blocks /\ Stored(b) # {}
InLedger(b) == b < height

\* The page is opened at any moment of the copy; what it does not see is at rest.
CopyInit ==
  /\ kind \in Kinds
  /\ IF "rows" \in Sees[kind]
     THEN /\ height \in 0..(MaxBlock + 1)
          /\ txs \in SUBSET Txs /\ blocks \in SUBSET Blocks
          /\ \A b \in Blocks \ Watched[kind] : b < height => b \in blocks
     ELSE height = MaxBlock + 1 /\ txs = Txs /\ blocks = Blocks
  /\ IF "clock" \in Sees[kind] THEN now \in Times ELSE now = MaxTime
  /\ IF "counter" \in Sees[kind] THEN counter \in [blocks : 0..(MaxBlock + 1), txs : 0..Cardinality(Txs)]
     ELSE counter = [blocks |-> 0, txs |-> 0]
  /\ WorldOK
  /\ IF "table peer" \in Sees[kind] THEN nodes \in SUBSET Nodes ELSE nodes = Nodes
  /\ IF "nodes" \in Sees[kind] THEN lives \in [Nodes -> 0..1] ELSE lives = [n \in Nodes |-> 0]
  /\ server = "up" /\ events = 0

World ==
  \/ CommitBlock \/ CountRow \/ Tick
  \/ \E t \in Txs : SaveTransaction(t)
  \/ \E b \in Blocks : SaveBlock(b)
  \/ \E n \in Nodes : SaveNode(n) \/ StopOrStart(n)

CopyOK ==
  /\ WorldOK /\ height \in 0..(MaxBlock + 1) /\ now \in Times
  /\ txs \subseteq Txs /\ blocks \subseteq Blocks /\ counter \in [blocks : Nat, txs : Nat]
  /\ nodes \subseteq Nodes /\ lives \in [Nodes -> Nat]
  /\ server \in {"up", "stopping", "down"} /\ kind \in Kinds /\ events \in 0..MaxEvents[kind]
===============================================================================
