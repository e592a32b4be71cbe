----------------------------- MODULE ExplorerSync -----------------------------
(***************************************************************************)
(* How Explorer's sync process copies one channel of the ledger into       *)
(* PostgreSQL: SyncService.syncBlocks and processBlockEvent, the block     *)
(* listener of FabricEvent, the interval of SyncPlatform and the rows and  *)
(* counters CRUDService keeps.                                             *)
(*                                                                         *)
(* The process is single-threaded: every action runs from one await to the *)
(* next.  Two kinds of task call processBlockEvent: block listeners (hubs) *)
(* and passes of syncBlocks.  Each SQL statement is an action of its own;  *)
(* a statement may fail, and the process may stop between any two steps.   *)
(***************************************************************************)
EXTENDS Integers, FiniteSets

CONSTANTS
  Hubs, Passes,   \* the listener registrations and calls of syncBlocks alive at once
  MaxBlock,       \* bound: the ledger has at most the blocks 0..MaxBlock
  MaxTxs,         \* bound: a block has at most this many transactions
  TxCount,        \* the number of transactions of each block
  ConfigBlocks,   \* the blocks whose first transaction is a CONFIG one
  LifecycleTxs,   \* the <<block, index>> of the transactions of lscc and _lifecycle
  CountedTxs,     \* those whose chaincode and version have a row in table chaincodes
  BootMode, NoOfBlocks,
  MaxDbFaults, MaxPeerFaults, MaxCrashes  \* bounds on what may go wrong

Blocks == 0..MaxBlock
TxNumbers == 1..MaxTxs
Tasks == Hubs \cup Passes

ASSUME SyncAssumption ==
  /\ MaxBlock \in Nat /\ NoOfBlocks \in Nat
  /\ MaxTxs \in Nat \ {0} /\ TxCount \in [Blocks -> TxNumbers]
  /\ ConfigBlocks \subseteq Blocks
  /\ BootMode \in {"ALL", "CUSTOM"}
  /\ Hubs \cap Passes = {}
  /\ {MaxDbFaults, MaxPeerFaults, MaxCrashes} \subseteq Nat

VARIABLES
  height,           \* the ledger has the blocks 0 .. height - 1
  \* the database
  blockRows,        \* how many rows of table blocks each block has
  txRows,           \* how many rows of table transactions each transaction has
  channelBlocks,    \* column blocks of the channel's row
  channelTrans,     \* column trans of the channel's row
  chaincodeTxs,     \* column txcount of the chaincodes' rows, summed
  \* the memory of the sync process
  up,
  initialSync,      \* the first validation has not started yet
  synchInProcess, blocksInProcess,
  timers,           \* the discovery updates scheduled and not yet run
  hub,              \* how far each listener registration is
  nextEvent,        \* the block each listener is told about next
  at, cursor, latest, todo, noDiscovery,  \* each call of syncBlocks
  pc, blk, tx,      \* each call of processBlockEvent
  \* the other processes
  notified,         \* how often each block was announced
  faults            \* what went wrong so far

ledgerVars == <<height>>
dbVars == <<blockRows, txRows, channelBlocks, channelTrans, chaincodeTxs>>
lockVars == <<synchInProcess, blocksInProcess>>
hubVars == <<hub, nextEvent>>
passVars == <<at, cursor, latest, todo, noDiscovery>>
callVars == <<pc, blk, tx>>
procVars == <<up, initialSync>>
vars == <<ledgerVars, dbVars, procVars, lockVars, timers, hubVars, passVars, callVars,
          notified, faults>>

Channel == "channel"  \* the key network_channel of this channel's synchronization

Txs(b) == 1..TxCount[b]

\* How many rows each transaction of a block has.
TxRows == [TxNumbers -> Nat]
AddRow(rows, i) == [rows EXCEPT ![i] = @ + 1]

Init ==
  /\ height = 1
  /\ blockRows = [b \in Blocks |-> 0]
  /\ txRows = [b \in Blocks |-> [i \in TxNumbers |-> 0]]
  /\ channelBlocks = 0 /\ channelTrans = 0 /\ chaincodeTxs = 0
  /\ up = FALSE /\ initialSync = TRUE
  /\ synchInProcess = {} /\ blocksInProcess = {}
  /\ timers = {}
  /\ hub = [h \in Hubs |-> "off"]
  /\ nextEvent = [h \in Hubs |-> 0]
  /\ at = [p \in Passes |-> "off"]
  /\ cursor = [p \in Passes |-> 0]
  /\ latest = [p \in Passes |-> 0]
  /\ todo = [p \in Passes |-> {}]
  /\ noDiscovery = [p \in Passes |-> FALSE]
  /\ pc = [x \in Tasks |-> "idle"]
  /\ blk = [x \in Tasks |-> 0]
  /\ tx = [x \in Tasks |-> 1]
  /\ notified = [b \in Blocks |-> 0]
  /\ faults = [db |-> 0, peer |-> 0, crash |-> 0]

-------------------------------------------------------------------------------
(* The ledger and the faults. *)

CommitBlock ==
  /\ height <= MaxBlock
  /\ height' = height + 1
  /\ UNCHANGED <<dbVars, procVars, lockVars, timers, hubVars, passVars, callVars, notified, faults>>

DbFault == /\ faults.db < MaxDbFaults
           /\ faults' = [faults EXCEPT !.db = @ + 1]

PeerFault == /\ faults.peer < MaxPeerFaults
             /\ faults' = [faults EXCEPT !.peer = @ + 1]

-------------------------------------------------------------------------------
(* processBlockEvent: task x handles block b. *)

\* The test of the lock; NeverInProcess: what if it were missing?
NeverInProcess(b) == FALSE
InProcess(b) == b \in blocksInProcess

\* From the call to the first await.  The block is refused if a task has it.
StartBlock(x, b, quiet) ==
  /\ ~ InProcess(b)
  /\ blocksInProcess' = blocksInProcess \cup {b}
  /\ timers' = IF ~ quiet /\ b \in ConfigBlocks THEN timers \cup {<<b, 0>>} ELSE timers
  /\ pc' = [pc EXCEPT ![x] = "countTx"]
  /\ blk' = [blk EXCEPT ![x] = b]
  /\ tx' = [tx EXCEPT ![x] = 1]

RefuseBlock(b) ==
  /\ InProcess(b)
  /\ UNCHANGED <<blocksInProcess, timers, callVars>>

ProcessBlockEvent(x, b, quiet) == StartBlock(x, b, quiet) \/ RefuseBlock(b)

Quiet(x) == x \in Passes /\ noDiscovery[x]

\* isValidRow: no row yet, so insert one.  AnyRow: what if any answer would do?
AnyRow(count) == TRUE
IsValidRow(count) == count = 0

\* The loop's condition; MoreTxsButOne: what if it ended one transaction early?
MoreTxsButOne(x) == tx[x] + 1 < TxCount[blk[x]]
MoreTxs(x) == tx[x] < TxCount[blk[x]]

\* After the last transaction of the block comes the block itself.
NextTx(x) ==
  IF MoreTxs(x)
  THEN tx' = [tx EXCEPT ![x] = @ + 1] /\ pc' = [pc EXCEPT ![x] = "countTx"] /\ UNCHANGED blk
  ELSE pc' = [pc EXCEPT ![x] = "countBlock"] /\ UNCHANGED <<blk, tx>>

callFrame == <<ledgerVars, procVars, hubVars, passVars, synchInProcess, faults>>

\* The locals of a call that has returned or thrown are gone.
Return(x) == /\ pc' = [pc EXCEPT ![x] = "idle"]
             /\ blk' = [blk EXCEPT ![x] = 0]
             /\ tx' = [tx EXCEPT ![x] = 1]

\* saveTransaction
CountTx(x) ==
  /\ pc[x] = "countTx"
  /\ timers' = IF ~ Quiet(x) /\ <<blk[x], tx[x]>> \in LifecycleTxs
               THEN timers \cup {<<blk[x], tx[x]>>} ELSE timers
  /\ IF IsValidRow(txRows[blk[x]][tx[x]])
     THEN pc' = [pc EXCEPT ![x] = "insertTx"] /\ UNCHANGED <<blk, tx>>
     ELSE NextTx(x)
  /\ UNCHANGED <<callFrame, dbVars, blocksInProcess, notified>>

InsertTx(x) ==
  /\ pc[x] = "insertTx"
  /\ txRows' = [txRows EXCEPT ![blk[x]] = AddRow(@, tx[x])]
  /\ pc' = [pc EXCEPT ![x] = "bumpChaincode"]
  /\ UNCHANGED <<callFrame, blockRows, channelBlocks, channelTrans, chaincodeTxs, timers,
                 blocksInProcess, blk, tx, notified>>

BumpChaincode(x) ==
  /\ pc[x] = "bumpChaincode"
  /\ chaincodeTxs' = IF <<blk[x], tx[x]>> \in CountedTxs THEN chaincodeTxs + 1 ELSE chaincodeTxs
  /\ pc' = [pc EXCEPT ![x] = "bumpTrans"]
  /\ UNCHANGED <<callFrame, blockRows, txRows, channelBlocks, channelTrans, timers,
                 blocksInProcess, blk, tx, notified>>

BumpTrans(x) ==
  /\ pc[x] = "bumpTrans"
  /\ channelTrans' = channelTrans + 1
  /\ NextTx(x)
  /\ UNCHANGED <<callFrame, blockRows, txRows, channelBlocks, chaincodeTxs, timers,
                 blocksInProcess, notified>>

\* saveBlock
Release(x) == blocksInProcess' = blocksInProcess \ {blk[x]} /\ Return(x)

\* What if the answer of saveBlock were not looked at before the announcement?
CountBlockAndAnnounce(x) ==
  /\ pc[x] = "countBlock"
  /\ IF IsValidRow(blockRows[blk[x]])
     THEN pc' = [pc EXCEPT ![x] = "insertBlock"] /\ UNCHANGED <<blocksInProcess, blk, tx, notified>>
     ELSE Release(x) /\ notified' = [notified EXCEPT ![blk[x]] = @ + 1]
  /\ UNCHANGED <<callFrame, dbVars, timers>>

CountBlock(x) ==
  /\ pc[x] = "countBlock"
  /\ IF IsValidRow(blockRows[blk[x]])
     THEN pc' = [pc EXCEPT ![x] = "insertBlock"] /\ UNCHANGED <<blocksInProcess, blk, tx>>
     ELSE Release(x)
  /\ UNCHANGED <<callFrame, dbVars, timers, notified>>

InsertBlock(x) ==
  /\ pc[x] = "insertBlock"
  /\ blockRows' = [blockRows EXCEPT ![blk[x]] = @ + 1]
  /\ pc' = [pc EXCEPT ![x] = "bumpBlocks"]
  /\ UNCHANGED <<callFrame, txRows, channelBlocks, channelTrans, chaincodeTxs, timers,
                 blocksInProcess, blk, tx, notified>>

\* The last statement; what follows it, the announcement and the release, needs no await.
BumpBlocks(x) ==
  /\ pc[x] = "bumpBlocks"
  /\ channelBlocks' = channelBlocks + 1
  /\ notified' = [notified EXCEPT ![blk[x]] = @ + 1]
  /\ Release(x)
  /\ UNCHANGED <<callFrame, blockRows, txRows, channelTrans, chaincodeTxs, timers>>

\* A statement of the block fails: the exception leaves processBlockEvent, and is
\* swallowed by syncBlocks or by the event service.  The block stays in process.
FailBlock(x) ==
  /\ pc[x] # "idle"
  /\ DbFault
  /\ Return(x)
  /\ UNCHANGED <<ledgerVars, dbVars, procVars, lockVars, timers, hubVars, passVars, notified>>

-------------------------------------------------------------------------------
(* The listeners. *)

\* Registering starts at the current block, which the peer may or may not send again.
HubConnected(h) ==
  /\ hub[h] = "connecting"
  /\ hub' = [hub EXCEPT ![h] = "on"]
  /\ \E b \in {height - 1, height} : nextEvent' = [nextEvent EXCEPT ![h] = b]
  /\ UNCHANGED <<ledgerVars, dbVars, procVars, lockVars, timers, passVars, callVars, notified, faults>>

HubFailed(h) ==
  /\ hub[h] = "connecting"
  /\ PeerFault
  /\ hub' = [hub EXCEPT ![h] = "off"]
  /\ UNCHANGED <<ledgerVars, dbVars, procVars, lockVars, timers, nextEvent, passVars, callVars, notified>>

\* Events come in order, the next one when the listener has returned.
BlockEvent(h) ==
  /\ hub[h] = "on"
  /\ pc[h] = "idle"
  /\ nextEvent[h] < height
  /\ nextEvent' = [nextEvent EXCEPT ![h] = @ + 1]
  /\ IF nextEvent[h] = 0
     THEN UNCHANGED <<blocksInProcess, timers, callVars>>
     ELSE ProcessBlockEvent(h, nextEvent[h], FALSE)
  /\ UNCHANGED <<ledgerVars, dbVars, procVars, synchInProcess, hub, passVars, notified, faults>>

-------------------------------------------------------------------------------
(* The interval: validateMissingBlocks and isChannelEventHubConnected. *)

IsChannelEventHubConnected == \E h \in Hubs : hub[h] = "on"

\* The first validation waits for the first registration to end.
Interval == /\ up
            /\ initialSync => \A h \in Hubs : hub[h] # "connecting"
            /\ initialSync' = FALSE

\* syncBlocks is called, and asks the peer for the height.
SyncBlocks(p) ==
  /\ Interval
  /\ IsChannelEventHubConnected
  /\ at[p] = "off"
  /\ Channel \notin synchInProcess
  /\ at' = [at EXCEPT ![p] = "info"]
  /\ noDiscovery' = [noDiscovery EXCEPT ![p] = initialSync]
  /\ UNCHANGED <<ledgerVars, dbVars, up, lockVars, timers, hubVars, cursor, latest, todo,
                 callVars, notified, faults>>

Reconnect(h) ==
  /\ Interval
  /\ ~ IsChannelEventHubConnected
  /\ hub[h] = "off"
  /\ hub' = [hub EXCEPT ![h] = "connecting"]
  /\ UNCHANGED <<ledgerVars, dbVars, up, lockVars, timers, nextEvent, passVars, callVars,
                 notified, faults>>

-------------------------------------------------------------------------------
(* syncBlocks *)

\* channelInfo.height counts the blocks; what if it were taken for the last one's number?
HeightItself == height
LatestBlockHeight == height - 1

NumberToSync(last) == IF BootMode = "ALL" THEN last + 1 ELSE NoOfBlocks

\* What if the window were one block short?
StartTooHigh(last) ==
  LET start == last - NumberToSync(last) + 2 IN IF start > 0 THEN start ELSE 0

StartingBlockHeight(last) ==
  LET start == last - NumberToSync(last) + 1 IN IF start > 0 THEN start ELSE 0

passFrame == <<ledgerVars, dbVars, procVars, hubVars, notified>>

\* The locals of a call that has returned are gone.
EndPass(p) == /\ at' = [at EXCEPT ![p] = "off"]
              /\ cursor' = [cursor EXCEPT ![p] = 0]
              /\ latest' = [latest EXCEPT ![p] = 0]
              /\ todo' = [todo EXCEPT ![p] = {}]
              /\ noDiscovery' = [noDiscovery EXCEPT ![p] = FALSE]

GetChannelInfo(p) ==
  /\ at[p] = "info"
  /\ latest' = [latest EXCEPT ![p] = LatestBlockHeight]
  /\ IF StartingBlockHeight(LatestBlockHeight) <= LatestBlockHeight
     THEN at' = [at EXCEPT ![p] = "check"] /\ cursor' = [cursor EXCEPT ![p] = LatestBlockHeight]
     ELSE at' = [at EXCEPT ![p] = "find"] /\ UNCHANGED cursor
  /\ UNCHANGED <<passFrame, lockVars, timers, todo, noDiscovery, callVars, faults>>

NoChannelInfo(p) ==
  /\ at[p] = "info"
  /\ PeerFault
  /\ EndPass(p)
  /\ UNCHANGED <<passFrame, lockVars, timers, callVars>>

\* The loop goes down from the latest block to the starting one.
NextHeight(p) ==
  IF cursor[p] > StartingBlockHeight(latest[p])
  THEN at' = [at EXCEPT ![p] = "check"] /\ cursor' = [cursor EXCEPT ![p] = @ - 1]
  ELSE at' = [at EXCEPT ![p] = "find"] /\ cursor' = [cursor EXCEPT ![p] = 0]

\* The block is fetched and looked up in the database; the answer of the lookup may
\* be old when the slower of the two has arrived.
CheckBlock(p) ==
  /\ at[p] = "check"
  /\ pc[p] = "idle"
  /\ IF blockRows[cursor[p]] = 0
     THEN at' = [at EXCEPT ![p] = "handle"] /\ UNCHANGED cursor
     ELSE NextHeight(p)
  /\ UNCHANGED <<passFrame, lockVars, timers, latest, todo, noDiscovery, callVars, faults>>

CheckFails(p) ==
  /\ at[p] = "check"
  /\ pc[p] = "idle"
  /\ DbFault \/ PeerFault
  /\ NextHeight(p)
  /\ UNCHANGED <<passFrame, lockVars, timers, latest, todo, noDiscovery, callVars>>

HandleBlock(p) ==
  /\ at[p] = "handle"
  /\ pc[p] = "idle"
  /\ ProcessBlockEvent(p, cursor[p], noDiscovery[p])
  /\ NextHeight(p)
  /\ UNCHANGED <<passFrame, synchInProcess, latest, todo, noDiscovery, faults>>

Missing(p) == { b \in StartingBlockHeight(latest[p])..latest[p] : blockRows[b] = 0 }

FindMissingBlockNumber(p) ==
  /\ at[p] = "find"
  /\ pc[p] = "idle"
  /\ todo' = [todo EXCEPT ![p] = Missing(p)]
  /\ at' = [at EXCEPT ![p] = "missing"]
  /\ UNCHANGED <<passFrame, lockVars, timers, cursor, latest, noDiscovery, callVars, faults>>

FindFails(p) ==
  /\ at[p] = "find"
  /\ pc[p] = "idle"
  /\ DbFault
  /\ EndPass(p)
  /\ UNCHANGED <<passFrame, lockVars, timers, callVars>>

IsFirst(b, S) == b \in S /\ \A c \in S : b <= c

HandleMissing(p) ==
  /\ at[p] = "missing"
  /\ pc[p] = "idle"
  /\ \E b \in todo[p] : /\ IsFirst(b, todo[p])
                       /\ ProcessBlockEvent(p, b, noDiscovery[p])
                       /\ todo' = [todo EXCEPT ![p] = @ \ {b}]
  /\ UNCHANGED <<passFrame, synchInProcess, at, cursor, latest, noDiscovery, faults>>

SkipMissing(p) ==
  /\ at[p] = "missing"
  /\ pc[p] = "idle"
  /\ PeerFault
  /\ \E b \in todo[p] : IsFirst(b, todo[p]) /\ todo' = [todo EXCEPT ![p] = @ \ {b}]
  /\ UNCHANGED <<passFrame, lockVars, timers, at, cursor, latest, noDiscovery, callVars>>

\* Nothing has put the key into synchInProcess: there is nothing to take out.
FinishSync(p) ==
  /\ at[p] = "missing"
  /\ pc[p] = "idle"
  /\ todo[p] = {}
  /\ synchInProcess' = synchInProcess \ {Channel}
  /\ EndPass(p)
  /\ UNCHANGED <<passFrame, blocksInProcess, timers, callVars, faults>>

-------------------------------------------------------------------------------
(* The process. *)

\* A discovery update scheduled by a block runs ten seconds later.
Discover(t) ==
  /\ t \in timers
  /\ timers' = timers \ {t}
  /\ UNCHANGED <<ledgerVars, dbVars, procVars, lockVars, hubVars, passVars, callVars, notified, faults>>

Start(h) ==
  /\ ~ up
  /\ up' = TRUE
  /\ hub' = [hub EXCEPT ![h] = "connecting"]
  /\ UNCHANGED <<ledgerVars, dbVars, initialSync, lockVars, timers, nextEvent, passVars, callVars,
                 notified, faults>>

\* An unhandled rejection, a signal or a failure of the host ends the process.
Crash ==
  /\ up
  /\ faults.crash < MaxCrashes
  /\ faults' = [faults EXCEPT !.crash = @ + 1]
  /\ up' = FALSE /\ initialSync' = TRUE
  /\ synchInProcess' = {} /\ blocksInProcess' = {}
  /\ timers' = {}
  /\ hub' = [h \in Hubs |-> "off"]
  /\ nextEvent' = [h \in Hubs |-> 0]
  /\ at' = [p \in Passes |-> "off"]
  /\ cursor' = [p \in Passes |-> 0]
  /\ latest' = [p \in Passes |-> 0]
  /\ todo' = [p \in Passes |-> {}]
  /\ noDiscovery' = [p \in Passes |-> FALSE]
  /\ pc' = [x \in Tasks |-> "idle"]
  /\ blk' = [x \in Tasks |-> 0]
  /\ tx' = [x \in Tasks |-> 1]
  /\ UNCHANGED <<ledgerVars, dbVars, notified>>

Statement(x) ==
  \/ CountTx(x) \/ InsertTx(x) \/ BumpChaincode(x) \/ BumpTrans(x)
  \/ CountBlock(x) \/ InsertBlock(x) \/ BumpBlocks(x)

PassStep(p) ==
  \/ GetChannelInfo(p) \/ CheckBlock(p) \/ HandleBlock(p)
  \/ FindMissingBlockNumber(p) \/ HandleMissing(p) \/ FinishSync(p)

PassFault(p) == NoChannelInfo(p) \/ CheckFails(p) \/ FindFails(p) \/ SkipMissing(p)

HubStep(h) == HubConnected(h) \/ BlockEvent(h)

Next ==
  \/ CommitBlock
  \/ \E x \in Tasks : Statement(x) \/ FailBlock(x)
  \/ \E p \in Passes : SyncBlocks(p) \/ PassStep(p) \/ PassFault(p)
  \/ \E h \in Hubs : HubStep(h) \/ HubFailed(h) \/ Reconnect(h) \/ Start(h)
  \/ \E t \in timers : Discover(t)
  \/ Crash

Spec == Init /\ [][Next]_vars

\* The process is started, its promises settle, its timers fire.  Nothing makes the
\* ledger grow, and nothing restarts a process that has ended.
Fairness ==
  /\ WF_vars(faults.crash = 0 /\ \E h \in Hubs : Start(h))
  /\ \A x \in Tasks : WF_vars(Statement(x))
  /\ \A p \in Passes : WF_vars(PassStep(p)) /\ WF_vars(SyncBlocks(p))
  /\ \A h \in Hubs : WF_vars(HubStep(h)) /\ WF_vars(Reconnect(h))

FairSpec == Spec /\ Fairness

-------------------------------------------------------------------------------
(* Properties. *)

Busy(x) == pc[x] # "idle"

RowsTypeOK ==
  /\ blockRows \in [Blocks -> Nat]
  /\ txRows \in [Blocks -> TxRows]
  /\ channelBlocks \in Nat /\ channelTrans \in Nat /\ chaincodeTxs \in Nat
  /\ notified \in [Blocks -> Nat]

CallsTypeOK ==
  /\ pc \in [Tasks -> {"idle", "countTx", "insertTx", "bumpChaincode", "bumpTrans",
                       "countBlock", "insertBlock", "bumpBlocks"}]
  /\ blk \in [Tasks -> Blocks]
  /\ tx \in [Tasks -> TxNumbers]
  /\ blocksInProcess \subseteq Blocks

PassesTypeOK ==
  /\ at \in [Passes -> {"off", "info", "check", "handle", "find", "missing"}]
  /\ cursor \in [Passes -> Blocks] /\ latest \in [Passes -> Blocks]
  /\ todo \in [Passes -> SUBSET Blocks]
  /\ noDiscovery \in [Passes -> BOOLEAN]

ProcessTypeOK ==
  /\ height \in 1..(MaxBlock + 1)
  /\ up \in BOOLEAN /\ initialSync \in BOOLEAN
  /\ synchInProcess \subseteq {Channel}
  /\ timers \subseteq Blocks \X Nat
  /\ hub \in [Hubs -> {"off", "connecting", "on"}]
  /\ nextEvent \in [Hubs -> Nat]
  /\ faults \in [db : Nat, peer : Nat, crash : Nat]

\* Every variable has its type: among others, no task looks for a block outside
\* 0..MaxBlock, nor for a transaction the block cannot have.
TypeOK == RowsTypeOK /\ CallsTypeOK /\ PassesTypeOK /\ ProcessTypeOK

\* The tables have no unique constraint: only the check before each insert, and the
\* lock around both, keep a block or a transaction from being stored twice.
NoDuplicateRows ==
  \A b \in Blocks : blockRows[b] <= 1 /\ \A i \in Txs(b) : txRows[b][i] <= 1

\* A block that looks copied is never looked at again, so it may have its row only when
\* all its transactions have theirs, whatever failed on the way.
BlocksAreComplete ==
  \A b \in Blocks : blockRows[b] > 0 => \A i \in Txs(b) : txRows[b][i] > 0

StoredBlocks == { b \in Blocks : blockRows[b] > 0 }
StoredTxs == UNION { { <<b, i>> : i \in { j \in Txs(b) : txRows[b][j] > 0 } } : b \in Blocks }

\* The counters of the dashboard never show more than the tables hold, and show exactly
\* that once nobody is in the middle of a block, unless a statement or the process failed.
CountersFollowRows ==
  LET blocks == Cardinality(StoredBlocks)
      txs == Cardinality(StoredTxs)
      counted == Cardinality(StoredTxs \cap CountedTxs)
  IN /\ channelBlocks <= blocks /\ channelTrans <= txs /\ chaincodeTxs <= counted
     /\ faults.db = 0 /\ faults.crash = 0 /\ (\A x \in Tasks : ~ Busy(x))
        => channelBlocks = blocks /\ channelTrans = txs /\ chaincodeTxs = counted

\* The database is a copy of the ledger: a block enters it whole, once, and for good,
\* and is announced at most once, when it is there.
LedgerCopyOf == INSTANCE LedgerCopy WITH
  copied <- { b \in Blocks : blockRows[b] = 1 /\ \A i \in Txs(b) : txRows[b][i] = 1 },
  announced <- { b \in Blocks : notified[b] > 0 }

ImplementsLedgerCopy == LedgerCopyOf!Spec

\* Every announcement is the only one of its block: clients count the blocks they hear of.
AnnouncedOnce == \A b \in Blocks : notified[b] <= 1

\* A block that the configuration asks for, and goes on asking for, is in the database at
\* last, though the listener may miss it and the peer may fail, if no statement fails.
Wanted(b) == b < height /\ (BootMode = "CUSTOM" => b >= height - NoOfBlocks)

WantedBlocksAreCopied ==
  \A b \in Blocks : <>[]Wanted(b) => <>(blockRows[b] > 0)

\* "Setting interval for validating any missing block from the current client ledger"
\* (SyncPlatform.ts:117): a block that a failed statement kept out comes in later.
MissingBlocksAreFilled == \A b \in Blocks : b < height ~> blockRows[b] > 0

\* "Check if block synchronization is already in process" (SyncService.ts:379): the
\* interval does not start a second pass over the channel.
NoOverlappingSync ==
  \A p, q \in Passes : at[p] # "off" /\ at[q] # "off" => p = q
===============================================================================
