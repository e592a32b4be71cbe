------------------------- MODULE ExplorerSync_proofs -------------------------
(***************************************************************************)
(* Theorems about Explorer's block synchronization, for any numbers of     *)
(* blocks, transactions, listeners, overlapping passes, faults and crashes.*)
(***************************************************************************)
EXTENDS ExplorerSync, FiniteSetTheorems, TLAPS

-----------------------------------------------------------------------------
(* Types. *)

USE DEF Tasks

LEMMA Bounds ==
  /\ 0 \in Blocks /\ Blocks \subseteq Nat
  /\ 1 \in TxNumbers /\ TxNumbers \subseteq Nat
  /\ \A b \in Blocks : TxCount[b] \in TxNumbers
  /\ \A b \in Blocks : \A i \in TxNumbers : i < TxCount[b] => i + 1 \in TxNumbers
  <1>1. /\ 0 \in Blocks /\ Blocks \subseteq Nat
        /\ 1 \in TxNumbers /\ TxNumbers \subseteq Nat
    BY SyncAssumption DEF Blocks, TxNumbers
  <1>2. \A b \in Blocks : TxCount[b] \in TxNumbers
    BY SyncAssumption
  <1>3. \A m \in TxNumbers : \A i \in TxNumbers : i < m => i + 1 \in TxNumbers
    BY SyncAssumption DEF TxNumbers
  <1>4. QED BY <1>1, <1>2, <1>3

LEMMA LedgerBlocks ==
  ASSUME height \in 1..(MaxBlock + 1), NEW b \in Nat, b < height
  PROVE  b \in Blocks
  BY SyncAssumption DEF Blocks

LEMMA StartingBlockHeightIsNat ==
  ASSUME NEW last \in Blocks
  PROVE  StartingBlockHeight(last) \in Nat
  BY SyncAssumption DEF StartingBlockHeight, NumberToSync, Blocks

LEMMA AddOne ==
  ASSUME NEW S, NEW f \in [S -> Nat], NEW s \in S
  PROVE  [f EXCEPT ![s] = @ + 1] \in [S -> Nat]
  OBVIOUS

LEMMA AddRowType ==
  ASSUME NEW rows \in TxRows, NEW i \in TxNumbers
  PROVE  /\ AddRow(rows, i) \in TxRows
         /\ AddRow(rows, i)[i] = rows[i] + 1
         /\ \A j \in TxNumbers \ {i} : AddRow(rows, i)[j] = rows[j]
  BY DEF TxRows, AddRow

LEMMA TypeInit == Init => TypeOK
  <1> SUFFICES ASSUME Init PROVE TypeOK
    OBVIOUS
  <1>1. txRows \in [Blocks -> TxRows]
    BY DEF Init, TxRows
  <1>2. height \in 1..(MaxBlock + 1)
    BY SyncAssumption DEF Init
  <1>3. QED BY <1>1, <1>2, Bounds DEF Init, TypeOK, RowsTypeOK, CallsTypeOK, PassesTypeOK, ProcessTypeOK

LEMMA StatementType ==
  ASSUME TypeOK, NEW x \in Tasks, Statement(x)
  PROVE  TypeOK'
  <1>0. /\ RowsTypeOK /\ CallsTypeOK /\ PassesTypeOK /\ ProcessTypeOK
        /\ blk[x] \in Blocks /\ tx[x] \in TxNumbers
        /\ tx[x] < TxCount[blk[x]] => tx[x] + 1 \in TxNumbers
    BY Bounds DEF TypeOK, CallsTypeOK
  <1> USE <1>0, Bounds DEF callFrame, ledgerVars, dbVars, hubVars, passVars, procVars
  <1>1. RowsTypeOK'
    <2>1. CASE CountTx(x) BY <2>1 DEF CountTx, RowsTypeOK
    <2>2. CASE InsertTx(x) BY <2>2, AddRowType DEF InsertTx, RowsTypeOK
    <2>3. CASE BumpChaincode(x) BY <2>3 DEF BumpChaincode, RowsTypeOK
    <2>4. CASE BumpTrans(x) BY <2>4 DEF BumpTrans, RowsTypeOK
    <2>5. CASE CountBlock(x) BY <2>5 DEF CountBlock, RowsTypeOK
    <2>6. CASE InsertBlock(x)
      <3>1. [blockRows EXCEPT ![blk[x]] = @ + 1] \in [Blocks -> Nat]
        BY AddOne DEF RowsTypeOK
      <3>2. QED BY <2>6, <3>1 DEF InsertBlock, RowsTypeOK
    <2>7. CASE BumpBlocks(x)
      <3>1. [notified EXCEPT ![blk[x]] = @ + 1] \in [Blocks -> Nat]
        BY AddOne DEF RowsTypeOK
      <3>2. QED BY <2>7, <3>1 DEF BumpBlocks, RowsTypeOK
    <2>8. QED BY <2>1, <2>2, <2>3, <2>4, <2>5, <2>6, <2>7 DEF Statement
  <1>2. CallsTypeOK'
    <2>1. CASE CountTx(x) BY <2>1 DEF CountTx, NextTx, MoreTxs, CallsTypeOK
    <2>2. CASE InsertTx(x) BY <2>2 DEF InsertTx, CallsTypeOK
    <2>3. CASE BumpChaincode(x) BY <2>3 DEF BumpChaincode, CallsTypeOK
    <2>4. CASE BumpTrans(x) BY <2>4 DEF BumpTrans, NextTx, MoreTxs, CallsTypeOK
    <2>5. CASE CountBlock(x) BY <2>5 DEF CountBlock, Release, Return, CallsTypeOK
    <2>6. CASE InsertBlock(x) BY <2>6 DEF InsertBlock, CallsTypeOK
    <2>7. CASE BumpBlocks(x) BY <2>7 DEF BumpBlocks, Release, Return, CallsTypeOK
    <2>8. QED BY <2>1, <2>2, <2>3, <2>4, <2>5, <2>6, <2>7 DEF Statement
  <1>3. PassesTypeOK'
    BY DEF Statement, CountTx, InsertTx, BumpChaincode, BumpTrans, CountBlock, InsertBlock,
           BumpBlocks, PassesTypeOK
  <1>4. timers' \subseteq Blocks \X Nat
    <2>1. <<blk[x], tx[x]>> \in Blocks \X Nat
      OBVIOUS
    <2>2. timers' = timers \/ timers' = timers \cup {<<blk[x], tx[x]>>}
      BY DEF Statement, CountTx, InsertTx, BumpChaincode, BumpTrans, CountBlock, InsertBlock,
             BumpBlocks
    <2>3. QED BY <2>1, <2>2 DEF ProcessTypeOK
  <1>5. ProcessTypeOK'
    BY <1>4 DEF Statement, CountTx, InsertTx, BumpChaincode, BumpTrans, CountBlock, InsertBlock,
           BumpBlocks, ProcessTypeOK
  <1>6. QED BY <1>1, <1>2, <1>3, <1>5 DEF TypeOK

LEMMA ProcessBlockEventType ==
  ASSUME CallsTypeOK, ProcessTypeOK, NEW x \in Tasks, NEW b \in Blocks, NEW quiet,
         ProcessBlockEvent(x, b, quiet)
  PROVE  CallsTypeOK' /\ timers' \subseteq Blocks \X Nat
  <1>1. CASE StartBlock(x, b, quiet)
    <2>1. CallsTypeOK'
      BY <1>1, Bounds DEF StartBlock, CallsTypeOK
    <2>2. timers' = timers \/ timers' = timers \cup {<<b, 0>>}
      BY <1>1 DEF StartBlock
    <2>3. QED BY <2>1, <2>2 DEF ProcessTypeOK
  <1>2. CASE RefuseBlock(b)
    BY <1>2 DEF RefuseBlock, callVars, CallsTypeOK, ProcessTypeOK
  <1>3. QED BY <1>1, <1>2 DEF ProcessBlockEvent

LEMMA NextHeightType ==
  ASSUME PassesTypeOK, NEW p \in Passes, NextHeight(p)
  PROVE  /\ at' \in [Passes -> {"off", "info", "check", "handle", "find", "missing"}]
         /\ cursor' \in [Passes -> Blocks]
  <1>1. StartingBlockHeight(latest[p]) \in Nat
    BY StartingBlockHeightIsNat DEF PassesTypeOK
  <1>2. CASE cursor[p] > StartingBlockHeight(latest[p])
    <2>1. cursor[p] \in Blocks
      BY DEF PassesTypeOK
    <2>2. cursor[p] - 1 \in Blocks
      BY <1>1, <1>2, <2>1, SyncAssumption DEF Blocks
    <2>3. QED BY <1>2, <2>2 DEF NextHeight, PassesTypeOK
  <1>3. CASE ~ (cursor[p] > StartingBlockHeight(latest[p]))
    BY <1>3, Bounds DEF NextHeight, PassesTypeOK
  <1>4. QED BY <1>2, <1>3

LEMMA PassType ==
  ASSUME TypeOK, NEW p \in Passes, PassStep(p) \/ PassFault(p)
  PROVE  TypeOK'
  <1>0. RowsTypeOK /\ CallsTypeOK /\ PassesTypeOK /\ ProcessTypeOK
    BY DEF TypeOK
  <1>1. RowsTypeOK'
    BY <1>0 DEF PassStep, PassFault, GetChannelInfo, CheckBlock, HandleBlock,
       FindMissingBlockNumber, HandleMissing, FinishSync, NoChannelInfo, CheckFails, FindFails,
       SkipMissing, passFrame, dbVars, RowsTypeOK
  <1>2. CallsTypeOK' /\ timers' \subseteq Blocks \X Nat
    <2>1. CASE HandleBlock(p)
      <3>1. cursor[p] \in Blocks BY <1>0 DEF PassesTypeOK
      <3>2. QED BY <1>0, <2>1, <3>1, ProcessBlockEventType DEF HandleBlock
    <2>2. CASE HandleMissing(p)
      <3>1. PICK b \in todo[p] : ProcessBlockEvent(p, b, noDiscovery[p])
        BY <2>2 DEF HandleMissing
      <3>2. b \in Blocks BY <1>0, <3>1 DEF PassesTypeOK
      <3>3. QED BY <1>0, <3>1, <3>2, ProcessBlockEventType
    <2>3. CASE ~ HandleBlock(p) /\ ~ HandleMissing(p)
      <3>1. UNCHANGED <<pc, blk, tx, blocksInProcess, timers>>
        BY <2>3 DEF PassStep, PassFault, GetChannelInfo, CheckBlock, FindMissingBlockNumber,
           FinishSync, NoChannelInfo, CheckFails, FindFails, SkipMissing, callVars, lockVars
      <3>2. QED BY <1>0, <3>1 DEF CallsTypeOK, ProcessTypeOK
    <2>4. QED BY <2>1, <2>2, <2>3
  <1>3. PassesTypeOK'
    <2> USE <1>0
    <2>1. CASE GetChannelInfo(p)
      <3>1. LatestBlockHeight \in Blocks
        BY SyncAssumption DEF LatestBlockHeight, ProcessTypeOK, Blocks
      <3>2. QED BY <2>1, <3>1 DEF GetChannelInfo, PassesTypeOK
    <2>2. CASE CheckBlock(p)
      <3>0. UNCHANGED <<latest, todo, noDiscovery>>
        BY <2>2 DEF CheckBlock
      <3>1. CASE NextHeight(p)
        BY <3>0, <3>1, NextHeightType DEF PassesTypeOK
      <3>2. CASE at' = [at EXCEPT ![p] = "handle"] /\ UNCHANGED cursor
        BY <3>0, <3>2 DEF PassesTypeOK
      <3>3. QED BY <2>2, <3>1, <3>2 DEF CheckBlock
    <2>3. CASE HandleBlock(p)
      BY <2>3, NextHeightType DEF HandleBlock, PassesTypeOK
    <2>4. CASE FindMissingBlockNumber(p)
      <3>1. Missing(p) \subseteq Blocks
        <4>1. latest[p] \in Blocks /\ StartingBlockHeight(latest[p]) \in Nat
          BY StartingBlockHeightIsNat DEF PassesTypeOK
        <4>2. QED BY <4>1, SyncAssumption DEF Missing, Blocks
      <3>2. QED BY <2>4, <3>1 DEF FindMissingBlockNumber, PassesTypeOK
    <2>5. CASE HandleMissing(p)
      <3>1. PICK b \in todo[p] : todo' = [todo EXCEPT ![p] = @ \ {b}]
        BY <2>5 DEF HandleMissing
      <3>2. QED BY <2>5, <3>1 DEF HandleMissing, PassesTypeOK
    <2>6. CASE SkipMissing(p)
      <3>1. PICK b \in todo[p] : todo' = [todo EXCEPT ![p] = @ \ {b}]
        BY <2>6 DEF SkipMissing
      <3>2. QED BY <2>6, <3>1 DEF SkipMissing, PassesTypeOK
    <2>7. CASE CheckFails(p)
      BY <2>7, NextHeightType DEF CheckFails, PassesTypeOK
    <2>8. CASE FinishSync(p) \/ NoChannelInfo(p) \/ FindFails(p)
      <3>1. EndPass(p)
        BY <2>8 DEF FinishSync, NoChannelInfo, FindFails
      <3>2. QED BY <3>1, Bounds DEF EndPass, PassesTypeOK
    <2>9. QED BY <2>1, <2>2, <2>3, <2>4, <2>5, <2>6, <2>7, <2>8 DEF PassStep, PassFault
  <1>4. ProcessTypeOK'
    <2>1. faults' \in [db : Nat, peer : Nat, crash : Nat]
      <3>1. UNCHANGED faults \/ DbFault \/ PeerFault
        BY DEF PassStep, PassFault, GetChannelInfo, CheckBlock, HandleBlock,
           FindMissingBlockNumber, HandleMissing, FinishSync, NoChannelInfo, CheckFails,
           FindFails, SkipMissing
      <3>2. QED BY <1>0, <3>1 DEF DbFault, PeerFault, ProcessTypeOK
    <2>2. UNCHANGED <<height, up, initialSync, hub, nextEvent>>
      BY DEF PassStep, PassFault, GetChannelInfo, CheckBlock, HandleBlock,
         FindMissingBlockNumber, HandleMissing, FinishSync, NoChannelInfo, CheckFails,
         FindFails, SkipMissing, passFrame, ledgerVars, procVars, hubVars
    <2>3. synchInProcess' \subseteq synchInProcess
      BY DEF PassStep, PassFault, GetChannelInfo, CheckBlock, HandleBlock,
         FindMissingBlockNumber, HandleMissing, FinishSync, NoChannelInfo, CheckFails,
         FindFails, SkipMissing, lockVars
    <2>4. QED BY <1>0, <1>2, <2>1, <2>2, <2>3 DEF ProcessTypeOK
  <1>5. QED BY <1>1, <1>2, <1>3, <1>4 DEF TypeOK

LEMMA TypeStep == TypeOK /\ [Next]_vars => TypeOK'
  <1> SUFFICES ASSUME TypeOK, [Next]_vars PROVE TypeOK'
    OBVIOUS
  <1>0. RowsTypeOK /\ CallsTypeOK /\ PassesTypeOK /\ ProcessTypeOK
    BY DEF TypeOK
  <1> USE <1>0
          DEF TypeOK, ledgerVars, dbVars, lockVars, hubVars, passVars, callVars, procVars
  <1>1. CASE CommitBlock
    BY <1>1, SyncAssumption
    DEF CommitBlock, RowsTypeOK, CallsTypeOK, PassesTypeOK, ProcessTypeOK
  <1>2. CASE \E x \in Tasks : Statement(x)
    BY <1>2, StatementType
  <1>3. ASSUME NEW x \in Tasks, FailBlock(x) PROVE TypeOK'
    <2>1. CallsTypeOK'
      BY <1>3, Bounds DEF FailBlock, Return, CallsTypeOK
    <2>2. ProcessTypeOK'
      BY <1>3 DEF FailBlock, DbFault, ProcessTypeOK
    <2>3. QED BY <1>3, <2>1, <2>2 DEF FailBlock, RowsTypeOK, PassesTypeOK
  <1>4. ASSUME NEW p \in Passes, SyncBlocks(p) PROVE TypeOK'
    BY <1>4 DEF SyncBlocks, Interval, RowsTypeOK, CallsTypeOK, PassesTypeOK, ProcessTypeOK
  <1>5. CASE \E p \in Passes : PassStep(p) \/ PassFault(p)
    BY <1>5, PassType
  <1>6. ASSUME NEW h \in Hubs, HubConnected(h) PROVE TypeOK'
    BY <1>6 DEF HubConnected, RowsTypeOK, CallsTypeOK, PassesTypeOK, ProcessTypeOK
  <1>7. ASSUME NEW h \in Hubs, BlockEvent(h) PROVE TypeOK'
    <2>1. CallsTypeOK' /\ timers' \subseteq Blocks \X Nat
      <3>1. CASE nextEvent[h] = 0
        BY <1>7, <3>1 DEF BlockEvent, CallsTypeOK, ProcessTypeOK
      <3>2. CASE nextEvent[h] # 0
        <4>1. nextEvent[h] \in Blocks
          BY <1>7, LedgerBlocks DEF BlockEvent, ProcessTypeOK
        <4>2. QED BY <1>7, <3>2, <4>1, ProcessBlockEventType DEF BlockEvent
      <3>3. QED BY <3>1, <3>2
    <2>2. RowsTypeOK' /\ PassesTypeOK'
      BY <1>7 DEF BlockEvent, RowsTypeOK, PassesTypeOK
    <2>3. nextEvent' \in [Hubs -> Nat]
      BY <1>7, AddOne DEF BlockEvent, ProcessTypeOK
    <2>4. QED BY <1>7, <2>1, <2>2, <2>3 DEF BlockEvent, ProcessTypeOK
  <1>8. ASSUME NEW h \in Hubs, HubFailed(h) PROVE TypeOK'
    BY <1>8 DEF HubFailed, PeerFault, RowsTypeOK, CallsTypeOK, PassesTypeOK, ProcessTypeOK
  <1>9. ASSUME NEW h \in Hubs, Reconnect(h) \/ Start(h) PROVE TypeOK'
    <2>1. hub' \in [Hubs -> {"off", "connecting", "on"}] /\ up' \in BOOLEAN /\ initialSync' \in BOOLEAN
      BY <1>9 DEF Reconnect, Start, Interval, ProcessTypeOK
    <2>2. QED
      BY <1>9, <2>1 DEF Reconnect, Start, RowsTypeOK, CallsTypeOK, PassesTypeOK, ProcessTypeOK
  <1>10. ASSUME NEW t \in timers, Discover(t) PROVE TypeOK'
    BY <1>10 DEF Discover, RowsTypeOK, CallsTypeOK, PassesTypeOK, ProcessTypeOK
  <1>11. CASE Crash
    <2>1. CallsTypeOK'
      BY <1>11, Bounds DEF Crash, CallsTypeOK
    <2>2. PassesTypeOK'
      BY <1>11, Bounds DEF Crash, PassesTypeOK
    <2>3. ProcessTypeOK'
      <3>1. faults' \in [db : Nat, peer : Nat, crash : Nat]
        BY <1>11 DEF Crash, ProcessTypeOK
      <3>2. hub' \in [Hubs -> {"off", "connecting", "on"}] /\ nextEvent' \in [Hubs -> Nat]
        BY <1>11 DEF Crash
      <3>3. QED BY <1>11, <3>1, <3>2 DEF Crash, ProcessTypeOK
    <2>4. QED BY <1>11, <2>1, <2>2, <2>3 DEF Crash, RowsTypeOK
  <1>12. CASE UNCHANGED vars
    BY <1>12 DEF vars, RowsTypeOK, CallsTypeOK, PassesTypeOK, ProcessTypeOK
  <1>13. QED
    BY <1>1, <1>2, <1>3, <1>4, <1>5, <1>6, <1>7, <1>8, <1>9, <1>10, <1>11, <1>12
    DEF Next, HubStep

\* Every variable keeps its type, and no task leaves the blocks there can be.
THEOREM TypeCorrect == Spec => []TypeOK
  BY TypeInit, TypeStep, PTL DEF Spec

-----------------------------------------------------------------------------
(* The inductive invariant. *)

\* A task at a block has the lock of the block, alone.
Locked ==
  /\ \A x \in Tasks : Busy(x) => blk[x] \in blocksInProcess
  /\ \A x, y \in Tasks : x # y /\ Busy(x) /\ Busy(y) => blk[x] # blk[y]

\* What the database holds of a block: no row twice, and a block's row or its
\* announcement only after the rows they stand for.
BlockOK(b) ==
  /\ blockRows[b] <= 1 /\ notified[b] <= blockRows[b]
  /\ \A i \in TxNumbers : txRows[b][i] <= 1
  /\ blockRows[b] = 1 => \A i \in Txs(b) : txRows[b][i] = 1

\* What a task in the middle of a block may rely on: the answer it got from the
\* last SELECT is still the truth when it acts on it.
Progress(x) ==
  Busy(x) =>
    /\ \A i \in TxNumbers : i < tx[x] => txRows[blk[x]][i] = 1
    /\ pc[x] = "insertTx" => txRows[blk[x]][tx[x]] = 0
    /\ pc[x] \in {"bumpChaincode", "bumpTrans"} => txRows[blk[x]][tx[x]] = 1
    /\ pc[x] \in {"countBlock", "insertBlock", "bumpBlocks"} =>
         \A i \in Txs(blk[x]) : txRows[blk[x]][i] = 1
    /\ pc[x] = "insertBlock" => blockRows[blk[x]] = 0
    /\ pc[x] = "bumpBlocks" => blockRows[blk[x]] = 1 /\ notified[blk[x]] = 0

IInv == /\ TypeOK
        /\ Locked
        /\ \A b \in Blocks : BlockOK(b)
        /\ \A x \in Tasks : Progress(x)

LEMMA TxsAreTxNumbers ==
  ASSUME NEW b \in Blocks
  PROVE  Txs(b) \subseteq TxNumbers
  BY SyncAssumption, Bounds DEF Txs, TxNumbers

LEMMA InitIInv == Init => IInv
  <1> SUFFICES ASSUME Init PROVE IInv
    OBVIOUS
  <1>1. TypeOK
    BY TypeInit
  <1>2. Locked
    BY DEF Init, Locked, Busy
  <1>3. \A b \in Blocks : BlockOK(b)
    BY TxsAreTxNumbers DEF Init, BlockOK
  <1>4. \A x \in Tasks : Progress(x)
    BY DEF Init, Progress, Busy
  <1>5. QED BY <1>1, <1>2, <1>3, <1>4 DEF IInv

\* A statement touches the rows of its own block, and the locals of its own call.
LEMMA StatementFrame ==
  ASSUME TypeOK, NEW x \in Tasks, Statement(x)
  PROVE  /\ Busy(x)
         /\ \A y \in Tasks \ {x} : pc'[y] = pc[y] /\ blk'[y] = blk[y] /\ tx'[y] = tx[y]
         /\ \A b \in Blocks \ {blk[x]} :
              blockRows'[b] = blockRows[b] /\ txRows'[b] = txRows[b] /\ notified'[b] = notified[b]
         /\ \/ blocksInProcess' = blocksInProcess /\ blk'[x] = blk[x]
            \/ blocksInProcess' = blocksInProcess \ {blk[x]} /\ pc'[x] = "idle"
  <1>0. CallsTypeOK /\ RowsTypeOK
    BY DEF TypeOK
  <1> USE <1>0 DEF CallsTypeOK, RowsTypeOK, Busy, dbVars
  <1>1. CASE CountTx(x) BY <1>1 DEF CountTx, NextTx
  <1>2. CASE InsertTx(x) BY <1>2 DEF InsertTx
  <1>3. CASE BumpChaincode(x) BY <1>3 DEF BumpChaincode
  <1>4. CASE BumpTrans(x) BY <1>4 DEF BumpTrans, NextTx
  <1>5. CASE CountBlock(x) BY <1>5 DEF CountBlock, Release, Return
  <1>6. CASE InsertBlock(x) BY <1>6 DEF InsertBlock
  <1>7. CASE BumpBlocks(x) BY <1>7 DEF BumpBlocks, Release, Return
  <1>8. QED BY <1>1, <1>2, <1>3, <1>4, <1>5, <1>6, <1>7 DEF Statement

\* The step to the next transaction, once the row of this one is there.
LEMMA NextTxProgress ==
  ASSUME TypeOK, NEW x \in Tasks, Progress(x), Busy(x), NextTx(x), UNCHANGED txRows,
         txRows[blk[x]][tx[x]] = 1
  PROVE  Progress(x)'
  <1>1. /\ CallsTypeOK /\ blk[x] \in Blocks /\ tx[x] \in TxNumbers /\ tx[x] \in Nat
        /\ TxCount[blk[x]] \in Nat
    BY Bounds DEF TypeOK, CallsTypeOK
  <1>2. ASSUME NEW i \in TxNumbers, i < tx[x] + 1 PROVE txRows[blk[x]][i] = 1
    <2>1. i \in Nat
      BY Bounds
    <2>2. i < tx[x] \/ i = tx[x]
      BY <1>1, <1>2, <2>1
    <2>3. QED BY <2>2 DEF Progress
  <1>3. CASE MoreTxs(x)
    <2>1. pc'[x] = "countTx" /\ tx'[x] = tx[x] + 1 /\ blk'[x] = blk[x]
      BY <1>1, <1>3 DEF NextTx, CallsTypeOK
    <2>2. QED BY <1>2, <2>1 DEF Progress
  <1>4. CASE ~ MoreTxs(x)
    <2>1. pc'[x] = "countBlock" /\ tx'[x] = tx[x] /\ blk'[x] = blk[x]
      BY <1>1, <1>4 DEF NextTx, CallsTypeOK
    <2>2. \A i \in Txs(blk[x]) : i < tx[x] + 1 /\ i \in TxNumbers
      BY <1>1, <1>4, TxsAreTxNumbers DEF MoreTxs, Txs
    <2>3. QED BY <1>2, <2>1, <2>2 DEF Progress
  <1>5. QED BY <1>3, <1>4

LEMMA StatementProgress ==
  ASSUME IInv, NEW x \in Tasks, Statement(x), NEW b, b = blk[x]
  PROVE  Progress(x)' /\ BlockOK(b)'
  <1>0. /\ TypeOK /\ Progress(x) /\ Busy(x) /\ BlockOK(b)
        /\ b \in Blocks /\ tx[x] \in TxNumbers /\ Txs(b) \subseteq TxNumbers
        /\ CallsTypeOK /\ blockRows[b] \in Nat /\ notified[b] \in Nat
        /\ txRows[b] \in TxRows /\ \A i \in TxNumbers : txRows[b][i] \in Nat
    BY StatementFrame, TxsAreTxNumbers DEF IInv, TypeOK, CallsTypeOK, RowsTypeOK, TxRows
  <1>1. CASE CountTx(x)
    <2>1. UNCHANGED <<blockRows, txRows, notified>>
      BY <1>1 DEF CountTx, dbVars
    <2>2. CASE IsValidRow(txRows[b][tx[x]])
      <3>1. pc'[x] = "insertTx" /\ UNCHANGED <<blk, tx>> /\ txRows[b][tx[x]] = 0
        BY <1>0, <1>1, <2>2 DEF CountTx, IsValidRow, CallsTypeOK
      <3>2. QED BY <1>0, <2>1, <3>1 DEF Progress, BlockOK, Busy
    <2>3. CASE ~ IsValidRow(txRows[b][tx[x]])
      <3>1. txRows[b][tx[x]] = 1
        BY <1>0, <2>3 DEF IsValidRow, BlockOK
      <3>2. Progress(x)'
        BY <1>0, <1>1, <2>1, <2>3, <3>1, NextTxProgress DEF CountTx
      <3>3. QED BY <1>0, <2>1, <3>2 DEF BlockOK
    <2>4. QED BY <2>2, <2>3
  <1>2. CASE InsertTx(x)
    <2>1. /\ pc'[x] = "bumpChaincode" /\ UNCHANGED <<blk, tx, blockRows, notified>>
          /\ txRows'[b] = AddRow(txRows[b], tx[x])
          /\ txRows[b][tx[x]] = 0
      BY <1>0, <1>2 DEF InsertTx, Progress, TypeOK, RowsTypeOK, CallsTypeOK
    <2>2. /\ txRows'[b][tx[x]] = 1
          /\ \A i \in TxNumbers \ {tx[x]} : txRows'[b][i] = txRows[b][i]
      BY <1>0, <2>1, AddRowType
    <2>3. Progress(x)'
      BY <1>0, <2>1, <2>2, Bounds DEF Progress, Busy
    <2>4. BlockOK(b)'
      BY <1>0, <2>1, <2>2 DEF BlockOK, Txs
    <2>5. QED BY <2>3, <2>4
  <1>3. CASE BumpChaincode(x)
    <2>1. pc[x] = "bumpChaincode" /\ pc'[x] = "bumpTrans" /\ UNCHANGED <<blk, tx, blockRows, txRows, notified>>
      BY <1>0, <1>3 DEF BumpChaincode, CallsTypeOK
    <2>2. QED BY <1>0, <2>1 DEF Progress, BlockOK, Busy
  <1>4. CASE BumpTrans(x)
    <2>1. UNCHANGED <<blockRows, txRows, notified>> /\ NextTx(x) /\ txRows[b][tx[x]] = 1
      BY <1>0, <1>4 DEF BumpTrans, Progress
    <2>2. QED BY <1>0, <2>1, NextTxProgress DEF BlockOK
  <1>5. CASE CountBlock(x)
    <2>1. UNCHANGED <<blockRows, txRows, notified>> /\ pc[x] = "countBlock"
      BY <1>5 DEF CountBlock, dbVars
    <2>2. CASE IsValidRow(blockRows[b])
      <3>1. pc'[x] = "insertBlock" /\ UNCHANGED <<blk, tx>> /\ blockRows[b] = 0
        BY <1>0, <1>5, <2>2 DEF CountBlock, IsValidRow, CallsTypeOK
      <3>2. QED BY <1>0, <2>1, <3>1 DEF Progress, BlockOK, Busy
    <2>3. CASE ~ IsValidRow(blockRows[b])
      <3>1. pc'[x] = "idle"
        BY <1>0, <1>5, <2>3 DEF CountBlock, Release, Return, CallsTypeOK
      <3>2. QED BY <1>0, <2>1, <3>1 DEF Progress, BlockOK, Busy
    <2>4. QED BY <2>2, <2>3
  <1>6. CASE InsertBlock(x)
    <2>1. /\ pc'[x] = "bumpBlocks" /\ UNCHANGED <<blk, tx, txRows, notified>>
          /\ blockRows'[b] = blockRows[b] + 1 /\ blockRows[b] = 0
          /\ \A i \in Txs(b) : txRows[b][i] = 1
      BY <1>0, <1>6 DEF InsertBlock, Progress, TypeOK, RowsTypeOK, CallsTypeOK
    <2>2. notified[b] = 0
      BY <1>0, <2>1 DEF BlockOK
    <2>3. QED BY <1>0, <2>1, <2>2 DEF Progress, BlockOK, Busy
  <1>7. CASE BumpBlocks(x)
    <2>1. /\ pc'[x] = "idle" /\ UNCHANGED <<blockRows, txRows>>
          /\ notified'[b] = notified[b] + 1 /\ notified[b] = 0 /\ blockRows[b] = 1
      BY <1>0, <1>7 DEF BumpBlocks, Release, Return, Progress, TypeOK, RowsTypeOK, CallsTypeOK
    <2>2. QED BY <1>0, <2>1 DEF Progress, BlockOK, Busy
  <1>8. QED BY <1>1, <1>2, <1>3, <1>4, <1>5, <1>6, <1>7 DEF Statement

LEMMA StatementIInv ==
  ASSUME IInv, NEW x \in Tasks, Statement(x)
  PROVE  IInv'
  <1>1. TypeOK'
    BY StatementType DEF IInv
  <1>2. Locked'
    BY StatementFrame DEF IInv, Locked, Busy
  <1>3. ASSUME NEW b \in Blocks PROVE BlockOK(b)'
    <2>1. CASE b = blk[x]
      BY <2>1, StatementProgress
    <2>2. CASE b # blk[x]
      BY <2>2, StatementFrame DEF IInv, BlockOK
    <2>3. QED BY <2>1, <2>2
  <1>4. ASSUME NEW y \in Tasks PROVE Progress(y)'
    <2>1. CASE y = x
      BY <2>1, StatementProgress
    <2>2. CASE y # x /\ Busy(y)
      <3>1. blk[y] \in Blocks \ {blk[x]} /\ Progress(y)
        BY <2>2, StatementFrame DEF IInv, Locked, TypeOK, CallsTypeOK
      <3>2. QED BY <2>2, <3>1, StatementFrame DEF IInv, Progress, Busy
    <2>3. CASE y # x /\ ~ Busy(y)
      BY <2>3, StatementFrame DEF IInv, Progress, Busy
    <2>4. QED BY <2>1, <2>2, <2>3
  <1>5. QED BY <1>1, <1>2, <1>3, <1>4 DEF IInv

rowVars == <<blockRows, txRows, notified>>

\* A step that leaves the calls and the rows alone.
LEMMA OtherIInv ==
  ASSUME IInv, TypeOK', UNCHANGED <<rowVars, callVars, blocksInProcess>>
  PROVE  IInv'
  BY DEF IInv, Locked, BlockOK, Progress, Busy, rowVars, callVars

LEMMA ProcessBlockEventIInv ==
  ASSUME IInv, TypeOK', NEW x \in Tasks, NEW b \in Blocks, NEW quiet,
         pc[x] = "idle", ProcessBlockEvent(x, b, quiet), UNCHANGED rowVars
  PROVE  IInv'
  <1>1. CASE StartBlock(x, b, quiet)
    <2>1. CallsTypeOK
      BY DEF IInv, TypeOK
    <2>2. /\ pc'[x] = "countTx" /\ blk'[x] = b /\ tx'[x] = 1
          /\ \A y \in Tasks \ {x} : pc'[y] = pc[y] /\ blk'[y] = blk[y] /\ tx'[y] = tx[y]
          /\ b \notin blocksInProcess /\ blocksInProcess' = blocksInProcess \cup {b}
      BY <1>1, <2>1 DEF StartBlock, InProcess, CallsTypeOK
    <2>3. Locked'
      BY <2>2 DEF IInv, Locked, Busy
    <2>4. Progress(x)'
      <3>1. \A i \in TxNumbers : ~ (i < 1)
        BY DEF TxNumbers
      <3>2. QED BY <2>2, <3>1 DEF Progress
    <2>5. \A y \in Tasks \ {x} : Progress(y)'
      BY <2>2 DEF IInv, Progress, Busy, rowVars
    <2>6. \A c \in Blocks : BlockOK(c)'
      BY DEF IInv, BlockOK, rowVars
    <2>7. QED BY <2>3, <2>4, <2>5, <2>6 DEF IInv
  <1>2. CASE RefuseBlock(b)
    BY <1>2, OtherIInv DEF RefuseBlock
  <1>3. QED BY <1>1, <1>2 DEF ProcessBlockEvent

\* A step after which fewer calls are running, and the rows are what they were.
LEMMA EndOfCallsIInv ==
  ASSUME IInv, TypeOK', UNCHANGED rowVars,
         \A x \in Tasks : \/ pc'[x] = "idle"
                          \/ /\ pc'[x] = pc[x] /\ blk'[x] = blk[x] /\ tx'[x] = tx[x]
                             /\ blk[x] \in blocksInProcess => blk[x] \in blocksInProcess'
  PROVE  IInv'
  <1>1. Locked'
    BY DEF IInv, Locked, Busy
  <1>2. \A x \in Tasks : Progress(x)'
    BY DEF IInv, Progress, Busy, rowVars
  <1>3. \A b \in Blocks : BlockOK(b)'
    BY DEF IInv, BlockOK, rowVars
  <1>4. QED BY <1>1, <1>2, <1>3 DEF IInv

LEMMA PassIInv ==
  ASSUME IInv, TypeOK', NEW p \in Passes, PassStep(p) \/ PassFault(p)
  PROVE  IInv'
  <1>0. UNCHANGED rowVars
    BY DEF PassStep, PassFault, GetChannelInfo, CheckBlock, HandleBlock, FindMissingBlockNumber,
       HandleMissing, FinishSync, NoChannelInfo, CheckFails, FindFails, SkipMissing, passFrame,
       dbVars, rowVars
  <1>1. CASE HandleBlock(p)
    <2>1. cursor[p] \in Blocks
      BY DEF IInv, TypeOK, PassesTypeOK
    <2>2. QED BY <1>0, <1>1, <2>1, ProcessBlockEventIInv DEF HandleBlock
  <1>2. CASE HandleMissing(p)
    <2>1. PICK b \in todo[p] : ProcessBlockEvent(p, b, noDiscovery[p])
      BY <1>2 DEF HandleMissing
    <2>2. b \in Blocks
      BY <2>1 DEF IInv, TypeOK, PassesTypeOK
    <2>3. QED BY <1>0, <1>2, <2>1, <2>2, ProcessBlockEventIInv DEF HandleMissing
  <1>3. CASE ~ HandleBlock(p) /\ ~ HandleMissing(p)
    <2>1. UNCHANGED <<callVars, blocksInProcess>>
      BY <1>3 DEF PassStep, PassFault, GetChannelInfo, CheckBlock, FindMissingBlockNumber,
         FinishSync, NoChannelInfo, CheckFails, FindFails, SkipMissing, lockVars
    <2>2. QED BY <1>0, <2>1, OtherIInv
  <1>4. QED BY <1>1, <1>2, <1>3

LEMMA NextIInv == IInv /\ [Next]_vars => IInv'
  <1> SUFFICES ASSUME IInv, [Next]_vars PROVE IInv'
    OBVIOUS
  <1>0. TypeOK'
    BY TypeStep DEF IInv
  <1> USE <1>0 DEF lockVars, dbVars, rowVars
  <1>1. CASE CommitBlock
    BY <1>1, OtherIInv DEF CommitBlock
  <1>2. CASE \E x \in Tasks : Statement(x)
    BY <1>2, StatementIInv
  <1>3. ASSUME NEW x \in Tasks, FailBlock(x) PROVE IInv'
    <2>1. CallsTypeOK
      BY DEF IInv, TypeOK
    <2>2. QED BY <1>3, <2>1, EndOfCallsIInv DEF FailBlock, Return, CallsTypeOK
  <1>4. ASSUME NEW p \in Passes, SyncBlocks(p) PROVE IInv'
    BY <1>4, OtherIInv DEF SyncBlocks
  <1>5. CASE \E p \in Passes : PassStep(p) \/ PassFault(p)
    BY <1>5, PassIInv
  <1>6. ASSUME NEW h \in Hubs, HubConnected(h) \/ HubFailed(h) \/ Reconnect(h) \/ Start(h)
        PROVE IInv'
    BY <1>6, OtherIInv DEF HubConnected, HubFailed, Reconnect, Start
  <1>7. ASSUME NEW h \in Hubs, BlockEvent(h) PROVE IInv'
    <2>1. CASE nextEvent[h] = 0
      BY <1>7, <2>1, OtherIInv DEF BlockEvent
    <2>2. CASE nextEvent[h] # 0
      <3>1. nextEvent[h] \in Blocks
        BY <1>7, LedgerBlocks DEF BlockEvent, IInv, TypeOK, ProcessTypeOK
      <3>2. QED BY <1>7, <2>2, <3>1, ProcessBlockEventIInv DEF BlockEvent
    <2>3. QED BY <2>1, <2>2
  <1>8. ASSUME NEW t \in timers, Discover(t) PROVE IInv'
    BY <1>8, OtherIInv DEF Discover
  <1>9. CASE Crash
    <2>1. \A x \in Tasks : pc'[x] = "idle"
      BY <1>9 DEF Crash
    <2>2. UNCHANGED rowVars
      BY <1>9 DEF Crash
    <2>3. QED BY <2>1, <2>2, EndOfCallsIInv
  <1>10. CASE UNCHANGED vars
    BY <1>10, OtherIInv DEF vars
  <1>11. QED
    BY <1>1, <1>2, <1>3, <1>4, <1>5, <1>6, <1>7, <1>8, <1>9, <1>10 DEF Next, HubStep

THEOREM InvariantHolds == Spec => []IInv
  BY InitIInv, NextIInv, PTL DEF Spec

-----------------------------------------------------------------------------
(* What follows. *)

\* With any number of listeners and overlapping passes, any failed statements and any
\* restarts, no block and no transaction is ever stored twice.
THEOREM NoDuplicatesTheorem == Spec => []NoDuplicateRows
  <1>1. IInv => NoDuplicateRows
    BY TxsAreTxNumbers DEF IInv, BlockOK, NoDuplicateRows
  <1>2. QED BY <1>1, InvariantHolds, PTL

\* A block has its row only when each of its transactions has one.
THEOREM CompleteBlocksTheorem == Spec => []BlocksAreComplete
  <1>1. ASSUME IInv PROVE BlocksAreComplete
    <2> SUFFICES ASSUME NEW b \in Blocks, blockRows[b] > 0, NEW i \in Txs(b)
                 PROVE  txRows[b][i] > 0
      BY DEF BlocksAreComplete
    <2>1. blockRows[b] \in Nat /\ BlockOK(b)
      BY <1>1 DEF IInv, TypeOK, RowsTypeOK
    <2>2. txRows[b][i] = 1
      BY <2>1 DEF BlockOK
    <2>3. QED BY <2>2
  <1>2. QED BY <1>1, InvariantHolds, PTL

\* No block is announced to the clients twice.
THEOREM AnnouncedOnceTheorem == Spec => []AnnouncedOnce
  <1>1. ASSUME IInv, NEW b \in Blocks PROVE notified[b] <= 1
    BY <1>1 DEF IInv, TypeOK, RowsTypeOK, BlockOK
  <1>2. IInv => AnnouncedOnce
    BY <1>1 DEF AnnouncedOnce
  <1>3. QED BY <1>2, InvariantHolds, PTL

-----------------------------------------------------------------------------
(* The counters.  A row is settled when no task is between its INSERT and  *)
(* the UPDATE of the counter: the counters follow the settled rows.        *)

Unfailed == faults.db = 0 /\ faults.crash = 0

SettledBlocks ==
  { b \in StoredBlocks : \A x \in Tasks : pc[x] = "bumpBlocks" => blk[x] # b }
SettledTxs ==
  { t \in StoredTxs :
      \A x \in Tasks : pc[x] \in {"bumpChaincode", "bumpTrans"} => <<blk[x], tx[x]>> # t }
SettledCounted ==
  { t \in StoredTxs \cap CountedTxs :
      \A x \in Tasks : pc[x] = "bumpChaincode" => <<blk[x], tx[x]>> # t }

\* A counter is at most the number of rows, and that number if nothing has failed.
Follows(counter, rows, exactly) ==
  /\ counter <= Cardinality(rows)
  /\ exactly => counter = Cardinality(rows)

CountersInv ==
  /\ Follows(channelBlocks, SettledBlocks, Unfailed)
  /\ Follows(channelTrans, SettledTxs, Unfailed)
  /\ Follows(chaincodeTxs, SettledCounted, Unfailed)

\* The loop never leaves the transactions of its block.
InBlock == \A x \in Tasks : tx[x] \in Txs(blk[x])

CInv == IInv /\ InBlock /\ CountersInv

LEMMA StoredTxsAre ==
  ASSUME NEW b, NEW i
  PROVE  <<b, i>> \in StoredTxs <=> b \in Blocks /\ i \in Txs(b) /\ txRows[b][i] > 0
  BY DEF StoredTxs

\* The same after a step: the members of the set, said of the new rows.
LEMMA StoredTxsAreNext ==
  ASSUME NEW b, NEW i
  PROVE  <<b, i>> \in StoredTxs' <=> b \in Blocks /\ i \in Txs(b) /\ txRows'[b][i] > 0
  BY DEF StoredTxs, Txs

LEMMA StoredAreFinite ==
  /\ StoredBlocks \subseteq Blocks /\ IsFiniteSet(Blocks)
  /\ StoredTxs \subseteq Blocks \X TxNumbers /\ IsFiniteSet(Blocks \X TxNumbers)
  <1>1. IsFiniteSet(Blocks) /\ IsFiniteSet(TxNumbers)
    BY SyncAssumption, FS_Interval DEF Blocks, TxNumbers
  <1>2. IsFiniteSet(Blocks \X TxNumbers)
    BY <1>1, FS_Product
  <1>3. StoredTxs \subseteq Blocks \X TxNumbers
    BY TxsAreTxNumbers DEF StoredTxs
  <1>4. QED BY <1>1, <1>2, <1>3 DEF StoredBlocks

LEMMA SettledAreFinite ==
  /\ IsFiniteSet(StoredBlocks) /\ IsFiniteSet(StoredTxs) /\ IsFiniteSet(StoredTxs \cap CountedTxs)
  /\ IsFiniteSet(SettledBlocks) /\ IsFiniteSet(SettledTxs) /\ IsFiniteSet(SettledCounted)
  <1>1. IsFiniteSet(StoredBlocks) /\ IsFiniteSet(StoredTxs)
    BY StoredAreFinite, FS_Subset
  <1>2. IsFiniteSet(StoredTxs \cap CountedTxs)
    BY <1>1, FS_Subset
  <1>3. IsFiniteSet(SettledBlocks)
    BY <1>1, FS_Subset DEF SettledBlocks
  <1>4. IsFiniteSet(SettledTxs)
    BY <1>1, FS_Subset DEF SettledTxs
  <1>5. IsFiniteSet(SettledCounted)
    BY <1>2, FS_Subset DEF SettledCounted
  <1>6. QED BY <1>1, <1>2, <1>3, <1>4, <1>5

LEMMA SettledAreFiniteNext ==
  (/\ IsFiniteSet(SettledBlocks) /\ IsFiniteSet(SettledTxs) /\ IsFiniteSet(SettledCounted))'
  <1>1. IsFiniteSet(SettledBlocks) /\ IsFiniteSet(SettledTxs) /\ IsFiniteSet(SettledCounted)
    BY SettledAreFinite
  <1>2. QED BY <1>1, PTL

LEMMA FollowsMore ==
  ASSUME NEW counter \in Nat, NEW rows, IsFiniteSet(rows), NEW row, row \notin rows,
         NEW exactly, Follows(counter, rows, exactly)
  PROVE  Follows(counter + 1, rows \cup {row}, exactly)
  <1>1. Cardinality(rows \cup {row}) = Cardinality(rows) + 1 /\ Cardinality(rows) \in Nat
    BY FS_AddElement, FS_CardinalityType
  <1>2. QED BY <1>1 DEF Follows

LEMMA FollowsFailed ==
  ASSUME NEW counter \in Nat, NEW more, IsFiniteSet(more), NEW rows, rows \subseteq more,
         NEW exactly, Follows(counter, rows, exactly)
  PROVE  Follows(counter, more, FALSE)
  <1>1. /\ Cardinality(rows) <= Cardinality(more)
        /\ Cardinality(rows) \in Nat /\ Cardinality(more) \in Nat
    BY FS_Subset, FS_CardinalityType
  <1>2. QED BY <1>1 DEF Follows

\* A step that neither touches a row or a counter nor lets a call into or out of an UPDATE.
LEMMA OtherCounters ==
  ASSUME CountersInv, UNCHANGED dbVars, Unfailed' => Unfailed,
         \A x \in Tasks :
           \/ pc'[x] = pc[x] /\ blk'[x] = blk[x] /\ tx'[x] = tx[x]
           \/ {pc[x], pc'[x]} \cap {"bumpChaincode", "bumpTrans", "bumpBlocks"} = {}
  PROVE  CountersInv'
  <1>1. StoredBlocks' = StoredBlocks /\ StoredTxs' = StoredTxs
    BY DEF dbVars, StoredBlocks, StoredTxs, Txs
  <1>2. \A x \in Tasks :
          /\ pc'[x] = "bumpBlocks" <=> pc[x] = "bumpBlocks"
          /\ pc'[x] = "bumpChaincode" <=> pc[x] = "bumpChaincode"
          /\ pc'[x] = "bumpTrans" <=> pc[x] = "bumpTrans"
          /\ pc[x] \in {"bumpChaincode", "bumpTrans", "bumpBlocks"} =>
               blk'[x] = blk[x] /\ tx'[x] = tx[x]
    OBVIOUS
  <1>3. SettledBlocks' = SettledBlocks
    BY <1>1, <1>2 DEF SettledBlocks
  <1>4. SettledTxs' = SettledTxs
    BY <1>1, <1>2 DEF SettledTxs
  <1>5. SettledCounted' = SettledCounted
    BY <1>1, <1>2 DEF SettledCounted
  <1>6. QED BY <1>3, <1>4, <1>5 DEF CountersInv, Follows, dbVars

\* A failure ends calls: their rows stay, uncounted.
LEMMA FailedCounters ==
  ASSUME TypeOK, CountersInv, UNCHANGED dbVars, ~ Unfailed',
         \A x \in Tasks :
           \/ pc'[x] = "idle"
           \/ pc'[x] = pc[x] /\ blk'[x] = blk[x] /\ tx'[x] = tx[x]
  PROVE  CountersInv'
  <1>1. StoredBlocks' = StoredBlocks /\ StoredTxs' = StoredTxs
    BY DEF dbVars, StoredBlocks, StoredTxs, Txs
  <1>2. SettledBlocks \subseteq SettledBlocks'
    BY <1>1 DEF SettledBlocks
  <1>3. SettledTxs \subseteq SettledTxs'
    BY <1>1 DEF SettledTxs
  <1>4. SettledCounted \subseteq SettledCounted'
    BY <1>1 DEF SettledCounted
  <1>5. IsFiniteSet(SettledBlocks') /\ IsFiniteSet(SettledTxs') /\ IsFiniteSet(SettledCounted')
    BY SettledAreFiniteNext
  <1>6. channelBlocks \in Nat /\ channelTrans \in Nat /\ chaincodeTxs \in Nat
    BY DEF TypeOK, RowsTypeOK
  <1>7. /\ Follows(channelBlocks, SettledBlocks', FALSE)
        /\ Follows(channelTrans, SettledTxs', FALSE)
        /\ Follows(chaincodeTxs, SettledCounted', FALSE)
    BY <1>2, <1>3, <1>4, <1>5, <1>6, FollowsFailed DEF CountersInv
  <1>8. QED BY <1>7 DEF CountersInv, Follows, dbVars

\* The rows that an INSERT makes are not settled; an UPDATE settles the row of its call.
LEMMA StatementCounters ==
  ASSUME CInv, NEW x \in Tasks, Statement(x)
  PROVE  CountersInv'
  <1> DEFINE b == blk[x]
             i == tx[x]
             t == <<b, i>>
  <1>0. /\ TypeOK /\ RowsTypeOK /\ CallsTypeOK /\ CountersInv /\ Busy(x) /\ Progress(x) /\ BlockOK(b)
        /\ b \in Blocks /\ i \in TxNumbers /\ i \in Txs(b) /\ t = <<blk[x], tx[x]>>
        /\ channelBlocks \in Nat /\ channelTrans \in Nat /\ chaincodeTxs \in Nat
        /\ \A y \in Tasks \ {x} : Busy(y) => blk[y] # b
        /\ \A y \in Tasks \ {x} : pc'[y] = pc[y] /\ blk'[y] = blk[y] /\ tx'[y] = tx[y]
    BY StatementFrame DEF CInv, IInv, InBlock, Locked, TypeOK, RowsTypeOK, CallsTypeOK
  <1>1. Unfailed' = Unfailed
    BY DEF Statement, CountTx, InsertTx, BumpChaincode, BumpTrans, CountBlock, InsertBlock,
       BumpBlocks, callFrame, Unfailed
  <1>2. CASE CountTx(x) \/ CountBlock(x)
    <2>1. UNCHANGED dbVars /\ {pc[x], pc'[x]} \cap {"bumpChaincode", "bumpTrans", "bumpBlocks"} = {}
      BY <1>0, <1>2 DEF CountTx, CountBlock, NextTx, Release, Return, CallsTypeOK
    <2>2. QED BY <1>0, <1>1, <2>1, OtherCounters
  <1>3. CASE InsertTx(x)
    <2>1. /\ pc[x] = "insertTx" /\ pc'[x] = "bumpChaincode"
          /\ UNCHANGED <<blk, tx, blockRows, channelBlocks, channelTrans, chaincodeTxs>>
          /\ txRows[b][i] = 0
      BY <1>0, <1>3 DEF InsertTx, Progress, CallsTypeOK
    <2>2. /\ txRows' = [txRows EXCEPT ![b] = AddRow(@, i)]
          /\ AddRow(txRows[b], i)[i] = 1
          /\ \A j \in TxNumbers \ {i} : AddRow(txRows[b], i)[j] = txRows[b][j]
      BY <1>0, <1>3, <2>1, AddRowType DEF InsertTx, RowsTypeOK
    <2>3. StoredTxs' = StoredTxs \cup {t} /\ t \notin StoredTxs
      <3>1. \A c \in Blocks : \A j \in Txs(c) :
              txRows'[c][j] > 0 <=> (c = b /\ j = i) \/ txRows[c][j] > 0
        BY <1>0, <2>2, TxsAreTxNumbers DEF RowsTypeOK
      <3>2. t \notin StoredTxs
        BY <1>0, <2>1, StoredTxsAre
      <3>3. \A u \in Blocks \X Nat : u \in StoredTxs' <=> u \in StoredTxs \cup {t}
        BY <1>0, <3>1, StoredTxsAre, StoredTxsAreNext
      <3>4. StoredTxs \subseteq Blocks \X Nat /\ StoredTxs' \subseteq Blocks \X Nat /\ t \in Blocks \X Nat
        BY <1>0, Bounds DEF StoredTxs, Txs
      <3>5. QED BY <3>2, <3>3, <3>4
    <2>4. StoredBlocks' = StoredBlocks
      BY <2>1 DEF StoredBlocks
    <2>5. \A y \in Tasks : blk'[y] = blk[y] /\ tx'[y] = tx[y] /\ (y # x => pc'[y] = pc[y])
      BY <1>0, <2>1
    <2> HIDE DEF t
    <2>6. SettledBlocks' = SettledBlocks
      BY <2>1, <2>4, <2>5 DEF SettledBlocks
    <2>7. SettledTxs' = SettledTxs
      BY <1>0, <2>1, <2>3, <2>5 DEF SettledTxs
    <2>8. SettledCounted' = SettledCounted
      BY <1>0, <2>1, <2>3, <2>5 DEF SettledCounted
    <2>9. QED BY <1>0, <1>1, <2>1, <2>6, <2>7, <2>8 DEF CountersInv, Follows
  <1>4. CASE BumpChaincode(x)
    <2>1. /\ pc[x] = "bumpChaincode" /\ pc'[x] = "bumpTrans"
          /\ UNCHANGED <<blk, tx, blockRows, txRows, channelBlocks, channelTrans>>
          /\ chaincodeTxs' = IF t \in CountedTxs THEN chaincodeTxs + 1 ELSE chaincodeTxs
      BY <1>0, <1>4 DEF BumpChaincode, CallsTypeOK
    <2>2. StoredBlocks' = StoredBlocks /\ StoredTxs' = StoredTxs /\ t \in StoredTxs
      <3>1. t \in StoredTxs
        BY <1>0, <2>1, StoredTxsAre DEF Progress
      <3>2. QED BY <2>1, <3>1 DEF StoredBlocks, StoredTxs, Txs
    <2>3. \A y \in Tasks : blk'[y] = blk[y] /\ tx'[y] = tx[y] /\ (y # x => pc'[y] = pc[y])
      BY <1>0, <2>1
    <2>4. \A y \in Tasks \ {x} : Busy(y) => <<blk[y], tx[y]>> # t
      BY <1>0
    <2> HIDE DEF t
    <2>5. SettledBlocks' = SettledBlocks
      BY <2>1, <2>2, <2>3 DEF SettledBlocks
    <2>6. SettledTxs' = SettledTxs
      BY <2>1, <2>2, <2>3 DEF SettledTxs
    <2>7. CASE t \in CountedTxs
      <3>1. SettledCounted' = SettledCounted \cup {t} /\ t \notin SettledCounted
        BY <1>0, <2>1, <2>2, <2>3, <2>4, <2>7 DEF SettledCounted, Busy
      <3>2. Follows(chaincodeTxs + 1, SettledCounted \cup {t}, Unfailed)
        BY <1>0, <3>1, SettledAreFinite, FollowsMore DEF CountersInv
      <3>3. QED BY <1>0, <1>1, <2>1, <2>5, <2>6, <2>7, <3>1, <3>2 DEF CountersInv, Follows
    <2>8. CASE t \notin CountedTxs
      <3>1. SettledCounted' = SettledCounted
        BY <1>0, <2>1, <2>2, <2>3, <2>8 DEF SettledCounted
      <3>2. QED BY <1>0, <1>1, <2>1, <2>5, <2>6, <2>8, <3>1 DEF CountersInv, Follows
    <2>9. QED BY <2>7, <2>8
  <1>5. CASE BumpTrans(x)
    <2>1. /\ pc[x] = "bumpTrans" /\ pc'[x] \in {"countTx", "countBlock"}
          /\ UNCHANGED <<blockRows, txRows, channelBlocks, chaincodeTxs>>
          /\ channelTrans' = channelTrans + 1
      BY <1>0, <1>5 DEF BumpTrans, NextTx, CallsTypeOK
    <2>2. StoredBlocks' = StoredBlocks /\ StoredTxs' = StoredTxs /\ t \in StoredTxs
      <3>1. t \in StoredTxs
        BY <1>0, <2>1, StoredTxsAre DEF Progress
      <3>2. QED BY <2>1, <3>1 DEF StoredBlocks, StoredTxs, Txs
    <2>3. \A y \in Tasks \ {x} : pc'[y] = pc[y] /\ blk'[y] = blk[y] /\ tx'[y] = tx[y]
      BY <1>0
    <2>4. \A y \in Tasks \ {x} : Busy(y) => <<blk[y], tx[y]>> # t
      BY <1>0
    <2> HIDE DEF t
    <2>5. SettledBlocks' = SettledBlocks
      BY <2>1, <2>2, <2>3 DEF SettledBlocks
    <2>6. SettledCounted' = SettledCounted
      BY <2>1, <2>2, <2>3 DEF SettledCounted
    <2>7. SettledTxs' = SettledTxs \cup {t} /\ t \notin SettledTxs
      BY <1>0, <2>1, <2>2, <2>3, <2>4 DEF SettledTxs, Busy
    <2>8. Follows(channelTrans + 1, SettledTxs \cup {t}, Unfailed)
      BY <1>0, <2>7, SettledAreFinite, FollowsMore DEF CountersInv
    <2>9. QED BY <1>0, <1>1, <2>1, <2>5, <2>6, <2>7, <2>8 DEF CountersInv, Follows
  <1>6. CASE InsertBlock(x)
    <2>1. /\ pc[x] = "insertBlock" /\ pc'[x] = "bumpBlocks"
          /\ UNCHANGED <<blk, tx, txRows, channelBlocks, channelTrans, chaincodeTxs>>
          /\ blockRows' = [blockRows EXCEPT ![b] = @ + 1]
          /\ blockRows[b] = 0
      BY <1>0, <1>6 DEF InsertBlock, Progress, CallsTypeOK
    <2>2. StoredTxs' = StoredTxs
      BY <2>1 DEF StoredTxs, Txs
    <2>3. StoredBlocks' = StoredBlocks \cup {b} /\ b \notin StoredBlocks
      BY <1>0, <2>1 DEF StoredBlocks, RowsTypeOK
    <2>4. \A y \in Tasks : blk'[y] = blk[y] /\ tx'[y] = tx[y] /\ (y # x => pc'[y] = pc[y])
      BY <1>0, <2>1
    <2>5. SettledBlocks' = SettledBlocks
      BY <2>1, <2>3, <2>4 DEF SettledBlocks
    <2>6. SettledTxs' = SettledTxs
      BY <2>1, <2>2, <2>4 DEF SettledTxs
    <2>7. SettledCounted' = SettledCounted
      BY <2>1, <2>2, <2>4 DEF SettledCounted
    <2>8. QED BY <1>0, <1>1, <2>1, <2>5, <2>6, <2>7 DEF CountersInv, Follows
  <1>7. CASE BumpBlocks(x)
    <2>1. /\ pc[x] = "bumpBlocks" /\ pc'[x] = "idle"
          /\ UNCHANGED <<blockRows, txRows, channelTrans, chaincodeTxs>>
          /\ channelBlocks' = channelBlocks + 1
      BY <1>0, <1>7 DEF BumpBlocks, Release, Return, CallsTypeOK
    <2>2. StoredBlocks' = StoredBlocks /\ StoredTxs' = StoredTxs /\ b \in StoredBlocks
      <3>1. b \in StoredBlocks
        BY <1>0, <2>1 DEF Progress, StoredBlocks
      <3>2. QED BY <2>1, <3>1 DEF StoredBlocks, StoredTxs, Txs
    <2>3. \A y \in Tasks \ {x} : pc'[y] = pc[y] /\ blk'[y] = blk[y] /\ tx'[y] = tx[y]
      BY <1>0
    <2>4. \A y \in Tasks \ {x} : Busy(y) => blk[y] # b
      BY <1>0
    <2>5. SettledTxs' = SettledTxs
      BY <2>1, <2>2, <2>3 DEF SettledTxs
    <2>6. SettledCounted' = SettledCounted
      BY <2>1, <2>2, <2>3 DEF SettledCounted
    <2>7. SettledBlocks' = SettledBlocks \cup {b} /\ b \notin SettledBlocks
      BY <1>0, <2>1, <2>2, <2>3, <2>4 DEF SettledBlocks, Busy
    <2>8. Follows(channelBlocks + 1, SettledBlocks \cup {b}, Unfailed)
      BY <1>0, <2>7, SettledAreFinite, FollowsMore DEF CountersInv
    <2>9. QED BY <1>0, <1>1, <2>1, <2>5, <2>6, <2>7, <2>8 DEF CountersInv, Follows
  <1>8. QED BY <1>2, <1>3, <1>4, <1>5, <1>6, <1>7 DEF Statement

LEMMA ProcessBlockEventCounters ==
  ASSUME CInv, NEW x \in Tasks, NEW b \in Blocks, NEW quiet, pc[x] = "idle",
         ProcessBlockEvent(x, b, quiet), UNCHANGED dbVars, UNCHANGED faults
  PROVE  InBlock' /\ CountersInv'
  <1>1. CallsTypeOK /\ 1 \in Txs(b) /\ InBlock /\ CountersInv /\ (Unfailed' => Unfailed)
    BY SyncAssumption, Bounds DEF CInv, IInv, TypeOK, Txs, TxNumbers, Unfailed
  <1>2. CASE StartBlock(x, b, quiet)
    <2>1. /\ pc'[x] = "countTx" /\ blk'[x] = b /\ tx'[x] = 1
          /\ \A y \in Tasks \ {x} : pc'[y] = pc[y] /\ blk'[y] = blk[y] /\ tx'[y] = tx[y]
      BY <1>1, <1>2 DEF StartBlock, CallsTypeOK
    <2>2. InBlock'
      BY <1>1, <2>1 DEF InBlock, Txs
    <2>3. CountersInv'
      BY <1>1, <2>1, OtherCounters
    <2>4. QED BY <2>2, <2>3
  <1>3. CASE RefuseBlock(b)
    <2>1. UNCHANGED callVars
      BY <1>3 DEF RefuseBlock
    <2>2. QED BY <1>1, <2>1, OtherCounters DEF callVars, InBlock, Txs
  <1>4. QED BY <1>2, <1>3 DEF ProcessBlockEvent

LEMMA StatementInBlock ==
  ASSUME TypeOK, InBlock, NEW x \in Tasks, Statement(x)
  PROVE  InBlock'
  <1>1. /\ CallsTypeOK /\ tx[x] \in Txs(blk[x]) /\ blk[x] \in Blocks
        /\ \A y \in Tasks \ {x} : blk'[y] = blk[y] /\ tx'[y] = tx[y]
    BY StatementFrame DEF TypeOK, CallsTypeOK, InBlock
  <1>2. 1 \in Txs(0) /\ (tx[x] < TxCount[blk[x]] => tx[x] + 1 \in Txs(blk[x]))
    <2>1. \A b \in Blocks : TxCount[b] \in Nat /\ 1 <= TxCount[b]
      BY Bounds DEF TxNumbers
    <2>2. tx[x] \in Nat /\ 0 \in Blocks
      BY <1>1, Bounds DEF Txs
    <2>3. 1 \in Txs(0)
      BY <2>1, <2>2 DEF Txs
    <2>4. tx[x] < TxCount[blk[x]] => tx[x] + 1 \in Txs(blk[x])
      BY <1>1, <2>1, <2>2 DEF Txs
    <2>5. QED BY <2>3, <2>4
  <1>3. \/ blk'[x] = blk[x] /\ tx'[x] = tx[x]
        \/ blk'[x] = 0 /\ tx'[x] = 1
        \/ blk'[x] = blk[x] /\ tx'[x] = tx[x] + 1 /\ tx[x] < TxCount[blk[x]]
    BY <1>1 DEF Statement, CountTx, InsertTx, BumpChaincode, BumpTrans, CountBlock, InsertBlock,
       BumpBlocks, NextTx, MoreTxs, Release, Return, CallsTypeOK
  <1>4. tx'[x] \in Txs(blk'[x])
    BY <1>1, <1>2, <1>3
  <1>5. QED BY <1>1, <1>4 DEF InBlock, Txs

\* A step that leaves the calls, the tables and the failures alone.
LEMMA OtherCInv ==
  ASSUME CInv, UNCHANGED <<dbVars, callVars>>, Unfailed' => Unfailed
  PROVE  InBlock' /\ CountersInv'
  BY OtherCounters DEF CInv, callVars, InBlock, Txs

LEMMA PassCounters ==
  ASSUME CInv, NEW p \in Passes, PassStep(p) \/ PassFault(p)
  PROVE  InBlock' /\ CountersInv'
  <1>0. TypeOK /\ PassesTypeOK /\ ProcessTypeOK
    BY DEF CInv, IInv, TypeOK
  <1>1. CASE HandleBlock(p)
    BY <1>0, <1>1, ProcessBlockEventCounters DEF HandleBlock, passFrame, PassesTypeOK, dbVars
  <1>2. CASE HandleMissing(p)
    <2>1. PICK b \in todo[p] : ProcessBlockEvent(p, b, noDiscovery[p])
      BY <1>2 DEF HandleMissing
    <2>2. b \in Blocks
      BY <1>0, <2>1 DEF PassesTypeOK
    <2>3. QED BY <1>2, <2>1, <2>2, ProcessBlockEventCounters DEF HandleMissing, passFrame, dbVars
  <1>3. CASE ~ HandleBlock(p) /\ ~ HandleMissing(p)
    <2>1. UNCHANGED <<dbVars, callVars>>
      BY <1>3 DEF PassStep, PassFault, GetChannelInfo, CheckBlock, FindMissingBlockNumber,
         FinishSync, NoChannelInfo, CheckFails, FindFails, SkipMissing, passFrame
    <2>2. Unfailed' => Unfailed
      <3>1. UNCHANGED faults \/ DbFault \/ PeerFault
        BY DEF PassStep, PassFault, GetChannelInfo, CheckBlock, HandleBlock,
           FindMissingBlockNumber, HandleMissing, FinishSync, NoChannelInfo, CheckFails,
           FindFails, SkipMissing
      <3>2. QED BY <1>0, <3>1 DEF DbFault, PeerFault, Unfailed, ProcessTypeOK
    <2>3. QED BY <2>1, <2>2, OtherCInv
  <1>4. QED BY <1>1, <1>2, <1>3

LEMMA CountersStep == CInv /\ [Next]_vars => CInv'
  <1> SUFFICES ASSUME CInv, [Next]_vars PROVE InBlock' /\ CountersInv'
    BY NextIInv DEF CInv
  <1>0. /\ TypeOK /\ CallsTypeOK /\ ProcessTypeOK /\ CountersInv /\ InBlock
        /\ 1 \in Txs(0) /\ faults \in [db : Nat, peer : Nat, crash : Nat]
    BY Bounds, SyncAssumption DEF CInv, IInv, TypeOK, ProcessTypeOK, Txs, TxNumbers
  <1>1. CASE CommitBlock
    BY <1>1, OtherCInv DEF CommitBlock, Unfailed
  <1>2. ASSUME NEW x \in Tasks, Statement(x) PROVE InBlock' /\ CountersInv'
    BY <1>0, <1>2, StatementInBlock, StatementCounters
  <1>3. ASSUME NEW x \in Tasks, FailBlock(x) PROVE InBlock' /\ CountersInv'
    <2>1. /\ pc'[x] = "idle" /\ blk'[x] = 0 /\ tx'[x] = 1
          /\ \A y \in Tasks \ {x} : pc'[y] = pc[y] /\ blk'[y] = blk[y] /\ tx'[y] = tx[y]
      BY <1>0, <1>3 DEF FailBlock, Return, CallsTypeOK
    <2>2. ~ Unfailed'
      BY <1>0, <1>3 DEF FailBlock, DbFault, Unfailed
    <2>3. InBlock'
      BY <1>0, <2>1 DEF InBlock, Txs
    <2>4. CountersInv'
      <3>1. UNCHANGED dbVars
        BY <1>3 DEF FailBlock
      <3>2. \A y \in Tasks :
              \/ pc'[y] = "idle"
              \/ pc'[y] = pc[y] /\ blk'[y] = blk[y] /\ tx'[y] = tx[y]
        BY <2>1
      <3>3. QED BY <1>0, <2>2, <3>1, <3>2, FailedCounters
    <2>5. QED BY <2>3, <2>4
  <1>4. ASSUME NEW p \in Passes, SyncBlocks(p) PROVE InBlock' /\ CountersInv'
    BY <1>4, OtherCInv DEF SyncBlocks, Unfailed
  <1>5. ASSUME NEW p \in Passes, PassStep(p) \/ PassFault(p) PROVE InBlock' /\ CountersInv'
    BY <1>5, PassCounters
  <1>6. ASSUME NEW h \in Hubs, HubConnected(h) \/ Reconnect(h) \/ Start(h)
        PROVE InBlock' /\ CountersInv'
    BY <1>6, OtherCInv DEF HubConnected, Reconnect, Start, Unfailed
  <1>7. ASSUME NEW h \in Hubs, HubFailed(h) PROVE InBlock' /\ CountersInv'
    <2>1. Unfailed' => Unfailed
      BY <1>0, <1>7 DEF HubFailed, PeerFault, Unfailed
    <2>2. QED BY <1>7, <2>1, OtherCInv DEF HubFailed
  <1>8. ASSUME NEW h \in Hubs, BlockEvent(h) PROVE InBlock' /\ CountersInv'
    <2>1. CASE nextEvent[h] = 0
      BY <1>8, <2>1, OtherCInv DEF BlockEvent, Unfailed
    <2>2. CASE nextEvent[h] # 0
      <3>1. nextEvent[h] \in Blocks
        BY <1>0, <1>8, LedgerBlocks DEF BlockEvent, ProcessTypeOK
      <3>2. QED BY <1>8, <2>2, <3>1, ProcessBlockEventCounters DEF BlockEvent
    <2>3. QED BY <2>1, <2>2
  <1>9. ASSUME NEW t \in timers, Discover(t) PROVE InBlock' /\ CountersInv'
    BY <1>9, OtherCInv DEF Discover, Unfailed
  <1>10. CASE Crash
    <2>1. /\ UNCHANGED dbVars
          /\ \A x \in Tasks : pc'[x] = "idle" /\ blk'[x] = 0 /\ tx'[x] = 1
      BY <1>10 DEF Crash
    <2>2. ~ Unfailed'
      BY <1>0, <1>10 DEF Crash, Unfailed
    <2>3. InBlock'
      BY <1>0, <2>1 DEF InBlock, Txs
    <2>4. CountersInv'
      <3>1. \A y \in Tasks :
              \/ pc'[y] = "idle"
              \/ pc'[y] = pc[y] /\ blk'[y] = blk[y] /\ tx'[y] = tx[y]
        BY <2>1
      <3>2. QED BY <1>0, <2>1, <2>2, <3>1, FailedCounters
    <2>5. QED BY <2>3, <2>4
  <1>11. CASE UNCHANGED vars
    BY <1>11, OtherCInv DEF vars, Unfailed
  <1>12. QED
    BY <1>1, <1>2, <1>3, <1>4, <1>5, <1>6, <1>7, <1>8, <1>9, <1>10, <1>11 DEF Next, HubStep

LEMMA CountersInit == Init => CInv
  <1> SUFFICES ASSUME Init PROVE InBlock /\ CountersInv
    BY InitIInv DEF CInv
  <1>1. InBlock
    BY Bounds, SyncAssumption DEF Init, InBlock, Txs, TxNumbers
  <1>2. SettledBlocks = {} /\ SettledTxs = {} /\ SettledCounted = {}
    <2>1. StoredBlocks = {}
      BY DEF Init, StoredBlocks
    <2>2. StoredTxs = {}
      BY TxsAreTxNumbers DEF Init, StoredTxs
    <2>3. QED BY <2>1, <2>2 DEF SettledBlocks, SettledTxs, SettledCounted
  <1>3. QED BY <1>1, <1>2, FS_EmptySet DEF CountersInv, Follows, Init

\* The counters on the dashboard are never ahead of the tables; without a failure they are
\* the numbers of rows whenever no block is being stored.
THEOREM CountersTheorem == Spec => []CountersFollowRows
  <1>1. ASSUME CInv PROVE CountersFollowRows
    <2> DEFINE blocks == Cardinality(StoredBlocks)
               txs == Cardinality(StoredTxs)
               counted == Cardinality(StoredTxs \cap CountedTxs)
    <2>1. /\ Cardinality(SettledBlocks) \in Nat /\ Cardinality(SettledBlocks) <= blocks
          /\ Cardinality(SettledTxs) \in Nat /\ Cardinality(SettledTxs) <= txs
          /\ Cardinality(SettledCounted) \in Nat /\ Cardinality(SettledCounted) <= counted
          /\ blocks \in Nat /\ txs \in Nat /\ counted \in Nat
      <3>1. /\ SettledBlocks \subseteq StoredBlocks /\ SettledTxs \subseteq StoredTxs
            /\ SettledCounted \subseteq StoredTxs \cap CountedTxs
        BY DEF SettledBlocks, SettledTxs, SettledCounted
      <3>2. QED BY <3>1, SettledAreFinite, FS_Subset, FS_CardinalityType
    <2>2. channelBlocks \in Nat /\ channelTrans \in Nat /\ chaincodeTxs \in Nat
      BY <1>1 DEF CInv, IInv, TypeOK, RowsTypeOK
    <2>3. channelBlocks <= blocks /\ channelTrans <= txs /\ chaincodeTxs <= counted
      BY <1>1, <2>1, <2>2 DEF CInv, CountersInv, Follows
    <2>4. ASSUME faults.db = 0, faults.crash = 0, \A x \in Tasks : ~ Busy(x)
          PROVE  channelBlocks = blocks /\ channelTrans = txs /\ chaincodeTxs = counted
      <3>1. /\ SettledBlocks = StoredBlocks /\ SettledTxs = StoredTxs
            /\ SettledCounted = StoredTxs \cap CountedTxs
        BY <2>4 DEF SettledBlocks, SettledTxs, SettledCounted, Busy
      <3>2. QED BY <1>1, <2>4, <3>1 DEF CInv, CountersInv, Follows, Unfailed
    <2>5. QED BY <2>3, <2>4 DEF CountersFollowRows
  <1>2. QED BY <1>1, CountersInit, CountersStep, PTL DEF Spec

-----------------------------------------------------------------------------
(* The refinement. *)

\* No task looks for a block that the ledger does not have yet.
WithinLedger ==
  /\ \A x \in Tasks : blk[x] < height
  /\ \A p \in Passes : cursor[p] < height /\ latest[p] < height /\ \A b \in todo[p] : b < height

LEMMA WithinLedgerInit == Init => WithinLedger
  BY DEF Init, WithinLedger

LEMMA WithinLedgerStatement ==
  ASSUME TypeOK, WithinLedger, NEW x \in Tasks, Statement(x)
  PROVE  WithinLedger'
  <1>1. UNCHANGED <<height, cursor, latest, todo>>
    BY DEF Statement, CountTx, InsertTx, BumpChaincode, BumpTrans, CountBlock, InsertBlock,
       BumpBlocks, callFrame, ledgerVars, passVars
  <1>2. \A y \in Tasks : blk'[y] = blk[y] \/ blk'[y] = 0
    BY DEF Statement, CountTx, InsertTx, BumpChaincode, BumpTrans, CountBlock, InsertBlock,
       BumpBlocks, NextTx, Release, Return, TypeOK, CallsTypeOK
  <1>3. 0 < height
    BY DEF TypeOK, ProcessTypeOK
  <1>4. \A y \in Tasks : blk'[y] < height
    BY <1>2, <1>3 DEF WithinLedger
  <1>5. QED BY <1>1, <1>4 DEF WithinLedger

LEMMA WithinLedgerCall ==
  ASSUME TypeOK, WithinLedger, NEW x \in Tasks, NEW b, b < height, NEW quiet,
         ProcessBlockEvent(x, b, quiet)
  PROVE  \A y \in Tasks : blk'[y] < height
  BY DEF ProcessBlockEvent, StartBlock, RefuseBlock, callVars, TypeOK, CallsTypeOK, WithinLedger

LEMMA WithinLedgerPass ==
  ASSUME TypeOK, WithinLedger, NEW p \in Passes, PassStep(p) \/ PassFault(p)
  PROVE  WithinLedger'
  <1>1. PassesTypeOK /\ CallsTypeOK /\ height \in Nat /\ 0 < height
    BY DEF TypeOK, ProcessTypeOK
  <1>2. cursor[p] \in Nat /\ latest[p] \in Nat
    BY <1>1, Bounds DEF PassesTypeOK
  <1>3. UNCHANGED height
    BY DEF PassStep, PassFault, GetChannelInfo, CheckBlock, HandleBlock, FindMissingBlockNumber,
       HandleMissing, FinishSync, NoChannelInfo, CheckFails, FindFails, SkipMissing, passFrame,
       ledgerVars
  <1>4. /\ PassesTypeOK /\ CallsTypeOK /\ height \in Nat /\ 0 < height /\ UNCHANGED height
        /\ cursor[p] \in Nat /\ latest[p] \in Nat
    BY <1>1, <1>2, <1>3
  <1>5. \A y \in Tasks : blk'[y] < height
    <2>1. CASE HandleBlock(p)
      BY <2>1, WithinLedgerCall DEF HandleBlock, WithinLedger
    <2>2. CASE HandleMissing(p)
      <3>1. PICK b \in todo[p] : ProcessBlockEvent(p, b, noDiscovery[p])
        BY <2>2 DEF HandleMissing
      <3>2. b < height
        BY <3>1 DEF WithinLedger
      <3>3. QED BY <3>1, <3>2, WithinLedgerCall
    <2>3. CASE ~ HandleBlock(p) /\ ~ HandleMissing(p)
      <3>1. UNCHANGED blk
        BY <2>3 DEF PassStep, PassFault, GetChannelInfo, CheckBlock, FindMissingBlockNumber,
           FinishSync, NoChannelInfo, CheckFails, FindFails, SkipMissing, callVars
      <3>2. QED BY <3>1 DEF WithinLedger
    <2>4. QED BY <2>1, <2>2, <2>3
  <1>6. \A q \in Passes \ {p} : cursor'[q] = cursor[q] /\ latest'[q] = latest[q] /\ todo'[q] = todo[q]
    BY <1>4 DEF PassStep, PassFault, GetChannelInfo, CheckBlock, HandleBlock,
       FindMissingBlockNumber, HandleMissing, FinishSync, NoChannelInfo, CheckFails, FindFails,
       SkipMissing, NextHeight, EndPass, PassesTypeOK
  <1>7. cursor'[p] < height
    <2>1. \/ cursor'[p] = cursor[p] \/ cursor'[p] = cursor[p] - 1 \/ cursor'[p] = 0
          \/ cursor'[p] = height - 1
      BY <1>4 DEF PassStep, PassFault, GetChannelInfo, CheckBlock, HandleBlock,
         FindMissingBlockNumber, HandleMissing, FinishSync, NoChannelInfo, CheckFails, FindFails,
         SkipMissing, NextHeight, EndPass, PassesTypeOK, LatestBlockHeight
    <2>2. cursor[p] < height
      BY DEF WithinLedger
    <2>3. QED BY <1>4, <2>1, <2>2
  <1>8. latest'[p] < height
    <2>1. latest'[p] = latest[p] \/ latest'[p] = 0 \/ latest'[p] = height - 1
      BY <1>4 DEF PassStep, PassFault, GetChannelInfo, CheckBlock, HandleBlock,
         FindMissingBlockNumber, HandleMissing, FinishSync, NoChannelInfo, CheckFails, FindFails,
         SkipMissing, EndPass, PassesTypeOK, LatestBlockHeight
    <2>2. QED BY <1>4, <2>1 DEF WithinLedger
  <1>9. \A b \in todo'[p] : b < height
    <2>1. \/ todo'[p] \subseteq todo[p] \/ todo'[p] = {} \/ todo'[p] = Missing(p)
      BY <1>4 DEF PassStep, PassFault, GetChannelInfo, CheckBlock, HandleBlock,
         FindMissingBlockNumber, HandleMissing, FinishSync, NoChannelInfo, CheckFails, FindFails,
         SkipMissing, EndPass, PassesTypeOK
    <2>2. \A b \in Missing(p) : b < height
      <3>1. latest[p] < height /\ latest[p] \in Blocks
        BY <1>4 DEF WithinLedger, PassesTypeOK
      <3>2. StartingBlockHeight(latest[p]) \in Nat
        BY <3>1, StartingBlockHeightIsNat
      <3>3. QED BY <1>4, <3>1, <3>2 DEF Missing
    <2>3. QED BY <2>1, <2>2 DEF WithinLedger
  <1>10. QED BY <1>4, <1>5, <1>6, <1>7, <1>8, <1>9 DEF WithinLedger

LEMMA WithinLedgerNext == TypeOK /\ WithinLedger /\ [Next]_vars => WithinLedger'
  <1> SUFFICES ASSUME TypeOK, WithinLedger, [Next]_vars PROVE WithinLedger'
    OBVIOUS
  <1>0. height \in Nat /\ 0 < height /\ CallsTypeOK
    BY DEF TypeOK, ProcessTypeOK
  <1> USE DEF ledgerVars, dbVars, lockVars, hubVars, passVars, callVars, procVars
  <1>1. CASE CommitBlock
    <2>1. /\ height' = height + 1 /\ UNCHANGED <<blk, cursor, latest, todo>>
      BY <1>1 DEF CommitBlock
    <2>2. /\ \A x \in Tasks : blk[x] \in Nat
          /\ \A p \in Passes : /\ cursor[p] \in Nat /\ latest[p] \in Nat
                               /\ \A b \in todo[p] : b \in Nat
      BY Bounds DEF TypeOK, CallsTypeOK, PassesTypeOK
    <2>3. QED BY <1>0, <2>1, <2>2 DEF WithinLedger
  <1>2. CASE \E x \in Tasks : Statement(x)
    BY <1>2, WithinLedgerStatement
  <1>3. ASSUME NEW x \in Tasks, FailBlock(x) PROVE WithinLedger'
    BY <1>0, <1>3 DEF FailBlock, Return, WithinLedger, CallsTypeOK
  <1>4. CASE \E p \in Passes : PassStep(p) \/ PassFault(p)
    BY <1>4, WithinLedgerPass
  <1>5. ASSUME NEW p \in Passes, SyncBlocks(p) PROVE WithinLedger'
    BY <1>5 DEF SyncBlocks, WithinLedger
  <1>6. ASSUME NEW h \in Hubs, HubConnected(h) \/ HubFailed(h) \/ Reconnect(h) \/ Start(h)
        PROVE WithinLedger'
    BY <1>6 DEF HubConnected, HubFailed, Reconnect, Start, WithinLedger
  <1>7. ASSUME NEW h \in Hubs, BlockEvent(h) PROVE WithinLedger'
    <2>1. UNCHANGED <<height, cursor, latest, todo>>
      BY <1>7 DEF BlockEvent
    <2>2. \A y \in Tasks : blk'[y] < height
      <3>1. CASE nextEvent[h] = 0
        BY <1>7, <3>1 DEF BlockEvent, WithinLedger
      <3>2. CASE nextEvent[h] # 0
        BY <1>7, <3>2, WithinLedgerCall DEF BlockEvent
      <3>3. QED BY <3>1, <3>2
    <2>3. QED BY <2>1, <2>2 DEF WithinLedger
  <1>8. ASSUME NEW t \in timers, Discover(t) PROVE WithinLedger'
    BY <1>8 DEF Discover, WithinLedger
  <1>9. CASE Crash
    BY <1>0, <1>9 DEF Crash, WithinLedger
  <1>10. CASE UNCHANGED vars
    BY <1>10 DEF vars, WithinLedger
  <1>11. QED
    BY <1>1, <1>2, <1>3, <1>4, <1>5, <1>6, <1>7, <1>8, <1>9, <1>10 DEF Next, HubStep

\* What the refinement maps to copied and announced, and what it comes down to.
Copied == { b \in Blocks : blockRows[b] = 1 /\ \A i \in Txs(b) : txRows[b][i] = 1 }
Announced == { b \in Blocks : notified[b] > 0 }

LEMMA CopiedIsStored ==
  ASSUME IInv
  PROVE  Copied = { b \in Blocks : blockRows[b] = 1 }
  BY DEF IInv, BlockOK, Copied

\* Only two statements show in the copy: the last INSERT, and what follows the last UPDATE.
LEMMA RowsStep ==
  ASSUME IInv, [Next]_vars
  PROVE  \/ UNCHANGED <<blockRows, notified>>
         \/ \E x \in Tasks : InsertBlock(x) \/ BumpBlocks(x)
  BY DEF Next, Statement, CountTx, InsertTx, BumpChaincode, BumpTrans, CountBlock, PassStep,
     PassFault, HubStep, CommitBlock, FailBlock, SyncBlocks, HubConnected, HubFailed, Reconnect,
     Start, BlockEvent, Discover, Crash, GetChannelInfo, CheckBlock, HandleBlock,
     FindMissingBlockNumber, HandleMissing, FinishSync, NoChannelInfo, CheckFails, FindFails,
     SkipMissing, passFrame, dbVars, vars

LEMMA HeightStep ==
  ASSUME [Next]_vars
  PROVE  \/ UNCHANGED height
         \/ CommitBlock
  BY DEF Next, Statement, CountTx, InsertTx, BumpChaincode, BumpTrans, CountBlock, InsertBlock,
     BumpBlocks, PassStep, PassFault, HubStep, FailBlock, SyncBlocks, HubConnected, HubFailed,
     Reconnect, Start, BlockEvent, Discover, Crash, GetChannelInfo, CheckBlock, HandleBlock,
     FindMissingBlockNumber, HandleMissing, FinishSync, NoChannelInfo, CheckFails, FindFails,
     SkipMissing, callFrame, passFrame, ledgerVars, vars

LEMMA LedgerCopyInit == Init => LedgerCopyOf!Init
  BY DEF Init, LedgerCopyOf!Init

LEMMA LedgerCopyStep ==
  ASSUME IInv, IInv', WithinLedger, [Next]_vars
  PROVE  [LedgerCopyOf!Next]_(LedgerCopyOf!vars)
  <1> USE DEF Copied, Announced
  <1>1. /\ Copied = { b \in Blocks : blockRows[b] = 1 }
        /\ Copied' = { b \in Blocks : blockRows'[b] = 1 }
    <2>1. IInv' => Copied' = { b \in Blocks : blockRows'[b] = 1 }
      BY DEF IInv, BlockOK
    <2>2. QED BY <2>1, CopiedIsStored
  <1> HIDE DEF Copied, Announced
  <1>2. CASE UNCHANGED <<blockRows, notified>> /\ UNCHANGED height
    <2>1. UNCHANGED <<height, Copied, Announced>>
      BY <1>1, <1>2 DEF Announced
    <2>2. QED BY <2>1 DEF LedgerCopyOf!vars, Copied, Announced
  <1>3. CASE UNCHANGED <<blockRows, notified>> /\ CommitBlock
    <2>1. UNCHANGED <<Copied, Announced>>
      BY <1>1, <1>3 DEF Announced
    <2>2. LedgerCopyOf!Grow
      BY <1>3, <2>1 DEF CommitBlock, LedgerCopyOf!Grow, Copied, Announced
    <2>3. QED BY <2>2 DEF LedgerCopyOf!Next
  <1>4. ASSUME NEW x \in Tasks, NEW b \in Blocks, b = blk[x], InsertBlock(x)
        PROVE  LedgerCopyOf!Next
    <2>1. /\ b < height /\ blockRows[b] = 0
          /\ blockRows \in [Blocks -> Nat]
          /\ blockRows' = [blockRows EXCEPT ![b] = @ + 1]
          /\ UNCHANGED <<height, notified>>
      BY <1>4 DEF InsertBlock, IInv, Progress, Busy, TypeOK, CallsTypeOK, RowsTypeOK,
         WithinLedger, callFrame, ledgerVars
    <2>2. Copied' = Copied \cup {b} /\ b \notin Copied /\ UNCHANGED Announced
      BY <1>1, <2>1 DEF Announced
    <2>3. LedgerCopyOf!Copy(b)
      BY <2>1, <2>2 DEF LedgerCopyOf!Copy, Copied, Announced
    <2>4. QED BY <2>3 DEF LedgerCopyOf!Next, Blocks
  <1>5. ASSUME NEW x \in Tasks, NEW b \in Blocks, b = blk[x], BumpBlocks(x)
        PROVE  LedgerCopyOf!Next
    <2>1. /\ blockRows[b] = 1 /\ notified[b] = 0
          /\ notified \in [Blocks -> Nat]
          /\ notified' = [notified EXCEPT ![b] = @ + 1]
          /\ UNCHANGED <<height, blockRows>>
      BY <1>5 DEF BumpBlocks, IInv, Progress, Busy, TypeOK, CallsTypeOK, RowsTypeOK,
         callFrame, ledgerVars
    <2>2. Announced' = Announced \cup {b} /\ b \notin Announced /\ b \in Copied /\ UNCHANGED Copied
      BY <1>1, <2>1 DEF Announced
    <2>3. LedgerCopyOf!Announce(b)
      BY <2>1, <2>2 DEF LedgerCopyOf!Announce, Copied, Announced
    <2>4. QED BY <2>3 DEF LedgerCopyOf!Next, Blocks
  <1>6. \A x \in Tasks : blk[x] \in Blocks
    BY DEF IInv, TypeOK, CallsTypeOK
  <1>7. QED
    BY <1>2, <1>3, <1>4, <1>5, <1>6, RowsStep, HeightStep

\* Through interleavings, failures and restarts the database is a copy of the ledger, in
\* which a block is whole or absent, and each announcement is true and made once.
THEOREM LedgerCopyTheorem == Spec => ImplementsLedgerCopy
  <1>1. Init => IInv /\ WithinLedger /\ LedgerCopyOf!Init
    BY InitIInv, WithinLedgerInit, LedgerCopyInit
  <1>2. IInv /\ WithinLedger /\ [Next]_vars => (IInv /\ WithinLedger)'
    BY NextIInv, WithinLedgerNext DEF IInv
  <1>3. IInv /\ IInv' /\ WithinLedger /\ [Next]_vars => [LedgerCopyOf!Next]_(LedgerCopyOf!vars)
    BY LedgerCopyStep
  <1>4. QED
    BY <1>1, <1>2, <1>3, PTL DEF Spec, ImplementsLedgerCopy, LedgerCopyOf!Spec
===============================================================================
