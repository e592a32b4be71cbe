---------------------------- MODULE MCExplorerSync ----------------------------
(* Instances of ExplorerSync for TLC. *)
EXTENDS ExplorerSync, TLC

CONSTANTS h1, h2, p1, p2

\* A CONFIG block with one transaction, then blocks of one and two; the last
\* transaction commits a chaincode definition.
OneEach == [b \in Blocks |-> 1]
OneThenTwo == [b \in Blocks |-> IF b = 0 THEN 1 ELSE 2]
Genesis == {0}
LastTx == { <<MaxBlock, TxCount[MaxBlock]>> }
NoTxs == {}
MiddleTxs == { t \in (Blocks \ Genesis) \X {1} : t \notin LastTx }

Symmetry == Permutations(Hubs) \cup Permutations(Passes)
===============================================================================
