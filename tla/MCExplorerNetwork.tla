--------------------------- MODULE MCExplorerNetwork ---------------------------
(* An instance of ExplorerNetwork for TLC. *)
EXTENDS ExplorerNetwork

CONSTANTS c1, c2, orderer, host, cc, t1

\* The one node is an orderer, whose peer_ref_channel row names its host.  It
\* joins by a CONFIG block.
HostOfOrderer == [o \in {orderer} |-> host]
NobodyHome == [c \in Channels |-> {}]
TwoBlocksOnFirst == [c \in Channels |-> IF c = c1 THEN 2 ELSE 0]
===============================================================================
