--------------------------- MODULE MCExplorerClient ---------------------------
(* Instances of ExplorerClient for TLC. *)
EXTENDS ExplorerClient

CONSTANTS c1, c2, q1

\* The second channel is the smaller one.
TwoPagesThenOne == [c \in Channels |-> IF c = c1 THEN 2 ELSE 1]
===============================================================================
