------------------------- MODULE MCExplorerAccounts -------------------------
(* The accounts of the explorer: the administrator and two users, two *)
(* requests at a time.                                                *)
EXTENDS ExplorerAccounts, TLC

Symmetry == Permutations(Requests) \cup Permutations(Users \ {Root})

=============================================================================
