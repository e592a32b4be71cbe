---------------------------- MODULE MCExplorerPages ----------------------------
(* An instance of ExplorerPages for TLC. *)
EXTENDS ExplorerPages, TLC

CONSTANTS o1, o2, p1, p2, r1, c1, c2, k1, u1

\* Three blocks, the first with two transactions, the last stamped before the others.
CountOfTxs == [b \in 0..2 |-> IF b = 0 THEN 2 ELSE 1]
Timestamps == <<0, 1>> :> 2 @@ <<0, 2>> :> 2 @@ <<1, 1>> :> 3 @@ <<2, 1>> :> 1
Creators == <<0, 1>> :> NoOrg @@ <<0, 2>> :> o1 @@ <<1, 1>> :> o2 @@ <<2, 1>> :> o1
Invoked == {<<0, 2>>, <<2, 1>>}
\* Two peers of one organization, the orderer of the other.
Mspid == p1 :> o1 @@ p2 :> o1 @@ r1 :> o2
OtherChannel == {<<0, o2>>}
Windows == {[from |-> 0, to |-> 3, orgs |-> {}], [from |-> 1, to |-> 3, orgs |-> {o1}]}
Wanted == {<<1, 0>>, <<1, 1>>}
Linked == {<<0, 2>>, <<1, 1>>}
\* Two changes or failures, one where requests overlap most or much is in sight.
OneEvent == {"search", "range", "dialog", "users", "channels", "status", "orgs"}
TwoEvents == [k \in Kinds |-> IF k \in OneEvent THEN 1 ELSE 2]
AskedAbout == [k \in Kinds |-> CASE k = "search" -> {1} [] k = "dialog" -> {0, 1} [] OTHER -> Blocks]
Symmetry == Permutations(Calls)
===============================================================================
