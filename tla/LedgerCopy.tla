------------------------------ MODULE LedgerCopy ------------------------------
(***************************************************************************)
(* What Explorer's database is for: a copy of a growing ledger.  A block   *)
(* enters the copy whole, once, and for good; each block is announced to   *)
(* the web clients at most once, when the copy has it.                     *)
(***************************************************************************)
EXTENDS Naturals

CONSTANT MaxBlock

VARIABLES height,    \* the ledger has the blocks 0 .. height - 1
          copied,    \* the blocks in the copy
          announced  \* the blocks announced

vars == <<height, copied, announced>>

Init == height = 1 /\ copied = {} /\ announced = {}

Grow == /\ height <= MaxBlock
        /\ height' = height + 1
        /\ UNCHANGED <<copied, announced>>

Copy(b) == /\ b < height
           /\ b \notin copied
           /\ copied' = copied \cup {b}
           /\ UNCHANGED <<height, announced>>

Announce(b) == /\ b \in copied
               /\ b \notin announced
               /\ announced' = announced \cup {b}
               /\ UNCHANGED <<height, copied>>

Next == Grow \/ \E b \in 0..MaxBlock : Copy(b) \/ Announce(b)

Spec == Init /\ [][Next]_vars
===============================================================================
