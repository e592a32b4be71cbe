----------------------------- MODULE ExplorerSearch -----------------------------
(***************************************************************************)
(* The search field of the dashboard (SearchByQuery.js): a transaction, or *)
(* a block by its number, its hash or a transaction in it, looked up in    *)
(* the database, or else in the ledger, or in the ledger alone; several    *)
(* searches may be under way and answered in any order.                    *)
(***************************************************************************)
EXTENDS ExplorerCopy

CONSTANTS
  Keys, NoKey, Missing,  \* what is searched for; nothing; a 'not found' string
  Calls, MaxSearches     \* the searches under way at once; bound of their number

ASSUME SearchAssumption ==
  /\ MaxSearches \in Nat
  /\ Keys \subseteq Txs \cup (Blocks \X {0})   \* <<b, 0>>: the number, or hash, of block b
  /\ NoKey # Missing /\ {NoKey, Missing} \cap Keys = {}

VARIABLES calls, slots, box   \* the requests, the four results, the field

search == <<calls, slots, box>>

Ops == {"tx", "block", "hash", "blockOfTx"}

\* What the system chaincode finds in a ledger of h blocks.
HasTx(key, h) == key[2] > 0 /\ key[1] < h
HasBlockOfTx(key, h) == HasTx(key, h)
HasBlockHash(key, h) == key[2] = 0 /\ key[1] < h
HasBlock(key, h) == HasBlockHash(key, h)
Known(op, key, h) ==
  CASE op = "tx" -> HasTx(key, h) [] op = "blockOfTx" -> HasBlockOfTx(key, h)
    [] op = "hash" -> HasBlockHash(key, h) [] op = "block" -> HasBlock(key, h)
Copied(op, key) == IF op = "tx" THEN key \in txs ELSE key[2] = 0 /\ InDatabase(key[1])

NoCall == [pc |-> "idle", op |-> "tx", key |-> NoKey, answer |-> NoKey, asked |-> 0, failed |-> FALSE]

DialogOpen == box.dialog /\ ~box.error

\* Choosing an operation or typing closes the dialog and clears the error, if any.
Edit(op, key) ==
  /\ (op = box.op) # (key = box.key)
  /\ box' = [box EXCEPT !.op = op, !.key = key, !.error = FALSE, !.dialog = DialogOpen]
  /\ UNCHANGED <<server, events, calls, slots>>

CloseDialog ==
  /\ DialogOpen
  /\ box' = [box EXCEPT !.dialog = FALSE]
  /\ UNCHANGED <<server, events, calls, slots>>

\* handleSubmit: what is empty, or no number where one is needed, is not sent.
Sendable == box.key # NoKey /\ (box.op = "block" => box.key[2] = 0)
Refuse ==
  /\ ~Sendable
  /\ box' = [box EXCEPT !.error = TRUE]
  /\ UNCHANGED <<server, events, calls, slots>>

\* Only the transaction and the number are looked up in the database first.
Submit(c) ==
  /\ Sendable /\ calls[c].pc = "idle" /\ box.sent < MaxSearches
  /\ box' = [box EXCEPT !.sent = @ + 1]
  /\ calls' = [calls EXCEPT ![c] =
       [NoCall EXCEPT !.pc = IF box.op \in {"tx", "block"} THEN "db" ELSE "peer",
                      !.op = box.op, !.key = box.key, !.asked = height]]
  /\ UNCHANGED <<server, events, slots>>

Answered(call, a) == [call EXCEPT !.pc = "sent", !.answer = a]
\* What if a search ended at the database?
OnlyDatabase(call) == Answered(call, IF Copied(call.op, call.key) THEN call.key ELSE Missing)
FromTables(call) ==
  IF Copied(call.op, call.key) THEN Answered(call, call.key) ELSE [call EXCEPT !.pc = "peer"]

SearchDatabase(c) ==
  /\ Answering /\ calls[c].pc = "db"
  /\ calls' = [calls EXCEPT ![c] = FromTables(@)]
  /\ UNCHANGED <<server, events, slots, box>>

SearchLedger(c) ==
  /\ Answering /\ calls[c].pc = "peer"
  /\ calls' = [calls EXCEPT ![c] = Answered(@, IF Known(@.op, @.key, height) THEN @.key ELSE Missing)]
  /\ UNCHANGED <<server, events, slots, box>>

\* The gateway's queries catch their failure and return null.
SearchPeerFails(c) ==
  /\ Answering /\ calls[c].pc = "peer" /\ Happens
  /\ calls' = [calls EXCEPT ![c] = [Answered(@, Missing) EXCEPT !.failed = TRUE]]
  /\ UNCHANGED <<server, slots, box>>

SearchFails(c) ==
  /\ Answering /\ calls[c].pc = "db" /\ Happens
  /\ Uncaught
  /\ calls' = [calls EXCEPT ![c].pc = "lost"]
  /\ UNCHANGED <<slots, box>>

SearchError(s) == \E o \in Ops : s[o] = Missing
\* The effect on searchClick, with the searchError of the slots s.
AfterSearch(s) == box' = [box EXCEPT !.error = SearchError(s), !.dialog = @ \/ ~SearchError(s)]

\* What if the hash were kept when a block is found by its transaction?
KeepsHash(op, a) ==
  [o \in Ops |-> IF o = op THEN a ELSE IF op = "blockOfTx" /\ o = "hash" THEN slots[o] ELSE NoKey]
SlotsAfter(op, a) == [o \in Ops |-> IF o = op THEN a ELSE NoKey]

DeliverSearch(c) ==
  /\ calls[c].pc = "sent"
  /\ slots' = SlotsAfter(calls[c].op, calls[c].answer)
  /\ calls' = [calls EXCEPT ![c] = NoCall]
  /\ AfterSearch(slots')
  /\ UNCHANGED <<server, events>>

\* A request that fails is caught; the slots stay, and searchClick is set as well.
LoseSearch(c) ==
  /\ calls[c].pc # "idle"
  /\ \/ server = "down" /\ UNCHANGED events
     \/ Happens
  /\ calls' = [calls EXCEPT ![c] = NoCall]
  /\ AfterSearch(slots)
  /\ UNCHANGED <<server, slots>>

-------------------------------------------------------------------------------
SearchInit ==
  /\ calls = [c \in Calls |-> NoCall]
  /\ slots = [o \in Ops |-> NoKey]
  /\ box = [op |-> "tx", key |-> NoKey, error |-> FALSE, dialog |-> FALSE, sent |-> 0]

SearchField ==
  \/ \E op \in Ops, key \in Keys : Edit(op, key)
  \/ CloseDialog \/ Refuse
  \/ \E c \in Calls :
       \/ Submit(c) \/ SearchDatabase(c) \/ SearchLedger(c) \/ SearchPeerFails(c)
       \/ SearchFails(c) \/ DeliverSearch(c) \/ LoseSearch(c)

-------------------------------------------------------------------------------
(* Properties. *)

Answer == Keys \cup {NoKey, Missing}
SearchOK ==
  /\ \A c \in Calls : calls[c].pc \in {"idle", "db", "peer", "sent", "lost"} /\ calls[c].answer \in Answer
  /\ slots \in [Ops -> Answer] /\ box.key \in Keys \cup {NoKey}

\* A search is answered with what the channel has, wherever the copy stands, 'not
\* found' is said of nothing the ledger had when it was asked, unless a peer failed;
\* one result at a time is kept, and the dialog never opens on a 'not found'
\* (fetchDataByTxnId, fetchDataByBlockNo, the thunks of tables/operations).
SearchIsTrue ==
  /\ \A c \in Calls : calls[c].answer = Missing =>
       calls[c].failed \/ ~Known(calls[c].op, calls[c].key, calls[c].asked)
  /\ \A o \in Ops : slots[o] \in Keys => Known(o, slots[o], height)
  /\ \A o, p \in Ops : slots[o] # NoKey /\ slots[p] # NoKey => o = p
  /\ DialogOpen => \A o \in Ops : slots[o] # Missing
===============================================================================
