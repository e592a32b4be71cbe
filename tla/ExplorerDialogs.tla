---------------------------- MODULE ExplorerDialogs ----------------------------
(***************************************************************************)
(* The dialogs that a row opens: a transaction of the lists, or of a range *)
(* of blocks, the metadata of a chaincode, the members of the channel; and *)
(* the transaction a direct link names.  Each asks, awaits the answer and  *)
(* then opens on what the store has, which is the answer, or, after a      *)
(* failure, whatever was there.                                            *)
(***************************************************************************)
EXTENDS ExplorerSearch

CONSTANTS
  Viewed, Contracts,     \* the transactions, and the chaincodes, looked at
  ThisChannel,           \* the channel, whose members are looked at
  MaxClicks              \* bound of the requests

ASSUME DialogsAssumption ==
  /\ MaxClicks \in Nat /\ Viewed \subseteq Txs
  /\ {NoKey, Missing} \cap (Txs \cup Contracts \cup {ThisChannel}) = {}

VARIABLES
  asks,                  \* the requests under way
  dialog

dialogs == <<asks, dialog>>

NoAsk == [pc |-> "idle", key |-> NoKey, answer |-> NoKey, opens |-> FALSE]
Pending == {c \in Calls : asks[c].pc # "idle"}

\* What the rows on the page name: those of a list are in the table, those of a range
\* may be in the ledger only.
Rows ==
  CASE dialog.what = "tx" -> Viewed \cap txs
    [] dialog.what = "rangeTx" -> {t \in Viewed : HasTx(t, height)}
    [] dialog.what = "chaincode" -> Contracts [] dialog.what = "members" -> {ThisChannel}
    [] dialog.what = "link" -> {}
FirstStep == IF dialog.what \in {"chaincode", "members"} THEN "peer" ELSE "db"

Request(c, key, opens) ==
  asks' = [asks EXCEPT ![c] = [NoAsk EXCEPT !.pc = FirstStep, !.key = key, !.opens = opens]]

\* handleDialogOpen; wanted are the rows clicked since nothing was under way.
ClickRow(c, key) ==
  /\ ~dialog.open /\ asks[c].pc = "idle" /\ dialog.clicks < MaxClicks
  /\ key \in Rows
  /\ Request(c, key, TRUE)
  /\ dialog' = [dialog EXCEPT !.clicks = @ + 1,
                              !.wanted = (IF Pending = {} THEN {} ELSE @) \cup {key},
                              !.failed = @ /\ Pending # {}]
  /\ UNCHANGED <<server, events>>

CloseDetails ==
  /\ dialog.open
  /\ dialog' = [dialog EXCEPT !.open = FALSE]
  /\ UNCHANGED <<server, events, asks>>

\* While the list of the page is awaited, each rendering that finds a transaction in the
\* store asks for the one linked, until the dialog opened once.
LinkRenders(c) ==
  /\ dialog.link = "searching" /\ dialog.slot # NoKey /\ asks[c].pc = "idle"
  /\ dialog.clicks < MaxClicks
  /\ \E key \in dialog.wanted : Request(c, key, TRUE)
  /\ dialog' = [dialog EXCEPT !.clicks = @ + 1]
  /\ UNCHANGED <<server, events>>

\* With the list the page asks for 'TransactionNotSpecified', which no table has.
ListArrives(c) ==
  /\ dialog.link = "searching" /\ asks[c].pc = "idle"
  /\ dialog' = [dialog EXCEPT !.link = "listed"]
  /\ Request(c, Missing, FALSE)
  /\ UNCHANGED <<server, events>>

-------------------------------------------------------------------------------
(* The routes. *)

AnswerWith(c, a) == asks' = [asks EXCEPT ![c].pc = "sent", ![c].answer = a]

\* /transaction sends nothing when there is no row; /fetchDataByTxnId asks the ledger.
LookUpRow(c) ==
  /\ Answering /\ asks[c].pc = "db"
  /\ IF asks[c].key \in txs THEN AnswerWith(c, asks[c].key)
     ELSE asks' = [asks EXCEPT ![c].pc = IF dialog.what = "rangeTx" THEN "peer" ELSE "never"]
  /\ UNCHANGED <<server, events, dialog>>

\* queryTransaction, queryContractMetadata, queryEndorsersCommitter: the members of the
\* channel and the metadata are always to be had.
PeerFinds(key) == dialog.what # "rangeTx" \/ HasTx(key, height)

AskPeer(c) ==
  /\ Answering /\ asks[c].pc = "peer"
  /\ AnswerWith(c, IF PeerFinds(asks[c].key) THEN asks[c].key ELSE Missing)
  /\ UNCHANGED <<server, events, dialog>>

\* The failure of a peer is caught, and answered as 'not found' or 'null'.
AskPeerFails(c) ==
  /\ Answering /\ asks[c].pc = "peer" /\ Happens
  /\ AnswerWith(c, Missing)
  /\ dialog' = [dialog EXCEPT !.failed = TRUE]
  /\ UNCHANGED server

LookUpFails(c) ==
  /\ Answering /\ asks[c].pc = "db" /\ Happens
  /\ Uncaught
  /\ asks' = [asks EXCEPT ![c].pc = "never"]
  /\ UNCHANGED dialog

-------------------------------------------------------------------------------
(* The thunk dispatches the answer, or logs the error, and the handler opens. *)

Opened(d, opens) ==
  IF ~opens THEN d
  ELSE [d EXCEPT !.open = TRUE, !.link = IF d.what = "link" THEN "opened" ELSE @]

DeliverDetails(c) ==
  /\ asks[c].pc = "sent"
  /\ dialog' = Opened([dialog EXCEPT !.slot = asks[c].answer], asks[c].opens)
  /\ asks' = [asks EXCEPT ![c] = NoAsk]
  /\ UNCHANGED <<server, events>>

LoseDetails(c) ==
  /\ asks[c].pc # "idle"
  /\ \/ server = "down" /\ UNCHANGED events
     \/ Happens
  /\ dialog' = Opened([dialog EXCEPT !.failed = TRUE], asks[c].opens)
  /\ asks' = [asks EXCEPT ![c] = NoAsk]
  /\ UNCHANGED server

\* A page with its rows, whose store keeps what was looked at before; or a link, whose
\* transaction was asked for when the page was mounted, before its list.
DialogsInit ==
  \E what \in {"tx", "rangeTx", "chaincode", "members", "link"}, c \in Calls,
     key \in Viewed, before \in {NoKey} \cup Viewed :
    /\ kind # "dialog" => what = "tx"
    /\ before # NoKey => before \in txs /\ kind = "dialog" /\ what \in {"tx", "rangeTx", "link"}
    /\ dialog = [what |-> what, open |-> FALSE, slot |-> before, clicks |-> 0, failed |-> FALSE,
                 wanted |-> IF what = "link" THEN {key} ELSE {},
                 link |-> IF what = "link" THEN "searching" ELSE "none"]
    /\ asks = [d \in Calls |-> IF what = "link" /\ d = c
                               THEN [NoAsk EXCEPT !.pc = "db", !.key = key] ELSE NoAsk]

Dialogs ==
  \/ \E c \in Calls :
       \/ \E key \in Viewed \cup Contracts \cup {ThisChannel} : ClickRow(c, key)
       \/ LinkRenders(c) \/ ListArrives(c)
       \/ LookUpRow(c) \/ AskPeer(c) \/ AskPeerFails(c) \/ LookUpFails(c)
       \/ DeliverDetails(c) \/ LoseDetails(c)
  \/ CloseDetails

-------------------------------------------------------------------------------
(* Properties. *)

DialogsOK ==
  /\ \A c \in Calls : asks[c].pc \in {"idle", "db", "peer", "never", "sent"}
  /\ dialog.clicks \in 0..MaxClicks /\ dialog.link \in {"none", "searching", "listed", "opened"}

\* An open dialog shows a row that was clicked, or the transaction linked: with one
\* request at a time the very one, with several under way one of them, and what was
\* there before only after a failure; it never says 'not found' of a row of the page
\* (handleDialogOpen of Blocks, Transactions, Chaincodes and Channels).
DetailsAreTrue == dialog.open /\ ~dialog.failed => dialog.slot \in dialog.wanted
===============================================================================
