-------------------------- MODULE ExplorerPages_proofs --------------------------
(***************************************************************************)
(* Theorems about the pages of Explorer: what the lists, searches, dialogs *)
(* and panels show, for any ledger, any copy of it, any clicks, any number *)
(* of requests under way, and any failures.                                *)
(***************************************************************************)
EXTENDS ExplorerPages, ExplorerFigures_proofs

-----------------------------------------------------------------------------
(* The search field. *)

CallRecords ==
  [pc : {"idle", "db", "peer", "sent", "lost"}, op : Ops, key : Keys \cup {NoKey},
   answer : Answer, asked : Nat, failed : BOOLEAN]
SearchTypes ==
  /\ calls \in [Calls -> CallRecords] /\ slots \in [Ops -> Answer]
  /\ box \in [op : Ops, key : Keys \cup {NoKey}, error : BOOLEAN, dialog : BOOLEAN, sent : Nat]

(* A search under way was asked of a ledger that has grown since, and is        *)
(* answered with what the ledger has, or says 'not found' of what it had not.   *)
CallOK(call) ==
  /\ call.asked <= height
  /\ call.pc \in {"db", "peer"} => call.key \in Keys
  /\ call.pc = "db" => call.op \in {"tx", "block"}
  /\ call.answer \in Keys => Known(call.op, call.answer, height)
  /\ call.answer = Missing => call.failed \/ ~Known(call.op, call.key, call.asked)

SearchInv ==
  /\ SearchTypes
  /\ \A c \in Calls : CallOK(calls[c])
  /\ \A o \in Ops : slots[o] \in Keys => Known(o, slots[o], height)
  /\ \A o, p \in Ops : slots[o] # NoKey /\ slots[p] # NoKey => o = p
  /\ DialogOpen => \A o \in Ops : slots[o] # Missing

LEMMA KeyTypes ==
  ASSUME NEW key \in Keys
  PROVE  key[1] \in Nat /\ key[2] \in Nat /\ key # NoKey /\ key # Missing
  <1>1. \A t \in Txs : t[1] \in Nat /\ t[2] \in Nat
    BY CopyAssumption DEF Txs, Blocks
  <1>2. \A t \in Blocks \X {0} : t[1] \in Nat /\ t[2] \in Nat
    BY CopyAssumption DEF Blocks
  <1>3. QED BY <1>1, <1>2, SearchAssumption

(* The ledger loses nothing. *)
LEMMA KnownStays ==
  ASSUME NEW key \in Keys, NEW op \in Ops, NEW g \in Nat, NEW h \in Nat, g <= h, Known(op, key, g)
  PROVE  Known(op, key, h)
  <1>1. key[1] \in Nat
    BY KeyTypes
  <1>2. ASSUME NEW n
        PROVE  Known(op, key, n) <=> /\ key[1] < n
                                     /\ IF op \in {"tx", "blockOfTx"} THEN key[2] > 0 ELSE key[2] = 0
    BY DEF Known, HasTx, HasBlockOfTx, HasBlockHash, HasBlock, Ops
  <1>3. key[1] < g => key[1] < h
    BY <1>1
  <1>4. QED BY <1>2, <1>3

LEMMA CopiedIsKnown ==
  ASSUME CopyOK, NEW key \in Keys, NEW op \in {"tx", "block"}, Copied(op, key)
  PROVE  Known(op, key, height)
  <1>1. CASE op = "tx"
    <2>1. key \in txs /\ key \in Txs
      BY <1>1 DEF Copied, CopyOK
    <2>2. key[1] < height /\ key[2] > 0
      BY <2>1 DEF CopyOK, WorldOK, Txs
    <2>3. QED BY <1>1, <2>2 DEF Known, HasTx
  <1>2. CASE op = "block"
    BY <1>2 DEF Copied, InDatabase, CopyOK, WorldOK, Known, HasBlock, HasBlockHash
  <1>3. QED BY <1>1, <1>2

LEMMA SearchInitially == CopyOK /\ SearchInit => SearchInv
  <1> SUFFICES ASSUME CopyOK, SearchInit PROVE SearchInv
    OBVIOUS
  <1>1. height \in Nat /\ NoKey \notin Keys /\ NoKey # Missing
    BY CopyAssumption, SearchAssumption DEF CopyOK
  <1>2. SearchTypes
    BY DEF SearchInit, SearchTypes, CallRecords, NoCall, Ops, Answer
  <1>3. \A c \in Calls : CallOK(calls[c])
    BY <1>1 DEF SearchInit, CallOK, NoCall
  <1>4. QED BY <1>1, <1>2, <1>3 DEF SearchInit, SearchInv, DialogOpen

LEMMA SearchOfGrowingCopy ==
  ASSUME CopyOK, CopyOK', height <= height', SearchInv, UNCHANGED search
  PROVE  SearchInv'
  <1>1. height \in Nat /\ height' \in Nat
    BY CopyAssumption DEF CopyOK
  <1>2. calls' = calls /\ slots' = slots /\ box' = box
    BY DEF search
  <1>3. ASSUME NEW c \in Calls PROVE CallOK(calls[c])'
    <2>1. CallOK(calls[c]) /\ calls[c].op \in Ops /\ calls[c].asked \in Nat
      BY DEF SearchInv, SearchTypes, CallRecords
    <2>2. calls[c].answer \in Keys => Known(calls[c].op, calls[c].answer, height')
      BY <1>1, <2>1, KnownStays DEF CallOK
    <2>3. QED BY <1>1, <1>2, <2>1, <2>2 DEF CallOK
  <1>4. \A o \in Ops : slots[o] \in Keys => Known(o, slots[o], height')
    BY <1>1, KnownStays DEF SearchInv
  <1>5. QED BY <1>2, <1>3, <1>4 DEF SearchInv, SearchTypes, DialogOpen

LEMMA SearchStep ==
  ASSUME CopyOK, SearchInv, SearchField, UNCHANGED <<world, kind>>
  PROVE  SearchInv' /\ Served
  <1>1. height \in Nat /\ height' = height /\ NoKey \notin Keys /\ Missing \notin Keys /\ NoKey # Missing
    BY CopyAssumption, SearchAssumption DEF CopyOK, world
  <1>2. SearchTypes /\ \A c \in Calls : CallOK(calls[c]) /\ calls[c] \in CallRecords
    BY DEF SearchInv, SearchTypes
  <1>3. ASSUME box' \in [op : Ops, key : Keys \cup {NoKey}, error : BOOLEAN, dialog : BOOLEAN, sent : Nat],
               UNCHANGED <<calls, slots>>, DialogOpen' => DialogOpen
        PROVE  SearchInv'
    BY <1>1, <1>3 DEF SearchInv, SearchTypes, CallOK
  <1>4. ASSUME NEW op \in Ops, NEW key \in Keys, Edit(op, key)
        PROVE  SearchInv' /\ Served
    BY <1>2, <1>3, <1>4 DEF Edit, Served, SearchTypes, DialogOpen
  <1>5. CASE CloseDialog
    BY <1>2, <1>3, <1>5 DEF CloseDialog, Served, SearchTypes, DialogOpen
  <1>6. CASE Refuse
    BY <1>2, <1>3, <1>6 DEF Refuse, Served, SearchTypes, DialogOpen
  <1>7. ASSUME NEW c \in Calls, NEW call \in CallRecords, CallOK(call),
               calls' = [calls EXCEPT ![c] = call], slots' = slots,
               box' \in [op : Ops, key : Keys \cup {NoKey}, error : BOOLEAN, dialog : BOOLEAN, sent : Nat],
               DialogOpen' => \A o \in Ops : slots[o] # Missing
        PROVE  SearchInv'
    BY <1>1, <1>2, <1>7 DEF SearchInv, SearchTypes, CallOK
  <1>8. ASSUME NEW c \in Calls, Submit(c)
        PROVE  SearchInv' /\ Served
    <2> DEFINE call == [NoCall EXCEPT !.pc = IF box.op \in {"tx", "block"} THEN "db" ELSE "peer",
                                      !.op = box.op, !.key = box.key, !.asked = height]
    <2>1. /\ calls' = [calls EXCEPT ![c] = call] /\ slots' = slots /\ Served
          /\ box' = [box EXCEPT !.sent = @ + 1] /\ box.key # NoKey
      BY <1>8 DEF Submit, Served, Sendable
    <2>2. call \in CallRecords
      BY <1>1, <1>2 DEF CallRecords, NoCall, SearchTypes, Answer, Ops
    <2>3. CallOK(call)
      BY <1>1, <1>2, <2>1 DEF CallOK, NoCall, SearchTypes
    <2>4. box' \in [op : Ops, key : Keys \cup {NoKey}, error : BOOLEAN, dialog : BOOLEAN, sent : Nat]
      BY <1>2, <2>1 DEF SearchTypes
    <2>5. DialogOpen' = DialogOpen
      BY <1>2, <2>1 DEF DialogOpen, SearchTypes
    <2> HIDE DEF call
    <2>6. QED BY <1>7, <2>1, <2>2, <2>3, <2>4, <2>5 DEF SearchInv
  <1>9. ASSUME NEW c \in Calls,
               SearchDatabase(c) \/ SearchLedger(c) \/ SearchPeerFails(c) \/ SearchFails(c)
        PROVE  SearchInv' /\ Served
    <2>1. /\ calls[c] \in CallRecords /\ CallOK(calls[c]) /\ calls[c].pc \in {"db", "peer"}
          /\ calls[c].key \in Keys /\ calls[c].op \in Ops /\ calls[c].asked \in Nat
          /\ calls[c].asked <= height /\ calls[c].key # Missing
      BY <1>1, <1>2, <1>9 DEF SearchDatabase, SearchLedger, SearchPeerFails, SearchFails, CallOK, CallRecords
    <2>2. slots' = slots /\ box' = box /\ Served
      BY <1>9 DEF SearchDatabase, SearchLedger, SearchPeerFails, SearchFails, Served
    <2>3. DialogOpen' = DialogOpen
      BY <2>2 DEF DialogOpen
    <2>4. ASSUME NEW call \in CallRecords, CallOK(call), calls' = [calls EXCEPT ![c] = call]
          PROVE  SearchInv'
      BY <1>2, <1>7, <2>2, <2>3, <2>4 DEF SearchInv, SearchTypes
    <2>5. CASE SearchDatabase(c)
      <3>1. calls' = [calls EXCEPT ![c] = FromTables(calls[c])] /\ calls[c].pc = "db"
        BY <2>5 DEF SearchDatabase
      <3>2. Copied(calls[c].op, calls[c].key) => Known(calls[c].op, calls[c].key, height)
        BY <2>1, <3>1, CopiedIsKnown DEF CallOK
      <3>3. FromTables(calls[c]) \in CallRecords /\ CallOK(FromTables(calls[c]))
        BY <2>1, <3>2 DEF FromTables, Answered, CallRecords, CallOK, Answer
      <3>4. QED BY <2>2, <2>4, <3>1, <3>3
    <2>6. CASE SearchLedger(c)
      <3> DEFINE answer == IF Known(calls[c].op, calls[c].key, height) THEN calls[c].key ELSE Missing
                 call == Answered(calls[c], answer)
      <3>1. calls' = [calls EXCEPT ![c] = call]
        BY <2>6 DEF SearchLedger
      <3>2. ~Known(calls[c].op, calls[c].key, height) => ~Known(calls[c].op, calls[c].key, calls[c].asked)
        BY <1>1, <2>1, KnownStays
      <3>3. call \in CallRecords /\ CallOK(call)
        BY <1>1, <2>1, <3>2 DEF Answered, CallRecords, CallOK, Answer
      <3> HIDE DEF call
      <3>4. QED BY <2>2, <2>4, <3>1, <3>3
    <2>7. CASE SearchPeerFails(c)
      <3> DEFINE call == [Answered(calls[c], Missing) EXCEPT !.failed = TRUE]
      <3>1. calls' = [calls EXCEPT ![c] = call]
        BY <2>7 DEF SearchPeerFails
      <3>2. call \in CallRecords /\ CallOK(call)
        BY <1>1, <2>1 DEF Answered, CallRecords, CallOK, Answer
      <3> HIDE DEF call
      <3>3. QED BY <2>2, <2>4, <3>1, <3>2
    <2>8. CASE SearchFails(c)
      <3> DEFINE call == [calls[c] EXCEPT !.pc = "lost"]
      <3>1. calls' = [calls EXCEPT ![c] = call]
        BY <2>8 DEF SearchFails
      <3>2. call \in CallRecords /\ CallOK(call)
        BY <2>1 DEF CallRecords, CallOK
      <3> HIDE DEF call
      <3>3. QED BY <2>2, <2>4, <3>1, <3>2
    <2>9. QED BY <1>9, <2>5, <2>6, <2>7, <2>8
  <1>10. NoCall \in CallRecords /\ CallOK(NoCall)
    BY <1>1 DEF NoCall, CallRecords, CallOK, Ops, Answer
  <1>11. ASSUME NEW c \in Calls, DeliverSearch(c)
         PROVE  SearchInv' /\ Served
    <2>1. /\ slots' = [o \in Ops |-> IF o = calls[c].op THEN calls[c].answer ELSE NoKey]
          /\ calls' = [calls EXCEPT ![c] = NoCall] /\ Served
          /\ box' = [box EXCEPT !.error = SearchError(slots'), !.dialog = @ \/ ~SearchError(slots')]
      BY <1>11 DEF DeliverSearch, SlotsAfter, AfterSearch, Served
    <2>2. /\ calls[c].op \in Ops /\ calls[c].answer \in Answer
          /\ calls[c].answer \in Keys => Known(calls[c].op, calls[c].answer, height)
      BY <1>2 DEF CallRecords, CallOK
    <2>3. /\ slots' \in [Ops -> Answer]
          /\ \A o \in Ops : slots'[o] \in Keys => Known(o, slots'[o], height)
          /\ \A o, p \in Ops : slots'[o] # NoKey /\ slots'[p] # NoKey => o = p
      BY <1>1, <2>1, <2>2 DEF Answer
    <2>4. box' \in [op : Ops, key : Keys \cup {NoKey}, error : BOOLEAN, dialog : BOOLEAN, sent : Nat]
      BY <1>2, <2>1 DEF SearchTypes, SearchError
    <2>5. DialogOpen' => \A o \in Ops : slots'[o] # Missing
      BY <1>2, <2>1 DEF DialogOpen, SearchTypes, SearchError
    <2>6. calls' \in [Calls -> CallRecords] /\ \A d \in Calls : CallOK(calls'[d])
      BY <1>2, <1>10, <2>1 DEF SearchTypes
    <2>7. QED BY <1>1, <2>1, <2>3, <2>4, <2>5, <2>6 DEF SearchInv, SearchTypes, CallOK
  <1>12. ASSUME NEW c \in Calls, LoseSearch(c)
         PROVE  SearchInv' /\ Served
    <2>1. /\ slots' = slots /\ calls' = [calls EXCEPT ![c] = NoCall] /\ Served
          /\ box' = [box EXCEPT !.error = SearchError(slots), !.dialog = @ \/ ~SearchError(slots)]
      BY <1>12 DEF LoseSearch, AfterSearch, Served
    <2>2. box' \in [op : Ops, key : Keys \cup {NoKey}, error : BOOLEAN, dialog : BOOLEAN, sent : Nat]
      BY <1>2, <2>1 DEF SearchTypes, SearchError
    <2>3. DialogOpen' => \A o \in Ops : slots[o] # Missing
      BY <1>2, <2>1 DEF DialogOpen, SearchTypes, SearchError
    <2>4. QED BY <1>7, <1>10, <2>1, <2>2, <2>3
  <1>13. QED
    BY <1>4, <1>5, <1>6, <1>8, <1>9, <1>11, <1>12 DEF SearchField

LEMMA SearchTrue == SearchInv => SearchOK /\ SearchIsTrue
  BY DEF SearchInv, SearchTypes, CallRecords, CallOK, SearchOK, SearchIsTrue

-----------------------------------------------------------------------------
(* The dialogs. *)

Things == Txs \cup Contracts \cup {ThisChannel}
Shownable == Things \cup {NoKey, Missing}
AskRecords ==
  [pc : {"idle", "db", "peer", "never", "sent"}, key : Shownable, answer : Shownable, opens : BOOLEAN]
DialogRecords ==
  [what : {"tx", "rangeTx", "chaincode", "members", "link"}, open : BOOLEAN, slot : Shownable,
   clicks : 0..MaxClicks, failed : BOOLEAN, wanted : SUBSET Things,
   link : {"none", "searching", "listed", "opened"}]

(* A request under way is for a row that was clicked since nothing was under    *)
(* way, or for the transaction linked, or the one nobody has, which is never    *)
(* answered; and what answers it, unless a peer failed, is what it asked for.   *)
AskOK(ask) ==
  ask.pc # "idle" =>
    /\ \/ ask.key \in dialog.wanted
       \/ ask.key = Missing /\ ~ask.opens /\ ask.pc \in {"db", "never"} /\ dialog.what = "link"
    /\ ask.pc = "sent" /\ ~dialog.failed => ask.answer = ask.key

DialogsInv ==
  /\ asks \in [Calls -> AskRecords] /\ dialog \in DialogRecords
  /\ \A c \in Calls : AskOK(asks[c])
  /\ dialog.what = "rangeTx" => \A t \in dialog.wanted : t \in Txs /\ HasTx(t, height)
  /\ dialog.link = "searching" => dialog.what = "link"
  /\ DetailsAreTrue

LEMMA DialogsInitially == CopyOK /\ DialogsInit => DialogsInv
  <1> SUFFICES ASSUME CopyOK, DialogsInit PROVE DialogsInv
    OBVIOUS
  <1>1. PICK what \in {"tx", "rangeTx", "chaincode", "members", "link"}, c \in Calls, key \in Viewed,
             before \in {NoKey} \cup Viewed :
          /\ kind # "dialog" => what = "tx"
          /\ before # NoKey => before \in txs /\ kind = "dialog" /\ what \in {"tx", "rangeTx", "link"}
          /\ dialog = [what |-> what, open |-> FALSE, slot |-> before, clicks |-> 0, failed |-> FALSE,
                       wanted |-> IF what = "link" THEN {key} ELSE {},
                       link |-> IF what = "link" THEN "searching" ELSE "none"]
          /\ asks = [d \in Calls |-> IF what = "link" /\ d = c
                                     THEN [NoAsk EXCEPT !.pc = "db", !.key = key] ELSE NoAsk]
    BY DEF DialogsInit
  <1>2. Viewed \subseteq Txs /\ MaxClicks \in Nat
    BY DialogsAssumption
  <1>3. dialog \in DialogRecords
    BY <1>1, <1>2 DEF DialogRecords, Shownable, Things
  <1>4. asks \in [Calls -> AskRecords]
    BY <1>1, <1>2 DEF AskRecords, Shownable, Things, NoAsk
  <1>5. \A d \in Calls : AskOK(asks[d])
    BY <1>1 DEF AskOK, NoAsk
  <1>6. QED BY <1>1, <1>3, <1>4, <1>5 DEF DialogsInv, DetailsAreTrue

LEMMA DialogsOfGrowingCopy ==
  ASSUME CopyOK, CopyOK', height <= height', DialogsInv, UNCHANGED dialogs
  PROVE  DialogsInv'
  <1>1. asks' = asks /\ dialog' = dialog
    BY DEF dialogs
  <1>2. \A t \in Txs : t[1] \in Nat
    BY CopyAssumption DEF Txs, Blocks
  <1>3. height \in Nat /\ height' \in Nat
    BY CopyAssumption DEF CopyOK
  <1>4. \A t \in Txs : HasTx(t, height) => HasTx(t, height')
    BY <1>2, <1>3 DEF HasTx
  <1>5. QED BY <1>1, <1>4 DEF DialogsInv, AskOK, DetailsAreTrue

LEMMA DialogsStep ==
  ASSUME CopyOK, DialogsInv, Dialogs, UNCHANGED <<world, kind>>
  PROVE  DialogsInv' /\ Served
  <1>1. /\ asks \in [Calls -> AskRecords] /\ dialog \in DialogRecords
        /\ \A c \in Calls : AskOK(asks[c])
        /\ height' = height /\ txs' = txs /\ txs \subseteq Txs
    BY DEF DialogsInv, world, CopyOK
  <1>2. /\ Missing \notin Things /\ NoKey \notin Things /\ Viewed \subseteq Txs /\ MaxClicks \in Nat
        /\ Missing \notin txs
    BY <1>1, DialogsAssumption DEF Things
  <1>3. NoAsk \in AskRecords /\ NoAsk.pc = "idle"
    BY DEF NoAsk, AskRecords, Shownable
  <1>4. ASSUME NEW c \in Calls, NEW key \in Things, ClickRow(c, key)
        PROVE  DialogsInv' /\ Served
    <2> DEFINE ask == [NoAsk EXCEPT !.pc = FirstStep, !.key = key, !.opens = TRUE]
    <2>1. /\ asks' = [asks EXCEPT ![c] = ask] /\ asks[c].pc = "idle" /\ ~dialog.open /\ key \in Rows
          /\ dialog' = [dialog EXCEPT !.clicks = @ + 1,
                                      !.wanted = (IF Pending = {} THEN {} ELSE @) \cup {key},
                                      !.failed = @ /\ Pending # {}]
          /\ dialog.clicks < MaxClicks /\ Served
      BY <1>4 DEF ClickRow, Request, Served
    <2>2. /\ dialog'.what = dialog.what /\ dialog'.open = FALSE /\ dialog'.link = dialog.link
          /\ dialog'.wanted = (IF Pending = {} THEN {} ELSE dialog.wanted) \cup {key}
          /\ dialog'.failed = (dialog.failed /\ Pending # {})
          /\ dialog'.slot = dialog.slot /\ dialog'.clicks = dialog.clicks + 1
      BY <1>1, <2>1 DEF DialogRecords
    <2>3. dialog' \in DialogRecords
      <3>1. dialog.clicks + 1 \in 0..MaxClicks
        BY <1>1, <1>2, <2>1 DEF DialogRecords
      <3>2. QED BY <1>1, <2>1, <3>1 DEF DialogRecords
    <2>4. ask \in AskRecords /\ ask.key = key /\ ask.pc \in {"db", "peer"}
      BY DEF AskRecords, NoAsk, FirstStep, Shownable
    <2> HIDE DEF ask
    <2>5. asks' \in [Calls -> AskRecords]
      BY <1>1, <2>1, <2>4
    <2>6. ASSUME NEW d \in Calls PROVE AskOK(asks[d])'
      <3>1. CASE d = c
        BY <1>1, <2>1, <2>2, <2>4, <3>1 DEF AskOK
      <3>2. CASE d # c
        <4>1. asks'[d] = asks[d]
          BY <1>1, <2>1, <3>2
        <4>2. asks[d].pc # "idle" => Pending # {}
          BY DEF Pending
        <4>3. QED BY <1>1, <2>2, <4>1, <4>2 DEF AskOK
      <3>3. QED BY <3>1, <3>2
    <2>7. dialog'.what = "rangeTx" => \A t \in dialog'.wanted : t \in Txs /\ HasTx(t, height')
      BY <1>1, <1>2, <2>1, <2>2 DEF DialogsInv, Rows
    <2>8. QED BY <2>1, <2>2, <2>3, <2>5, <2>6, <2>7 DEF DialogsInv, DetailsAreTrue
  <1>5. CASE CloseDetails
    <2>1. dialog' = [dialog EXCEPT !.open = FALSE] /\ asks' = asks /\ Served
      BY <1>5 DEF CloseDetails, Served
    <2>2. /\ dialog' \in DialogRecords /\ dialog'.what = dialog.what /\ dialog'.open = FALSE
          /\ dialog'.link = dialog.link /\ dialog'.wanted = dialog.wanted /\ dialog'.failed = dialog.failed
      BY <1>1, <2>1 DEF DialogRecords
    <2>3. QED BY <1>1, <2>1, <2>2 DEF DialogsInv, DetailsAreTrue, AskOK
  <1>6. ASSUME NEW c \in Calls, NEW ask \in AskRecords, AskOK(ask), asks' = [asks EXCEPT ![c] = ask],
               dialog' \in DialogRecords, dialog'.wanted = dialog.wanted, dialog'.what = dialog.what,
               dialog.failed => dialog'.failed, dialog'.link = "searching" => dialog.link = "searching",
               DetailsAreTrue'
        PROVE  DialogsInv'
    <2>1. asks' \in [Calls -> AskRecords] /\ \A d \in Calls : AskOK(asks'[d])
      BY <1>1, <1>6
    <2>2. \A d \in Calls : AskOK(asks[d])'
      BY <1>6, <2>1 DEF AskOK
    <2>3. QED BY <1>1, <1>6, <2>1, <2>2 DEF DialogsInv
  <1>7. ASSUME NEW c \in Calls, LinkRenders(c)
        PROVE  DialogsInv' /\ Served
    <2>1. PICK key \in dialog.wanted : Request(c, key, TRUE)
      BY <1>7 DEF LinkRenders
    <2> DEFINE ask == [NoAsk EXCEPT !.pc = FirstStep, !.key = key, !.opens = TRUE]
    <2>2. /\ asks' = [asks EXCEPT ![c] = ask] /\ Served /\ dialog.clicks < MaxClicks
          /\ dialog' = [dialog EXCEPT !.clicks = @ + 1]
      BY <1>7, <2>1 DEF LinkRenders, Request, Served
    <2>3. key \in Things
      BY <1>1 DEF DialogRecords
    <2>4. ask \in AskRecords /\ ask.key = key /\ ask.pc \in {"db", "peer"}
      BY <2>3 DEF AskRecords, NoAsk, FirstStep, Shownable
    <2> HIDE DEF ask
    <2>5. AskOK(ask)
      BY <2>4 DEF AskOK
    <2>6. /\ dialog' \in DialogRecords /\ dialog'.wanted = dialog.wanted /\ dialog'.what = dialog.what
          /\ dialog'.failed = dialog.failed /\ dialog'.link = dialog.link /\ dialog'.open = dialog.open
          /\ dialog'.slot = dialog.slot
      <3>1. dialog.clicks + 1 \in 0..MaxClicks
        BY <1>1, <1>2, <2>2 DEF DialogRecords
      <3>2. QED BY <1>1, <2>2, <3>1 DEF DialogRecords
    <2>7. DetailsAreTrue'
      BY <2>6 DEF DialogsInv, DetailsAreTrue
    <2>8. QED BY <1>6, <2>2, <2>4, <2>5, <2>6, <2>7
  <1>8. ASSUME NEW c \in Calls, ListArrives(c)
        PROVE  DialogsInv' /\ Served
    <2> DEFINE ask == [NoAsk EXCEPT !.pc = FirstStep, !.key = Missing, !.opens = FALSE]
    <2>1. /\ asks' = [asks EXCEPT ![c] = ask] /\ Served /\ dialog.link = "searching"
          /\ dialog' = [dialog EXCEPT !.link = "listed"]
      BY <1>8 DEF ListArrives, Request, Served
    <2>2. ask \in AskRecords /\ ask.key = Missing /\ ask.pc = "db" /\ ~ask.opens
      BY <2>1 DEF AskRecords, NoAsk, FirstStep, Shownable, DialogsInv
    <2> HIDE DEF ask
    <2>3. AskOK(ask)
      BY <2>1, <2>2 DEF AskOK, DialogsInv
    <2>4. /\ dialog' \in DialogRecords /\ dialog'.wanted = dialog.wanted /\ dialog'.what = dialog.what
          /\ dialog'.failed = dialog.failed /\ dialog'.link = "listed" /\ dialog'.open = dialog.open
          /\ dialog'.slot = dialog.slot
      BY <1>1, <2>1 DEF DialogRecords
    <2>5. DetailsAreTrue'
      BY <2>4 DEF DialogsInv, DetailsAreTrue
    <2>6. QED BY <1>6, <2>1, <2>2, <2>3, <2>4, <2>5
  <1>9. ASSUME NEW c \in Calls, NEW ask \in AskRecords, AskOK(ask), asks' = [asks EXCEPT ![c] = ask],
               dialog' = dialog
        PROVE  DialogsInv'
    <2>1. DetailsAreTrue'
      BY <1>9 DEF DialogsInv, DetailsAreTrue
    <2>2. QED BY <1>1, <1>6, <1>9, <2>1
  <1>10. ASSUME NEW c \in Calls, LookUpRow(c) \/ AskPeer(c) \/ LookUpFails(c)
         PROVE  DialogsInv' /\ Served
    <2>1. /\ asks[c] \in AskRecords /\ AskOK(asks[c]) /\ asks[c].pc \in {"db", "peer"} /\ dialog' = dialog
          /\ Served
      BY <1>1, <1>10 DEF LookUpRow, AskPeer, LookUpFails, Served
    <2>2. \/ asks[c].key \in dialog.wanted
          \/ asks[c].key = Missing /\ ~asks[c].opens /\ asks[c].pc = "db" /\ dialog.what = "link"
      BY <2>1 DEF AskOK
    <2>3. CASE LookUpRow(c) /\ asks[c].key \in txs
      <3> DEFINE ask == [asks[c] EXCEPT !.pc = "sent", !.answer = asks[c].key]
      <3>1. asks' = [asks EXCEPT ![c] = ask]
        BY <1>1, <2>3 DEF LookUpRow, AnswerWith
      <3>2. ask \in AskRecords /\ AskOK(ask)
        BY <1>2, <2>1, <2>2, <2>3 DEF AskRecords, AskOK
      <3> HIDE DEF ask
      <3>3. QED BY <1>9, <2>1, <3>1, <3>2
    <2>4. CASE LookUpRow(c) /\ asks[c].key \notin txs
      <3> DEFINE ask == [asks[c] EXCEPT !.pc = IF dialog.what = "rangeTx" THEN "peer" ELSE "never"]
      <3>1. asks' = [asks EXCEPT ![c] = ask] /\ asks[c].pc = "db"
        BY <1>1, <2>4 DEF LookUpRow
      <3>2. asks[c].key = Missing => dialog.what # "rangeTx"
        BY <2>2, <1>1, <1>2 DEF DialogRecords
      <3>3. ask \in AskRecords /\ AskOK(ask)
        BY <1>2, <2>1, <2>2, <3>2 DEF AskRecords, AskOK
      <3> HIDE DEF ask
      <3>4. QED BY <1>9, <2>1, <3>1, <3>3
    <2>5. CASE AskPeer(c)
      <3> DEFINE ask == [asks[c] EXCEPT !.pc = "sent", !.answer = asks[c].key]
      <3>1. asks[c].pc = "peer" /\ asks[c].key \in dialog.wanted
        BY <2>2, <2>5 DEF AskPeer
      <3>2. PeerFinds(asks[c].key)
        BY <3>1 DEF PeerFinds, DialogsInv
      <3>3. asks' = [asks EXCEPT ![c] = ask]
        BY <1>1, <2>5, <3>2 DEF AskPeer, AnswerWith
      <3>4. ask \in AskRecords /\ AskOK(ask)
        BY <2>1, <3>1 DEF AskRecords, AskOK
      <3> HIDE DEF ask
      <3>5. QED BY <1>9, <2>1, <3>3, <3>4
    <2>6. CASE LookUpFails(c)
      <3> DEFINE ask == [asks[c] EXCEPT !.pc = "never"]
      <3>1. asks' = [asks EXCEPT ![c] = ask]
        BY <2>6 DEF LookUpFails
      <3>2. ask \in AskRecords /\ AskOK(ask)
        BY <2>1, <2>2 DEF AskRecords, AskOK
      <3> HIDE DEF ask
      <3>3. QED BY <1>9, <2>1, <3>1, <3>2
    <2>7. QED BY <1>10, <2>3, <2>4, <2>5, <2>6
  <1>11. ASSUME NEW c \in Calls, AskPeerFails(c)
         PROVE  DialogsInv' /\ Served
    <2> DEFINE ask == [asks[c] EXCEPT !.pc = "sent", !.answer = Missing]
    <2>1. /\ asks' = [asks EXCEPT ![c] = ask] /\ asks[c].pc = "peer" /\ Served
          /\ dialog' = [dialog EXCEPT !.failed = TRUE]
      BY <1>1, <1>11 DEF AskPeerFails, AnswerWith, Served
    <2>2. /\ dialog' \in DialogRecords /\ dialog'.wanted = dialog.wanted /\ dialog'.what = dialog.what
          /\ dialog'.failed = TRUE /\ dialog'.link = dialog.link
      BY <1>1, <2>1 DEF DialogRecords
    <2>3. asks[c].key \in dialog.wanted
      BY <1>1, <2>1 DEF AskOK
    <2>4. ask \in AskRecords /\ ask.key = asks[c].key
      BY <1>1 DEF AskRecords, Shownable
    <2> HIDE DEF ask
    <2>5. asks' \in [Calls -> AskRecords] /\ \A d \in Calls : AskOK(asks[d])'
      BY <1>1, <2>1, <2>2, <2>3, <2>4 DEF AskOK
    <2>6. QED BY <1>1, <2>1, <2>2, <2>5 DEF DialogsInv, DetailsAreTrue
  <1>12. ASSUME NEW c \in Calls, DeliverDetails(c)
         PROVE  DialogsInv' /\ Served
    <2>1. /\ asks' = [asks EXCEPT ![c] = NoAsk] /\ asks[c].pc = "sent" /\ Served
          /\ dialog' = Opened([dialog EXCEPT !.slot = asks[c].answer], asks[c].opens)
      BY <1>12 DEF DeliverDetails, Served
    <2>2. asks[c] \in AskRecords /\ AskOK(asks[c])
      BY <1>1
    <2>3. /\ dialog' \in DialogRecords /\ dialog'.wanted = dialog.wanted /\ dialog'.what = dialog.what
          /\ dialog'.failed = dialog.failed /\ dialog'.link \in {dialog.link, "opened"}
          /\ dialog'.slot = asks[c].answer
      BY <1>1, <2>1, <2>2 DEF DialogRecords, AskRecords, Opened
    <2>4. ~dialog.failed => asks[c].answer \in dialog.wanted
      BY <2>1, <2>2 DEF AskOK
    <2>5. DetailsAreTrue'
      BY <2>3, <2>4 DEF DetailsAreTrue
    <2>6. AskOK(NoAsk)
      BY <1>3 DEF AskOK
    <2>7. QED BY <1>3, <1>6, <2>1, <2>3, <2>5, <2>6
  <1>13. ASSUME NEW c \in Calls, LoseDetails(c)
         PROVE  DialogsInv' /\ Served
    <2>1. /\ asks' = [asks EXCEPT ![c] = NoAsk] /\ Served
          /\ dialog' = Opened([dialog EXCEPT !.failed = TRUE], asks[c].opens)
      BY <1>13 DEF LoseDetails, Served
    <2>2. /\ dialog' \in DialogRecords /\ dialog'.wanted = dialog.wanted /\ dialog'.what = dialog.what
          /\ dialog'.failed = TRUE /\ dialog'.link \in {dialog.link, "opened"}
      BY <1>1, <2>1 DEF DialogRecords, Opened
    <2>3. AskOK(NoAsk)
      BY <1>3 DEF AskOK
    <2>4. QED BY <1>3, <1>6, <2>1, <2>2, <2>3 DEF DetailsAreTrue
  <1>14. Viewed \cup Contracts \cup {ThisChannel} \subseteq Things
    BY <1>2 DEF Things
  <1>15. QED
    BY <1>4, <1>5, <1>7, <1>8, <1>10, <1>11, <1>12, <1>13, <1>14 DEF Dialogs

LEMMA DialogsTrue == DialogsInv => DialogsOK /\ DetailsAreTrue
  BY DEF DialogsInv, AskRecords, DialogRecords, DialogsOK
-----------------------------------------------------------------------------
(* The search for a range of blocks. *)

BlockData == [num : Nat, txs : Nat]
RangeRecords ==
  [pc : {"idle", "db", "peer", "lost"}, lo : Nat, hi : Nat, at : Nat, got : Seq(BlockData),
   loaded : BOOLEAN, shown : Seq(BlockData), page : Nat, asked : Nat, failed : BOOLEAN]

(* The blocks found so far are those before the one asked about; what is        *)
(* loaded begins like them, and the page shown is one it has.                   *)
BlocksFrom(lo, found) == \A i \in 1..Len(found) : found[i] = FromLedger(lo + i - 1)
Asked(r) ==
  r \in RangeRecords /\ r.lo <= r.hi /\ r.asked <= height /\ r.page = 0 /\ BlocksFrom(r.lo, r.got)
RangeOK(r) ==
  /\ r \in RangeRecords
  /\ r.lo <= r.hi /\ r.asked <= height
  /\ r.pc \in {"db", "peer", "lost"} => ~r.loaded
  /\ r.pc \in {"db", "peer"} => Asked(r) /\ r.at <= r.hi /\ r.lo + Len(r.got) = r.at
  /\ r.loaded =>
       /\ BlocksFrom(r.lo, r.shown)
       /\ r.failed \/ r.lo + Len(r.shown) > Least(r.hi, r.asked - 1)
       /\ r.shown # <<>> => r.page * Size < Len(r.shown)
RangeInv == RangeOK(range)

(* Math.ceil(n / Size). *)
LEMMA PagesAre ==
  ASSUME NEW n \in Nat
  PROVE  /\ NumberOfPages(n) \in Nat
         /\ n <= NumberOfPages(n) * Size /\ NumberOfPages(n) * Size < n + Size
  <1>1. Size \in Nat \ {0}
    BY ListsAssumption
  <1> DEFINE m == n + Size - 1
             q == m \div Size
  <1>2. m \in Nat
    BY <1>1
  <1> HIDE DEF m
  <1>3. q \in Nat /\ m = q * Size + (m % Size) /\ m % Size \in 0..(Size - 1)
    BY <1>1, <1>2
  <1>4. q * Size \in Nat
    BY <1>1, <1>3
  <1>5. NumberOfPages(n) = q
    BY DEF m, NumberOfPages
  <1> HIDE DEF q
  <1>6. m = n + Size - 1
    BY DEF m
  <1>7. QED BY <1>1, <1>2, <1>3, <1>4, <1>5, <1>6

(* The page after one that is not the last has rows. *)
LEMMA NextPage ==
  ASSUME NEW n \in Nat, NEW p \in Nat, p * Size < n, p + 1 # NumberOfPages(n)
  PROVE  (p + 1) * Size < n
  <1>1. Size \in Nat \ {0}
    BY ListsAssumption
  <1>2. PICK q \in Nat : q = NumberOfPages(n) /\ n <= q * Size /\ q * Size < n + Size
    BY PagesAre
  <1>3. p < q
    <2>1. SUFFICES ASSUME q <= p PROVE FALSE
      BY <1>2
    <2>2. PICK d \in Nat : p = q + d
      <3>1. p - q \in Nat /\ p = q + (p - q)
        BY <2>1
      <3>2. QED BY <3>1
    <2>3. p * Size = q * Size + d * Size
      BY <1>1, <2>2
    <2>4. q * Size \in Nat /\ d * Size \in Nat
      BY <1>1, <2>2
    <2>5. QED BY <1>1, <1>2, <2>3, <2>4
  <1>4. PICK d \in Nat : q = p + 2 + d
    <2>1. q - p - 2 \in Nat /\ q = p + 2 + (q - p - 2)
      BY <1>2, <1>3
    <2>2. QED BY <2>1
  <1>5. q * Size = (p + 1) * Size + Size + d * Size
    BY <1>1, <1>4
  <1>6. (p + 1) * Size \in Nat /\ d * Size \in Nat /\ q * Size \in Nat
    BY <1>1, <1>4
  <1>7. QED BY <1>1, <1>2, <1>5, <1>6

LEMMA RangeInitially == CopyOK /\ ListsInit => RangeInv
  <1> SUFFICES ASSUME CopyOK, ListsInit PROVE RangeInv
    OBVIOUS
  <1>1. range = [pc |-> "idle", lo |-> 0, hi |-> 0, at |-> 0, got |-> <<>>, loaded |-> FALSE,
                 shown |-> <<>>, page |-> 0, asked |-> 0, failed |-> FALSE]
    BY DEF ListsInit
  <1>2. height \in Nat
    BY CopyAssumption DEF CopyOK
  <1>3. <<>> \in Seq(BlockData)
    OBVIOUS
  <1>4. range \in RangeRecords
    BY <1>1, <1>3 DEF RangeRecords
  <1>5. QED BY <1>1, <1>2, <1>4 DEF RangeInv, RangeOK

LEMMA RangeOfGrowingCopy ==
  ASSUME CopyOK, CopyOK', height <= height', RangeInv, UNCHANGED range
  PROVE  RangeInv'
  <1>1. height \in Nat /\ height' \in Nat /\ range.asked \in Nat
    BY CopyAssumption DEF CopyOK, RangeInv, RangeOK, RangeRecords
  <1>2. range.asked <= height => range.asked <= height'
    BY <1>1
  <1>3. QED BY <1>2 DEF RangeInv, RangeOK, Asked

LEMMA RangeFinishes ==
  ASSUME CopyOK, NEW r, Asked(r), r.failed \/ r.lo + Len(r.got) > Least(r.hi, r.asked - 1)
  PROVE  RangeOK(Finish(r))
  <1> DEFINE done == [r EXCEPT !.loaded = TRUE, !.shown = r.got, !.pc = "idle", !.got = <<>>]
  <1>1. r \in RangeRecords /\ r.got \in Seq(BlockData) /\ Len(r.got) \in Nat
    BY DEF Asked, RangeRecords
  <1>2. Finish(r) = done
    BY <1>1 DEF Finish, Loaded, RangeRecords
  <1>3. /\ done \in RangeRecords /\ done.lo = r.lo /\ done.hi = r.hi /\ done.asked = r.asked
        /\ done.page = r.page /\ done.shown = r.got /\ done.pc = "idle" /\ done.failed = r.failed
    <2>1. <<>> \in Seq(BlockData)
      OBVIOUS
    <2>2. QED BY <1>1, <2>1 DEF RangeRecords
  <1>4. r.got # <<>> => 0 * Size < Len(r.got)
    BY <1>1, ListsAssumption
  <1> HIDE DEF done
  <1>5. QED BY <1>2, <1>3, <1>4 DEF Asked, RangeOK

(* The block asked about comes, from the database or from the ledger. *)
LEMMA RangeGoesOn ==
  ASSUME CopyOK, RangeInv, range.pc \in {"db", "peer"}, range.at \in Blocks
  PROVE  RangeOK(Continue(range, FromLedger(range.at)))
  <1> DEFINE data == FromLedger(range.at)
             got == Append(range.got, data)
             s == [range EXCEPT !.got = got]
  <1>1. data \in BlockData
    BY CopyAssumption DEF BlockData, FromLedger, Blocks
  <1>2. /\ range \in RangeRecords /\ Asked(range) /\ range.lo <= range.hi /\ ~range.loaded
        /\ range.lo + Len(range.got) = range.at /\ range.at <= range.hi /\ BlocksFrom(range.lo, range.got)
    BY DEF RangeInv, RangeOK, Asked
  <1>3. /\ range.lo \in Nat /\ range.hi \in Nat /\ range.at \in Nat /\ range.asked \in Nat
        /\ range.got \in Seq(BlockData)
    BY <1>2 DEF RangeRecords
  <1>4. got \in Seq(BlockData) /\ Len(got) = Len(range.got) + 1 /\ Len(range.got) \in Nat
    BY <1>1, <1>3
  <1>5. BlocksFrom(range.lo, got)
    <2>1. SUFFICES ASSUME NEW i \in 1..Len(got) PROVE got[i] = FromLedger(range.lo + i - 1)
      BY DEF BlocksFrom
    <2>2. CASE i \in 1..Len(range.got)
      <3>1. got[i] = range.got[i]
        BY <1>1, <1>3, <2>2
      <3>2. QED BY <1>2, <2>2, <3>1 DEF BlocksFrom
    <2>3. CASE i = Len(range.got) + 1
      <3>1. got[i] = data
        BY <1>1, <1>3, <2>3
      <3>2. range.lo + i - 1 = range.at
        BY <1>2, <1>3, <1>4, <2>3
      <3>3. QED BY <3>1, <3>2
    <2>4. QED BY <1>4, <2>2, <2>3
  <1> HIDE DEF data, got
  <1>6. /\ s \in RangeRecords /\ s.lo = range.lo /\ s.hi = range.hi /\ s.asked = range.asked
        /\ s.page = range.page /\ s.got = got /\ s.failed = range.failed /\ s.pc = range.pc
        /\ s.loaded = range.loaded /\ s.at = range.at
    BY <1>2, <1>4 DEF RangeRecords
  <1>7. Asked(s)
    BY <1>2, <1>5, <1>6 DEF Asked
  <1>8. Continue(range, data) = IF range.at = range.hi THEN Finish(s) ELSE [s EXCEPT !.pc = "db", !.at = @ + 1]
    BY <1>2 DEF Continue, RangeRecords, got
  <1> HIDE DEF s
  <1>9. CASE range.at = range.hi
    <2>1. s.lo + Len(s.got) > Least(s.hi, s.asked - 1)
      BY <1>2, <1>3, <1>4, <1>6, <1>9 DEF Least
    <2>2. QED BY <1>7, <1>8, <1>9, <2>1, RangeFinishes DEF data
  <1>10. CASE range.at # range.hi
    <2> DEFINE t == [s EXCEPT !.pc = "db", !.at = range.at + 1]
    <2>1. /\ t \in RangeRecords /\ t.lo = range.lo /\ t.hi = range.hi /\ t.asked = range.asked
          /\ t.page = range.page /\ t.got = got /\ t.pc = "db" /\ t.loaded = range.loaded
          /\ t.at = range.at + 1
      <3>1. range.at + 1 \in Nat
        BY <1>3
      <3>2. QED BY <1>6, <3>1 DEF RangeRecords
    <2>2. Continue(range, data) = t
      BY <1>6, <1>8, <1>10
    <2> HIDE DEF t
    <2>3. Asked(t) /\ t.at <= t.hi /\ t.lo + Len(t.got) = t.at
      <3>1. range.at + 1 <= range.hi /\ range.lo + Len(got) = range.at + 1
        <4>1. range.at <= range.hi /\ range.at # range.hi /\ range.lo + Len(range.got) = range.at
          BY <1>2, <1>10
        <4>2. range.at + 1 <= range.hi
          BY <1>3, <4>1
        <4>3. QED BY <1>3, <1>4, <4>1, <4>2
      <3>2. Asked(t)
        BY <1>2, <1>5, <2>1 DEF Asked
      <3>3. QED BY <2>1, <3>1, <3>2
    <2>4. RangeOK(t)
      BY <1>2, <2>1, <2>3 DEF RangeOK, Asked
    <2>5. QED BY <2>2, <2>4 DEF data
  <1>11. QED BY <1>9, <1>10

LEMMA RangeStep ==
  ASSUME CopyOK, RangeInv, RangeSearch, UNCHANGED <<world, kind>>
  PROVE  RangeInv' /\ Served /\ UNCHANGED <<list, walk>>
  <1>1. height' = height /\ height \in Nat /\ MaxBlock \in Nat /\ Size \in Nat \ {0}
    BY CopyAssumption, ListsAssumption DEF world, CopyOK
  <1>2. RangeOK(range) /\ range \in RangeRecords
    BY DEF RangeInv, RangeOK
  <1>3. ASSUME NEW r, range' = r, RangeOK(r)
        PROVE  RangeInv'
    BY <1>1, <1>3 DEF RangeInv, RangeOK, Asked
  <1>4. ASSUME NEW lo \in 0..(MaxBlock + 1), NEW hi \in 0..(MaxBlock + 1), SearchBlockRange(lo, hi)
        PROVE  RangeInv' /\ Served /\ UNCHANGED <<list, walk>>
    <2> DEFINE r == [range EXCEPT !.pc = "db", !.lo = lo, !.hi = hi, !.at = lo, !.got = <<>>,
                                  !.loaded = FALSE, !.page = 0, !.asked = height, !.failed = FALSE]
    <2>1. range' = r /\ lo <= hi
      BY <1>4 DEF SearchBlockRange
    <2>2. <<>> \in Seq(BlockData) /\ lo \in Nat /\ hi \in Nat
      BY <1>1
    <2>3. /\ r \in RangeRecords /\ r.pc = "db" /\ r.lo = lo /\ r.hi = hi /\ r.at = lo /\ r.got = <<>>
          /\ ~r.loaded /\ r.page = 0 /\ r.asked = height
      BY <1>1, <1>2, <2>2 DEF RangeRecords
    <2> HIDE DEF r
    <2>4. Asked(r) /\ r.at <= r.hi /\ r.lo + Len(r.got) = r.at
      BY <1>1, <2>1, <2>3 DEF Asked, BlocksFrom
    <2>5. RangeOK(r)
      BY <2>3, <2>4 DEF RangeOK, Asked
    <2>6. QED BY <1>3, <1>4, <2>1, <2>5 DEF SearchBlockRange, Served
  <1>5. CASE RangeFromDatabase
    <2>1. range.pc = "db" /\ Served /\ UNCHANGED <<list, walk>>
      BY <1>5 DEF RangeFromDatabase, Served
    <2>2. CASE InDatabase(range.at)
      <3>1. FromDatabase(range.at) = FromLedger(range.at) /\ range.at \in Blocks
        BY <2>2, StoredWhole DEF InDatabase
      <3>2. range' = Continue(range, FromLedger(range.at))
        BY <1>5, <2>2, <3>1 DEF RangeFromDatabase
      <3>3. QED BY <1>3, <2>1, <3>1, <3>2, RangeGoesOn
    <2>3. CASE ~InDatabase(range.at)
      <3> DEFINE r == [range EXCEPT !.pc = "peer"]
      <3>1. range' = r
        BY <1>5, <2>3 DEF RangeFromDatabase
      <3>2. /\ r \in RangeRecords /\ r.lo = range.lo /\ r.hi = range.hi /\ r.asked = range.asked
            /\ r.page = range.page /\ r.got = range.got /\ r.loaded = range.loaded /\ r.at = range.at
            /\ r.pc = "peer"
        BY <1>2 DEF RangeRecords
      <3> HIDE DEF r
      <3>3. RangeOK(r)
        BY <1>2, <2>1, <3>2 DEF RangeOK, Asked
      <3>4. QED BY <1>3, <2>1, <3>1, <3>3
    <2>4. QED BY <2>2, <2>3
  <1>6. CASE RangeFromLedger
    <2>1. /\ range.pc = "peer" /\ Served /\ UNCHANGED <<list, walk>>
          /\ range' = IF InLedger(range.at) THEN Continue(range, FromLedger(range.at)) ELSE Finish(range)
      BY <1>6 DEF RangeFromLedger, Served
    <2>2. /\ range.at \in Nat /\ Asked(range) /\ range.lo + Len(range.got) = range.at
          /\ range.at <= range.hi /\ range.asked <= height /\ range.hi \in Nat /\ range.asked \in Nat
      BY <1>2, <2>1 DEF RangeOK, RangeRecords
    <2>3. CASE InLedger(range.at)
      <3>1. range.at \in Blocks
        BY <1>1, <2>2, <2>3 DEF InLedger, Blocks, CopyOK
      <3>2. QED BY <1>3, <2>1, <2>3, <3>1, RangeGoesOn
    <2>4. CASE ~InLedger(range.at)
      <3>1. range.lo + Len(range.got) > Least(range.hi, range.asked - 1)
        BY <1>1, <2>2, <2>4 DEF InLedger, Least
      <3>2. QED BY <1>3, <2>1, <2>2, <2>4, <3>1, RangeFinishes
    <2>5. QED BY <2>3, <2>4
  <1>7. CASE RangePeerFails
    <2> DEFINE r == [range EXCEPT !.failed = TRUE]
    <2>1. range.pc = "peer" /\ Served /\ UNCHANGED <<list, walk>> /\ range' = Finish(r)
      BY <1>7 DEF RangePeerFails, Served
    <2>2. /\ r \in RangeRecords /\ r.lo = range.lo /\ r.hi = range.hi /\ r.asked = range.asked
          /\ r.page = range.page /\ r.got = range.got /\ r.failed
      BY <1>2 DEF RangeRecords
    <2> HIDE DEF r
    <2>3. Asked(r)
      BY <1>2, <2>1, <2>2 DEF RangeOK, Asked
    <2>4. QED BY <1>3, <2>1, <2>2, <2>3, RangeFinishes
  <1>8. CASE RangeFails
    <2> DEFINE r == [range EXCEPT !.pc = "lost"]
    <2>1. range.pc = "db" /\ range' = r /\ Served /\ UNCHANGED <<list, walk>>
      BY <1>8 DEF RangeFails, Served
    <2>2. /\ r \in RangeRecords /\ r.lo = range.lo /\ r.hi = range.hi /\ r.asked = range.asked
          /\ r.pc = "lost" /\ r.loaded = range.loaded
      BY <1>2 DEF RangeRecords
    <2> HIDE DEF r
    <2>3. RangeOK(r)
      BY <1>2, <2>1, <2>2 DEF RangeOK
    <2>4. QED BY <1>3, <2>1, <2>3
  <1>9. ASSUME NEW p \in Blocks, TurnRangePage(p)
        PROVE  RangeInv' /\ Served /\ UNCHANGED <<list, walk>>
    <2> DEFINE r == [range EXCEPT !.page = p]
    <2>1. /\ range' = r /\ range.loaded /\ Served /\ UNCHANGED <<list, walk>>
          /\ p = range.page - 1 \/ (p = range.page + 1 /\ p # NumberOfPages(Len(range.shown)))
      BY <1>9 DEF TurnRangePage, RangeShown, RangePages, Served
    <2>2. p \in Nat /\ range.page \in Nat /\ Len(range.shown) \in Nat
      BY <1>2 DEF Blocks, RangeRecords
    <2>3. /\ r \in RangeRecords /\ r.lo = range.lo /\ r.hi = range.hi /\ r.asked = range.asked
          /\ r.page = p /\ r.shown = range.shown /\ r.pc = range.pc /\ r.loaded /\ r.failed = range.failed
      BY <1>2, <2>1, <2>2 DEF RangeRecords
    <2> HIDE DEF r
    <2>4. range.shown # <<>> => p * Size < Len(range.shown)
      <3>1. SUFFICES ASSUME range.shown # <<>> PROVE p * Size < Len(range.shown)
        OBVIOUS
      <3>2. range.page * Size < Len(range.shown)
        BY <1>2, <2>1, <3>1 DEF RangeOK
      <3>3. CASE p = range.page - 1
        <4>1. range.page * Size = p * Size + Size
          BY <1>1, <2>2, <3>3
        <4>2. p * Size \in Nat /\ range.page * Size \in Nat
          BY <1>1, <2>2
        <4>3. QED BY <1>1, <2>2, <3>2, <4>1, <4>2
      <3>4. CASE p = range.page + 1 /\ p # NumberOfPages(Len(range.shown))
        BY <2>2, <3>2, <3>4, NextPage
      <3>5. QED BY <2>1, <3>3, <3>4
    <2>5. RangeOK(r)
      BY <1>2, <2>1, <2>3, <2>4 DEF RangeOK
    <2>6. QED BY <1>3, <2>1, <2>5
  <1>10. QED BY <1>4, <1>5, <1>6, <1>7, <1>8, <1>9 DEF RangeSearch

LEMMA RangeTrue ==
  ASSUME RangeInv
  PROVE  RangeIsTrue /\ range.pc \in {"idle", "db", "peer", "lost"} /\ range.lo <= range.hi
  <1>1. range \in RangeRecords
    BY DEF RangeInv, RangeOK
  <1>2. /\ range.shown \in Seq(BlockData) /\ Len(range.shown) \in Nat
        /\ DOMAIN range.shown = 1..Len(range.shown) /\ range.page \in Nat /\ Size \in Nat \ {0}
    BY <1>1, ListsAssumption DEF RangeRecords
  <1>3. ASSUME range.loaded, range.shown # <<>>
        PROVE  RangeRows(range.page) # <<>>
    <2> DEFINE last == Len(range.shown) - range.page * Size
               first == IF last > Size THEN last - Size + 1 ELSE 1
    <2>1. range.page * Size \in Nat /\ range.page * Size < Len(range.shown)
      BY <1>2, <1>3 DEF RangeInv, RangeOK
    <2>2. last \in Nat /\ 1 <= last /\ last <= Len(range.shown)
      BY <1>2, <2>1
    <2> HIDE DEF last
    <2>3. first \in Nat /\ 1 <= first /\ first <= last
      BY <1>2, <2>2
    <2> HIDE DEF first
    <2>4. SubSeq(range.shown, first, last) # <<>>
      <3>1. Len(SubSeq(range.shown, first, last)) = last - first + 1
        BY <1>2, <2>2, <2>3
      <3>2. QED BY <2>2, <2>3, <3>1
    <2>5. QED BY <2>4 DEF RangeRows, first, last
  <1>4. QED BY <1>1, <1>2, <1>3 DEF RangeInv, RangeOK, BlocksFrom, RangeIsTrue, RangeRecords

-----------------------------------------------------------------------------
(* The paged lists. *)

RowsOfTable(table) == IF table = "blocks" THEN Blocks ELSE Txs
Window == [from : Nat, to : Nat, orgs : SUBSET Orgs]
ListRecords ==
  [table : {"blocks", "txs"}, pc : {"idle", "count", "rows", "lost"}, search : {Recent} \cup Typed,
   page : Nat, window : Window, count : Nat, pages : Nat, shown : SUBSET (Txs \cup Blocks)]
WalkRecords ==
  [start : SUBSET (Txs \cup Blocks), seen : SUBSET (Txs \cup Blocks), ever : SUBSET (Txs \cup Blocks),
   reached : Nat]

WindowOf(s, n) ==
  IF s = Recent THEN [from |-> IF n > Day THEN n - Day ELSE 0, to |-> n, orgs |-> {}] ELSE s
TimeOf(table, r) == IF table = "blocks" THEN BlockTime(r) ELSE Time[r]
OrderOf(table, r) == IF table = "blocks" THEN r ELSE Time[r]

(* Whether a window has a row does not depend on the rest of the copy.          *)
Fits(table, r, w) ==
  IF table = "blocks"
  THEN Within(BlockTime(r), w) /\ \E t \in TxsOf(r) : Within(Time[t], w) /\ By(Creator[t], w.orgs)
  ELSE Within(Time[r], w) /\ By(Creator[r], w.orgs)

(* A row that was not shown yet is behind the pages reached: as many rows as    *)
(* they have, of those the list ever had and still has, come no later, unless   *)
(* one of its own time or one that left the window makes its place uncertain.   *)
SameTime(table, k, r) == table = "txs" /\ \E x \in k.ever \ {r} : Time[x] = Time[r]
OneLeft(table, w, k, r) == \E x \in k.ever : ~Fits(table, x, w) /\ OrderOf(table, x) > OrderOf(table, r)
SinceFirst(table, w, k, r) == {x \in k.ever : Fits(table, x, w) /\ OrderOf(table, x) >= OrderOf(table, r)}
Behind(table, w, k, r) ==
  \/ k.reached = 0
  \/ SameTime(table, k, r) \/ OneLeft(table, w, k, r)
  \/ Cardinality(SinceFirst(table, w, k, r)) > k.reached * Size
Walked(table, w, k) == \A r \in k.start \ k.seen : Fits(table, r, w) => Behind(table, w, k, r)

(* The list was never wider than its pages, and a window of the last day only   *)
(* moves on.                                                                    *)
PageOK(l, k) ==
  /\ l.page = 0 => l.pc = "idle" /\ k.start = {} /\ k.reached = 0
  /\ l.pc = "idle" => l.shown \subseteq k.seen /\ l.page <= k.reached /\ l.count = 0
  /\ l.pc = "count" => l.page = 1
  /\ l.pc = "rows" => l.page <= k.reached + 1
  /\ l.pc \in {"idle", "rows"} =>
       /\ l.search = Recent => \A r \in k.start \cup k.ever : TimeOf(l.table, r) <= l.window.to
       /\ Walked(l.table, l.window, k)
       /\ k.start # {} => Cardinality(k.start) <= (IF l.count > 0 THEN l.count ELSE l.pages) * Size
StoredRows(table) == IF table = "blocks" THEN blocks ELSE txs
ListInv ==
  /\ list \in ListRecords /\ walk \in WalkRecords
  /\ walk.start \subseteq StoredRows(list.table) /\ walk.ever \subseteq StoredRows(list.table)
  /\ list.page # 0 => \E n \in 0..now : list.window = WindowOf(list.search, n)
  /\ PageOK(list, walk)

LEMMA RowTypes ==
  ASSUME NEW table \in {"blocks", "txs"}, NEW r \in RowsOfTable(table)
  PROVE  OrderOf(table, r) \in Nat /\ TimeOf(table, r) \in Nat
  BY BlockTimes, CopyAssumption DEF RowsOfTable, OrderOf, TimeOf, Blocks, Times

LEMMA RowsFinite ==
  /\ IsFiniteSet(Txs \cup Blocks)
  /\ \A table \in {"blocks", "txs"} : IsFiniteSet(RowsOfTable(table)) /\ RowsOfTable(table) \subseteq Txs \cup Blocks
  BY TxsFinite, FS_Union DEF RowsOfTable

LEMMA MatchingIs ==
  ASSUME CopyOK, list.table \in {"blocks", "txs"}, NEW w
  PROVE  /\ StoredRows(list.table) \subseteq RowsOfTable(list.table)
         /\ Matching(w) = {r \in StoredRows(list.table) : Fits(list.table, r, w)}
         /\ Matching(w) \subseteq Counted(w)
  <1>1. \A b \in blocks : Stored(b) = TxsOf(b)
    BY StoredWhole
  <1>2. BlocksMatching(w) = {b \in blocks : Fits("blocks", b, w)}
    BY <1>1 DEF BlocksMatching, Fits
  <1>3. TxsMatching(w) = {t \in txs : Fits("txs", t, w)}
    BY DEF TxsMatching, Fits
  <1>4. BlocksMatching(w) \subseteq BlocksCounted(w)
    BY DEF BlocksMatching, BlocksCounted
  <1>5. QED BY <1>2, <1>3, <1>4 DEF Matching, Counted, StoredRows, RowsOfTable, CopyOK

(* In a window of all organizations a row is one of its time. *)
LEMMA FitsByTime ==
  ASSUME NEW table \in {"blocks", "txs"}, NEW r \in RowsOfTable(table), NEW w, w.orgs = {}
  PROVE  Fits(table, r, w) <=> Within(TimeOf(table, r), w)
  <1>1. table = "blocks" => <<r, 1>> \in TxsOf(r)
    BY TxsOfBlock DEF RowsOfTable, TxsOf
  <1>2. QED BY <1>1 DEF Fits, TimeOf, By, BlockTime

LEMMA WindowTypes ==
  ASSUME NEW s \in {Recent} \cup Typed, NEW n \in Nat
  PROVE  WindowOf(s, n) \in Window
  <1>1. Day \in Nat /\ Typed \subseteq [from : Times, to : Times, orgs : SUBSET Orgs]
    BY ListsAssumption
  <1>2. Times \subseteq Nat
    BY DEF Times
  <1>3. CASE s = Recent
    <2>1. (IF n > Day THEN n - Day ELSE 0) \in Nat
      BY <1>1
    <2>2. QED BY <1>3, <2>1 DEF WindowOf, Window
  <1>4. CASE s # Recent
    BY <1>1, <1>2, <1>4 DEF WindowOf, Window
  <1>5. QED BY <1>3, <1>4

(* While the last day moves on, what leaves it is of an earlier time. *)
LEMMA WindowMoves ==
  ASSUME NEW table \in {"blocks", "txs"}, NEW k \in WalkRecords,
         k.start \subseteq RowsOfTable(table), k.ever \subseteq RowsOfTable(table),
         NEW m \in Nat, NEW n \in Nat, m <= n,
         \A r \in k.start \cup k.ever : TimeOf(table, r) <= m,
         Walked(table, WindowOf(Recent, m), k)
  PROVE  Walked(table, WindowOf(Recent, n), k)
  <1> DEFINE v == WindowOf(Recent, m)
             w == WindowOf(Recent, n)
  <1>1. Day \in Nat
    BY ListsAssumption
  <1>2. /\ v.orgs = {} /\ w.orgs = {} /\ v.to = m /\ w.to = n
        /\ v.from \in Nat /\ w.from \in Nat /\ v.from <= w.from
    BY <1>1 DEF WindowOf
  <1> HIDE DEF v, w
  <1>3. ASSUME NEW r \in k.start \cup k.ever
        PROVE  /\ Fits(table, r, v) <=> v.from <= TimeOf(table, r)
               /\ Fits(table, r, w) <=> w.from <= TimeOf(table, r)
               /\ TimeOf(table, r) \in Nat
    <2>1. r \in RowsOfTable(table) /\ TimeOf(table, r) \in Nat /\ TimeOf(table, r) <= m
      BY RowTypes
    <2>2. Fits(table, r, v) <=> Within(TimeOf(table, r), v)
      BY <1>2, <2>1, FitsByTime
    <2>3. Fits(table, r, w) <=> Within(TimeOf(table, r), w)
      BY <1>2, <2>1, FitsByTime
    <2>4. Within(TimeOf(table, r), v) <=> v.from <= TimeOf(table, r)
      BY <1>2, <2>1 DEF Within
    <2>5. Within(TimeOf(table, r), w) <=> w.from <= TimeOf(table, r)
      BY <1>2, <2>1 DEF Within
    <2>6. QED BY <2>1, <2>2, <2>3, <2>4, <2>5
  <1>4. \A r \in k.start \cup k.ever : Fits(table, r, w) => Fits(table, r, v)
    BY <1>2, <1>3
  <1>5. ASSUME NEW r \in k.start \ k.seen, Fits(table, r, w)
        PROVE  Behind(table, w, k, r)
    <2>1. Fits(table, r, v) /\ Behind(table, v, k, r)
      BY <1>4, <1>5 DEF Walked, v
    <2>2. CASE OneLeft(table, v, k, r)
      BY <1>4, <2>2 DEF OneLeft, Behind
    <2>3. CASE Cardinality(SinceFirst(table, v, k, r)) > k.reached * Size
      <3>1. CASE OneLeft(table, w, k, r)
        BY <3>1 DEF Behind
      <3>2. CASE ~OneLeft(table, w, k, r)
        <4>1. ASSUME NEW x \in SinceFirst(table, v, k, r)
              PROVE  x \in SinceFirst(table, w, k, r)
          <5>1. x \in k.ever /\ OrderOf(table, x) >= OrderOf(table, r) /\ x \in RowsOfTable(table)
            BY <4>1 DEF SinceFirst
          <5>2. OrderOf(table, x) \in Nat /\ OrderOf(table, r) \in Nat
            BY <5>1, RowTypes
          <5>3. SUFFICES ASSUME ~Fits(table, x, w) PROVE FALSE
            BY <5>1 DEF SinceFirst
          <5>4. ~(OrderOf(table, x) > OrderOf(table, r))
            BY <3>2, <5>1, <5>3 DEF OneLeft
          <5>5. OrderOf(table, x) = OrderOf(table, r)
            BY <5>1, <5>2, <5>4
          <5>6. TimeOf(table, x) = TimeOf(table, r)
            BY <5>5 DEF OrderOf, TimeOf
          <5>7. QED BY <1>3, <1>5, <5>1, <5>3, <5>6
        <4>2. IsFiniteSet(SinceFirst(table, w, k, r))
          <5>1. SinceFirst(table, w, k, r) \subseteq Txs \cup Blocks
            BY DEF SinceFirst, WalkRecords
          <5>2. QED BY <5>1, RowsFinite, FS_Subset
        <4>3. /\ Cardinality(SinceFirst(table, v, k, r)) <= Cardinality(SinceFirst(table, w, k, r))
              /\ Cardinality(SinceFirst(table, v, k, r)) \in Nat
              /\ Cardinality(SinceFirst(table, w, k, r)) \in Nat
          BY <4>1, <4>2, Sizes
        <4>4. k.reached * Size \in Nat
          BY ListsAssumption DEF WalkRecords
        <4>5. Cardinality(SinceFirst(table, w, k, r)) > k.reached * Size
          BY <2>3, <4>3, <4>4
        <4>6. QED BY <4>5 DEF Behind
      <3>3. QED BY <3>1, <3>2
    <2>4. QED BY <2>1, <2>2, <2>3 DEF Behind
  <1>6. QED BY <1>5 DEF Walked, w

LEMMA ListInitially == CopyOK /\ ListsInit => ListInv
  <1> SUFFICES ASSUME CopyOK, ListsInit PROVE ListInv
    OBVIOUS
  <1>1. PICK table \in {"blocks", "txs"} :
          list = [table |-> table, pc |-> "idle", search |-> Recent, page |-> 0,
                  window |-> [from |-> 0, to |-> 0, orgs |-> {}], count |-> 0, pages |-> 0, shown |-> {}]
    BY DEF ListsInit
  <1>2. walk = [start |-> {}, seen |-> {}, ever |-> {}, reached |-> 0]
    BY DEF ListsInit
  <1>3. list \in ListRecords
    BY <1>1 DEF ListRecords, Window
  <1>4. walk \in WalkRecords
    BY <1>2 DEF WalkRecords
  <1>5. PageOK(list, walk)
    BY <1>1, <1>2 DEF PageOK, Walked
  <1>6. QED BY <1>1, <1>2, <1>3, <1>4, <1>5 DEF ListInv

LEMMA ListOfGrowingCopy ==
  ASSUME CopyOK, CopyOK', Precedes(Moment, Moment'), ListInv, UNCHANGED <<list, walk>>
  PROVE  ListInv'
  <1>1. txs \subseteq txs' /\ blocks \subseteq blocks' /\ now <= now' /\ now \in Nat /\ now' \in Nat
    BY CopyAssumption DEF Precedes, Moment, CopyOK, Times
  <1>2. StoredRows(list.table) \subseteq StoredRows(list.table)'
    BY <1>1 DEF StoredRows
  <1>3. 0..now \subseteq 0..now'
    BY <1>1
  <1>4. list' = list /\ walk' = walk
    OBVIOUS
  <1>5. PageOK(list, walk)'
    BY <1>4 DEF ListInv, PageOK, Walked, Behind, SameTime, OneLeft, SinceFirst
  <1>6. QED BY <1>2, <1>3, <1>4, <1>5 DEF ListInv

(* A request is for a window that ends now. *)
LEMMA AskTypes ==
  ASSUME CopyOK, ListInv, NEW s \in {Recent} \cup Typed, NEW p \in Nat \ {0}, Ask(list, s, p),
         UNCHANGED <<world, walk>>,
         p > 1 => PageOK(list', walk)
  PROVE  ListInv'
  <1>1. now \in Nat
    BY CopyAssumption DEF CopyOK, Times
  <1>2. DateWindow(s) = WindowOf(s, now)
    BY DEF DateWindow, WindowOf
  <1>3. DateWindow(s) \in Window
    BY <1>1, <1>2, WindowTypes
  <1>4. /\ list \in ListRecords /\ walk \in WalkRecords
        /\ list' = [list EXCEPT !.search = s, !.page = p, !.window = DateWindow(s),
                                !.pc = IF p = 1 THEN "count" ELSE "rows"]
    BY DEF ListInv, Ask
  <1>5. /\ list' \in ListRecords /\ list'.table = list.table /\ list'.page = p /\ list'.search = s
        /\ list'.window = WindowOf(s, now) /\ list'.pc = IF p = 1 THEN "count" ELSE "rows"
    BY <1>2, <1>3, <1>4 DEF ListRecords
  <1>6. PageOK(list', walk)
    BY <1>5 DEF PageOK
  <1>7. StoredRows(list.table)' = StoredRows(list.table) /\ now' = now /\ walk' = walk
    BY <1>5 DEF StoredRows, world
  <1>8. now \in 0..now
    BY <1>1
  <1>9. PageOK(list, walk)'
    BY <1>6, <1>7
  <1>10. QED BY <1>4, <1>5, <1>7, <1>8, <1>9 DEF ListInv

(* The rows of a page: those before it have the pages before it filled, or one  *)
(* of the time of a row that was not shown has come among them.                 *)
LEMMA PageShown ==
  ASSUME CopyOK, ListInv, NEW k \in WalkRecords, NEW w, NEW P \in PagesOf(Matching(w), list.page),
         list.page \in Nat \ {0}, list.page <= walk.reached + 1,
         Walked(list.table, w, walk),
         k.start = walk.start, k.seen = walk.seen \cup P, k.ever = walk.ever \cup Matching(w),
         k.reached = IF list.page > walk.reached THEN list.page ELSE walk.reached
  PROVE  Walked(list.table, w, k)
  <1> DEFINE table == list.table
             M == Matching(w)
             R == RowsOfTable(table)
  <1>1. table \in {"blocks", "txs"} /\ walk \in WalkRecords /\ walk.reached \in Nat /\ list.page \in Nat
    BY DEF ListInv, ListRecords, WalkRecords
  <1>2. /\ StoredRows(table) \subseteq R /\ M = {r \in StoredRows(table) : Fits(table, r, w)} /\ M \subseteq R
        /\ walk.start \subseteq StoredRows(table) /\ walk.ever \subseteq StoredRows(table)
    BY <1>1, MatchingIs DEF ListInv
  <1>3. IsFiniteSet(R) /\ IsFiniteSet(M)
    BY <1>1, <1>2, RowsFinite, FS_Subset
  <1>4. PICK B \in SUBSET (M \ P) :
          /\ Cardinality(B) = Least((list.page - 1) * Size, Cardinality(M))
          /\ Cardinality(P) = Least(Size, Cardinality(M) - Cardinality(B))
          /\ Ahead(B, M \ B) /\ Ahead(P, M \ (B \cup P))
    BY DEF PagesOf, PagesAfter
  <1>5. P \subseteq M
    BY DEF PagesOf, PagesAfter
  <1>6. \A x \in M : Order(x) = OrderOf(table, x) /\ OrderOf(table, x) \in Nat
    BY <1>1, <1>2, RowTypes DEF Order, OrderOf
  <1>7. Size \in Nat \ {0} /\ k.reached \in Nat /\ k.reached * Size \in Nat
    BY <1>1, ListsAssumption DEF WalkRecords
  <1> HIDE DEF M, R
  <1>8. ASSUME NEW r \in M, r \in walk.start, r \notin walk.seen, r \notin P
        PROVE  Behind(table, w, k, r)
    <2>1. Behind(table, w, walk, r)
      BY <1>2, <1>8 DEF Walked
    <2>2. SinceFirst(table, w, k, r) = {x \in M : OrderOf(table, x) >= OrderOf(table, r)}
      BY <1>2 DEF SinceFirst, M
    <2>3. SinceFirst(table, w, walk, r) \subseteq SinceFirst(table, w, k, r)
      BY DEF SinceFirst
    <2>4. IsFiniteSet(SinceFirst(table, w, k, r))
      BY <1>3, <2>2, FS_Subset
    <2>5. /\ Cardinality(SinceFirst(table, w, walk, r)) \in Nat
          /\ Cardinality(SinceFirst(table, w, k, r)) \in Nat
          /\ Cardinality(SinceFirst(table, w, walk, r)) <= Cardinality(SinceFirst(table, w, k, r))
      BY <2>3, <2>4, Sizes
    <2>6. CASE SameTime(table, walk, r)
      BY <2>6 DEF SameTime, Behind
    <2>7. CASE OneLeft(table, w, walk, r)
      BY <2>7 DEF OneLeft, Behind
    <2>8. CASE ~SameTime(table, walk, r) /\ ~OneLeft(table, w, walk, r) /\ list.page <= walk.reached
      <3>1. k.reached = walk.reached /\ walk.reached # 0
        BY <1>1, <2>8
      <3>2. Cardinality(SinceFirst(table, w, walk, r)) > k.reached * Size
        BY <2>1, <2>8, <3>1 DEF Behind
      <3>3. Cardinality(SinceFirst(table, w, k, r)) > k.reached * Size
        BY <1>7, <2>5, <3>2
      <3>4. QED BY <3>3 DEF Behind
    <2>9. CASE ~SameTime(table, walk, r) /\ ~OneLeft(table, w, walk, r) /\ list.page = walk.reached + 1
      <3>1. k.reached = list.page
        BY <1>1, <2>9
      <3>2. IsFiniteSet(B) /\ IsFiniteSet(P) /\ B \subseteq M
        BY <1>3, <1>5, FS_Subset DEF M
      <3>3. /\ Cardinality(B) \in Nat /\ Cardinality(P) \in Nat /\ Cardinality(M) \in Nat
            /\ Cardinality(B) <= Cardinality(M) /\ (list.page - 1) * Size \in Nat
        <4>1. Cardinality(B) <= Cardinality(M)
          BY <1>3, <3>2, Sizes
        <4>2. list.page - 1 \in Nat
          BY <1>1
        <4>3. QED BY <1>3, <1>7, <3>2, <4>1, <4>2, FS_CardinalityType
      <3>4. CASE r \in B
        <4>1. walk.reached # 0
          <5>1. SUFFICES ASSUME walk.reached = 0 PROVE FALSE
            OBVIOUS
          <5>2. (list.page - 1) * Size = 0
            BY <1>1, <1>7, <2>9, <5>1
          <5>3. Cardinality(B) = 0
            BY <1>4, <3>3, <5>2 DEF Least, M
          <5>4. QED BY <3>2, <3>4, <5>3, FS_EmptySet
        <4>2. Cardinality(SinceFirst(table, w, walk, r)) > walk.reached * Size
          BY <2>1, <2>9, <4>1 DEF Behind
        <4>3. Cardinality(B) <= walk.reached * Size
          <5>1. list.page - 1 = walk.reached
            BY <1>1, <2>9
          <5>2. QED BY <1>4, <3>3, <5>1 DEF Least, M
        <4>4. walk.reached * Size \in Nat
          BY <1>1, <1>7
        <4>5. ~(SinceFirst(table, w, walk, r) \subseteq B)
          <5>1. SUFFICES ASSUME SinceFirst(table, w, walk, r) \subseteq B PROVE FALSE
            OBVIOUS
          <5>2. Cardinality(SinceFirst(table, w, walk, r)) <= Cardinality(B)
            BY <3>2, <5>1, Sizes
          <5>3. QED BY <2>5, <3>3, <4>2, <4>3, <4>4, <5>2
        <4>6. PICK x \in SinceFirst(table, w, walk, r) : x \notin B
          BY <4>5
        <4>7. x \in M \ B /\ x \in walk.ever /\ OrderOf(table, x) >= OrderOf(table, r)
          BY <2>2, <2>3, <4>6 DEF SinceFirst
        <4>8. OrderOf(table, r) >= OrderOf(table, x)
          BY <1>4, <1>6, <1>8, <3>4, <4>7 DEF Ahead, M
        <4>9. OrderOf(table, r) = OrderOf(table, x)
          BY <1>6, <1>8, <4>7, <4>8
        <4>10. x # r
          BY <3>4, <4>6
        <4>11. SameTime(table, walk, r)
          BY <1>1, <4>7, <4>9, <4>10 DEF SameTime, OrderOf
        <4>12. QED BY <2>9, <4>11
      <3>5. CASE r \notin B
        <4>1. IsFiniteSet(B \cup P) /\ Cardinality(B \cup P) = Cardinality(B) + Cardinality(P)
          <5>1. B \cap P = {}
            BY <1>4
          <5>2. Cardinality(B \cap P) = 0
            BY <5>1, FS_EmptySet
          <5>3. QED BY <3>2, <3>3, <5>2, FS_Union
        <4>2. IsFiniteSet((B \cup P) \cup {r}) /\ Cardinality((B \cup P) \cup {r}) = Cardinality(B) + Cardinality(P) + 1
          BY <4>1, <1>8, <3>5, FS_AddElement
        <4>3. (B \cup P) \cup {r} \subseteq M
          BY <1>5, <1>8, <3>2 DEF M
        <4>4. Cardinality(B) + Cardinality(P) + 1 <= Cardinality(M)
          BY <1>3, <4>2, <4>3, Sizes
        <4>5. Cardinality(B) + Cardinality(P) = list.page * Size
          <5>1. Cardinality(P) = Size
            BY <1>4, <1>7, <3>3, <4>4 DEF Least, M
          <5>2. Cardinality(B) = (list.page - 1) * Size
            BY <1>4, <1>7, <3>3, <4>4, <5>1 DEF Least, M
          <5>3. (list.page - 1) * Size + Size = list.page * Size
            BY <1>1, <1>7
          <5>4. QED BY <5>1, <5>2, <5>3
        <4>6. (B \cup P) \cup {r} \subseteq SinceFirst(table, w, k, r)
          <5>1. ASSUME NEW x \in B PROVE OrderOf(table, x) >= OrderOf(table, r)
            BY <1>4, <1>6, <1>8, <3>2, <3>5, <5>1 DEF Ahead, M
          <5>2. ASSUME NEW x \in P PROVE OrderOf(table, x) >= OrderOf(table, r)
            BY <1>4, <1>5, <1>6, <1>8, <3>5, <5>2 DEF Ahead, M
          <5>3. OrderOf(table, r) >= OrderOf(table, r)
            BY <1>6, <1>8
          <5>4. QED BY <2>2, <4>3, <5>1, <5>2, <5>3
        <4>7. Cardinality((B \cup P) \cup {r}) <= Cardinality(SinceFirst(table, w, k, r))
          BY <2>4, <4>6, Sizes
        <4>8. list.page * Size \in Nat
          BY <1>1, <1>7
        <4>9. Cardinality(SinceFirst(table, w, k, r)) > k.reached * Size
          BY <2>5, <3>1, <4>2, <4>5, <4>7, <4>8
        <4>10. QED BY <4>9 DEF Behind
      <3>6. QED BY <3>4, <3>5
    <2>10. list.page <= walk.reached \/ list.page = walk.reached + 1
      BY <1>1
    <2>11. QED BY <2>6, <2>7, <2>8, <2>9, <2>10
  <1>9. ASSUME NEW r \in k.start \ k.seen, Fits(table, r, w)
        PROVE  r \in M /\ r \in walk.start /\ r \notin walk.seen /\ r \notin P
    BY <1>2, <1>9 DEF M
  <1>10. QED BY <1>8, <1>9 DEF Walked

LEMMA ListStep ==
  ASSUME CopyOK, ListInv, PagedList, UNCHANGED <<world, kind>>
  PROVE  ListInv' /\ Served /\ UNCHANGED range
  <1>1. /\ list \in ListRecords /\ walk \in WalkRecords /\ PageOK(list, walk)
        /\ list.table \in {"blocks", "txs"} /\ list.page \in Nat /\ walk.reached \in Nat
        /\ list.count \in Nat /\ list.pages \in Nat /\ list.search \in {Recent} \cup Typed
        /\ now \in Nat /\ now' = now /\ Size \in Nat \ {0}
    BY CopyAssumption, ListsAssumption DEF ListInv, ListRecords, WalkRecords, CopyOK, Times, world
  <1>2. ASSUME list'.table = list.table
        PROVE  StoredRows(list.table)' = StoredRows(list.table)
    BY <1>2 DEF StoredRows, world
  <1>3. ASSUME NEW s \in {Recent} \cup Typed, SearchList(s)
        PROVE  ListInv' /\ Served /\ UNCHANGED range
    <2>1. Ask(list, s, 1) /\ Served /\ UNCHANGED <<walk, range>>
      BY <1>3 DEF SearchList, Served
    <2>2. ListInv'
      BY <2>1, AskTypes
    <2>3. QED BY <2>1, <2>2
  <1>4. ASSUME NEW p \in Nat \ {0}, TurnPage(p)
        PROVE  ListInv' /\ Served /\ UNCHANGED range
    <2>1. /\ Ask(list, list.search, p) /\ Served /\ UNCHANGED <<walk, range>> /\ list.pc = "idle"
          /\ list.page > 0 /\ p <= list.page + 1
      BY <1>1, <1>4 DEF TurnPage, Served
    <2>2. ASSUME p > 1
          PROVE  PageOK(list', walk)
      <3> DEFINE w == WindowOf(list.search, now)
      <3>1. DateWindow(list.search) = w
        BY DEF DateWindow, WindowOf
      <3>2. w \in Window
        BY <1>1, WindowTypes
      <3>3. /\ list'.table = list.table /\ list'.page = p /\ list'.search = list.search /\ list'.window = w
            /\ list'.pc = "rows" /\ list'.count = list.count /\ list'.pages = list.pages
        BY <1>1, <2>1, <2>2, <3>1, <3>2 DEF Ask, ListRecords
      <3>4. p <= walk.reached + 1 /\ list.count = 0
        BY <1>1, <2>1 DEF PageOK
      <3>5. PICK n \in 0..now : list.window = WindowOf(list.search, n)
        BY <1>1, <2>1 DEF ListInv
      <3>6. Walked(list.table, list.window, walk)
        BY <1>1, <2>1 DEF PageOK
      <3>7. CASE list.search = Recent
        <4>1. list.window.to = n /\ w.to = now /\ n \in Nat /\ n <= now
          BY <1>1, <3>5, <3>7 DEF WindowOf
        <4>2. \A r \in walk.start \cup walk.ever : TimeOf(list.table, r) <= n
          BY <1>1, <2>1, <3>7, <4>1 DEF PageOK
        <4>3. walk.start \subseteq RowsOfTable(list.table) /\ walk.ever \subseteq RowsOfTable(list.table)
          BY <1>1, MatchingIs DEF ListInv
        <4>4. \A r \in walk.start \cup walk.ever : TimeOf(list.table, r) \in Nat
          BY <1>1, <4>3, RowTypes
        <4>5. \A r \in walk.start \cup walk.ever : TimeOf(list.table, r) <= now
          BY <1>1, <4>1, <4>2, <4>4
        <4>6. Walked(list.table, w, walk)
          BY <1>1, <3>5, <3>6, <3>7, <4>1, <4>2, <4>3, WindowMoves
        <4>7. QED BY <1>1, <2>1, <2>2, <3>3, <3>4, <4>1, <4>5, <4>6 DEF PageOK
      <3>8. CASE list.search # Recent
        <4>1. w = list.window
          BY <3>5, <3>8 DEF WindowOf
        <4>2. QED BY <1>1, <2>1, <2>2, <3>3, <3>4, <3>6, <3>8, <4>1 DEF PageOK
      <3>9. QED BY <3>7, <3>8
    <2>3. ListInv'
      BY <1>1, <2>1, <2>2, AskTypes
    <2>4. QED BY <2>1, <2>3
  <1>5. CASE CountRows
    <2> DEFINE w == list.window
               n == NumberOfPages(Cardinality(Counted(w)))
    <2>1. /\ list' = [list EXCEPT !.pc = "rows", !.count = n] /\ list.pc = "count"
          /\ walk' = [start |-> Matching(w), seen |-> {}, ever |-> {}, reached |-> 0]
          /\ Served /\ UNCHANGED range
      BY <1>5 DEF CountRows, Served
    <2>2. /\ Matching(w) \subseteq StoredRows(list.table) /\ StoredRows(list.table) \subseteq RowsOfTable(list.table)
          /\ Matching(w) = {r \in StoredRows(list.table) : Fits(list.table, r, w)}
          /\ Matching(w) \subseteq Counted(w)
      BY <1>1, MatchingIs
    <2>3. Counted(w) \subseteq StoredRows(list.table)
      BY DEF Counted, BlocksCounted, TxsMatching, StoredRows
    <2>4. IsFiniteSet(Counted(w))
      BY <1>1, <2>2, <2>3, RowsFinite, FS_Subset
    <2>5. /\ Cardinality(Matching(w)) \in Nat /\ Cardinality(Counted(w)) \in Nat
          /\ Cardinality(Matching(w)) <= Cardinality(Counted(w)) /\ IsFiniteSet(Matching(w))
      BY <2>2, <2>4, Sizes
    <2>6. n \in Nat /\ Cardinality(Counted(w)) <= n * Size
      BY <2>5, PagesAre
    <2>7. Cardinality(Matching(w)) <= n * Size
      BY <1>1, <2>5, <2>6
    <2>8. Matching(w) # {} => n > 0
      <3>1. SUFFICES ASSUME Matching(w) # {}, n = 0 PROVE FALSE
        BY <2>6
      <3>2. n * Size = 0
        BY <1>1, <3>1
      <3>3. Cardinality(Matching(w)) = 0
        BY <2>5, <2>7, <3>2
      <3>4. QED BY <2>5, <3>1, <3>3, FS_EmptySet
    <2>9. /\ list' \in ListRecords /\ list'.table = list.table /\ list'.page = list.page /\ list'.window = w
          /\ list'.search = list.search /\ list'.pc = "rows" /\ list'.count = n /\ list'.pages = list.pages
      BY <1>1, <2>1, <2>6 DEF ListRecords
    <2>10. Matching(w) \subseteq Txs \cup Blocks
      BY <1>1, <2>2, RowsFinite
    <2>11. /\ walk' \in WalkRecords /\ walk'.start = Matching(w) /\ walk'.ever = {} /\ walk'.reached = 0
      BY <2>1, <2>10 DEF WalkRecords
    <2>12. list.page = 1
      BY <1>1, <2>1 DEF PageOK
    <2>13. ASSUME list.search = Recent, NEW r \in Matching(w)
           PROVE  TimeOf(list.table, r) <= w.to
      BY <1>1, <2>2, <2>13 DEF Fits, Within, TimeOf
    <2>14. Walked(list.table, w, walk')
      BY <2>11 DEF Walked, Behind
    <2> HIDE DEF n
    <2>15. PageOK(list', walk')
      BY <2>7, <2>8, <2>9, <2>11, <2>12, <2>13, <2>14 DEF PageOK
    <2>16. list.page # 0 => \E m \in 0..now : list.window = WindowOf(list.search, m)
      BY DEF ListInv
    <2>17. PageOK(list, walk)'
      BY <2>15
    <2>18. ListInv'
      BY <1>1, <1>2, <2>2, <2>9, <2>11, <2>16, <2>17 DEF ListInv
    <2>19. QED BY <2>1, <2>18
  <1>6. CASE ListRows
    <2> DEFINE w == list.window
               M == Matching(w)
    <2>1. PICK P \in PagesOf(M, list.page) :
             /\ list' = [list EXCEPT !.pc = "idle", !.shown = P, !.count = 0,
                                     !.pages = IF list.count > 0 THEN list.count ELSE @]
             /\ walk' = [walk EXCEPT !.seen = @ \cup P, !.ever = @ \cup M,
                                     !.reached = IF list.page > @ THEN list.page ELSE @]
      BY <1>6 DEF ListRows
    <2>2. Served /\ UNCHANGED range /\ list.pc = "rows"
      BY <1>6 DEF ListRows, Served
    <2>3. /\ list.page # 0 /\ list.page <= walk.reached + 1 /\ Walked(list.table, w, walk)
          /\ walk.start # {} => Cardinality(walk.start) <= (IF list.count > 0 THEN list.count ELSE list.pages) * Size
          /\ list.search = Recent => \A r \in walk.start \cup walk.ever : TimeOf(list.table, r) <= w.to
      BY <1>1, <2>2 DEF PageOK
    <2>4. /\ M \subseteq StoredRows(list.table) /\ M \subseteq Txs \cup Blocks
          /\ M = {r \in StoredRows(list.table) : Fits(list.table, r, w)}
      BY <1>1, MatchingIs, RowsFinite
    <2>5. P \subseteq M
      BY DEF PagesOf, PagesAfter
    <2> HIDE DEF M
    <2>6. /\ list' \in ListRecords /\ list'.table = list.table /\ list'.page = list.page /\ list'.window = w
          /\ list'.search = list.search /\ list'.pc = "idle" /\ list'.count = 0 /\ list'.shown = P
          /\ list'.pages = IF list.count > 0 THEN list.count ELSE list.pages
      BY <1>1, <2>1, <2>4, <2>5 DEF ListRecords
    <2>7. /\ walk' \in WalkRecords /\ walk'.start = walk.start /\ walk'.seen = walk.seen \cup P
          /\ walk'.ever = walk.ever \cup M
          /\ walk'.reached = IF list.page > walk.reached THEN list.page ELSE walk.reached
      BY <1>1, <2>1, <2>4, <2>5 DEF WalkRecords
    <2>8. Walked(list.table, w, walk')
      BY <1>1, <2>3, <2>7, PageShown DEF M
    <2>9. ASSUME list.search = Recent, NEW r \in walk'.start \cup walk'.ever
          PROVE  TimeOf(list.table, r) <= w.to
      <3>1. \A x \in M : TimeOf(list.table, x) <= w.to
        BY <1>1, <2>4 DEF Fits, Within, TimeOf
      <3>2. QED BY <2>3, <2>7, <2>9, <3>1
    <2>10. list.page <= walk'.reached
      BY <1>1, <2>7
    <2>11. PageOK(list', walk')
      BY <1>1, <2>3, <2>6, <2>7, <2>8, <2>9, <2>10 DEF PageOK
    <2>12. \E m \in 0..now : list.window = WindowOf(list.search, m)
      BY <2>3 DEF ListInv
    <2>13. PageOK(list, walk)'
      BY <2>11
    <2>14. walk'.start \subseteq StoredRows(list.table) /\ walk'.ever \subseteq StoredRows(list.table)
      BY <2>4, <2>7 DEF ListInv
    <2>15. ListInv'
      BY <1>1, <1>2, <2>6, <2>7, <2>12, <2>13, <2>14 DEF ListInv
    <2>16. QED BY <2>2, <2>15
  <1>7. CASE ListFails
    <2>1. list' = [list EXCEPT !.pc = "lost"] /\ walk' = walk /\ Served /\ UNCHANGED range
          /\ list.pc \in {"count", "rows"}
      BY <1>7 DEF ListFails, Served
    <2>2. /\ list' \in ListRecords /\ list'.table = list.table /\ list'.page = list.page
          /\ list'.window = list.window /\ list'.search = list.search /\ list'.pc = "lost"
      BY <1>1, <2>1 DEF ListRecords
    <2>3. PageOK(list', walk)
      BY <1>1, <2>1, <2>2 DEF PageOK
    <2>4. PageOK(list, walk)'
      BY <2>1, <2>3
    <2>5. ListInv'
      BY <1>1, <1>2, <2>1, <2>2, <2>4 DEF ListInv
    <2>6. QED BY <2>1, <2>5
  <1>8. \A p \in 1..(Cardinality(Txs) + Cardinality(Elsewhere)) : p \in Int /\ p >= 1
    OBVIOUS
  <1>9. QED BY <1>3, <1>4, <1>5, <1>6, <1>7, <1>8 DEF PagedList

LEMMA ListTrue ==
  ASSUME CopyOK, ListInv
  PROVE  /\ NothingSkipped
         /\ list.pc \in {"idle", "count", "rows", "lost"} /\ {list.page, list.pages} \subseteq Nat
         /\ list.pc = "idle" => list.shown \subseteq walk.seen
  <1> DEFINE table == list.table
             w == list.window
             M == Matching(w)
  <1>1. /\ list \in ListRecords /\ walk \in WalkRecords /\ PageOK(list, walk)
        /\ table \in {"blocks", "txs"} /\ list.page \in Nat /\ list.pages \in Nat /\ walk.reached \in Nat
        /\ Size \in Nat \ {0} /\ walk.reached * Size \in Nat
    BY ListsAssumption DEF ListInv, ListRecords, WalkRecords
  <1>2. /\ StoredRows(table) \subseteq RowsOfTable(table)
        /\ M = {r \in StoredRows(table) : Fits(table, r, w)}
        /\ walk.start \subseteq StoredRows(table) /\ walk.ever \subseteq StoredRows(table)
    BY <1>1, MatchingIs DEF ListInv
  <1>3. \A x : Order(x) = OrderOf(table, x)
    BY DEF Order, OrderOf
  <1>4. IsFiniteSet(M) /\ IsFiniteSet(walk.start)
    BY <1>1, <1>2, RowsFinite, FS_Subset
  <1> HIDE DEF M
  <1>5. ASSUME list.pc = "idle", NEW r \in (walk.start \cap M) \ walk.seen,
               ~Tied(r), ~LeftBefore(r, M)
        PROVE  /\ Rank(r, M) > walk.reached * Size
               /\ list.page = list.pages => \E x \in M \ walk.start : Order(x) >= Order(r)
    <2> DEFINE since == SinceFirst(table, w, walk, r)
               before == {x \in M : Order(x) >= Order(r)}
    <2>1. Behind(table, w, walk, r)
      BY <1>1, <1>2, <1>5 DEF PageOK, Walked
    <2>2. ~SameTime(table, walk, r)
      BY <1>5 DEF SameTime, Tied, Order
    <2>3. ~OneLeft(table, w, walk, r)
      BY <1>2, <1>3, <1>5 DEF OneLeft, LeftBefore
    <2>4. walk.reached # 0 /\ list.page <= walk.reached /\ list.count = 0
      <3>1. list.page <= walk.reached /\ list.count = 0 /\ list.page # 0
        BY <1>1, <1>5 DEF PageOK
      <3>2. QED BY <1>1, <3>1
    <2>5. Cardinality(since) > walk.reached * Size
      BY <2>1, <2>2, <2>3, <2>4 DEF Behind
    <2>6. since \subseteq before
      BY <1>2, <1>3 DEF SinceFirst
    <2>7. IsFiniteSet(before)
      BY <1>4, FS_Subset
    <2>8. Cardinality(since) <= Cardinality(before) /\ Cardinality(since) \in Nat /\ Cardinality(before) \in Nat
      BY <2>6, <2>7, Sizes
    <2>9. Rank(r, M) = Cardinality(before)
      BY DEF Rank
    <2> HIDE DEF since, before
    <2>10. Rank(r, M) > walk.reached * Size
      BY <1>1, <2>5, <2>8, <2>9
    <2>11. ASSUME list.page = list.pages, \A x \in M \ walk.start : ~(Order(x) >= Order(r))
           PROVE  FALSE
      <3>1. before \subseteq walk.start
        BY <2>11 DEF before
      <3>2. Cardinality(before) <= Cardinality(walk.start) /\ Cardinality(walk.start) \in Nat
        BY <1>4, <3>1, Sizes
      <3>3. Cardinality(walk.start) <= list.pages * Size
        BY <1>1, <1>5, <2>4 DEF PageOK
      <3>4. list.pages * Size <= walk.reached * Size
        <4>1. PICK d \in Nat : walk.reached = list.pages + d
          <5>1. walk.reached - list.pages \in Nat /\ walk.reached = list.pages + (walk.reached - list.pages)
            BY <1>1, <2>4, <2>11
          <5>2. QED BY <5>1
        <4>2. walk.reached * Size = list.pages * Size + d * Size
          BY <1>1, <4>1
        <4>3. d * Size \in Nat /\ list.pages * Size \in Nat
          BY <1>1, <4>1
        <4>4. QED BY <4>2, <4>3
      <3>5. list.pages * Size \in Nat
        BY <1>1
      <3>6. QED BY <1>1, <2>5, <2>8, <3>2, <3>3, <3>4, <3>5
    <2>12. QED BY <2>10, <2>11
  <1>6. NothingSkipped
    BY <1>5 DEF NothingSkipped, Unseen, M
  <1>7. list.pc \in {"idle", "count", "rows", "lost"}
    BY <1>1 DEF ListRecords
  <1>8. list.pc = "idle" => list.shown \subseteq walk.seen
    BY <1>1 DEF PageOK
  <1>9. QED BY <1>1, <1>6, <1>7, <1>8

-----------------------------------------------------------------------------
(* The users. *)

PostRecords ==
  [pc : {"idle", "networks", "find", "role", "look", "write", "list", "listed", "sent", "never"},
   op : {"none", "networks", "login", "landing", "register", "unregister"},
   by : Names \cup {Dummy}, name : Names \cup {Dummy}, ok : BOOLEAN, info : {"none", "success", "error"},
   seen : Bags \cup {NoList}, of : {"here", "closed", "gone"}, selected : Names \cup {Dummy}]
TabRecords ==
  [page : {"login", "landing", "main", "blank"}, auth : BOOLEAN, user : Names \cup {Dummy},
   networks : BOOLEAN, list : Bags \cup {NoList}, error : BOOLEAN, panel : BOOLEAN, prompt : BOOLEAN,
   selected : Names \cup {Dummy}, result : {"none", "success", "error"}, saved : Names \cup {Dummy},
   sent : 0..MaxPosts, inserted : SUBSET Names, cut : BOOLEAN, disturbed : BOOLEAN, failed : BOOLEAN]

(* Where a request may be, and what the page t remembers of it.                 *)
PostOK(post, t) ==
  /\ post.pc \in {"role", "look", "write"} => post.op \in {"register", "unregister"} /\ post.name \in Names
  /\ post.pc = "networks" => post.op = "networks"
  /\ post.pc = "find" => post.op = "login"
  /\ post.pc \in {"list", "listed"} => post.op \in {"landing", "register"}
  /\ post.pc = "listed" /\ post.ok => post.seen \in Bags
  /\ post.op = "register" /\ post.pc = "sent" /\ post.ok => post.name \in t.inserted
  /\ post.info = "success" => post.name \in t.inserted
  /\ post.pc = "listed" /\ ~t.failed => post.ok
  /\ post.pc = "idle" <=> post.op = "none"
  /\ post.op = "unregister" => t.list \in Bags

(* The page t: it has its list before it shows the panel, and goes blank only   *)
(* after a failure.                                                             *)
TabOK(t) ==
  /\ t.result = "success" => t.saved \in t.inserted
  /\ t.panel => t.page \in {"main", "blank"}
  /\ t.panel /\ t.page = "main" => t.list \in Bags
  /\ t.prompt => t.selected \in Names
  /\ ~t.failed => ~t.error /\ t.page # "blank" /\ (t.page = "main" => t.list \in Bags)

(* While the requests p of a page t were answered one at a time, and nobody     *)
(* else changed the table r: the list of the page is the table, but for what    *)
(* the request under way has done to it.                                        *)
Agree(t, r) == t.list \in Bags /\ Total(t.list) = Total(r) /\ (~t.cut => t.list = r)
Works(post) == post.pc # "idle" /\ post.op # "networks"
WorkOK(post, t, r) ==
  /\ t.page = "login" => post.op = "login"
  /\ t.page = "landing" => post.op = "landing"
  /\ t.page = "main" => post.op \in {"register", "unregister"}
  /\ post.op = "login" => post.pc \in {"find", "sent"}
  /\ post.op = "landing" => post.pc \in {"list", "listed"}
  /\ post.pc = "listed" => post.ok /\ post.seen = r
  /\ post.op \in {"register", "unregister"} /\ post.pc \in {"role", "look"} => Agree(t, r)
  /\ post.op = "register" /\ post.pc = "write" => Agree(t, r) /\ r[post.name] = 0
  /\ post.op = "unregister" =>
       /\ post.of # "gone" /\ post.pc \in {"role", "look", "write", "sent"}
       /\ post.pc = "write" => Agree(t, r) /\ r[post.name] = 1
       /\ post.pc = "sent" /\ post.ok => Total(t.list) = Total(r) + 1
       /\ post.pc = "sent" /\ ~post.ok => Agree(t, r)
Calm(p, t, r) ==
  /\ ~t.failed
  /\ \A n \in Names : r[n] <= 1
  /\ \A c, d \in Posts : Works(p[c]) /\ Works(p[d]) => c = d
  /\ \A c, d \in Posts : p[c].op = "networks" /\ p[d].op = "networks" => c = d
  /\ t.networks => \A c \in Posts : p[c].op # "networks"
  /\ t.page = "login" /\ ~t.networks => \A c \in Posts : ~Works(p[c])
  /\ t.page = "main" => (\E c \in Posts : Works(p[c])) \/ Agree(t, r)
  /\ \A c \in Posts : Works(p[c]) => WorkOK(p[c], t, r)

UsersInv ==
  /\ rows \in Bags /\ posts \in [Posts -> PostRecords] /\ tab \in TabRecords
  /\ \A c \in Posts : PostOK(posts[c], tab)
  /\ TabOK(tab)
  /\ tab.disturbed \/ Calm(posts, tab, rows)

(* One row more, and one less. *)
LEMMA TotalOfOneMore ==
  ASSUME NEW bag \in Bags, NEW n \in Names
  PROVE  /\ Total(bag) \in Nat
         /\ [bag EXCEPT ![n] = @ + 1] \in Bags
         /\ Total([bag EXCEPT ![n] = @ + 1]) = Total(bag) + 1
  <1> DEFINE more == [bag EXCEPT ![n] = @ + 1]
             U == UNION {{x} \X (1..bag[x]) : x \in Names}
             V == UNION {{x} \X (1..more[x]) : x \in Names}
             new == <<n, bag[n] + 1>>
  <1>1. bag \in [Names -> Nat] /\ more \in [Names -> Nat] /\ IsFiniteSet(Names)
    BY UsersAssumption DEF Bags
  <1>2. IsFiniteSet(U)
    BY <1>1, UnitsFinite
  <1>3. Total(bag) = Cardinality(U) /\ Total(more) = Cardinality(V)
    BY <1>1 DEF Total
  <1>4. new \notin U
    BY <1>1
  <1>5. V = U \cup {new}
    <2>1. ASSUME NEW x \in Names, x # n PROVE more[x] = bag[x]
      BY <1>1, <2>1
    <2>2. more[n] = bag[n] + 1 /\ 1..more[n] = (1..bag[n]) \cup {bag[n] + 1}
      BY <1>1
    <2>3. {n} \X (1..more[n]) = ({n} \X (1..bag[n])) \cup {new}
      BY <2>2
    <2> HIDE DEF more, new
    <2>4. V \subseteq U \cup {new}
      <3>1. ASSUME NEW x \in Names, NEW p \in {x} \X (1..more[x]) PROVE p \in U \cup {new}
        <4>1. CASE x = n
          BY <2>3, <3>1, <4>1
        <4>2. CASE x # n
          BY <2>1, <3>1, <4>2
        <4>3. QED BY <4>1, <4>2
      <3>2. QED BY <3>1
    <2>5. U \cup {new} \subseteq V
      <3>1. new \in V
        BY <2>3
      <3>2. ASSUME NEW x \in Names, NEW p \in {x} \X (1..bag[x]) PROVE p \in V
        <4>1. CASE x = n
          BY <2>3, <3>2, <4>1
        <4>2. CASE x # n
          BY <2>1, <3>2, <4>2
        <4>3. QED BY <4>1, <4>2
      <3>3. QED BY <3>1, <3>2
    <2>6. QED BY <2>4, <2>5
  <1> HIDE DEF U, V, new
  <1>6. Cardinality(U \cup {new}) = Cardinality(U) + 1 /\ Cardinality(U) \in Nat
    BY <1>2, <1>4, FS_AddElement, FS_CardinalityType
  <1>7. QED BY <1>1, <1>3, <1>5, <1>6 DEF Bags

LEMMA TotalOfOneLess ==
  ASSUME NEW bag \in Bags, NEW n \in Names, bag[n] > 0
  PROVE  [bag EXCEPT ![n] = @ - 1] \in Bags /\ Total(bag) = Total([bag EXCEPT ![n] = @ - 1]) + 1
  <1> DEFINE less == [bag EXCEPT ![n] = @ - 1]
  <1>1. less \in Bags
    BY DEF Bags
  <1>2. [less EXCEPT ![n] = @ + 1] = bag
    <2>1. bag \in [Names -> Nat] /\ less \in [Names -> Nat] /\ bag[n] \in Nat /\ less[n] = bag[n] - 1
      BY <1>1 DEF Bags
    <2>2. less[n] + 1 = bag[n]
      BY <2>1
    <2>3. \A m \in Names : m # n => less[m] = bag[m]
      BY <2>1
    <2> HIDE DEF less
    <2>4. \A m \in Names : [less EXCEPT ![n] = @ + 1][m] = bag[m]
      BY <2>1, <2>2, <2>3
    <2>5. QED BY <2>1, <2>4
  <1> HIDE DEF less
  <1>3. Total(bag) = Total(less) + 1
    BY <1>1, <1>2, TotalOfOneMore
  <1>4. QED BY <1>1, <1>3 DEF less

(* A user is taken off the list. *)
LEMMA SplicedIs ==
  ASSUME NEW bag \in Bags, NEW name, NEW cut \in Spliced(bag, name)
  PROVE  cut \in Bags /\ (Total(bag) # 0 => Total(bag) = Total(cut) + 1)
  <1>1. CASE name \in Names /\ bag[name] > 0
    BY <1>1, TotalOfOneLess DEF Spliced
  <1>2. CASE ~(name \in Names /\ bag[name] > 0) /\ Total(bag) = 0
    BY <1>2 DEF Spliced
  <1>3. CASE ~(name \in Names /\ bag[name] > 0) /\ Total(bag) # 0
    <2>1. PICK n \in Names : bag[n] > 0 /\ cut = [bag EXCEPT ![n] = @ - 1]
      BY <1>3 DEF Spliced
    <2>2. QED BY <2>1, TotalOfOneLess
  <1>4. QED BY <1>1, <1>2, <1>3

LEMMA UsersTypes ==
  UsersInv => /\ NoPost \in PostRecords /\ ~Works(NoPost) /\ NoPost.op = "none" /\ NoPost.pc = "idle"
              /\ \A c \in Posts : posts[c] \in PostRecords /\ PostOK(posts[c], tab)
              /\ \A t : PostOK(NoPost, t)
  BY DEF UsersInv, NoPost, PostRecords, Works, PostOK

(* A step that moves one request. *)
LEMMA OnePost ==
  ASSUME UsersInv, NEW c \in Posts, NEW p \in PostRecords, NEW t \in TabRecords, NEW r \in Bags,
         posts' = [posts EXCEPT ![c] = p], tab' = t, rows' = r,
         PostOK(p, t), TabOK(t),
         tab.inserted \subseteq t.inserted, tab.failed => t.failed, tab.list \in Bags => t.list \in Bags,
         t.disturbed \/ Calm(posts', t, r)
  PROVE  UsersInv'
  <1>1. \A d \in Posts : posts[d] \in PostRecords /\ PostOK(posts[d], tab)
    BY UsersTypes
  <1>2. ASSUME NEW d \in Posts, d # c PROVE PostOK(posts[d], t)
    BY <1>1 DEF PostOK
  <1>3. posts' \in [Posts -> PostRecords] /\ \A d \in Posts : posts'[d] = IF d = c THEN p ELSE posts[d]
    BY DEF UsersInv
  <1>4. \A d \in Posts : PostOK(posts'[d], t)
    BY <1>2, <1>3
  <1>5. QED BY <1>3, <1>4 DEF UsersInv

(* The one request at work goes on, or ends; or one begins. *)
LEMMA CalmGoesOn ==
  ASSUME UsersInv, Calm(posts, tab, rows), NEW c \in Posts, Works(posts[c]),
         NEW p \in PostRecords, p.op # "networks", NEW t \in TabRecords, NEW r \in Bags,
         t.networks = tab.networks, ~t.failed, t.page = "login" => tab.page = "login",
         \A n \in Names : r[n] <= 1,
         IF Works(p) THEN WorkOK(p, t, r) ELSE t.page = "main" => Agree(t, r)
  PROVE  Calm([posts EXCEPT ![c] = p], t, r)
  <1> DEFINE q == [posts EXCEPT ![c] = p]
  <1>1. \A d \in Posts : q[d] = IF d = c THEN p ELSE posts[d]
    BY DEF UsersInv
  <1>2. \A d \in Posts : Works(posts[d]) => d = c
    BY DEF Calm
  <1>3. \A d \in Posts : Works(q[d]) <=> (d = c /\ Works(p))
    BY <1>1, <1>2
  <1>4. \A d \in Posts : q[d].op = "networks" => posts[d].op = "networks"
    BY <1>1
  <1>5. ~(tab.page = "login" /\ ~tab.networks)
    BY DEF Calm
  <1> HIDE DEF q
  <1>6. \A d \in Posts : Works(q[d]) => WorkOK(q[d], t, r)
    BY <1>1, <1>3
  <1>7. t.page = "main" => (\E d \in Posts : Works(q[d])) \/ Agree(t, r)
    BY <1>3
  <1>8. Calm(q, t, r)
    BY <1>3, <1>4, <1>5, <1>6, <1>7 DEF Calm
  <1>9. QED BY <1>8 DEF q

LEMMA CalmBegins ==
  ASSUME UsersInv, Calm(posts, tab, rows), \A d \in Posts : ~Works(posts[d]), NEW c \in Posts,
         NEW p \in PostRecords, p.op # "networks", Works(p), NEW t \in TabRecords,
         tab.networks => t.networks, t.networks => \A d \in Posts \ {c} : posts[d].op # "networks",
         ~t.failed, t.page = "login" => t.networks, WorkOK(p, t, rows)
  PROVE  Calm([posts EXCEPT ![c] = p], t, rows)
  <1> DEFINE q == [posts EXCEPT ![c] = p]
  <1>1. \A d \in Posts : q[d] = IF d = c THEN p ELSE posts[d]
    BY DEF UsersInv
  <1>2. \A d \in Posts : Works(q[d]) <=> d = c
    BY <1>1
  <1>3. \A d \in Posts : q[d].op = "networks" => posts[d].op = "networks" /\ d # c
    BY <1>1
  <1> HIDE DEF q
  <1>4. \A d \in Posts : Works(q[d]) => WorkOK(q[d], t, rows)
    BY <1>1, <1>2
  <1>5. Calm(q, t, rows)
    BY <1>2, <1>3, <1>4 DEF Calm
  <1>6. QED BY <1>5 DEF q

LEMMA UsersInitially == CopyOK /\ UsersInit => UsersInv
  <1> SUFFICES ASSUME CopyOK, UsersInit PROVE UsersInv
    OBVIOUS
  <1> DEFINE networks == [NoPost EXCEPT !.pc = "networks", !.op = "networks"]
             landing == [NoPost EXCEPT !.pc = "list", !.op = "landing"]
  <1>1. PICK present \in SUBSET Names : rows = [n \in Names |-> IF n \in present THEN 1 ELSE 0]
    BY DEF UsersInit
  <1>2. PICK auth \in BOOLEAN, token \in BOOLEAN, c \in Posts, d \in Posts, user \in Names \cup {Dummy} :
          /\ c # d
          /\ tab = Page(IF token THEN "landing" ELSE "login", auth, user)
          /\ posts = [e \in Posts |-> IF e = c THEN networks
                                      ELSE IF e = d /\ token THEN landing ELSE NoPost]
    BY DEF UsersInit
  <1>3. MaxPosts \in Nat
    BY UsersAssumption
  <1>4. rows \in Bags /\ \A n \in Names : rows[n] <= 1
    BY <1>1 DEF Bags
  <1>5. tab \in TabRecords
    BY <1>2, <1>3 DEF TabRecords, Page
  <1>6. networks \in PostRecords /\ landing \in PostRecords /\ NoPost \in PostRecords
    BY DEF PostRecords, NoPost
  <1>7. /\ PostOK(networks, tab) /\ PostOK(landing, tab) /\ PostOK(NoPost, tab)
        /\ ~Works(networks) /\ Works(landing) /\ ~Works(NoPost)
        /\ landing.op = "landing" /\ networks.op = "networks" /\ NoPost.op = "none"
    BY DEF PostOK, Works, NoPost
  <1>8. TabOK(tab)
    BY <1>2 DEF TabOK, Page
  <1>9. tab.page = "landing" => WorkOK(landing, tab, rows)
    BY <1>2 DEF WorkOK, NoPost
  <1>10. /\ tab.page = (IF token THEN "landing" ELSE "login") /\ ~tab.failed /\ ~tab.networks
    BY <1>2 DEF Page
  <1> HIDE DEF networks, landing
  <1>11. \A e \in Posts : Works(posts[e]) <=> (e = d /\ token)
    BY <1>2, <1>7
  <1>12. \A e \in Posts : posts[e].op = "networks" <=> e = c
    BY <1>2, <1>7
  <1>13. Calm(posts, tab, rows)
    BY <1>2, <1>4, <1>7, <1>9, <1>10, <1>11, <1>12 DEF Calm
  <1>14. posts \in [Posts -> PostRecords] /\ \A e \in Posts : PostOK(posts[e], tab)
    BY <1>2, <1>6, <1>7
  <1>15. QED BY <1>4, <1>5, <1>8, <1>13, <1>14 DEF UsersInv

LEMMA UsersOfGrowingCopy ==
  ASSUME UsersInv, UNCHANGED users
  PROVE  UsersInv'
  BY DEF users, UsersInv

LEMMA UsersParts ==
  ASSUME CopyOK, UsersInv
  PROVE  /\ rows \in Bags /\ posts \in [Posts -> PostRecords] /\ tab \in TabRecords /\ TabOK(tab)
         /\ MaxPosts \in Nat /\ events \in Nat /\ NoList \notin Bags /\ Dummy \notin Names /\ Root \in Names
         /\ AllIdle => \A d \in Posts : ~Works(posts[d]) /\ posts[d].op = "none"
         /\ Calm(posts, tab, rows) => ~tab.failed /\ ~tab.error /\ tab.page # "blank"
         /\ ~tab.disturbed => Calm(posts, tab, rows)
  <1>1. MaxEvents[kind] \in Nat /\ events \in 0..MaxEvents[kind]
    BY CopyAssumption DEF CopyOK
  <1>2. \A d \in Posts : Idle(d) => ~Works(posts[d]) /\ posts[d].op = "none"
    BY UsersTypes DEF Idle, Works, PostOK
  <1>3. QED
    BY <1>1, <1>2, UsersAssumption DEF UsersInv, AllIdle, Bags, Calm, TabOK

(* A step of the page alone. *)
LEMMA OnlyTab ==
  ASSUME UsersInv, NEW t \in TabRecords, tab' = t, UNCHANGED <<rows, posts>>, TabOK(t),
         t.list = tab.list, t.cut = tab.cut, t.inserted = tab.inserted, t.failed = tab.failed,
         t.networks = tab.networks, t.disturbed = tab.disturbed,
         t.page = tab.page \/ tab.failed
  PROVE  UsersInv'
  <1>1. \A c \in Posts : PostOK(posts[c], t)
    BY UsersTypes DEF PostOK
  <1>2. t.disturbed \/ Calm(posts, t, rows)
    <2>1. SUFFICES ASSUME ~t.disturbed PROVE Calm(posts, t, rows)
      OBVIOUS
    <2>2. Calm(posts, tab, rows) /\ t.page = tab.page
      BY <2>1 DEF UsersInv, Calm
    <2>3. Agree(tab, rows) <=> Agree(t, rows)
      BY DEF Agree
    <2>4. \A c \in Posts : WorkOK(posts[c], tab, rows) => WorkOK(posts[c], t, rows)
      BY <2>2, <2>3 DEF WorkOK
    <2>5. QED BY <2>2, <2>3, <2>4 DEF Calm
  <1>3. QED BY <1>1, <1>2 DEF UsersInv

(* What the user, and the other administrators, do. *)
LEMMA UserActs ==
  ASSUME CopyOK, UsersInv,
         \/ \E c \in Posts :
              \/ \E name \in Names \cup {Dummy} : SignIn(c, name)
              \/ \E name \in Names : SubmitForm(c, name)
              \/ HandleDelete(c)
         \/ \E name \in Names : DeletePrompt(name) \/ OthersChange(name)
         \/ OpenPanel \/ ClosePanel \/ Cancel
  PROVE  UsersInv' /\ Served
  <1>1. /\ rows \in Bags /\ posts \in [Posts -> PostRecords] /\ tab \in TabRecords /\ TabOK(tab)
        /\ MaxPosts \in Nat /\ events \in Nat /\ NoList \notin Bags /\ Dummy \notin Names /\ Root \in Names
        /\ AllIdle => \A d \in Posts : ~Works(posts[d]) /\ posts[d].op = "none"
        /\ Calm(posts, tab, rows) => ~tab.failed /\ ~tab.error /\ tab.page # "blank"
        /\ ~tab.disturbed => Calm(posts, tab, rows)
    BY UsersParts
  <1> DEFINE t == Sending(tab)
  <1>2. ASSUME Asks
        PROVE  /\ t \in TabRecords /\ t.page = tab.page /\ t.list = tab.list /\ t.cut = tab.cut
               /\ t.networks = tab.networks /\ t.failed = tab.failed /\ t.inserted = tab.inserted
               /\ t.error = tab.error /\ t.panel = tab.panel /\ t.prompt = tab.prompt
               /\ t.selected = tab.selected /\ t.result = tab.result /\ t.saved = tab.saved
               /\ ~t.disturbed => ~tab.disturbed /\ AllIdle
    <2>1. tab.sent + 1 \in 0..MaxPosts
      BY <1>1, <1>2 DEF Asks, TabRecords
    <2>2. QED BY <1>1, <2>1, ZenonT(40) DEF Sending, TabRecords
  <1> HIDE DEF t
  <1>3. ASSUME NEW c \in Posts, NEW p \in PostRecords, NEW u \in TabRecords,
               posts' = [posts EXCEPT ![c] = p], tab' = u, rows' = rows, PostOK(p, u), TabOK(u),
               p.op # "networks", Works(p), ~u.disturbed => ~tab.disturbed /\ AllIdle,
               u.page = tab.page, u.list = tab.list, u.cut = tab.cut, u.networks = tab.networks,
               u.failed = tab.failed, u.inserted = tab.inserted,
               u.page = "login" => u.networks,
               ~u.disturbed => WorkOK(p, u, rows)
        PROVE  UsersInv'
    <2>1. u.disturbed \/ Calm(posts', u, rows)
      <3>1. SUFFICES ASSUME ~u.disturbed PROVE Calm(posts', u, rows)
        OBVIOUS
      <3>2. Calm(posts, tab, rows) /\ \A d \in Posts : ~Works(posts[d]) /\ posts[d].op # "networks"
        BY <1>1, <1>3, <3>1
      <3>3. ~u.failed /\ WorkOK(p, u, rows)
        BY <1>1, <1>3, <3>1, <3>2
      <3>4. QED BY <1>3, <3>2, <3>3, CalmBegins
    <2>2. QED BY <1>1, <1>3, <2>1, OnePost
  <1>4. ASSUME ~tab.disturbed, AllIdle, tab.page = "main"
        PROVE  Agree(tab, rows)
    BY <1>1, <1>4 DEF Calm
  <1>5. ASSUME NEW c \in Posts, NEW name \in Names \cup {Dummy}, SignIn(c, name)
        PROVE  UsersInv' /\ Served
    <2> DEFINE p == [NoPost EXCEPT !.pc = "find", !.op = "login", !.name = name]
    <2>1. /\ posts' = [posts EXCEPT ![c] = p] /\ tab' = t /\ rows' = rows /\ Asks /\ Served
          /\ tab.page = "login" /\ tab.networks
      BY <1>5 DEF SignIn, Served, t
    <2>2. p \in PostRecords /\ PostOK(p, t) /\ Works(p) /\ p.op = "login" /\ p.pc = "find"
      BY DEF NoPost, PostRecords, PostOK, Works
    <2> HIDE DEF p
    <2>3. TabOK(t)
      BY <1>1, <1>2, <2>1 DEF TabOK
    <2>4. WorkOK(p, t, rows)
      BY <1>2, <2>1, <2>2 DEF WorkOK
    <2>5. QED BY <1>2, <1>3, <2>1, <2>2, <2>3, <2>4
  <1>6. ASSUME NEW c \in Posts, NEW name \in Names, SubmitForm(c, name)
        PROVE  UsersInv' /\ Served
    <2> DEFINE p == [NoPost EXCEPT !.pc = "role", !.op = "register", !.by = tab.user, !.name = name]
    <2>1. /\ posts' = [posts EXCEPT ![c] = p] /\ tab' = t /\ rows' = rows /\ Asks /\ Served
          /\ tab.panel /\ tab.page # "blank"
      BY <1>6 DEF SubmitForm, Served, Alive, t
    <2>2. tab.page = "main"
      BY <1>1, <2>1 DEF TabOK
    <2>3. tab.user \in Names \cup {Dummy}
      BY <1>1 DEF TabRecords
    <2>4. p \in PostRecords /\ PostOK(p, t) /\ Works(p) /\ p.op = "register" /\ p.pc = "role"
      BY <2>3 DEF NoPost, PostRecords, PostOK, Works
    <2> HIDE DEF p
    <2>5. TabOK(t)
      BY <1>1, <1>2, <2>1 DEF TabOK
    <2>6. ~t.disturbed => WorkOK(p, t, rows)
      BY <1>2, <1>4, <2>1, <2>2, <2>4 DEF WorkOK, Agree
    <2>7. QED BY <1>2, <1>3, <2>1, <2>2, <2>4, <2>5, <2>6
  <1>7. ASSUME NEW c \in Posts, HandleDelete(c)
        PROVE  UsersInv' /\ Served
    <2> DEFINE p == [NoPost EXCEPT !.pc = "role", !.op = "unregister", !.by = tab.user, !.name = tab.selected]
               u == [t EXCEPT !.prompt = FALSE, !.selected = Dummy]
    <2>1. /\ posts' = [posts EXCEPT ![c] = p] /\ tab' = u /\ rows' = rows /\ Asks /\ Served
          /\ tab.panel /\ tab.page # "blank" /\ tab.prompt
      BY <1>7 DEF HandleDelete, Served, Alive, t
    <2>2. tab.page = "main" /\ tab.selected \in Names /\ tab.list \in Bags
      BY <1>1, <2>1 DEF TabOK
    <2>3. tab.user \in Names \cup {Dummy}
      BY <1>1 DEF TabRecords
    <2>4. /\ u \in TabRecords /\ u.page = tab.page /\ u.list = tab.list /\ u.cut = tab.cut
          /\ u.networks = tab.networks /\ u.failed = tab.failed /\ u.inserted = tab.inserted
          /\ u.error = tab.error /\ u.panel = tab.panel /\ ~u.prompt
          /\ u.result = tab.result /\ u.saved = tab.saved /\ (~u.disturbed => ~tab.disturbed /\ AllIdle)
      BY <1>2, <2>1, ZenonT(40) DEF TabRecords
    <2> HIDE DEF u
    <2>5. /\ p \in PostRecords /\ PostOK(p, u) /\ Works(p) /\ p.op = "unregister" /\ p.pc = "role"
          /\ p.of = "here"
      BY <2>2, <2>3, <2>4 DEF NoPost, PostRecords, PostOK, Works
    <2> HIDE DEF p
    <2>6. TabOK(u)
      BY <1>1, <2>1, <2>4 DEF TabOK
    <2>7. ~u.disturbed => WorkOK(p, u, rows)
      BY <1>4, <2>2, <2>4, <2>5 DEF WorkOK, Agree
    <2>8. QED BY <1>3, <2>1, <2>2, <2>4, <2>5, <2>6, <2>7
  <1>8. ASSUME NEW name \in Names, DeletePrompt(name)
        PROVE  UsersInv' /\ Served
    <2> DEFINE u == [tab EXCEPT !.prompt = TRUE, !.selected = name]
    <2>1. tab' = u /\ Served /\ UNCHANGED <<rows, posts>>
      BY <1>8 DEF DeletePrompt, Served
    <2>2. u \in TabRecords
      BY <1>1 DEF TabRecords
    <2>3. TabOK(u)
      BY <1>1 DEF TabOK, TabRecords
    <2>4. UsersInv'
      BY <1>1, <2>1, <2>2, <2>3, OnlyTab, ZenonT(40) DEF TabRecords
    <2>5. QED BY <2>1, <2>4
  <1>9. ASSUME NEW name \in Names, OthersChange(name)
        PROVE  UsersInv' /\ Served
    <2> DEFINE u == [tab EXCEPT !.disturbed = TRUE]
               r == [rows EXCEPT ![name] = IF @ > 0 THEN 0 ELSE 1]
    <2>1. tab' = u /\ rows' = r /\ posts' = posts /\ Served
      BY <1>9 DEF OthersChange, Served
    <2>2. /\ u \in TabRecords /\ u.page = tab.page /\ u.list = tab.list /\ u.cut = tab.cut
          /\ u.networks = tab.networks /\ u.failed = tab.failed /\ u.inserted = tab.inserted /\ u.error = tab.error
          /\ u.panel = tab.panel /\ u.prompt = tab.prompt /\ u.selected = tab.selected /\ u.result = tab.result
          /\ u.saved = tab.saved /\ u.disturbed
      BY <1>1 DEF TabRecords
    <2>3. r \in Bags
      BY <1>1 DEF Bags
    <2> HIDE DEF u, r
    <2>4. \A c \in Posts : PostOK(posts[c], u)
      BY <2>2, UsersTypes DEF PostOK
    <2>5. TabOK(u)
      BY <1>1, <2>2 DEF TabOK
    <2>6. QED BY <1>1, <2>1, <2>2, <2>3, <2>4, <2>5 DEF UsersInv
  <1>10. CASE OpenPanel
    <2> DEFINE v == [tab EXCEPT !.panel = TRUE, !.prompt = FALSE, !.selected = Dummy,
                                !.result = "none", !.saved = Dummy]
               u == Rendered(v)
    <2>1. tab' = u /\ Served /\ UNCHANGED <<rows, posts>> /\ tab.page = "main"
      BY <1>10 DEF OpenPanel, Served
    <2>2. /\ v \in TabRecords /\ v.page = "main" /\ v.list = tab.list /\ v.cut = tab.cut
          /\ v.networks = tab.networks /\ v.failed = tab.failed /\ v.inserted = tab.inserted
          /\ v.error = tab.error /\ v.panel /\ ~v.prompt /\ v.result = "none" /\ v.disturbed = tab.disturbed
      BY <1>1, <2>1 DEF TabRecords
    <2> HIDE DEF v
    <2>3. /\ u \in TabRecords /\ u.list = tab.list /\ u.cut = tab.cut
          /\ u.networks = tab.networks /\ u.failed = tab.failed /\ u.inserted = tab.inserted
          /\ u.error = tab.error /\ u.panel /\ ~u.prompt /\ u.result = "none" /\ u.disturbed = tab.disturbed
          /\ u.page = IF tab.list = NoList \/ tab.error THEN "blank" ELSE "main"
      BY <2>2 DEF Rendered, TabRecords
    <2>4. tab.failed \/ (tab.list \in Bags /\ ~tab.error)
      BY <1>1, <2>1 DEF TabOK
    <2>5. tab.list \in Bags \cup {NoList}
      BY <1>1 DEF TabRecords
    <2> HIDE DEF u
    <2>6. TabOK(u)
      BY <1>1, <2>3, <2>4, <2>5 DEF TabOK
    <2>7. u.page = tab.page \/ tab.failed
      BY <1>1, <2>1, <2>3, <2>4
    <2>8. UsersInv'
      BY <2>1, <2>3, <2>6, <2>7, OnlyTab
    <2>9. QED BY <2>1, <2>8
  <1>11. CASE Cancel
    <2> DEFINE u == [tab EXCEPT !.prompt = FALSE]
    <2>1. tab' = u /\ Served /\ UNCHANGED <<rows, posts>>
      BY <1>11 DEF Cancel, Served
    <2>2. /\ u \in TabRecords /\ u.page = tab.page /\ u.list = tab.list /\ u.cut = tab.cut
          /\ u.networks = tab.networks /\ u.failed = tab.failed /\ u.inserted = tab.inserted /\ u.error = tab.error
          /\ u.panel = tab.panel /\ u.selected = tab.selected /\ u.result = tab.result /\ u.saved = tab.saved
          /\ u.disturbed = tab.disturbed /\ ~u.prompt
      BY <1>1 DEF TabRecords
    <2> HIDE DEF u
    <2>3. TabOK(u)
      BY <1>1, <2>2 DEF TabOK
    <2>4. UsersInv'
      BY <2>1, <2>2, <2>3, OnlyTab
    <2>5. QED BY <2>1, <2>4
  <1>12. CASE ClosePanel
    <2> DEFINE u == [tab EXCEPT !.panel = FALSE]
               q == [c \in Posts |-> IF posts[c].of = "here" /\ ~Idle(c)
                                     THEN [posts[c] EXCEPT !.of = "closed", !.selected = tab.selected]
                                     ELSE posts[c]]
    <2>1. tab' = u /\ posts' = q /\ rows' = rows /\ Served
      BY <1>12 DEF ClosePanel, Served
    <2>2. /\ u \in TabRecords /\ u.page = tab.page /\ u.list = tab.list /\ u.cut = tab.cut
          /\ u.networks = tab.networks /\ u.failed = tab.failed /\ u.inserted = tab.inserted /\ u.error = tab.error
          /\ u.prompt = tab.prompt /\ u.selected = tab.selected /\ u.result = tab.result /\ u.saved = tab.saved
          /\ u.disturbed = tab.disturbed /\ ~u.panel
      BY <1>1, ZenonT(40) DEF TabRecords
    <2>3. tab.selected \in Names \cup {Dummy}
      BY <1>1 DEF TabRecords
    <2>4. ASSUME NEW c \in Posts
          PROVE  /\ q[c] \in PostRecords /\ q[c].pc = posts[c].pc /\ q[c].op = posts[c].op
                 /\ q[c].ok = posts[c].ok /\ q[c].seen = posts[c].seen /\ q[c].name = posts[c].name
                 /\ q[c].info = posts[c].info /\ (q[c].of = "gone" => posts[c].of = "gone")
      <3>1. posts[c] \in PostRecords
        BY <1>1
      <3>2. CASE posts[c].of = "here" /\ ~Idle(c)
        <4> DEFINE r == [posts[c] EXCEPT !.of = "closed", !.selected = tab.selected]
        <4>1. /\ r \in PostRecords /\ r.pc = posts[c].pc /\ r.op = posts[c].op
              /\ r.ok = posts[c].ok /\ r.seen = posts[c].seen /\ r.name = posts[c].name
              /\ r.info = posts[c].info /\ r.of = "closed"
          BY <2>3, <3>1, ZenonT(40) DEF PostRecords
        <4>2. q[c] = r
          BY <3>2
        <4> HIDE DEF q, r
        <4>3. QED BY <4>1, <4>2
      <3>3. CASE ~(posts[c].of = "here" /\ ~Idle(c))
        <4>1. q[c] = posts[c]
          BY <3>3
        <4> HIDE DEF q
        <4>2. QED BY <3>1, <4>1
      <3>4. QED BY <3>2, <3>3
    <2>5. q \in [Posts -> PostRecords]
      BY <2>4
    <2> HIDE DEF u, q
    <2>6. \A c \in Posts : PostOK(q[c], u)
      BY <2>2, <2>4, UsersTypes DEF PostOK
    <2>7. u.disturbed \/ Calm(q, u, rows)
      <3>1. SUFFICES ASSUME ~u.disturbed PROVE Calm(q, u, rows)
        OBVIOUS
      <3>2. Calm(posts, tab, rows)
        BY <1>1, <2>2, <3>1
      <3>3. \A c \in Posts : Works(q[c]) <=> Works(posts[c])
        BY <2>4 DEF Works
      <3>4. Agree(tab, rows) <=> Agree(u, rows)
        BY <2>2 DEF Agree
      <3>5. \A c \in Posts : WorkOK(posts[c], tab, rows) => WorkOK(q[c], u, rows)
        BY <2>2, <2>4, <3>4 DEF WorkOK
      <3>6. QED BY <2>2, <2>4, <3>2, <3>3, <3>4, <3>5 DEF Calm
    <2>8. TabOK(u)
      BY <1>1, <2>2 DEF TabOK
    <2>9. QED BY <1>1, <2>1, <2>2, <2>5, <2>6, <2>7, <2>8 DEF UsersInv
  <1>13. QED BY <1>5, <1>6, <1>7, <1>8, <1>9, <1>10, <1>11, <1>12

(* A route moves its own request only. *)
LEMMA RouteMoves ==
  ASSUME CopyOK, UsersInv, NEW c \in Posts, NEW p \in PostRecords,
         posts' = [posts EXCEPT ![c] = p], UNCHANGED <<rows, tab>>,
         posts[c].pc # "idle", p.pc # "idle", p.op = posts[c].op, PostOK(p, tab),
         p.op # "networks" /\ WorkOK(posts[c], tab, rows) /\ Calm(posts, tab, rows) => WorkOK(p, tab, rows)
  PROVE  UsersInv'
  <1>1. tab \in TabRecords /\ rows \in Bags /\ TabOK(tab) /\ (tab.disturbed \/ Calm(posts, tab, rows))
    BY DEF UsersInv
  <1>2. ASSUME Calm(posts, tab, rows), p.op # "networks"
        PROVE  Calm([posts EXCEPT ![c] = p], tab, rows)
    <2>1. Works(posts[c]) /\ Works(p)
      BY <1>2 DEF Works
    <2>2. WorkOK(p, tab, rows) /\ ~tab.failed /\ \A n \in Names : rows[n] <= 1
      BY <1>2, <2>1 DEF Calm
    <2>3. QED BY <1>1, <1>2, <2>1, <2>2, CalmGoesOn
  <1>3. ASSUME Calm(posts, tab, rows), p.op = "networks"
        PROVE  Calm([posts EXCEPT ![c] = p], tab, rows)
    <2> DEFINE q == [posts EXCEPT ![c] = p]
    <2>1. \A d \in Posts : q[d] = IF d = c THEN p ELSE posts[d]
      BY DEF UsersInv
    <2>2. ~Works(p) /\ ~Works(posts[c])
      BY <1>3 DEF Works
    <2>3. \A d \in Posts : Works(q[d]) => q[d] = posts[d]
      BY <2>1, <2>2
    <2>4. \A d \in Posts : (Works(q[d]) <=> Works(posts[d])) /\ q[d].op = posts[d].op
      BY <2>1, <2>2
    <2> HIDE DEF q
    <2>5. Calm(q, tab, rows)
      BY <1>3, <2>3, <2>4 DEF Calm
    <2>6. QED BY <2>5 DEF q
  <1>4. QED BY <1>1, <1>2, <1>3, OnePost

(* What the routes do. *)
LEMMA RoutesServe ==
  ASSUME CopyOK, UsersInv, NEW c \in Posts,
         \/ SendNetworks(c) \/ Authenticate(c) \/ CheckRole(c) \/ Look(c) \/ Write(c)
         \/ GetUserlist(c) \/ StatementFails(c)
  PROVE  UsersInv' /\ Served
  <1>1. /\ rows \in Bags /\ posts \in [Posts -> PostRecords] /\ tab \in TabRecords /\ TabOK(tab)
        /\ NoList \notin Bags /\ Dummy \notin Names
        /\ Calm(posts, tab, rows) => ~tab.failed /\ ~tab.error /\ tab.page # "blank"
        /\ tab.disturbed \/ Calm(posts, tab, rows)
    BY UsersParts DEF UsersInv
  <1>2. posts[c] \in PostRecords /\ PostOK(posts[c], tab)
    BY UsersTypes
  <1>3. posts[c].pc # "idle" /\ Served
    BY DEF SendNetworks, Authenticate, CheckRole, Look, Write, GetUserlist, StatementFails, Served
  <1>4. ASSUME NEW ok \in BOOLEAN
        PROVE  LET p == [posts[c] EXCEPT !.pc = "sent", !.ok = ok]
               IN /\ Replies(c, ok) => posts' = [posts EXCEPT ![c] = p]
                  /\ p \in PostRecords /\ p.pc = "sent" /\ p.ok = ok /\ p.op = posts[c].op
                  /\ p.name = posts[c].name /\ p.info = posts[c].info /\ p.of = posts[c].of
                  /\ p.seen = posts[c].seen
    <2>1. Replies(c, ok) => posts' = [posts EXCEPT ![c] = [posts[c] EXCEPT !.pc = "sent", !.ok = ok]]
      BY <1>1, <1>2 DEF Replies, PostRecords
    <2>2. QED BY <1>2, <2>1 DEF PostRecords
  <1>5. ASSUME NEW pc \in {"look", "write", "never"}
        PROVE  LET p == [posts[c] EXCEPT !.pc = pc]
               IN /\ Goes(c, pc) => posts' = [posts EXCEPT ![c] = p]
                  /\ p \in PostRecords /\ p.pc = pc /\ p.op = posts[c].op
                  /\ p.name = posts[c].name /\ p.info = posts[c].info /\ p.of = posts[c].of
                  /\ p.ok = posts[c].ok /\ p.seen = posts[c].seen
    BY <1>1, <1>2 DEF Goes, PostRecords
  <1>6. CASE SendNetworks(c)
    <2> DEFINE p == [posts[c] EXCEPT !.pc = "sent", !.ok = TRUE]
    <2>1. posts[c].pc = "networks" /\ Replies(c, TRUE) /\ UNCHANGED <<rows, tab>>
      BY <1>6 DEF SendNetworks
    <2>2. /\ posts' = [posts EXCEPT ![c] = p] /\ p \in PostRecords /\ p.pc = "sent" /\ p.op = "networks"
          /\ p.info = posts[c].info /\ p.name = posts[c].name
      BY <1>2, <1>4, <2>1 DEF PostOK
    <2> HIDE DEF p
    <2>3. PostOK(p, tab)
      BY <1>2, <2>2 DEF PostOK
    <2>4. QED BY <1>2, <1>3, <2>1, <2>2, <2>3, RouteMoves DEF PostOK
  <1>7. CASE Authenticate(c)
    <2>1. PICK right \in BOOLEAN : Replies(c, tab.auth => Exists(posts[c].name) /\ right)
      BY <1>7 DEF Authenticate
    <2>2. posts[c].pc = "find" /\ UNCHANGED <<rows, tab>>
      BY <1>7 DEF Authenticate
    <2> DEFINE ok == tab.auth => Exists(posts[c].name) /\ right
               p == [posts[c] EXCEPT !.pc = "sent", !.ok = ok]
    <2>3. ok \in BOOLEAN
      OBVIOUS
    <2> HIDE DEF ok
    <2>4. /\ posts' = [posts EXCEPT ![c] = p] /\ p \in PostRecords /\ p.pc = "sent" /\ p.op = "login"
          /\ p.info = posts[c].info /\ p.name = posts[c].name
      BY <1>2, <1>4, <2>1, <2>2, <2>3 DEF PostOK, ok
    <2> HIDE DEF p
    <2>5. PostOK(p, tab)
      BY <1>2, <2>4 DEF PostOK
    <2>6. WorkOK(posts[c], tab, rows) => WorkOK(p, tab, rows)
      BY <1>2, <2>2, <2>4 DEF WorkOK, PostOK
    <2>7. QED BY <1>2, <1>3, <2>2, <2>4, <2>5, <2>6, RouteMoves DEF PostOK
  <1>8. CASE CheckRole(c)
    <2>1. posts[c].pc = "role" /\ UNCHANGED <<rows, tab>> /\ (Goes(c, "look") \/ Replies(c, FALSE))
      BY <1>8 DEF CheckRole
    <2>2. posts[c].op \in {"register", "unregister"} /\ posts[c].name \in Names
      BY <1>2, <2>1 DEF PostOK
    <2>3. PICK p \in PostRecords :
             /\ posts' = [posts EXCEPT ![c] = p] /\ p.op = posts[c].op /\ p.name = posts[c].name
             /\ p.info = posts[c].info /\ p.of = posts[c].of /\ (p.pc = "look" \/ (p.pc = "sent" /\ ~p.ok))
      BY <1>4, <1>5, <2>1
    <2>4. PostOK(p, tab)
      BY <1>2, <2>2, <2>3 DEF PostOK
    <2>5. WorkOK(posts[c], tab, rows) => WorkOK(p, tab, rows)
      BY <2>1, <2>2, <2>3 DEF WorkOK
    <2>6. QED BY <1>3, <2>1, <2>2, <2>3, <2>4, <2>5, RouteMoves
  <1>9. CASE Look(c)
    <2>1. /\ posts[c].pc = "look" /\ UNCHANGED <<rows, tab>>
          /\ \/ Goes(c, "write") /\ Exists(posts[c].name) = (posts[c].op = "unregister")
             \/ Replies(c, FALSE)
      BY <1>9 DEF Look
    <2>2. posts[c].op \in {"register", "unregister"} /\ posts[c].name \in Names
      BY <1>2, <2>1 DEF PostOK
    <2>3. PICK p \in PostRecords :
             /\ posts' = [posts EXCEPT ![c] = p] /\ p.op = posts[c].op /\ p.name = posts[c].name
             /\ p.info = posts[c].info /\ p.of = posts[c].of
             /\ \/ p.pc = "write" /\ Exists(posts[c].name) = (posts[c].op = "unregister")
                \/ p.pc = "sent" /\ ~p.ok
      BY <1>4, <1>5, <2>1
    <2>4. PostOK(p, tab)
      BY <1>2, <2>2, <2>3 DEF PostOK
    <2>5. rows[p.name] \in Nat
      BY <1>1, <2>2, <2>3 DEF Bags
    <2>6. p.pc = "write" => (rows[p.name] > 0 <=> p.op = "unregister")
      BY <2>2, <2>3 DEF Exists
    <2>7. Calm(posts, tab, rows) => rows[p.name] <= 1
      BY <2>2, <2>3 DEF Calm
    <2>8. Calm(posts, tab, rows) /\ p.pc = "write" => rows[p.name] = IF p.op = "unregister" THEN 1 ELSE 0
      BY <2>5, <2>6, <2>7
    <2>9. WorkOK(posts[c], tab, rows) /\ Calm(posts, tab, rows) => WorkOK(p, tab, rows)
      BY <2>1, <2>2, <2>3, <2>8 DEF WorkOK
    <2>10. QED BY <1>3, <2>1, <2>2, <2>3, <2>4, <2>9, RouteMoves
  <1>10. CASE GetUserlist(c)
    <2> DEFINE p == [posts[c] EXCEPT !.pc = "listed", !.ok = TRUE, !.seen = rows]
    <2>1. posts[c].pc = "list" /\ UNCHANGED <<rows, tab>> /\ posts' = [posts EXCEPT ![c] = p]
      BY <1>1, <1>2, <1>10 DEF GetUserlist, PostRecords
    <2>2. /\ p \in PostRecords /\ p.pc = "listed" /\ p.op = posts[c].op /\ p.ok /\ p.seen = rows
          /\ p.info = posts[c].info /\ p.name = posts[c].name /\ p.of = posts[c].of
      BY <1>1, <1>2 DEF PostRecords
    <2> HIDE DEF p
    <2>3. posts[c].op \in {"landing", "register"}
      BY <1>2, <2>1 DEF PostOK
    <2>4. PostOK(p, tab)
      BY <1>1, <1>2, <2>2, <2>3 DEF PostOK
    <2>5. WorkOK(posts[c], tab, rows) => WorkOK(p, tab, rows)
      BY <2>2, <2>3 DEF WorkOK
    <2>6. QED BY <1>3, <2>1, <2>2, <2>3, <2>4, <2>5, RouteMoves
  <1>11. CASE StatementFails(c)
    <2> DEFINE u == [tab EXCEPT !.failed = TRUE, !.disturbed = TRUE]
    <2>1. tab' = u /\ rows' = rows /\ posts[c].pc \in {"find", "role", "look", "write", "list"}
      BY <1>11 DEF StatementFails
    <2>2. /\ u \in TabRecords /\ u.failed /\ u.disturbed /\ u.inserted = tab.inserted /\ u.list = tab.list
          /\ u.result = tab.result /\ u.saved = tab.saved /\ u.panel = tab.panel /\ u.page = tab.page
          /\ u.prompt = tab.prompt /\ u.selected = tab.selected
      BY <1>1 DEF TabRecords
    <2> HIDE DEF u
    <2>3. TabOK(u)
      BY <1>1, <2>2 DEF TabOK
    <2>4. CASE posts[c].op = "login"
      <3> DEFINE p == [posts[c] EXCEPT !.pc = "never"]
      <3>1. posts' = [posts EXCEPT ![c] = p] /\ p \in PostRecords /\ p.pc = "never" /\ p.op = posts[c].op
            /\ p.info = posts[c].info /\ p.name = posts[c].name
        BY <1>5, <1>11, <2>4 DEF StatementFails
      <3> HIDE DEF p
      <3>2. PostOK(p, u)
        BY <1>2, <2>2, <2>4, <3>1 DEF PostOK
      <3>3. QED BY <1>1, <1>3, <2>1, <2>2, <2>3, <3>1, <3>2, OnePost
    <2>5. CASE posts[c].op # "login"
      <3> DEFINE p == [posts[c] EXCEPT !.pc = IF posts[c].pc = "list" THEN "listed" ELSE "sent", !.ok = FALSE]
      <3>1. posts' = [posts EXCEPT ![c] = p]
        BY <1>1, <1>2, <1>11, <2>5 DEF StatementFails, PostRecords
      <3>2. /\ p \in PostRecords /\ p.pc = (IF posts[c].pc = "list" THEN "listed" ELSE "sent")
            /\ p.op = posts[c].op /\ ~p.ok /\ p.info = posts[c].info /\ p.name = posts[c].name
        BY <1>2, ZenonT(40) DEF PostRecords
      <3> HIDE DEF p
      <3>3. PostOK(p, u)
        BY <1>2, <2>1, <2>2, <2>5, <3>2 DEF PostOK
      <3>4. QED BY <1>1, <1>3, <2>1, <2>2, <2>3, <3>1, <3>2, <3>3, OnePost
    <2>6. QED BY <2>4, <2>5
  <1>12. CASE Write(c)
    <2> DEFINE p == [posts[c] EXCEPT !.pc = "sent", !.ok = TRUE]
               name == posts[c].name
               r == [rows EXCEPT ![name] = IF posts[c].op = "register" THEN @ + 1 ELSE 0]
               u == [tab EXCEPT !.inserted = IF posts[c].op = "register" THEN @ \cup {name} ELSE @]
    <2>1. posts[c].pc = "write" /\ rows' = r /\ tab' = u /\ Replies(c, TRUE)
      BY <1>12 DEF Write
    <2>2. posts[c].op \in {"register", "unregister"} /\ name \in Names
      BY <1>2, <2>1 DEF PostOK
    <2>3. /\ posts' = [posts EXCEPT ![c] = p] /\ p \in PostRecords /\ p.pc = "sent" /\ p.ok
          /\ p.op = posts[c].op /\ p.info = posts[c].info /\ p.name = name /\ p.of = posts[c].of
      BY <1>4, <2>1
    <2>4. r \in Bags
      BY <1>1, <2>2 DEF Bags
    <2>5. /\ u \in TabRecords /\ u.page = tab.page /\ u.list = tab.list /\ u.cut = tab.cut
          /\ u.networks = tab.networks /\ u.failed = tab.failed /\ u.disturbed = tab.disturbed
          /\ u.error = tab.error /\ u.panel = tab.panel /\ u.prompt = tab.prompt
          /\ u.selected = tab.selected /\ u.result = tab.result /\ u.saved = tab.saved
          /\ u.inserted = IF posts[c].op = "register" THEN tab.inserted \cup {name} ELSE tab.inserted
      BY <1>1, <2>2 DEF TabRecords
    <2> HIDE DEF u, p
    <2>6. tab.inserted \subseteq u.inserted
      BY <2>5
    <2>7. TabOK(u)
      BY <1>1, <2>5, <2>6 DEF TabOK
    <2>8. PostOK(p, u)
      BY <1>2, <2>2, <2>3, <2>5, <2>6 DEF PostOK
    <2>9. ASSUME Calm(posts, tab, rows)
          PROVE  Calm([posts EXCEPT ![c] = p], u, r)
      <3>1. Works(posts[c]) /\ Works(p) /\ WorkOK(posts[c], tab, rows)
        <4>1. Works(posts[c]) /\ Works(p)
          BY <2>1, <2>2, <2>3 DEF Works
        <4>2. QED BY <2>9, <4>1 DEF Calm
      <3>2. Agree(tab, rows) /\ rows[name] = IF posts[c].op = "unregister" THEN 1 ELSE 0
        BY <2>1, <2>2, <3>1 DEF WorkOK
      <3>3. \A n \in Names : r[n] <= 1
        <4>1. r[name] = IF posts[c].op = "register" THEN 1 ELSE 0
          BY <1>1, <2>2, <3>2 DEF Bags
        <4>2. \A n \in Names : n # name => r[n] = rows[n]
          BY <1>1 DEF Bags
        <4>3. \A n \in Names : rows[n] <= 1
          BY <2>9 DEF Calm
        <4>4. QED BY <2>2, <4>1, <4>2, <4>3
      <3>4. ASSUME posts[c].op = "unregister"
            PROVE  Total(rows) = Total(r) + 1
        <4>1. r = [rows EXCEPT ![name] = @ - 1]
          BY <2>2, <3>2, <3>4
        <4>2. rows[name] > 0
          BY <3>2, <3>4
        <4>3. QED BY <1>1, <2>2, <4>1, <4>2, TotalOfOneLess
      <3> HIDE DEF r
      <3>5. WorkOK(p, u, r)
        <4>1. posts[c].op = "unregister" => Total(u.list) = Total(r) + 1
          BY <2>5, <3>2, <3>4 DEF Agree
        <4>2. QED BY <2>2, <2>3, <2>5, <3>1, <4>1 DEF WorkOK
      <3>6. p.op # "networks" /\ ~u.failed
        BY <1>1, <2>2, <2>3, <2>5, <2>9
      <3>7. QED BY <2>3, <2>4, <2>5, <2>9, <3>1, <3>3, <3>5, <3>6, CalmGoesOn
    <2>10. u.disturbed \/ Calm(posts', u, r)
      BY <1>1, <2>3, <2>5, <2>9
    <2> HIDE DEF r
    <2>11. UsersInv'
      BY <2>1, <2>3, <2>4, <2>5, <2>6, <2>7, <2>8, <2>10, OnePost
    <2>12. QED BY <1>3, <2>11
  <1>13. QED BY <1>6, <1>7, <1>8, <1>9, <1>10, <1>11, <1>12

(* The end of the userlist thunk, and what an exception leaves of the page. *)
LEMMA AfterListIs ==
  ASSUME NEW t \in TabRecords, t.result = "success" => t.saved \in t.inserted, NEW p \in PostRecords,
         p.op \in {"landing", "register"}, p.ok => p.seen \in Bags,
         p.info = "success" => p.name \in t.inserted
  PROVE  /\ AfterList(t, p) \in TabRecords
         /\ AfterList(t, p).list = IF p.ok THEN p.seen ELSE t.list
         /\ AfterList(t, p).cut = IF p.ok THEN FALSE ELSE t.cut
         /\ AfterList(t, p).page = IF p.op = "landing" THEN "main" ELSE t.page
         /\ AfterList(t, p).networks = t.networks /\ AfterList(t, p).error = t.error
         /\ AfterList(t, p).panel = t.panel /\ AfterList(t, p).prompt = t.prompt
         /\ AfterList(t, p).selected = t.selected /\ AfterList(t, p).inserted = t.inserted
         /\ AfterList(t, p).failed = t.failed /\ AfterList(t, p).disturbed = t.disturbed
         /\ AfterList(t, p).result = "success" => AfterList(t, p).saved \in AfterList(t, p).inserted
  <1> DEFINE v == IF p.ok THEN [t EXCEPT !.list = p.seen, !.cut = FALSE] ELSE t
             w == [v EXCEPT !.page = "main"]
             x == [v EXCEPT !.result = p.info, !.saved = p.name]
  <1>1. /\ v \in TabRecords /\ v.list = (IF p.ok THEN p.seen ELSE t.list)
        /\ v.cut = (IF p.ok THEN FALSE ELSE t.cut) /\ v.page = t.page
        /\ v.networks = t.networks /\ v.error = t.error /\ v.panel = t.panel /\ v.prompt = t.prompt
        /\ v.selected = t.selected /\ v.inserted = t.inserted /\ v.failed = t.failed
        /\ v.disturbed = t.disturbed /\ v.result = t.result /\ v.saved = t.saved
    <2>1. CASE p.ok
      BY <2>1 DEF TabRecords
    <2>2. CASE ~p.ok
      BY <2>2
    <2>3. QED BY <2>1, <2>2
  <1>2. AfterList(t, p) = IF p.op = "landing" THEN w ELSE IF p.of = "here" /\ p.info # "none" THEN x ELSE v
    BY DEF AfterList
  <1> HIDE DEF v
  <1>3. p.info \in {"none", "success", "error"} /\ p.name \in Names \cup {Dummy}
    BY DEF PostRecords
  <1>4. /\ w \in TabRecords /\ w.page = "main" /\ w.list = v.list /\ w.cut = v.cut
        /\ w.networks = v.networks /\ w.error = v.error /\ w.panel = v.panel /\ w.prompt = v.prompt
        /\ w.selected = v.selected /\ w.inserted = v.inserted /\ w.failed = v.failed
        /\ w.disturbed = v.disturbed /\ w.result = v.result /\ w.saved = v.saved
    BY <1>1 DEF TabRecords
  <1>5. /\ x \in TabRecords /\ x.page = v.page /\ x.list = v.list /\ x.cut = v.cut
        /\ x.networks = v.networks /\ x.error = v.error /\ x.panel = v.panel /\ x.prompt = v.prompt
        /\ x.selected = v.selected /\ x.inserted = v.inserted /\ x.failed = v.failed
        /\ x.disturbed = v.disturbed /\ x.result = p.info /\ x.saved = p.name
    BY <1>1, <1>3, ZenonT(40) DEF TabRecords
  <1> HIDE DEF w, x
  <1>7. CASE p.op = "landing"
    BY <1>1, <1>2, <1>4, <1>7
  <1>8. CASE p.op # "landing" /\ p.of = "here" /\ p.info # "none"
    BY <1>1, <1>2, <1>5, <1>8
  <1>9. CASE p.op # "landing" /\ ~(p.of = "here" /\ p.info # "none")
    BY <1>1, <1>2, <1>9
  <1>10. QED BY <1>7, <1>8, <1>9

LEMMA RenderedIs ==
  ASSUME NEW t \in TabRecords
  PROVE  /\ Rendered(t) \in TabRecords
         /\ Rendered(t).page = IF t.panel /\ (t.list = NoList \/ t.error) THEN "blank" ELSE t.page
         /\ Rendered(t).list = t.list /\ Rendered(t).cut = t.cut /\ Rendered(t).networks = t.networks
         /\ Rendered(t).error = t.error /\ Rendered(t).panel = t.panel /\ Rendered(t).prompt = t.prompt
         /\ Rendered(t).selected = t.selected /\ Rendered(t).inserted = t.inserted
         /\ Rendered(t).failed = t.failed /\ Rendered(t).disturbed = t.disturbed
         /\ Rendered(t).result = t.result /\ Rendered(t).saved = t.saved
  <1>1. CASE t.panel /\ (t.list = NoList \/ t.error)
    BY <1>1 DEF Rendered, TabRecords
  <1>2. CASE ~(t.panel /\ (t.list = NoList \/ t.error))
    BY <1>2 DEF Rendered
  <1>3. QED BY <1>1, <1>2

LEMMA NetworksDelivered ==
  ASSUME CopyOK, UsersInv, NEW c \in Posts, DeliverNetworks(c)
  PROVE  UsersInv' /\ Served
  <1>1. /\ rows \in Bags /\ posts \in [Posts -> PostRecords] /\ tab \in TabRecords /\ TabOK(tab)
        /\ tab.disturbed \/ Calm(posts, tab, rows)
    BY UsersParts DEF UsersInv
  <1> DEFINE u == [tab EXCEPT !.networks = TRUE]
             signin == [NoPost EXCEPT !.pc = "find", !.op = "login"]
  <1>2. /\ tab' = u /\ rows' = rows /\ Served /\ posts[c].op = "networks"
        /\ \/ tab.page = "login" /\ posts' = [posts EXCEPT ![c] = signin]
           \/ ~(tab.page = "login" /\ ~tab.auth) /\ posts' = [posts EXCEPT ![c] = NoPost]
    BY DEF DeliverNetworks, AutoLogin, Ends, Served
  <1>3. /\ u \in TabRecords /\ u.networks /\ u.page = tab.page /\ u.list = tab.list /\ u.cut = tab.cut
        /\ u.error = tab.error /\ u.panel = tab.panel /\ u.prompt = tab.prompt
        /\ u.selected = tab.selected /\ u.inserted = tab.inserted /\ u.failed = tab.failed
        /\ u.disturbed = tab.disturbed /\ u.result = tab.result /\ u.saved = tab.saved
    BY <1>1 DEF TabRecords
  <1> HIDE DEF u
  <1>4. TabOK(u)
    BY <1>1, <1>3 DEF TabOK
  <1>5. NoPost \in PostRecords /\ PostOK(NoPost, u) /\ ~Works(NoPost) /\ NoPost.op = "none"
    BY UsersTypes
  <1>6. signin \in PostRecords /\ PostOK(signin, u) /\ Works(signin) /\ signin.op = "login" /\ signin.pc = "find"
    BY DEF NoPost, PostRecords, PostOK, Works
  <1> HIDE DEF signin
  <1>7. ASSUME Calm(posts, tab, rows)
        PROVE  /\ ~tab.networks /\ ~u.failed /\ ~Works(posts[c])
               /\ \A d \in Posts \ {c} : posts[d].op # "networks"
               /\ tab.page = "login" => \A d \in Posts : ~Works(posts[d])
    BY <1>2, <1>3, <1>7 DEF Calm, Works
  <1>8. CASE tab.page = "login" /\ posts' = [posts EXCEPT ![c] = signin]
    <2>1. ASSUME Calm(posts, tab, rows) PROVE Calm(posts', u, rows)
      <3>1. WorkOK(signin, u, rows)
        BY <1>3, <1>6, <1>8 DEF WorkOK
      <3>2. QED BY <1>3, <1>6, <1>7, <1>8, <2>1, <3>1, CalmBegins
    <2>2. u.disturbed \/ Calm(posts', u, rows)
      BY <1>1, <1>3, <2>1
    <2>3. QED BY <1>1, <1>2, <1>3, <1>4, <1>6, <1>8, <2>2, OnePost
  <1>9. CASE ~(tab.page = "login" /\ ~tab.auth) /\ posts' = [posts EXCEPT ![c] = NoPost]
    <2>1. ASSUME Calm(posts, tab, rows) PROVE Calm(posts', u, rows)
      <3>1. \A d \in Posts : posts'[d] = IF d = c THEN NoPost ELSE posts[d]
        BY <1>1, <1>9
      <3>2. \A d \in Posts : Works(posts'[d]) => posts'[d] = posts[d]
        BY <1>5, <3>1
      <3>3. \A d \in Posts : Works(posts'[d]) <=> Works(posts[d])
        BY <1>5, <1>7, <2>1, <3>1
      <3>4. \A d \in Posts : posts'[d].op # "networks"
        BY <1>5, <1>7, <2>1, <3>1
      <3>5. Agree(tab, rows) <=> Agree(u, rows)
        BY <1>3 DEF Agree
      <3>6. \A d \in Posts : WorkOK(posts[d], tab, rows) => WorkOK(posts[d], u, rows)
        BY <1>3, <3>5 DEF WorkOK
      <3>7. QED BY <1>3, <2>1, <3>2, <3>3, <3>4, <3>5, <3>6 DEF Calm
    <2>2. u.disturbed \/ Calm(posts', u, rows)
      BY <1>1, <1>3, <2>1
    <2>3. QED BY <1>1, <1>2, <1>3, <1>4, <1>5, <1>9, <2>2, OnePost
  <1>10. QED BY <1>2, <1>8, <1>9

LEMMA LoginDelivered ==
  ASSUME CopyOK, UsersInv, NEW c \in Posts, DeliverLogin(c)
  PROVE  UsersInv' /\ Served
  <1>1. /\ rows \in Bags /\ posts \in [Posts -> PostRecords] /\ tab \in TabRecords /\ TabOK(tab)
        /\ tab.disturbed \/ Calm(posts, tab, rows)
    BY UsersParts DEF UsersInv
  <1>2. posts[c] \in PostRecords /\ posts[c].name \in Names \cup {Dummy}
    BY <1>1 DEF PostRecords
  <1>3. /\ posts[c].op = "login" /\ posts[c].pc = "sent" /\ tab.page # "blank" /\ Served /\ rows' = rows
        /\ Works(posts[c])
    BY DEF DeliverLogin, Served, Alive, Works
  <1>4. ASSUME Calm(posts, tab, rows)
        PROVE  /\ ~tab.failed /\ tab.page = "login" /\ \A n \in Names : rows[n] <= 1
    <2>1. WorkOK(posts[c], tab, rows) /\ ~tab.failed /\ \A n \in Names : rows[n] <= 1
      BY <1>3, <1>4 DEF Calm
    <2>2. QED BY <1>1, <1>3, <2>1 DEF WorkOK, TabRecords
  <1>5. CASE posts[c].ok /\ tab.page = "login"
    <2> DEFINE p == [NoPost EXCEPT !.pc = "list", !.op = "landing"]
               u == [tab EXCEPT !.page = "landing", !.user = posts[c].name]
    <2>1. posts' = [posts EXCEPT ![c] = p] /\ tab' = u
      BY <1>5 DEF DeliverLogin
    <2>2. /\ u \in TabRecords /\ u.page = "landing" /\ u.networks = tab.networks /\ u.list = tab.list
          /\ u.cut = tab.cut /\ u.error = tab.error /\ u.panel = tab.panel /\ u.prompt = tab.prompt
          /\ u.selected = tab.selected /\ u.inserted = tab.inserted /\ u.failed = tab.failed
          /\ u.disturbed = tab.disturbed /\ u.result = tab.result /\ u.saved = tab.saved
      BY <1>1, <1>2 DEF TabRecords
    <2> HIDE DEF u
    <2>3. TabOK(u)
      BY <1>1, <1>5, <2>2 DEF TabOK
    <2>4. p \in PostRecords /\ PostOK(p, u) /\ Works(p) /\ p.op = "landing" /\ p.pc = "list"
      BY DEF NoPost, PostRecords, PostOK, Works
    <2> HIDE DEF p
    <2>5. WorkOK(p, u, rows)
      BY <2>2, <2>4 DEF WorkOK
    <2>6. u.disturbed \/ Calm(posts', u, rows)
      BY <1>1, <1>3, <1>4, <2>1, <2>2, <2>4, <2>5, CalmGoesOn
    <2>7. QED BY <1>1, <1>3, <2>1, <2>2, <2>3, <2>4, <2>6, OnePost
  <1>6. CASE ~(posts[c].ok /\ tab.page = "login")
    <2> DEFINE u == [tab EXCEPT !.user = IF posts[c].ok THEN posts[c].name ELSE @]
    <2>1. posts' = [posts EXCEPT ![c] = NoPost] /\ tab' = u
      BY <1>6 DEF DeliverLogin, Ends
    <2>2. /\ u \in TabRecords /\ u.page = tab.page /\ u.networks = tab.networks /\ u.list = tab.list
          /\ u.cut = tab.cut /\ u.error = tab.error /\ u.panel = tab.panel /\ u.prompt = tab.prompt
          /\ u.selected = tab.selected /\ u.inserted = tab.inserted /\ u.failed = tab.failed
          /\ u.disturbed = tab.disturbed /\ u.result = tab.result /\ u.saved = tab.saved
      BY <1>1, <1>2 DEF TabRecords
    <2> HIDE DEF u
    <2>3. TabOK(u)
      BY <1>1, <2>2 DEF TabOK
    <2>4. NoPost \in PostRecords /\ PostOK(NoPost, u) /\ ~Works(NoPost) /\ NoPost.op # "networks"
      BY UsersTypes
    <2>5. u.disturbed \/ Calm(posts', u, rows)
      BY <1>1, <1>3, <1>4, <2>1, <2>2, <2>4, CalmGoesOn
    <2>6. QED BY <1>1, <1>3, <2>1, <2>2, <2>3, <2>4, <2>5, OnePost
  <1>7. QED BY <1>5, <1>6

LEMMA ListDelivered ==
  ASSUME CopyOK, UsersInv, NEW c \in Posts, DeliverList(c)
  PROVE  UsersInv' /\ Served
  <1> DEFINE post == posts[c]
             v == AfterList(tab, post)
             u == Rendered(v)
             q == [d \in Posts |->
                    IF d = c THEN NoPost
                    ELSE IF posts[d].of = "closed" /\ posts[c].ok THEN [posts[d] EXCEPT !.of = "gone"]
                    ELSE posts[d]]
  <1>1. /\ rows \in Bags /\ posts \in [Posts -> PostRecords] /\ tab \in TabRecords /\ TabOK(tab)
        /\ NoList \notin Bags /\ (tab.disturbed \/ Calm(posts, tab, rows))
    BY UsersParts DEF UsersInv
  <1>2. tab' = u /\ posts' = q /\ rows' = rows /\ Served /\ post.pc = "listed" /\ tab.page # "blank"
    BY DEF DeliverList, Served, Alive
  <1>3. /\ post \in PostRecords /\ post.op \in {"landing", "register"} /\ post.ok \in BOOLEAN
        /\ post.ok => post.seen \in Bags
        /\ post.info = "success" => post.name \in tab.inserted
        /\ ~tab.failed => post.ok
        /\ Works(post)
    BY <1>2, UsersTypes DEF PostOK, Works, PostRecords
  <1>5. /\ v \in TabRecords /\ v.list = (IF post.ok THEN post.seen ELSE tab.list)
        /\ v.cut = (IF post.ok THEN FALSE ELSE tab.cut)
        /\ v.page = (IF post.op = "landing" THEN "main" ELSE tab.page)
        /\ v.networks = tab.networks /\ v.error = tab.error /\ v.panel = tab.panel /\ v.prompt = tab.prompt
        /\ v.selected = tab.selected /\ v.inserted = tab.inserted /\ v.failed = tab.failed
        /\ v.disturbed = tab.disturbed /\ (v.result = "success" => v.saved \in v.inserted)
    <2>1. tab.result = "success" => tab.saved \in tab.inserted
      BY <1>1 DEF TabOK
    <2> HIDE DEF post
    <2>2. QED BY <1>1, <1>3, <2>1, AfterListIs
  <1> HIDE DEF v
  <1>6. /\ u \in TabRecords /\ u.list = v.list /\ u.cut = v.cut /\ u.networks = v.networks
        /\ u.page = (IF v.panel /\ (v.list = NoList \/ v.error) THEN "blank" ELSE v.page)
        /\ u.error = v.error /\ u.panel = v.panel /\ u.prompt = v.prompt
        /\ u.selected = v.selected /\ u.inserted = v.inserted /\ u.failed = v.failed
        /\ u.disturbed = v.disturbed /\ u.result = v.result /\ u.saved = v.saved
    BY <1>5, RenderedIs
  <1> HIDE DEF u
  <1>7. u.list \in Bags \cup {NoList}
    BY <1>6 DEF TabRecords
  <1>8. ~tab.failed => ~tab.error /\ post.ok /\ u.list \in Bags /\ u.page = v.page
    BY <1>1, <1>3, <1>5, <1>6 DEF TabOK
  <1>9. TabOK(u)
    BY <1>1, <1>2, <1>5, <1>6, <1>7, <1>8 DEF TabOK
  <1>10. ASSUME NEW d \in Posts, d # c
         PROVE  /\ q[d] \in PostRecords /\ q[d].pc = posts[d].pc /\ q[d].op = posts[d].op
                /\ q[d].ok = posts[d].ok /\ q[d].seen = posts[d].seen /\ q[d].name = posts[d].name
                /\ q[d].info = posts[d].info
    BY <1>1, <1>10 DEF PostRecords
  <1>11. q[c] = NoPost /\ NoPost \in PostRecords /\ PostOK(NoPost, u) /\ ~Works(NoPost) /\ NoPost.op = "none"
    BY UsersTypes
  <1>12. q \in [Posts -> PostRecords]
    BY <1>10, <1>11
  <1> HIDE DEF q
  <1>13. tab.list \in Bags => u.list \in Bags
    BY <1>3, <1>5, <1>6
  <1>14. \A d \in Posts : PostOK(q[d], u)
    <2>1. ASSUME NEW d \in Posts, d # c PROVE PostOK(q[d], u)
      <3>1. PostOK(posts[d], tab)
        BY UsersTypes
      <3>2. QED BY <1>5, <1>6, <1>10, <1>13, <2>1, <3>1 DEF PostOK
    <2>2. QED BY <1>11, <2>1
  <1>15. ASSUME Calm(posts, tab, rows)
         PROVE  Calm(q, u, rows)
    <2>1. WorkOK(post, tab, rows) /\ ~tab.failed /\ \A d \in Posts : Works(posts[d]) => d = c
      BY <1>3, <1>15 DEF Calm
    <2>2. post.ok /\ post.seen = rows
      BY <1>2, <2>1 DEF WorkOK
    <2>3. Agree(u, rows)
      BY <1>1, <1>5, <1>6, <2>2 DEF Agree
    <2>4. \A d \in Posts : ~Works(q[d])
      BY <1>10, <1>11, <2>1 DEF Works
    <2>5. \A d \in Posts : q[d].op = "networks" => posts[d].op = "networks"
      BY <1>10, <1>11
    <2>6. QED BY <1>5, <1>6, <1>15, <2>1, <2>3, <2>4, <2>5 DEF Calm
  <1>16. u.disturbed \/ Calm(q, u, rows)
    BY <1>1, <1>5, <1>6, <1>15
  <1>17. QED BY <1>1, <1>2, <1>6, <1>9, <1>12, <1>14, <1>16 DEF UsersInv

LEMMA ChangeDelivered ==
  ASSUME CopyOK, UsersInv, NEW c \in Posts, DeliverRegister(c) \/ DeliverUnregister(c)
  PROVE  UsersInv' /\ Served
  <1>1. /\ rows \in Bags /\ posts \in [Posts -> PostRecords] /\ tab \in TabRecords /\ TabOK(tab)
        /\ NoList \notin Bags /\ (tab.disturbed \/ Calm(posts, tab, rows))
    BY UsersParts DEF UsersInv
  <1>2. posts[c] \in PostRecords /\ PostOK(posts[c], tab)
    BY UsersTypes
  <1>3. CASE DeliverRegister(c)
    <2> DEFINE p == [posts[c] EXCEPT !.pc = "list", !.ok = FALSE,
                                     !.info = IF posts[c].ok THEN "success" ELSE "error"]
    <2>1. /\ posts' = [posts EXCEPT ![c] = p] /\ posts[c].op = "register" /\ posts[c].pc = "sent"
          /\ UNCHANGED <<rows, tab>> /\ Served
      BY <1>1, <1>2, <1>3 DEF DeliverRegister, Served, PostRecords
    <2>2. /\ p \in PostRecords /\ p.pc = "list" /\ p.op = "register" /\ ~p.ok
          /\ p.info = (IF posts[c].ok THEN "success" ELSE "error") /\ p.name = posts[c].name
      BY <1>2, <2>1 DEF PostRecords
    <2> HIDE DEF p
    <2>3. PostOK(p, tab)
      BY <1>2, <2>1, <2>2 DEF PostOK
    <2>4. WorkOK(posts[c], tab, rows) => WorkOK(p, tab, rows)
      BY <2>1, <2>2 DEF WorkOK
    <2>5. QED BY <2>1, <2>2, <2>3, <2>4, RouteMoves
  <1>4. CASE DeliverUnregister(c)
    <2>1. /\ posts' = [posts EXCEPT ![c] = NoPost] /\ posts[c].op = "unregister" /\ posts[c].pc = "sent"
          /\ rows' = rows /\ Served /\ Works(posts[c])
      BY <1>4 DEF DeliverUnregister, Ends, Served, Works
    <2>2. tab.list \in Bags
      BY <1>2, <2>1 DEF PostOK
    <2>3. ASSUME Calm(posts, tab, rows)
          PROVE  WorkOK(posts[c], tab, rows) /\ ~tab.failed /\ \A n \in Names : rows[n] <= 1
      BY <2>1, <2>3 DEF Calm
    <2>4. ASSUME NEW u \in TabRecords, tab' = u, u.list \in Bags,
                 u.page = tab.page, u.networks = tab.networks, u.error = tab.error, u.panel = tab.panel,
                 u.prompt = tab.prompt, u.selected = tab.selected, u.inserted = tab.inserted,
                 u.failed = tab.failed, u.disturbed = tab.disturbed, u.result = tab.result,
                 u.saved = tab.saved,
                 Calm(posts, tab, rows) => Agree(u, rows)
          PROVE  UsersInv'
      <3>1. TabOK(u)
        BY <1>1, <2>4 DEF TabOK
      <3>2. NoPost \in PostRecords /\ PostOK(NoPost, u) /\ ~Works(NoPost) /\ NoPost.op # "networks"
        BY UsersTypes
      <3>3. u.disturbed \/ Calm(posts', u, rows)
        BY <1>1, <2>1, <2>3, <2>4, <3>2, CalmGoesOn
      <3>4. QED BY <1>1, <2>1, <2>4, <3>1, <3>2, <3>3, OnePost
    <2>5. CASE posts[c].ok /\ posts[c].of # "gone"
      <3>1. PICK bag \in Spliced(tab.list, IF posts[c].of = "here" THEN tab.selected ELSE posts[c].selected) :
               tab' = [tab EXCEPT !.list = bag, !.cut = TRUE]
        BY <1>4, <2>5 DEF DeliverUnregister
      <3>2. bag \in Bags /\ (Total(tab.list) # 0 => Total(tab.list) = Total(bag) + 1)
        BY <2>2, SplicedIs
      <3> DEFINE u == [tab EXCEPT !.list = bag, !.cut = TRUE]
      <3>3. /\ u \in TabRecords /\ u.page = tab.page /\ u.networks = tab.networks /\ u.list = bag
            /\ u.cut /\ u.error = tab.error /\ u.panel = tab.panel /\ u.prompt = tab.prompt
            /\ u.selected = tab.selected /\ u.inserted = tab.inserted /\ u.failed = tab.failed
            /\ u.disturbed = tab.disturbed /\ u.result = tab.result /\ u.saved = tab.saved
        BY <1>1, <3>2 DEF TabRecords
      <3>4. tab' = u
        BY <3>1
      <3> HIDE DEF u
      <3>5. Calm(posts, tab, rows) => Total(tab.list) = Total(rows) + 1
        BY <2>1, <2>3, <2>5 DEF WorkOK
      <3>6. Total(rows) \in Nat /\ Total(bag) \in Nat
        <4>1. Root \in Names
          BY UsersAssumption
        <4>2. QED BY <1>1, <3>2, <4>1, TotalOfOneMore
      <3>7. Calm(posts, tab, rows) => Total(bag) = Total(rows)
        BY <3>2, <3>5, <3>6
      <3>8. Calm(posts, tab, rows) => Agree(u, rows)
        BY <3>2, <3>3, <3>7 DEF Agree
      <3>9. UsersInv'
        BY <2>4, <3>2, <3>3, <3>4, <3>8
      <3>10. QED BY <2>1, <3>9
    <2>6. CASE ~(posts[c].ok /\ posts[c].of # "gone")
      <3>1. tab' = tab
        BY <1>4, <2>6 DEF DeliverUnregister
      <3>2. Calm(posts, tab, rows) => Agree(tab, rows)
        BY <2>1, <2>3, <2>6 DEF WorkOK
      <3>3. QED BY <1>1, <2>1, <2>2, <2>4, <3>1, <3>2
    <2>7. QED BY <2>5, <2>6
  <1>5. QED BY <1>3, <1>4

LEMMA PostLost ==
  ASSUME CopyOK, UsersInv, NEW c \in Posts, LosePost(c)
  PROVE  UsersInv' /\ Served
  <1> DEFINE post == posts[c]
             lost == Lost(tab, post)
             u == [lost EXCEPT !.failed = TRUE, !.disturbed = TRUE]
  <1>1. /\ rows \in Bags /\ posts \in [Posts -> PostRecords] /\ tab \in TabRecords /\ TabOK(tab)
        /\ NoList \notin Bags
    BY UsersParts
  <1>2. post \in PostRecords /\ PostOK(post, tab) /\ tab.page # "blank" /\ post.pc # "idle"
    BY UsersTypes DEF LosePost, Alive, Idle
  <1>3. tab' = u /\ rows' = rows /\ Served
    BY DEF LosePost, Served
  <1> DEFINE e == [tab EXCEPT !.error = TRUE]
  <1>4. /\ e \in TabRecords /\ e.page = tab.page /\ e.list = tab.list /\ e.cut = tab.cut
        /\ e.networks = tab.networks /\ e.error /\ e.panel = tab.panel /\ e.prompt = tab.prompt
        /\ e.selected = tab.selected /\ e.inserted = tab.inserted /\ e.result = tab.result
        /\ e.saved = tab.saved /\ e.failed = tab.failed
    BY <1>1 DEF TabRecords
  <1> HIDE DEF e
  <1>5. /\ lost \in TabRecords /\ lost.list = tab.list /\ lost.inserted = tab.inserted
        /\ lost.prompt = tab.prompt /\ lost.selected = tab.selected /\ lost.panel = tab.panel
        /\ lost.panel => lost.page \in {"main", "blank"}
        /\ lost.panel /\ lost.page = "main" => lost.list \in Bags
        /\ lost.result = "success" => lost.saved \in lost.inserted
    <2>1. CASE post.op = "networks"
      <3>1. lost = [tab EXCEPT !.page = IF @ = "login" THEN "blank" ELSE @]
        BY <2>1 DEF Lost
      <3>2. /\ lost \in TabRecords /\ lost.list = tab.list /\ lost.inserted = tab.inserted
            /\ lost.prompt = tab.prompt /\ lost.selected = tab.selected /\ lost.panel = tab.panel
            /\ lost.result = tab.result /\ lost.saved = tab.saved /\ lost.page \in {tab.page, "blank"}
        BY <1>1, <3>1 DEF TabRecords
      <3> HIDE DEF lost
      <3>3. QED BY <1>1, <3>2 DEF TabOK
    <2>2. CASE post.op = "login"
      <3>1. lost = tab
        BY <2>2 DEF Lost
      <3> HIDE DEF lost
      <3>2. QED BY <1>1, <3>1 DEF TabOK
    <2>3. CASE post.op \notin {"networks", "login"} /\ post.pc \in {"list", "listed"}
      <3> DEFINE p == [post EXCEPT !.ok = FALSE]
                 v == AfterList(e, p)
      <3>1. lost = Rendered(v)
        BY <2>3 DEF Lost, e
      <3>0. p \in PostRecords /\ ~p.ok /\ p.op = post.op /\ p.info = post.info /\ p.name = post.name
        BY <1>2 DEF PostRecords
      <3> HIDE DEF p
      <3>2. post.op \in {"landing", "register"} /\ (post.info = "success" => post.name \in e.inserted)
        BY <1>2, <1>4, <2>3 DEF PostOK
      <3>3. e.result = "success" => e.saved \in e.inserted
        BY <1>1, <1>4 DEF TabOK
      <3>4. /\ v \in TabRecords /\ v.list = e.list
            /\ v.page = (IF post.op = "landing" THEN "main" ELSE e.page)
            /\ v.error = e.error /\ v.panel = e.panel /\ v.prompt = e.prompt
            /\ v.selected = e.selected /\ v.inserted = e.inserted
            /\ (v.result = "success" => v.saved \in v.inserted)
        <4> HIDE DEF v
        <4>1. /\ e \in TabRecords /\ (e.result = "success" => e.saved \in e.inserted) /\ p \in PostRecords
              /\ p.op \in {"landing", "register"} /\ (p.ok => p.seen \in Bags)
              /\ (p.info = "success" => p.name \in e.inserted)
          BY <1>4, <3>0, <3>2, <3>3
        <4>2. /\ v \in TabRecords /\ v.list = (IF p.ok THEN p.seen ELSE e.list)
              /\ v.page = (IF p.op = "landing" THEN "main" ELSE e.page)
              /\ v.error = e.error /\ v.panel = e.panel /\ v.prompt = e.prompt
              /\ v.selected = e.selected /\ v.inserted = e.inserted
              /\ (v.result = "success" => v.saved \in v.inserted)
          BY <4>1, AfterListIs DEF v
        <4>3. QED BY <3>0, <4>2
      <3> HIDE DEF lost, v
      <3>5. QED BY <1>1, <1>4, <3>1, <3>4, RenderedIs
    <2>4. CASE post.op \notin {"networks", "login"} /\ post.pc \notin {"list", "listed"}
      <3>1. lost = Rendered(e)
        BY <2>4 DEF Lost, e
      <3> HIDE DEF lost
      <3>2. QED BY <1>1, <1>4, <3>1, RenderedIs DEF TabOK
    <2>5. QED BY <2>1, <2>2, <2>3, <2>4
  <1> HIDE DEF lost
  <1>6. /\ u \in TabRecords /\ u.failed /\ u.disturbed /\ u.list = lost.list /\ u.inserted = lost.inserted
        /\ u.prompt = lost.prompt /\ u.selected = lost.selected /\ u.panel = lost.panel
        /\ u.page = lost.page /\ u.result = lost.result /\ u.saved = lost.saved
    BY <1>5 DEF TabRecords
  <1> HIDE DEF u
  <1>7. TabOK(u)
    BY <1>1, <1>5, <1>6 DEF TabOK
  <1>8. CASE post.op = "register" /\ post.pc \notin {"list", "listed"}
    <2> DEFINE p == [posts[c] EXCEPT !.pc = "list", !.info = "none"]
    <2>1. posts' = [posts EXCEPT ![c] = p]
      BY <1>1, <1>2, <1>8 DEF LosePost, PostRecords
    <2>2. /\ p \in PostRecords /\ p.pc = "list" /\ p.op = "register" /\ p.info = "none"
          /\ p.name = posts[c].name
      BY <1>2, <1>8 DEF PostRecords
    <2> HIDE DEF p
    <2>3. PostOK(p, u)
      BY <2>2 DEF PostOK
    <2>4. QED BY <1>1, <1>3, <1>5, <1>6, <1>7, <2>1, <2>2, <2>3, OnePost
  <1>9. CASE ~(post.op = "register" /\ post.pc \notin {"list", "listed"})
    <2>1. posts' = [posts EXCEPT ![c] = NoPost]
      BY <1>9 DEF LosePost, Ends
    <2>2. NoPost \in PostRecords /\ PostOK(NoPost, u)
      BY UsersTypes
    <2>3. QED BY <1>1, <1>3, <1>5, <1>6, <1>7, <2>1, <2>2, OnePost
  <1>10. QED BY <1>8, <1>9

LEMMA UsersStep ==
  ASSUME CopyOK, UsersInv, UsersPanel
  PROVE  UsersInv' /\ Served
  <1>1. ASSUME NEW c \in Posts, NEW name \in Names \cup {Dummy}, SignIn(c, name)
        PROVE  UsersInv' /\ Served
    BY <1>1, UserActs
  <1>2. ASSUME NEW c \in Posts, NEW name \in Names, SubmitForm(c, name)
        PROVE  UsersInv' /\ Served
    BY <1>2, UserActs
  <1>3. ASSUME NEW c \in Posts, HandleDelete(c)
        PROVE  UsersInv' /\ Served
    BY <1>3, UserActs
  <1>4. ASSUME NEW name \in Names, DeletePrompt(name) \/ OthersChange(name)
        PROVE  UsersInv' /\ Served
    BY <1>4, UserActs
  <1>5. ASSUME OpenPanel \/ ClosePanel \/ Cancel
        PROVE  UsersInv' /\ Served
    BY <1>5, UserActs
  <1>6. ASSUME NEW c \in Posts,
               \/ SendNetworks(c) \/ Authenticate(c) \/ CheckRole(c) \/ Look(c) \/ Write(c)
               \/ GetUserlist(c) \/ StatementFails(c)
        PROVE  UsersInv' /\ Served
    BY <1>6, RoutesServe
  <1>7. ASSUME NEW c \in Posts,
               \/ DeliverNetworks(c) \/ DeliverLogin(c) \/ DeliverList(c) \/ DeliverRegister(c)
               \/ DeliverUnregister(c) \/ LosePost(c)
        PROVE  UsersInv' /\ Served
    BY <1>7, NetworksDelivered, LoginDelivered, ListDelivered, ChangeDelivered, PostLost
  <1>8. QED BY <1>1, <1>2, <1>3, <1>4, <1>5, <1>6, <1>7 DEF UsersPanel

LEMMA UsersTrue ==
  ASSUME CopyOK, UsersInv
  PROVE  UsersOK /\ UsersAreTrue
  <1>1. /\ rows \in Bags /\ posts \in [Posts -> PostRecords] /\ tab \in TabRecords /\ TabOK(tab)
        /\ NoList \notin Bags
        /\ AllIdle => \A d \in Posts : ~Works(posts[d])
        /\ ~tab.disturbed => Calm(posts, tab, rows)
    BY UsersParts
  <1>2. UsersOK
    BY <1>1 DEF UsersOK, TabRecords, PostRecords, TabOK
  <1>3. AllIdle /\ tab.page = "main" /\ ~tab.disturbed => Agree(tab, rows)
    BY <1>1 DEF Calm
  <1>4. QED BY <1>1, <1>2, <1>3 DEF UsersAreTrue, TabOK, Alive, Agree
(* The pages together. *)
PagesInv == CopyOK /\ ListInv /\ RangeInv /\ SearchInv /\ DialogsInv /\ FiguresInv /\ UsersInv

LEMMA PagesInitially == Init => PagesInv
  BY CopyInitially, ListInitially, RangeInitially, SearchInitially, DialogsInitially, FiguresInitially,
     UsersInitially DEF Init, PagesInv

\* A step of the copy, and a step of one page as every other page sees it.
LEMMA PagesOfGrowingCopy ==
  ASSUME PagesInv, CopyStep
  PROVE  /\ CopyOK'
         /\ UNCHANGED <<list, walk>> => ListInv'
         /\ UNCHANGED range => RangeInv'
         /\ UNCHANGED search => SearchInv'
         /\ UNCHANGED dialogs => DialogsInv'
         /\ UNCHANGED figures => FiguresInv'
         /\ UNCHANGED users => UsersInv'
  <1>1. CopyOK /\ CopyOK' /\ kind' = kind /\ Precedes(Moment, Moment')
    BY CopyStays DEF PagesInv
  <1>2. height <= height'
    BY <1>1 DEF Precedes, Moment
  <1>3. ASSUME UNCHANGED <<list, walk>> PROVE ListInv'
    BY <1>1, <1>3, ListOfGrowingCopy DEF PagesInv
  <1>4. ASSUME UNCHANGED range PROVE RangeInv'
    BY <1>1, <1>2, <1>4, RangeOfGrowingCopy DEF PagesInv
  <1>5. ASSUME UNCHANGED search PROVE SearchInv'
    BY <1>1, <1>2, <1>5, SearchOfGrowingCopy DEF PagesInv
  <1>6. ASSUME UNCHANGED dialogs PROVE DialogsInv'
    BY <1>1, <1>2, <1>6, DialogsOfGrowingCopy DEF PagesInv
  <1>7. ASSUME UNCHANGED figures PROVE FiguresInv'
    BY <1>1, <1>7, FiguresOfGrowingCopy DEF PagesInv
  <1>8. ASSUME UNCHANGED users PROVE UsersInv'
    BY <1>8, UsersOfGrowingCopy DEF PagesInv
  <1>9. QED BY <1>1, <1>3, <1>4, <1>5, <1>6, <1>7, <1>8

LEMMA PagesStep ==
  ASSUME PagesInv, [Next]_vars
  PROVE  PagesInv'
  <1>1. CASE (World \/ Stop) /\ UNCHANGED readers
    BY <1>1, PagesOfGrowingCopy DEF CopyStep, readers, lists, PagesInv
  <1>2. CASE UNCHANGED vars
    BY <1>2, PagesOfGrowingCopy DEF CopyStep, Served, vars, readers, lists, PagesInv
  <1>3. CASE UNCHANGED <<world, kind>> /\ kind = "list" /\ PagedList
             /\ UNCHANGED <<search, dialogs, figures, users>>
    BY <1>3, ListStep, PagesOfGrowingCopy DEF CopyStep, PagesInv
  <1>4. CASE UNCHANGED <<world, kind>> /\ kind = "range" /\ RangeSearch
             /\ UNCHANGED <<search, dialogs, figures, users>>
    BY <1>4, RangeStep, PagesOfGrowingCopy DEF CopyStep, PagesInv
  <1>5. CASE UNCHANGED <<world, kind>> /\ kind = "search" /\ SearchField
             /\ UNCHANGED <<lists, dialogs, figures, users>>
    BY <1>5, SearchStep, PagesOfGrowingCopy DEF CopyStep, lists, PagesInv
  <1>6. CASE UNCHANGED <<world, kind>> /\ kind = "dialog" /\ Dialogs
             /\ UNCHANGED <<lists, search, figures, users>>
    BY <1>6, DialogsStep, PagesOfGrowingCopy DEF CopyStep, lists, PagesInv
  <1>7. CASE UNCHANGED <<world, kind>> /\ kind \in Reports /\ Figures
             /\ UNCHANGED <<lists, search, dialogs, users>>
    BY <1>7, FiguresStep, PagesOfGrowingCopy DEF CopyStep, lists, PagesInv
  <1>8. CASE UNCHANGED <<world, kind>> /\ kind = "users" /\ UsersPanel
             /\ UNCHANGED <<lists, search, dialogs, figures>>
    BY <1>8, UsersStep, PagesOfGrowingCopy DEF CopyStep, lists, PagesInv
  <1>9. QED BY <1>1, <1>2, <1>3, <1>4, <1>5, <1>6, <1>7, <1>8 DEF Next

THEOREM PagesTheorem == Spec => []PagesInv
  <1>1. Init => PagesInv
    BY PagesInitially
  <1>2. PagesInv /\ [Next]_vars => PagesInv'
    BY PagesStep
  <1>3. QED BY <1>1, <1>2, PTL DEF Spec

(* Every page keeps its types, whichever is looked at, and the copy its shape under it:     *)
(* rows only of blocks below the height of the ledger, counters that are kept in step.      *)
THEOREM TypeCorrect == Spec => []TypeOK
  <1>1. PagesInv => TypeOK
    BY ListTrue, RangeTrue, SearchTrue, DialogsTrue, FiguresTypes, UsersTrue DEF PagesInv, TypeOK, ListsOK
  <1>2. QED BY <1>1, PagesTheorem, PTL

(* A visitor who turns the pages of a list (Blocks.js, Transactions.js) while rows are       *)
(* copied and the clock runs: a row of the first answer that is not shown yet ranks behind    *)
(* every page reached, and on the last page only newcomers keep it away, except among          *)
(* transactions of one time or when a block before it left the window.                         *)
THEOREM SkippedTheorem == Spec => []NothingSkipped
  <1>1. PagesInv => NothingSkipped
    BY ListTrue DEF PagesInv
  <1>2. QED BY <1>1, PagesTheorem, PTL

(* What is shown for a range, a search or a clicked row is what the channel has.             *)
THEOREM AnswersTheorem == Spec => []AnswersAreTrue
  <1>1. PagesInv => AnswersAreTrue
    BY RangeTrue, SearchTrue, DialogsTrue DEF PagesInv, AnswersAreTrue
  <1>2. QED BY <1>1, PagesTheorem, PTL

(* The dashboard's figures are those of a moment between their request and their answer, and *)
(* the users shown are those of the table.                                                   *)
THEOREM PanelsTheorem == Spec => []PanelsAreCurrent
  <1>1. PagesInv => PanelsAreCurrent
    BY FiguresAreTrue, UsersTrue DEF PagesInv, PanelsAreCurrent
  <1>2. QED BY <1>1, PagesTheorem, PTL

===============================================================================
