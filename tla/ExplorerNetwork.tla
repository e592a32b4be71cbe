--------------------------- MODULE ExplorerNetwork ---------------------------
(***************************************************************************)
(* What Explorer records of the network itself: its channels, nodes and    *)
(* chaincodes.  Two processes share the database.  The sync process runs   *)
(* synchNetworkConfigToDB every 30 seconds (the loop) and the discovery    *)
(* that a CONFIG block or a chaincode deployment schedules (the timers);   *)
(* the server forks it, reads its messages and answers the browser.        *)
(*                                                                         *)
(* A step runs from one await to the next.  A row is inserted in two steps *)
(* (count, insert), as CRUDService does.  How a block is copied is the     *)
(* business of ExplorerSync: here it is one step.                          *)
(***************************************************************************)
EXTENDS Naturals, Sequences, FiniteSets

CONSTANTS
  Channels, Nodes, Chaincodes,
  Orderers, HostOf,          \* the nodes that are orderers, and their hosts
  Home,                      \* the nodes each channel starts with
  Timers,                    \* the discovery timers pending at once
  NoItem, NoChannel, Nobody, NoRow,
  MaxBlocks, MaxEra, MaxFaults, MaxStarts,  \* bounds
  MaxSize,                   \* bound on what happens to the network, all in all
  MaxTrouble                 \* bound on the starts and failures, all in all

ASSUME NetworkAssumption ==
  /\ Orderers \subseteq Nodes
  /\ Home \in [Channels -> SUBSET Nodes]
  /\ "loop" \notin Timers /\ Nobody \notin Timers \cup {"loop"}
  /\ NoChannel \notin Channels
  /\ NoItem \notin Chaincodes
  /\ NoRow \notin Nat
  /\ MaxBlocks \in [Channels -> Nat]
  /\ {MaxEra, MaxFaults, MaxStarts, MaxSize, MaxTrouble} \subseteq Nat

Eras == 0..MaxEra            \* one genesis hash per rebuilding of the network
Tasks == {"loop"} \cup Timers

\* The rows of peer, peer_ref_channel, chaincodes and peer_ref_chaincode.
RefId(n) == IF n \in Orderers THEN HostOf[n] ELSE n
NodeRow(n) == <<"peer", n>>
NodeRef(n) == <<"peer_ref_channel", RefId(n)>>
ChaincodeRow(cc) == <<"chaincodes", cc>>
ChaincodeRef(n, cc) == <<"peer_ref_chaincode", <<n, cc>> >>
NodeItems(ns) == {NodeRow(n) : n \in ns} \cup {NodeRef(n) : n \in ns}
ChaincodeItems(ns, ccs) ==
  {ChaincodeRow(cc) : cc \in ccs}
    \cup {ChaincodeRef(p[1], p[2]) : p \in (ns \ Orderers) \X ccs}
Items == NodeItems(Nodes) \cup ChaincodeItems(Nodes, Chaincodes)
Hashes == Channels \X Eras   \* a channel_genesis_hash

VARIABLES
  \* the network
  joined, era, members, deployed, chain,
  \* the database
  channelRow, rows, blockRows, txRows, txCount,
  \* the sync process: memory, the round of the loop, the tasks, this.ds
  sync, round, task, ds,
  \* the server, and the messages on their way to it
  server, mail,
  faults, starts

netVars == <<joined, era, members, deployed, chain>>
dbVars == <<channelRow, rows, blockRows, txRows, txCount>>
syncVars == <<sync, round, task, ds>>
serverVars == <<server, mail>>
boundVars == <<faults, starts>>
vars == <<netVars, dbVars, syncVars, serverVars, boundVars>>

\* channelRow is the column blocks of the row in table channel, if there is one.
Hash(c) == <<c, era>>
HasRow(h) == channelRow[h] # NoRow

Idle == [pc |-> "idle", ch |-> NoChannel, todo |-> {}, item |-> NoItem,
         nodes |-> {}, last |-> FALSE]
\* Scheduled ten seconds ahead for a channel.
Scheduled(why, c) == [Idle EXCEPT !.pc = "discover", !.ch = c, !.last = (why = "deploy")]
NoServer == [up |-> FALSE, chans |-> {}]
NoAnswer == [by |-> Nobody, ch |-> NoChannel, answered |-> FALSE]
Blocks == {"config", "deploy", "invoke"} \X (Chaincodes \cup {NoItem})

TypeOK ==
  /\ joined \subseteq Channels /\ era \in Eras
  /\ members \in [Channels -> SUBSET Nodes]
  /\ deployed \in [Channels -> SUBSET Chaincodes]
  /\ chain \in [Channels -> Seq(Blocks)]
  /\ channelRow \in [Hashes -> Nat \cup {NoRow}]
  /\ rows \in [Hashes \X Items -> Nat]
  /\ blockRows \in [Hashes -> Nat]
  /\ txRows \in [Hashes \X Chaincodes -> Nat]
  /\ txCount \in [Hashes \X Chaincodes -> Nat]
  /\ sync \in [up: BOOLEAN, started: BOOLEAN,
               chans: SUBSET Channels, hubs: SUBSET Channels]
  /\ round \in [fresh: SUBSET Channels, seen: SUBSET Channels]
  /\ task \in [Tasks -> [pc: {"idle", "dead", "join", "lookup", "exist", "save",
                              "discover", "collect", "nodes", "query", "chaincodes"},
                         ch: Channels \cup {NoChannel}, todo: SUBSET Items,
                         item: Items \cup {NoItem}, nodes: SUBSET Nodes, last: BOOLEAN]]
  /\ ds \in [by: Tasks \cup {Nobody}, ch: Channels \cup {NoChannel}, answered: BOOLEAN]
  /\ server \in [up: BOOLEAN, chans: SUBSET Channels]
  /\ mail \in Seq({"UPDATECHANNEL", "CHAINCODE", "EXISTCHANNEL"} \X Channels)
  /\ faults \in 0..MaxFaults /\ starts \in 0..MaxStarts

Init ==
  /\ joined \in SUBSET Channels /\ era = 0
  /\ members = Home
  /\ deployed = [c \in Channels |-> {}]
  /\ chain = [c \in Channels |-> <<>>]
  /\ channelRow = [h \in Hashes |-> NoRow]
  /\ rows = [r \in Hashes \X Items |-> 0]
  /\ blockRows = [h \in Hashes |-> 0]
  /\ txRows = [t \in Hashes \X Chaincodes |-> 0]
  /\ txCount = [t \in Hashes \X Chaincodes |-> 0]
  /\ sync = [up |-> FALSE, started |-> FALSE, chans |-> {}, hubs |-> {}]
  /\ round = [fresh |-> {}, seen |-> {}]
  /\ task = [t \in Tasks |-> Idle]
  /\ ds = NoAnswer
  /\ server = NoServer
  /\ mail = <<>>
  /\ faults = 0 /\ starts = 0

-----------------------------------------------------------------------------
(* The network: peers join channels, nodes join by CONFIG blocks, chaincodes *)
(* are deployed and invoked.  It is only rebuilt while Explorer is down:     *)
(* the identities of a running Explorer do not survive it.                   *)

\* The bounds: channels joined, networks built and blocks; starts and failures.
AllBlocks == UNION {{c} \X DOMAIN chain[c] : c \in Channels}
MayGrow == Cardinality(joined) + Cardinality(AllBlocks) + era < MaxSize
TroubleLeft == starts + faults < MaxTrouble
FaultHappens == /\ faults < MaxFaults /\ TroubleLeft
                /\ faults' = faults + 1

Extend(c, b) == /\ Len(chain[c]) < MaxBlocks[c] /\ MayGrow
                /\ chain' = [chain EXCEPT ![c] = Append(@, b)]

JoinChannel(c) ==
  /\ c \notin joined /\ MayGrow
  /\ joined' = joined \cup {c}
  /\ UNCHANGED <<era, members, deployed, chain, dbVars, syncVars, serverVars, boundVars>>

AddNode(c, n) ==
  /\ c \in joined /\ n \notin members[c]
  /\ Extend(c, <<"config", NoItem>>)
  /\ members' = [members EXCEPT ![c] = @ \cup {n}]
  /\ UNCHANGED <<joined, era, deployed, dbVars, syncVars, serverVars, boundVars>>

Deploy(c, cc) ==
  /\ c \in joined /\ cc \notin deployed[c]
  /\ Extend(c, <<"deploy", cc>>)
  /\ deployed' = [deployed EXCEPT ![c] = @ \cup {cc}]
  /\ UNCHANGED <<joined, era, members, dbVars, syncVars, serverVars, boundVars>>

Invoke(c, cc) ==
  /\ cc \in deployed[c]
  /\ Extend(c, <<"invoke", cc>>)
  /\ UNCHANGED <<joined, era, members, deployed, dbVars, syncVars, serverVars, boundVars>>

Rebuild ==
  /\ ~sync.up /\ ~server.up /\ era < MaxEra /\ MayGrow
  /\ era' = era + 1
  /\ members' = Home
  /\ deployed' = [c \in Channels |-> {}]
  /\ chain' = [c \in Channels |-> <<>>]
  /\ UNCHANGED <<joined, dbVars, syncVars, serverVars, boundVars>>

-----------------------------------------------------------------------------
(* The processes start and stop together: the server forks the sync process *)
(* (only if it reached the network itself) and stops it with a signal, but  *)
(* does not watch for its end.                                               *)

\* SyncPlatform.initialize, up to its first round: no channel is listened to.
Initializing(up, chans) == [up |-> up, started |-> FALSE, hubs |-> {}, chans |-> chans]
\* FabricClient.initialize: the channels of queryChannels are known at once.
FreshSync(up) ==
  /\ sync' = Initializing(up, IF up THEN joined ELSE {})
  /\ round' = [fresh |-> {}, seen |-> {}]
  /\ task' = [t \in Tasks |-> Idle]
  /\ ds' = NoAnswer

\* getChannelsInfo joins channel with blocks and peer_ref_channel, of whatever era.
Listable == {c \in Channels : \E e \in Eras :
               /\ HasRow(<<c, e>>) /\ blockRows[<<c, e>>] > 0
               /\ \E d \in Channels, f \in Eras, n \in Nodes : rows[<< <<d, f>>, NodeRef(n)>>] > 0}

\* A server that does not reach the network takes its channels from the database
\* (initializeDetachClient), and shuts down again when there are none.
ServerChannels(attached) == IF attached THEN joined ELSE Listable
Start(attached) ==
  /\ ~server.up /\ starts < MaxStarts /\ TroubleLeft
  /\ attached \/ Listable # {}
  /\ starts' = starts + 1
  /\ server' = [up |-> TRUE, chans |-> ServerChannels(attached)]
  /\ mail' = <<>>
  /\ FreshSync(attached)
  /\ UNCHANGED <<netVars, dbVars, faults>>

StopExplorer ==
  /\ server' = NoServer
  /\ mail' = <<>>
  /\ FreshSync(FALSE)

Stop == /\ server.up /\ StopExplorer
        /\ UNCHANGED <<netVars, dbVars, boundVars>>

-----------------------------------------------------------------------------
(* The sync process. *)

Goto(t, pc) == task' = [task EXCEPT ![t].pc = pc]
At(t, pc) == sync.up /\ task[t].pc = pc

\* setTimeout(updateNetworkConfig, 30000), or the first round: queryChannels,
\* and initializeNewChannel for the channels not known yet.
BeginRound ==
  /\ At("loop", "idle")
  /\ round' = [fresh |-> joined \ sync.chans, seen |-> {}]
  /\ Goto("loop", "join")
  /\ UNCHANGED <<netVars, dbVars, sync, ds, serverVars, boundVars>>

\* queryChannels answers nothing: the round is over.  A first round is followed
\* by the listeners of the channels known.
Listening(s) == [s EXCEPT !.started = TRUE,
                          !.hubs = IF s.started THEN @ ELSE s.chans]
QueryChannelsFails ==
  /\ At("loop", "idle") /\ FaultHappens
  /\ sync' = Listening(sync)
  /\ UNCHANGED <<netVars, dbVars, round, task, ds, serverVars, starts>>

InitializeNewChannel(c) ==
  /\ At("loop", "join") /\ c \in round.fresh
  /\ sync' = [sync EXCEPT !.chans = @ \cup {c}]
  /\ round' = [round EXCEPT !.fresh = @ \ {c}]
  /\ UNCHANGED <<netVars, dbVars, task, ds, serverVars, boundVars>>

\* The for loop also visits the channels pushed while it runs.
NextChannel(c) ==
  /\ At("loop", "join") /\ round.fresh = {}
  /\ c \in sync.chans \ round.seen
  /\ round' = [round EXCEPT !.seen = @ \cup {c}]
  /\ task' = [task EXCEPT !["loop"] = [Idle EXCEPT !.pc = "lookup", !.ch = c]]
  /\ UNCHANGED <<netVars, dbVars, sync, ds, serverVars, boundVars>>

EndRound ==
  /\ At("loop", "join") /\ round.fresh = {} /\ sync.chans = round.seen
  /\ sync' = Listening(sync)
  /\ task' = [task EXCEPT !["loop"] = Idle]
  /\ UNCHANGED <<netVars, dbVars, round, ds, serverVars, boundVars>>

\* insertNewChannel: getChannel, existChannel, saveChannel.
\* What if a recorded channel of that name were not found?
NeverFound(c) == FALSE
RowOfChannel(c) == HasRow(Hash(c))

RowOfName(c) == \E e \in Eras : HasRow(<<c, e>>)
\* What if the row started with the number of the last block, or the height?
NumberOfLastBlock(c) == Len(chain[c]) - 1
HeightOfLedger(c) == Len(chain[c])
NewRowBlocks(c) == 0

\* What if every round saved the channel it found?
SavedAgain(c) == IF RowOfChannel(c) THEN "save" ELSE "exist"
AfterGetChannel(c) == IF RowOfChannel(c) THEN "discover" ELSE "exist"

GetChannel ==
  /\ At("loop", "lookup")
  /\ Goto("loop", AfterGetChannel(task["loop"].ch))
  /\ UNCHANGED <<netVars, dbVars, sync, round, ds, serverVars, boundVars>>

ExistChannel ==
  /\ At("loop", "exist") /\ ~RowOfName(task["loop"].ch)
  /\ Goto("loop", "save")
  /\ UNCHANGED <<netVars, dbVars, sync, round, ds, serverVars, boundVars>>

\* Another network of that name is recorded: tell the server, and stop.
ExistChannelElsewhere ==
  /\ At("loop", "exist") /\ RowOfName(task["loop"].ch)
  /\ mail' = Append(mail, <<"EXISTCHANNEL", task["loop"].ch>>)
  /\ FreshSync(FALSE)
  /\ UNCHANGED <<netVars, dbVars, server, boundVars>>

\* Inserts the row, or sets the counters of the one it finds.
SaveChannel ==
  /\ At("loop", "save")
  /\ channelRow' = [channelRow EXCEPT ![Hash(task["loop"].ch)] = NewRowBlocks(task["loop"].ch)]
  /\ Goto("loop", "discover")
  /\ UNCHANGED <<netVars, rows, blockRows, txRows, txCount, sync, round, ds, serverVars, boundVars>>

-----------------------------------------------------------------------------
(* insertFromDiscoveryResults, of the loop and of the timers.  All of them   *)
(* use the one DiscoveryService in this.ds: setupDiscoveryRequest replaces   *)
(* it, and the results are read from whatever it is when the answer comes.   *)

SetupDiscovery(t) ==
  /\ At(t, "discover")
  /\ ds' = [by |-> t, ch |-> task[t].ch, answered |-> FALSE]
  /\ Goto(t, "collect")
  /\ UNCHANGED <<netVars, dbVars, sync, round, serverVars, boundVars>>

\* The channel whose results getDiscoveryResults returns, if it returns any.
AnsweredChannel(t) ==
  IF ds.by = t \/ ds.answered THEN ds.ch ELSE NoChannel

\* What if only peers were inserted from the results?
FoundPeers(t, c) ==
  task' = [task EXCEPT ![t].pc = "nodes", ![t].nodes = members[c] \ Orderers,
                       ![t].todo = NodeItems(members[c] \ Orderers)]
Found(t, c) ==
  task' = [task EXCEPT ![t].pc = "nodes", ![t].nodes = members[c],
                       ![t].todo = NodeItems(members[c])]
\* No results: nothing is inserted but, by the loop, the chaincodes.
NotFound(t) ==
  task' = [task EXCEPT ![t] = IF t = "loop" THEN [@ EXCEPT !.pc = "query", !.last = TRUE]
                                            ELSE [@ EXCEPT !.pc = "chaincodes"]]

CollectDiscovery(t) ==
  /\ At(t, "collect")
  /\ LET c == AnsweredChannel(t) IN
       IF c = NoChannel
       THEN /\ ds' = NoAnswer /\ NotFound(t)
       ELSE /\ ds' = [ds EXCEPT !.answered = TRUE] /\ Found(t, c)
  /\ UNCHANGED <<netVars, dbVars, sync, round, serverVars, boundVars>>

\* The request fails: sendDiscoveryRequest catches it and returns null.
DiscoveryFails(t) ==
  /\ At(t, "collect") /\ FaultHappens
  /\ ds' = NoAnswer /\ NotFound(t)
  /\ UNCHANGED <<netVars, dbVars, sync, round, serverVars, starts>>

AllSaved(t, pc) == At(t, pc) /\ task[t].todo = {} /\ task[t].item = NoItem

\* insertNewChannelChaincode: queryInstantiatedChaincodes of the channel, with
\* the peers discovered; the loop calls it once more without them.
QueryChaincodes(t) ==
  /\ At(t, "query") \/ AllSaved(t, "nodes")
  /\ LET ns == IF t = "loop" /\ task[t].last THEN {} ELSE task[t].nodes
     IN task' = [task EXCEPT ![t].pc = "chaincodes",
                             ![t].todo = ChaincodeItems(ns, deployed[task[t].ch])]
  /\ UNCHANGED <<netVars, dbVars, sync, round, ds, serverVars, boundVars>>

\* savePeer, savePeerChannelRef, saveChaincode, saveChaincodPeerRef: select
\* count(1), and insert when it is zero.
Inserting(t) == task[t].pc \in {"nodes", "chaincodes"} /\ sync.up
RowKey(t, i) == <<Hash(task[t].ch), i>>
IsValidRow(t, i) == rows[RowKey(t, i)] = 0

SelectRow(t) ==
  /\ Inserting(t) /\ task[t].item = NoItem /\ task[t].todo # {}
  /\ LET i == CHOOSE i \in task[t].todo : TRUE       \* in the order of the answer
     IN task' = [task EXCEPT ![t].todo = @ \ {i},
                             ![t].item = IF IsValidRow(t, i) THEN i ELSE NoItem]
  /\ UNCHANGED <<netVars, dbVars, sync, round, ds, serverVars, boundVars>>

SaveRow(t) ==
  /\ Inserting(t) /\ task[t].item # NoItem
  /\ rows' = [rows EXCEPT ![RowKey(t, task[t].item)] = @ + 1]
  /\ task' = [task EXCEPT ![t].item = NoItem]
  /\ UNCHANGED <<netVars, channelRow, blockRows, txRows, txCount,
                 sync, round, ds, serverVars, boundVars>>

ChaincodesSaved ==
  /\ AllSaved("loop", "chaincodes")
  /\ task' = [task EXCEPT !["loop"].pc = IF task["loop"].last THEN "join" ELSE "query",
                          !["loop"].last = TRUE]
  /\ UNCHANGED <<netVars, dbVars, sync, round, ds, serverVars, boundVars>>

\* A timer ends with its notification.
Notify(t) ==
  /\ t \in Timers /\ AllSaved(t, "chaincodes")
  /\ mail' = Append(mail, <<IF task[t].last THEN "CHAINCODE" ELSE "UPDATECHANNEL", task[t].ch>>)
  /\ task' = [task EXCEPT ![t] = Idle]
  /\ UNCHANGED <<netVars, dbVars, sync, round, ds, server, boundVars>>

\* A rejection nobody handles: sync.ts shuts the process down unless it is a
\* timeout; but then the loop has not scheduled its next round, and has ended.
Rejected(t) ==
  /\ sync.up /\ task[t].pc \notin {"idle", "dead"}
  /\ FaultHappens
  /\ UNCHANGED <<netVars, dbVars, serverVars, starts>>
TaskTimesOut(t) ==
  /\ Rejected(t)
  /\ task' = [task EXCEPT ![t] = IF t = "loop" THEN [Idle EXCEPT !.pc = "dead"] ELSE Idle]
  /\ UNCHANGED <<sync, round, ds>>
TaskFails(t) == Rejected(t) /\ FreshSync(FALSE)

-----------------------------------------------------------------------------
(* The interval connects listeners; the listeners copy blocks. *)

ConnectHub(c) ==
  /\ sync.up /\ sync.started /\ c \in sync.chans \ sync.hubs
  /\ sync' = [sync EXCEPT !.hubs = @ \cup {c}]
  /\ UNCHANGED <<netVars, dbVars, round, task, ds, serverVars, boundVars>>

\* Columns blocks of channel and txcount of chaincodes: an UPDATE of the row,
\* which changes nothing when there is no row yet.
CountedBlocks(h) == IF HasRow(h) THEN channelRow[h] + 1 ELSE NoRow

CountedTx(h, cc) == IF rows[<<h, ChaincodeRow(cc)>>] > 0 THEN txCount[<<h, cc>>] + 1
                                                          ELSE txCount[<<h, cc>>]

\* processBlockEvent, for the next block of the channel.
ProcessBlock(c) ==
  LET h == Hash(c)  b == chain[c][blockRows[h] + 1] IN
    /\ sync.up /\ c \in sync.hubs
    /\ blockRows[h] < Len(chain[c])
    /\ blockRows' = [blockRows EXCEPT ![h] = @ + 1]
    /\ channelRow' = [channelRow EXCEPT ![h] = CountedBlocks(h)]
    /\ IF b[1] = "invoke"
       THEN /\ txRows' = [txRows EXCEPT ![<<h, b[2]>>] = @ + 1]
            /\ txCount' = [txCount EXCEPT ![<<h, b[2]>>] = CountedTx(h, b[2])]
            /\ UNCHANGED task
       ELSE /\ \E t \in Timers : /\ task[t].pc = "idle"
                                 /\ task' = [task EXCEPT ![t] = Scheduled(b[1], c)]
            /\ UNCHANGED <<txRows, txCount>>
    /\ UNCHANGED <<netVars, rows, sync, round, ds, serverVars, boundVars>>

-----------------------------------------------------------------------------
(* The server: Proxy.processSyncMessage and Proxy.getChannels. *)

ProcessSyncMessage ==
  /\ server.up /\ mail # <<>>
  /\ IF Head(mail)[1] = "EXISTCHANNEL"
     THEN StopExplorer             \* thrown in the handler: the process shuts down
     ELSE /\ server' = [server EXCEPT !.chans = @ \cup {Head(mail)[2]}]
          /\ mail' = Tail(mail)
          /\ UNCHANGED syncVars
  /\ UNCHANGED <<netVars, dbVars, boundVars>>

\* Those of the list the server does not know yet are initialized.
Initialized == server.chans \cup Listable

GetChannels ==
  /\ server.up /\ Listable \subseteq joined
  /\ server' = [server EXCEPT !.chans = Initialized]
  /\ UNCHANGED <<netVars, dbVars, syncVars, mail, boundVars>>

-----------------------------------------------------------------------------
Network ==
  \/ Rebuild
  \/ \E c \in Channels :
       \/ JoinChannel(c)
       \/ \E n \in Nodes : AddNode(c, n)
       \/ \E cc \in Chaincodes : Deploy(c, cc) \/ Invoke(c, cc)
Operator == Stop \/ \E attached \in BOOLEAN : Start(attached)
LoopStep ==
  \/ BeginRound \/ EndRound
  \/ \E c \in Channels : InitializeNewChannel(c) \/ NextChannel(c)
  \/ GetChannel \/ ExistChannel \/ ExistChannelElsewhere \/ SaveChannel
  \/ ChaincodesSaved
Discovery(t) ==
  \/ SetupDiscovery(t) \/ CollectDiscovery(t) \/ QueryChaincodes(t)
  \/ SelectRow(t)
  \/ SaveRow(t) \/ Notify(t)
Step(t) == (t = "loop" /\ LoopStep) \/ Discovery(t)
Fault == QueryChannelsFails \/ \E t \in Tasks : DiscoveryFails(t) \/ TaskTimesOut(t) \/ TaskFails(t)
Listener == \E c \in Channels : ConnectHub(c) \/ ProcessBlock(c)
Next == Network \/ Operator \/ (\E t \in Tasks : Step(t)) \/ Fault \/ Listener
          \/ ProcessSyncMessage \/ GetChannels

\* The event loop of the sync process goes on with the loop, and its timer fires.
\* Nothing obliges the timers of the discovery, the server, the listeners, the
\* network, the operator, the user or a failure.
Fairness == WF_vars(Step("loop"))
Spec == Init /\ [][Next]_vars /\ Fairness

-----------------------------------------------------------------------------
(* Properties. *)

\* A network has one row per channel name: after the network was rebuilt, the
\* rows of the old one are never mixed with a second row of the same name
\* (insertNewChannel looks for the name before it inserts).
OneNetworkPerChannel ==
  \A c \in Channels, e, f \in Eras : HasRow(<<c, e>>) /\ HasRow(<<c, f>>) => e = f

\* The counters the lists show never run ahead of the rows they count, in
\* whatever order the loop, the timers and the listeners interleave.
CountersBounded ==
  /\ \A h \in Hashes : HasRow(h) => channelRow[h] <= blockRows[h]
  /\ \A t \in Hashes \X Chaincodes : txCount[t] <= txRows[t]

\* And once shown they never fall: no later round or restart saves a channel
\* over its own row (saveChannel would reset it).
CountersOnlyGrow ==
  [][/\ \A h \in Hashes : HasRow(h) => HasRow(h)' /\ channelRow[h] <= channelRow'[h]
     /\ \A t \in Hashes \X Chaincodes : txCount[t] <= txCount'[t]]_vars

\* While the loop lives, the moment comes again and again when every node that is
\* in a channel is recorded there, also when discoveries failed or were answered
\* with another channel's results before.
LoopAlive == sync.up /\ task["loop"].pc # "dead"
Recorded(c, n) == rows[<<Hash(c), NodeRow(n)>>] > 0 /\ rows[<<Hash(c), NodeRef(n)>>] > 0
MembersAreRecorded ==
  []<>(LoopAlive => \A c \in joined : \A n \in members[c] : Recorded(c, n))
=============================================================================
