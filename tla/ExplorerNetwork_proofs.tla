------------------------- MODULE ExplorerNetwork_proofs -------------------------
(***************************************************************************)
(* Theorems about what Explorer records of the network, for any channels,  *)
(* nodes, chaincodes and timers, any number of rebuilt networks, starts    *)
(* and failures, and blocks of any number.                                 *)
(***************************************************************************)
EXTENDS ExplorerNetwork, TLAPS

-----------------------------------------------------------------------------
(* Types. *)

TaskRecords ==
  [pc: {"idle", "dead", "join", "lookup", "exist", "save",
        "discover", "collect", "nodes", "query", "chaincodes"},
   ch: Channels \cup {NoChannel}, todo: SUBSET Items,
   item: Items \cup {NoItem}, nodes: SUBSET Nodes, last: BOOLEAN]
SyncRecords == [up: BOOLEAN, started: BOOLEAN,
                chans: SUBSET Channels, hubs: SUBSET Channels]
Rounds == [fresh: SUBSET Channels, seen: SUBSET Channels]
Answers == [by: Tasks \cup {Nobody}, ch: Channels \cup {NoChannel}, answered: BOOLEAN]
Servers == [up: BOOLEAN, chans: SUBSET Channels]
Mails == {"UPDATECHANNEL", "CHAINCODE", "EXISTCHANNEL"} \X Channels

\* A block that invokes names a chaincode.
ChainOK == \A c \in Channels : \A i \in 1..Len(chain[c]) :
             chain[c][i][1] = "invoke" => chain[c][i][2] \in Chaincodes

NetOK ==
  /\ joined \subseteq Channels /\ era \in Eras
  /\ members \in [Channels -> SUBSET Nodes]
  /\ deployed \in [Channels -> SUBSET Chaincodes]
  /\ chain \in [Channels -> Seq(Blocks)]
  /\ ChainOK
DbOK ==
  /\ channelRow \in [Hashes -> Nat \cup {NoRow}]
  /\ rows \in [Hashes \X Items -> Nat]
  /\ blockRows \in [Hashes -> Nat]
  /\ txRows \in [Hashes \X Chaincodes -> Nat]
  /\ txCount \in [Hashes \X Chaincodes -> Nat]
\* A task that works on a channel names it.
Working == {"lookup", "exist", "save", "discover", "collect", "nodes", "query", "chaincodes"}
TasksOK == /\ task \in [Tasks -> TaskRecords]
           /\ \A t \in Tasks : task[t].pc \in Working => task[t].ch \in Channels
SyncOK == sync \in SyncRecords /\ round \in Rounds /\ TasksOK /\ ds \in Answers
ServerOK == server \in Servers /\ mail \in Seq(Mails)
BoundsOK == faults \in 0..MaxFaults /\ starts \in 0..MaxStarts

TypeInv == NetOK /\ DbOK /\ SyncOK /\ ServerOK /\ BoundsOK

LEMMA TypeInvTypes == TypeInv => TypeOK
  BY DEF TypeInv, TypeOK, NetOK, DbOK, SyncOK, TasksOK, ServerOK, BoundsOK,
         TaskRecords, SyncRecords, Rounds, Answers, Servers, Mails

LEMMA ItemTypes ==
  /\ \A ns \in SUBSET Nodes : NodeItems(ns) \subseteq Items
  /\ \A ns \in SUBSET Nodes, ccs \in SUBSET Chaincodes : ChaincodeItems(ns, ccs) \subseteq Items
  /\ \A n \in Nodes : NodeRef(n) \in Items /\ NodeRow(n) \in Items
  /\ \A cc \in Chaincodes : ChaincodeRow(cc) \in Items
  <1>1. \A ns \in SUBSET Nodes : NodeItems(ns) \subseteq NodeItems(Nodes)
    BY DEF NodeItems
  <1>2. ASSUME NEW ns \in SUBSET Nodes, NEW ccs \in SUBSET Chaincodes
        PROVE  ChaincodeItems(ns, ccs) \subseteq ChaincodeItems(Nodes, Chaincodes)
    <2>1. (ns \ Orderers) \X ccs \subseteq (Nodes \ Orderers) \X Chaincodes
      OBVIOUS
    <2>2. QED BY <2>1 DEF ChaincodeItems
  <1>3. \A n \in Nodes : NodeRef(n) \in NodeItems(Nodes) /\ NodeRow(n) \in NodeItems(Nodes)
    BY DEF NodeItems
  <1>4. \A cc \in Chaincodes : ChaincodeRow(cc) \in ChaincodeItems(Nodes, Chaincodes)
    BY DEF ChaincodeItems
  <1>5. QED BY <1>1, <1>2, <1>3, <1>4 DEF Items

LEMMA HashType ==
  ASSUME era \in Eras, NEW c \in Channels
  PROVE  Hash(c) \in Hashes
  BY DEF Hash, Hashes

LEMMA TaskTypes ==
  /\ Idle \in TaskRecords /\ Idle.pc = "idle"
  /\ \A why, c : c \in Channels => /\ Scheduled(why, c) \in TaskRecords
                                   /\ Scheduled(why, c).pc = "discover"
                                   /\ Scheduled(why, c).ch = c
  BY DEF Idle, Scheduled, TaskRecords

LEMMA FreshType ==
  ASSUME NetOK, NEW up \in BOOLEAN, FreshSync(up)
  PROVE  SyncOK' /\ task' = [t \in Tasks |-> Idle]
  <1>1. sync' \in SyncRecords
    BY DEF FreshSync, Initializing, SyncRecords, NetOK
  <1>2. round' \in Rounds
    BY DEF FreshSync, Rounds
  <1>3. ds' \in Answers
    BY DEF FreshSync, Answers, NoAnswer
  <1>4. TasksOK' /\ task' = [t \in Tasks |-> Idle]
    BY TaskTypes DEF FreshSync, TasksOK, Working
  <1>5. QED BY <1>1, <1>2, <1>3, <1>4 DEF SyncOK

LEMMA TypeInit == Init => TypeInv
  <1> SUFFICES ASSUME Init PROVE TypeInv
    OBVIOUS
  <1>1. NetOK
    BY NetworkAssumption DEF Init, NetOK, ChainOK, Eras
  <1>2. DbOK
    BY DEF Init, DbOK
  <1>3. SyncOK
    BY TaskTypes DEF Init, SyncOK, SyncRecords, Rounds, Answers, NoAnswer, TasksOK, Working
  <1>4. ServerOK /\ BoundsOK
    BY NetworkAssumption DEF Init, ServerOK, BoundsOK, Servers, NoServer
  <1>5. QED BY <1>1, <1>2, <1>3, <1>4 DEF TypeInv

(* What an action leaves alone keeps its type. *)
LEMMA Frames ==
  /\ NetOK /\ UNCHANGED netVars => NetOK'
  /\ DbOK /\ UNCHANGED dbVars => DbOK'
  /\ SyncOK /\ UNCHANGED syncVars => SyncOK'
  /\ ServerOK /\ UNCHANGED serverVars => ServerOK'
  /\ BoundsOK /\ UNCHANGED boundVars => BoundsOK'
  BY DEF NetOK, ChainOK, netVars, DbOK, dbVars, SyncOK, TasksOK, syncVars,
         ServerOK, serverVars, BoundsOK, boundVars

LEMMA ExtendType ==
  ASSUME NetOK, NEW c \in Channels, NEW b \in Blocks, Extend(c, b),
         b[1] = "invoke" => b[2] \in Chaincodes
  PROVE  chain' \in [Channels -> Seq(Blocks)] /\ ChainOK'
  <1>1. chain' \in [Channels -> Seq(Blocks)] /\ chain \in [Channels -> Seq(Blocks)]
    BY DEF NetOK, Extend
  <1>2. \A d \in Channels \ {c} : chain'[d] = chain[d]
    BY <1>1 DEF Extend
  <1>3. chain'[c] = Append(chain[c], b)
    BY <1>1 DEF Extend
  <1>4. ASSUME NEW i \in 1..Len(chain'[c]), chain'[c][i][1] = "invoke"
        PROVE  chain'[c][i][2] \in Chaincodes
    <2>1. chain[c] \in Seq(Blocks)
      BY <1>1
    <2>2. CASE i \in 1..Len(chain[c])
      BY <1>3, <1>4, <2>1, <2>2 DEF NetOK, ChainOK
    <2>3. CASE i = Len(chain[c]) + 1
      BY <1>3, <1>4, <2>1, <2>3
    <2>4. QED BY <1>3, <2>1, <2>2, <2>3
  <1>5. QED BY <1>1, <1>2, <1>4 DEF ChainOK, NetOK

LEMMA NetworkType ==
  ASSUME TypeInv, Network
  PROVE  TypeInv'
  <1>1. NetOK
    BY DEF TypeInv
  <1>2. UNCHANGED <<dbVars, syncVars, serverVars, boundVars>>
    BY DEF Network, Rebuild, JoinChannel, AddNode, Deploy, Invoke
  <1>3. NetOK'
    <2>1. CASE Rebuild
      BY <1>1, <2>1, NetworkAssumption DEF Rebuild, NetOK, ChainOK, Eras
    <2>2. ASSUME NEW c \in Channels, JoinChannel(c) PROVE NetOK'
      BY <1>1, <2>2 DEF JoinChannel, NetOK, ChainOK
    <2>3. ASSUME NEW c \in Channels, NEW n \in Nodes, AddNode(c, n) PROVE NetOK'
      <3>1. chain' \in [Channels -> Seq(Blocks)] /\ ChainOK'
        BY <1>1, <2>3, ExtendType DEF AddNode, Blocks
      <3>2. QED BY <1>1, <2>3, <3>1 DEF AddNode, NetOK
    <2>4. ASSUME NEW c \in Channels, NEW cc \in Chaincodes, Deploy(c, cc) PROVE NetOK'
      <3>1. chain' \in [Channels -> Seq(Blocks)] /\ ChainOK'
        BY <1>1, <2>4, ExtendType DEF Deploy, Blocks
      <3>2. QED BY <1>1, <2>4, <3>1 DEF Deploy, NetOK
    <2>5. ASSUME NEW c \in Channels, NEW cc \in Chaincodes, Invoke(c, cc) PROVE NetOK'
      <3>1. chain' \in [Channels -> Seq(Blocks)] /\ ChainOK'
        BY <1>1, <2>5, ExtendType DEF Invoke, Blocks
      <3>2. QED BY <1>1, <2>5, <3>1 DEF Invoke, NetOK
    <2>6. QED BY <2>1, <2>2, <2>3, <2>4, <2>5 DEF Network
  <1>4. QED BY <1>2, <1>3, Frames DEF TypeInv

LEMMA StopType ==
  ASSUME NetOK, StopExplorer
  PROVE  SyncOK' /\ ServerOK'
  <1>1. SyncOK'
    BY FreshType DEF StopExplorer
  <1>2. ServerOK'
    BY DEF StopExplorer, ServerOK, Servers, NoServer
  <1>3. QED BY <1>1, <1>2

LEMMA OperatorType ==
  ASSUME TypeInv, Operator
  PROVE  TypeInv'
  <1>1. CASE Stop
    BY <1>1, StopType, Frames DEF Stop, TypeInv
  <1>2. ASSUME NEW attached \in BOOLEAN, Start(attached) PROVE TypeInv'
    <2>1. ServerChannels(attached) \in SUBSET Channels
      BY DEF ServerChannels, Listable, TypeInv, NetOK
    <2>2. ServerOK'
      BY <1>2, <2>1 DEF Start, ServerOK, Servers
    <2>3. SyncOK'
      BY <1>2, FreshType DEF Start, TypeInv
    <2>4. BoundsOK'
      BY <1>2, NetworkAssumption DEF Start, TypeInv, BoundsOK
    <2>5. QED BY <1>2, <2>2, <2>3, <2>4, Frames DEF Start, TypeInv
  <1>3. QED BY <1>1, <1>2 DEF Operator

(* How a task moves on. *)
LEMMA TaskStep ==
  ASSUME TasksOK, NEW t \in Tasks, NEW r \in TaskRecords, r.pc \in Working => r.ch \in Channels,
         task' = [task EXCEPT ![t] = r]
  PROVE  TasksOK'
  BY DEF TasksOK

LEMMA GotoType ==
  ASSUME TasksOK, NEW t \in Tasks, NEW pc \in Working \cup {"join"},
         pc \in Working => task[t].ch \in Channels, Goto(t, pc)
  PROVE  TasksOK'
  <1> DEFINE r == [task[t] EXCEPT !.pc = pc]
  <1>1. r \in TaskRecords /\ r.pc = pc /\ r.ch = task[t].ch
    BY DEF TasksOK, TaskRecords, Working
  <1>2. task' = [task EXCEPT ![t] = r]
    BY DEF Goto, TasksOK
  <1> HIDE DEF r
  <1>3. QED BY <1>1, <1>2, TaskStep

LEMMA LoopIsTask == "loop" \in Tasks /\ Timers \subseteq Tasks /\ Nobody \notin Tasks
  BY NetworkAssumption DEF Tasks

LEMMA WorkingChannel ==
  ASSUME SyncOK, NEW t \in Tasks, task[t].pc \in Working
  PROVE  task[t].ch \in Channels
  BY DEF SyncOK, TasksOK

LEMMA LoopType ==
  ASSUME TypeInv, LoopStep
  PROVE  TypeInv'
  <1>0. NetOK /\ DbOK /\ SyncOK /\ ServerOK /\ BoundsOK /\ TasksOK
    BY DEF TypeInv, SyncOK
  <1> USE LoopIsTask
  <1>1. CASE BeginRound
    <2>1. TasksOK'
      BY <1>0, <1>1, GotoType DEF BeginRound, Working
    <2>2. round' \in Rounds
      BY <1>0, <1>1 DEF BeginRound, Rounds, NetOK
    <2>3. QED BY <1>0, <1>1, <2>1, <2>2, Frames DEF BeginRound, TypeInv, SyncOK
  <1>2. CASE EndRound
    <2>1. TasksOK'
      BY <1>0, <1>2, TaskStep, TaskTypes DEF EndRound, Working
    <2>2. sync' \in SyncRecords
      BY <1>0, <1>2 DEF EndRound, Listening, SyncOK, SyncRecords
    <2>3. QED BY <1>0, <1>2, <2>1, <2>2, Frames DEF EndRound, TypeInv, SyncOK
  <1>3. ASSUME NEW c \in Channels, InitializeNewChannel(c) PROVE TypeInv'
    <2>1. sync' \in SyncRecords /\ round' \in Rounds
      BY <1>0, <1>3 DEF InitializeNewChannel, SyncOK, SyncRecords, Rounds
    <2>2. TasksOK'
      BY <1>0, <1>3 DEF InitializeNewChannel, TasksOK
    <2>3. QED BY <1>0, <1>3, <2>1, <2>2, Frames DEF InitializeNewChannel, TypeInv, SyncOK
  <1>4. ASSUME NEW c \in Channels, NextChannel(c) PROVE TypeInv'
    <2> DEFINE r == [Idle EXCEPT !.pc = "lookup", !.ch = c]
    <2>1. r \in TaskRecords /\ r.ch = c
      BY DEF Idle, TaskRecords
    <2>2. TasksOK'
      <3> HIDE DEF r
      <3>1. task' = [task EXCEPT !["loop"] = r]
        BY <1>4 DEF NextChannel, r
      <3>2. QED BY <1>0, <2>1, <3>1, TaskStep
    <2>3. round' \in Rounds
      BY <1>0, <1>4 DEF NextChannel, SyncOK, Rounds
    <2>4. QED BY <1>0, <1>4, <2>2, <2>3, Frames DEF NextChannel, TypeInv, SyncOK
  <1>5. CASE GetChannel
    <2>1. task["loop"].ch \in Channels
      BY <1>0, <1>5, WorkingChannel DEF GetChannel, At, Working
    <2>2. TasksOK'
      BY <1>0, <1>5, <2>1, GotoType DEF GetChannel, AfterGetChannel, Working
    <2>3. QED BY <1>0, <1>5, <2>2, Frames DEF GetChannel, TypeInv, SyncOK
  <1>6. CASE ExistChannel
    <2>1. task["loop"].ch \in Channels
      BY <1>0, <1>6, WorkingChannel DEF ExistChannel, At, Working
    <2>2. TasksOK'
      BY <1>0, <1>6, <2>1, GotoType DEF ExistChannel, Working
    <2>3. QED BY <1>0, <1>6, <2>2, Frames DEF ExistChannel, TypeInv, SyncOK
  <1>7. CASE ExistChannelElsewhere
    <2>1. task["loop"].ch \in Channels
      BY <1>0, <1>7, WorkingChannel DEF ExistChannelElsewhere, At, Working
    <2>2. mail' \in Seq(Mails) /\ server' = server
      BY <1>0, <1>7, <2>1 DEF ExistChannelElsewhere, ServerOK, Mails
    <2>3. SyncOK'
      BY <1>0, <1>7, FreshType DEF ExistChannelElsewhere
    <2>4. QED BY <1>0, <1>7, <2>2, <2>3, Frames DEF ExistChannelElsewhere, TypeInv, ServerOK
  <1>8. CASE SaveChannel
    <2>1. task["loop"].ch \in Channels
      BY <1>0, <1>8, WorkingChannel DEF SaveChannel, At, Working
    <2>2. TasksOK'
      BY <1>0, <1>8, <2>1, GotoType DEF SaveChannel, Working
    <2>3. DbOK'
      BY <1>0, <1>8 DEF SaveChannel, DbOK, NewRowBlocks
    <2>4. QED BY <1>0, <1>8, <2>2, <2>3, Frames DEF SaveChannel, TypeInv, SyncOK
  <1>9. CASE ChaincodesSaved
    <2> DEFINE r == [task["loop"] EXCEPT !.pc = IF task["loop"].last THEN "join" ELSE "query",
                                         !.last = TRUE]
    <2>1. task["loop"].ch \in Channels
      BY <1>0, <1>9, WorkingChannel DEF ChaincodesSaved, AllSaved, At, Working
    <2>2. r \in TaskRecords /\ r.ch = task["loop"].ch
      BY <1>0 DEF TaskRecords, TasksOK
    <2>3. task' = [task EXCEPT !["loop"] = r]
      BY <1>0, <1>9 DEF ChaincodesSaved, TasksOK
    <2> HIDE DEF r
    <2>4. TasksOK'
      BY <1>0, <2>1, <2>2, <2>3, TaskStep
    <2>5. QED BY <1>0, <1>9, <2>4, Frames DEF ChaincodesSaved, TypeInv, SyncOK
  <1>10. QED
    BY <1>1, <1>2, <1>3, <1>4, <1>5, <1>6, <1>7, <1>8, <1>9 DEF LoopStep

LEMMA NotFoundType ==
  ASSUME TasksOK, NEW t \in Tasks, task[t].ch \in Channels, NotFound(t)
  PROVE  TasksOK'
  <1> DEFINE r == IF t = "loop" THEN [task[t] EXCEPT !.pc = "query", !.last = TRUE]
                                ELSE [task[t] EXCEPT !.pc = "chaincodes"]
  <1>1. r \in TaskRecords /\ r.ch = task[t].ch
    BY DEF TaskRecords, TasksOK
  <1>2. task' = [task EXCEPT ![t] = r]
    BY DEF NotFound, TasksOK
  <1> HIDE DEF r
  <1>3. QED BY <1>1, <1>2, TaskStep

LEMMA DiscoveryType ==
  ASSUME TypeInv, NEW t \in Tasks, Discovery(t)
  PROVE  TypeInv'
  <1>0. NetOK /\ DbOK /\ SyncOK /\ ServerOK /\ BoundsOK /\ TasksOK
    BY DEF TypeInv, SyncOK
  <1>1. CASE SetupDiscovery(t)
    <2>1. task[t].ch \in Channels
      BY <1>0, <1>1, WorkingChannel DEF SetupDiscovery, At, Working
    <2>2. TasksOK'
      BY <1>0, <1>1, <2>1, GotoType DEF SetupDiscovery, Working
    <2>3. ds' \in Answers
      BY <1>1, <2>1 DEF SetupDiscovery, Answers
    <2>4. QED BY <1>0, <1>1, <2>2, <2>3, Frames DEF SetupDiscovery, TypeInv, SyncOK
  <1>2. CASE CollectDiscovery(t)
    <2>1. task[t].ch \in Channels
      BY <1>0, <1>2, WorkingChannel DEF CollectDiscovery, At, Working
    <2>2. CASE AnsweredChannel(t) = NoChannel
      <3>0. ds' = NoAnswer /\ NotFound(t)
        BY <1>2, <2>2 DEF CollectDiscovery
      <3>1. ds' \in Answers
        BY <3>0 DEF Answers, NoAnswer
      <3>2. TasksOK'
        BY <1>0, <2>1, <3>0, NotFoundType
      <3>3. QED BY <1>0, <1>2, <3>1, <3>2, Frames DEF CollectDiscovery, TypeInv, SyncOK
    <2>3. CASE AnsweredChannel(t) # NoChannel
      <3> DEFINE c == AnsweredChannel(t)
                 r == [task[t] EXCEPT !.pc = "nodes", !.nodes = members[c],
                                      !.todo = NodeItems(members[c])]
      <3>1. c \in Channels
        BY <1>0, <2>3 DEF AnsweredChannel, SyncOK, Answers
      <3>2. ds' = [ds EXCEPT !.answered = TRUE] /\ Found(t, c)
        BY <1>2, <2>3 DEF CollectDiscovery
      <3> HIDE DEF c
      <3>3. ds' \in Answers
        BY <1>0, <3>2 DEF SyncOK, Answers
      <3>4. members[c] \in SUBSET Nodes /\ NodeItems(members[c]) \in SUBSET Items
        BY <1>0, <3>1, ItemTypes DEF NetOK
      <3>5. r \in TaskRecords /\ r.ch = task[t].ch
        BY <1>0, <3>4 DEF TaskRecords, TasksOK
      <3>6. task' = [task EXCEPT ![t] = r]
        BY <1>0, <3>2 DEF Found, TasksOK
      <3> HIDE DEF r
      <3>7. TasksOK'
        BY <1>0, <2>1, <3>5, <3>6, TaskStep
      <3>8. QED BY <1>0, <1>2, <3>3, <3>7, Frames DEF CollectDiscovery, TypeInv, SyncOK
    <2>4. QED BY <2>2, <2>3
  <1>3. CASE QueryChaincodes(t)
    <2> DEFINE ns == IF t = "loop" /\ task[t].last THEN {} ELSE task[t].nodes
               items == ChaincodeItems(ns, deployed[task[t].ch])
               r == [task[t] EXCEPT !.pc = "chaincodes", !.todo = items]
    <2>1. task[t].ch \in Channels
      BY <1>0, <1>3, WorkingChannel DEF QueryChaincodes, AllSaved, At, Working
    <2>2. ns \in SUBSET Nodes /\ deployed[task[t].ch] \in SUBSET Chaincodes
      BY <1>0, <2>1 DEF TasksOK, TaskRecords, NetOK
    <2>3. items \in SUBSET Items
      BY <2>2, ItemTypes
    <2>4. task' = [task EXCEPT ![t] = r]
      BY <1>0, <1>3 DEF QueryChaincodes, TasksOK
    <2> HIDE DEF ns, items
    <2>5. r \in TaskRecords /\ r.ch = task[t].ch
      BY <1>0, <2>3 DEF TaskRecords, TasksOK
    <2> HIDE DEF r
    <2>6. TasksOK'
      BY <1>0, <2>1, <2>4, <2>5, TaskStep
    <2>7. QED BY <1>0, <1>3, <2>6, Frames DEF QueryChaincodes, TypeInv, SyncOK
  <1>4. CASE SelectRow(t)
    <2>0. PICK i \in task[t].todo :
            task' = [task EXCEPT ![t].todo = @ \ {i},
                                 ![t].item = IF IsValidRow(t, i) THEN i ELSE NoItem]
      BY <1>4 DEF SelectRow
    <2> DEFINE r == [task[t] EXCEPT !.todo = @ \ {i},
                                    !.item = IF IsValidRow(t, i) THEN i ELSE NoItem]
    <2>1. task[t].ch \in Channels
      BY <1>0, <1>4, WorkingChannel DEF SelectRow, Inserting, Working
    <2>2. r \in TaskRecords /\ r.ch = task[t].ch
      BY <1>0, <2>0 DEF TaskRecords, TasksOK
    <2>3. task' = [task EXCEPT ![t] = r]
      BY <1>0, <2>0 DEF TasksOK
    <2> HIDE DEF r
    <2>4. TasksOK'
      BY <1>0, <2>1, <2>2, <2>3, TaskStep
    <2>5. QED BY <1>0, <1>4, <2>4, Frames DEF SelectRow, TypeInv, SyncOK
  <1>5. CASE SaveRow(t)
    <2> DEFINE r == [task[t] EXCEPT !.item = NoItem]
    <2>1. task[t].ch \in Channels /\ task[t].item \in Items
      BY <1>0, <1>5, WorkingChannel DEF SaveRow, Inserting, Working, TasksOK, TaskRecords
    <2>2. r \in TaskRecords /\ r.ch = task[t].ch
      BY <1>0 DEF TaskRecords, TasksOK
    <2>3. task' = [task EXCEPT ![t] = r]
      BY <1>0, <1>5 DEF SaveRow, TasksOK
    <2> HIDE DEF r
    <2>4. TasksOK'
      BY <1>0, <2>1, <2>2, <2>3, TaskStep
    <2>5. RowKey(t, task[t].item) \in Hashes \X Items
      BY <1>0, <2>1, HashType DEF RowKey, NetOK
    <2>6. rows' \in [Hashes \X Items -> Nat]
      <3>1. rows' = [rows EXCEPT ![RowKey(t, task[t].item)] = @ + 1]
        BY <1>5 DEF SaveRow
      <3>2. rows \in [Hashes \X Items -> Nat]
        BY <1>0 DEF DbOK
      <3>3. QED BY <2>5, <3>1, <3>2
    <2>7. DbOK'
      BY <1>0, <1>5, <2>6 DEF SaveRow, DbOK
    <2>8. QED BY <1>0, <1>5, <2>4, <2>7, Frames DEF SaveRow, TypeInv, SyncOK
  <1>6. CASE Notify(t)
    <2>1. task[t].ch \in Channels
      BY <1>0, <1>6, WorkingChannel DEF Notify, AllSaved, At, Working
    <2>2. TasksOK'
      BY <1>0, <1>6, TaskStep, TaskTypes DEF Notify, Working
    <2>3. mail' \in Seq(Mails)
      BY <1>0, <1>6, <2>1 DEF Notify, ServerOK, Mails
    <2>4. QED BY <1>0, <1>6, <2>2, <2>3, Frames DEF Notify, TypeInv, SyncOK, ServerOK
  <1>7. QED BY <1>1, <1>2, <1>3, <1>4, <1>5, <1>6 DEF Discovery

LEMMA FaultType ==
  ASSUME TypeInv, Fault
  PROVE  TypeInv'
  <1>0. NetOK /\ DbOK /\ SyncOK /\ ServerOK /\ BoundsOK /\ TasksOK
    BY DEF TypeInv, SyncOK
  <1>1. BoundsOK'
    <2>1. faults < MaxFaults /\ faults' = faults + 1 /\ starts' = starts
      BY DEF Fault, QueryChannelsFails, DiscoveryFails, TaskTimesOut, TaskFails, Rejected, FaultHappens
    <2>2. QED BY <1>0, <2>1, NetworkAssumption DEF BoundsOK
  <1>2. UNCHANGED <<netVars, dbVars, serverVars>>
    BY DEF Fault, QueryChannelsFails, DiscoveryFails, TaskTimesOut, TaskFails, Rejected
  <1>3. SyncOK'
    <2>1. CASE QueryChannelsFails
      <3>1. sync' \in SyncRecords
        BY <1>0, <2>1 DEF QueryChannelsFails, Listening, SyncOK, SyncRecords
      <3>2. QED BY <1>0, <2>1, <3>1 DEF QueryChannelsFails, SyncOK, TasksOK
    <2>2. ASSUME NEW t \in Tasks, DiscoveryFails(t) PROVE SyncOK'
      <3>1. task[t].ch \in Channels
        BY <1>0, <2>2, WorkingChannel DEF DiscoveryFails, At, Working
      <3>2. TasksOK'
        BY <1>0, <2>2, <3>1, NotFoundType DEF DiscoveryFails
      <3>3. ds' \in Answers
        BY <2>2 DEF DiscoveryFails, Answers, NoAnswer
      <3>4. QED BY <1>0, <2>2, <3>2, <3>3 DEF DiscoveryFails, SyncOK
    <2>3. ASSUME NEW t \in Tasks, TaskTimesOut(t) PROVE SyncOK'
      <3> DEFINE r == IF t = "loop" THEN [Idle EXCEPT !.pc = "dead"] ELSE Idle
      <3>1. r \in TaskRecords /\ r.pc \notin Working
        BY DEF Idle, TaskRecords, Working
      <3>2. task' = [task EXCEPT ![t] = r]
        BY <2>3 DEF TaskTimesOut
      <3> HIDE DEF r
      <3>3. TasksOK'
        BY <1>0, <3>1, <3>2, TaskStep
      <3>4. QED BY <1>0, <2>3, <3>3 DEF TaskTimesOut, SyncOK
    <2>4. ASSUME NEW t \in Tasks, TaskFails(t) PROVE SyncOK'
      BY <1>0, <2>4, FreshType DEF TaskFails
    <2>5. QED BY <2>1, <2>2, <2>3, <2>4 DEF Fault
  <1>4. QED BY <1>0, <1>1, <1>2, <1>3, Frames DEF TypeInv

LEMMA ListenerType ==
  ASSUME TypeInv, Listener
  PROVE  TypeInv'
  <1>0. NetOK /\ DbOK /\ SyncOK /\ ServerOK /\ BoundsOK /\ TasksOK
    BY DEF TypeInv, SyncOK
  <1>1. ASSUME NEW c \in Channels, ConnectHub(c) PROVE TypeInv'
    <2>1. sync' \in SyncRecords
      BY <1>0, <1>1 DEF ConnectHub, SyncOK, SyncRecords
    <2>2. QED BY <1>0, <1>1, <2>1, Frames DEF ConnectHub, TypeInv, SyncOK, TasksOK
  <1>2. ASSUME NEW c \in Channels, ProcessBlock(c) PROVE TypeInv'
    <2> DEFINE h == Hash(c)
               b == chain[c][blockRows[h] + 1]
    <2>1. h \in Hashes
      BY <1>0, HashType DEF NetOK
    <2>2. blockRows' = [blockRows EXCEPT ![h] = @ + 1]
          /\ channelRow' = [channelRow EXCEPT ![h] = CountedBlocks(h)]
          /\ rows' = rows
      BY <1>2 DEF ProcessBlock
    <2>3. blockRows' \in [Hashes -> Nat]
      <3> HIDE DEF h
      <3>1. QED BY <1>0, <2>1, <2>2 DEF DbOK
    <2>4. channelRow' \in [Hashes -> Nat \cup {NoRow}]
      <3> HIDE DEF h
      <3>1. CountedBlocks(h) \in Nat \cup {NoRow}
        BY <1>0, <2>1 DEF CountedBlocks, HasRow, DbOK
      <3>2. QED BY <1>0, <2>1, <2>2, <3>1 DEF DbOK
    <2>5. blockRows[h] + 1 \in 1..Len(chain[c])
      <3>1. blockRows[h] \in Nat /\ blockRows[h] < Len(chain[c]) /\ Len(chain[c]) \in Nat
        <4>1. blockRows[h] < Len(chain[c])
          BY <1>2 DEF ProcessBlock
        <4> HIDE DEF h
        <4>2. QED BY <1>0, <2>1, <4>1 DEF DbOK, NetOK
      <3> HIDE DEF h
      <3>2. QED BY <3>1
    <2>6. CASE b[1] = "invoke"
      <3>1. b[2] \in Chaincodes
        BY <1>0, <2>5, <2>6 DEF NetOK, ChainOK
      <3>2. /\ txRows' = [txRows EXCEPT ![<<h, b[2]>>] = @ + 1]
            /\ txCount' = [txCount EXCEPT ![<<h, b[2]>>] = CountedTx(h, b[2])]
            /\ UNCHANGED task
        BY <1>2, <2>6 DEF ProcessBlock
      <3> HIDE DEF h, b
      <3>3. <<h, b[2]>> \in Hashes \X Chaincodes
        BY <2>1, <3>1
      <3>4. txRows' \in [Hashes \X Chaincodes -> Nat]
        BY <1>0, <3>2, <3>3 DEF DbOK
      <3>5. txCount' \in [Hashes \X Chaincodes -> Nat]
        <4>1. CountedTx(h, b[2]) \in Nat
          BY <1>0, <3>3 DEF CountedTx, DbOK
        <4>2. QED BY <1>0, <3>2, <3>3, <4>1 DEF DbOK
      <3>6. DbOK'
        BY <1>0, <2>2, <2>3, <2>4, <3>4, <3>5 DEF DbOK
      <3>7. SyncOK'
        BY <1>0, <1>2, <3>2 DEF ProcessBlock, SyncOK, TasksOK
      <3>8. QED BY <1>0, <1>2, <3>6, <3>7, Frames DEF ProcessBlock, TypeInv
    <2>7. CASE b[1] # "invoke"
      <3>1. txRows' = txRows /\ txCount' = txCount
        BY <1>2, <2>7 DEF ProcessBlock
      <3>2. PICK t \in Timers : task' = [task EXCEPT ![t] = Scheduled(b[1], c)]
        BY <1>2, <2>7 DEF ProcessBlock
      <3> HIDE DEF h, b
      <3>3. TasksOK'
        <4> DEFINE r == Scheduled(b[1], c)
        <4>1. r \in TaskRecords /\ r.ch \in Channels
          BY TaskTypes
        <4>2. task' = [task EXCEPT ![t] = r]
          BY <3>2
        <4> HIDE DEF r
        <4>3. QED BY <1>0, <4>1, <4>2, TaskStep, LoopIsTask
      <3>4. DbOK'
        BY <1>0, <2>2, <2>3, <2>4, <3>1 DEF DbOK
      <3>5. SyncOK'
        BY <1>0, <1>2, <3>3 DEF ProcessBlock, SyncOK
      <3>6. QED BY <1>0, <1>2, <3>4, <3>5, Frames DEF ProcessBlock, TypeInv
    <2>8. QED BY <2>6, <2>7
  <1>3. QED BY <1>1, <1>2 DEF Listener

LEMMA ServerType ==
  ASSUME TypeInv, ProcessSyncMessage \/ GetChannels
  PROVE  TypeInv'
  <1>0. NetOK /\ DbOK /\ SyncOK /\ ServerOK /\ BoundsOK
    BY DEF TypeInv
  <1>1. CASE ProcessSyncMessage
    <2>1. Head(mail) \in Mails /\ Tail(mail) \in Seq(Mails)
      BY <1>0, <1>1 DEF ProcessSyncMessage, ServerOK
    <2>2. CASE Head(mail)[1] = "EXISTCHANNEL"
      BY <1>0, <1>1, <2>2, StopType, Frames DEF ProcessSyncMessage, TypeInv
    <2>3. CASE Head(mail)[1] # "EXISTCHANNEL"
      <3>1. server' \in Servers
        BY <1>0, <1>1, <2>1, <2>3 DEF ProcessSyncMessage, ServerOK, Servers, Mails
      <3>2. QED BY <1>0, <1>1, <2>1, <2>3, <3>1, Frames DEF ProcessSyncMessage, TypeInv, ServerOK
    <2>4. QED BY <2>2, <2>3
  <1>2. CASE GetChannels
    <2>1. Listable \in SUBSET Channels
      BY DEF Listable
    <2>2. server' \in Servers
      BY <1>0, <1>2, <2>1 DEF GetChannels, Initialized, ServerOK, Servers
    <2>3. QED BY <1>0, <1>2, <2>2, Frames DEF GetChannels, TypeInv, ServerOK
  <1>3. QED BY <1>1, <1>2

LEMMA TypeStep == TypeInv /\ [Next]_vars => TypeInv'
  <1> SUFFICES ASSUME TypeInv, [Next]_vars PROVE TypeInv'
    OBVIOUS
  <1>1. CASE UNCHANGED vars
    BY <1>1, Frames DEF vars, TypeInv
  <1>2. CASE Next
    BY <1>2, NetworkType, OperatorType, LoopType, DiscoveryType, FaultType, ListenerType, ServerType
    DEF Next, Step
  <1>3. QED BY <1>1, <1>2

LEMMA TypeHolds == Spec => []TypeInv
  BY TypeInit, TypeStep, PTL DEF Spec

(* Every task works on a channel there is and every row is one of a node or *)
(* a chaincode, through failures, restarts and rebuilt networks.            *)
THEOREM TypeCorrect == Spec => []TypeOK
  BY TypeHolds, TypeInvTypes, PTL

-----------------------------------------------------------------------------
(* The rows of channels. *)

\* When the loop has looked for the name and found no row, there is none until
\* it has inserted one.
SaveInv == task["loop"].pc = "save" => ~RowOfName(task["loop"].ch)

(* Rows of table channel are only added, by the loop, or counted up. *)
LEMMA ChannelRowStep ==
  ASSUME TypeInv, [Next]_vars
  PROVE  \/ channelRow' = channelRow
         \/ SaveChannel
         \/ \E c \in Channels : ProcessBlock(c)
  <1>1. CASE Network \/ Operator \/ UNCHANGED vars \/ Fault \/ ProcessSyncMessage \/ GetChannels
    BY <1>1 DEF Network, Rebuild, JoinChannel, AddNode, Deploy, Invoke, Operator, Stop, Start,
         vars, dbVars, Fault, QueryChannelsFails, DiscoveryFails, TaskTimesOut, TaskFails,
         Rejected, ProcessSyncMessage, GetChannels
  <1>2. CASE LoopStep
    BY <1>2 DEF LoopStep, BeginRound, EndRound, InitializeNewChannel, NextChannel, GetChannel,
         ExistChannel, ExistChannelElsewhere, ChaincodesSaved, dbVars
  <1>3. ASSUME NEW t \in Tasks, Discovery(t) PROVE channelRow' = channelRow
    BY <1>3 DEF Discovery, SetupDiscovery, CollectDiscovery, QueryChaincodes, SelectRow,
         SaveRow, Notify, dbVars
  <1>4. CASE Listener
    BY <1>4 DEF Listener, ConnectHub, dbVars
  <1>5. QED BY <1>1, <1>2, <1>3, <1>4 DEF Next, Step

(* Counting a block leaves out the channels that have no row. *)
LEMMA CountingKeepsRows ==
  ASSUME TypeInv, NEW c \in Channels, ProcessBlock(c)
  PROVE  \A h \in Hashes :
            /\ HasRow(h)' <=> HasRow(h)
            /\ HasRow(h) => channelRow'[h] \in {channelRow[h], channelRow[h] + 1}
  <1> DEFINE g == Hash(c)
  <1>1. g \in Hashes /\ channelRow' = [channelRow EXCEPT ![g] = CountedBlocks(g)]
    BY HashType DEF ProcessBlock, TypeInv, NetOK
  <1> HIDE DEF g
  <1>2. channelRow \in [Hashes -> Nat \cup {NoRow}]
    BY DEF TypeInv, DbOK
  <1>3. QED BY <1>1, <1>2, NetworkAssumption DEF CountedBlocks, HasRow

LEMMA SavedRow ==
  ASSUME TypeInv, SaveChannel
  PROVE  /\ task["loop"].ch \in Channels /\ task["loop"].pc = "save"
         /\ Hash(task["loop"].ch) \in Hashes
         /\ \A h \in Hashes : channelRow'[h] = IF h = Hash(task["loop"].ch) THEN 0 ELSE channelRow[h]
  <1>1. task["loop"].ch \in Channels /\ task["loop"].pc = "save"
    BY WorkingChannel, LoopIsTask DEF SaveChannel, At, Working, TypeInv
  <1>2. Hash(task["loop"].ch) \in Hashes
    BY <1>1, HashType DEF TypeInv, NetOK
  <1>3. QED BY <1>1, <1>2 DEF SaveChannel, NewRowBlocks, TypeInv, DbOK

LEMMA SaveInit == Init => SaveInv
  BY TaskTypes, LoopIsTask DEF Init, SaveInv

(* The loop gets to the insertion only past the two lookups. *)
LEMMA LoopToSave ==
  ASSUME TypeInv, [Next]_vars, task'["loop"].pc = "save"
  PROVE  \/ task'["loop"] = task["loop"]
         \/ ExistChannel
  <1>0. /\ task \in [Tasks -> TaskRecords] /\ "loop" \in Tasks /\ "loop" \notin Timers
        /\ Idle.pc = "idle"
    BY LoopIsTask, TaskTypes, NetworkAssumption DEF TypeInv, SyncOK, TasksOK
  <1>1. CASE Network \/ UNCHANGED vars \/ GetChannels
    BY <1>1 DEF Network, Rebuild, JoinChannel, AddNode, Deploy, Invoke,
         vars, syncVars, GetChannels
  <1>2. ASSUME NEW up \in BOOLEAN, FreshSync(up) PROVE FALSE
    BY <1>0, <1>2 DEF FreshSync, Initializing
  <1>3. CASE Operator \/ ProcessSyncMessage
    BY <1>2, <1>3 DEF Operator, Stop, Start, ProcessSyncMessage, StopExplorer, syncVars
  <1>4. CASE Fault
    <2>1. CASE QueryChannelsFails
      BY <2>1 DEF QueryChannelsFails
    <2>2. ASSUME NEW t \in Tasks, DiscoveryFails(t) PROVE task'["loop"] = task["loop"]
      BY <1>0, <2>2 DEF DiscoveryFails, NotFound, TaskRecords
    <2>3. ASSUME NEW t \in Tasks, TaskTimesOut(t) PROVE task'["loop"] = task["loop"]
      BY <1>0, <2>3 DEF TaskTimesOut, Idle
    <2>4. ASSUME NEW t \in Tasks, TaskFails(t) PROVE FALSE
      BY <1>2, <2>4 DEF TaskFails
    <2>5. QED BY <1>4, <2>1, <2>2, <2>3, <2>4 DEF Fault
  <1>5. CASE LoopStep
    <2>1. CASE BeginRound \/ GetChannel \/ SaveChannel
      BY <1>0, <2>1 DEF BeginRound, GetChannel, SaveChannel, Goto, AfterGetChannel, TaskRecords
    <2>2. CASE EndRound \/ \E c \in Channels : NextChannel(c) \/ InitializeNewChannel(c)
      BY <1>0, <2>2 DEF EndRound, NextChannel, InitializeNewChannel, Idle
    <2>3. CASE ExistChannelElsewhere
      BY <1>2, <2>3 DEF ExistChannelElsewhere
    <2>4. CASE ChaincodesSaved
      BY <1>0, <2>4 DEF ChaincodesSaved, TaskRecords
    <2>5. QED BY <1>5, <2>1, <2>2, <2>3, <2>4 DEF LoopStep
  <1>6. ASSUME NEW t \in Tasks, Discovery(t) PROVE task'["loop"] = task["loop"]
    <2>1. CASE SetupDiscovery(t)
      BY <1>0, <2>1 DEF SetupDiscovery, Goto, TaskRecords
    <2>2. CASE CollectDiscovery(t)
      <3>1. (\E c : Found(t, c)) \/ NotFound(t)
        BY <2>2 DEF CollectDiscovery
      <3>2. QED BY <1>0, <3>1 DEF Found, NotFound, TaskRecords
    <2>3. CASE QueryChaincodes(t)
      BY <1>0, <2>3 DEF QueryChaincodes, TaskRecords
    <2>4. CASE SelectRow(t)
      <3>1. task[t].pc # "save" /\ task'[t].pc = task[t].pc
        BY <1>0, <2>4 DEF SelectRow, Inserting, TaskRecords
      <3>2. QED BY <1>0, <2>4, <3>1 DEF SelectRow
    <2>5. CASE SaveRow(t)
      <3>1. task[t].pc # "save" /\ task'[t].pc = task[t].pc
        BY <1>0, <2>5 DEF SaveRow, Inserting, TaskRecords
      <3>2. QED BY <1>0, <2>5, <3>1 DEF SaveRow
    <2>6. CASE Notify(t)
      BY <1>0, <2>6 DEF Notify
    <2>7. QED BY <1>6, <2>1, <2>2, <2>3, <2>4, <2>5, <2>6 DEF Discovery
  <1>7. CASE Listener
    <2>1. ASSUME NEW c \in Channels, ProcessBlock(c) PROVE task'["loop"] = task["loop"]
      <3>1. UNCHANGED task \/ \E t \in Timers : \E r : task' = [task EXCEPT ![t] = r]
        BY <2>1 DEF ProcessBlock
      <3>2. QED BY <1>0, <3>1
    <2>2. ASSUME NEW c \in Channels, ConnectHub(c) PROVE task'["loop"] = task["loop"]
      BY <2>2 DEF ConnectHub
    <2>3. QED BY <1>7, <2>1, <2>2 DEF Listener
  <1>8. QED BY <1>1, <1>3, <1>4, <1>5, <1>6, <1>7 DEF Next, Step

LEMMA SaveStep == TypeInv /\ SaveInv /\ [Next]_vars => SaveInv'
  <1> SUFFICES ASSUME TypeInv, SaveInv, [Next]_vars, task'["loop"].pc = "save"
               PROVE  ~RowOfName(task["loop"].ch)'
    BY DEF SaveInv
  <1>1. CASE ExistChannel
    <2>1. /\ task'["loop"].ch = task["loop"].ch /\ channelRow' = channelRow
          /\ ~RowOfName(task["loop"].ch)
      BY <1>1, LoopIsTask DEF ExistChannel, Goto, dbVars, TypeInv, SyncOK, TasksOK, TaskRecords
    <2>2. QED BY <2>1 DEF RowOfName, HasRow
  <1>2. CASE task'["loop"] = task["loop"]
    <2>1. PICK c \in Channels : c = task["loop"].ch /\ ~RowOfName(c)
      BY <1>2, WorkingChannel, LoopIsTask DEF SaveInv, Working, TypeInv
    <2>2. CASE channelRow' = channelRow
      BY <1>2, <2>1, <2>2 DEF RowOfName, HasRow
    <2>3. CASE SaveChannel
      BY <2>3, LoopIsTask DEF SaveChannel, Goto, TypeInv, SyncOK, TasksOK, TaskRecords
    <2>4. ASSUME NEW d \in Channels, ProcessBlock(d) PROVE ~RowOfName(c)'
      <3>1. \A e \in Eras : <<c, e>> \in Hashes
        BY <2>1 DEF Hashes
      <3>2. \A e \in Eras : HasRow(<<c, e>>)' <=> HasRow(<<c, e>>)
        BY <2>4, <3>1, CountingKeepsRows DEF HasRow
      <3>3. QED BY <2>1, <3>2 DEF RowOfName, HasRow
    <2>5. QED BY <1>2, <2>1, <2>2, <2>3, <2>4, ChannelRowStep DEF RowOfName, HasRow
  <1>3. QED BY <1>1, <1>2, LoopToSave

LEMMA SaveHolds == Spec => []SaveInv
  BY TypeHolds, SaveInit, SaveStep, PTL DEF Spec

LEMMA OneNetworkStep ==
  TypeInv /\ SaveInv /\ OneNetworkPerChannel /\ [Next]_vars => OneNetworkPerChannel'
  <1> SUFFICES ASSUME TypeInv, SaveInv, OneNetworkPerChannel, [Next]_vars,
                      NEW c \in Channels, NEW e \in Eras, NEW f \in Eras,
                      HasRow(<<c, e>>)', HasRow(<<c, f>>)'
               PROVE  e = f
    BY DEF OneNetworkPerChannel, HasRow
  <1>0. <<c, e>> \in Hashes /\ <<c, f>> \in Hashes
    BY DEF Hashes
  <1>1. CASE channelRow' = channelRow
    BY <1>1 DEF HasRow, OneNetworkPerChannel
  <1>2. CASE SaveChannel
    <2>1. ~RowOfName(task["loop"].ch)
      BY <1>2, SavedRow DEF SaveInv
    <2>2. CASE c = task["loop"].ch
      <3>1. ~HasRow(<<c, e>>) /\ ~HasRow(<<c, f>>)
        BY <2>1, <2>2 DEF RowOfName
      <3>2. <<c, e>> = <<c, era>> /\ <<c, f>> = <<c, era>>
        BY <1>0, <1>2, <2>2, <3>1, SavedRow DEF HasRow, Hash
      <3>3. QED BY <3>2
    <2>3. CASE c # task["loop"].ch
      <3>1. HasRow(<<c, e>>) /\ HasRow(<<c, f>>)
        BY <1>0, <1>2, <2>3, SavedRow DEF HasRow, Hash
      <3>2. QED BY <3>1 DEF OneNetworkPerChannel
    <2>4. QED BY <2>2, <2>3
  <1>3. ASSUME NEW d \in Channels, ProcessBlock(d) PROVE e = f
    <2>1. HasRow(<<c, e>>) /\ HasRow(<<c, f>>)
      BY <1>0, <1>3, CountingKeepsRows
    <2>2. QED BY <2>1 DEF OneNetworkPerChannel
  <1>4. QED BY <1>1, <1>2, <1>3, ChannelRowStep

(* No two networks are mixed under one name, however often the network is *)
(* rebuilt and Explorer started again.                                    *)
THEOREM OneNetworkTheorem == Spec => []OneNetworkPerChannel
  <1>1. Init => OneNetworkPerChannel
    BY DEF Init, OneNetworkPerChannel, HasRow, Hashes
  <1>2. QED BY <1>1, OneNetworkStep, TypeHolds, SaveHolds, PTL DEF Spec

-----------------------------------------------------------------------------
(* The counters. *)

(* A transaction is counted at most once, when it is recorded. *)
LEMMA TransactionStep ==
  ASSUME TypeInv, [Next]_vars
  PROVE  \/ UNCHANGED <<txRows, txCount>>
         \/ \E t \in Hashes \X Chaincodes :
               /\ txRows' = [txRows EXCEPT ![t] = @ + 1]
               /\ \/ txCount' = [txCount EXCEPT ![t] = @ + 1]
                  \/ txCount' = txCount
  <1>1. CASE Network \/ Operator \/ UNCHANGED vars \/ Fault \/ ProcessSyncMessage \/ GetChannels
    BY <1>1 DEF Network, Rebuild, JoinChannel, AddNode, Deploy, Invoke, Operator, Stop, Start,
         vars, dbVars, Fault, QueryChannelsFails, DiscoveryFails, TaskTimesOut, TaskFails,
         Rejected, ProcessSyncMessage, GetChannels
  <1>2. CASE LoopStep
    BY <1>2 DEF LoopStep, BeginRound, EndRound, InitializeNewChannel, NextChannel, GetChannel,
         ExistChannel, ExistChannelElsewhere, SaveChannel, ChaincodesSaved, dbVars
  <1>3. ASSUME NEW t \in Tasks, Discovery(t) PROVE UNCHANGED <<txRows, txCount>>
    BY <1>3 DEF Discovery, SetupDiscovery, CollectDiscovery, QueryChaincodes, SelectRow,
         SaveRow, Notify, dbVars
  <1>4. ASSUME NEW c \in Channels, ConnectHub(c) PROVE UNCHANGED <<txRows, txCount>>
    BY <1>4 DEF ConnectHub, dbVars
  <1>5. ASSUME NEW c \in Channels, ProcessBlock(c), ~UNCHANGED <<txRows, txCount>>
        PROVE  \E t \in Hashes \X Chaincodes :
                 /\ txRows' = [txRows EXCEPT ![t] = @ + 1]
                 /\ txCount' = [txCount EXCEPT ![t] = @ + 1] \/ txCount' = txCount
    <2> DEFINE h == Hash(c)
               b == chain[c][blockRows[h] + 1]
    <2>1. /\ b[1] = "invoke"
          /\ txRows' = [txRows EXCEPT ![<<h, b[2]>>] = @ + 1]
          /\ txCount' = [txCount EXCEPT ![<<h, b[2]>>] = CountedTx(h, b[2])]
          /\ blockRows[h] < Len(chain[c])
      BY <1>5 DEF ProcessBlock
    <2>2. h \in Hashes
      BY HashType DEF TypeInv, NetOK
    <2>3. blockRows[h] + 1 \in 1..Len(chain[c])
      <3> HIDE DEF h
      <3>1. blockRows[h] \in Nat /\ Len(chain[c]) \in Nat
        BY <2>2 DEF TypeInv, DbOK, NetOK
      <3>2. QED BY <2>1, <3>1
    <2>4. b[2] \in Chaincodes
      BY <2>1, <2>3 DEF TypeInv, NetOK, ChainOK
    <2> HIDE DEF h, b
    <2>5. PICK t \in Hashes \X Chaincodes : t = <<h, b[2]>>
      BY <2>2, <2>4
    <2>6. CountedTx(h, b[2]) \in {txCount[t], txCount[t] + 1}
      BY <2>5 DEF CountedTx
    <2>7. txCount \in [Hashes \X Chaincodes -> Nat]
      BY DEF TypeInv, DbOK
    <2>8. txRows' = [txRows EXCEPT ![t] = @ + 1]
      BY <2>1, <2>5
    <2>9. txCount' = [txCount EXCEPT ![t] = @ + 1] \/ txCount' = txCount
      BY <2>1, <2>5, <2>6, <2>7
    <2>10. QED BY <2>8, <2>9
  <1>6. QED BY <1>1, <1>2, <1>3, <1>4, <1>5 DEF Next, Step, Listener

LEMMA BlockRowsStep ==
  ASSUME TypeInv, [Next]_vars
  PROVE  \A h \in Hashes : blockRows'[h] >= blockRows[h]
  <1>0. blockRows \in [Hashes -> Nat]
    BY DEF TypeInv, DbOK
  <1>1. CASE blockRows' = blockRows
    BY <1>0, <1>1
  <1>2. ASSUME NEW c \in Channels, ProcessBlock(c) PROVE \A h \in Hashes : blockRows'[h] >= blockRows[h]
    <2>1. PICK g \in Hashes : blockRows' = [blockRows EXCEPT ![g] = @ + 1]
      BY <1>2, HashType DEF ProcessBlock, TypeInv, NetOK
    <2>2. QED BY <1>0, <2>1
  <1>3. CASE Network \/ Operator \/ UNCHANGED vars \/ Fault \/ ProcessSyncMessage \/ GetChannels
    BY <1>1, <1>3 DEF Network, Rebuild, JoinChannel, AddNode, Deploy, Invoke, Operator, Stop, Start,
         vars, dbVars, Fault, QueryChannelsFails, DiscoveryFails, TaskTimesOut, TaskFails,
         Rejected, ProcessSyncMessage, GetChannels
  <1>4. CASE LoopStep
    BY <1>1, <1>4 DEF LoopStep, BeginRound, EndRound, InitializeNewChannel, NextChannel, GetChannel,
         ExistChannel, ExistChannelElsewhere, SaveChannel, ChaincodesSaved, dbVars
  <1>5. ASSUME NEW t \in Tasks, Discovery(t) PROVE blockRows' = blockRows
    BY <1>5 DEF Discovery, SetupDiscovery, CollectDiscovery, QueryChaincodes, SelectRow,
         SaveRow, Notify, dbVars
  <1>6. ASSUME NEW c \in Channels, ConnectHub(c) PROVE blockRows' = blockRows
    BY <1>6 DEF ConnectHub, dbVars
  <1>7. QED BY <1>1, <1>2, <1>3, <1>4, <1>5, <1>6 DEF Next, Step, Listener

LEMMA BoundedStep ==
  TypeInv /\ TypeInv' /\ CountersBounded /\ [Next]_vars => CountersBounded'
  <1> SUFFICES ASSUME TypeInv, TypeInv', CountersBounded, [Next]_vars PROVE CountersBounded'
    OBVIOUS
  <1>0. /\ blockRows \in [Hashes -> Nat] /\ blockRows' \in [Hashes -> Nat]
        /\ channelRow \in [Hashes -> Nat \cup {NoRow}]
        /\ txRows \in [Hashes \X Chaincodes -> Nat] /\ txCount \in [Hashes \X Chaincodes -> Nat]
    BY DEF TypeInv, DbOK
  <1>1. ASSUME NEW h \in Hashes, HasRow(h)' PROVE channelRow'[h] <= blockRows'[h]
    <2>0. /\ blockRows[h] \in Nat /\ blockRows'[h] \in Nat /\ blockRows'[h] >= blockRows[h]
          /\ HasRow(h) => channelRow[h] \in Nat
      BY <1>0, BlockRowsStep DEF HasRow
    <2>1. CASE channelRow' = channelRow
      <3>1. HasRow(h) /\ channelRow[h] <= blockRows[h]
        BY <1>1, <2>1 DEF HasRow, CountersBounded
      <3>2. QED BY <2>0, <2>1, <3>1
    <2>2. CASE SaveChannel
      <3>1. CASE channelRow'[h] = 0
        BY <2>0, <3>1
      <3>2. CASE channelRow'[h] = channelRow[h]
        <4>1. HasRow(h) /\ channelRow[h] <= blockRows[h]
          BY <1>1, <3>2 DEF HasRow, CountersBounded
        <4>2. QED BY <2>0, <3>2, <4>1
      <3>3. QED BY <2>2, <3>1, <3>2, SavedRow
    <2>3. ASSUME NEW c \in Channels, ProcessBlock(c) PROVE channelRow'[h] <= blockRows'[h]
      <3>1. HasRow(h) /\ channelRow[h] <= blockRows[h]
        BY <1>1, <2>3, CountingKeepsRows DEF CountersBounded
      <3>2. CASE h = Hash(c)
        <4>1. blockRows'[h] = blockRows[h] + 1
          BY <1>0, <2>3, <3>2 DEF ProcessBlock
        <4>2. channelRow'[h] \in {channelRow[h], channelRow[h] + 1}
          BY <2>3, <3>1, CountingKeepsRows
        <4>3. QED BY <2>0, <3>1, <4>1, <4>2
      <3>3. CASE h # Hash(c)
        <4>1. channelRow'[h] = channelRow[h]
          BY <1>0, <2>3, <3>3 DEF ProcessBlock
        <4>2. QED BY <2>0, <3>1, <4>1
      <3>4. QED BY <3>2, <3>3
    <2>4. QED BY <2>1, <2>2, <2>3, ChannelRowStep
  <1>2. ASSUME NEW t \in Hashes \X Chaincodes PROVE txCount'[t] <= txRows'[t]
    <2>1. /\ txCount[t] \in Nat /\ txRows[t] \in Nat /\ txCount[t] <= txRows[t]
      BY <1>0 DEF CountersBounded
    <2>2. CASE UNCHANGED <<txRows, txCount>>
      BY <2>1, <2>2
    <2>3. ASSUME NEW u \in Hashes \X Chaincodes,
                 txRows' = [txRows EXCEPT ![u] = @ + 1],
                 \/ txCount' = [txCount EXCEPT ![u] = @ + 1]
                 \/ txCount' = txCount
          PROVE  txCount'[t] <= txRows'[t]
      BY <1>0, <2>1, <2>3
    <2>4. QED BY <2>2, <2>3, TransactionStep
  <1>3. QED BY <1>1, <1>2 DEF CountersBounded

(* No order of the loop, the timers and the listeners makes a counter run  *)
(* ahead of the rows it counts.                                            *)
THEOREM CountersBoundedTheorem == Spec => []CountersBounded
  <1>1. Init => CountersBounded
    BY DEF Init, CountersBounded, HasRow
  <1>2. QED BY <1>1, BoundedStep, TypeHolds, PTL DEF Spec

(* No round and no restart saves a channel over its own row. *)
THEOREM CountersOnlyGrowTheorem == Spec => CountersOnlyGrow
  <1> DEFINE Grow == /\ \A h \in Hashes : HasRow(h) => HasRow(h)' /\ channelRow[h] <= channelRow'[h]
                     /\ \A t \in Hashes \X Chaincodes : txCount[t] <= txCount'[t]
  <1>1. ASSUME TypeInv, SaveInv, [Next]_vars PROVE Grow
    <2>0. /\ channelRow \in [Hashes -> Nat \cup {NoRow}]
          /\ txCount \in [Hashes \X Chaincodes -> Nat]
      BY <1>1 DEF TypeInv, DbOK
    <2>1. ASSUME NEW h \in Hashes, HasRow(h)
          PROVE  HasRow(h)' /\ channelRow[h] <= channelRow'[h]
      <3>0. channelRow[h] \in Nat
        BY <2>0, <2>1 DEF HasRow
      <3>1. CASE channelRow' = channelRow
        BY <2>1, <3>0, <3>1 DEF HasRow
      <3>2. CASE SaveChannel
        <4>1. ~RowOfName(task["loop"].ch)
          BY <1>1, <3>2, SavedRow DEF SaveInv
        <4>2. h # Hash(task["loop"].ch)
          BY <1>1, <2>1, <4>1 DEF RowOfName, Hash, TypeInv, NetOK
        <4>3. channelRow'[h] = channelRow[h]
          BY <1>1, <3>2, <4>2, SavedRow
        <4>4. QED BY <2>1, <3>0, <4>3 DEF HasRow
      <3>3. ASSUME NEW c \in Channels, ProcessBlock(c)
            PROVE  HasRow(h)' /\ channelRow[h] <= channelRow'[h]
        <4>1. HasRow(h)' /\ channelRow'[h] \in {channelRow[h], channelRow[h] + 1}
          BY <1>1, <2>1, <3>3, CountingKeepsRows
        <4>2. QED BY <3>0, <4>1
      <3>4. QED BY <1>1, <3>1, <3>2, <3>3, ChannelRowStep
    <2>2. ASSUME NEW t \in Hashes \X Chaincodes PROVE txCount[t] <= txCount'[t]
      <3>1. txCount[t] \in Nat
        BY <2>0
      <3>2. CASE txCount' = txCount
        BY <3>1, <3>2
      <3>3. ASSUME NEW u \in Hashes \X Chaincodes, txCount' = [txCount EXCEPT ![u] = @ + 1]
            PROVE  txCount[t] <= txCount'[t]
        BY <2>0, <3>1, <3>3
      <3>4. QED BY <1>1, <3>2, <3>3, TransactionStep
    <2>3. QED BY <2>1, <2>2
  <1>2. TypeInv /\ SaveInv /\ [Next]_vars => [Grow]_vars
    BY <1>1
  <1>3. QED BY <1>2, TypeHolds, SaveHolds, PTL DEF Spec, CountersOnlyGrow

=============================================================================
