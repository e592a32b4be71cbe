# A verification of the student status management system

This directory holds TLA+ models of the programs in the repository, the TLC
configurations that check them on small instances, and proofs, checked by TLAPS,
of what holds for instances of every size.

The repository has three programs. The **student contract** (`chaincode/sm`, Go)
keeps students and grades on a Hyperledger Fabric channel of three
organizations: the education bureau and two schools. The **web application**
(`web`, Nuxt) signs users in and calls the contract for them. **Blockchain
Explorer** (`blockchain-explorer`, TypeScript, adapted in this repository) copies
the channel's blocks into PostgreSQL and shows them on a dashboard.

## 1. Inventory

| component | state it keeps | operations | interacts with |
|---|---|---|---|
| Student contract `chaincode/sm` | students by identity-card number; grades by student and school, with the history of each key | CreateStudent, UpdateStudent, QueryStudent, QueryAllStudents, CreateStudentGrade, QueryStudentGrades | called by clients through a peer; its reads and writes become a transaction, ordered and validated by Fabric |
| Explorer block synchronization (`SyncService`, `SyncPlatform`, `FabricEvent`, `CRUDService`) | tables blocks, transactions, the counters of channel and chaincodes; in memory synchInProcess, blocksInProcess, listeners, timers | block listener, interval, syncBlocks, processBlockEvent, saveTransaction, saveBlock | asks a peer, writes PostgreSQL, sends notifications to the server process |
| Explorer discovery and channel records (`SyncService`, `FabricClient`, `CRUDService`) | tables channel, peer, orderer, chaincodes and their references; the client's maps of channels; the one DiscoveryService of the gateway | synchNetworkConfigToDB every 30 s, discovery timers, insertNewChannel, insertFromDiscoveryResults, saveChannel, saveChaincode | shares the rows of channel and chaincodes with the synchronization; sends the server the channels it found |
| Explorer gateway and enrolment (`FabricGateway`) | wallet, identity | initialize, enrollCaIdentity, queries of blocks and transactions | the CA and the peers |
| Explorer server (`main`, `Explorer`, `Platform`, `Proxy`, `ForkListenerHandler`) | clients by network, channels by genesis hash, websockets | starts, forks and hears the sync process, answers REST requests, shuts down on an error nobody caught | reads PostgreSQL; pushes notifications to browsers |
| Explorer users (`UserService`, `UserDataService`) | table users; tokens | login, register, unregister, userlist | REST requests, concurrently |
| Explorer metrics and REST queries (`MetricService`, `CRUDService`, the routes) | none | SQL queries and queries of a peer, several for one answer | PostgreSQL, peers |
| PostgreSQL layer (`PgService`) | the connection | saveRow, updateBySql, queries, handleDisconnect and its timer | everything above; what its timer and its error handler throw, the server's process catches |
| Web student pages and API | the list and the forms on the screen | list, page, create, update | calls the contract: evaluate, then submit |
| Web sign-in (`sign-in.vue`, `sign-in.ts`, `ca-client.ts`, `gateway.ts`) | Supabase accounts with certificate and key; the session; cached CA clients | sign in, sign out | CA, Supabase |
| Bootstrap (`startup.sh`, `setup-ca.ts`) | files, the channel, installed chaincode | one pass over all steps | CA, orderer, peers |
| Explorer web client | the redux store: what it last fetched; intervals; dialogs | load, refresh, change of channel, lists, searches, dialogs, users panel | REST, websocket |

What is hard in each, and what makes it correct:

- **Contract.** Any number of transactions are between endorsement and commit at
  once; the policy "ANY Endorsement" (`configtx.yaml`) lets one peer, which may lag, decide
  what a transaction read. Correct means: a number is registered once, for good;
  an update made of an old record undoes nothing; a grade is filed under a school
  the student attended; no grade is lost although all grades at a school share one
  key; altogether, the operations look atomic.
- **Synchronization.** A listener, passes started by the interval and passes that
  outlast it work on the same block; there is no database transaction and no unique
  constraint; the peer and PostgreSQL may fail at any await and the process may
  die between any two. Correct means: no row twice, no block without all its
  transactions, counters that agree with the rows, one announcement per block,
  and every block copied at last.
- **Discovery and records.** The loop and overlapping timers insert and update the
  same rows and share one DiscoveryService, whose results may be those of another
  channel; the network may have been rebuilt under the same names. Correct means: one
  network per channel name, counters that never fall or run ahead, and members
  recorded at last.
- **Processes.** A connection that is refused or lost, a server that is stopped or killed, a
  sync process that fails or is left behind, at any moment of a start. Correct means:
  two processes never write the copy but where a server was killed, and no server
  serves for good without a database.
- **Enrolment and users.** Check-then-act across awaits on a table without
  constraints; registration at the CA and enrolment fail apart. Correct means: the
  administrator of the profile stays, a removal is complete, and what overlapping
  requests can do is bounded by how many overlap.
- **Explorer client.** Answers carry no trace of their request and may arrive in any
  order; four mechanisms ask for the same data. Correct means: the header never
  stops refreshing, a change of channel settles, lists come back to their page.
- **Queries and pages.** Every answer is several statements over tables that move;
  pages are cut anew at each request; blocks and transactions come from the database
  or else from a peer. Correct means: nothing is skipped, what is shown is what the
  channel has, and no figure is older than its question.
- **Sign-in and student pages.** Two services and two browsers share an account; a
  page is cut before it is filtered; a list is asked for again after a write. Correct
  means: walking the pages reaches everybody, and one sees one's own writes.
- **Bootstrap.** A long sequence that stops in the middle and is run again.

`PROJECT.json` lists the hazards at their lines, with the properties that cover each.

## 2. Plan, and where it stands

The order of work followed the weight of each part: what the data on the channel
means, what the database says of it, then what people see of both.

1. `StudentChaincode` with `AccessControl`, its abstraction `StudentRegistry`,
   proofs of the invariants, the action properties and the refinement.
2. `ExplorerSync`, its abstraction `LedgerCopy`, safety and liveness, proofs of
   the safety properties and the refinement.
3. `ExplorerNetwork`: the discovery loop and timers, the counters that saving a
   channel again might reset, the messages to the server, the death of the loop.
4. `ExplorerAccounts`: enrolment, start-up and the users table.
5. `StudentWeb`: sign-in and the student pages, over an atomic registry
   (which `StudentChaincode` implements).
6. `ExplorerClient`: the browser's refreshes, changes of channel and lists.
7. `ExplorerPages` with the modules it puts together: what every route reads and
   every page shows of a copy that moves.

8. `ExplorerProcesses`, under `ExplorerAccounts`: the connection of the server, and the
   sync process of each of its starts.

All eight exist, with their runs and with proofs of every invariant and action
property, and of both refinements. What is left is in section 7, and the liveness
properties, which stay with TLC (section 6).

## 3. Modules

| module | role |
|---|---|
| `AccessControl` | who may call the contract (`accesscontrol.go`) |
| `StudentRegistry` | abstract: a registry whose operations are atomic |
| `StudentChaincode` | the contract as Fabric transactions; implements `StudentRegistry` |
| `LedgerCopy` | abstract: a copy of a growing ledger |
| `ExplorerSync` | the synchronization of blocks; implements `LedgerCopy` |
| `ExplorerNetwork` | discovery, channel records, the server's channels |
| `ExplorerProcesses` | the server's connection to the database, its end, the sync process of each start |
| `ExplorerAccounts` | start-up with enrolment, users, tokens; uses `ExplorerProcesses` |
| `ExplorerClient` | the browser: refreshes, change of channel, a list |
| `StudentWeb` | signing in and the pages of students |
| `ExplorerCopy` | what the pages stand on: the copy, the nodes, the clock, the server |
| `ExplorerLists` | the paged lists and the search for a range of blocks |
| `ExplorerSearch` | the search field |
| `ExplorerDialogs` | the dialogs of the rows, and a direct link; uses `ExplorerSearch` |
| `ExplorerFigures` | counts, charts, activity, nodes, channels, chaincodes |
| `ExplorerUsers` | login page, users panel, registration form |
| `ExplorerPages` | the six modules above put together |

`MC...` modules hold the instances for TLC, `..._proofs` modules the theorems.

Some definitions are followed or preceded by a variant that is not used by the
specification ("What if ..."): each is a plausible slip of the code, and shows
that a property notices it (the entries "mutants" of `PROJECT.json`).

How they compose. `StudentWeb` submits a transaction as one step, which is what
`ImplementsRegistry` proves of `StudentChaincode`. `ExplorerNetwork` copies a block in
one step, and `ExplorerCopy` in the order block by block that `ImplementsLedgerCopy`
and `CountersFollowRows` prove of `ExplorerSync`. `ExplorerUsers` uses the routes of
`ExplorerAccounts`. `ExplorerClient` is about which question an answer belongs to,
the modules of `ExplorerPages` about what an answer says.

### StudentChaincode

*State.* `chain` is the sequence of states after each block; a state maps each
student key to the record and the number of the block that wrote it, and each
student and school to the history of that grade key. `height[p]` is how much of
the chain peer p has applied. For each transaction: `stage`, `caller`,
`request`, and its endorsement, `readVer` and `put`.

*Actions.* `Propose`; one endorsement per contract function, computed by the
operators `CreateStudentAllowed`/`NewStudent`, `UpdateStudentAllowed`/
`UpdatedStudent`, `CreateStudentGradeAllowed`/`NewGrade` on the state of the
endorsing peer; `Refuse` when the function returns an error;
`CommitStudent`, `CommitGrade` or `Invalidate` at the head of the chain,
depending on the version read; `ApplyBlock` when a peer catches up.
`EndorseCreateStudentUnread` is `StudentExists` when `GetState` fails: the code
drops the error (`student.go:48`), the record looks absent, and the transaction
records no read. Every other read returns the error and nothing is proposed to
the orderer, which `Propose` without a further step covers.

*External.* Ordering, the version check and the block delivery are Fabric's and
modelled from how the contract depends on them. The history database keeps
every valid write of a key. Endorsements are taken from one peer, as the
policy allows. A block holds one transaction: validation handles the
transactions of a block in turn, so this loses nothing. The clock of an
endorsing peer is any member of `Dates`.

*Data.* A record is a name, a profile (admission year and major), a school, the
graduation flag and the date of creation; a grade is a school, a date and what
else it says. The identity string, the units and the affiliation of a
certificate are what `AccessControl` compares, part by part and by position as
`isSubset` does. JSON parsing is left out: a request that does not parse is
refused, like one without a permission.

### ExplorerSync

*State.* The tables as counts of rows (`blockRows`, `txRows`: a table without a
unique constraint is a bag), the counters of the channel's row and the sum of
those of the chaincodes' rows; the memory of the process; and for each call of
`processBlockEvent` and `syncBlocks` where it is and its locals.

*Actions.* JavaScript runs from one await to the next without interruption, so
an action is what the code does between two awaits. `StartBlock` runs from the
call to the first statement and takes the lock (`SyncService.ts:567-570`);
`RefuseBlock` is the exception of line 568. Each SQL statement is one action:
`CountTx`, `InsertTx`, `BumpChaincode`, `BumpTrans` for every transaction,
then `CountBlock`, `InsertBlock`, `BumpBlocks`; the announcement and the release
of the lock follow the last one without an await, so they belong to it.
`FailBlock` is a failing statement: the exception passes the release, the
caller swallows it. `GetChannelInfo`, `CheckBlock`, `HandleBlock`,
`FindMissingBlockNumber`, `HandleMissing`, `FinishSync` are `syncBlocks`;
`NoChannelInfo`, `CheckFails`, `FindFails`, `SkipMissing` its failures.
`HubConnected`, `HubFailed`, `BlockEvent` are `FabricEvent`; `SyncBlocks` and
`Reconnect` what the interval calls. `Start` and `Crash` are the process.

*The check may be stale.* `CheckBlock` reads the database, `HandleBlock` acts on
the answer when the block has arrived too; other tasks run in between.

*Abstractions.* One channel, known to the client: the branch that schedules the
discovery of an unknown channel (552-565) is left out, and never taken (see
`ExplorerNetwork`). The discovery timers a block schedules are kept in `timers` but
their effects are `ExplorerNetwork`'s. A failed statement leaves no effect. Which transactions
find a row in `chaincodes` to count them is the constant `CountedTxs`. A block
without transactions does not exist (`processBlockEvent` reads its first one).
The listener skips block 0, as line 68 of `FabricEvent.ts` does.
A `noOfBlocks` that is not a number ends every pass at once (409-414) and is
left out.

### ExplorerNetwork

*State.* The network (`joined`, `members`, `deployed`, `chain`, and `era`, which counts how
often it was rebuilt, so a genesis hash is a channel and an era); the tables as
bags of rows, with the columns `blocks` and `txcount`; the sync process (its maps of
channels in `sync`, the `round` of the loop, the `task` of the loop and of each
timer, and `ds`, whose results the gateway's one DiscoveryService holds); the server
and the messages on their way to it.

*Actions.* A task goes from await to await: `Step` is the loop's or a timer's next
statement or query, and a row takes two, `SelectRow` and `SaveRow`, as in `CRUDService`.
`Listener` copies a block and schedules the discovery that a CONFIG block or a
deployment asks for. `ProcessSyncMessage` and `GetChannels` are `Proxy`. `Fault` is a
failing statement or query; one that the loop does not catch ends it, and 'REQUEST TIMEOUT' and
'ETIMEOUT' do not even stop the process (`sync.ts`), so nothing starts the loop again.

*Abstractions.* A discovery answers with the nodes of a channel. `insertDiscoveredChannel` is
no action: a hub exists only for a channel whose genesis hash is set, so no block reaches the branch that
sends NEWCHANNEL. An orderer's reference row is keyed by its host and its own row by
host and port, as the code does (`HostOf`). A server that starts while no peer answers
takes the channels of any network that the database lists (`ServerChannels`), and shuts down if it lists none.

### ExplorerProcesses

*State.* `db`: the server's connection, "open", "refused" with the second attempt
to come, or "lost"; `ending`: somebody has called for the shutdown; `copies`: for each start of
the server, whether the sync process it forked is copying, left behind ("orphan") or gone.

*Actions.* `HandleDisconnect` is the first attempt of a start, which goes on without a
connection; `RetryConnection` the timer of two seconds, which calls `handleDisconnect` without its
`this` and so throws (`PgService.ts:132`); `LoseConnection` the event 'error', whose handler knows
only a code of MySQL and throws. `InitializeListener` forks, or leaves out a client whose peer named no
channels. `ShutDown` and `Kill` end the server with and without its handlers, `SyncFails` and
`Send` the sync process: an orphan ends at its first notification, for
`process.send` finds the channel closed.

*Abstractions.* A statement without a connection fails like any other statement. The sync process's own
connection is part of `SyncFails`. The two seconds between `shutDown` and the exit are not
a state: no statement is sent in them.

### ExplorerAccounts

*State.* `rows`: how many rows each name has with each role; `req`: the requests under
way, with what they learned; `stage`: where the start of the server is; the `wallet`
and what the CA has `registered`; whether the profile asks for authentication and
names a CA.

*Actions.* One per query of register, unregister, login and `registerAdmin`, and one
per await of `FabricGateway.initialize`; failures of each, crashes and restarts
between any two. The first stage of a start is "database"; a failed stage goes where
`AfterFailure` says, and the steps of `ExplorerProcesses` happen `Beside` all of them. A token outlives its user, and still passes `auth-check`.

### ExplorerClient

*State.* The redux `store`; the `header` with its interval and those it lost track of (`leaked`); the
`tab` and its `list`; the answers awaited (`flights`) and the changes of channel asked
for (`moves`). `kind` says whether the list is that of blocks or of transactions.

*Actions.* An answer updates the store whatever it was asked for; the last view of a
call to be answered ends its promise, with what then happens in the component that awaits it.
`Tick`, `ListTick` and `LeakedTick` are intervals, `Notification` the websocket; the user
changes channel, closes the dialog, turns a page, searches, opens the list and leaves it.

### StudentWeb

*State.* The password of each user at the CA and in Supabase; the sign-ins of two browsers; the
session; the list with its `bookmark` and the request `asked` for; both dialogs; the
`ledger`. `present`, `seen` and `unheard` remember what the properties speak of and
influence nothing.

*Actions.* `sign-in.ts` await by await; requests of the list, cancelled by newer
ones as `useFetch` does; a dialog's evaluation, submission and answer; writes of others.

*Abstractions.* Managers of schools and of the bureau; the form's other fields are one
name; the ledger commits a submitted transaction at once. A bookmark is the first key of
the next page; a page is cut before the records of other schools are dropped, as
`QueryAllStudents` does. Others create students and rename them, and never move one to another
school, though `UpdateStudent` (`student.go:122`) lets any manager's client name one: a
student who is moved may leave or join a walk that is under way. So `WalkReachesEveryStudent` is
about students who stay where they are, and `SchoolIsKept` about the steps of the pages
alone. Supabase answers with its errors: a failed look-up reads like no account, and
a failed update of the account goes unnoticed (`sign-in.ts:47,68`).

### ExplorerPages

A behaviour opens one page (`kind`) at any moment of the copy and goes on from there: the
copy, the peers, the clock and the server move as far as the page can see them
(`Sees`), the page and its routes make a step per statement or query.
`ExplorerCopy` states what moves; `Watched`, `MaxEvents` and the other bounds say how much.

*Lists.* `PagedList` is `blockAndTxList` and `txList`: a count, then the rows of the page,
over what the window has at that statement; the client takes a new number of pages only
with page 1. `RangeSearch` fetches block after block, from the database or else from a peer.

*Search and dialogs.* `SearchField` asks for one of four results, any of which may
overlap; `Dialogs` are the rows that are clicked, of which the one answered last
fills the slot that every dialog shows, and the transaction a link names.

*Figures.* `Statements` lists, for each request, the statements and peer queries of its
route in their order, `Result` what each reads. A report is kept in `figure` with the
state when it was asked, which the properties compare.
The height of a channel (`ChainInfo`) is read from a peer that is never behind the
copy; a peer that lags could show a channel with fewer blocks than its last one copied.

*Users.* `UsersPanel` is the login page, the list asked for while the dashboard loads,
the panel and the form. Whether a password is right is open. An Error object rendered
as text blanks the page.

*A failure.* A statement or a query of a peer may reject. Where no route catches it
(`Uncaught`), the handler of `unhandledRejection` stops the server (`main.ts`), after which pages
keep what they have. `getStatus`, `getTxPerChaincode`, `/peers`, `getChannelsInfo` and the peers' queries
catch theirs.

## 4. Runs

| run | configuration | question |
|---|---|---|
| `chaincode` | 3 users (bureau, two school managers), 1 student, 2 peers, 3 transactions, 2 dates, failing reads | the six properties below and the type invariant |
| `chaincode_overwrite` | 1 peer, 2 transactions | does a creation ever replace a record? It does |
| `sync_safety` | 1 listener, 2 passes, blocks of 1 and 2 transactions, 1 failed statement, 1 crash | rows, blocks, counters, announcements, refinement |
| `sync_liveness` | 2 listeners, 1 pass, 3 blocks, the latest 2 wanted, 1 peer failure, timers and lifecycle transactions | is every wanted block copied? |
| `sync_overlap` | 1 listener, 2 passes, no fault | may two passes overlap? They may |
| `sync_block_lock` | 1 listener, 1 pass, 1 failed statement | is a block that failed copied later? It is not |
| `network` | 2 channels, an orderer that joins, 1 chaincode, 1 timer, 2 blocks, 1 rebuilt network, 1 fault, 2 starts | one network per name, counters, every member recorded while the loop lives |
| `accounts` | root and 2 users, 2 requests at once, 2 starts, 1 fault | administrator, removals, enrolment, one writer, a database |
| `accounts_unique` | root and 2 users, 2 requests at once, 1 start, no fault | are user names unique, as the model declares? They are not |
| `client` | 2 channels with 2 pages and 1, 1 typed search, 2 acts (of the user, notifications or failures) | refresh, change of channel, dialog, pager |
| `web` | a manager and an officer of the bureau, 2 passwords, 3 students on pages of one, 6 acts, 1 fault | the walk, own writes, schools, passwords |
| `pages` | 3 blocks of 4 transactions, pages of 2 rows, 3 nodes, 2 searches, 2 clicks, 1 report, 2 users with 2 requests | what lists, searches, dialogs, figures and users show |

**chaincode.** `OneCreationPerStudent`: of the creations that read their key, one
is committed per number. `RegistrationIsForGood`: a record and its creation date
stay. `SchoolChangesOnRequest`: only an update that names a school changes it.
`GradedSchoolsWereAttended` and `QueryReturnsEveryGrade` are about the composite
keys and their history. `ImplementsRegistry` says it all at once: whatever the
lag and the races, the committed transactions are atomic operations on the
registry. A failed `GetState` weakens three of them, and each names that
exception. Bounds: three transactions are enough for a creation, an update and
a grade, or for two that race and one that reads what they did; two peers, for
one that lags and one that does not. Users with three kinds of certificates
take every branch of `CheckAffiliation` but the unit "admin". Transactions and
peers are symmetric.

**sync_safety.** `NoDuplicateRows`, `BlocksAreComplete`, `AnnouncedOnce` and
`ImplementsLedgerCopy` hold through crashes and failed statements.
`CountersFollowRows` bounds the counters by the rows always; equality is claimed
only if nothing has failed, because the code never repairs a counter whose
update was lost. Two overlapping passes are what the missing lock of
`syncBlocks` allows (`sync_overlap`), and with a listener they make three tasks
for two blocks; a block of two transactions has a first, a last and a gap
between them. The run leaves peer failures to `sync_liveness`, where a skipped
block matters.

**sync_liveness.** `WantedBlocksAreCopied`: a block that from some point on is
always in the window the configuration asks for is copied, although the
listener starts late, may fail to register and a pass may fail. Three blocks and
a window of two make the lower edge of the window fall inside the ledger. The
run assumes no failed statement and no crash: `sync_block_lock` shows what the
first does, and nothing restarts the process after the second.

**network.** `OneNetworkPerChannel`: the loop looks for the name of a channel and then
inserts it, with awaits between in which the network may be rebuilt under the same names and
Explorer stopped and started; still rows of two eras never stand side by side. `CountersBounded` and `CountersOnlyGrow`: the listener counts rows while a
channel is saved. The chaincode's count may stay below its rows for good (its row is inserted ten seconds
after the block that committed it, with 0), so the bound is one-sided.
`MembersAreRecorded` is liveness: two channels, so that a discovery may be answered
with the results of the other, and a node that joins late. It is claimed while
the loop lives: an exception that reaches `updateNetworkConfig` ends it, and nothing restarts it.
One rebuild, one failure and two starts may fall between any two statements. At most three
joinings, rebuilds and blocks and two starts and failures happen in one behaviour (`MaxSize`, `MaxTrouble`):
both channels and a member, a channel and its chaincode's two blocks, or a channel before and
after the rebuild. The one node is an orderer; a peer's rows take the same statements, and
which chaincodes it has (`peer_ref_chaincode`) is in the model and the theorems but not in this instance.

**accounts.** `RemovedCompletely`, `RootAdminStays` hold through every overlap of two requests.
`PartialEnrolmentIsFinal` says what one failure between the CA's two steps costs: no
later start ever serves, because registering again is refused and the secret is lost.
Two users beside the administrator let each remove the other.
`ServerIsWhole`: two starts make
two sync processes possible, and the one fault is a refused or a lost connection, a sync
process that fails, or a profile that gives no channels; a killed server is no fault of these, it may be
either start.

**accounts_unique.** `UsernamesAreUnique` is what `app/model/User.ts` declares. Two overlapping
registrations break it (section 5); that it takes an overlap is a theorem (`UniqueTheorem`).

**client.** `AlwaysRefreshed` and `ChangesSettle` are about intervals that are cleared and set around
awaits; `DialogCloses` and `ListFollowsPager` are liveness. Two channels of different
length make an answer for the other channel visible, and two acts suffice for two overlapping
changes, or a change and a failure.

**web.** `WalkReachesEveryStudent`: pages of one student are filtered after they are
cut, so one of them may be empty while others follow; six acts (of this user, of the other browser, of
others who write) are a sign-in, the pages and a write between two of them. `OwnWritesShown` is stated for a write whose answer
arrived. `LockedOutStays` is what becomes of a changed password: Supabase's is never updated.

**pages.** `NothingSkipped` states the two exceptions the queries really have: transactions of
one time are in no order, and a window of the last day moves, so what leaves it shifts the
pages behind. `AnswersAreTrue` is `RangeIsTrue`, `SearchIsTrue` and `DetailsAreTrue`; each
names the failures after which a page keeps what it had. `PanelsAreCurrent` is
`FiguresAreCurrent`, with a conjunct per request (a figure lies between what was there when
it was asked and what is there when it is shown, although its statements saw different
moments), and `UsersAreTrue`, which says when the page goes blank and how far the list of users may
be from the table. Three blocks on pages of two rows make a page that is full and one
that is not; the last block's timestamp is before the others', for its creator's clock is the
one recorded; another channel has a transaction with the number of block 0. Every page is
opened at every moment of the copy, so few further changes are needed: two (`MaxEvents`), or one
where requests overlap most or much is in sight (`OneEvent`); in the users panel a change or failure
before the second request takes its place (`Asks`). The search watches block 1
and the dialogs blocks 0 and 1.

*Fairness.* ExplorerSync: weak fairness of each task's steps (a promise settles), of the
interval's calls (a timer fires again and again, `SyncPlatform.ts:121-124`) and of
the first start. ExplorerNetwork: of the loop's steps only (it sets its timeout
again while it lives); timers and the server may never come to run. ExplorerClient: of the answers to each
kind of call (an answer is the promise's end, a failure is one too), of both
intervals and of the answer to a change of channel. None for the growth of the ledger, for faults, for the user or for a
restart: the server forks the sync process once (`ForkListenerHandler.ts:34`) and does not watch it.
The other specifications state safety only.

CHECK_DEADLOCK is off: each instance stops when its transactions have ended or
its ledger, requests and acts have reached their bounds.

### Bounds

`MaxBlock`, `MaxTxs` and `MaxBlocks` bound the ledger; `MaxDbFaults`, `MaxPeerFaults`,
`MaxFaults`, `MaxCrashes`, `MaxStarts` and `MaxEra` the faults, restarts and rebuilt networks;
`MaxSize` and `MaxTrouble` what happens to the network and to its recording in one behaviour;
`MaxActs`, `MaxSearches`, `MaxClicks`, `MaxPosts`, `MaxReports`, `MaxEvents` and `MaxTime` what users, others and the
clock do; the size of `Txns` the requests. `Passes`, `Hubs`, `Timers`, `Requests`, `Calls` and `Posts` bound
what is under way at once. All of them are constants; the
theorems hold for any values. Symmetry is used for the identities that no
definition orders or names, and in runs of safety properties only.

## 5. Findings

- `StudentExists` drops the error of `GetState` (`chaincode/sm/student.go:48`):
  `CreateStudent` may replace a registered student (`chaincode_overwrite`).
- `syncBlocks` never adds its key to `synchInProcess` (`SyncService.ts:380`): the
  check for a running synchronization never holds (`sync_overlap`). The per-block
  lock keeps this from doing harm to the rows, as `sync_safety` and the theorems show.
- `processBlockEvent` releases its block only on success (`SyncService.ts:808`):
  after one failed statement the block is refused until the process restarts
  (`sync_block_lock`).
- `app/model/User.ts` declares `username` unique (line 11) and an index
  `unique: true` over `username` and `networkName` (lines 50-58). The table of
  `explorerpg.sql:192-205` has neither, and the model is defined (`PgService.ts:104`) and never synced: two
  registrations that overlap leave two rows of a name (`accounts_unique`), and the role
  of such a user is that of whichever row is found. Nobody loses it by halves: `RemovedCompletely`.

One defect is stated as a property that holds, for no line of the repository says
otherwise: the bureau cannot create a student through the pages (`BureauCannotCreate`
in `web`, `BureauTheorem`). The evaluation that `student.post.ts:12` sends before the
submission leaves out the school, which `student.go:76` demands of the bureau, although the
form has it.

## 6. Proofs

All theorems are about the specifications above, for any values of the constants
that satisfy the named assumptions (`ConstantsAssumption`, `SyncAssumption`,
`NetworkAssumption`, `ClientAssumption` and so on: sentinels differ from data, requests are well formed,
tasks of different kinds are different things). TLC evaluates these assumptions in every run.
`PROJECT.json` lists the theorems with the property each states.

**StudentChaincode_proofs.** The inductive invariant `IInv` adds to the types: a
version is the number of a block no later than the state it is found in, and is
0 exactly for a key never written (`VersionsAreBlocks`); the same version of a key has
the same value in all blocks (`VersionsAreFresh`); an endorsement agrees with
some block of the chain (`ReadsAreFaithful`); a committed creation leaves its
key written (`CreationsAreWritten`). It is needed because the properties speak of
the head of the chain while an endorsement saw some earlier block. The key lemma
`CurrentReadIsTip` then says: if the version read is current at the commit, what
was read is what is there now. From it follow one lemma per kind of commit
and the theorems: types, `RegistrationIsForGood`, `OneCreationPerStudent`,
`GradedSchoolsWereAttended`, `SchoolChangesOnRequest`, `QueryReturnsEveryGrade`
and the refinement of `StudentRegistry`.

**ExplorerSync_proofs.** The inductive invariant adds to the types: busy tasks
hold different blocks and have them in `blocksInProcess` (`Locked`); each block's rows
are consistent (`BlockOK`); and what a task learned from its last SELECT is still
true (`Progress`), which holds because only the holder of the lock writes rows of
the block. The theorems: types, `NoDuplicateRows`, `BlocksAreComplete`,
`AnnouncedOnce` and the refinement of `LedgerCopy`, for which a second invariant says
that no task looks for a block the ledger does not have (`WithinLedger`). They hold
with any number of listeners, passes, faults and restarts, so the
missing lock of `syncBlocks` costs work but no correctness. `CountersFollowRows`
needs a third (`CInv`): a task between its insertion and its counter accounts for
the difference, and the cardinality of the rows grows by one with each insertion.

**ExplorerNetwork_proofs.** Beside the types, `SaveInv`: a task at "save" has looked
for the name and no row of that name has come since, whoever else is between two
statements. With the lemma `ChannelRowStep`, which says how one step may change
the column `blocks`, it gives `OneNetworkPerChannel`, `CountersBounded`
and `CountersOnlyGrow`.

**ExplorerAccounts_proofs.** `RootInv`: the administrator's row is recorded before
anybody else can be, and no request about to write has its name.
`NoMoreThanRequests`: the rows of a name plus the registrations about to insert it
are never more than the requests; it needs a count of requests. So a name has at most as many
rows as requests overlap (`DuplicatesTheorem`), and one if none do (`UniqueTheorem`). `EnrolInv` follows
the wallet and the CA through the stages. From them the types and the other properties.

`ServerIsWhole` needs to know, of the server at every stage, that only its last start may be
copying and that a connection that is lost has its shutdown called for.

**ExplorerClient_proofs.** `NotLost` (a change of channel that cleared the interval is
still being loaded) gives `AlwaysRefreshed`; `Settling` says, change by change, how far the
header, the store and the interval have got, and gives `ChangesSettle`.

**StudentWeb_proofs.** `WalkInv`: whatever lies before the bookmark has been
seen (`BehindSeen`), what the list shows was seen (`ShownSeen`), who was present is
still registered (`PresentListed`) and the request under way goes on from the
bookmark (`AskedGoesOn`). The lemmas `PageIsFull` and `ListedStays` are about the cut of a
page: a page that names a next one leaves out nobody before it. `OwnInv`
relates the age of the list to the writes of its own page. `SchoolIsKept`,
`BureauCannotCreate` and `LockedOutStays` need no more than the types.

**ExplorerFigures_proofs.** First the copy: `CopyStays` says that each step keeps its shape
(`CopyOK`) and that the state after it follows the state before (`Precedes`: no row, node or count
is taken away, and the clock does not go back). Then the reports. A page shows what several
statements read at several moments; the invariant `FiguresInv` gives each report the moment it was
asked at (`Moments`), says which of its statements are still to come and what it has by then (`TodoOf`),
and of each value read that it lies between what the first moment and the present one have
(`AnswerOf`). `AnswerStays` is the lemma that carries this over any step: what was true of a
value stays true of it in a copy that has grown. One lemma per statement (`ChartTells`,
`ActivityTells`, `ChannelTells`, ...) says what it reads. The counts of charts and of joins are cardinalities of sets, so no
induction over data is needed; the latest blocks are those with few blocks after them (`LatestBlocks`).

**ExplorerPages_proofs.** The other pages, one inductive invariant for each, all over `CopyOK`; each comes with
a lemma that its own steps keep it, and one that a growing copy keeps it while the page rests.
The lemma `PagesStep` puts them together.
- *Search* (`SearchInv`): an answer under way was asked of a ledger that has grown since, so what it
  found is still there, and 'not found' was true then or follows a failure. At most one of the four results
  is set, which is what lets one slot after the other be shown.
- *Dialogs* (`DialogsInv`): a detail under way or in the slot is of a row the channel has.
- *Range* (`RangeInv`): what was fetched are the blocks from the first one asked for up to the one
  being fetched, in their order; what is shown ends before the last one asked for only at
  the end of the ledger or after a failure.
- *Lists* (`ListInv`): of the rows that the list has had since its first page (`walk.ever`) and
  still has, more come before a row not shown yet than there is place for on the pages reached
  (`Behind`). A newcomer pushes rows back, never forward, and only time takes rows out in front: those are the
  exceptions `NothingSkipped` names. Whether a window has a row does not depend on the rest of the copy (`Fits`),
  so the invariant says the same before and after a copied block.
- *Users* (`UsersInv`): while nothing has failed and nobody else changed the table, one request
  at most is at work (`Calm`), and its progress says how the list and the table differ (`WorkOK`, `Agree`); the
  list has as many users as the table, the same ones unless `reloadUsers` cut one off. The panel is open only with a
  list that was read, or on a blank page.

*Assumptions.* Besides the ones named above, `CopyAssumption`, `UsersAssumption` and their like ask for
finite sets of nodes and of names (their rows are counted), a period of the charts
that is a whole number of units, and sentinels that are no data. Bounds such as `MaxEvents`
are any natural numbers.

*Only model-checked.* Liveness (`WantedBlocksAreCopied`, `MembersAreRecorded`, `DialogCloses`,
`ListFollowsPager`) rests on fairness, and so on ENABLED, outside TLAPS's reach here. The four properties
that the code violates (section 5) are counterexamples of TLC. Everything else a run checks is a
theorem. What TLC alone shows about the theorems is that their hypotheses are met and the interesting
cases occur: every action of the specifications fires in the runs.

## 7. Not modelled

- Bootstrap scripts: a person runs and watches them; every step is a call to
  an external binary.
- `CheckMspID` (no caller), `InitLedger` (no effect), `update-user.ts` (no page
  calls it), `insertDiscoveredChannel` (unreachable), the metrics by day, week, month and
  year and `getOrdererList` (no route calls them).
- The identity for mutual TLS and the reading of configuration files; certificates beyond
  what the contract compares; JSON.
- That the sync process is started again after it failed, and that a search for a range comes back from a
  lost request: the code does neither, so there is nothing to hold. Both are hazards listed without a property.
- Of the web client: logging out and reloading, the removal of a refused token, validation of
  forms, sorting and filtering within a page, layout and styling, which are most of its lines.
- Reorganization of PostgreSQL, disk failures; Fabric's own consensus.

Met while modelling, and part of the models where a property could say so:

- A failed statement in a route without a catch stops the server: among others
  the lists, the charts by hour, `findUser` at login. `/transaction` never answers for a row that is missing.
- A search for a range of blocks that fails leaves its spinner on; a search that is lost
  leaves the last result, and the dialog opens on it; so does the dialog of a row. A direct link asks
  for 'TransactionNotSpecified' once its list arrives.
- The dialog of an update of students may be closed by another one's answer, and closes
  on a failure after an earlier success; a failed first page leaves Next Page without effect until a refresh.
- After an unregistration the panel removes the user it finds by its position at
  the time, or the last one; 'registered successfully!' comes only after the list was read again, so the button
  can be pressed twice.
- `getTransactionByID` ignores the channel; the channels' figures join tables
  uncorrelated; the peers of an organization without a live peer are left out of the status.
