--------------------------- MODULE ExplorerProcesses ---------------------------
(***************************************************************************)
(* The processes of Explorer.  The server (main.ts) opens its connection   *)
(* to the database (PgService.ts), prepares the platform (the stages of    *)
(* ExplorerAccounts), forks a sync process, and serves until a signal, or  *)
(* an error that nobody catches, has it shut down.  The sync process       *)
(* (sync.ts) writes the copy until it is told to stop, fails, or has       *)
(* something to tell a server that is gone.                                *)
(***************************************************************************)
EXTENDS Integers, FiniteSets

CONSTANTS
    MaxStarts,  \* bound: how often the server is started
    MaxFaults   \* bound: queries, calls of the authority, writes and processes that fail

ASSUME BoundsAssumption == MaxStarts \in Nat /\ MaxFaults \in Nat

VARIABLES
    stage,      \* what the server is doing
    starts,     \* starts so far
    faults,     \* failures so far
    db,         \* the server's connection to the database
    ending,     \* the server is about to shut down
    copies      \* the sync process of each start

processes == <<db, ending, copies>>

Happens == faults < MaxFaults /\ faults' = faults + 1

(* "copying": forked, and told to stop by nobody; "orphan": its server was killed. *)
SyncStates == {"none", "copying", "orphan"}

-----------------------------------------------------------------------------
(* The connection to the database. *)

StartExplorer == db' = "none" /\ ending' = FALSE /\ UNCHANGED copies

(* handleDisconnect: a connection that fails is logged, and to be tried *)
(* again in two seconds; the start goes on without it.                  *)
HandleDisconnect ==
    /\ \/ db' = "open" /\ UNCHANGED faults
       \/ db' = "refused" /\ Happens
    /\ UNCHANGED <<ending, copies>>

(* What if the rejection of the second attempt were caught. *)
GivesUp == db' = "lost" /\ UNCHANGED ending

(* The timer calls handleDisconnect without its this: the first line throws, *)
(* and so does the catch that sets the timer again. Nobody awaits the call:  *)
(* unhandledRejection has the server shut down.                              *)
SecondAttempt == db' = "lost" /\ ending' = TRUE

RetryConnection ==
    /\ stage # "down" /\ db = "refused"
    /\ SecondAttempt
    /\ UNCHANGED <<faults, copies>>

(* The event 'error' of a connection that is lost: its code is none of      *)
(* PostgreSQL's or pg's, so the handler throws, which is uncaughtException. *)
LoseConnection ==
    /\ stage # "down" /\ db = "open" /\ Happens
    /\ db' = "lost" /\ ending' = TRUE
    /\ UNCHANGED copies

-----------------------------------------------------------------------------
(* The sync process. *)

(* initialize of Synchronizer: from here on the process writes the copy. *)
StartSync(s) == [copies EXCEPT ![s] = "copying"]

(* fork, once the platform is ready; nothing watches the process from here on. *)
Fork == copies' = StartSync(starts)

(* initializeListener leaves the client out when the peer named no channels. Its *)
(* client is then detached, and throws when the database has no channel either.  *)
InitializeListener ==
    /\ \/ Fork /\ UNCHANGED <<ending, faults>>
       \/ Happens /\ UNCHANGED copies /\ \E none \in BOOLEAN : ending' = (ending \/ none)
    /\ UNCHANGED db

(* shutDown of sync.ts closes the connection, and exits two seconds later: *)
(* no statement is sent from then on.                                      *)
ShutDownSync(s) == [copies EXCEPT ![s] = "none"]

(* A rejection or an exception of it that nobody caught, a timeout's excepted. *)
SyncFails(s) ==
    /\ copies[s] = "copying" /\ Happens
    /\ copies' = ShutDownSync(s)
    /\ UNCHANGED <<db, ending>>

(* An orphan goes on copying up to its first notification: process.send *)
(* finds the channel closed, which is an exception as well.             *)
Send(s) ==
    /\ copies[s] = "orphan"
    /\ copies' = ShutDownSync(s)
    /\ UNCHANGED <<faults, db, ending>>

-----------------------------------------------------------------------------
(* The end of the server. *)

(* What if the server exited without closing its listeners. *)
LeavesSync == copies

(* close of Explorer: the sync process is sent a SIGINT. *)
CloseListeners == [copies EXCEPT ![starts] = IF @ = "copying" THEN "none" ELSE @]

(* shutDown of main.ts: a signal, or an error nobody caught. *)
ShutDown ==
    /\ copies' = CloseListeners
    /\ db' = "none" /\ ending' = FALSE
    /\ UNCHANGED faults

(* SIGKILL, or the memory is exhausted: the sync process is left behind. *)
Kill ==
    /\ copies' = [copies EXCEPT ![starts] = IF @ = "copying" THEN "orphan" ELSE @]
    /\ db' = "none" /\ ending' = FALSE
    /\ UNCHANGED faults

ProcessesInit ==
    /\ stage = "down" /\ starts = 0 /\ faults = 0
    /\ db = "none" /\ ending = FALSE
    /\ copies = [s \in 1 .. MaxStarts |-> "none"]

(* What happens beside the work of the server. *)
Beside ==
    \/ RetryConnection \/ LoseConnection
    \/ \E s \in 1 .. MaxStarts : SyncFails(s) \/ Send(s)

-----------------------------------------------------------------------------
(* Properties. *)

ProcessesOK ==
    /\ starts \in 0 .. MaxStarts /\ faults \in 0 .. MaxFaults
    /\ db \in {"none", "open", "refused", "lost"} /\ ending \in BOOLEAN
    /\ copies \in [1 .. MaxStarts -> SyncStates]

(* One process writes the copy at a time, as ExplorerSync takes for granted, *)
(* through every stop and start of the server; only a server that was killed *)
(* leaves one behind (ForkListenerHandler.ts, sync.ts, Explorer.close).      *)
Writing == {s \in 1 .. MaxStarts : copies[s] \in {"copying", "orphan"}}
OneWriter == \A s, t \in Writing : s # t => "orphan" \in {copies[s], copies[t]}

(* The server serves with a connection to the database, or has its second   *)
(* attempt to come, or is about to shut down: never for good without one,   *)
(* though nothing that was meant to connect again does (handleDisconnect).  *)
NeverWithoutDatabase == stage = "serving" => db \in {"open", "refused"} \/ ending

ServerIsWhole == OneWriter /\ NeverWithoutDatabase
=============================================================================
