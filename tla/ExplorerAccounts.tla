-------------------------- MODULE ExplorerAccounts --------------------------
(***************************************************************************)
(* The accounts of one network of the explorer: the users table, the       *)
(* requests that register and unregister users (UserService.ts), the       *)
(* tokens that authorize them (local-login.ts, auth-check.ts) and what the *)
(* server does before it listens: it registers the administrator named in  *)
(* the connection profile (Platform.ts, registerAdmin) and obtains an      *)
(* identity for it, from the certificate authority or from the profile     *)
(* (FabricGateway.ts, initialize and enrollCaIdentity).                    *)
(*                                                                         *)
(* The table has no unique constraint and every query of a request is a    *)
(* step of its own: requests interleave between them. Passwords are left   *)
(* out: a login with a wrong one changes nothing.                          *)
(***************************************************************************)
EXTENDS ExplorerProcesses

CONSTANTS
    Users,      \* names of users
    Root,       \* the administrator of the connection profile
    Requests,   \* the requests the server handles at once
    NoUser,     \* the user of a request slot that is free
    NoRole      \* the role of a request that names none

ASSUME UsersAssumption == Root \in Users /\ NoUser \notin Users
(* isAdminRole compares with 'admin'; "user" is every other string. *)
Roles == {"admin", "user"}

ASSUME RolesAssumption == NoRole \notin Roles
ASSUME RequestsAssumption == IsFiniteSet(Requests) /\ Requests # {}

VARIABLES
    authOn,     \* the profile's enableAuthentication
    caOn,       \* the profile names a certificate authority
    rows,       \* users table: how many rows a name has with each role
    tokens,     \* names for which a token has been issued
    req,        \* the requests being handled
    wallet,     \* the administrator's identity is in the file system wallet
    registered  \* the certificate authority knows the administrator

vars == <<authOn, caOn, rows, tokens, req, stage, wallet, registered, starts, faults, processes>>
config == <<authOn, caOn>>
identity == <<wallet, registered>>

(* initialize of the server, await by await. *)
Stages == {"down", "database", "exists", "look", "create", "wallet", "profile",
           "ca admin", "register", "enrol", "store", "connect", "serving"}

Free == [op |-> "none", pc |-> "idle", by |-> NoUser, user |-> NoUser, roles |-> NoRole]

RequestStates ==
    [op : {"none", "register", "unregister"}, pc : {"idle", "role", "look", "write"},
     by : Users \cup {NoUser}, user : Users \cup {NoUser}, roles : Roles \cup {NoRole}]

Init ==
    /\ authOn \in BOOLEAN
    /\ caOn \in BOOLEAN
    /\ rows = [u \in Users |-> [r \in Roles |-> 0]]
    /\ tokens = {}
    /\ req = [q \in Requests |-> Free]
    /\ wallet = FALSE
    /\ registered = FALSE
    /\ ProcessesInit

-----------------------------------------------------------------------------
(* The users table. *)

(* findOne with no order: any row of the name may be the one found. *)
Found(u) == {r \in Roles : rows[u][r] > 0}

IsExist(u) == Found(u) # {}

RegisterUser(u, r) == [rows EXCEPT ![u][r] = @ + 1]

(* What if a row of each role were removed, found or not. *)
RemoveOneOfEach(u) == [rows EXCEPT ![u] = [r \in Roles |-> @[r] - 1]]

(* What if destroy removed the rows of one role only. *)
UnregisterOne(u) == [rows EXCEPT ![u] = [r \in Roles |-> IF r = "admin" THEN @[r] ELSE 0]]

(* destroy with the name in its where clause: duplicates go together. *)
UnregisterUser(u) == [rows EXCEPT ![u] = [r \in Roles |-> 0]]

-----------------------------------------------------------------------------
(* Before the server listens. *)

Start ==
    /\ stage = "down"
    /\ starts < MaxStarts
    /\ starts' = starts + 1
    /\ stage' = "database"
    /\ StartExplorer
    /\ UNCHANGED <<config, rows, tokens, req, identity, faults>>

(* buildClients: without authentication no administrator is registered. *)
FirstStage == IF authOn THEN "exists" ELSE "wallet"

(* The connection is opened, or not, before anything else. *)
OpenDatabase ==
    /\ stage = "database"
    /\ stage' = FirstStage
    /\ HandleDisconnect
    /\ UNCHANGED <<config, rows, tokens, req, identity, starts>>

(* registerAdmin: isExist. *)
FindRoot ==
    /\ stage = "exists"
    /\ stage' = IF IsExist(Root) THEN "wallet" ELSE "look"
    /\ UNCHANGED <<processes, config, rows, tokens, req, identity, starts, faults>>

(* register looks again: a row found now is an error, no network is left *)
(* and the process ends.                                                 *)
LookForRoot ==
    /\ stage = "look"
    /\ stage' = IF IsExist(Root) THEN "down" ELSE "create"
    /\ UNCHANGED <<processes, config, rows, tokens, req, identity, starts, faults>>

CreateRoot ==
    /\ stage = "create"
    /\ rows' = RegisterUser(Root, "admin")
    /\ stage' = "wallet"
    /\ UNCHANGED <<processes, config, tokens, req, identity, starts, faults>>

LookInWallet ==
    /\ stage = "wallet"
    /\ stage' = IF wallet THEN "connect" ELSE IF caOn THEN "ca admin" ELSE "profile"
    /\ UNCHANGED <<processes, config, rows, tokens, req, identity, starts, faults>>

(* enrollUserIdentity: the certificate the profile holds. *)
EnrollUserIdentity ==
    /\ stage = "profile"
    /\ wallet' = TRUE
    /\ stage' = "connect"
    /\ UNCHANGED <<processes, config, rows, tokens, req, registered, starts, faults>>

EnrollCaAdmin ==
    /\ stage = "ca admin"
    /\ stage' = "register"
    /\ UNCHANGED <<processes, config, rows, tokens, req, identity, starts, faults>>

(* What if a registration the authority already has were no error. *)
GoesOn == "enrol"

(* An identity the authority already knows is refused; the error is caught, *)
(* enrollCaIdentity returns null and initialize goes on to connect.         *)
AfterRegister == IF registered THEN "connect" ELSE "enrol"

RegisterAtCa ==
    /\ stage = "register"
    /\ registered' = TRUE
    /\ stage' = AfterRegister
    /\ UNCHANGED <<processes, config, rows, tokens, req, wallet, starts, faults>>

EnrollAdmin ==
    /\ stage = "enrol"
    /\ stage' = "store"
    /\ UNCHANGED <<processes, config, rows, tokens, req, identity, starts, faults>>

StoreIdentity ==
    /\ stage = "store"
    /\ wallet' = TRUE
    /\ stage' = "connect"
    /\ UNCHANGED <<processes, config, rows, tokens, req, registered, starts, faults>>

(* gateway.connect reads the identity from the wallet: without it the     *)
(* error ends the process, with it the server forks its sync process, and *)
(* listens.                                                               *)
AfterConnect == IF wallet THEN "serving" ELSE "down"

Connect ==
    /\ stage = "connect"
    /\ stage' = AfterConnect
    /\ IF stage' = "serving" THEN InitializeListener ELSE UNCHANGED <<processes, faults>>
    /\ UNCHANGED <<config, rows, tokens, req, identity, starts>>

(* What enrollCaIdentity awaits is caught there; anything else ends the process. *)
AfterFailure == IF stage \in {"ca admin", "register", "enrol", "store"} THEN "connect" ELSE "down"

(* One await of the initialization fails (createFabricClient). *)
StartFails ==
    /\ stage \notin {"down", "database", "serving"}
    /\ faults < MaxFaults
    /\ faults' = faults + 1
    /\ stage' = AfterFailure
    /\ UNCHANGED <<processes, config, rows, tokens, req, identity, starts>>

(* The process ends, at any point; the requests it handled are gone. *)
Crash ==
    /\ stage # "down"
    /\ ShutDown \/ Kill
    /\ stage' = "down"
    /\ req' = [q \in Requests |-> Free]
    /\ UNCHANGED <<config, rows, tokens, identity, starts>>

-----------------------------------------------------------------------------
(* The requests. *)

(* POST /auth/login: a token for a name that has a row, and for any name   *)
(* when the profile skips authentication. Nothing revokes a token: it ends *)
(* after two hours, when its holder asks no more.                          *)
Login(u) ==
    /\ stage = "serving"
    /\ authOn => IsExist(u)
    /\ tokens' = tokens \cup {u}
    /\ UNCHANGED <<processes, config, rows, req, stage, identity, starts, faults>>

Ask(q, op, by, u, r) ==
    /\ stage = "serving"
    /\ by \in tokens
    /\ req[q] = Free
    /\ req' = [req EXCEPT ![q] = [op |-> op, pc |-> "role", by |-> by, user |-> u, roles |-> r]]
    /\ UNCHANGED <<processes, config, rows, tokens, stage, identity, starts, faults>>

(* POST /api/register and POST /api/unregister, past auth-check.ts. *)
AskRegister(q, by, u, r) == Ask(q, "register", by, u, r)
AskUnregister(q, by, u) == Ask(q, "unregister", by, u, NoRole)

(* What if the root administrator could be unregistered. *)
AnyOther(q) == req[q].user # req[q].by

(* unregister refuses the requester's own name and the profile's administrator. *)
MayUnregister(q) == req[q].user # req[q].by /\ req[q].user # Root

Granted(q) == req[q].op = "unregister" => MayUnregister(q)

(* Past the check of the role, who asks makes no difference. *)
Continue(q, go, pc) ==
    req' = [req EXCEPT ![q] = IF go THEN [@ EXCEPT !.pc = pc, !.by = NoUser] ELSE Free]

(* isAdminRole: the row found decides; none found is an error. *)
CheckRole(q) ==
    /\ req[q].pc = "role"
    /\ \/ \E r \in Found(req[q].by) : Continue(q, r = "admin" /\ Granted(q), "look")
       \/ ~IsExist(req[q].by) /\ Continue(q, FALSE, "look")
    /\ UNCHANGED <<processes, config, rows, tokens, stage, identity, starts, faults>>

(* register wants no row of the name, unregister wants one. *)
Proceeds(q) == (req[q].op = "unregister") <=> IsExist(req[q].user)

Look(q) ==
    /\ req[q].pc = "look"
    /\ Continue(q, Proceeds(q), "write")
    /\ UNCHANGED <<processes, config, rows, tokens, stage, identity, starts, faults>>

Create(q) ==
    /\ req[q].pc = "write" /\ req[q].op = "register"
    /\ rows' = RegisterUser(req[q].user, req[q].roles)
    /\ req' = [req EXCEPT ![q] = Free]
    /\ UNCHANGED <<processes, config, tokens, stage, identity, starts, faults>>

Destroy(q) ==
    /\ req[q].pc = "write" /\ req[q].op = "unregister"
    /\ rows' = UnregisterUser(req[q].user)
    /\ req' = [req EXCEPT ![q] = Free]
    /\ UNCHANGED <<processes, config, tokens, stage, identity, starts, faults>>

(* A query fails: the request is answered with status 400. *)
QueryFails(q) ==
    /\ req[q] # Free
    /\ faults < MaxFaults
    /\ faults' = faults + 1
    /\ req' = [req EXCEPT ![q] = Free]
    /\ UNCHANGED <<processes, config, rows, tokens, stage, identity, starts>>

Initialize ==
    \/ Start \/ OpenDatabase \/ FindRoot \/ LookForRoot \/ CreateRoot \/ LookInWallet
    \/ EnrollUserIdentity \/ EnrollCaAdmin \/ RegisterAtCa \/ EnrollAdmin
    \/ StoreIdentity \/ Connect \/ StartFails

Serve ==
    \/ \E u \in Users : Login(u)
    \/ \E q \in Requests : \E by, u \in Users :
          AskUnregister(q, by, u) \/ \E r \in Roles : AskRegister(q, by, u, r)
    \/ \E q \in Requests : CheckRole(q) \/ Look(q) \/ Create(q) \/ Destroy(q) \/ QueryFails(q)

Next ==
    \/ Initialize \/ Serve \/ Crash
    \/ Beside /\ UNCHANGED <<config, rows, tokens, req, stage, identity, starts>>

Spec == Init /\ [][Next]_vars

-----------------------------------------------------------------------------
(* Properties. *)

TypeOK ==
    /\ authOn \in BOOLEAN /\ caOn \in BOOLEAN
    /\ rows \in [Users -> [Roles -> Nat]]
    /\ tokens \subseteq Users
    /\ req \in [Requests -> RequestStates]
    /\ stage \in Stages
    /\ wallet \in BOOLEAN /\ registered \in BOOLEAN
    /\ ProcessesOK

(* The administrator of the profile is there, with one row and the role     *)
(* admin, from the moment registerAdmin is over, through every interleaving *)
(* of register and unregister, and nobody else has a row without it: the    *)
(* network never loses its last administrator (UserService.ts, unregister). *)
RootAdminStays ==
    (\/ \E u \in Users : IsExist(u)
     \/ authOn /\ stage \notin {"down", "database", "exists", "look", "create"})
        => rows[Root] = [r \in Roles |-> IF r = "admin" THEN 1 ELSE 0]

(* app/model/User.ts declares the user name unique (line 11) and a unique   *)
(* index over it and the network's name (lines 50-58): a network has one    *)
(* row per name. The model is only defined, never synced, and the table of  *)
(* explorerpg.sql has no such constraint; register looks for the name and   *)
(* inserts it in two queries, so that two requests insert it twice.         *)
UsernamesAreUnique == \A u \in Users : rows[u]["admin"] + rows[u]["user"] <= 1

(* A name that loses a row loses all of them, whatever overlapping requests *)
(* inserted: unregister leaves nobody who could still sign in.              *)
RemovedCompletely ==
    [][\A u \in Users :
         (\E r \in Roles : rows'[u][r] < rows[u][r]) => \A r \in Roles : rows'[u][r] = 0]_vars

(* The authority knows the administrator, the wallet does not, and no       *)
(* enrolment is under way.                                                  *)
Stranded == caOn /\ registered /\ ~wallet /\ stage \notin {"enrol", "store"}

(* An enrolment that fails after the registration is never made up for: the *)
(* next start registers again, is refused, and connects without an          *)
(* identity. From then on no start of the server succeeds.                  *)
PartialEnrolmentIsFinal == [][Stranded => Stranded' /\ stage' # "serving"]_vars

=============================================================================
