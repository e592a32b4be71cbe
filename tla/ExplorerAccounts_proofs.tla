------------------------ MODULE ExplorerAccounts_proofs ------------------------
(***************************************************************************)
(* Theorems about the accounts of the explorer, for any users, any number  *)
(* of requests at once and any numbers of starts and failures.             *)
(***************************************************************************)
EXTENDS ExplorerAccounts, FiniteSetTheorems, TLAPS

(* The actions of one request. *)
RequestStep(q) ==
    \/ \E by, u \in Users : AskUnregister(q, by, u) \/ \E r \in Roles : AskRegister(q, by, u, r)
    \/ CheckRole(q) \/ Look(q) \/ Create(q) \/ Destroy(q) \/ QueryFails(q)

LEMMA ServeSteps ==
  Serve => (\E u \in Users : Login(u)) \/ (\E q \in Requests : RequestStep(q))
  BY DEF Serve, RequestStep

(* The steps of the processes beside the work of the server. *)
Aside == Beside /\ UNCHANGED <<config, rows, tokens, req, stage, identity, starts>>

-----------------------------------------------------------------------------
(* Types, with what a request under way holds. *)

Asking(q) ==
    /\ req[q].pc \in {"role", "look", "write"}
    /\ req[q].op \in {"register", "unregister"}
    /\ req[q].pc = "role" => req[q].by \in Users
    /\ req[q].user \in Users
    /\ req[q].op = "register" => req[q].roles \in Roles

RequestsOK == \A q \in Requests : req[q] = Free \/ Asking(q)

TypeInv == TypeOK /\ RequestsOK

LEMMA FreeType == Free \in RequestStates /\ Free.pc = "idle" /\ Free.op = "none"
  BY DEF Free, RequestStates

LEMMA TypeInit == Init => TypeInv
  <1> SUFFICES ASSUME Init PROVE TypeInv
    OBVIOUS
  <1>1. rows \in [Users -> [Roles -> Nat]]
    BY DEF Init
  <1>2. req \in [Requests -> RequestStates] /\ RequestsOK
    BY FreeType DEF Init, RequestsOK
  <1>3. ProcessesOK
    <2>1. starts \in 0 .. MaxStarts /\ faults \in 0 .. MaxFaults
      BY BoundsAssumption DEF Init, ProcessesInit
    <2>2. /\ db \in {"none", "open", "refused", "lost"} /\ ending \in BOOLEAN
          /\ copies \in [1 .. MaxStarts -> SyncStates]
      BY DEF Init, ProcessesInit, SyncStates
    <2>3. QED BY <2>1, <2>2 DEF ProcessesOK
  <1>4. QED
    BY <1>1, <1>2, <1>3 DEF Init, ProcessesInit, TypeInv, TypeOK, Stages

(* A query that answers, or fails, leaves the request further on or over. *)
LEMMA ContinueType ==
  ASSUME TypeInv, NEW q \in Requests, Asking(q), NEW go \in BOOLEAN,
         NEW pc \in {"look", "write"}, Continue(q, go, pc)
  PROVE  /\ req' \in [Requests -> RequestStates] /\ RequestsOK'
         /\ \A p \in Requests \ {q} : req'[p] = req[p]
         /\ req'[q] = IF go THEN [req[q] EXCEPT !.pc = pc, !.by = NoUser] ELSE Free
  <1>1. req \in [Requests -> RequestStates]
    BY DEF TypeInv, TypeOK
  <1>2. /\ \A p \in Requests \ {q} : req'[p] = req[p]
        /\ req'[q] = IF go THEN [req[q] EXCEPT !.pc = pc, !.by = NoUser] ELSE Free
        /\ req' \in [Requests -> RequestStates]
    BY <1>1, FreeType DEF Continue, RequestStates
  <1>3. req'[q] = Free \/ Asking(q)'
    BY <1>1, <1>2 DEF Asking, RequestStates
  <1>4. \A p \in Requests \ {q} : req'[p] = Free \/ Asking(p)'
    BY <1>2 DEF TypeInv, RequestsOK, Asking
  <1>5. QED
    BY <1>2, <1>3, <1>4 DEF RequestsOK

LEMMA FreedType ==
  ASSUME TypeInv, NEW q \in Requests, req' = [req EXCEPT ![q] = Free]
  PROVE  /\ req' \in [Requests -> RequestStates] /\ RequestsOK'
         /\ req'[q] = Free /\ \A p \in Requests \ {q} : req'[p] = req[p]
  BY FreeType DEF TypeInv, TypeOK, RequestsOK, Asking

LEMMA RowsType ==
  ASSUME rows \in [Users -> [Roles -> Nat]], NEW u \in Users, NEW r \in Roles
  PROVE  /\ RegisterUser(u, r) \in [Users -> [Roles -> Nat]]
         /\ RegisterUser(u, r)[u][r] = rows[u][r] + 1
         /\ \A s \in Roles \ {r} : RegisterUser(u, r)[u][s] = rows[u][s]
         /\ \A v \in Users \ {u} : RegisterUser(u, r)[v] = rows[v]
         /\ UnregisterUser(u) \in [Users -> [Roles -> Nat]]
         /\ \A s \in Roles : UnregisterUser(u)[u][s] = 0
         /\ \A v \in Users \ {u} : UnregisterUser(u)[v] = rows[v]
  BY DEF RegisterUser, UnregisterUser

LEMMA Happening ==
  ASSUME faults \in 0 .. MaxFaults, Happens
  PROVE  faults' \in 0 .. MaxFaults
  BY BoundsAssumption DEF Happens

LEMMA InitializeProcesses ==
  ASSUME ProcessesOK, Initialize
  PROVE  ProcessesOK'
  <1> USE DEF ProcessesOK, processes
  <1>1. CASE Start
    <2>1. starts' \in 0 .. MaxStarts
      BY <1>1, BoundsAssumption DEF Start
    <2>2. /\ db' \in {"none", "open", "refused", "lost"} /\ ending' \in BOOLEAN
          /\ UNCHANGED <<copies, faults>>
      BY <1>1 DEF Start, StartExplorer
    <2>3. QED BY <2>1, <2>2
  <1>2. CASE OpenDatabase
    BY <1>2, Happening DEF OpenDatabase, FirstStage, HandleDisconnect
  <1>3. CASE Connect
    <2>1. starts' = starts
      BY <1>3 DEF Connect
    <2>2. CASE UNCHANGED <<processes, faults>>
      BY <2>1, <2>2
    <2>3. CASE InitializeListener
      <3>1. faults' \in 0 .. MaxFaults
        BY <2>3, Happening DEF InitializeListener
      <3>2. copies' \in [1 .. MaxStarts -> SyncStates]
        BY <2>3 DEF InitializeListener, Fork, StartSync, SyncStates
      <3>3. db' = db /\ ending' \in BOOLEAN
        BY <2>3 DEF InitializeListener
      <3>4. QED BY <2>1, <3>1, <3>2, <3>3
    <2>4. QED BY <1>3, <2>2, <2>3 DEF Connect
  <1>4. CASE StartFails
    <2>1. faults' \in 0 .. MaxFaults
      <3>1. faults \in 0 .. MaxFaults
        BY DEF ProcessesOK
      <3>2. Happens
        BY <1>4 DEF StartFails, AfterFailure, Happens
      <3>3. QED BY <3>1, <3>2, Happening
    <2>2. UNCHANGED <<starts, db, ending, copies>>
      BY <1>4 DEF StartFails, AfterFailure
    <2>3. QED BY <2>1, <2>2
  <1>5. CASE ~(Start \/ OpenDatabase \/ Connect \/ StartFails)
    BY <1>5 DEF Initialize, FindRoot, LookForRoot, CreateRoot, LookInWallet,
           EnrollUserIdentity, EnrollCaAdmin, RegisterAtCa, EnrollAdmin, StoreIdentity
  <1>6. QED BY <1>1, <1>2, <1>3, <1>4, <1>5

LEMMA BesideProcesses ==
  ASSUME ProcessesOK, Aside
  PROVE  ProcessesOK'
  <1> USE DEF ProcessesOK
  <1>0. starts' = starts
    BY DEF Aside
  <1>1. CASE RetryConnection
    BY <1>0, <1>1 DEF RetryConnection, SecondAttempt
  <1>2. CASE LoseConnection
    BY <1>0, <1>2, Happening DEF LoseConnection
  <1>3. ASSUME NEW s \in 1 .. MaxStarts, SyncFails(s)
        PROVE  ProcessesOK'
    BY <1>0, <1>3, Happening DEF SyncFails, ShutDownSync, SyncStates
  <1>4. ASSUME NEW s \in 1 .. MaxStarts, Send(s)
        PROVE  ProcessesOK'
    BY <1>0, <1>4 DEF Send, ShutDownSync, SyncStates
  <1>5. QED BY <1>1, <1>2, <1>3, <1>4 DEF Aside, Beside

LEMMA CrashProcesses ==
  ASSUME ProcessesOK, Crash
  PROVE  ProcessesOK'
  BY DEF ProcessesOK, Crash, ShutDown, Kill, CloseListeners, SyncStates

LEMMA InitializeType ==
  ASSUME TypeInv, Initialize
  PROVE  TypeInv'
  <1>1. req' = req /\ tokens' = tokens /\ UNCHANGED config
    BY DEF Initialize, Start, OpenDatabase, FirstStage, FindRoot, LookForRoot, CreateRoot, LookInWallet,
           EnrollUserIdentity, EnrollCaAdmin, RegisterAtCa, EnrollAdmin, StoreIdentity,
           Connect, StartFails, AfterFailure, config
  <1>2. rows' \in [Users -> [Roles -> Nat]]
    <2>1. "admin" \in Roles /\ Root \in Users
      BY UsersAssumption DEF Roles
    <2>2. CASE CreateRoot
      BY <2>1, <2>2, RowsType DEF TypeInv, TypeOK, CreateRoot
    <2>3. CASE ~CreateRoot
      BY <2>3 DEF TypeInv, TypeOK, Initialize, Start, OpenDatabase, FirstStage, FindRoot, LookForRoot, LookInWallet,
           EnrollUserIdentity, EnrollCaAdmin, RegisterAtCa, EnrollAdmin, StoreIdentity,
           Connect, StartFails, AfterFailure
    <2>4. QED BY <2>2, <2>3
  <1>3. stage' \in Stages /\ wallet' \in BOOLEAN /\ registered' \in BOOLEAN
    BY DEF TypeInv, TypeOK, Initialize, Start, OpenDatabase, FirstStage, FindRoot, LookForRoot, CreateRoot, LookInWallet,
           EnrollUserIdentity, EnrollCaAdmin, RegisterAtCa, EnrollAdmin, StoreIdentity,
           Connect, StartFails, AfterFailure, identity, Stages, AfterRegister, AfterConnect
  <1>4. ProcessesOK'
    BY InitializeProcesses DEF TypeInv, TypeOK
  <1>5. QED
    BY <1>1, <1>2, <1>3, <1>4 DEF TypeInv, TypeOK, config, RequestsOK, Asking

LEMMA RequestType ==
  ASSUME TypeInv, NEW q \in Requests, RequestStep(q)
  PROVE  TypeInv'
  <1>1. /\ tokens' = tokens /\ UNCHANGED config /\ stage' = stage
        /\ UNCHANGED identity /\ starts' = starts /\ UNCHANGED processes
    BY DEF RequestStep, AskUnregister, AskRegister, Ask, CheckRole, Look, Create, Destroy, QueryFails
  <1>2. Free.pc = "idle" /\ (req[q].pc # "idle" => Asking(q))
    BY FreeType DEF TypeInv, RequestsOK
  <1> DEFINE Typed == /\ rows' \in [Users -> [Roles -> Nat]]
                      /\ faults' \in 0 .. MaxFaults
                      /\ req' \in [Requests -> RequestStates] /\ RequestsOK'
  <1>3. Typed
    <2>1. ASSUME NEW by \in Users, NEW u \in Users, NEW op \in {"register", "unregister"},
                 NEW r \in Roles \cup {NoRole}, op = "register" => r \in Roles,
                 Ask(q, op, by, u, r)
          PROVE  Typed
      <3>1. /\ req' \in [Requests -> RequestStates]
            /\ req'[q] = [op |-> op, pc |-> "role", by |-> by, user |-> u, roles |-> r]
            /\ \A p \in Requests \ {q} : req'[p] = req[p]
        BY <2>1 DEF Ask, TypeInv, TypeOK, RequestStates
      <3>2. RequestsOK'
        BY <2>1, <3>1 DEF RequestsOK, Asking, TypeInv
      <3>3. QED BY <2>1, <3>1, <3>2 DEF Ask, TypeInv, TypeOK, ProcessesOK
    <2>2. CASE \E by, u \in Users :
                  AskUnregister(q, by, u) \/ \E r \in Roles : AskRegister(q, by, u, r)
      BY <2>1, <2>2 DEF AskUnregister, AskRegister
    <2>3. CASE CheckRole(q)
      <3>1. Asking(q)
        BY <2>3, <1>2 DEF CheckRole
      <3>2. PICK go \in BOOLEAN : Continue(q, go, "look")
        BY <2>3 DEF CheckRole
      <3>3. QED
        BY <2>3, <3>1, <3>2, ContinueType DEF CheckRole, TypeInv, TypeOK, ProcessesOK
    <2>4. CASE Look(q)
      <3>1. Asking(q)
        BY <2>4, <1>2 DEF Look
      <3>2. Proceeds(q) \in BOOLEAN
        BY DEF Proceeds
      <3>3. QED
        BY <2>4, <3>1, <3>2, ContinueType DEF Look, TypeInv, TypeOK, ProcessesOK
    <2>5. CASE Create(q)
      <3>1. req[q].user \in Users /\ req[q].roles \in Roles
        BY <2>5, <1>2 DEF Create, Asking
      <3>2. QED
        BY <2>5, <3>1, RowsType, FreedType DEF Create, TypeInv, TypeOK, ProcessesOK
    <2>6. CASE Destroy(q)
      <3>1. req[q].user \in Users /\ "admin" \in Roles
        BY <2>6, <1>2 DEF Destroy, Asking, Roles
      <3>2. QED
        BY <2>6, <3>1, RowsType, FreedType DEF Destroy, TypeInv, TypeOK, ProcessesOK
    <2>7. CASE QueryFails(q)
      <3>1. faults' \in 0 .. MaxFaults
        BY <2>7, BoundsAssumption DEF QueryFails, TypeInv, TypeOK, ProcessesOK
      <3>2. QED
        BY <2>7, <3>1, FreedType DEF QueryFails, TypeInv, TypeOK, ProcessesOK
    <2>8. QED
      BY <2>2, <2>3, <2>4, <2>5, <2>6, <2>7 DEF RequestStep
  <1>4. QED
    BY <1>1, <1>3 DEF TypeInv, TypeOK, config, identity, ProcessesOK, processes

LEMMA TypeStep == TypeInv /\ [Next]_vars => TypeInv'
  <1> SUFFICES ASSUME TypeInv, [Next]_vars PROVE TypeInv'
    OBVIOUS
  <1>1. CASE Initialize
    BY <1>1, InitializeType
  <1>2. ASSUME NEW u \in Users, Login(u) PROVE TypeInv'
    BY <1>2 DEF Login, TypeInv, TypeOK, RequestsOK, Asking, config, identity, ProcessesOK, processes
  <1>3. ASSUME NEW q \in Requests, RequestStep(q) PROVE TypeInv'
    BY <1>3, RequestType
  <1>4. CASE Crash
    <2>1. req' \in [Requests -> RequestStates] /\ RequestsOK'
      BY <1>4, FreeType DEF Crash, RequestsOK
    <2>2. QED
      BY <1>4, <2>1, CrashProcesses DEF Crash, TypeInv, TypeOK, config, identity, Stages
  <1>5. CASE UNCHANGED vars
    BY <1>5 DEF vars, TypeInv, TypeOK, RequestsOK, Asking, ProcessesOK, processes
  <1>6. CASE Aside
    BY <1>6, BesideProcesses DEF Aside, TypeInv, TypeOK, RequestsOK, Asking, config, identity
  <1>7. QED
    BY <1>1, <1>2, <1>3, <1>4, <1>5, <1>6, ServeSteps DEF Next, Aside

(* Every request under way names a user, and one that registers a role. *)
THEOREM TypeCorrect == Spec => []TypeOK
  <1>1. TypeInv => TypeOK
    BY DEF TypeInv
  <1>2. QED BY TypeInit, TypeStep, <1>1, PTL DEF Spec

LEMMA TypeHolds == Spec => []TypeInv
  BY TypeInit, TypeStep, PTL DEF Spec

-----------------------------------------------------------------------------
(* What a step does to one request and to the table. *)

(* Requests run only while the server listens; a step of one request leaves *)
(* the others alone and moves it one query on, or ends it.                  *)
LEMMA StepOfRequest ==
  ASSUME TypeInv, NEW q \in Requests, RequestStep(q)
  PROVE  /\ \A p \in Requests \ {q} : req'[p] = req[p]
         /\ \/ req'[q] = Free
            \/ /\ req'[q].pc = "role"
               /\ stage = "serving"
            \/ /\ req[q].pc = "role" /\ req'[q].pc = "look"
               /\ \E u \in Users : IsExist(u)
               /\ req'[q].op = "unregister" => req'[q].user # Root
            \/ /\ req[q].pc = "look" /\ req'[q].pc = "write"
               /\ req'[q].op = req[q].op /\ req'[q].user = req[q].user
               /\ req[q].op = "register" => ~IsExist(req[q].user)
  <1> DEFINE Moved == /\ \A p \in Requests \ {q} : req'[p] = req[p]
                      /\ \/ req'[q] = Free
                         \/ req'[q].pc = "role" /\ stage = "serving"
                         \/ /\ req[q].pc = "role" /\ req'[q].pc = "look"
                            /\ \E u \in Users : IsExist(u)
                            /\ req'[q].op = "unregister" => req'[q].user # Root
                         \/ /\ req[q].pc = "look" /\ req'[q].pc = "write"
                            /\ req'[q].op = req[q].op /\ req'[q].user = req[q].user
                            /\ req[q].op = "register" => ~IsExist(req[q].user)
  <1>0. /\ Free.pc = "idle" /\ (req[q].pc # "idle" => Asking(q))
        /\ req \in [Requests -> RequestStates]
    BY FreeType DEF TypeInv, TypeOK, RequestsOK
  <1>1. CASE \E by, u \in Users :
                AskUnregister(q, by, u) \/ \E r \in Roles : AskRegister(q, by, u, r)
    BY <1>0, <1>1 DEF AskUnregister, AskRegister, Ask
  <1>2. CASE CheckRole(q)
    <2>1. Asking(q) /\ req[q].pc = "role"
      BY <1>0, <1>2 DEF CheckRole
    <2>2. CASE ~IsExist(req[q].by) /\ Continue(q, FALSE, "look")
      BY <2>1, <2>2, ContinueType
    <2>3. ASSUME NEW r \in Found(req[q].by), Continue(q, r = "admin" /\ Granted(q), "look")
          PROVE  Moved
      <3>1. IsExist(req[q].by) /\ req[q].by \in Users
        BY <2>1, <2>3 DEF IsExist, Asking
      <3>2. req'[q] = IF r = "admin" /\ Granted(q) THEN [req[q] EXCEPT !.pc = "look", !.by = NoUser] ELSE Free
        BY <2>1, <2>3, ContinueType
      <3>3. \A p \in Requests \ {q} : req'[p] = req[p]
        BY <2>1, <2>3, ContinueType
      <3>4. QED
        BY <1>0, <2>1, <3>1, <3>2, <3>3 DEF Granted, MayUnregister, RequestStates
    <2>4. QED BY <1>2, <2>2, <2>3 DEF CheckRole
  <1>3. CASE Look(q)
    <2>1. Asking(q) /\ req[q].pc = "look" /\ Proceeds(q) \in BOOLEAN
      BY <1>0, <1>3 DEF Look, Proceeds
    <2>2. req'[q] = IF Proceeds(q) THEN [req[q] EXCEPT !.pc = "write", !.by = NoUser] ELSE Free
      BY <1>3, <2>1, ContinueType DEF Look
    <2>3. \A p \in Requests \ {q} : req'[p] = req[p]
      BY <1>3, <2>1, ContinueType DEF Look
    <2>4. QED BY <1>0, <2>1, <2>2, <2>3 DEF Proceeds, RequestStates
  <1>4. CASE Create(q) \/ Destroy(q) \/ QueryFails(q)
    BY <1>4, FreedType DEF Create, Destroy, QueryFails
  <1>5. QED BY <1>1, <1>2, <1>3, <1>4 DEF RequestStep

Writes(q) ==
    /\ Asking(q) /\ req[q].pc = "write" /\ req' = [req EXCEPT ![q] = Free]
    /\ stage' = stage
    /\ \/ req[q].op = "register" /\ rows' = RegisterUser(req[q].user, req[q].roles)
       \/ req[q].op = "unregister" /\ rows' = UnregisterUser(req[q].user)

(* The table changes where a request writes, and where the administrator of *)
(* the profile is created before the server listens.                        *)
LEMMA StepOfTable ==
  ASSUME TypeInv, [Next]_vars
  PROVE  \/ rows' = rows
         \/ CreateRoot /\ rows' = RegisterUser(Root, "admin")
         \/ \E q \in Requests : Writes(q)
  <1> DEFINE Changed == \/ rows' = rows
                        \/ CreateRoot /\ rows' = RegisterUser(Root, "admin")
                        \/ \E q \in Requests : Writes(q)
  <1>1. CASE Initialize
    BY <1>1 DEF Initialize, Start, OpenDatabase, FirstStage, FindRoot, LookForRoot, CreateRoot, LookInWallet,
           EnrollUserIdentity, EnrollCaAdmin, RegisterAtCa, EnrollAdmin, StoreIdentity,
           Connect, StartFails, AfterFailure
  <1>2. ASSUME NEW q \in Requests, RequestStep(q) PROVE Changed
    <2>1. CASE Create(q) \/ Destroy(q)
      BY <2>1, FreeType DEF Create, Destroy, TypeInv, RequestsOK, Writes
    <2>2. CASE ~(Create(q) \/ Destroy(q))
      BY <1>2, <2>2 DEF RequestStep, AskUnregister, AskRegister, Ask, CheckRole, Look, QueryFails
    <2>3. QED BY <2>1, <2>2
  <1>3. CASE (\E u \in Users : Login(u)) \/ Crash \/ Aside \/ UNCHANGED vars
    BY <1>3 DEF Login, Crash, Aside, vars
  <1>4. QED BY <1>1, <1>2, <1>3, ServeSteps DEF Next, Aside

LEMMA OnlyRequestsRun ==
  ASSUME NEW q \in Requests, RequestStep(q)
  PROVE  /\ stage' = stage /\ UNCHANGED config /\ UNCHANGED identity
  BY DEF RequestStep, AskUnregister, AskRegister, Ask, CheckRole, Look, Create, Destroy, QueryFails

-----------------------------------------------------------------------------
(* The administrator of the profile. *)

AdminRow == [r \in Roles |-> IF r = "admin" THEN 1 ELSE 0]

(* Nobody is recorded before the root administrator, and no request that may *)
(* still write has its name: register found its row, unregister refuses it.  *)
RootInv ==
    /\ rows[Root] = AdminRow \/ \A u \in Users : ~IsExist(u)
    /\ (authOn /\ stage \notin {"down", "database", "exists", "look", "create"}) => rows[Root] = AdminRow
    /\ stage = "create" => ~IsExist(Root)
    /\ stage # "serving" => \A q \in Requests : req[q] = Free
    /\ \A q \in Requests :
          /\ req[q].pc \in {"look", "write"} => rows[Root] = AdminRow
          /\ req[q].pc = "look" /\ req[q].op = "unregister" => req[q].user # Root
          /\ req[q].pc = "write" => req[q].user # Root

LEMMA RootInit == Init => RootInv
  BY UsersAssumption, FreeType DEF Init, ProcessesInit, RootInv, IsExist, Found, Roles

LEMMA RootExists ==
  ASSUME rows[Root] = AdminRow
  PROVE  IsExist(Root)
  BY DEF AdminRow, IsExist, Found, Roles

LEMMA SomebodyExists ==
  ASSUME RootInv, NEW u \in Users, IsExist(u)
  PROVE  rows[Root] = AdminRow
  BY DEF RootInv

(* The rows of the root administrator: once there, they do not change. *)
LEMMA RootRowStays ==
  ASSUME TypeInv, RootInv, [Next]_vars, rows[Root] = AdminRow
  PROVE  rows'[Root] = AdminRow
  <1>1. Root \in Users
    BY UsersAssumption
  <1>2. ASSUME CreateRoot PROVE FALSE
    BY <1>2, RootExists DEF CreateRoot, RootInv
  <1>3. ASSUME NEW q \in Requests, Asking(q), req[q].pc = "write"
        PROVE  /\ req[q].op = "register" =>
                     RegisterUser(req[q].user, req[q].roles)[Root] = rows[Root]
               /\ UnregisterUser(req[q].user)[Root] = rows[Root]
    BY <1>1, <1>3 DEF RootInv, Asking, RegisterUser, UnregisterUser, TypeInv, TypeOK
  <1>4. QED
    BY <1>2, <1>3, StepOfTable DEF Writes

LEMMA RootIsCreated ==
  ASSUME TypeInv, RootInv, CreateRoot
  PROVE  rows'[Root] = AdminRow
  <1>1. /\ Root \in Users /\ ~IsExist(Root)
        /\ rows \in [Users -> [Roles -> Nat]]
    BY UsersAssumption DEF CreateRoot, RootInv, TypeInv, TypeOK
  <1>2. \A r \in Roles : rows[Root][r] = 0
    BY <1>1 DEF IsExist, Found
  <1>3. rows'[Root] = [rows[Root] EXCEPT !["admin"] = @ + 1]
    BY <1>1 DEF CreateRoot, RegisterUser
  <1>4. QED BY <1>1, <1>2, <1>3 DEF AdminRow, Roles

(* Without them the table is empty, and it only gets that one row. *)
LEMMA EmptyOrRoot ==
  ASSUME TypeInv, RootInv, [Next]_vars, rows[Root] # AdminRow
  PROVE  rows' = rows \/ rows'[Root] = AdminRow
  BY RootIsCreated, StepOfTable DEF RootInv, Writes

LEMMA RootStep == TypeInv /\ RootInv /\ [Next]_vars => RootInv'
  <1> SUFFICES ASSUME TypeInv, RootInv, [Next]_vars PROVE RootInv'
    OBVIOUS
  <1>1. (rows[Root] = AdminRow \/ \A u \in Users : ~IsExist(u))'
    BY RootRowStays, EmptyOrRoot DEF RootInv, IsExist, Found, AdminRow
  <1>2. (stage # "serving" => \A q \in Requests : req[q] = Free)'
    <2>1. CASE Initialize
      BY <2>1 DEF RootInv, Initialize, Start, OpenDatabase, FirstStage, FindRoot, LookForRoot, CreateRoot, LookInWallet,
           EnrollUserIdentity, EnrollCaAdmin, RegisterAtCa, EnrollAdmin, StoreIdentity,
           Connect, StartFails, AfterFailure
    <2>2. ASSUME NEW q \in Requests, RequestStep(q), stage # "serving"
          PROVE  \A p \in Requests : req'[p] = Free
      BY <2>2, StepOfRequest, FreeType DEF RootInv
    <2>3. CASE (\E u \in Users : Login(u)) \/ Crash \/ Aside \/ UNCHANGED vars
      BY <2>3 DEF Login, Crash, Aside, vars, RootInv
    <2>4. QED BY <2>1, <2>2, <2>3, ServeSteps, OnlyRequestsRun DEF Next, Aside
  <1>3. (stage = "create" => ~IsExist(Root))'
    <2>1. CASE Initialize
      BY <2>1 DEF RootInv, Initialize, Start, OpenDatabase, FirstStage, FindRoot, LookForRoot, CreateRoot, LookInWallet,
           EnrollUserIdentity, EnrollCaAdmin, RegisterAtCa, EnrollAdmin, StoreIdentity,
           Connect, StartFails, AfterFailure, AfterRegister, AfterConnect, IsExist, Found
    <2>2. CASE \E q \in Requests : RequestStep(q)
      <3>1. PICK q \in Requests : RequestStep(q)
        BY <2>2
      <3>2. SUFFICES ASSUME stage = "create" PROVE ~IsExist(Root)'
        BY <3>1, OnlyRequestsRun
      <3>3. req[q] = Free /\ ~IsExist(Root)
        BY <3>2 DEF RootInv
      <3>4. rows' = rows
        BY <3>1, <3>2, <3>3, FreeType
        DEF RequestStep, AskUnregister, AskRegister, Ask, CheckRole, Look, Create, Destroy, QueryFails
      <3>5. QED BY <3>3, <3>4 DEF IsExist, Found
    <2>3. CASE (\E u \in Users : Login(u)) \/ Crash \/ Aside \/ UNCHANGED vars
      BY <2>3 DEF Login, Crash, Aside, vars, RootInv, IsExist, Found
    <2>4. QED BY <2>1, <2>2, <2>3, ServeSteps DEF Next, Aside
  <1>4. ((authOn /\ stage \notin {"down", "database", "exists", "look", "create"}) => rows[Root] = AdminRow)'
    <2>1. CASE FindRoot
      BY <2>1, SomebodyExists, UsersAssumption, RootRowStays DEF FindRoot, RootInv, AdminRow
    <2>2. CASE CreateRoot
      BY <2>2, RootIsCreated DEF AdminRow
    <2>3. CASE (Initialize /\ ~FindRoot /\ ~CreateRoot) \/ (\E u \in Users : Login(u))
                 \/ Crash \/ Aside \/ UNCHANGED vars
      <3>1. authOn' = authOn /\ (rows[Root] = AdminRow => rows'[Root] = AdminRow)
        BY <2>3, RootRowStays
        DEF Initialize, Start, OpenDatabase, FirstStage, LookForRoot, LookInWallet,
           EnrollUserIdentity, EnrollCaAdmin, RegisterAtCa, EnrollAdmin, StoreIdentity,
           Connect, StartFails, AfterFailure, Login, Crash, Aside, vars, config
      <3>2. stage' \in {"down", "database", "exists", "look", "create"} \/ ~authOn
              \/ stage \notin {"down", "database", "exists", "look", "create"}
        BY <2>3
        DEF Initialize, Start, OpenDatabase, FirstStage, LookForRoot, LookInWallet,
           EnrollUserIdentity, EnrollCaAdmin, RegisterAtCa, EnrollAdmin, StoreIdentity,
           Connect, StartFails, AfterFailure, Login, Crash, Aside, vars
      <3>3. QED BY <3>1, <3>2 DEF RootInv, AdminRow
    <2>4. CASE \E q \in Requests : RequestStep(q)
      BY <2>4, OnlyRequestsRun, RootRowStays DEF RootInv, config, AdminRow
    <2>5. QED BY <2>1, <2>2, <2>3, <2>4, ServeSteps DEF Next, Aside
  <1>5. ASSUME NEW p \in Requests
        PROVE  (/\ req[p].pc \in {"look", "write"} => rows[Root] = AdminRow
                /\ req[p].pc = "look" /\ req[p].op = "unregister" => req[p].user # Root
                /\ req[p].pc = "write" => req[p].user # Root)'
    <2>1. CASE req'[p] = req[p]
      BY <2>1, RootRowStays DEF RootInv, AdminRow
    <2>2. CASE req'[p] = Free
      BY <2>2, FreeType
    <2>3. CASE RequestStep(p)
      <3>1. CASE req'[p].pc = "role"
        BY <3>1
      <3>2. CASE req'[p].pc = "look" /\ req[p].pc = "role"
        <4>1. rows[Root] = AdminRow
          BY <2>3, <3>2, StepOfRequest, SomebodyExists, FreeType
        <4>2. QED BY <2>3, <3>2, <4>1, StepOfRequest, RootRowStays, FreeType DEF AdminRow
      <3>3. CASE req'[p].pc = "write" /\ req[p].pc = "look"
        <4>1. rows[Root] = AdminRow /\ IsExist(Root)
          BY <3>3, RootExists DEF RootInv
        <4>2. /\ req[p].op \in {"register", "unregister"}
              /\ req'[p].user = req[p].user
              /\ req[p].op = "register" => ~IsExist(req[p].user)
          BY <2>3, <3>3, StepOfRequest, FreeType DEF TypeInv, RequestsOK, Asking
        <4>3. QED BY <3>3, <4>1, <4>2, RootRowStays DEF AdminRow, RootInv
      <3>4. QED BY <2>2, <2>3, <3>1, <3>2, <3>3, StepOfRequest
    <2>4. RequestStep(p) \/ req'[p] = req[p] \/ req'[p] = Free
      <3>1. CASE Initialize \/ (\E u \in Users : Login(u)) \/ Crash \/ Aside \/ UNCHANGED vars
        BY <3>1 DEF Initialize, Start, OpenDatabase, FirstStage, FindRoot, LookForRoot, CreateRoot, LookInWallet,
           EnrollUserIdentity, EnrollCaAdmin, RegisterAtCa, EnrollAdmin, StoreIdentity,
           Connect, StartFails, AfterFailure, Login, Crash, Aside, vars
      <3>2. CASE \E q \in Requests : RequestStep(q)
        BY <3>2, StepOfRequest
      <3>3. QED BY <3>1, <3>2, ServeSteps DEF Next, Aside
    <2>5. QED BY <2>1, <2>2, <2>3, <2>4
  <1>6. QED
    BY <1>1, <1>2, <1>3, <1>4, <1>5 DEF RootInv

(* Through every interleaving of requests, starts, failures and crashes the *)
(* administrator of the profile has its one row as soon as anybody has one. *)
THEOREM RootAdminTheorem == Spec => []RootAdminStays
  <1>1. TypeInv /\ RootInv => RootAdminStays
    BY DEF RootInv, RootAdminStays, AdminRow
  <1>2. QED BY TypeHolds, RootInit, RootStep, <1>1, PTL DEF Spec

LEMMA RootHolds == Spec => []RootInv
  BY TypeHolds, RootInit, RootStep, PTL DEF Spec

-----------------------------------------------------------------------------
(* Duplicates. *)

(* The requests about to insert a row of u. *)
Writers(u) == {q \in Requests : /\ req[q].pc = "write" /\ req[q].op = "register"
                                /\ req[q].user = u}
Rows(u) == rows[u]["admin"] + rows[u]["user"]

(* Each of them found no row of u and was under way when the first of the *)
(* rows there are now was inserted.                                       *)
NoMoreThanRequests == \A u \in Users : Rows(u) + Cardinality(Writers(u)) <= Cardinality(Requests)

LEMMA WritersFinite ==
  ASSUME NEW u \in Users
  PROVE  /\ IsFiniteSet(Writers(u)) /\ Cardinality(Writers(u)) \in Nat
         /\ Cardinality(Writers(u)) <= Cardinality(Requests)
         /\ Cardinality(Requests) \in Nat /\ Cardinality(Requests) > 0
  <1>1. Writers(u) \subseteq Requests
    BY DEF Writers
  <1>2. /\ IsFiniteSet(Writers(u)) /\ Cardinality(Writers(u)) \in Nat
        /\ Cardinality(Writers(u)) <= Cardinality(Requests) /\ Cardinality(Requests) \in Nat
    BY <1>1, RequestsAssumption, FS_Subset, FS_CardinalityType
  <1>3. Cardinality(Requests) # 0
    BY RequestsAssumption, FS_EmptySet
  <1>4. QED BY <1>2, <1>3

LEMMA RowsAreNumbers ==
  ASSUME TypeInv, NEW u \in Users
  PROVE  /\ rows[u]["admin"] \in Nat /\ rows[u]["user"] \in Nat
         /\ ~IsExist(u) => Rows(u) = 0
  BY DEF TypeInv, TypeOK, Roles, IsExist, Found, Rows

LEMMA NoMoreInit == Init => NoMoreThanRequests
  <1> SUFFICES ASSUME Init, NEW u \in Users
               PROVE  Rows(u) + Cardinality(Writers(u)) <= Cardinality(Requests)
    BY DEF NoMoreThanRequests
  <1>1. Rows(u) = 0
    BY DEF Init, Rows, Roles
  <1>2. QED BY <1>1, WritersFinite

LEMMA NoMoreStep == TypeInv /\ TypeInv' /\ RootInv /\ NoMoreThanRequests /\ [Next]_vars
                      => NoMoreThanRequests'
  <1> SUFFICES ASSUME TypeInv, TypeInv', RootInv, NoMoreThanRequests, [Next]_vars, NEW u \in Users
               PROVE  Rows(u)' + Cardinality(Writers(u)') <= Cardinality(Requests)
    BY DEF NoMoreThanRequests
  <1>0. /\ Rows(u) + Cardinality(Writers(u)) <= Cardinality(Requests)
        /\ Rows(u) \in Nat /\ Rows(u)' \in Nat
        /\ IsFiniteSet(Writers(u)) /\ Cardinality(Writers(u)) \in Nat
        /\ Cardinality(Writers(u)') \in Nat
        /\ Cardinality(Writers(u)') <= Cardinality(Requests)
        /\ Cardinality(Requests) \in Nat /\ Cardinality(Requests) > 0
    <2>1. Rows(u) \in Nat
      BY RowsAreNumbers DEF Rows
    <2>2. Rows(u)' \in Nat
      BY DEF Rows, TypeInv, TypeOK, Roles
    <2>3. /\ IsFiniteSet(Writers(u)') /\ Cardinality(Writers(u)') \in Nat
          /\ Cardinality(Writers(u)') <= Cardinality(Requests)
      <3>1. Writers(u)' \subseteq Requests
        BY DEF Writers
      <3>2. QED BY <3>1, RequestsAssumption, FS_Subset, FS_CardinalityType
    <2>4. QED BY <2>1, <2>2, <2>3, WritersFinite DEF NoMoreThanRequests
  <1>1. CASE CreateRoot
    <2>1. \A q \in Requests : req'[q] = req[q] /\ req[q] = Free
      BY <1>1 DEF CreateRoot, RootInv
    <2>2. Writers(u)' = {}
      BY <2>1, FreeType DEF Writers
    <2>3. Cardinality(Writers(u)') = 0
      BY <2>2, FS_EmptySet
    <2>4. CASE u = Root
      <3>1. Rows(u)' = 1
        BY <1>1, <2>4, RootIsCreated DEF AdminRow, Rows, Roles
      <3>2. QED BY <1>0, <2>3, <3>1
    <2>5. CASE u # Root
      <3>1. Rows(u)' = Rows(u)
        BY <1>1, <2>5 DEF CreateRoot, RegisterUser, Rows, TypeInv, TypeOK
      <3>2. QED BY <1>0, <2>3, <3>1
    <2>6. QED BY <2>4, <2>5
  <1>2. ASSUME NEW q \in Requests, Writes(q)
        PROVE  Rows(u)' + Cardinality(Writers(u)') <= Cardinality(Requests)
    <2>1. /\ req'[q] = Free /\ \A p \in Requests \ {q} : req'[p] = req[p]
          /\ req[q].user \in Users
      BY <1>2, FreedType DEF Writes, Asking
    <2>2. Writers(u)' = Writers(u) \ {q}
      BY <2>1, FreeType DEF Writers
    <2>3. CASE req[q].op = "register" /\ req[q].user = u
      <3>1. q \in Writers(u)
        BY <1>2, <2>3 DEF Writers, Writes
      <3>2. Cardinality(Writers(u)') = Cardinality(Writers(u)) - 1
        BY <1>0, <2>2, <3>1, FS_RemoveElement
      <3>3. Rows(u)' = Rows(u) + 1
        <4>1. req[q].roles \in Roles /\ rows' = RegisterUser(u, req[q].roles)
          BY <1>2, <2>3 DEF Writes, Asking
        <4>2. /\ rows'[u][req[q].roles] = rows[u][req[q].roles] + 1
              /\ \A s \in Roles \ {req[q].roles} : rows'[u][s] = rows[u][s]
          BY <4>1, RowsType DEF TypeInv, TypeOK
        <4>3. QED BY <4>1, <4>2, RowsAreNumbers DEF Rows, Roles
      <3>4. QED BY <1>0, <3>2, <3>3
    <2>4. CASE req[q].user # u
      <3>1. Writers(u)' = Writers(u)
        BY <2>2, <2>4 DEF Writers
      <3>2. rows'[u] = rows[u]
        BY <1>2, <2>1, <2>4 DEF Writes, RegisterUser, UnregisterUser, TypeInv, TypeOK
      <3>3. QED BY <1>0, <3>1, <3>2 DEF Rows
    <2>5. CASE req[q].op = "unregister" /\ req[q].user = u
      <3>1. rows' = UnregisterUser(u) /\ "admin" \in Roles /\ "user" \in Roles
        BY <1>2, <2>5 DEF Writes, Roles
      <3>2. Rows(u)' = 0
        BY <3>1, RowsType DEF TypeInv, TypeOK, Rows
      <3>3. QED BY <1>0, <3>2
    <2>6. QED BY <1>2, <2>3, <2>4, <2>5 DEF Writes
  <1>3. CASE rows' = rows
    <2>1. Rows(u)' = Rows(u)
      BY <1>3 DEF Rows
    <2>2. CASE \E q \in Requests : RequestStep(q) /\ req'[q].pc = "write"
      <3>1. PICK q \in Requests : RequestStep(q) /\ req'[q].pc = "write"
        BY <2>2
      <3>2. /\ \A p \in Requests \ {q} : req'[p] = req[p]
            /\ req'[q].op = req[q].op /\ req'[q].user = req[q].user
            /\ req[q].op = "register" => ~IsExist(req[q].user)
        BY <3>1, StepOfRequest, FreeType
      <3>3. CASE req[q].op = "register" /\ req[q].user = u
        <4>1. Rows(u) = 0
          BY <3>2, <3>3, RowsAreNumbers
        <4>2. QED BY <1>0, <2>1, <4>1
      <3>4. CASE ~(req[q].op = "register" /\ req[q].user = u)
        <4>1. Writers(u)' \subseteq Writers(u)
          BY <3>2, <3>4 DEF Writers
        <4>2. Cardinality(Writers(u)') <= Cardinality(Writers(u))
          BY <1>0, <4>1, FS_Subset
        <4>3. QED BY <1>0, <2>1, <4>2
      <3>5. QED BY <3>3, <3>4
    <2>3. CASE \A q \in Requests : req'[q] = req[q] \/ req'[q].pc # "write"
      <3>1. Writers(u)' \subseteq Writers(u)
        BY <2>3 DEF Writers
      <3>2. Cardinality(Writers(u)') <= Cardinality(Writers(u))
        BY <1>0, <3>1, FS_Subset
      <3>3. QED BY <1>0, <2>1, <3>2
    <2>4. QED
      <3>1. CASE Initialize \/ (\E v \in Users : Login(v)) \/ Crash \/ Aside \/ UNCHANGED vars
        <4>1. \A q \in Requests : req'[q] = req[q] \/ req'[q] = Free
          BY <3>1 DEF Initialize, Start, OpenDatabase, FirstStage, FindRoot, LookForRoot, CreateRoot, LookInWallet,
             EnrollUserIdentity, EnrollCaAdmin, RegisterAtCa, EnrollAdmin, StoreIdentity,
             Connect, StartFails, AfterFailure, Login, Crash, Aside, vars
        <4>2. QED BY <2>3, <4>1, FreeType
      <3>2. ASSUME NEW q \in Requests, RequestStep(q)
            PROVE  Rows(u)' + Cardinality(Writers(u)') <= Cardinality(Requests)
        <4>1. \A p \in Requests \ {q} : req'[p] = req[p]
          BY <3>2, StepOfRequest
        <4>2. QED BY <2>2, <2>3, <3>2, <4>1
      <3>3. QED BY <3>1, <3>2, ServeSteps DEF Next, Aside
  <1>4. QED BY <1>1, <1>2, <1>3, StepOfTable

RowsBounded == \A u \in Users : Rows(u) <= Cardinality(Requests)

(* However register requests overlap, a name has at most as many rows as   *)
(* the server handles requests at once.                                    *)
THEOREM DuplicatesTheorem == Spec => []RowsBounded
  <1>1. TypeInv /\ NoMoreThanRequests => RowsBounded
    <2> SUFFICES ASSUME TypeInv, NoMoreThanRequests, NEW u \in Users
                 PROVE  Rows(u) <= Cardinality(Requests)
      BY DEF RowsBounded
    <2>1. Rows(u) \in Nat
      BY RowsAreNumbers DEF Rows
    <2>2. QED BY <2>1, WritersFinite DEF NoMoreThanRequests
  <1>2. QED BY TypeHolds, RootHolds, NoMoreInit, NoMoreStep, <1>1, PTL DEF Spec

(* A server that handles one request at a time keeps the uniqueness that   *)
(* app/model/User.ts declares, without any help of the database: it takes  *)
(* an overlap to break it.                                                 *)
THEOREM UniqueTheorem ==
  ASSUME Cardinality(Requests) = 1
  PROVE  Spec => []UsernamesAreUnique
  <1>1. RowsBounded => UsernamesAreUnique
    BY DEF RowsBounded, UsernamesAreUnique, Rows
  <1>2. QED BY DuplicatesTheorem, <1>1, PTL

(* unregister leaves no row of the name, however many there were. *)
THEOREM RemovalTheorem == Spec => RemovedCompletely
  <1> DEFINE Complete ==
        \A u \in Users : (\E r \in Roles : rows'[u][r] < rows[u][r])
                           => \A r \in Roles : rows'[u][r] = 0
  <1>1. ASSUME TypeInv, [Next]_vars PROVE Complete
    <2> SUFFICES ASSUME NEW u \in Users, NEW r \in Roles, rows'[u][r] < rows[u][r]
                 PROVE  \A s \in Roles : rows'[u][s] = 0
      OBVIOUS
    <2>0. rows \in [Users -> [Roles -> Nat]]
      BY <1>1 DEF TypeInv, TypeOK
    <2>1. ASSUME NEW v \in Users, NEW s \in Roles, rows' = RegisterUser(v, s)
          PROVE  FALSE
      <3>1. rows'[u][r] = rows[u][r] \/ rows'[u][r] = rows[u][r] + 1
        BY <2>0, <2>1 DEF RegisterUser
      <3>2. rows[u][r] \in Nat
        BY <2>0
      <3>3. QED BY <3>1, <3>2
    <2>2. PICK q \in Requests : Writes(q) /\ req[q].user \in Users
                                 /\ rows' = UnregisterUser(req[q].user)
      <3>1. "admin" \in Roles /\ Root \in Users
        BY UsersAssumption DEF Roles
      <3>2. rows' # rows
        BY <2>0
      <3>3. QED BY <1>1, <2>1, <3>1, <3>2, StepOfTable DEF Writes, Asking
    <2>3. "admin" \in Roles
      BY DEF Roles
    <2>4. u = req[q].user
      BY <2>0, <2>2, <2>3, RowsType
    <2>5. QED BY <2>0, <2>2, <2>3, <2>4, RowsType
  <1>2. TypeInv /\ [Next]_vars => [Complete]_vars
    BY <1>1
  <1>3. QED BY <1>2, TypeHolds, PTL DEF Spec, RemovedCompletely

-----------------------------------------------------------------------------
(* The identity of the server. *)

(* What each await of the enrolment knows. *)
EnrolInv ==
    /\ caOn /\ wallet => registered
    /\ stage \in {"enrol", "store"} => registered
    /\ stage = "profile" => ~caOn
    /\ stage = "serving" => wallet

LEMMA EnrolInit == Init => EnrolInv
  BY DEF Init, ProcessesInit, EnrolInv

LEMMA EnrolStep == EnrolInv /\ [Next]_vars => EnrolInv'
  <1> SUFFICES ASSUME EnrolInv, [Next]_vars PROVE EnrolInv'
    OBVIOUS
  <1>1. CASE Initialize
    <2>1. CASE Start
      BY <2>1 DEF EnrolInv, Start, config, identity
    <2>2. CASE FindRoot
      BY <2>2 DEF EnrolInv, FindRoot, config, identity
    <2>3. CASE LookForRoot
      BY <2>3 DEF EnrolInv, LookForRoot, config, identity
    <2>4. CASE CreateRoot
      BY <2>4 DEF EnrolInv, CreateRoot, config, identity
    <2>5. CASE LookInWallet
      BY <2>5 DEF EnrolInv, LookInWallet, config, identity
    <2>6. CASE EnrollUserIdentity
      BY <2>6 DEF EnrolInv, EnrollUserIdentity, config, identity
    <2>7. CASE EnrollCaAdmin
      BY <2>7 DEF EnrolInv, EnrollCaAdmin, config, identity
    <2>8. CASE RegisterAtCa
      BY <2>8 DEF EnrolInv, RegisterAtCa, AfterRegister, config, identity
    <2>9. CASE EnrollAdmin
      BY <2>9 DEF EnrolInv, EnrollAdmin, config, identity
    <2>10. CASE StoreIdentity
      BY <2>10 DEF EnrolInv, StoreIdentity, config, identity
    <2>11. CASE Connect
      BY <2>11 DEF EnrolInv, Connect, AfterConnect, config, identity
    <2>12. CASE StartFails
      BY <2>12 DEF EnrolInv, StartFails, AfterFailure, config, identity
    <2>13. CASE OpenDatabase
      BY <2>13 DEF EnrolInv, OpenDatabase, FirstStage, config, identity
    <2>14. QED BY <2>13, <1>1, <2>1, <2>2, <2>3, <2>4, <2>5, <2>6, <2>7, <2>8, <2>9, <2>10, <2>11, <2>12 DEF Initialize
  <1>2. CASE \E q \in Requests : RequestStep(q)
    BY <1>2, OnlyRequestsRun DEF EnrolInv, config, identity
  <1>3. CASE (\E u \in Users : Login(u)) \/ Crash \/ Aside \/ UNCHANGED vars
    BY <1>3 DEF EnrolInv, Login, Crash, Aside, vars, config, identity
  <1>4. QED BY <1>1, <1>2, <1>3, ServeSteps DEF Next, Aside

LEMMA EnrolHolds == Spec => []EnrolInv
  BY EnrolInit, EnrolStep, PTL DEF Spec

(* An enrolment that stopped after the registration is never completed. *)
THEOREM PartialEnrolmentTheorem == Spec => PartialEnrolmentIsFinal
  <1>1. ASSUME EnrolInv, [Next]_vars, Stranded PROVE Stranded' /\ stage' # "serving"
    <2>1. CASE Initialize
      <3>1. CASE Start
        BY <1>1, <3>1 DEF EnrolInv, Stranded, Start, config, identity
      <3>2. CASE FindRoot
        BY <1>1, <3>2 DEF EnrolInv, Stranded, FindRoot, config, identity
      <3>3. CASE LookForRoot
        BY <1>1, <3>3 DEF EnrolInv, Stranded, LookForRoot, config, identity
      <3>4. CASE CreateRoot
        BY <1>1, <3>4 DEF EnrolInv, Stranded, CreateRoot, config, identity
      <3>5. CASE LookInWallet
        BY <1>1, <3>5 DEF EnrolInv, Stranded, LookInWallet, config, identity
      <3>6. CASE EnrollUserIdentity
        BY <1>1, <3>6 DEF EnrolInv, Stranded, EnrollUserIdentity, config, identity
      <3>7. CASE EnrollCaAdmin
        BY <1>1, <3>7 DEF EnrolInv, Stranded, EnrollCaAdmin, config, identity
      <3>8. CASE RegisterAtCa
        BY <1>1, <3>8 DEF EnrolInv, Stranded, RegisterAtCa, AfterRegister, config, identity
      <3>9. CASE EnrollAdmin
        BY <1>1, <3>9 DEF EnrolInv, Stranded, EnrollAdmin, config, identity
      <3>10. CASE StoreIdentity
        BY <1>1, <3>10 DEF EnrolInv, Stranded, StoreIdentity, config, identity
      <3>11. CASE Connect
        BY <1>1, <3>11 DEF EnrolInv, Stranded, Connect, AfterConnect, config, identity
      <3>12. CASE StartFails
        BY <1>1, <3>12 DEF EnrolInv, Stranded, StartFails, AfterFailure, config, identity
      <3>13. CASE OpenDatabase
        BY <1>1, <3>13 DEF EnrolInv, Stranded, OpenDatabase, FirstStage, config, identity
      <3>14. QED BY <3>13, <2>1, <3>1, <3>2, <3>3, <3>4, <3>5, <3>6, <3>7, <3>8, <3>9, <3>10, <3>11, <3>12 DEF Initialize
    <2>2. CASE \E q \in Requests : RequestStep(q)
      BY <1>1, <2>2, OnlyRequestsRun DEF EnrolInv, Stranded, config, identity
    <2>3. CASE \E u \in Users : Login(u)
      BY <1>1, <2>3 DEF EnrolInv, Stranded, Login, config, identity
    <2>4. CASE Crash
      BY <1>1, <2>4 DEF EnrolInv, Stranded, Crash, config, identity
    <2>5. CASE Aside \/ UNCHANGED vars
      <3>1. UNCHANGED <<caOn, registered, wallet, stage>>
        BY <2>5 DEF Aside, vars, config, identity
      <3>2. QED BY <1>1, <3>1 DEF EnrolInv, Stranded
    <2>6. QED BY <1>1, <2>1, <2>2, <2>3, <2>4, <2>5, ServeSteps DEF Next, Aside
  <1>2. EnrolInv /\ [Next]_vars => [Stranded => Stranded' /\ stage' # "serving"]_vars
    BY <1>1
  <1>3. QED BY <1>2, EnrolHolds, PTL DEF Spec, PartialEnrolmentIsFinal

-----------------------------------------------------------------------------
(* The processes. *)

(* Only the server's own sync process is not an orphan, and a connection that *)
(* is lost for good has the server about to shut down.                        *)
ProcessesInv ==
    /\ \A s \in 1 .. MaxStarts :
          copies[s] = "copying" => s = starts /\ stage = "serving"
    /\ \A s \in 1 .. MaxStarts : s > starts => copies[s] = "none"
    /\ stage \notin {"down", "database"} => db # "none"
    /\ stage # "down" => 1 <= starts
    /\ stage # "down" /\ db = "lost" => ending

LEMMA ProcessesBegin == Init => ProcessesInv
  BY DEF Init, ProcessesInit, ProcessesInv

LEMMA ProcessesStep == TypeInv /\ ProcessesInv /\ [Next]_vars => ProcessesInv'
  <1> SUFFICES ASSUME TypeInv, ProcessesInv, [Next]_vars PROVE ProcessesInv'
    OBVIOUS
  <1>0. ProcessesOK /\ MaxStarts \in Nat
    BY BoundsAssumption DEF TypeInv, TypeOK
  <1>1. CASE Initialize
    <2>1. CASE Start
      BY <1>0, <2>1 DEF Start, StartExplorer, ProcessesInv, ProcessesOK
    <2>2. CASE OpenDatabase
      BY <1>0, <2>2 DEF OpenDatabase, FirstStage, HandleDisconnect, ProcessesInv, ProcessesOK
    <2>3. CASE Connect
      <3>1. /\ starts' = starts /\ stage = "connect" /\ stage' \in {"serving", "down"}
            /\ 1 <= starts /\ db # "none"
        BY <2>3 DEF Connect, AfterConnect, ProcessesInv
      <3>2. CASE stage' = "down"
        BY <2>3, <3>1, <3>2 DEF Connect, ProcessesInv, processes
      <3>3. CASE stage' = "serving" /\ InitializeListener
        <4>1. starts \in 1 .. MaxStarts /\ db' = db
          BY <1>0, <3>1, <3>3 DEF ProcessesOK, InitializeListener
        <4>2. copies' \in {copies, [copies EXCEPT ![starts] = "copying"]}
          BY <3>3 DEF InitializeListener, Fork, StartSync
        <4>3. ending => ending'
          BY <3>3 DEF InitializeListener
        <4>4. /\ \A s \in 1 .. MaxStarts : copies'[s] = "copying" => s = starts
              /\ \A s \in 1 .. MaxStarts : s > starts => copies'[s] = "none"
          BY <1>0, <4>1, <4>2 DEF ProcessesInv, ProcessesOK
        <4>5. QED
          BY <3>1, <3>3, <4>1, <4>3, <4>4 DEF ProcessesInv
      <3>4. QED BY <2>3, <3>1, <3>2, <3>3 DEF Connect
    <2>4. CASE ~(Start \/ OpenDatabase \/ Connect)
      <3>1. /\ UNCHANGED processes /\ starts' = starts
            /\ stage \notin {"down", "database", "serving"}
        BY <1>1, <2>4 DEF Initialize, FindRoot, LookForRoot, CreateRoot, LookInWallet,
           EnrollUserIdentity, EnrollCaAdmin, RegisterAtCa, EnrollAdmin, StoreIdentity, StartFails, AfterFailure
      <3>2. QED BY <3>1 DEF ProcessesInv, processes
    <2>5. QED BY <2>1, <2>2, <2>3, <2>4
  <1>2. ASSUME NEW q \in Requests, RequestStep(q) PROVE ProcessesInv'
    <2>1. UNCHANGED <<stage, starts, processes>>
      BY <1>2 DEF RequestStep, AskUnregister, AskRegister, Ask, CheckRole, Look, Create,
                  Destroy, QueryFails
    <2>2. QED BY <2>1 DEF ProcessesInv, processes
  <1>3. CASE (\E u \in Users : Login(u)) \/ UNCHANGED vars
    BY <1>3 DEF Login, vars, ProcessesInv, processes
  <1>4. CASE Crash
    BY <1>0, <1>4 DEF Crash, ShutDown, Kill, CloseListeners, ProcessesInv, ProcessesOK
  <1>5. CASE Aside
    <2>1. UNCHANGED <<stage, starts>>
      BY <1>5 DEF Aside
    <2>2. CASE RetryConnection
      BY <2>1, <2>2 DEF RetryConnection, SecondAttempt, ProcessesInv
    <2>3. CASE LoseConnection
      BY <2>1, <2>3 DEF LoseConnection, ProcessesInv
    <2>4. ASSUME NEW s \in 1 .. MaxStarts, SyncFails(s) \/ Send(s)
          PROVE  ProcessesInv'
      BY <1>0, <2>1, <2>4 DEF SyncFails, Send, ShutDownSync, ProcessesInv, ProcessesOK
    <2>5. QED BY <1>5, <2>2, <2>3, <2>4 DEF Aside, Beside
  <1>6. QED BY <1>1, <1>2, <1>3, <1>4, <1>5, ServeSteps DEF Next, Aside

(* One sync process writes at a time, but for those a killed server left;   *)
(* and the server never serves for good without its connection: whatever    *)
(* fails at whatever moment of whichever start.                             *)
THEOREM ServerTheorem == Spec => []ServerIsWhole
  <1>1. TypeInv /\ ProcessesInv => ServerIsWhole
    BY DEF TypeInv, TypeOK, ProcessesOK, SyncStates, ProcessesInv, ServerIsWhole, OneWriter,
           Writing, NeverWithoutDatabase
  <1>2. QED BY TypeHolds, ProcessesBegin, ProcessesStep, <1>1, PTL DEF Spec
=============================================================================
