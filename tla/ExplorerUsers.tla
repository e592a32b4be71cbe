----------------------------- MODULE ExplorerUsers -----------------------------
(***************************************************************************)
(* The users of a network as a page shows and changes them: signing in     *)
(* (Login), the list asked for while the page loads (LandingPage), and the *)
(* panel with the list of users and the form that registers one (Users,    *)
(* Register), against the routes of ExplorerAccounts.  Any of the requests *)
(* may overlap, and be answered in any order.                              *)
(***************************************************************************)
EXTENDS ExplorerCopy

CONSTANTS
  Names, Admins, Root,   \* the users, those whose role is admin, the one of the profile
  Dummy,                 \* the user where the profile asks for no authentication
  NoList,                \* userlists of the store before it is loaded
  Posts, MaxPosts        \* the requests under way at once; bound of those a user starts

ASSUME UsersAssumption ==
  /\ Root \in Admins /\ Admins \subseteq Names /\ Dummy \notin Names
  /\ IsFiniteSet(Names) /\ NoList \notin [Names -> Nat]
  /\ MaxPosts \in Nat

VARIABLES
  rows,                  \* how many rows each name has in the table users
  posts,                 \* the requests
  tab                    \* the page

users == <<rows, posts, tab>>

Bags == [Names -> Nat]
Exists(name) == name \in Names /\ rows[name] > 0

\* of: the panel a request was sent from is still open ("here"), or was closed, and then
\* whether the list it shares with the store was replaced since ("gone") or not ("closed").
NoPost == [pc |-> "idle", op |-> "none", by |-> Dummy, name |-> Dummy, ok |-> FALSE,
           info |-> "none", seen |-> NoList, of |-> "here", selected |-> Dummy]
Idle(c) == posts[c].pc = "idle"
AllIdle == \A c \in Posts : Idle(c)

Page(page, auth, user) ==
  [page |-> page, auth |-> auth, user |-> user, networks |-> FALSE, list |-> NoList, error |-> FALSE,
   panel |-> FALSE, prompt |-> FALSE, selected |-> Dummy, result |-> "none", saved |-> Dummy,
   sent |-> 0, inserted |-> {}, cut |-> FALSE, disturbed |-> FALSE, failed |-> FALSE]

\* The panel cannot be rendered without a list, nor the form with an error object in the
\* store; an exception while rendering leaves nothing of the page.
Rendered(t) == IF t.panel /\ (t.list = NoList \/ t.error) THEN [t EXCEPT !.page = "blank"] ELSE t
Alive == tab.page # "blank"

-------------------------------------------------------------------------------
(* What the user does. *)

\* The bound of requests counts what happened before them.
Asks == tab.sent + events < MaxPosts
Sending(t) == [t EXCEPT !.sent = @ + 1, !.disturbed = @ \/ ~AllIdle]

SignIn(c, name) ==
  /\ tab.page = "login" /\ tab.networks /\ Idle(c) /\ Asks
  /\ (name = Dummy) = ~tab.auth
  /\ posts' = [posts EXCEPT ![c] = [NoPost EXCEPT !.pc = "find", !.op = "login", !.name = name]]
  /\ tab' = Sending(tab)
  /\ UNCHANGED <<server, events, rows>>

OpenPanel ==
  /\ tab.page = "main" /\ ~tab.panel
  /\ tab' = Rendered([tab EXCEPT !.panel = TRUE, !.prompt = FALSE, !.selected = Dummy,
                                 !.result = "none", !.saved = Dummy])
  /\ UNCHANGED <<server, events, rows, posts>>

\* What was sent from the panel goes on without it.
ClosePanel ==
  /\ tab.page = "main" /\ tab.panel
  /\ tab' = [tab EXCEPT !.panel = FALSE]
  /\ posts' = [c \in Posts |-> IF posts[c].of = "here" /\ ~Idle(c)
                               THEN [posts[c] EXCEPT !.of = "closed", !.selected = tab.selected]
                               ELSE posts[c]]
  /\ UNCHANGED <<server, events, rows>>

\* submitForm: the button stays enabled while the answer is awaited.
SubmitForm(c, name) ==
  /\ Alive /\ tab.panel /\ Idle(c) /\ Asks
  /\ posts' = [posts EXCEPT ![c] =
       [NoPost EXCEPT !.pc = "role", !.op = "register", !.by = tab.user, !.name = name]]
  /\ tab' = Sending(tab)
  /\ UNCHANGED <<server, events, rows>>

DeletePrompt(name) ==
  /\ Alive /\ tab.panel /\ ~tab.prompt /\ tab.list[name] > 0
  /\ tab' = [tab EXCEPT !.prompt = TRUE, !.selected = name]
  /\ UNCHANGED <<server, events, rows, posts>>

Cancel ==
  /\ Alive /\ tab.panel /\ tab.prompt
  /\ tab' = [tab EXCEPT !.prompt = FALSE]
  /\ UNCHANGED <<server, events, rows, posts>>

\* handleDelete clears selectedUser before the answer, when reloadUsers reads it.
HandleDelete(c) ==
  /\ Alive /\ tab.panel /\ tab.prompt /\ Idle(c) /\ Asks
  /\ posts' = [posts EXCEPT ![c] =
       [NoPost EXCEPT !.pc = "role", !.op = "unregister", !.by = tab.user, !.name = tab.selected]]
  /\ tab' = [Sending(tab) EXCEPT !.prompt = FALSE, !.selected = Dummy]
  /\ UNCHANGED <<server, events, rows>>

\* Another administrator registers or unregisters somebody.
OthersChange(name) ==
  /\ name # Root /\ Happens
  /\ rows' = [rows EXCEPT ![name] = IF @ > 0 THEN 0 ELSE 1]
  /\ tab' = [tab EXCEPT !.disturbed = TRUE]
  /\ UNCHANGED <<server, posts>>

-------------------------------------------------------------------------------
(* The routes. *)

Goes(c, pc) == posts' = [posts EXCEPT ![c].pc = pc]
Replies(c, ok) == posts' = [posts EXCEPT ![c].pc = "sent", ![c].ok = ok]

\* /auth/networklist, and /auth/login: authenticate.
SendNetworks(c) ==
  /\ Answering /\ posts[c].pc = "networks"
  /\ Replies(c, TRUE)
  /\ UNCHANGED <<server, events, rows, tab>>

Authenticate(c) ==
  /\ Answering /\ posts[c].pc = "find"
  /\ \E right \in BOOLEAN : Replies(c, tab.auth => Exists(posts[c].name) /\ right)
  /\ UNCHANGED <<server, events, rows, tab>>

MayChange(post) ==
  /\ Exists(post.by) /\ post.by \in Admins
  /\ post.op = "unregister" => post.name \notin {post.by, Root}

CheckRole(c) ==
  /\ Answering /\ posts[c].pc = "role"
  /\ IF MayChange(posts[c]) THEN Goes(c, "look") ELSE Replies(c, FALSE)
  /\ UNCHANGED <<server, events, rows, tab>>

Look(c) ==
  /\ Answering /\ posts[c].pc = "look"
  /\ IF Exists(posts[c].name) = (posts[c].op = "unregister") THEN Goes(c, "write")
     ELSE Replies(c, FALSE)
  /\ UNCHANGED <<server, events, rows, tab>>

Write(c) ==
  /\ Answering /\ posts[c].pc = "write"
  /\ rows' = [rows EXCEPT ![posts[c].name] = IF posts[c].op = "register" THEN @ + 1 ELSE 0]
  /\ tab' = [tab EXCEPT !.inserted = IF posts[c].op = "register" THEN @ \cup {posts[c].name} ELSE @]
  /\ Replies(c, TRUE)
  /\ UNCHANGED <<server, events>>

GetUserlist(c) ==
  /\ Answering /\ posts[c].pc = "list"
  /\ posts' = [posts EXCEPT ![c].pc = "listed", ![c].ok = TRUE, ![c].seen = rows]
  /\ UNCHANGED <<server, events, rows, tab>>

\* The service catches a statement that fails and answers with status 400; the login
\* strategy does not, sends nothing, and the server stops.
StatementFails(c) ==
  /\ Answering /\ posts[c].pc \in {"find", "role", "look", "write", "list"} /\ Happens
  /\ IF posts[c].op = "login" THEN Uncaught /\ Goes(c, "never")
     ELSE /\ posts' = [posts EXCEPT ![c].pc = IF @ = "list" THEN "listed" ELSE "sent", ![c].ok = FALSE]
          /\ UNCHANGED server
  /\ tab' = [tab EXCEPT !.failed = TRUE, !.disturbed = TRUE]
  /\ UNCHANGED rows

-------------------------------------------------------------------------------
(* What the page does with the answers. *)

Ends(c) == posts' = [posts EXCEPT ![c] = NoPost]

\* Where the profile asks for no authentication the page signs in by itself, once.
AutoLogin(c) ==
  IF tab.page = "login" /\ ~tab.auth
  THEN posts' = [posts EXCEPT ![c] = [NoPost EXCEPT !.pc = "find", !.op = "login"]]
  ELSE Ends(c)

DeliverNetworks(c) ==
  /\ Alive /\ posts[c].op = "networks" /\ posts[c].pc = "sent"
  /\ tab' = [tab EXCEPT !.networks = TRUE]
  /\ AutoLogin(c)
  /\ UNCHANGED <<server, events, rows>>

\* The landing page is mounted with the token, and asks for the users.
DeliverLogin(c) ==
  /\ Alive /\ posts[c].op = "login" /\ posts[c].pc = "sent"
  /\ IF posts[c].ok /\ tab.page = "login"
     THEN /\ tab' = [tab EXCEPT !.page = "landing", !.user = posts[c].name]
          /\ posts' = [posts EXCEPT ![c] = [NoPost EXCEPT !.pc = "list", !.op = "landing"]]
     ELSE /\ tab' = [tab EXCEPT !.user = IF posts[c].ok THEN posts[c].name ELSE @]
          /\ Ends(c)
  /\ UNCHANGED <<server, events, rows>>

\* What if the page were shown before its list?
DoesNotWait(t, post) == [t EXCEPT !.page = "main"]
\* The end of the userlist thunk, ok or not, then what awaited it: updateLoadStatus, or the
\* message of the form.
AfterList(t, post) ==
  LET listed == IF post.ok THEN [t EXCEPT !.list = post.seen, !.cut = FALSE] ELSE t
  IN IF post.op = "landing" THEN [listed EXCEPT !.page = "main"]
     ELSE IF post.of = "here" /\ post.info # "none"
          THEN [listed EXCEPT !.result = post.info, !.saved = post.name] ELSE listed

DeliverList(c) ==
  /\ Alive /\ posts[c].pc = "listed"
  /\ tab' = Rendered(AfterList(tab, posts[c]))
  /\ posts' = [d \in Posts |->
       IF d = c THEN NoPost
       ELSE IF posts[d].of = "closed" /\ posts[c].ok THEN [posts[d] EXCEPT !.of = "gone"] ELSE posts[d]]
  /\ UNCHANGED <<server, events, rows>>

\* register is answered: the form asks for the list before it says anything.
DeliverRegister(c) ==
  /\ Alive /\ posts[c].op = "register" /\ posts[c].pc = "sent"
  /\ posts' = [posts EXCEPT ![c].pc = "list", ![c].ok = FALSE,
                            ![c].info = IF posts[c].ok THEN "success" ELSE "error"]
  /\ UNCHANGED <<server, events, rows, tab>>

\* What if an unregistered user stayed in the list?
KeepsAll(bag, name) == {bag}
\* splice(findIndex(...), 1): the first row of the name, the last of all if there is none.
Spliced(bag, name) ==
  IF name \in Names /\ bag[name] > 0 THEN {[bag EXCEPT ![name] = @ - 1]}
  ELSE IF Total(bag) = 0 THEN {bag}
  ELSE {[bag EXCEPT ![n] = @ - 1] : n \in {m \in Names : bag[m] > 0}}

DeliverUnregister(c) ==
  /\ Alive /\ posts[c].op = "unregister" /\ posts[c].pc = "sent"
  /\ IF posts[c].ok /\ posts[c].of # "gone"
     THEN \E bag \in Spliced(tab.list, IF posts[c].of = "here" THEN tab.selected ELSE posts[c].selected) :
            tab' = [tab EXCEPT !.list = bag, !.cut = TRUE]
     ELSE UNCHANGED tab
  /\ Ends(c)
  /\ UNCHANGED <<server, events, rows>>

\* A request is lost, or its token refused: the thunks of the panel and of the landing page
\* put the error object in the store; without networks the login page cannot be rendered.
Lost(t, post) ==
  IF post.op = "networks" THEN [t EXCEPT !.page = IF @ = "login" THEN "blank" ELSE @]
  ELSE IF post.op = "login" THEN t
  ELSE Rendered(IF post.pc = "list" \/ post.pc = "listed"
                THEN AfterList([t EXCEPT !.error = TRUE], [post EXCEPT !.ok = FALSE])
                ELSE [t EXCEPT !.error = TRUE])

LosePost(c) ==
  /\ Alive /\ ~Idle(c)
  /\ \/ server = "down" /\ UNCHANGED events
     \/ Happens
  /\ tab' = [Lost(tab, posts[c]) EXCEPT !.failed = TRUE, !.disturbed = TRUE]
  /\ IF posts[c].op = "register" /\ posts[c].pc \notin {"list", "listed"}
     THEN posts' = [posts EXCEPT ![c].pc = "list", ![c].info = "none"]
     ELSE Ends(c)
  /\ UNCHANGED <<server, rows>>

-------------------------------------------------------------------------------
\* The page is loaded without a token, or with the one localStorage kept: then the networks
\* and the users are asked for together.
UsersInit ==
  /\ \E present \in SUBSET Names :
       /\ Root \in present /\ (kind # "users" => present = Names)
       /\ rows = [n \in Names |-> IF n \in present THEN 1 ELSE 0]
  /\ \E auth \in BOOLEAN, token \in BOOLEAN, c, d \in Posts, user \in Names \cup {Dummy} :
       LET networks == [NoPost EXCEPT !.pc = "networks", !.op = "networks"]
           landing == [NoPost EXCEPT !.pc = "list", !.op = "landing"]
       IN /\ c # d /\ (user = Dummy) = ~(auth /\ token)
          /\ kind # "users" => ~auth /\ ~token
          /\ tab = Page(IF token THEN "landing" ELSE "login", auth, user)
          /\ posts = [e \in Posts |-> IF e = c THEN networks
                                      ELSE IF e = d /\ token THEN landing ELSE NoPost]

UsersPanel ==
  \/ \E c \in Posts :
       \/ \E name \in Names \cup {Dummy} : SignIn(c, name)
       \/ \E name \in Names : SubmitForm(c, name)
       \/ HandleDelete(c)
       \/ SendNetworks(c) \/ Authenticate(c) \/ CheckRole(c) \/ Look(c) \/ Write(c)
       \/ GetUserlist(c) \/ StatementFails(c)
       \/ DeliverNetworks(c) \/ DeliverLogin(c) \/ DeliverList(c) \/ DeliverRegister(c)
       \/ DeliverUnregister(c) \/ LosePost(c)
  \/ \E name \in Names : DeletePrompt(name) \/ OthersChange(name)
  \/ OpenPanel \/ ClosePanel \/ Cancel

-------------------------------------------------------------------------------
(* Properties. *)

UsersOK ==
  /\ rows \in Bags /\ tab.list \in Bags \cup {NoList} /\ tab.sent \in 0..MaxPosts
  /\ tab.page \in {"login", "landing", "main", "blank"}
  /\ tab.panel => tab.page \in {"main", "blank"}
  /\ \A c \in Posts : posts[c].seen \in Bags \cup {NoList}

\* The page goes blank only after a request failed (Users reads userlists in its
\* constructor, Login the networks when its properties change, Register renders the
\* error); 'registered successfully!' is said of a user this page inserted; and when
\* every request was answered, one at a time, and nobody else changed the table, the list
\* has as many users as the table, the very same ones unless one was unregistered since
\* the list was read: reloadUsers then takes a user off the list, maybe another one.
UsersAreTrue ==
  /\ ~Alive => tab.failed
  /\ tab.panel /\ tab.result = "success" => tab.saved \in tab.inserted
  /\ AllIdle /\ tab.page = "main" /\ ~tab.disturbed =>
       /\ tab.list # NoList
       /\ Total(tab.list) = Total(rows)
       /\ ~tab.cut => tab.list = rows
===============================================================================
