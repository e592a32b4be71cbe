----------------------------- MODULE StudentWeb -----------------------------
(***************************************************************************)
(* The web application of the student registry: signing in (sign-in.vue,   *)
(* sign-in.ts) and one visit of the page of students (students.vue with    *)
(* its two dialogs and the handlers of /api/contract/sm).                  *)
(*                                                                         *)
(* A sign-in enrols the user at the certificate authority of the school,   *)
(* creates or updates an account in Supabase and opens a session there: a  *)
(* step per await, in this browser and in another one. The page asks for   *)
(* the students page by page, with the bookmark of the answer before. A    *)
(* dialog sends its form to a handler that evaluates the transaction and   *)
(* submits it when the evaluation refused nothing.                         *)
(*                                                                         *)
(* External, and modelled from how the code uses them: Supabase, the       *)
(* certificate authorities, useFetch (a new request cancels the one under  *)
(* way, a failed one leaves null as its data) and the ledger, on which a   *)
(* submitted transaction is one step; StudentChaincode has the steps       *)
(* between its proposal and its commit. The users are managers, and the    *)
(* name of a student stands for all the fields a form edits.               *)
(***************************************************************************)
EXTENDS Integers, FiniteSets

CONSTANTS
    Users,      \* usernames at the certificate authorities
    Bureau,     \* those of the education bureau
    SchoolOf,   \* the MSP of a user: the school's, or the bureau's
    Schools,    \* MSPs of the schools
    Passwords,
    IDs,        \* numbers of students, ordered as the keys of the ledger are
    Names,
    Enrolled,   \* the students that are there when the visit begins
    Size,       \* the page size, 20 in students.vue
    NoUser, NoAccount, NoStudent, NoPage,
    MaxActs,    \* bound: what users do on the page and elsewhere
    MaxFaults   \* bound: calls that fail

ASSUME UsersAssumption ==
    /\ Bureau \subseteq Users /\ NoUser \notin Users
    /\ \A u \in Users \ Bureau : SchoolOf[u] \in Schools
    /\ NoAccount \notin Passwords
ASSUME PagesAssumption == IDs \subseteq Nat \ {0} /\ IsFiniteSet(IDs) /\ Size \in Nat \ {0}
ASSUME BoundsAssumption == MaxActs \in Nat /\ MaxFaults \in Nat

Browsers == {"here", "elsewhere"}
Dialogs == {"create", "update"}

VARIABLES
    ca,         \* the password of each user at the authority
    account,    \* the password of each user's account in Supabase
    sign,       \* sign-ins under way
    session,    \* who is signed in here
    page,       \* "sign-in", "me" or "students"
    ledger,     \* the students on the channel
    bookmark,   \* query.bookmark
    shown,      \* the data of the list
    asked,      \* the list's request under way
    open,       \* which dialogs are visible
    chosen,     \* the student of the update dialog (needToUpdate)
    op,         \* what each dialog has sent
    data,       \* the data of each dialog's useFetch is not null
    present,    \* ghost: students there when the first page was read
    seen,       \* ghost: students shown since then
    unheard,    \* ghost: a write was committed and the page told of an error
    acts, faults

signVars == <<ca, account, sign, session, page>>
listVars == <<bookmark, shown, asked, present, seen>>
dialogVars == <<open, chosen, op, data, unheard>>
bounds == <<acts, faults>>
vars == <<signVars, ledger, listVars, dialogVars, bounds>>

Student == [name : Names, school : Schools]

(* A page of the list, and a request for one. *)
Answers ==
    [mark : IDs \cup {0}, items : SUBSET IDs, next : IDs \cup {0}, all : SUBSET IDs, late : BOOLEAN]
Requests == [done : BOOLEAN, page : Answers]

ASSUME RecordsAssumption ==
    /\ Enrolled \in [IDs -> Student \cup {NoStudent}] /\ NoStudent \notin Student
    /\ NoPage \notin Answers /\ NoPage \notin Requests

Quiet == [pc |-> "idle", user |-> NoUser, password |-> NoAccount]
Unsent == [pc |-> "idle", id |-> 0, name |-> "", school |-> ""]

Init ==
    /\ ca \in [Users -> Passwords]
    /\ account = [u \in Users |-> NoAccount]
    /\ sign = [b \in Browsers |-> Quiet]
    /\ session = NoUser
    /\ page = "sign-in"
    /\ ledger = Enrolled
    /\ bookmark = 0
    /\ shown = NoPage
    /\ asked = NoPage
    /\ open = [d \in Dialogs |-> FALSE]
    /\ chosen = 0
    /\ op = [d \in Dialogs |-> Unsent]
    /\ data = [d \in Dialogs |-> FALSE]
    /\ present = {}
    /\ seen = {}
    /\ unheard = FALSE
    /\ acts = 0
    /\ faults = 0

Act == acts < MaxActs /\ acts' = acts + 1
Fault == faults < MaxFaults /\ faults' = faults + 1

-----------------------------------------------------------------------------
(* Signing in. Somebody who is signed in is answered with the user they are, *)
(* whatever they ask: that changes nothing and is left out.                 *)

Goes(b, pc) == sign' = [sign EXCEPT ![b].pc = pc]

EndsSignIn(b) == sign' = [sign EXCEPT ![b] = Quiet]

AskSignIn(b, u, p) ==
    /\ b = "here" => page = "sign-in"
    /\ sign[b] = Quiet
    /\ Act
    /\ sign' = [sign EXCEPT ![b] = [pc |-> "enrol", user |-> u, password |-> p]]
    /\ UNCHANGED <<ca, account, session, page, ledger, listVars, dialogVars, faults>>

(* The authority accepts the password it has for the user; then the user's *)
(* identity is read with the administrator's certificate of ca-client.ts.  *)
Enroll(b) ==
    /\ sign[b].pc = "enrol"
    /\ IF ca[sign[b].user] = sign[b].password THEN Goes(b, "lookup") ELSE EndsSignIn(b)
    /\ UNCHANGED <<ca, account, session, page, ledger, listVars, dialogVars, bounds>>

GetUserId(b) ==
    /\ sign[b].pc = "lookup"
    /\ Goes(b, IF account[sign[b].user] = NoAccount THEN "create" ELSE "update")
    /\ UNCHANGED <<ca, account, session, page, ledger, listVars, dialogVars, bounds>>

(* An account that appeared since the lookup makes createUser an error. *)
CreateUser(b) ==
    /\ sign[b].pc = "create"
    /\ IF account[sign[b].user] = NoAccount
          THEN /\ account' = [account EXCEPT ![sign[b].user] = sign[b].password]
               /\ Goes(b, "session")
          ELSE EndsSignIn(b) /\ UNCHANGED account
    /\ UNCHANGED <<ca, session, page, ledger, listVars, dialogVars, bounds>>

(* What if the update of the account also stored the password. *)
PasswordAlso(b) == [account EXCEPT ![sign[b].user] = sign[b].password]

(* Only app_metadata: the MSP, the new certificate, the identity. *)
AccountUpdated(b) == account

UpdateUserById(b) ==
    /\ sign[b].pc = "update"
    /\ account' = AccountUpdated(b)
    /\ Goes(b, "session")
    /\ UNCHANGED <<ca, session, page, ledger, listVars, dialogVars, bounds>>

(* signInWithPassword; the page then stores the session and leaves. *)
OpenSession(b) ==
    /\ sign[b].pc = "session"
    /\ EndsSignIn(b)
    /\ IF b = "here" /\ account[sign[b].user] = sign[b].password
          THEN session' = sign[b].user /\ page' = "me"
          ELSE UNCHANGED <<session, page>>
    /\ UNCHANGED <<ca, account, ledger, listVars, dialogVars, bounds>>

(* Supabase answers with its errors: the one of get_user_id_by_email reads  *)
(* like no account, the one of updateUserById is not looked at. Any other   *)
(* failure ends the sign-in.                                                *)
SignInFails(b) ==
    /\ sign[b] # Quiet
    /\ Fault
    /\ \/ sign[b].pc = "lookup" /\ Goes(b, "create")
       \/ sign[b].pc = "update" /\ Goes(b, "session")
       \/ EndsSignIn(b)
    /\ UNCHANGED <<ca, account, session, page, ledger, listVars, dialogVars, acts>>

(* The authority's administrator gives a user another password. *)
ChangePassword(u, p) ==
    /\ p # ca[u]
    /\ Act
    /\ ca' = [ca EXCEPT ![u] = p]
    /\ UNCHANGED <<account, sign, session, page, ledger, listVars, dialogVars, faults>>

SignOut ==
    /\ page = "me"
    /\ Act
    /\ session' = NoUser
    /\ page' = "sign-in"
    /\ UNCHANGED <<ca, account, sign, ledger, listVars, dialogVars, faults>>

-----------------------------------------------------------------------------
(* The list. *)

Registered == {i \in IDs : ledger[i] # NoStudent}

(* What if a page began after the bookmark. *)
KeysAfter(mark) == {i \in Registered : i > mark}

(* GetStateByRangeWithPagination starts at the bookmark. *)
KeysFrom(mark) == {i \in Registered : i >= mark}

PageFrom(mark) == {i \in KeysFrom(mark) : Cardinality({j \in KeysFrom(mark) : j < i}) < Size}

(* What if the bookmark were the number after the last one shown. *)
BookmarkPlusOne(mark) ==
    IF PageFrom(mark) = {} THEN 0
    ELSE 1 + CHOOSE i \in PageFrom(mark) : \A j \in PageFrom(mark) : i >= j

(* The bookmark is the next key, and empty when there is none. *)
BookmarkAfter(mark) ==
    LET rest == KeysFrom(mark) \ PageFrom(mark)
    IN  IF rest = {} THEN 0 ELSE CHOOSE i \in rest : \A j \in rest : i <= j

MayRead(i) == session \in Bureau \/ ledger[i].school = SchoolOf[session]

(* QueryAllStudents leaves out the students of other schools after the page *)
(* is cut.                                                                  *)
QueryAllStudents(mark) ==
    [mark |-> mark, items |-> {i \in PageFrom(mark) : MayRead(i)}, next |-> BookmarkAfter(mark),
     all |-> {i \in Registered : MayRead(i)}, late |-> FALSE]

Sent(mark) == [mark |-> mark, items |-> {}, next |-> 0, all |-> {}, late |-> FALSE]

(* What if a list that is being read were not asked for again. *)
AskOnce(mark) == IF asked = NoPage THEN [done |-> FALSE, page |-> Sent(mark)] ELSE asked

(* useFetch cancels the request under way. *)
Ask(mark) == [done |-> FALSE, page |-> Sent(mark)]

OpenStudents ==
    /\ page = "me"
    /\ page' = "students"
    /\ asked' = Ask(bookmark)
    /\ UNCHANGED <<ca, account, sign, session, ledger, bookmark, shown, present, seen, dialogVars, bounds>>

(* The handler of /api/contract/sm/students evaluates QueryAllStudents. *)
ReadStudents ==
    /\ asked # NoPage /\ ~asked.done
    /\ asked' = [done |-> TRUE, page |-> QueryAllStudents(asked.page.mark)]
    /\ UNCHANGED <<signVars, ledger, bookmark, shown, present, seen, dialogVars, bounds>>

ShowStudents ==
    /\ asked # NoPage /\ asked.done
    /\ shown' = asked.page
    /\ asked' = NoPage
    /\ present' = IF asked.page.mark = 0 THEN asked.page.all ELSE present
    /\ seen' = IF asked.page.mark = 0 THEN asked.page.items ELSE seen \cup asked.page.items
    /\ UNCHANGED <<signVars, ledger, bookmark, dialogVars, bounds>>

ListFails ==
    /\ asked # NoPage
    /\ Fault
    /\ shown' = NoPage
    /\ asked' = NoPage
    /\ UNCHANGED <<signVars, ledger, bookmark, present, seen, dialogVars, acts>>

Bookmark == IF shown = NoPage THEN 0 ELSE shown.next

(* Next Page: the query is watched, so only another bookmark asks again. *)
NextPage ==
    /\ page = "students"
    /\ Act
    /\ bookmark' = Bookmark
    /\ asked' = IF Bookmark = bookmark THEN asked ELSE Ask(Bookmark)
    /\ UNCHANGED <<signVars, ledger, shown, present, seen, dialogVars, faults>>

-----------------------------------------------------------------------------
(* The dialogs. *)

(* UPDATE passes the row it stands in; the other button toggles the dialog. *)
OpenUpdate(i) ==
    /\ shown # NoPage /\ i \in shown.items
    /\ Act
    /\ chosen' = i
    /\ open' = [open EXCEPT !["update"] = TRUE]
    /\ UNCHANGED <<signVars, ledger, listVars, op, data, unheard, faults>>

ToggleCreate ==
    /\ page = "students"
    /\ Act
    /\ open' = [open EXCEPT !["create"] = ~@]
    /\ UNCHANGED <<signVars, ledger, listVars, chosen, op, data, unheard, faults>>

Close(d) ==
    /\ open[d]
    /\ open' = [open EXCEPT ![d] = FALSE]
    /\ UNCHANGED <<signVars, ledger, listVars, chosen, op, data, unheard, bounds>>

(* The button of a dialog is disabled while its request is pending. *)
Send(d, i, n, s) ==
    /\ open[d] /\ op[d] = Unsent
    /\ Act
    /\ op' = [op EXCEPT ![d] = [pc |-> "evaluate", id |-> i, name |-> n, school |-> s]]
    /\ UNCHANGED <<signVars, ledger, listVars, open, chosen, data, unheard, faults>>

SendCreate(i, n, s) == Send("create", i, n, s)
SendUpdate(n) == chosen # 0 /\ Send("update", chosen, n, "")

(* CreateStudent with the school the request names, none when it is "". *)
CreateAllowed(i, school) ==
    ledger[i] = NoStudent /\ (session \in Bureau => school # "")

UpdateAllowed(i) == ledger[i] # NoStudent

(* What if the evaluation named the school of the form. *)
EvaluatesForm(d) ==
    IF d = "create" THEN CreateAllowed(op[d].id, op[d].school) ELSE UpdateAllowed(op[d].id)

(* student.post.ts evaluates without the school and submits with it: the *)
(* bureau, which has to name one, is refused by the evaluation.          *)
Evaluates(d) == IF d = "create" THEN CreateAllowed(op[d].id, "") ELSE UpdateAllowed(op[d].id)

Submits(d) == IF d = "create" THEN CreateAllowed(op[d].id, op[d].school) ELSE UpdateAllowed(op[d].id)

(* What if an update took the school of its sender. *)
WrittenAtOwnSchool(d) ==
    [name |-> op[d].name,
     school |-> IF session \in Bureau THEN op[d].school ELSE SchoolOf[session]]

(* The patch has no school: an update keeps the one on the ledger. *)
Written(d) ==
    [name |-> op[d].name,
     school |-> IF d = "update" THEN ledger[op[d].id].school
                ELSE IF session \in Bureau THEN op[d].school ELSE SchoolOf[session]]

(* The watcher of data closes the dialog and emits succeed, which refreshes *)
(* the list: whenever data changes, to an answer or back to null.           *)
AfterAnswer(changed) == IF changed THEN Ask(bookmark) ELSE asked

Answered(d, ok) ==
    LET changed == ok \/ data[d]
    IN  /\ op' = [op EXCEPT ![d] = Unsent]
        /\ data' = [data EXCEPT ![d] = ok]
        /\ open' = [open EXCEPT ![d] = @ /\ ~changed]
        /\ asked' = AfterAnswer(changed)
        /\ UNCHANGED <<signVars, bookmark, present, seen, chosen>>

Evaluate(d) ==
    /\ op[d].pc = "evaluate"
    /\ Evaluates(d)
    /\ op' = [op EXCEPT ![d].pc = "submit"]
    /\ UNCHANGED <<signVars, ledger, listVars, open, chosen, data, unheard, bounds>>

(* An evaluation or an endorsement that the contract refuses. *)
Refuse(d) ==
    /\ \/ op[d].pc = "evaluate" /\ ~Evaluates(d)
       \/ op[d].pc = "submit" /\ ~Submits(d)
    /\ Answered(d, FALSE)
    /\ UNCHANGED <<ledger, shown, unheard, bounds>>

(* The list on the page is older than a write of this page from now on. *)
Outdated(p) == IF p = NoPage THEN NoPage ELSE [p EXCEPT !.late = TRUE]

Submit(d) ==
    /\ op[d].pc = "submit"
    /\ Submits(d)
    /\ ledger' = [ledger EXCEPT ![op[d].id] = Written(d)]
    /\ op' = [op EXCEPT ![d].pc = "committed"]
    /\ shown' = Outdated(shown)
    /\ asked' = IF asked # NoPage /\ asked.done
                THEN [asked EXCEPT !.page = Outdated(@)] ELSE asked
    /\ UNCHANGED <<signVars, bookmark, present, seen, open, chosen, data, unheard, bounds>>

Succeed(d) ==
    /\ op[d].pc = "committed"
    /\ Answered(d, TRUE)
    /\ UNCHANGED <<ledger, shown, unheard, bounds>>

(* The call fails: it did not get there, the block made it invalid, or the *)
(* answer was lost after the commit. The page is told of an error.         *)
CallFails(d) ==
    /\ op[d] # Unsent
    /\ Fault
    /\ Answered(d, FALSE)
    /\ unheard' = (unheard \/ op[d].pc = "committed")
    /\ UNCHANGED <<ledger, shown, acts>>

(* Others create and rename students. *)
OthersWrite(i, st) ==
    /\ Act
    /\ ledger[i] # NoStudent => st.school = ledger[i].school
    /\ ledger' = [ledger EXCEPT ![i] = st]
    /\ UNCHANGED <<signVars, listVars, dialogVars, faults>>

-----------------------------------------------------------------------------

SignIn ==
    \/ \E b \in Browsers : \/ \E u \in Users, p \in Passwords : AskSignIn(b, u, p)
                           \/ Enroll(b) \/ GetUserId(b) \/ CreateUser(b)
                           \/ UpdateUserById(b) \/ OpenSession(b) \/ SignInFails(b)
    \/ \E u \in Users, p \in Passwords : ChangePassword(u, p)
    \/ SignOut

List == OpenStudents \/ ReadStudents \/ ShowStudents \/ ListFails \/ NextPage

Dialog ==
    \/ \E i \in IDs : OpenUpdate(i)
    \/ ToggleCreate
    \/ \E i \in IDs, n \in Names, s \in Schools : SendCreate(i, n, s)
    \/ \E n \in Names : SendUpdate(n)
    \/ \E d \in Dialogs : Close(d) \/ Evaluate(d) \/ Refuse(d) \/ Submit(d) \/ Succeed(d) \/ CallFails(d)
    \/ \E i \in IDs, st \in Student : OthersWrite(i, st)

Next == SignIn \/ List \/ Dialog

Spec == Init /\ [][Next]_vars

-----------------------------------------------------------------------------
(* Properties. *)

TypeOK ==
    /\ ca \in [Users -> Passwords] /\ account \in [Users -> Passwords \cup {NoAccount}]
    /\ sign \in [Browsers -> [pc : {"idle", "enrol", "lookup", "create", "update", "session"},
                              user : Users \cup {NoUser}, password : Passwords \cup {NoAccount}]]
    /\ session \in Users \cup {NoUser}
    /\ page \in {"sign-in", "me", "students"} /\ (page = "sign-in" <=> session = NoUser)
    /\ ledger \in [IDs -> Student \cup {NoStudent}]
    /\ bookmark \in IDs \cup {0}
    /\ shown \in Answers \cup {NoPage}
    /\ asked \in Requests \cup {NoPage}
    /\ open \in [Dialogs -> BOOLEAN] /\ data \in [Dialogs -> BOOLEAN]
    /\ chosen \in IDs \cup {0}
    /\ op \in [Dialogs -> [pc : {"idle", "evaluate", "submit", "committed"}, id : IDs \cup {0},
                           name : Names \cup {""}, school : Schools \cup {""}]]
    /\ present \subseteq IDs /\ seen \subseteq IDs /\ unheard \in BOOLEAN
    /\ acts \in 0 .. MaxActs /\ faults \in 0 .. MaxFaults

(* Next Page reaches everybody: when the list shows a page after which there *)
(* is none, every student the user may read who was registered when the      *)
(* first page was read has been on a page since, whatever was created,       *)
(* refreshed, cancelled or lost in between (students.vue, student.go).       *)
WalkReachesEveryStudent ==
    shown # NoPage /\ shown.next = 0 => present \subseteq seen

(* A page never keeps a list that is older than its own write: once the      *)
(* answer to a create or an update has come, the list was read after the     *)
(* commit or is being asked for (students.vue:38). Only a write whose answer *)
(* was lost may stay unseen.                                                 *)
OwnWritesShown ==
    /\ \A d \in Dialogs : op[d] = Unsent
    /\ ~unheard
    /\ shown # NoPage /\ shown.late
    => asked # NoPage

(* Nothing the bureau enters in the dialog of new students is ever submitted, *)
(* although the dialog has a school to choose and CreateStudent would take it *)
(* from the bureau: the evaluation before it names none (student.post.ts:12). *)
BureauCannotCreate ==
    session \in Bureau => op["create"].pc \notin {"submit", "committed"}

(* No student changes school and none is registered at a school the page's  *)
(* manager does not belong to, whatever the form says: the patch carries no *)
(* school, and a school's manager creates students of that school.          *)
SchoolIsKept ==
    [][\A i \in IDs :
         /\ ledger[i] # NoStudent => ledger'[i].school = ledger[i].school
         /\ (\E d \in Dialogs : op[d].pc = "submit" /\ op'[d].pc = "committed" /\ op[d].id = i)
            /\ ledger[i] = NoStudent /\ session \notin Bureau
            => ledger'[i].school = SchoolOf[session]]_vars

LockedOut(u) == account[u] # NoAccount /\ account[u] # ca[u]

(* Signing in never brings the two passwords of a user together again: after *)
(* the authority has changed one, the account keeps the other, and a sign-in *)
(* needs both. Only another change at the authority ends it (sign-in.ts:68). *)
LockedOutStays == [][\A u \in Users : LockedOut(u) /\ ca'[u] = ca[u] => LockedOut(u)']_vars

=============================================================================
