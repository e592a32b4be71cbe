--------------------------- MODULE StudentChaincode ---------------------------
(***************************************************************************)
(* The student contract (chaincode/sm) as transactions of a Fabric         *)
(* channel.                                                                *)
(*                                                                         *)
(* A transaction runs in three steps.  Propose: a user sends a request.    *)
(* Endorse: one peer (the channel's policy is "ANY Endorsement") runs the  *)
(* contract function on its own copy of the ledger, which may lag, and     *)
(* keeps the version of the student key it read and the value it wants to  *)
(* put.  Commit: the ordered transaction is applied at the head of the     *)
(* chain if the version it read is still the current one, and is marked    *)
(* invalid otherwise.  Any number of transactions may be between two of    *)
(* these steps, in any order.                                              *)
(*                                                                         *)
(* Blocks that hold no valid transaction change no state and are left out, *)
(* and a block holds one transaction: Fabric validates the transactions of *)
(* a block one after the other, each against the writes before it.         *)
(***************************************************************************)
EXTENDS AccessControl, Integers

CONSTANTS
  IDs,        \* identity-card numbers: the keys of students
  Names,      \* names, without the empty one
  Profiles,   \* admission year and major
  Schools,    \* values of the field School, without the empty one
  Marks,      \* what a grade says besides the school and the date
  Dates,      \* values of time.Now() on the peers
  NoStudent,  \* GetState's nil
  Peers, Txns,
  Requests,   \* the requests users send
  Nobody, NoRequest, NothingPut,
  StateReadsMayFail  \* whether GetState may return an error

Blank == ""

Unread == -1  \* the version of a key the transaction has no record of reading

Student == [name : Names \cup {Blank}, profile : Profiles, school : Schools,
            graduated : BOOLEAN, created : Dates]

Grade == [school : Schools, mark : Marks, date : Dates]

Request ==
  [op : {"CreateStudent"}, id : IDs, name : Names \cup {Blank}, profile : Profiles,
   school : Schools \cup {Blank}]
  \cup
  [op : {"UpdateStudent"}, id : IDs, name : Names \cup {Blank}, profile : Profiles,
   school : Schools \cup {Blank}, graduated : BOOLEAN]
  \cup
  [op : {"CreateStudentGrade"}, id : IDs, mark : Marks]

ASSUME ConstantsAssumption ==
  /\ Blank \notin Names \cup Schools
  /\ Requests \subseteq Request
  /\ \A u \in Users : Cert[u].msp = Bureau \/ Cert[u].msp \in Schools
  /\ NoStudent \notin Student
  /\ Nobody \notin Users
  /\ NoRequest \notin Request
  /\ NothingPut \notin Student \cup Grade
  /\ StateReadsMayFail \in BOOLEAN

VARIABLES
  chain,   \* the state after each block: chain[1] is the genesis state
  height,  \* how much of the chain each peer has applied
  stage,   \* how far each transaction is
  caller, request,  \* who proposed it, and what
  readVer, put      \* its endorsement: the version read, the value to put

ledgerVars == <<chain, height>>
vars == <<chain, height, stage, caller, request, readVer, put>>

\* The state of a ledger: each student key with the number of the block that
\* wrote it last (0: never), and the history database of each grade key.
Entry == [ver : Nat, val : Student \cup {NoStudent}]
World == [student : [IDs -> Entry], grades : [IDs -> [Schools -> Seq(Grade)]]]

Genesis == [student |-> [id \in IDs |-> [ver |-> 0, val |-> NoStudent]],
            grades |-> [id \in IDs |-> [school \in Schools |-> <<>>]]]

Tip == chain[Len(chain)]

-------------------------------------------------------------------------------
(* The functions of the contract.  w is the state of the endorsing peer, date *)
(* its clock.                                                                 *)

StudentExists(w, id) == w.student[id].val # NoStudent

\* What if CreateStudent did not look for an earlier record?
CreateStudentAllowedTwice(u, req, w) ==
  /\ AssertManager(u)
  /\ Cert[u].msp = Bureau => req.school # Blank
  /\ req.name # Blank

CreateStudentAllowed(u, req, w) ==
  /\ AssertManager(u)
  /\ ~ StudentExists(w, req.id)
  /\ Cert[u].msp = Bureau => req.school # Blank
  /\ req.name # Blank

\* A school's manager creates students of that school, whatever the request says.
NewStudent(u, req, date) ==
  [name |-> req.name, profile |-> req.profile,
   school |-> IF Cert[u].msp = Bureau THEN req.school ELSE Cert[u].msp,
   graduated |-> FALSE, created |-> date]

UpdateStudentAllowed(u, req, w) == AssertManager(u) /\ StudentExists(w, req.id)

\* What if an update without a school emptied the field?
UpdatedAtAnySchool(u, req, old) ==
  [name |-> req.name, profile |-> req.profile, school |-> req.school,
   graduated |-> req.graduated, created |-> old.created]

\* What if an update took the caller's school, as a creation does?
UpdatedAtOwnSchool(u, req, old) ==
  [name |-> req.name, profile |-> req.profile,
   school |-> IF Cert[u].msp = Bureau THEN old.school ELSE Cert[u].msp,
   graduated |-> req.graduated, created |-> old.created]

UpdatedStudent(u, req, old) ==
  [name |-> req.name, profile |-> req.profile,
   school |-> IF req.school = Blank THEN old.school ELSE req.school,
   graduated |-> req.graduated, created |-> old.created]

QueryStudentAllowed(u, id, w) ==
  /\ AssertStateOwner(u, id) \/ AssertManager(u)
  /\ StudentExists(w, id)
  /\ \/ AssertStateOwner(u, id)
     \/ Cert[u].msp \in {Bureau, w.student[id].val.school}

CreateStudentGradeAllowed(u, req, w) ==
  QueryStudentAllowed(u, req.id, w) /\ AssertManager(u)

\* What if the key of a grade held the caller's school, and one fixed school for the bureau?
NewGradeOfCaller(u, req, w, date) ==
  [school |-> IF Cert[u].msp = Bureau THEN CHOOSE s \in Schools : TRUE ELSE Cert[u].msp,
   mark |-> req.mark, date |-> date]

\* The school is the second part of the composite key the grade is put under.
NewGrade(u, req, w, date) ==
  [school |-> w.student[req.id].val.school, mark |-> req.mark, date |-> date]

\* What if only the school the student attends now were asked for?
QueryGradesOfSchool(id, w) ==
  LET school == w.student[id].val.school
  IN { [place |-> <<school, i>>, grade |-> w.grades[id][school][i]] :
         i \in DOMAIN w.grades[id][school] }

\* Every version of every grade key that starts with the student's number, as
\* QueryStudentGrades collects them: each with its place in its key's history.
QueryStudentGrades(id, w) ==
  UNION { { [place |-> <<school, i>>, grade |-> w.grades[id][school][i]] :
              i \in DOMAIN w.grades[id][school] } : school \in Schools }

-------------------------------------------------------------------------------
Init == /\ chain = <<Genesis>>
        /\ height = [p \in Peers |-> 1]
        /\ stage = [t \in Txns |-> "idle"]
        /\ caller = [t \in Txns |-> Nobody]
        /\ request = [t \in Txns |-> NoRequest]
        /\ readVer = [t \in Txns |-> Unread]
        /\ put = [t \in Txns |-> NothingPut]

Propose(t, u, req) ==
  /\ stage[t] = "idle"
  /\ stage' = [stage EXCEPT ![t] = "proposed"]
  /\ caller' = [caller EXCEPT ![t] = u]
  /\ request' = [request EXCEPT ![t] = req]
  /\ UNCHANGED <<ledgerVars, readVer, put>>

Endorsed(t, ver, value) ==
  /\ stage' = [stage EXCEPT ![t] = "endorsed"]
  /\ readVer' = [readVer EXCEPT ![t] = ver]
  /\ put' = [put EXCEPT ![t] = value]
  /\ UNCHANGED <<ledgerVars, caller, request>>

EndorseCreateStudent(t, p, date) ==
  LET w == chain[height[p]]
      u == caller[t]
      req == request[t]
  IN  /\ stage[t] = "proposed"
      /\ req.op = "CreateStudent"
      /\ CreateStudentAllowed(u, req, w)
      /\ Endorsed(t, w.student[req.id].ver, NewStudent(u, req, date))

\* StudentExists drops the error of GetState: the number looks free, and the
\* failed read leaves no version behind to validate.
EndorseCreateStudentUnread(t, date) ==
  LET u == caller[t]
      req == request[t]
  IN  /\ StateReadsMayFail
      /\ stage[t] = "proposed"
      /\ req.op = "CreateStudent"
      /\ CreateStudentAllowed(u, req, Genesis)
      /\ Endorsed(t, Unread, NewStudent(u, req, date))

EndorseUpdateStudent(t, p) ==
  LET w == chain[height[p]]
      req == request[t]
  IN  /\ stage[t] = "proposed"
      /\ req.op = "UpdateStudent"
      /\ UpdateStudentAllowed(caller[t], req, w)
      /\ Endorsed(t, w.student[req.id].ver,
                  UpdatedStudent(caller[t], req, w.student[req.id].val))

EndorseCreateStudentGrade(t, p, date) ==
  LET w == chain[height[p]]
      req == request[t]
  IN  /\ stage[t] = "proposed"
      /\ req.op = "CreateStudentGrade"
      /\ CreateStudentGradeAllowed(caller[t], req, w)
      /\ Endorsed(t, w.student[req.id].ver, NewGrade(caller[t], req, w, date))

\* The contract function returned an error: the client is told, nothing is ordered.
Refuse(t, p) ==
  LET w == chain[height[p]]
      u == caller[t]
      req == request[t]
  IN  /\ stage[t] = "proposed"
      /\ \/ req.op = "CreateStudent" /\ ~ CreateStudentAllowed(u, req, w)
         \/ req.op = "UpdateStudent" /\ ~ UpdateStudentAllowed(u, req, w)
         \/ req.op = "CreateStudentGrade" /\ ~ CreateStudentGradeAllowed(u, req, w)
      /\ stage' = [stage EXCEPT ![t] = "refused"]
      /\ UNCHANGED <<ledgerVars, caller, request, readVer, put>>

-------------------------------------------------------------------------------
\* The versions a committing peer compares.
ReadIsCurrent(t) ==
  readVer[t] \in {Unread, Tip.student[request[t].id].ver}

PutStudent(w, id, ver, s) ==
  [student |-> [w.student EXCEPT ![id] = [ver |-> ver, val |-> s]],
   grades |-> w.grades]

PutGrade(w, id, g) ==
  [student |-> w.student,
   grades |-> [w.grades EXCEPT ![id][g.school] = Append(@, g)]]

CommitStudent(t) ==
  /\ stage[t] = "endorsed"
  /\ request[t].op \in {"CreateStudent", "UpdateStudent"}
  /\ ReadIsCurrent(t)
  /\ chain' = Append(chain, PutStudent(Tip, request[t].id, Len(chain) + 1, put[t]))
  /\ stage' = [stage EXCEPT ![t] = "committed"]
  /\ UNCHANGED <<height, caller, request, readVer, put>>

CommitGrade(t) ==
  /\ stage[t] = "endorsed"
  /\ request[t].op = "CreateStudentGrade"
  /\ ReadIsCurrent(t)
  /\ chain' = Append(chain, PutGrade(Tip, request[t].id, put[t]))
  /\ stage' = [stage EXCEPT ![t] = "committed"]
  /\ UNCHANGED <<height, caller, request, readVer, put>>

Invalidate(t) ==
  /\ stage[t] = "endorsed"
  /\ ~ ReadIsCurrent(t)
  /\ stage' = [stage EXCEPT ![t] = "invalid"]
  /\ UNCHANGED <<ledgerVars, caller, request, readVer, put>>

ApplyBlock(p) ==
  /\ height[p] < Len(chain)
  /\ height' = [height EXCEPT ![p] = @ + 1]
  /\ UNCHANGED <<chain, stage, caller, request, readVer, put>>

Next ==
  \/ \E t \in Txns, u \in Users, req \in Requests : Propose(t, u, req)
  \/ \E t \in Txns, p \in Peers, date \in Dates :
       EndorseCreateStudent(t, p, date) \/ EndorseCreateStudentGrade(t, p, date)
  \/ \E t \in Txns, date \in Dates : EndorseCreateStudentUnread(t, date)
  \/ \E t \in Txns, p \in Peers : EndorseUpdateStudent(t, p) \/ Refuse(t, p)
  \/ \E t \in Txns : CommitStudent(t) \/ CommitGrade(t) \/ Invalidate(t)
  \/ \E p \in Peers : ApplyBlock(p)

Spec == Init /\ [][Next]_vars

-------------------------------------------------------------------------------
(* Properties *)

TypeOK ==
  /\ chain \in Seq(World)
  /\ height \in [Peers -> 1..Len(chain)]
  /\ stage \in [Txns -> {"idle", "proposed", "endorsed", "refused", "committed", "invalid"}]
  /\ caller \in [Txns -> Users \cup {Nobody}]
  /\ request \in [Txns -> Requests \cup {NoRequest}]
  /\ readVer \in [Txns -> Nat \cup {Unread}]
  /\ put \in [Txns -> Student \cup Grade \cup {NothingPut}]

\* However many managers register the same number at once, on however stale
\* peers, one CreateStudent at most is committed for it, of those that read its
\* key (student.go:68).
OneCreationPerStudent ==
  \A t1, t2 \in Txns :
    /\ stage[t1] = "committed" /\ stage[t2] = "committed"
    /\ request[t1].op = "CreateStudent" /\ request[t2].op = "CreateStudent"
    /\ request[t1].id = request[t2].id
    /\ readVer[t1] # Unread /\ readVer[t2] # Unread
    => t1 = t2

\* The school in the key of a grade is one the student was registered at when
\* some block was the last one, also after the student has moved on (grade.go:82).
GradedSchoolsWereAttended ==
  \A id \in IDs, school \in Schools :
    Tip.grades[id][school] # <<>> =>
      \E n \in DOMAIN chain :
        /\ chain[n].student[id].val # NoStudent
        /\ chain[n].student[id].val.school = school

\* QueryStudentGrades loses no grade that was ever committed, neither to a later
\* grade under the same key nor to a change of school (grade.go:25-61).
QueryReturnsEveryGrade ==
  \A t \in Txns :
    /\ stage[t] = "committed"
    /\ request[t].op = "CreateStudentGrade"
    => \E r \in QueryStudentGrades(request[t].id, Tip) : r.grade = put[t]

Registered(id) == Tip.student[id].val # NoStudent

\* The step that commits a transaction for a student.
Commits(t, id) == stage[t] = "endorsed" /\ stage'[t] = "committed" /\ request[t].id = id

\* A registered student stays registered, with the date of the creation
\* (UpdateStudent keeps CreationDate, CreateStudent refuses a known number); the
\* one exception is a creation whose existence check read nothing.
RegistrationIsForGood ==
  [][\A id \in IDs :
       Registered(id) =>
         /\ Registered(id)'
         /\ \/ Tip'.student[id].val.created = Tip.student[id].val.created
            \/ \E t \in Txns : Commits(t, id) /\ readVer[t] = Unread]_chain

\* "Check whether the student already exists" (student.go:67): creating a student
\* never replaces the record of another.
CreationNeverReplaces ==
  [][\A t \in Txns, id \in IDs :
       Commits(t, id) /\ request[t].op = "CreateStudent" => ~ Registered(id)]_chain

\* A student changes school only by the commit of an update that names the new
\* school: an update that names none, endorsed before the change and committed
\* after it, must not bring the old school back (student.go:122).  (Or by a
\* creation whose existence check read nothing.)
SchoolChangesOnRequest ==
  [][\A id \in IDs :
       Registered(id) /\ Tip'.student[id].val.school # Tip.student[id].val.school =>
         \E t \in Txns :
           /\ Commits(t, id)
           /\ \/ readVer[t] = Unread
              \/ /\ request[t].op = "UpdateStudent"
                 /\ request[t].school = Tip'.student[id].val.school]_chain

\* The transactions implement the registry in which every operation is atomic.
Registry == INSTANCE StudentRegistry
  WITH students <- [id \in IDs |-> Tip.student[id].val],
       grades <- Tip.grades,
       Names <- Names \cup {Blank},
       MayReplace <- StateReadsMayFail

ImplementsRegistry == Registry!Spec
===============================================================================
