--------------------------- MODULE StudentWeb_proofs ---------------------------
(***************************************************************************)
(* Theorems about signing in and about a visit of the page of students,    *)
(* for any users, schools, numbers of students and page size, and for any  *)
(* number of acts and failures.                                            *)
(***************************************************************************)
EXTENDS StudentWeb, NaturalsInduction, WellFoundedInduction, TLAPS

-----------------------------------------------------------------------------
(* Types, with what a sign-in and a dialog under way hold. *)

SignIns == [pc : {"idle", "enrol", "lookup", "create", "update", "session"},
            user : Users \cup {NoUser}, password : Passwords \cup {NoAccount}]
Calls == [pc : {"idle", "evaluate", "submit", "committed"}, id : IDs \cup {0},
          name : Names \cup {""}, school : Schools \cup {""}]

SignOK ==
    /\ ca \in [Users -> Passwords] /\ account \in [Users -> Passwords \cup {NoAccount}]
    /\ sign \in [Browsers -> SignIns]
    /\ \A b \in Browsers : sign[b].pc # "idle" => sign[b].user \in Users /\ sign[b].password \in Passwords
    /\ session \in Users \cup {NoUser}
    /\ page \in {"sign-in", "me", "students"} /\ (page = "sign-in" <=> session = NoUser)
LedgerOK == ledger \in [IDs -> Student \cup {NoStudent}]
ListOK ==
    /\ bookmark \in IDs \cup {0}
    /\ shown \in Answers \cup {NoPage}
    /\ asked \in Requests \cup {NoPage}
    /\ present \subseteq IDs /\ seen \subseteq IDs
DialogOK ==
    /\ open \in [Dialogs -> BOOLEAN] /\ data \in [Dialogs -> BOOLEAN]
    /\ chosen \in IDs \cup {0}
    /\ op \in [Dialogs -> Calls]
    /\ \A d \in Dialogs : op[d].pc # "idle" => op[d].id \in IDs /\ op[d].name \in Names
    /\ unheard \in BOOLEAN
BoundsOK == acts \in 0 .. MaxActs /\ faults \in 0 .. MaxFaults

(* The list and the dialogs belong to the page of students, which nobody *)
(* leaves, and a sign-in here to the page before it.                     *)
VisitOK ==
    /\ page # "students" => /\ shown = NoPage /\ asked = NoPage /\ present = {}
                            /\ \A d \in Dialogs : ~open[d] /\ op[d] = Unsent
    /\ sign["here"].pc # "idle" => page = "sign-in"

TypeInv == SignOK /\ LedgerOK /\ ListOK /\ DialogOK /\ BoundsOK /\ VisitOK

LEMMA TypeInvTypes == TypeInv => TypeOK
  BY DEF TypeInv, TypeOK, SignOK, LedgerOK, ListOK, DialogOK, BoundsOK, SignIns, Calls

LEMMA Numbers == 0 \notin IDs /\ IDs \subseteq Nat
  BY PagesAssumption

LEMMA Quiets ==
  /\ Quiet \in SignIns /\ Quiet.pc = "idle"
  /\ Unsent \in Calls /\ Unsent.pc = "idle"
  BY DEF Quiet, SignIns, Unsent, Calls

LEMMA TypeInit == Init => TypeInv
  <1> SUFFICES ASSUME Init PROVE TypeInv
    OBVIOUS
  <1>1. SignOK
    BY Quiets DEF Init, SignOK
  <1>2. LedgerOK
    BY RecordsAssumption DEF Init, LedgerOK
  <1>3. ListOK
    BY DEF Init, ListOK
  <1>4. DialogOK
    BY Quiets DEF Init, DialogOK
  <1>5. BoundsOK
    BY BoundsAssumption DEF Init, BoundsOK
  <1>6. VisitOK
    BY Quiets DEF Init, VisitOK, Browsers
  <1>7. QED BY <1>1, <1>2, <1>3, <1>4, <1>5, <1>6 DEF TypeInv

LEMMA ActType ==
  ASSUME BoundsOK, (Act /\ faults' = faults) \/ (Fault /\ acts' = acts) \/ UNCHANGED bounds
  PROVE  BoundsOK'
  BY BoundsAssumption DEF BoundsOK, Act, Fault, bounds

-----------------------------------------------------------------------------
(* Signing in. *)

LEMMA GoesType ==
  ASSUME SignOK, NEW b \in Browsers, sign[b].pc # "idle",
         NEW pc \in {"lookup", "create", "update", "session"}, Goes(b, pc)
  PROVE  /\ sign' \in [Browsers -> SignIns]
         /\ \A c \in Browsers : sign'[c].pc # "idle" => /\ sign'[c].user \in Users
                                                        /\ sign'[c].password \in Passwords
                                                        /\ sign[c].pc # "idle"
  <1> DEFINE r == [sign[b] EXCEPT !.pc = pc]
  <1>1. r \in SignIns /\ r.user = sign[b].user /\ r.password = sign[b].password
    BY DEF SignOK, SignIns
  <1>2. sign' = [sign EXCEPT ![b] = r]
    BY DEF Goes, SignOK
  <1> HIDE DEF r
  <1>3. QED BY <1>1, <1>2 DEF SignOK

LEMMA EndsType ==
  ASSUME SignOK, NEW b \in Browsers, EndsSignIn(b)
  PROVE  /\ sign' \in [Browsers -> SignIns] /\ sign'[b].pc = "idle"
         /\ \A c \in Browsers : sign'[c].pc # "idle" => /\ sign'[c].user \in Users
                                                        /\ sign'[c].password \in Passwords
                                                        /\ sign[c].pc # "idle"
  BY Quiets DEF SignOK, EndsSignIn

SignStep(b) ==
    \/ \E u \in Users, p \in Passwords : AskSignIn(b, u, p)
    \/ Enroll(b) \/ GetUserId(b) \/ CreateUser(b) \/ UpdateUserById(b)
    \/ OpenSession(b) \/ SignInFails(b)

(* What a step of a sign-in keeps: it may bring the visit from the first  *)
(* page to the second, and it touches neither the list nor the dialogs.   *)
SignEffect ==
    /\ SignOK' /\ BoundsOK'
    /\ sign'["here"].pc # "idle" => page' = "sign-in"
    /\ \/ UNCHANGED <<page, session>>
       \/ page # "students" /\ page' # "students"
    /\ UNCHANGED <<ledger, listVars, dialogVars>>

LEMMA SignStepType ==
  ASSUME SignOK, VisitOK, BoundsOK, NEW b \in Browsers, SignStep(b)
  PROVE  SignEffect
  <1>0. /\ "here" \in Browsers /\ sign \in [Browsers -> SignIns]
        /\ sign["here"].pc # "idle" => page = "sign-in"
    BY DEF Browsers, SignOK, VisitOK
  <1>1. ASSUME NEW u \in Users, NEW p \in Passwords, AskSignIn(b, u, p)
        PROVE  SignEffect
    <2> DEFINE r == [pc |-> "enrol", user |-> u, password |-> p]
    <2>1. r \in SignIns /\ r.user = u /\ r.password = p
      BY DEF SignIns
    <2>2. sign' = [sign EXCEPT ![b] = r] /\ (b = "here" => page = "sign-in")
      BY <1>1 DEF AskSignIn
    <2> HIDE DEF r
    <2>3. sign' \in [Browsers -> SignIns]
      BY <1>0, <2>1, <2>2
    <2>4. \A c \in Browsers : sign'[c].pc # "idle" => sign'[c].user \in Users /\ sign'[c].password \in Passwords
      BY <2>1, <2>2 DEF SignOK
    <2>5. SignOK'
      BY <1>1, <2>3, <2>4 DEF AskSignIn, SignOK
    <2>6. BoundsOK'
      BY <1>1, ActType DEF AskSignIn
    <2>7. UNCHANGED <<page, session, ledger, listVars, dialogVars>>
      BY <1>1 DEF AskSignIn
    <2>8. sign'["here"].pc # "idle" => page' = "sign-in"
      BY <1>0, <2>2, <2>7
    <2>9. QED BY <2>5, <2>6, <2>7, <2>8 DEF SignEffect
  <1>2. CASE Enroll(b)
    <2>1. Goes(b, "lookup") \/ EndsSignIn(b)
      BY <1>2 DEF Enroll
    <2>2. sign' \in [Browsers -> SignIns]
          /\ \A c \in Browsers : sign'[c].pc # "idle" => sign'[c].user \in Users
                                    /\ sign'[c].password \in Passwords /\ sign[c].pc # "idle"
      BY <1>2, <2>1, GoesType, EndsType DEF Enroll
    <2>4. SignOK'
      BY <1>2, <2>2 DEF Enroll, SignOK
    <2>5. BoundsOK'
      BY <1>2, ActType DEF Enroll, bounds
    <2>6. sign'["here"].pc # "idle" => page' = "sign-in"
      BY <1>0, <1>2, <2>2 DEF Enroll
    <2>7. UNCHANGED <<page, session, ledger, listVars, dialogVars>>
      BY <1>2 DEF Enroll
    <2>8. QED BY <2>4, <2>5, <2>6, <2>7 DEF SignEffect
  <1>3. CASE GetUserId(b)
    <2>1. Goes(b, "create") \/ Goes(b, "update")
      BY <1>3 DEF GetUserId
    <2>2. sign' \in [Browsers -> SignIns]
          /\ \A c \in Browsers : sign'[c].pc # "idle" => sign'[c].user \in Users
                                    /\ sign'[c].password \in Passwords /\ sign[c].pc # "idle"
      BY <1>3, <2>1, GoesType DEF GetUserId
    <2>4. SignOK'
      BY <1>3, <2>2 DEF GetUserId, SignOK
    <2>5. BoundsOK'
      BY <1>3, ActType DEF GetUserId, bounds
    <2>6. sign'["here"].pc # "idle" => page' = "sign-in"
      BY <1>0, <1>3, <2>2 DEF GetUserId
    <2>7. UNCHANGED <<page, session, ledger, listVars, dialogVars>>
      BY <1>3 DEF GetUserId
    <2>8. QED BY <2>4, <2>5, <2>6, <2>7 DEF SignEffect
  <1>4. CASE CreateUser(b)
    <2>1. Goes(b, "session") \/ EndsSignIn(b)
      BY <1>4 DEF CreateUser
    <2>2. sign' \in [Browsers -> SignIns]
          /\ \A c \in Browsers : sign'[c].pc # "idle" => sign'[c].user \in Users
                                    /\ sign'[c].password \in Passwords /\ sign[c].pc # "idle"
      BY <1>4, <2>1, GoesType, EndsType DEF CreateUser
    <2>3. account' \in [Users -> Passwords \cup {NoAccount}]
      BY <1>4 DEF CreateUser, SignOK
    <2>4. SignOK'
      BY <1>4, <2>2, <2>3 DEF CreateUser, SignOK
    <2>5. BoundsOK'
      BY <1>4, ActType DEF CreateUser, bounds
    <2>6. sign'["here"].pc # "idle" => page' = "sign-in"
      BY <1>0, <1>4, <2>2 DEF CreateUser
    <2>7. UNCHANGED <<page, session, ledger, listVars, dialogVars>>
      BY <1>4 DEF CreateUser
    <2>8. QED BY <2>4, <2>5, <2>6, <2>7 DEF SignEffect
  <1>5. CASE UpdateUserById(b)
    <2>2. sign' \in [Browsers -> SignIns]
          /\ \A c \in Browsers : sign'[c].pc # "idle" => sign'[c].user \in Users
                                    /\ sign'[c].password \in Passwords /\ sign[c].pc # "idle"
      BY <1>5, GoesType DEF UpdateUserById
    <2>4. SignOK'
      BY <1>5, <2>2 DEF UpdateUserById, SignOK, AccountUpdated
    <2>5. BoundsOK'
      BY <1>5, ActType DEF UpdateUserById, bounds
    <2>6. sign'["here"].pc # "idle" => page' = "sign-in"
      BY <1>0, <1>5, <2>2 DEF UpdateUserById
    <2>7. UNCHANGED <<page, session, ledger, listVars, dialogVars>>
      BY <1>5 DEF UpdateUserById
    <2>8. QED BY <2>4, <2>5, <2>6, <2>7 DEF SignEffect
  <1>6. CASE OpenSession(b)
    <2>1. sign' \in [Browsers -> SignIns] /\ sign'[b].pc = "idle"
          /\ \A c \in Browsers : sign'[c].pc # "idle" => sign'[c].user \in Users
                                    /\ sign'[c].password \in Passwords /\ sign[c].pc # "idle"
      BY <1>6, EndsType DEF OpenSession
    <2>2. sign[b].user \in Users /\ (b = "here" => page = "sign-in")
      BY <1>0, <1>6 DEF OpenSession, SignOK
    <2>3. \/ UNCHANGED <<session, page>>
          \/ b = "here" /\ session' = sign[b].user /\ page' = "me"
      BY <1>6 DEF OpenSession
    <2>4. /\ session' \in Users \cup {NoUser}
          /\ page' \in {"sign-in", "me", "students"} /\ (page' = "sign-in" <=> session' = NoUser)
      BY <2>2, <2>3, UsersAssumption DEF SignOK
    <2>5. SignOK'
      BY <1>6, <2>1, <2>4 DEF OpenSession, SignOK
    <2>6. BoundsOK'
      BY <1>6, ActType DEF OpenSession, bounds
    <2>7. sign'["here"].pc # "idle" => page' = "sign-in"
      BY <1>0, <2>1, <2>3
    <2>8. UNCHANGED <<ledger, listVars, dialogVars>>
      BY <1>6 DEF OpenSession
    <2>9. \/ UNCHANGED <<session, page>>
          \/ page = "sign-in" /\ page' = "me"
      BY <2>2, <2>3
    <2>10. QED BY <2>5, <2>6, <2>7, <2>8, <2>9 DEF SignEffect
  <1>7. CASE SignInFails(b)
    <2>2. sign' \in [Browsers -> SignIns]
          /\ \A c \in Browsers : sign'[c].pc # "idle" => sign'[c].user \in Users
                                    /\ sign'[c].password \in Passwords /\ sign[c].pc # "idle"
      <3>1. \/ EndsSignIn(b)
            \/ sign[b].pc # "idle" /\ (Goes(b, "create") \/ Goes(b, "session"))
        BY <1>7 DEF SignInFails
      <3>2. QED BY <3>1, EndsType, GoesType
    <2>4. SignOK'
      BY <1>7, <2>2 DEF SignInFails, SignOK
    <2>5. BoundsOK'
      BY <1>7, ActType DEF SignInFails, bounds
    <2>6. sign'["here"].pc # "idle" => page' = "sign-in"
      BY <1>0, <1>7, <2>2 DEF SignInFails
    <2>7. UNCHANGED <<page, session, ledger, listVars, dialogVars>>
      BY <1>7 DEF SignInFails
    <2>8. QED BY <2>4, <2>5, <2>6, <2>7 DEF SignEffect
  <1>8. QED
    BY <1>1, <1>2, <1>3, <1>4, <1>5, <1>6, <1>7 DEF SignStep

LEMMA SignInSteps ==
  SignIn => \/ \E b \in Browsers : SignStep(b)
            \/ \E u \in Users, p \in Passwords : ChangePassword(u, p)
            \/ SignOut
  BY DEF SignIn, SignStep

LEMMA SignInEffect ==
  ASSUME TypeInv, SignIn
  PROVE  SignEffect
  <1>0. SignOK /\ BoundsOK /\ VisitOK
    BY DEF TypeInv
  <1>1. ASSUME NEW b \in Browsers, SignStep(b) PROVE SignEffect
    BY <1>0, <1>1, SignStepType
  <1>2. ASSUME NEW u \in Users, NEW p \in Passwords, ChangePassword(u, p) PROVE SignEffect
    <2>1. SignOK'
      BY <1>0, <1>2 DEF ChangePassword, SignOK
    <2>2. BoundsOK'
      BY <1>0, <1>2, ActType DEF ChangePassword
    <2>3. UNCHANGED <<sign, page, session, ledger, listVars, dialogVars>>
      BY <1>2 DEF ChangePassword
    <2>4. QED BY <1>0, <2>1, <2>2, <2>3 DEF SignEffect, VisitOK
  <1>3. CASE SignOut
    <2>1. SignOK'
      BY <1>0, <1>3 DEF SignOut, SignOK
    <2>2. BoundsOK'
      BY <1>0, <1>3, ActType DEF SignOut
    <2>3. page = "me" /\ page' = "sign-in" /\ UNCHANGED <<ledger, listVars, dialogVars>>
      BY <1>3 DEF SignOut
    <2>4. QED BY <2>1, <2>2, <2>3 DEF SignEffect
  <1>4. QED BY <1>1, <1>2, <1>3, SignInSteps

LEMMA SignInType ==
  ASSUME TypeInv, SignIn
  PROVE  TypeInv'
  <1>1. SignEffect
    BY SignInEffect
  <1>2. LedgerOK' /\ ListOK' /\ DialogOK'
    BY <1>1 DEF SignEffect, TypeInv, LedgerOK, ListOK, DialogOK, listVars, dialogVars
  <1>3. VisitOK'
    BY <1>1 DEF SignEffect, TypeInv, VisitOK, listVars, dialogVars
  <1>4. QED BY <1>1, <1>2, <1>3 DEF SignEffect, TypeInv

-----------------------------------------------------------------------------
(* Pages of the list. *)

LEMMA LeastKey ==
  ASSUME NEW S \in SUBSET Nat, S # {}
  PROVE  \E i \in S : \A j \in S : i <= j
  <1>1. IsWellFoundedOn(OpToRel(<, Nat), Nat)
    BY NatLessThanWellFounded
  <1>2. PICK i \in S : \A j \in S : ~(<<j, i>> \in OpToRel(<, Nat))
    BY <1>1, WFMin, Zenon
  <1>3. \A j \in S : ~(j < i)
    BY <1>2 DEF OpToRel
  <1>4. QED BY <1>3

(* A page has every key from its mark to its bookmark, and all of them when *)
(* there is no bookmark.                                                    *)
LEMMA PageIsFull ==
  ASSUME NEW mark \in IDs \cup {0}
  PROVE  /\ BookmarkAfter(mark) \in IDs \cup {0}
         /\ \A i \in Registered : /\ i >= mark
                                  /\ BookmarkAfter(mark) = 0 \/ i < BookmarkAfter(mark)
                                  => i \in PageFrom(mark)
  <1> DEFINE rest == KeysFrom(mark) \ PageFrom(mark)
  <1>1. rest \in SUBSET Nat /\ rest \subseteq IDs
    BY Numbers DEF KeysFrom, Registered
  <1>2. CASE rest = {}
    BY <1>2 DEF BookmarkAfter, KeysFrom
  <1>3. CASE rest # {}
    <2>1. \E i \in rest : \A j \in rest : i <= j
      BY <1>1, <1>3, LeastKey
    <2>2. BookmarkAfter(mark) = CHOOSE i \in rest : \A j \in rest : i <= j
      BY <1>3 DEF BookmarkAfter
    <2> HIDE DEF rest
    <2>3. BookmarkAfter(mark) \in rest /\ \A j \in rest : BookmarkAfter(mark) <= j
      BY <2>1, <2>2
    <2>4. \A i \in Registered : i >= mark /\ i \notin PageFrom(mark) => BookmarkAfter(mark) <= i
      BY <2>3 DEF rest, KeysFrom
    <2>5. BookmarkAfter(mark) \in Nat \ {0} /\ Registered \subseteq Nat
      BY <1>1, <2>3, Numbers DEF Registered
    <2>6. QED BY <1>1, <2>3, <2>4, <2>5
  <1>4. QED BY <1>2, <1>3

LEMMA QueryType ==
  ASSUME NEW mark \in IDs \cup {0}
  PROVE  QueryAllStudents(mark) \in Answers
  BY PageIsFull DEF QueryAllStudents, Answers, PageFrom, KeysFrom, Registered

LEMMA AskType ==
  ASSUME NEW mark \in IDs \cup {0}
  PROVE  /\ Ask(mark) \in Requests /\ Ask(mark) # NoPage
         /\ Ask(mark).done = FALSE /\ Ask(mark).page.mark = mark /\ Ask(mark).page.late = FALSE
  <1>1. Sent(mark) \in Answers
    BY DEF Sent, Answers
  <1>2. Ask(mark) \in Requests
    BY <1>1 DEF Ask, Requests
  <1>3. QED BY <1>2, RecordsAssumption DEF Ask, Sent

LEMMA OutdatedType ==
  ASSUME NEW p \in Answers \cup {NoPage}
  PROVE  /\ Outdated(p) \in Answers \cup {NoPage}
         /\ Outdated(p) = NoPage <=> p = NoPage
         /\ p # NoPage => /\ Outdated(p).mark = p.mark /\ Outdated(p).items = p.items
                          /\ Outdated(p).next = p.next /\ Outdated(p).all = p.all
                          /\ Outdated(p).late = TRUE
  BY RecordsAssumption DEF Outdated, Answers

LEMMA ListType ==
  ASSUME TypeInv, List
  PROVE  TypeInv' /\ UNCHANGED <<ca, account, sign, session, ledger, dialogVars>>
  <1>0. SignOK /\ LedgerOK /\ ListOK /\ DialogOK /\ BoundsOK /\ VisitOK
    BY DEF TypeInv
  <1>1. CASE OpenStudents
    <2>1. /\ page = "me" /\ page' = "students" /\ asked' = Ask(bookmark)
          /\ UNCHANGED <<ca, account, sign, session, ledger, bookmark, shown, present, seen, dialogVars, bounds>>
      BY <1>1 DEF OpenStudents
    <2>2. SignOK' /\ LedgerOK'
      BY <1>0, <2>1 DEF SignOK, LedgerOK
    <2>3. ListOK'
      BY <1>0, <2>1, AskType DEF ListOK
    <2>4. DialogOK' /\ BoundsOK'
      BY <1>0, <2>1 DEF DialogOK, BoundsOK, dialogVars, bounds
    <2>5. sign'["here"].pc = "idle"
      BY <1>0, <2>1 DEF VisitOK
    <2>6. VisitOK'
      BY <2>1, <2>5 DEF VisitOK
    <2>7. QED BY <2>1, <2>2, <2>3, <2>4, <2>6 DEF TypeInv
  <1>2. CASE ReadStudents
    <2>1. /\ asked # NoPage /\ asked' = [done |-> TRUE, page |-> QueryAllStudents(asked.page.mark)]
          /\ UNCHANGED <<signVars, ledger, bookmark, shown, present, seen, dialogVars, bounds>>
      BY <1>2 DEF ReadStudents
    <2>2. UNCHANGED <<ca, account, sign, session, page>> /\ page = "students"
      BY <1>0, <2>1 DEF signVars, SignOK, VisitOK
    <2>3. asked.page.mark \in IDs \cup {0}
      BY <1>0, <2>1 DEF ListOK, Requests, Answers
    <2>4. asked' \in Requests
      BY <2>1, <2>3, QueryType DEF Requests
    <2>5. ListOK'
      BY <1>0, <2>1, <2>4 DEF ListOK
    <2>6. SignOK' /\ LedgerOK' /\ DialogOK' /\ BoundsOK'
      BY <1>0, <2>1, <2>2 DEF SignOK, LedgerOK, DialogOK, BoundsOK, dialogVars, bounds
    <2>7. VisitOK'
      BY <1>0, <2>1, <2>2 DEF VisitOK
    <2>8. QED BY <2>1, <2>2, <2>5, <2>6, <2>7 DEF TypeInv
  <1>3. CASE ShowStudents
    <2>1. /\ asked # NoPage /\ asked' = NoPage /\ shown' = asked.page
          /\ UNCHANGED <<signVars, ledger, bookmark, dialogVars, bounds>>
      BY <1>3 DEF ShowStudents
    <2>2. UNCHANGED <<ca, account, sign, session, page>> /\ page = "students"
      BY <1>0, <2>1 DEF signVars, SignOK, VisitOK
    <2>3. asked.page \in Answers /\ asked.page.items \subseteq IDs /\ asked.page.all \subseteq IDs
      BY <1>0, <2>1 DEF ListOK, Requests, Answers
    <2>4. present' \subseteq IDs /\ seen' \subseteq IDs
      BY <1>0, <1>3, <2>3 DEF ShowStudents, ListOK
    <2>5. ListOK'
      BY <1>0, <2>1, <2>3, <2>4 DEF ListOK
    <2>6. SignOK' /\ LedgerOK' /\ DialogOK' /\ BoundsOK'
      BY <1>0, <2>1, <2>2 DEF SignOK, LedgerOK, DialogOK, BoundsOK, dialogVars, bounds
    <2>7. VisitOK'
      BY <1>0, <2>1, <2>2 DEF VisitOK
    <2>8. QED BY <2>1, <2>2, <2>5, <2>6, <2>7 DEF TypeInv
  <1>4. CASE ListFails
    <2>1. /\ asked # NoPage /\ asked' = NoPage /\ shown' = NoPage
          /\ UNCHANGED <<signVars, ledger, bookmark, present, seen, dialogVars>>
      BY <1>4 DEF ListFails
    <2>2. UNCHANGED <<ca, account, sign, session, page>> /\ page = "students"
      BY <1>0, <2>1 DEF signVars, SignOK, VisitOK
    <2>3. BoundsOK'
      BY <1>0, <1>4, ActType DEF ListFails
    <2>4. ListOK'
      BY <1>0, <2>1 DEF ListOK
    <2>5. SignOK' /\ LedgerOK' /\ DialogOK'
      BY <1>0, <2>1, <2>2 DEF SignOK, LedgerOK, DialogOK, dialogVars
    <2>6. VisitOK'
      BY <1>0, <2>1, <2>2 DEF VisitOK
    <2>7. QED BY <2>1, <2>2, <2>3, <2>4, <2>5, <2>6 DEF TypeInv
  <1>5. CASE NextPage
    <2>1. /\ page = "students" /\ bookmark' = Bookmark
          /\ asked' = IF Bookmark = bookmark THEN asked ELSE Ask(Bookmark)
          /\ UNCHANGED <<signVars, ledger, shown, present, seen, dialogVars>>
      BY <1>5 DEF NextPage
    <2>2. UNCHANGED <<ca, account, sign, session, page>>
      BY <2>1 DEF signVars
    <2>3. BoundsOK'
      BY <1>0, <1>5, ActType DEF NextPage
    <2>4. Bookmark \in IDs \cup {0}
      BY <1>0 DEF Bookmark, ListOK, Answers
    <2>5. ListOK'
      BY <1>0, <2>1, <2>4, AskType DEF ListOK
    <2>6. SignOK' /\ LedgerOK' /\ DialogOK'
      BY <1>0, <2>1, <2>2 DEF SignOK, LedgerOK, DialogOK, dialogVars
    <2>7. VisitOK'
      BY <1>0, <2>1, <2>2 DEF VisitOK
    <2>8. QED BY <2>1, <2>2, <2>3, <2>5, <2>6, <2>7 DEF TypeInv
  <1>6. QED BY <1>1, <1>2, <1>3, <1>4, <1>5 DEF List

-----------------------------------------------------------------------------
(* The dialogs. *)

LEMMA SignFrame ==
  ASSUME TypeInv, UNCHANGED signVars
  PROVE  SignOK' /\ page' = page /\ session' = session /\ sign' = sign
  BY DEF TypeInv, SignOK, signVars

LEMMA StudentsPage ==
  ASSUME TypeInv, NEW d \in Dialogs, open[d] \/ op[d] # Unsent
  PROVE  page = "students"
  BY DEF TypeInv, VisitOK

(* An answer of either kind leaves the dialog unsent, and the list as it was *)
(* or asked for again.                                                       *)
LEMMA AnsweredType ==
  ASSUME TypeInv, NEW d \in Dialogs, NEW ok \in BOOLEAN, op[d] # Unsent, Answered(d, ok)
  PROVE  /\ SignOK' /\ VisitOK' /\ page' = page /\ session' = session
         /\ op' = [op EXCEPT ![d] = Unsent] /\ op' \in [Dialogs -> Calls]
         /\ \A e \in Dialogs : op'[e].pc # "idle" => op'[e] = op[e]
         /\ open' \in [Dialogs -> BOOLEAN] /\ data' \in [Dialogs -> BOOLEAN]
         /\ asked' \in Requests \cup {NoPage}
         /\ \/ asked' = Ask(bookmark)
            \/ asked' = asked /\ ~ok
         /\ UNCHANGED <<bookmark, present, seen, chosen>>
  <1>0. SignOK /\ ListOK /\ DialogOK /\ VisitOK
    BY DEF TypeInv
  <1>1. /\ op' = [op EXCEPT ![d] = Unsent] /\ UNCHANGED <<signVars, bookmark, present, seen, chosen>>
        /\ data' = [data EXCEPT ![d] = ok]
        /\ open' = [open EXCEPT ![d] = @ /\ ~(ok \/ data[d])]
        /\ asked' = AfterAnswer(ok \/ data[d])
    BY DEF Answered
  <1>2. SignOK' /\ page' = page /\ session' = session /\ sign' = sign
    BY <1>1, SignFrame
  <1>3. op' \in [Dialogs -> Calls] /\ \A e \in Dialogs : op'[e].pc # "idle" => op'[e] = op[e]
    BY <1>0, <1>1, Quiets DEF DialogOK
  <1>4. data' \in [Dialogs -> BOOLEAN] /\ open' \in [Dialogs -> BOOLEAN]
    BY <1>0, <1>1 DEF DialogOK
  <1>5. \/ asked' = Ask(bookmark)
        \/ asked' = asked /\ ~ok
    <2>1. CASE ok \/ data[d]
      BY <1>1, <2>1 DEF AfterAnswer
    <2>2. CASE ~(ok \/ data[d])
      BY <1>1, <2>2 DEF AfterAnswer
    <2>3. QED BY <2>1, <2>2
  <1>6. asked' \in Requests \cup {NoPage}
    BY <1>0, <1>5, AskType DEF ListOK
  <1>7. page = "students"
    BY StudentsPage
  <1>8. VisitOK'
    BY <1>0, <1>2, <1>7 DEF VisitOK
  <1>9. QED BY <1>1, <1>2, <1>3, <1>4, <1>5, <1>6, <1>8

LEMMA SendType ==
  ASSUME TypeInv, NEW d \in Dialogs, NEW i \in IDs, NEW n \in Names, NEW s \in Schools \cup {""},
         Send(d, i, n, s)
  PROVE  /\ TypeInv' /\ UNCHANGED <<signVars, ledger, listVars, unheard>>
         /\ op[d] = Unsent /\ page = "students"
         /\ \A e \in Dialogs : op'[e] = op[e] \/ op'[e].pc = "evaluate"
  <1>0. SignOK /\ LedgerOK /\ ListOK /\ DialogOK /\ BoundsOK /\ VisitOK
    BY DEF TypeInv
  <1> DEFINE r == [pc |-> "evaluate", id |-> i, name |-> n, school |-> s]
  <1>1. r \in Calls /\ r.id \in IDs /\ r.name \in Names /\ r.pc = "evaluate"
    BY DEF Calls
  <1>2. /\ op' = [op EXCEPT ![d] = r] /\ open[d] /\ op[d] = Unsent
        /\ UNCHANGED <<signVars, ledger, listVars, open, chosen, data, unheard, faults>>
    BY DEF Send
  <1> HIDE DEF r
  <1>3. DialogOK'
    BY <1>0, <1>1, <1>2 DEF DialogOK
  <1>4. SignOK' /\ page' = page /\ session' = session /\ sign' = sign
    BY <1>2, SignFrame
  <1>5. BoundsOK'
    BY <1>0, ActType DEF Send
  <1>6. LedgerOK' /\ ListOK'
    BY <1>0, <1>2 DEF LedgerOK, ListOK, listVars
  <1>7. page = "students"
    BY <1>2, StudentsPage
  <1>8. VisitOK'
    BY <1>0, <1>4, <1>7 DEF VisitOK
  <1>9. \A e \in Dialogs : op'[e] = op[e] \/ op'[e].pc = "evaluate"
    BY <1>0, <1>1, <1>2 DEF DialogOK
  <1>10. TypeInv'
    BY <1>3, <1>4, <1>5, <1>6, <1>8 DEF TypeInv
  <1>11. QED BY <1>2, <1>7, <1>9, <1>10

LEMMA EvaluateType ==
  ASSUME TypeInv, NEW d \in Dialogs, Evaluate(d)
  PROVE  /\ TypeInv' /\ UNCHANGED <<signVars, ledger, listVars, unheard>>
         /\ op[d].pc = "evaluate" /\ Evaluates(d) /\ op'[d].pc = "submit"
         /\ \A e \in Dialogs : e # d => op'[e] = op[e]
  <1>0. SignOK /\ LedgerOK /\ ListOK /\ DialogOK /\ BoundsOK /\ VisitOK
    BY DEF TypeInv
  <1> DEFINE r == [op[d] EXCEPT !.pc = "submit"]
  <1>1. r \in Calls /\ r.pc = "submit" /\ r.id = op[d].id /\ r.name = op[d].name
    BY <1>0 DEF DialogOK, Calls
  <1>2. /\ op' = [op EXCEPT ![d] = r] /\ op[d].pc = "evaluate" /\ Evaluates(d)
        /\ UNCHANGED <<signVars, ledger, listVars, open, chosen, data, unheard, bounds>>
    BY <1>0 DEF Evaluate, DialogOK
  <1> HIDE DEF r
  <1>3. DialogOK'
    BY <1>0, <1>1, <1>2 DEF DialogOK
  <1>4. SignOK' /\ page' = page /\ session' = session /\ sign' = sign
    BY <1>2, SignFrame
  <1>5. LedgerOK' /\ ListOK' /\ BoundsOK'
    BY <1>0, <1>2 DEF LedgerOK, ListOK, BoundsOK, listVars, bounds
  <1>6. op[d] # Unsent
    BY <1>2, Quiets
  <1>7. VisitOK'
    BY <1>0, <1>4, <1>6, StudentsPage DEF VisitOK
  <1>8. op'[d].pc = "submit" /\ \A e \in Dialogs : e # d => op'[e] = op[e]
    BY <1>0, <1>1, <1>2 DEF DialogOK
  <1>9. TypeInv'
    BY <1>3, <1>4, <1>5, <1>7 DEF TypeInv
  <1>10. QED BY <1>2, <1>8, <1>9

LEMMA NewStudent ==
  ASSUME NEW n \in Names, NEW s \in Schools
  PROVE  [name |-> n, school |-> s] \in Student /\ [name |-> n, school |-> s].school = s
  BY DEF Student

(* What a commit writes: a student of the school on the ledger, if there is *)
(* one, and otherwise of the manager's own.                                 *)
LEMMA WrittenType ==
  ASSUME TypeInv, NEW d \in Dialogs, op[d].pc = "submit", Submits(d)
  PROVE  /\ op[d].id \in IDs /\ Written(d) \in Student
         /\ ledger[op[d].id] # NoStudent => Written(d).school = ledger[op[d].id].school
         /\ ledger[op[d].id] = NoStudent /\ session \notin Bureau => Written(d).school = SchoolOf[session]
  <1>1. op[d] \in Calls /\ op[d].id \in IDs /\ op[d].name \in Names /\ op[d].school \in Schools \cup {""}
    BY DEF TypeInv, DialogOK, Calls
  <1>2. page = "students" /\ session \in Users
    BY StudentsPage, Quiets DEF TypeInv, SignOK
  <1>3. ledger[op[d].id] \in Student \cup {NoStudent}
    BY <1>1 DEF TypeInv, LedgerOK
  <1>4. CASE d = "update"
    <2>1. ledger[op[d].id] \in Student
      BY <1>3, <1>4 DEF Submits, UpdateAllowed
    <2>2. Written(d) = [name |-> op[d].name, school |-> ledger[op[d].id].school]
      BY <1>4 DEF Written
    <2>3. Written(d) \in Student /\ Written(d).school = ledger[op[d].id].school
      <3>1. ledger[op[d].id].school \in Schools
        BY <2>1 DEF Student
      <3> DEFINE n == op[d].name
                 s == ledger[op[d].id].school
      <3>2. n \in Names /\ s \in Schools /\ Written(d) = [name |-> n, school |-> s]
        BY <1>1, <2>2, <3>1
      <3> HIDE DEF n, s
      <3>3. Written(d) \in Student /\ Written(d).school = s
        BY <3>2, NewStudent
      <3>4. QED BY <3>3 DEF s
    <2>4. ledger[op[d].id] # NoStudent
      BY <2>1, RecordsAssumption
    <2>5. QED BY <1>1, <2>3, <2>4
  <1>5. CASE d # "update"
    <2>1. d = "create" /\ CreateAllowed(op[d].id, op[d].school)
      BY <1>5 DEF Dialogs, Submits
    <2>2. ledger[op[d].id] = NoStudent /\ (session \in Bureau => op[d].school \in Schools)
      BY <1>1, <2>1 DEF CreateAllowed
    <2>3. Written(d) = [name |-> op[d].name,
                        school |-> IF session \in Bureau THEN op[d].school ELSE SchoolOf[session]]
      BY <1>5 DEF Written
    <2>4. CASE session \in Bureau
      <3>1. Written(d) \in Student
        BY <1>1, <2>2, <2>3, <2>4, NewStudent
      <3>2. QED BY <1>1, <2>2, <2>4, <3>1
    <2>5. CASE session \notin Bureau
      <3>1. SchoolOf[session] \in Schools
        BY <1>2, <2>5, UsersAssumption
      <3>2. Written(d) = [name |-> op[d].name, school |-> SchoolOf[session]]
        BY <2>3, <2>5
      <3>3. Written(d) \in Student /\ Written(d).school = SchoolOf[session]
        BY <1>1, <3>1, <3>2, NewStudent
      <3>4. QED BY <1>1, <2>2, <3>3
    <2>6. QED BY <2>4, <2>5
  <1>6. QED BY <1>4, <1>5

LEMMA SubmitType ==
  ASSUME TypeInv, NEW d \in Dialogs, Submit(d)
  PROVE  /\ TypeInv' /\ UNCHANGED <<signVars, bookmark, present, seen, unheard>>
         /\ ledger' = [ledger EXCEPT ![op[d].id] = Written(d)]
         /\ op[d].pc = "submit" /\ Submits(d) /\ op[d].id \in IDs
         /\ op'[d].pc = "committed" /\ \A e \in Dialogs : e # d => op'[e] = op[e]
         /\ shown' = Outdated(shown)
         /\ asked' = IF asked # NoPage /\ asked.done
                     THEN [asked EXCEPT !.page = Outdated(asked.page)] ELSE asked
  <1>0. SignOK /\ LedgerOK /\ ListOK /\ DialogOK /\ BoundsOK /\ VisitOK
    BY DEF TypeInv
  <1> DEFINE r == [op[d] EXCEPT !.pc = "committed"]
  <1>1. r \in Calls /\ r.pc = "committed" /\ r.id = op[d].id /\ r.name = op[d].name
    BY <1>0 DEF DialogOK, Calls
  <1>2. /\ op' = [op EXCEPT ![d] = r] /\ op[d].pc = "submit" /\ Submits(d)
        /\ ledger' = [ledger EXCEPT ![op[d].id] = Written(d)]
        /\ shown' = Outdated(shown)
        /\ UNCHANGED <<signVars, bookmark, present, seen, open, chosen, data, unheard, bounds>>
    BY <1>0 DEF Submit, DialogOK
  <1>3. asked' = IF asked # NoPage /\ asked.done
                 THEN [asked EXCEPT !.page = Outdated(asked.page)] ELSE asked
    BY DEF Submit
  <1> HIDE DEF r
  <1>4. DialogOK'
    BY <1>0, <1>1, <1>2 DEF DialogOK
  <1>5. SignOK' /\ page' = page /\ session' = session /\ sign' = sign
    BY <1>2, SignFrame
  <1>6. op[d].id \in IDs /\ Written(d) \in Student
    BY <1>2, WrittenType
  <1>7. LedgerOK'
    BY <1>0, <1>2, <1>6 DEF LedgerOK
  <1>8. shown' \in Answers \cup {NoPage}
    BY <1>0, <1>2, OutdatedType DEF ListOK
  <1>9. asked' \in Requests \cup {NoPage}
    <2>1. CASE asked # NoPage /\ asked.done
      <3>1. asked \in Requests /\ asked.page \in Answers
        BY <1>0, <2>1 DEF ListOK, Requests
      <3>2. Outdated(asked.page) \in Answers
        BY <3>1, OutdatedType, RecordsAssumption
      <3>3. QED BY <1>3, <2>1, <3>1, <3>2 DEF Requests
    <2>2. CASE ~(asked # NoPage /\ asked.done)
      BY <1>0, <1>3, <2>2 DEF ListOK
    <2>3. QED BY <2>1, <2>2
  <1>10. ListOK'
    BY <1>0, <1>2, <1>8, <1>9 DEF ListOK
  <1>11. BoundsOK'
    BY <1>0, <1>2 DEF BoundsOK, bounds
  <1>12. op[d] # Unsent
    BY <1>2, Quiets
  <1>13. VisitOK'
    BY <1>0, <1>5, <1>12, StudentsPage DEF VisitOK
  <1>14. op'[d].pc = "committed" /\ \A e \in Dialogs : e # d => op'[e] = op[e]
    BY <1>0, <1>1, <1>2 DEF DialogOK
  <1>15. TypeInv'
    BY <1>4, <1>5, <1>7, <1>10, <1>11, <1>13 DEF TypeInv
  <1>16. QED BY <1>2, <1>3, <1>6, <1>14, <1>15

(* The three ways in which a request of a dialog ends. *)
Ends(d) == Refuse(d) \/ Succeed(d) \/ CallFails(d)

LEMMA EndsOneOf ==
  ASSUME TypeInv, NEW d \in Dialogs, Ends(d)
  PROVE  /\ op[d] # Unsent /\ ledger' = ledger /\ shown' = shown /\ unheard' \in BOOLEAN
         /\ BoundsOK'
         /\ \/ Answered(d, TRUE) /\ unheard' = unheard
            \/ Answered(d, FALSE) /\ unheard' = (unheard \/ op[d].pc = "committed")
  <1>0. BoundsOK /\ unheard \in BOOLEAN
    BY DEF TypeInv, DialogOK
  <1>1. CASE Refuse(d)
    <2>1. /\ op[d].pc \in {"evaluate", "submit"} /\ Answered(d, FALSE)
          /\ UNCHANGED <<ledger, shown, unheard, bounds>>
      BY <1>1 DEF Refuse
    <2>2. op[d] # Unsent /\ op[d].pc # "committed"
      BY <2>1, Quiets
    <2>3. BoundsOK'
      BY <1>0, <2>1, ActType
    <2>4. unheard' = (unheard \/ op[d].pc = "committed")
      BY <1>0, <2>1, <2>2
    <2>5. QED BY <1>0, <2>1, <2>2, <2>3, <2>4
  <1>2. CASE Succeed(d)
    <2>1. op[d].pc = "committed" /\ Answered(d, TRUE) /\ UNCHANGED <<ledger, shown, unheard, bounds>>
      BY <1>2 DEF Succeed
    <2>2. op[d] # Unsent
      BY <2>1, Quiets
    <2>3. BoundsOK'
      BY <1>0, <2>1, ActType
    <2>4. QED BY <1>0, <2>1, <2>2, <2>3
  <1>3. CASE CallFails(d)
    <2>1. /\ op[d] # Unsent /\ Answered(d, FALSE) /\ unheard' = (unheard \/ op[d].pc = "committed")
          /\ UNCHANGED <<ledger, shown>>
      BY <1>3 DEF CallFails
    <2>2. BoundsOK'
      BY <1>0, <1>3, ActType DEF CallFails
    <2>3. unheard' \in BOOLEAN
      BY <1>0, <2>1
    <2>4. QED BY <2>1, <2>2, <2>3
  <1>4. QED BY <1>1, <1>2, <1>3 DEF Ends

LEMMA EndsDialogType ==
  ASSUME TypeInv, NEW d \in Dialogs, Ends(d)
  PROVE  /\ TypeInv' /\ UNCHANGED <<session, page, ledger, shown, bookmark, present, seen>>
         /\ op' = [op EXCEPT ![d] = Unsent]
         /\ \A e \in Dialogs : op'[e].pc # "idle" => op'[e] = op[e]
         /\ \/ asked' = Ask(bookmark) /\ unheard' = unheard
            \/ asked' = Ask(bookmark) /\ unheard' = (unheard \/ op[d].pc = "committed")
            \/ asked' = asked /\ unheard' = (unheard \/ op[d].pc = "committed")
  <1>1. /\ op[d] # Unsent /\ ledger' = ledger /\ shown' = shown /\ unheard' \in BOOLEAN
        /\ BoundsOK'
        /\ \/ Answered(d, TRUE) /\ unheard' = unheard
           \/ Answered(d, FALSE) /\ unheard' = (unheard \/ op[d].pc = "committed")
    BY EndsOneOf
  <1>2. PICK ok \in BOOLEAN :
          /\ Answered(d, ok)
          /\ ok => unheard' = unheard
          /\ ~ok => unheard' = (unheard \/ op[d].pc = "committed")
    BY <1>1
  <1>3. /\ SignOK' /\ VisitOK' /\ page' = page /\ session' = session
        /\ op' = [op EXCEPT ![d] = Unsent] /\ op' \in [Dialogs -> Calls]
        /\ \A e \in Dialogs : op'[e].pc # "idle" => op'[e] = op[e]
        /\ open' \in [Dialogs -> BOOLEAN] /\ data' \in [Dialogs -> BOOLEAN]
        /\ asked' \in Requests \cup {NoPage}
        /\ \/ asked' = Ask(bookmark)
           \/ asked' = asked /\ ~ok
        /\ UNCHANGED <<bookmark, present, seen, chosen>>
    BY <1>1, <1>2, AnsweredType
  <1>4. DialogOK'
    BY <1>1, <1>3 DEF TypeInv, DialogOK
  <1>5. LedgerOK' /\ ListOK'
    BY <1>1, <1>3 DEF TypeInv, LedgerOK, ListOK
  <1>6. TypeInv'
    BY <1>1, <1>3, <1>4, <1>5 DEF TypeInv
  <1>7. QED BY <1>1, <1>2, <1>3, <1>6

Button ==
    \/ \E i \in IDs : OpenUpdate(i)
    \/ ToggleCreate
    \/ \E d \in Dialogs : Close(d)

LEMMA DialogSteps ==
  ASSUME TypeInv, Dialog
  PROVE  \/ Button
         \/ \E d \in Dialogs, i \in IDs, n \in Names, s \in Schools \cup {""} : Send(d, i, n, s)
         \/ \E d \in Dialogs : Evaluate(d)
         \/ \E d \in Dialogs : Submit(d)
         \/ \E d \in Dialogs : Ends(d)
         \/ \E i \in IDs, st \in Student : OthersWrite(i, st)
  <1>1. "create" \in Dialogs /\ "update" \in Dialogs
    BY DEF Dialogs
  <1>2. ASSUME NEW i \in IDs, NEW n \in Names, NEW s \in Schools, SendCreate(i, n, s)
        PROVE  \E d \in Dialogs, j \in IDs, m \in Names, z \in Schools \cup {""} : Send(d, j, m, z)
    BY <1>1, <1>2 DEF SendCreate
  <1>3. ASSUME NEW n \in Names, SendUpdate(n)
        PROVE  \E d \in Dialogs, j \in IDs, m \in Names, z \in Schools \cup {""} : Send(d, j, m, z)
    <2>1. chosen \in IDs /\ Send("update", chosen, n, "")
      BY <1>3 DEF SendUpdate, TypeInv, DialogOK
    <2>2. QED BY <1>1, <2>1
  <1>4. QED BY <1>2, <1>3 DEF Dialog, Button, Ends

LEMMA ButtonType ==
  ASSUME TypeInv, Button
  PROVE  TypeInv' /\ UNCHANGED <<signVars, ledger, listVars, op, unheard>>
  <1>0. SignOK /\ LedgerOK /\ ListOK /\ DialogOK /\ BoundsOK /\ VisitOK
    BY DEF TypeInv
  <1>1. UNCHANGED <<signVars, ledger, listVars, op, unheard>>
    BY DEF Button, OpenUpdate, ToggleCreate, Close
  <1>2. BoundsOK'
    <2>1. (Act /\ faults' = faults) \/ UNCHANGED bounds
      BY DEF Button, OpenUpdate, ToggleCreate, Close
    <2>2. QED BY <1>0, <2>1, ActType
  <1>3. SignOK' /\ page' = page /\ session' = session /\ sign' = sign
    BY <1>1, SignFrame
  <1>4. /\ open' \in [Dialogs -> BOOLEAN] /\ data' = data /\ chosen' \in IDs \cup {0}
        /\ page = "students"
    <2>1. ASSUME NEW i \in IDs, OpenUpdate(i)
          PROVE  /\ open' \in [Dialogs -> BOOLEAN] /\ data' = data /\ chosen' \in IDs \cup {0}
                 /\ page = "students"
      BY <1>0, <2>1 DEF OpenUpdate, DialogOK, VisitOK
    <2>2. ASSUME ToggleCreate
          PROVE  /\ open' \in [Dialogs -> BOOLEAN] /\ data' = data /\ chosen' \in IDs \cup {0}
                 /\ page = "students"
      BY <1>0, <2>2 DEF ToggleCreate, DialogOK
    <2>3. ASSUME NEW d \in Dialogs, Close(d)
          PROVE  /\ open' \in [Dialogs -> BOOLEAN] /\ data' = data /\ chosen' \in IDs \cup {0}
                 /\ page = "students"
      BY <1>0, <2>3, StudentsPage DEF Close, DialogOK
    <2>4. QED BY <2>1, <2>2, <2>3 DEF Button
  <1>5. DialogOK'
    BY <1>0, <1>1, <1>4 DEF DialogOK
  <1>6. LedgerOK' /\ ListOK'
    BY <1>0, <1>1 DEF LedgerOK, ListOK, listVars
  <1>7. VisitOK'
    BY <1>0, <1>3, <1>4 DEF VisitOK
  <1>8. QED BY <1>1, <1>2, <1>3, <1>5, <1>6, <1>7 DEF TypeInv

LEMMA OthersType ==
  ASSUME TypeInv, NEW i \in IDs, NEW st \in Student, OthersWrite(i, st)
  PROVE  /\ TypeInv' /\ UNCHANGED <<signVars, listVars, dialogVars>>
         /\ ledger' = [ledger EXCEPT ![i] = st]
         /\ ledger[i] # NoStudent => st.school = ledger[i].school
  <1>0. SignOK /\ LedgerOK /\ ListOK /\ DialogOK /\ BoundsOK /\ VisitOK
    BY DEF TypeInv
  <1>1. /\ UNCHANGED <<signVars, listVars, dialogVars>>
        /\ ledger' = [ledger EXCEPT ![i] = st]
        /\ ledger[i] # NoStudent => st.school = ledger[i].school
    BY DEF OthersWrite
  <1>2. SignOK' /\ page' = page /\ session' = session /\ sign' = sign
    BY <1>1, SignFrame
  <1>3. LedgerOK'
    BY <1>0, <1>1 DEF LedgerOK
  <1>4. ListOK' /\ DialogOK'
    BY <1>0, <1>1 DEF ListOK, DialogOK, listVars, dialogVars
  <1>5. VisitOK'
    BY <1>0, <1>1, <1>2 DEF VisitOK, listVars, dialogVars
  <1>6. BoundsOK'
    BY <1>0, ActType DEF OthersWrite
  <1>7. QED BY <1>1, <1>2, <1>3, <1>4, <1>5, <1>6 DEF TypeInv

LEMMA TypeStep == TypeInv /\ [Next]_vars => TypeInv'
  <1> SUFFICES ASSUME TypeInv, [Next]_vars PROVE TypeInv'
    OBVIOUS
  <1>1. CASE SignIn
    BY <1>1, SignInType
  <1>2. CASE List
    BY <1>2, ListType
  <1>3. CASE Dialog
    BY <1>3, DialogSteps, ButtonType, SendType, EvaluateType, SubmitType, EndsDialogType, OthersType
  <1>4. CASE UNCHANGED vars
    BY <1>4 DEF vars, signVars, listVars, dialogVars, bounds, TypeInv,
                SignOK, LedgerOK, ListOK, DialogOK, BoundsOK, VisitOK
  <1>5. QED BY <1>1, <1>2, <1>3, <1>4 DEF Next

LEMMA TypeHolds == Spec => []TypeInv
  BY TypeInit, TypeStep, PTL DEF Spec

(* Every variable keeps its type; among others only somebody who is signed *)
(* in is ever past the first page.                                         *)
THEOREM TypeCorrect == Spec => []TypeOK
  BY TypeHolds, TypeInvTypes, PTL

-----------------------------------------------------------------------------
(* Schools and the bureau. *)

(* The dialogs and others alike leave a student's school as it is. *)
LEMMA LedgerStep ==
  ASSUME TypeInv, [Next]_vars
  PROVE  \/ ledger' = ledger
         \/ \E d \in Dialogs : Submit(d)
         \/ \E i \in IDs, st \in Student : OthersWrite(i, st)
  <1>1. CASE SignIn
    BY <1>1, SignInEffect DEF SignEffect
  <1>2. CASE List
    BY <1>2, ListType
  <1>3. CASE Dialog
    <2>1. CASE Button
      BY <2>1, ButtonType
    <2>2. ASSUME NEW d \in Dialogs, NEW i \in IDs, NEW n \in Names, NEW s \in Schools \cup {""},
                 Send(d, i, n, s)
          PROVE  ledger' = ledger
      BY <2>2, SendType
    <2>3. ASSUME NEW d \in Dialogs, Evaluate(d) \/ Ends(d) PROVE ledger' = ledger
      BY <2>3, EvaluateType, EndsDialogType
    <2>4. QED BY <1>3, <2>1, <2>2, <2>3, DialogSteps
  <1>4. CASE UNCHANGED vars
    BY <1>4 DEF vars
  <1>5. QED BY <1>1, <1>2, <1>3, <1>4 DEF Next

(* A request is committed by Submit and by nothing else. *)
LEMMA CommitStep ==
  ASSUME TypeInv, [Next]_vars, NEW d \in Dialogs, op[d].pc = "submit", op'[d].pc = "committed"
  PROVE  Submit(d)
  <1>1. CASE SignIn
    BY <1>1, SignInEffect DEF SignEffect, dialogVars
  <1>2. CASE List
    BY <1>2, ListType DEF dialogVars
  <1>3. CASE Dialog
    <2>1. CASE Button
      BY <2>1, ButtonType
    <2>2. ASSUME NEW e \in Dialogs, NEW i \in IDs, NEW n \in Names, NEW s \in Schools \cup {""},
                 Send(e, i, n, s)
          PROVE  FALSE
      BY <2>2, SendType
    <2>3. ASSUME NEW e \in Dialogs, Evaluate(e) PROVE FALSE
      BY <2>3, EvaluateType
    <2>4. ASSUME NEW e \in Dialogs, Ends(e) PROVE FALSE
      <3>1. op'[d].pc # "idle" => op'[d] = op[d]
        BY <2>4, EndsDialogType
      <3>2. QED BY <3>1
    <2>5. ASSUME NEW e \in Dialogs, Submit(e) PROVE Submit(d)
      <3>1. e # d => op'[d] = op[d]
        BY <2>5, SubmitType
      <3>2. e = d
        BY <3>1
      <3>3. QED BY <2>5, <3>2
    <2>6. ASSUME NEW i \in IDs, NEW st \in Student, OthersWrite(i, st) PROVE FALSE
      BY <2>6, OthersType DEF dialogVars
    <2>7. QED BY <1>3, <2>1, <2>2, <2>3, <2>4, <2>5, <2>6, DialogSteps
  <1>4. CASE UNCHANGED vars
    BY <1>4 DEF vars, dialogVars
  <1>5. QED BY <1>1, <1>2, <1>3, <1>4 DEF Next

SchoolKept ==
    \A i \in IDs :
        /\ ledger[i] # NoStudent => ledger'[i].school = ledger[i].school
        /\ (\E d \in Dialogs : op[d].pc = "submit" /\ op'[d].pc = "committed" /\ op[d].id = i)
           /\ ledger[i] = NoStudent /\ session \notin Bureau
           => ledger'[i].school = SchoolOf[session]

LEMMA SchoolStep == TypeInv /\ [Next]_vars => SchoolKept
  <1> SUFFICES ASSUME TypeInv, [Next]_vars PROVE SchoolKept
    OBVIOUS
  <1>0. ledger \in [IDs -> Student \cup {NoStudent}]
    BY DEF TypeInv, LedgerOK
  <1>1. ASSUME NEW i \in IDs, ledger[i] # NoStudent PROVE ledger'[i].school = ledger[i].school
    <2>1. CASE ledger' = ledger
      BY <2>1
    <2>2. ASSUME NEW d \in Dialogs, Submit(d) PROVE ledger'[i].school = ledger[i].school
      <3>1. ledger' = [ledger EXCEPT ![op[d].id] = Written(d)] /\ op[d].id \in IDs
            /\ op[d].pc = "submit" /\ Submits(d)
        BY <2>2, SubmitType
      <3>2. ledger[op[d].id] # NoStudent => Written(d).school = ledger[op[d].id].school
        BY <3>1, WrittenType
      <3>3. QED BY <1>0, <1>1, <3>1, <3>2
    <2>3. ASSUME NEW j \in IDs, NEW st \in Student, OthersWrite(j, st)
          PROVE  ledger'[i].school = ledger[i].school
      <3>1. ledger' = [ledger EXCEPT ![j] = st] /\ (ledger[j] # NoStudent => st.school = ledger[j].school)
        BY <2>3, OthersType
      <3>2. QED BY <1>0, <1>1, <3>1
    <2>4. QED BY <2>1, <2>2, <2>3, LedgerStep
  <1>2. ASSUME NEW i \in IDs, NEW d \in Dialogs, op[d].pc = "submit", op'[d].pc = "committed",
               op[d].id = i, ledger[i] = NoStudent, session \notin Bureau
        PROVE  ledger'[i].school = SchoolOf[session]
    <2>1. Submit(d)
      BY <1>2, CommitStep
    <2>2. ledger' = [ledger EXCEPT ![op[d].id] = Written(d)] /\ Submits(d)
      BY <2>1, SubmitType
    <2>3. Written(d).school = SchoolOf[session]
      BY <1>2, <2>2, WrittenType
    <2>4. QED BY <1>0, <1>2, <2>2, <2>3
  <1>3. QED BY <1>1, <1>2 DEF SchoolKept

(* A student's school never changes, and a manager of a school registers *)
(* students of that school only, whatever the form names.                *)
THEOREM SchoolTheorem == Spec => SchoolIsKept
  <1>1. SchoolKept => \A i \in IDs :
         /\ ledger[i] # NoStudent => ledger'[i].school = ledger[i].school
         /\ (\E d \in Dialogs : op[d].pc = "submit" /\ op'[d].pc = "committed" /\ op[d].id = i)
            /\ ledger[i] = NoStudent /\ session \notin Bureau
            => ledger'[i].school = SchoolOf[session]
    BY DEF SchoolKept
  <1>2. QED BY <1>1, TypeHolds, SchoolStep, PTL DEF Spec, SchoolIsKept

(* The evaluation names no school, so the bureau gets no further. *)
LEMMA BureauStep == TypeInv /\ BureauCannotCreate /\ [Next]_vars => BureauCannotCreate'
  <1> SUFFICES ASSUME TypeInv, BureauCannotCreate, [Next]_vars PROVE BureauCannotCreate'
    OBVIOUS
  <1>0. "create" \in Dialogs
    BY DEF Dialogs
  <1>1. CASE SignIn
    <2>1. SignEffect
      BY <1>1, SignInEffect
    <2>2. op' = op
      BY <2>1 DEF SignEffect, dialogVars
    <2>3. CASE session' = session
      BY <2>2, <2>3 DEF BureauCannotCreate
    <2>4. CASE page # "students"
      <3>1. op["create"] = Unsent
        BY <1>0, <2>4 DEF TypeInv, VisitOK
      <3>2. QED BY <2>2, <3>1, Quiets DEF BureauCannotCreate
    <2>5. QED BY <2>1, <2>3, <2>4 DEF SignEffect
  <1>2. CASE List
    BY <1>2, ListType DEF BureauCannotCreate, dialogVars
  <1>3. CASE Dialog
    <2>1. CASE Button
      BY <2>1, ButtonType DEF BureauCannotCreate, signVars
    <2>2. ASSUME NEW d \in Dialogs, NEW i \in IDs, NEW n \in Names, NEW s \in Schools \cup {""},
                 Send(d, i, n, s)
          PROVE  BureauCannotCreate'
      <3>1. session' = session /\ (op'["create"] = op["create"] \/ op'["create"].pc = "evaluate")
        BY <1>0, <2>2, SendType DEF signVars
      <3>2. QED BY <3>1 DEF BureauCannotCreate
    <2>3. ASSUME NEW d \in Dialogs, Evaluate(d) PROVE BureauCannotCreate'
      <3>1. session' = session /\ Evaluates(d) /\ \A e \in Dialogs : e # d => op'[e] = op[e]
        BY <2>3, EvaluateType DEF signVars
      <3>2. CASE d = "create"
        <4>1. session \notin Bureau
          BY <3>1, <3>2 DEF Evaluates, CreateAllowed
        <4>2. QED BY <3>1, <4>1 DEF BureauCannotCreate
      <3>3. CASE d # "create"
        BY <1>0, <3>1, <3>3 DEF BureauCannotCreate
      <3>4. QED BY <3>2, <3>3
    <2>4. ASSUME NEW d \in Dialogs, Submit(d) PROVE BureauCannotCreate'
      <3>1. /\ session' = session /\ op[d].pc = "submit"
            /\ \A e \in Dialogs : e # d => op'[e] = op[e]
        BY <2>4, SubmitType DEF signVars
      <3>2. QED BY <1>0, <3>1 DEF BureauCannotCreate
    <2>5. ASSUME NEW d \in Dialogs, Ends(d) PROVE BureauCannotCreate'
      <3>1. session' = session /\ (op'["create"].pc # "idle" => op'["create"] = op["create"])
        BY <1>0, <2>5, EndsDialogType
      <3>2. QED BY <3>1 DEF BureauCannotCreate
    <2>6. ASSUME NEW i \in IDs, NEW st \in Student, OthersWrite(i, st) PROVE BureauCannotCreate'
      <3>1. session' = session /\ op' = op
        BY <2>6, OthersType DEF signVars, dialogVars
      <3>2. QED BY <3>1 DEF BureauCannotCreate
    <2>7. QED BY <1>3, <2>1, <2>2, <2>3, <2>4, <2>5, <2>6, DialogSteps
  <1>4. CASE UNCHANGED vars
    BY <1>4 DEF vars, signVars, dialogVars, BureauCannotCreate
  <1>5. QED BY <1>1, <1>2, <1>3, <1>4 DEF Next

(* Nothing the bureau enters for a new student is ever submitted. *)
THEOREM BureauTheorem == Spec => []BureauCannotCreate
  <1>1. Init => BureauCannotCreate
    BY Quiets DEF Init, BureauCannotCreate, Dialogs
  <1>2. QED BY <1>1, TypeHolds, BureauStep, PTL DEF Spec

-----------------------------------------------------------------------------
(* Two passwords. *)

LEMMA DialogKeepsSigns == ASSUME Dialog PROVE UNCHANGED signVars
  BY DEF Dialog, OpenUpdate, ToggleCreate, SendCreate, SendUpdate, Send, Close, Evaluate, Refuse,
         Submit, Succeed, CallFails, Answered, OthersWrite

(* Only createUser gives an account its password. *)
LEMMA AccountStep ==
  ASSUME TypeInv, [Next]_vars, NEW u \in Users, account[u] # NoAccount
  PROVE  account'[u] = account[u]
  <1>0. account \in [Users -> Passwords \cup {NoAccount}]
    BY DEF TypeInv, SignOK
  <1>1. CASE SignIn
    <2>1. ASSUME NEW b \in Browsers, CreateUser(b) PROVE account'[u] = account[u]
      BY <1>0, <2>1 DEF CreateUser
    <2>2. ASSUME NEW b \in Browsers, SignStep(b), ~CreateUser(b) PROVE account' = account
      BY <2>2 DEF SignStep, AskSignIn, Enroll, GetUserId, UpdateUserById, AccountUpdated,
                  OpenSession, SignInFails
    <2>3. ASSUME NEW v \in Users, NEW p \in Passwords, ChangePassword(v, p) PROVE account' = account
      BY <2>3 DEF ChangePassword
    <2>4. CASE SignOut
      BY <2>4 DEF SignOut
    <2>5. QED BY <1>1, <2>1, <2>2, <2>3, <2>4, SignInSteps
  <1>2. CASE List
    BY <1>2, ListType
  <1>3. CASE Dialog
    BY <1>3, DialogKeepsSigns DEF signVars
  <1>4. CASE UNCHANGED vars
    BY <1>4 DEF vars, signVars
  <1>5. QED BY <1>1, <1>2, <1>3, <1>4 DEF Next

(* A user whose two passwords differ stays locked out until the authority *)
(* changes the other one again: no sign-in repairs the account.           *)
THEOREM LockedOutTheorem == Spec => LockedOutStays
  <1>1. TypeInv /\ [Next]_vars => \A u \in Users : LockedOut(u) /\ ca'[u] = ca[u] => LockedOut(u)'
    <2> SUFFICES ASSUME TypeInv, [Next]_vars, NEW u \in Users, LockedOut(u), ca'[u] = ca[u]
                 PROVE  LockedOut(u)'
      OBVIOUS
    <2>1. account[u] # NoAccount /\ account[u] # ca[u]
      BY DEF LockedOut
    <2>2. account'[u] = account[u]
      BY <2>1, AccountStep
    <2>3. QED BY <2>1, <2>2 DEF LockedOut
  <1>2. QED BY <1>1, TypeHolds, PTL DEF Spec, LockedOutStays

-----------------------------------------------------------------------------
(* What the page has written. *)

(* A list older than a write of the page, shown or read, waits for an answer *)
(* that will have it asked for again; or that was done already.              *)
OwnInv ==
    /\ ~unheard /\ shown # NoPage /\ shown.late /\ (\A d \in Dialogs : op[d].pc # "committed")
       => asked # NoPage
    /\ ~unheard /\ asked # NoPage /\ asked.page.late => \E d \in Dialogs : op[d].pc = "committed"

LEMMA OwnInit == Init => OwnInv
  BY DEF Init, OwnInv

LEMMA OwnInvProperty == TypeInv /\ OwnInv => OwnWritesShown
  BY Quiets DEF OwnInv, OwnWritesShown

LEMMA OwnList ==
  ASSUME TypeInv, OwnInv, List
  PROVE  OwnInv'
  <1>0. bookmark \in IDs \cup {0} /\ UNCHANGED <<op, unheard>>
    BY ListType DEF TypeInv, ListOK, dialogVars
  <1>1. CASE OpenStudents
    <2>1. asked' = Ask(bookmark)
      BY <1>1 DEF OpenStudents
    <2>2. asked' # NoPage /\ asked'.page.late = FALSE
      BY <1>0, <2>1, AskType
    <2>3. QED BY <2>2 DEF OwnInv
  <1>2. CASE ReadStudents
    <2>1. asked' = [done |-> TRUE, page |-> QueryAllStudents(asked.page.mark)]
      BY <1>2 DEF ReadStudents
    <2>2. asked'.page.late = FALSE
      BY <2>1 DEF QueryAllStudents
    <2>3. asked' # NoPage
      <3>1. asked' \in Requests
        <4>1. asked.page.mark \in IDs \cup {0}
          BY <1>2 DEF ReadStudents, TypeInv, ListOK, Requests, Answers
        <4>2. QED BY <2>1, <4>1, QueryType DEF Requests
      <3>2. QED BY <3>1, RecordsAssumption
    <2>4. QED BY <2>2, <2>3 DEF OwnInv
  <1>3. CASE ShowStudents
    <2>1. asked # NoPage /\ shown' = asked.page /\ asked' = NoPage
      BY <1>3 DEF ShowStudents
    <2>2. QED BY <1>0, <2>1 DEF OwnInv
  <1>4. CASE ListFails
    <2>1. shown' = NoPage /\ asked' = NoPage
      BY <1>4 DEF ListFails
    <2>2. QED BY <2>1 DEF OwnInv
  <1>5. CASE NextPage
    <2>1. /\ shown' = shown
          /\ asked' = IF Bookmark = bookmark THEN asked ELSE Ask(Bookmark)
      BY <1>5 DEF NextPage
    <2>2. Bookmark \in IDs \cup {0}
      BY DEF TypeInv, Bookmark, ListOK, Answers
    <2>3. CASE asked' = asked
      BY <1>0, <2>1, <2>3 DEF OwnInv
    <2>4. CASE asked' = Ask(Bookmark)
      <3>1. asked' # NoPage /\ asked'.page.late = FALSE
        BY <2>2, <2>4, AskType
      <3>2. QED BY <3>1 DEF OwnInv
    <2>5. QED BY <2>1, <2>3, <2>4
  <1>6. QED BY <1>1, <1>2, <1>3, <1>4, <1>5 DEF List

LEMMA OwnDialog ==
  ASSUME TypeInv, OwnInv, Dialog
  PROVE  OwnInv'
  <1>0. bookmark \in IDs \cup {0} /\ unheard \in BOOLEAN
    BY DEF TypeInv, ListOK, DialogOK
  <1>1. CASE Button
    BY <1>1, ButtonType DEF OwnInv, listVars
  <1>2. ASSUME NEW d \in Dialogs, NEW i \in IDs, NEW n \in Names, NEW s \in Schools \cup {""},
               Send(d, i, n, s)
        PROVE  OwnInv'
    <2>1. /\ UNCHANGED <<shown, asked, unheard>> /\ op[d].pc = "idle"
          /\ \A e \in Dialogs : op'[e] = op[e] \/ op'[e].pc = "evaluate"
          /\ \A e \in Dialogs : e # d => op'[e] = op[e]
      <3>1. \A e \in Dialogs : e # d => op'[e] = op[e]
        BY <1>2 DEF Send, TypeInv, DialogOK
      <3>2. QED BY <1>2, <3>1, SendType, Quiets DEF listVars
    <2>2. \A e \in Dialogs : op'[e].pc = "committed" <=> op[e].pc = "committed"
      BY <2>1
    <2>3. QED BY <2>1, <2>2 DEF OwnInv
  <1>3. ASSUME NEW d \in Dialogs, Evaluate(d) PROVE OwnInv'
    <2>1. /\ UNCHANGED <<shown, asked, unheard>> /\ op[d].pc = "evaluate" /\ op'[d].pc = "submit"
          /\ \A e \in Dialogs : e # d => op'[e] = op[e]
      BY <1>3, EvaluateType DEF listVars
    <2>2. \A e \in Dialogs : op'[e].pc = "committed" <=> op[e].pc = "committed"
      BY <2>1
    <2>3. QED BY <2>1, <2>2 DEF OwnInv
  <1>4. ASSUME NEW d \in Dialogs, Submit(d) PROVE OwnInv'
    <2>1. op'[d].pc = "committed"
      BY <1>4, SubmitType
    <2>2. QED BY <2>1 DEF OwnInv
  <1>5. ASSUME NEW d \in Dialogs, Ends(d) PROVE OwnInv'
    <2>1. /\ shown' = shown /\ op' = [op EXCEPT ![d] = Unsent]
          /\ \/ asked' = Ask(bookmark) /\ unheard' = unheard
             \/ asked' = Ask(bookmark) /\ unheard' = (unheard \/ op[d].pc = "committed")
             \/ asked' = asked /\ unheard' = (unheard \/ op[d].pc = "committed")
      BY <1>5, EndsDialogType
    <2>2. CASE asked' = Ask(bookmark)
      <3>1. asked' # NoPage /\ asked'.page.late = FALSE
        BY <1>0, <2>2, AskType
      <3>2. QED BY <3>1 DEF OwnInv
    <2>3. CASE asked' = asked /\ unheard' = (unheard \/ op[d].pc = "committed")
      <3>1. CASE unheard'
        BY <3>1 DEF OwnInv
      <3>2. CASE ~unheard'
        <4>1. ~unheard /\ op[d].pc # "committed"
          BY <2>3, <3>2
        <4>2. \A e \in Dialogs : op'[e].pc = "committed" <=> op[e].pc = "committed"
          BY <2>1, <4>1, Quiets DEF TypeInv, DialogOK
        <4>3. QED BY <2>1, <2>3, <4>1, <4>2 DEF OwnInv
      <3>3. QED BY <3>1, <3>2
    <2>4. QED BY <2>1, <2>2, <2>3
  <1>6. ASSUME NEW i \in IDs, NEW st \in Student, OthersWrite(i, st) PROVE OwnInv'
    BY <1>6, OthersType DEF OwnInv, listVars, dialogVars
  <1>7. QED BY <1>1, <1>2, <1>3, <1>4, <1>5, <1>6, DialogSteps

LEMMA OwnStep == TypeInv /\ OwnInv /\ [Next]_vars => OwnInv'
  <1> SUFFICES ASSUME TypeInv, OwnInv, [Next]_vars PROVE OwnInv'
    OBVIOUS
  <1>1. CASE SignIn
    BY <1>1, SignInEffect DEF SignEffect, OwnInv, listVars, dialogVars
  <1>2. CASE UNCHANGED vars
    BY <1>2 DEF vars, OwnInv, listVars, dialogVars
  <1>3. QED BY <1>1, <1>2, OwnList, OwnDialog DEF Next

(* Once the answer to its own write has come, a page shows a list that was *)
(* read after the commit, or is asking for one.                            *)
THEOREM OwnWritesTheorem == Spec => []OwnWritesShown
  BY TypeHolds, OwnInit, OwnStep, OwnInvProperty, PTL DEF Spec

-----------------------------------------------------------------------------
(* A walk through the pages. *)

Listed(i) == ledger[i] # NoStudent /\ MayRead(i)

(* p shows every member of S from its mark to its bookmark. *)
Covers(p, S) == \A i \in S : i >= p.mark /\ (p.next = 0 \/ i < p.next) => i \in p.items

(* All before the bookmark have been seen, all before the bookmark of the *)
(* page that is shown too, and a page that was read goes on from there.   *)
BehindSeen == bookmark # 0 => \A i \in present : i < bookmark => i \in seen
ShownSeen == shown # NoPage => \A i \in present : (shown.next = 0 \/ i < shown.next) => i \in seen
PresentListed == \A i \in present : Listed(i)
AskedGoesOn ==
    asked # NoPage =>
        /\ asked.page.mark = bookmark
        /\ asked.done => /\ Covers(asked.page, present) /\ Covers(asked.page, asked.page.all)
                         /\ \A i \in asked.page.all : Listed(i)
WalkInv == BehindSeen /\ ShownSeen /\ PresentListed /\ AskedGoesOn

LEMMA WalkInit == Init => WalkInv
  BY DEF Init, WalkInv, BehindSeen, ShownSeen, PresentListed, AskedGoesOn

LEMMA WalkInvProperty == WalkInv => WalkReachesEveryStudent
  BY DEF WalkInv, ShownSeen, WalkReachesEveryStudent

(* Who is on the list stays on it during the visit. *)
LEMMA ListedStays ==
  ASSUME TypeInv, [Next]_vars, page = "students", NEW i \in IDs, Listed(i)
  PROVE  Listed(i)'
  <1>1. session' = session
    <2>1. CASE SignIn
      BY <2>1, SignInEffect DEF SignEffect
    <2>2. CASE List
      BY <2>2, ListType
    <2>3. CASE Dialog
      BY <2>3, DialogKeepsSigns DEF signVars
    <2>4. CASE UNCHANGED vars
      BY <2>4 DEF vars, signVars
    <2>5. QED BY <2>1, <2>2, <2>3, <2>4 DEF Next
  <1>2. ledger \in [IDs -> Student \cup {NoStudent}] /\ ledger[i] # NoStudent
    BY DEF TypeInv, LedgerOK, Listed
  <1>3. ledger'[i].school = ledger[i].school
    BY <1>2, SchoolStep DEF SchoolKept
  <1>4. ledger'[i] # NoStudent
    <2>1. CASE ledger' = ledger
      BY <1>2, <2>1
    <2>2. ASSUME NEW d \in Dialogs, Submit(d) PROVE ledger'[i] # NoStudent
      <3>1. ledger' = [ledger EXCEPT ![op[d].id] = Written(d)] /\ op[d].pc = "submit" /\ Submits(d)
        BY <2>2, SubmitType
      <3>2. Written(d) # NoStudent
        BY <3>1, WrittenType, RecordsAssumption
      <3>3. QED BY <1>2, <3>1, <3>2
    <2>3. ASSUME NEW j \in IDs, NEW st \in Student, OthersWrite(j, st) PROVE ledger'[i] # NoStudent
      <3>1. ledger' = [ledger EXCEPT ![j] = st] /\ st # NoStudent
        BY <2>3, OthersType, RecordsAssumption
      <3>2. QED BY <1>2, <3>1
    <2>4. QED BY <2>1, <2>2, <2>3, LedgerStep
  <1>5. QED BY <1>1, <1>3, <1>4 DEF Listed, MayRead

(* A query answers with a page that covers whoever is on the list. *)
LEMMA QueryCovers ==
  ASSUME TypeInv, NEW mark \in IDs \cup {0}, NEW S \in SUBSET IDs, \A i \in S : Listed(i)
  PROVE  Covers(QueryAllStudents(mark), S)
  <1> SUFFICES ASSUME NEW i \in S, i >= mark, BookmarkAfter(mark) = 0 \/ i < BookmarkAfter(mark)
               PROVE  i \in {j \in PageFrom(mark) : MayRead(j)}
    BY DEF Covers, QueryAllStudents
  <1>1. i \in Registered /\ MayRead(i)
    BY DEF Listed, Registered
  <1>2. QED BY <1>1, PageIsFull

LEMMA ReadWalk ==
  ASSUME TypeInv, WalkInv, ReadStudents
  PROVE  WalkInv'
  <1>1. /\ asked # NoPage /\ asked' = [done |-> TRUE, page |-> QueryAllStudents(asked.page.mark)]
        /\ UNCHANGED <<signVars, ledger, bookmark, shown, present, seen>>
    BY DEF ReadStudents
  <1>2. asked.page.mark \in IDs \cup {0} /\ asked.page.mark = bookmark /\ present \in SUBSET IDs
    BY <1>1 DEF TypeInv, ListOK, Requests, Answers, WalkInv, AskedGoesOn
  <1>3. session' = session
    BY <1>1 DEF signVars
  <1>4. \A i \in IDs : Listed(i)' <=> Listed(i)
    BY <1>1, <1>3 DEF Listed, MayRead
  <1>5. asked'.page = QueryAllStudents(bookmark) /\ asked'.page.mark = bookmark
    BY <1>1, <1>2 DEF QueryAllStudents
  <1>6. asked'.page.all \in SUBSET IDs /\ \A i \in asked'.page.all : Listed(i)
    BY <1>5 DEF QueryAllStudents, Registered, Listed
  <1>7. Covers(asked'.page, present) /\ Covers(asked'.page, asked'.page.all)
    BY <1>2, <1>5, <1>6, QueryCovers DEF WalkInv, PresentListed
  <1>8. AskedGoesOn'
    BY <1>1, <1>4, <1>5, <1>6, <1>7 DEF AskedGoesOn, Covers
  <1>9. BehindSeen' /\ ShownSeen' /\ PresentListed'
    BY <1>1, <1>2, <1>4 DEF WalkInv, BehindSeen, ShownSeen, PresentListed
  <1>10. QED BY <1>8, <1>9 DEF WalkInv

LEMMA ShowWalk ==
  ASSUME TypeInv, WalkInv, ShowStudents
  PROVE  WalkInv'
  <1>1. /\ asked # NoPage /\ asked.done /\ asked' = NoPage /\ shown' = asked.page
        /\ present' = IF asked.page.mark = 0 THEN asked.page.all ELSE present
        /\ seen' = IF asked.page.mark = 0 THEN asked.page.items ELSE seen \cup asked.page.items
        /\ UNCHANGED <<signVars, ledger, bookmark>>
    BY DEF ShowStudents
  <1>2. /\ asked.page.mark = bookmark /\ Covers(asked.page, present)
        /\ Covers(asked.page, asked.page.all) /\ \A i \in asked.page.all : Listed(i)
    BY <1>1 DEF WalkInv, AskedGoesOn
  <1>3. /\ bookmark \in Nat /\ present \subseteq Nat /\ present \subseteq IDs
        /\ asked.page.all \subseteq IDs /\ asked.page.all \subseteq Nat
    <2>1. bookmark \in IDs \cup {0} /\ present \subseteq IDs /\ asked \in Requests
      BY <1>1 DEF TypeInv, ListOK
    <2>2. asked.page \in Answers
      BY <2>1 DEF Requests
    <2>3. asked.page.all \subseteq IDs
      BY <2>2 DEF Answers
    <2>4. bookmark \in Nat
      BY <2>1, Numbers
    <2>5. present \subseteq Nat /\ asked.page.all \subseteq Nat
      BY <2>1, <2>3, Numbers
    <2>6. QED BY <2>1, <2>3, <2>4, <2>5
  <1>4. session' = session
    BY <1>1 DEF signVars
  <1>5. \A i \in IDs : Listed(i)' <=> Listed(i)
    BY <1>1, <1>4 DEF Listed, MayRead
  <1>6. PresentListed'
    BY <1>1, <1>2, <1>3, <1>5 DEF WalkInv, PresentListed
  <1>7. AskedGoesOn'
    BY <1>1 DEF AskedGoesOn
  <1>8. BehindSeen' /\ ShownSeen'
    <2>1. CASE bookmark = 0
      <3>1. present' = asked.page.all /\ seen' = asked.page.items
        BY <1>1, <1>2, <2>1
      <3>2. \A i \in present' : asked.page.next = 0 \/ i < asked.page.next => i \in seen'
        BY <1>2, <1>3, <2>1, <3>1 DEF Covers
      <3>3. QED BY <1>1, <2>1, <3>2 DEF BehindSeen, ShownSeen
    <2>2. CASE bookmark # 0
      <3>1. present' = present /\ seen' = seen \cup asked.page.items
        BY <1>1, <1>2, <2>2
      <3>2. BehindSeen'
        BY <1>1, <3>1 DEF WalkInv, BehindSeen
      <3>3. ASSUME NEW i \in present, asked.page.next = 0 \/ i < asked.page.next PROVE i \in seen'
        <4>1. CASE i < bookmark
          BY <2>2, <3>1, <4>1 DEF WalkInv, BehindSeen
        <4>2. CASE i >= bookmark
          BY <1>2, <3>1, <3>3, <4>2 DEF Covers
        <4>3. QED BY <1>3, <4>1, <4>2
      <3>4. QED BY <1>1, <3>1, <3>2, <3>3 DEF ShownSeen
    <2>3. QED BY <2>1, <2>2
  <1>9. QED BY <1>6, <1>7, <1>8 DEF WalkInv

LEMMA NextWalk ==
  ASSUME TypeInv, WalkInv, NextPage
  PROVE  WalkInv'
  <1>1. /\ bookmark' = Bookmark /\ asked' = IF Bookmark = bookmark THEN asked ELSE Ask(Bookmark)
        /\ UNCHANGED <<signVars, ledger, shown, present, seen>>
    BY DEF NextPage
  <1>2. Bookmark \in IDs \cup {0} /\ present \subseteq IDs
    BY DEF TypeInv, Bookmark, ListOK, Answers
  <1>3. session' = session
    BY <1>1 DEF signVars
  <1>4. \A i : Listed(i)' <=> Listed(i)
    BY <1>1, <1>3 DEF Listed, MayRead
  <1>5. ShownSeen' /\ PresentListed'
    BY <1>1, <1>4 DEF WalkInv, ShownSeen, PresentListed
  <1>6. BehindSeen'
    <2>1. CASE shown = NoPage
      BY <1>1, <2>1 DEF Bookmark, BehindSeen
    <2>2. CASE shown # NoPage
      <3>1. bookmark' = shown.next
        BY <1>1, <2>2 DEF Bookmark
      <3>2. QED BY <1>1, <2>2, <3>1 DEF WalkInv, ShownSeen, BehindSeen
    <2>3. QED BY <2>1, <2>2
  <1>7. AskedGoesOn'
    <2>1. CASE Bookmark = bookmark
      BY <1>1, <1>4, <2>1 DEF WalkInv, AskedGoesOn, Covers
    <2>2. CASE Bookmark # bookmark
      <3>1. asked' = Ask(Bookmark)
        BY <1>1, <2>2
      <3>2. asked'.done = FALSE /\ asked'.page.mark = Bookmark
        BY <1>2, <3>1, AskType
      <3>3. QED BY <1>1, <3>2 DEF AskedGoesOn
    <2>3. QED BY <2>1, <2>2
  <1>8. QED BY <1>5, <1>6, <1>7 DEF WalkInv

(* What the other steps of the list, and the dialogs, do to the walk: they *)
(* leave it as it is, forget the page, or ask for the page again.          *)
Stays ==
    /\ UNCHANGED <<bookmark, present, seen>>
    /\ \/ shown' = shown
       \/ shown' = NoPage
       \/ shown # NoPage /\ shown'.next = shown.next
    /\ \/ asked' = asked
       \/ asked' = NoPage
       \/ asked' # NoPage /\ asked'.done = FALSE /\ asked'.page.mark = bookmark
       \/ /\ asked # NoPage /\ asked'.done = asked.done /\ asked'.page.mark = asked.page.mark
          /\ asked'.page.items = asked.page.items /\ asked'.page.next = asked.page.next
          /\ asked'.page.all = asked.page.all

LEMMA StaysWalk ==
  ASSUME TypeInv, WalkInv, [Next]_vars, page = "students", Stays
  PROVE  WalkInv'
  <1>1. \A i \in IDs : Listed(i) => Listed(i)'
    BY ListedStays
  <1>2. present \subseteq IDs /\ UNCHANGED <<bookmark, present, seen>>
    BY DEF TypeInv, ListOK, Stays
  <1>3. PresentListed' /\ BehindSeen'
    BY <1>1, <1>2 DEF WalkInv, PresentListed, BehindSeen
  <1>4. ShownSeen'
    BY <1>2 DEF WalkInv, ShownSeen, Stays
  <1>5. AskedGoesOn'
    <2>1. CASE asked' = NoPage
      BY <2>1 DEF AskedGoesOn
    <2>2. CASE asked' # NoPage /\ asked'.done = FALSE /\ asked'.page.mark = bookmark
      BY <1>2, <2>2 DEF AskedGoesOn
    <2>3. ASSUME /\ asked # NoPage /\ asked'.done = asked.done /\ asked'.page.mark = asked.page.mark
                 /\ asked'.page.items = asked.page.items /\ asked'.page.next = asked.page.next
                 /\ asked'.page.all = asked.page.all
          PROVE  AskedGoesOn'
      <3>1. asked.page.all \subseteq IDs
        <4>1. asked \in Requests
          BY <2>3 DEF TypeInv, ListOK
        <4>2. asked.page \in Answers
          BY <4>1 DEF Requests
        <4>3. QED BY <4>2 DEF Answers
      <3>2. asked.page.mark = bookmark
            /\ (asked.done => /\ Covers(asked.page, present) /\ Covers(asked.page, asked.page.all)
                              /\ \A i \in asked.page.all : Listed(i))
        BY <2>3 DEF WalkInv, AskedGoesOn
      <3>3. /\ Covers(asked.page, present) => Covers(asked.page, present)'
            /\ Covers(asked.page, asked.page.all) => Covers(asked.page, asked.page.all)'
        BY <1>2, <2>3 DEF Covers
      <3>4. (\A i \in asked.page.all : Listed(i)) => (\A i \in asked.page.all : Listed(i))'
        BY <1>1, <2>3, <3>1
      <3>5. QED BY <1>2, <2>3, <3>2, <3>3, <3>4 DEF AskedGoesOn
    <2>4. CASE asked' = asked /\ asked # NoPage
      BY <2>3, <2>4
    <2>5. QED BY <2>1, <2>2, <2>3, <2>4 DEF Stays
  <1>6. QED BY <1>3, <1>4, <1>5 DEF WalkInv

(* Before the page of students there is no list. *)
LEMMA BeforeWalk ==
  ASSUME present' = {}, shown' = NoPage, asked' = NoPage \/ asked' = Ask(bookmark'),
         bookmark' \in IDs \cup {0}
  PROVE  WalkInv'
  <1>1. BehindSeen' /\ ShownSeen' /\ PresentListed'
    BY DEF BehindSeen, ShownSeen, PresentListed
  <1>2. AskedGoesOn'
    <2>1. CASE asked' = NoPage
      BY <2>1 DEF AskedGoesOn
    <2>2. CASE asked' = Ask(bookmark')
      <3>1. asked'.done = FALSE /\ asked'.page.mark = bookmark'
        BY <2>2, AskType
      <3>2. QED BY <3>1 DEF AskedGoesOn
    <2>3. QED BY <2>1, <2>2
  <1>3. QED BY <1>1, <1>2 DEF WalkInv

LEMMA DialogStays ==
  ASSUME TypeInv, Dialog
  PROVE  Stays
  <1>0. bookmark \in IDs \cup {0} /\ shown \in Answers \cup {NoPage} /\ asked \in Requests \cup {NoPage}
    BY DEF TypeInv, ListOK
  <1>1. CASE Button
    BY <1>1, ButtonType DEF Stays, listVars
  <1>2. ASSUME NEW d \in Dialogs, NEW i \in IDs, NEW n \in Names, NEW s \in Schools \cup {""},
               Send(d, i, n, s)
        PROVE  Stays
    BY <1>2, SendType DEF Stays, listVars
  <1>3. ASSUME NEW d \in Dialogs, Evaluate(d) PROVE Stays
    BY <1>3, EvaluateType DEF Stays, listVars
  <1>4. ASSUME NEW d \in Dialogs, Submit(d) PROVE Stays
    <2>1. /\ UNCHANGED <<bookmark, present, seen>> /\ shown' = Outdated(shown)
          /\ asked' = IF asked # NoPage /\ asked.done
                      THEN [asked EXCEPT !.page = Outdated(asked.page)] ELSE asked
      BY <1>4, SubmitType
    <2>2. shown' = shown \/ (shown # NoPage /\ shown'.next = shown.next)
      BY <1>0, <2>1, OutdatedType
    <2>3. CASE asked # NoPage /\ asked.done
      <3>1. asked.page \in Answers /\ asked' = [asked EXCEPT !.page = Outdated(asked.page)]
        BY <1>0, <2>1, <2>3 DEF Requests
      <3>2. asked'.done = asked.done /\ asked'.page = Outdated(asked.page)
        BY <1>0, <2>3, <3>1 DEF Requests
      <3>3. /\ asked'.page.mark = asked.page.mark /\ asked'.page.items = asked.page.items
            /\ asked'.page.next = asked.page.next /\ asked'.page.all = asked.page.all
        BY <3>1, <3>2, OutdatedType, RecordsAssumption
      <3>4. QED BY <2>1, <2>2, <2>3, <3>2, <3>3 DEF Stays
    <2>4. CASE ~(asked # NoPage /\ asked.done)
      BY <2>1, <2>2, <2>4 DEF Stays
    <2>5. QED BY <2>3, <2>4
  <1>5. ASSUME NEW d \in Dialogs, Ends(d) PROVE Stays
    <2>1. /\ UNCHANGED <<shown, bookmark, present, seen>>
          /\ asked' = Ask(bookmark) \/ asked' = asked
      BY <1>5, EndsDialogType
    <2>2. CASE asked' = Ask(bookmark)
      <3>1. asked' # NoPage /\ asked'.done = FALSE /\ asked'.page.mark = bookmark
        BY <1>0, <2>2, AskType
      <3>2. QED BY <2>1, <3>1 DEF Stays
    <2>3. CASE asked' = asked
      BY <2>1, <2>3 DEF Stays
    <2>4. QED BY <2>1, <2>2, <2>3
  <1>6. ASSUME NEW i \in IDs, NEW st \in Student, OthersWrite(i, st) PROVE Stays
    BY <1>6, OthersType DEF Stays, listVars
  <1>7. QED BY <1>1, <1>2, <1>3, <1>4, <1>5, <1>6, DialogSteps

LEMMA WalkStep == TypeInv /\ WalkInv /\ [Next]_vars => WalkInv'
  <1> SUFFICES ASSUME TypeInv, WalkInv, [Next]_vars PROVE WalkInv'
    OBVIOUS
  <1>1. CASE page # "students"
    <2>1. present = {} /\ shown = NoPage /\ asked = NoPage /\ bookmark \in IDs \cup {0}
      BY <1>1 DEF TypeInv, VisitOK, ListOK
    <2>2. CASE SignIn
      BY <2>1, <2>2, SignInEffect, BeforeWalk DEF SignEffect, listVars
    <2>3. CASE List
      <3>1. /\ UNCHANGED <<bookmark, shown, present>>
            /\ asked' = Ask(bookmark)
        BY <1>1, <2>1, <2>3 DEF List, OpenStudents, ReadStudents, ShowStudents, ListFails, NextPage
      <3>2. QED BY <2>1, <3>1, BeforeWalk
    <2>4. CASE Dialog
      <3>1. ASSUME NEW i \in IDs, NEW st \in Student, OthersWrite(i, st) PROVE WalkInv'
        <4>1. UNCHANGED listVars
          BY <3>1, OthersType
        <4>2. QED BY <2>1, <4>1, BeforeWalk DEF listVars
      <3>2. ASSUME NEW d \in Dialogs, op[d] # Unsent PROVE FALSE
        BY <1>1, <3>2, StudentsPage
      <3>3. ASSUME Button PROVE WalkInv'
        <4>1. UNCHANGED listVars
          BY <3>3, ButtonType
        <4>2. QED BY <2>1, <4>1, BeforeWalk DEF listVars
      <3>4. ASSUME NEW d \in Dialogs, NEW i \in IDs, NEW n \in Names, NEW s \in Schools \cup {""},
                   Send(d, i, n, s)
            PROVE  FALSE
        BY <1>1, <3>4, SendType
      <3>5. ASSUME NEW d \in Dialogs, Evaluate(d) \/ Submit(d) \/ Ends(d) PROVE FALSE
        <4>1. op[d] # Unsent
          BY <3>5, EvaluateType, SubmitType, EndsOneOf, Quiets
        <4>2. QED BY <3>2, <4>1
      <3>6. QED BY <2>4, <3>1, <3>3, <3>4, <3>5, DialogSteps
    <2>5. CASE UNCHANGED vars
      BY <2>1, <2>5, BeforeWalk DEF vars, listVars
    <2>6. QED BY <2>2, <2>3, <2>4, <2>5 DEF Next
  <1>2. CASE page = "students"
    <2>1. CASE SignIn
      <3>1. Stays
        BY <2>1, SignInEffect DEF SignEffect, Stays, listVars
      <3>2. QED BY <1>2, <3>1, StaysWalk
    <2>2. CASE List
      <3>1. CASE OpenStudents
        BY <1>2, <3>1 DEF OpenStudents
      <3>2. CASE ListFails
        <4>1. Stays
          BY <3>2 DEF ListFails, Stays
        <4>2. QED BY <1>2, <4>1, StaysWalk
      <3>3. QED BY <2>2, <3>1, <3>2, ReadWalk, ShowWalk, NextWalk DEF List
    <2>3. CASE Dialog
      BY <1>2, <2>3, DialogStays, StaysWalk
    <2>4. CASE UNCHANGED vars
      <3>1. Stays
        BY <2>4 DEF vars, listVars, Stays
      <3>2. QED BY <1>2, <3>1, StaysWalk
    <2>5. QED BY <2>1, <2>2, <2>3, <2>4 DEF Next
  <1>3. QED BY <1>1, <1>2

(* A walk through the pages reaches everybody who was registered when it  *)
(* began, for any page size, with any creations, refreshes, cancellations *)
(* and failures on the way.                                               *)
THEOREM WalkTheorem == Spec => []WalkReachesEveryStudent
  BY TypeHolds, WalkInit, WalkStep, WalkInvProperty, PTL DEF Spec

=============================================================================
