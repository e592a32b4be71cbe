----------------------- MODULE StudentChaincode_proofs -----------------------
(***************************************************************************)
(* Theorems about the student contract, for any users, students, peers and *)
(* number of transactions.                                                 *)
(*                                                                         *)
(* The argument rests on one fact about the chain: the version of a key    *)
(* determines its value (VersionsAreFresh).  An endorsement that read a    *)
(* version which is still current at the commit therefore read the current *)
(* value (ReadsAreFaithful), however much the endorsing peer lagged.       *)
(***************************************************************************)
EXTENDS StudentChaincode, TLAPS

\* Block numbers are versions: none is ahead of its block, and version 0 is
\* exactly "never written".
VersionsAreBlocks ==
  \A n \in DOMAIN chain, id \in IDs :
    /\ chain[n].student[id].ver <= n
    /\ chain[n].student[id].ver = 0 <=> chain[n].student[id].val = NoStudent

\* Two blocks with the same version of a key have the same value under it.
VersionsAreFresh ==
  \A m, n \in DOMAIN chain, id \in IDs :
    chain[m].student[id].ver = chain[n].student[id].ver =>
      chain[m].student[id] = chain[n].student[id]

\* What an endorsement found under the student key, as entry e.
ReadAndPut(t, e) ==
  /\ readVer[t] = e.ver
  /\ \/ /\ request[t].op = "CreateStudent"
        /\ e.val = NoStudent
        /\ put[t] \in Student
        /\ put[t].graduated = FALSE
     \/ /\ request[t].op = "UpdateStudent"
        /\ e.val # NoStudent
        /\ put[t] = UpdatedStudent(caller[t], request[t], e.val)
     \/ /\ request[t].op = "CreateStudentGrade"
        /\ e.val # NoStudent
        /\ put[t] \in Grade
        /\ put[t].school = e.val.school

BlindCreation(t) ==
  /\ StateReadsMayFail
  /\ readVer[t] = Unread
  /\ request[t].op = "CreateStudent"
  /\ put[t] \in Student
  /\ put[t].graduated = FALSE

ReadsAreFaithful ==
  \A t \in Txns :
    stage[t] = "endorsed" =>
      \/ BlindCreation(t)
      \/ \E n \in DOMAIN chain : ReadAndPut(t, chain[n].student[request[t].id])

Proposed ==
  \A t \in Txns : stage[t] # "idle" => caller[t] \in Users /\ request[t] \in Requests

\* A transaction that has created a student leaves the key written, and read 0.
CreationsAreWritten ==
  \A t \in Txns :
    stage[t] = "committed" /\ request[t].op = "CreateStudent" =>
      Tip.student[request[t].id].ver # 0

IInv == /\ TypeOK
        /\ Proposed
        /\ Len(chain) > 0
        /\ VersionsAreBlocks
        /\ VersionsAreFresh
        /\ ReadsAreFaithful
        /\ CreationsAreWritten

-----------------------------------------------------------------------------
(* Lemmas about the operators of the contract and of the ledger. *)

LEMMA RequestFields ==
  ASSUME NEW req \in Request
  PROVE  /\ req.id \in IDs
         /\ req.op \in {"CreateStudent", "UpdateStudent", "CreateStudentGrade"}
         /\ req.op = "CreateStudent" =>
              /\ req.name \in Names \cup {Blank} /\ req.profile \in Profiles
              /\ req.school \in Schools \cup {Blank}
         /\ req.op = "UpdateStudent" =>
              /\ req.name \in Names \cup {Blank} /\ req.profile \in Profiles
              /\ req.school \in Schools \cup {Blank} /\ req.graduated \in BOOLEAN
         /\ req.op = "CreateStudentGrade" => req.mark \in Marks
  BY DEF Request

\* The record CreateStudent puts is a complete one: its school is never empty.
LEMMA NewStudentIsStudent ==
  ASSUME NEW u \in Users, NEW req \in Request, NEW date \in Dates, NEW w,
         req.op = "CreateStudent", CreateStudentAllowed(u, req, w)
  PROVE  /\ NewStudent(u, req, date) \in Student
         /\ NewStudent(u, req, date).graduated = FALSE
  BY RequestFields, ConstantsAssumption
  DEF NewStudent, Student, CreateStudentAllowed

\* The record UpdateStudent puts is one, and keeps the date of creation.
LEMMA UpdatedStudentIsStudent ==
  ASSUME NEW u, NEW req \in Request, NEW old \in Student, req.op = "UpdateStudent"
  PROVE  /\ UpdatedStudent(u, req, old) \in Student
         /\ UpdatedStudent(u, req, old).created = old.created
  BY RequestFields DEF UpdatedStudent, Student

LEMMA PutStudentWorld ==
  ASSUME NEW w \in World, NEW id \in IDs, NEW ver \in Nat, NEW s \in Student
  PROVE  /\ PutStudent(w, id, ver, s) \in World
         /\ PutStudent(w, id, ver, s).student[id] = [ver |-> ver, val |-> s]
         /\ \A i \in IDs \ {id} : PutStudent(w, id, ver, s).student[i] = w.student[i]
         /\ PutStudent(w, id, ver, s).grades = w.grades
         /\ PutStudent(w, id, ver, s).student
              = [w.student EXCEPT ![id] = [ver |-> ver, val |-> s]]
  BY DEF PutStudent, World, Entry

LEMMA PutGradeWorld ==
  ASSUME NEW w \in World, NEW id \in IDs, NEW g \in Grade
  PROVE  /\ PutGrade(w, id, g) \in World
         /\ PutGrade(w, id, g).student = w.student
         /\ PutGrade(w, id, g).grades
              = [w.grades EXCEPT ![id][g.school] = Append(@, g)]
  <1>1. w.student \in [IDs -> Entry] /\ w.grades \in [IDs -> [Schools -> Seq(Grade)]]
    BY DEF World
  <1>2. g.school \in Schools
    BY DEF Grade
  <1>3. Append(w.grades[id][g.school], g) \in Seq(Grade)
    BY <1>1, <1>2
  <1>4. [w.grades EXCEPT ![id][g.school] = Append(@, g)] \in [IDs -> [Schools -> Seq(Grade)]]
    BY <1>1, <1>2, <1>3
  <1>5. QED BY <1>1, <1>4 DEF World, PutGrade

-----------------------------------------------------------------------------
(* The invariant, action by action. *)

LEMMA InitIInv == Init => IInv
  <1> SUFFICES ASSUME Init PROVE IInv
    OBVIOUS
  <1>1. Genesis \in World
    <2>1. [id \in IDs |-> [ver |-> 0, val |-> NoStudent]] \in [IDs -> Entry]
      BY DEF Entry
    <2>2. [id \in IDs |-> [school \in Schools |-> <<>>]] \in [IDs -> [Schools -> Seq(Grade)]]
      OBVIOUS
    <2>3. QED BY <2>1, <2>2 DEF Genesis, World
  <1>2. chain \in Seq(World) /\ Len(chain) = 1 /\ chain[1] = Genesis
    BY <1>1 DEF Init
  <1>3. \A n \in DOMAIN chain : n = 1 /\ chain[n] = Genesis
    BY <1>2
  <1>4. TypeOK
    BY <1>2 DEF Init, TypeOK
  <1>5. Proposed /\ ReadsAreFaithful /\ CreationsAreWritten
    BY DEF Init, Proposed, ReadsAreFaithful, CreationsAreWritten
  <1>6. VersionsAreBlocks /\ VersionsAreFresh
    BY <1>3 DEF VersionsAreBlocks, VersionsAreFresh, Genesis
  <1>7. QED BY <1>2, <1>4, <1>5, <1>6 DEF IInv

\* Every state a transaction can have read is one of World.
LEMMA ChainWorlds ==
  ASSUME IInv
  PROVE  /\ \A n \in DOMAIN chain : chain[n] \in World
         /\ \A p \in Peers : height[p] \in DOMAIN chain
         /\ Len(chain) \in DOMAIN chain
         /\ DOMAIN chain = 1..Len(chain)
         /\ Len(chain) \in Nat
  BY DEF IInv, TypeOK

LEMMA EntryOfWorld ==
  ASSUME NEW w \in World, NEW id \in IDs
  PROVE  /\ w.student[id].ver \in Nat
         /\ w.student[id].val \in Student \cup {NoStudent}
  BY DEF World, Entry

LEMMA ProposeIInv ==
  ASSUME IInv, NEW t \in Txns, NEW u \in Users, NEW req \in Requests, Propose(t, u, req)
  PROVE  IInv'
  <1> USE DEF Propose, ledgerVars, IInv
  <1>1. TypeOK'
    BY DEF TypeOK
  <1>2. Proposed'
    BY DEF TypeOK, Proposed
  <1>3. VersionsAreBlocks' /\ VersionsAreFresh'
    BY DEF VersionsAreBlocks, VersionsAreFresh
  <1>4. ReadsAreFaithful'
    BY DEF TypeOK, ReadsAreFaithful, BlindCreation, ReadAndPut
  <1>5. CreationsAreWritten'
    BY DEF TypeOK, CreationsAreWritten, Tip
  <1>6. QED BY <1>1, <1>2, <1>3, <1>4, <1>5

\* An endorsement keeps the invariant if what it keeps is what it read.
LEMMA EndorsedIInv ==
  ASSUME IInv, NEW t \in Txns, stage[t] = "proposed",
         NEW ver \in Nat \cup {Unread}, NEW value \in Student \cup Grade,
         Endorsed(t, ver, value),
         \/ BlindCreation(t)'
         \/ \E n \in DOMAIN chain : ReadAndPut(t, chain[n].student[request[t].id])'
  PROVE  IInv'
  <1> USE DEF Endorsed, ledgerVars, IInv
  <1>1. TypeOK'
    BY DEF TypeOK
  <1>2. Proposed'
    BY DEF TypeOK, Proposed
  <1>3. VersionsAreBlocks' /\ VersionsAreFresh'
    BY DEF VersionsAreBlocks, VersionsAreFresh
  <1>4. ReadsAreFaithful'
    <2> SUFFICES ASSUME NEW x \in Txns, stage'[x] = "endorsed"
                 PROVE  \/ BlindCreation(x)'
                        \/ \E n \in DOMAIN chain' :
                             ReadAndPut(x, chain[n].student[request[x].id])'
      BY DEF ReadsAreFaithful
    <2>1. CASE x = t
      BY <2>1
    <2>2. CASE x # t
      <3>1. /\ stage[x] = "endorsed"
            /\ readVer'[x] = readVer[x] /\ put'[x] = put[x]
        BY <2>2 DEF TypeOK
      <3>2. CASE BlindCreation(x)
        BY <3>1, <3>2 DEF BlindCreation
      <3>3. ASSUME NEW n \in DOMAIN chain, ReadAndPut(x, chain[n].student[request[x].id])
            PROVE  ReadAndPut(x, chain[n].student[request[x].id])'
        BY <3>1, <3>3 DEF ReadAndPut
      <3>4. QED BY <3>1, <3>2, <3>3 DEF ReadsAreFaithful
    <2>3. QED BY <2>1, <2>2
  <1>5. CreationsAreWritten'
    BY DEF TypeOK, CreationsAreWritten, Tip
  <1>6. QED BY <1>1, <1>2, <1>3, <1>4, <1>5

\* A transaction that ends without touching the chain.
LEMMA DroppedIInv ==
  ASSUME IInv, NEW t \in Txns, NEW s \in {"refused", "invalid"}, stage[t] # "idle",
         stage' = [stage EXCEPT ![t] = s],
         UNCHANGED <<ledgerVars, caller, request, readVer, put>>
  PROVE  IInv'
  <1> USE DEF ledgerVars, IInv
  <1>1. TypeOK'
    BY DEF TypeOK
  <1>2. Proposed'
    BY DEF TypeOK, Proposed
  <1>3. VersionsAreBlocks' /\ VersionsAreFresh'
    BY DEF VersionsAreBlocks, VersionsAreFresh
  <1>4. ReadsAreFaithful'
    BY DEF TypeOK, ReadsAreFaithful, BlindCreation, ReadAndPut
  <1>5. CreationsAreWritten'
    BY DEF TypeOK, CreationsAreWritten, Tip
  <1>6. QED BY <1>1, <1>2, <1>3, <1>4, <1>5

LEMMA ApplyBlockIInv ==
  ASSUME IInv, NEW p \in Peers, ApplyBlock(p)
  PROVE  IInv'
  <1> USE DEF ApplyBlock, IInv
  <1>1. TypeOK'
    BY DEF TypeOK
  <1>2. Proposed'
    BY DEF Proposed
  <1>3. VersionsAreBlocks' /\ VersionsAreFresh'
    BY DEF VersionsAreBlocks, VersionsAreFresh
  <1>4. ReadsAreFaithful'
    BY DEF ReadsAreFaithful, BlindCreation, ReadAndPut
  <1>5. CreationsAreWritten'
    BY DEF CreationsAreWritten, Tip
  <1>6. QED BY <1>1, <1>2, <1>3, <1>4, <1>5

\* A block keeps the invariant if the state after it differs from the state
\* before it only in student keys that carry the new block's number.
LEMMA CommitIInv ==
  ASSUME IInv, NEW t \in Txns, stage[t] = "endorsed", NEW w \in World,
         chain' = Append(chain, w),
         stage' = [stage EXCEPT ![t] = "committed"],
         UNCHANGED <<height, caller, request, readVer, put>>,
         \A id \in IDs : \/ w.student[id] = Tip.student[id]
                         \/ /\ w.student[id].ver = Len(chain) + 1
                            /\ w.student[id].val # NoStudent,
         request[t].op = "CreateStudent" => w.student[request[t].id].ver = Len(chain) + 1
  PROVE  IInv'
  <1>1. /\ chain \in Seq(World) /\ Len(chain) \in Nat \ {0}
        /\ chain' \in Seq(World) /\ Len(chain') = Len(chain) + 1
        /\ DOMAIN chain = 1..Len(chain) /\ DOMAIN chain' = 1..(Len(chain) + 1)
        /\ \A n \in DOMAIN chain : chain'[n] = chain[n]
        /\ chain'[Len(chain) + 1] = w
        /\ Tip = chain[Len(chain)] /\ Tip' = w
    BY DEF IInv, TypeOK, Tip
  <1>2. TypeOK'
    BY <1>1 DEF IInv, TypeOK
  <1>3. Proposed'
    BY DEF IInv, TypeOK, Proposed
  <1>4. \A n \in DOMAIN chain, id \in IDs : chain[n].student[id].ver \in Nat
    BY <1>1, EntryOfWorld
  <1>5. VersionsAreBlocks'
    <2> SUFFICES ASSUME NEW n \in DOMAIN chain', NEW id \in IDs
                 PROVE  /\ chain'[n].student[id].ver <= n
                        /\ chain'[n].student[id].ver = 0 <=> chain'[n].student[id].val = NoStudent
      BY DEF VersionsAreBlocks
    <2>1. CASE n \in DOMAIN chain
      BY <1>1, <2>1 DEF IInv, VersionsAreBlocks
    <2>2. CASE n = Len(chain) + 1
      <3>1. /\ Tip.student[id].ver <= Len(chain)
            /\ Tip.student[id].ver = 0 <=> Tip.student[id].val = NoStudent
        BY <1>1 DEF IInv, VersionsAreBlocks
      <3>2. QED BY <1>1, <1>4, <2>2, <3>1
    <2>3. QED BY <1>1, <2>1, <2>2
  <1>6. VersionsAreFresh'
    <2> SUFFICES ASSUME NEW m \in DOMAIN chain', NEW n \in DOMAIN chain', NEW id \in IDs,
                        chain'[m].student[id].ver = chain'[n].student[id].ver
                 PROVE  chain'[m].student[id] = chain'[n].student[id]
      BY DEF VersionsAreFresh
    <2>1. \A k \in DOMAIN chain : chain[k].student[id].ver <= k /\ k <= Len(chain)
      BY <1>1 DEF IInv, VersionsAreBlocks
    <2>2. \A k \in DOMAIN chain :
            w.student[id].ver = chain[k].student[id].ver => w.student[id] = chain[k].student[id]
      <3> SUFFICES ASSUME NEW k \in DOMAIN chain,
                          w.student[id].ver = chain[k].student[id].ver
                   PROVE  w.student[id] = chain[k].student[id]
        OBVIOUS
      <3>1. w.student[id] = Tip.student[id]
        BY <1>1, <1>4, <2>1
      <3>2. QED BY <1>1, <3>1 DEF IInv, VersionsAreFresh
    <2>3. CASE m \in DOMAIN chain /\ n \in DOMAIN chain
      BY <1>1, <2>3 DEF IInv, VersionsAreFresh
    <2>4. CASE m = Len(chain) + 1 /\ n \in DOMAIN chain
      BY <1>1, <2>2, <2>4
    <2>5. CASE m \in DOMAIN chain /\ n = Len(chain) + 1
      BY <1>1, <2>2, <2>5
    <2>6. CASE m = Len(chain) + 1 /\ n = Len(chain) + 1
      BY <2>6
    <2>7. QED BY <1>1, <2>3, <2>4, <2>5, <2>6
  <1>7. ReadsAreFaithful'
    <2> SUFFICES ASSUME NEW x \in Txns, stage'[x] = "endorsed"
                 PROVE  \/ BlindCreation(x)'
                        \/ \E n \in DOMAIN chain' :
                             ReadAndPut(x, chain[n].student[request[x].id])'
      BY DEF ReadsAreFaithful
    <2>1. stage[x] = "endorsed"
      BY DEF IInv, TypeOK
    <2>2. CASE BlindCreation(x)
      BY <2>2 DEF BlindCreation
    <2>3. ASSUME NEW n \in DOMAIN chain, ReadAndPut(x, chain[n].student[request[x].id])
          PROVE  \E k \in DOMAIN chain' : ReadAndPut(x, chain[k].student[request[x].id])'
      <3>1. n \in DOMAIN chain' /\ chain'[n] = chain[n]
        BY <1>1
      <3>2. ReadAndPut(x, chain[n].student[request[x].id])'
        BY <2>3, <3>1 DEF ReadAndPut
      <3>3. QED BY <3>1, <3>2
    <2>4. QED BY <2>1, <2>2, <2>3 DEF IInv, ReadsAreFaithful
  <1>8. CreationsAreWritten'
    <2> SUFFICES ASSUME NEW x \in Txns, stage'[x] = "committed",
                        request[x].op = "CreateStudent"
                 PROVE  w.student[request[x].id].ver # 0
      BY <1>1 DEF CreationsAreWritten
    <2>1. CASE x = t
      BY <1>1, <2>1
    <2>2. CASE x # t
      <3>1. stage[x] = "committed"
        BY <2>2 DEF IInv, TypeOK
      <3>2. Tip.student[request[x].id].ver # 0
        BY <3>1 DEF IInv, CreationsAreWritten
      <3>3. request[x].id \in IDs
        BY <3>1, RequestFields, ConstantsAssumption DEF IInv, Proposed
      <3>4. QED BY <1>1, <3>2, <3>3
    <2>3. QED BY <2>1, <2>2
  <1>9. QED BY <1>1, <1>2, <1>3, <1>5, <1>6, <1>7, <1>8 DEF IInv

\* What the contract's functions put is what an endorsement is allowed to keep.
LEMMA EndorseCreateStudentIInv ==
  ASSUME IInv, NEW t \in Txns, NEW p \in Peers, NEW date \in Dates,
         EndorseCreateStudent(t, p, date)
  PROVE  IInv'
  <1> DEFINE w == chain[height[p]]
             id == request[t].id
             s == NewStudent(caller[t], request[t], date)
  <1>1. /\ stage[t] = "proposed" /\ request[t].op = "CreateStudent"
        /\ CreateStudentAllowed(caller[t], request[t], w)
        /\ Endorsed(t, w.student[id].ver, s)
    BY DEF EndorseCreateStudent
  <1>2. caller[t] \in Users /\ request[t] \in Request /\ id \in IDs
    BY <1>1, RequestFields, ConstantsAssumption DEF IInv, Proposed
  <1>3. w \in World /\ height[p] \in DOMAIN chain /\ w.student[id].ver \in Nat
    BY <1>2, ChainWorlds, EntryOfWorld
  <1>4. s \in Student /\ s.graduated = FALSE
    BY <1>1, <1>2, NewStudentIsStudent
  <1>5. w.student[id].val = NoStudent
    BY <1>1 DEF CreateStudentAllowed, StudentExists
  <1>6. put'[t] = s /\ readVer'[t] = w.student[id].ver
    BY <1>1 DEF Endorsed, IInv, TypeOK
  <1>7. UNCHANGED <<chain, caller, request>>
    BY <1>1 DEF Endorsed, ledgerVars
  <1>8. \E n \in DOMAIN chain : ReadAndPut(t, chain[n].student[request[t].id])'
    BY <1>1, <1>3, <1>4, <1>5, <1>6, <1>7 DEF ReadAndPut
  <1>9. QED BY <1>1, <1>3, <1>4, <1>8, EndorsedIInv

LEMMA EndorseCreateStudentUnreadIInv ==
  ASSUME IInv, NEW t \in Txns, NEW date \in Dates, EndorseCreateStudentUnread(t, date)
  PROVE  IInv'
  <1> DEFINE s == NewStudent(caller[t], request[t], date)
  <1>1. /\ stage[t] = "proposed" /\ request[t].op = "CreateStudent" /\ StateReadsMayFail
        /\ CreateStudentAllowed(caller[t], request[t], Genesis)
        /\ Endorsed(t, Unread, s)
    BY DEF EndorseCreateStudentUnread
  <1>2. caller[t] \in Users /\ request[t] \in Request
    BY <1>1, ConstantsAssumption DEF IInv, Proposed
  <1>3. s \in Student /\ s.graduated = FALSE
    BY <1>1, <1>2, NewStudentIsStudent
  <1>4. put'[t] = s /\ readVer'[t] = Unread
    BY <1>1 DEF Endorsed, IInv, TypeOK
  <1>5. BlindCreation(t)'
    BY <1>1, <1>3, <1>4 DEF BlindCreation, Endorsed, ledgerVars
  <1>6. QED BY <1>1, <1>3, <1>5, EndorsedIInv

LEMMA EndorseUpdateStudentIInv ==
  ASSUME IInv, NEW t \in Txns, NEW p \in Peers, EndorseUpdateStudent(t, p)
  PROVE  IInv'
  <1> DEFINE w == chain[height[p]]
             id == request[t].id
             s == UpdatedStudent(caller[t], request[t], w.student[id].val)
  <1>1. /\ stage[t] = "proposed" /\ request[t].op = "UpdateStudent"
        /\ UpdateStudentAllowed(caller[t], request[t], w)
        /\ Endorsed(t, w.student[id].ver, s)
    BY DEF EndorseUpdateStudent
  <1>2. request[t] \in Request /\ id \in IDs
    BY <1>1, RequestFields, ConstantsAssumption DEF IInv, Proposed
  <1>3. w \in World /\ height[p] \in DOMAIN chain /\ w.student[id].ver \in Nat
    BY <1>2, ChainWorlds, EntryOfWorld
  <1>4. w.student[id].val # NoStudent /\ w.student[id].val \in Student
    BY <1>1, <1>2, <1>3, EntryOfWorld DEF UpdateStudentAllowed, StudentExists
  <1>5. s \in Student
    BY <1>1, <1>2, <1>4, UpdatedStudentIsStudent
  <1>6. put'[t] = s /\ readVer'[t] = w.student[id].ver
    BY <1>1 DEF Endorsed, IInv, TypeOK
  <1>7. UNCHANGED <<chain, caller, request>>
    BY <1>1 DEF Endorsed, ledgerVars
  <1>8. \E n \in DOMAIN chain : ReadAndPut(t, chain[n].student[request[t].id])'
    BY <1>1, <1>3, <1>4, <1>6, <1>7 DEF ReadAndPut
  <1>9. QED BY <1>1, <1>3, <1>5, <1>8, EndorsedIInv

LEMMA EndorseCreateStudentGradeIInv ==
  ASSUME IInv, NEW t \in Txns, NEW p \in Peers, NEW date \in Dates,
         EndorseCreateStudentGrade(t, p, date)
  PROVE  IInv'
  <1> DEFINE w == chain[height[p]]
             id == request[t].id
             g == NewGrade(caller[t], request[t], w, date)
  <1>1. /\ stage[t] = "proposed" /\ request[t].op = "CreateStudentGrade"
        /\ CreateStudentGradeAllowed(caller[t], request[t], w)
        /\ Endorsed(t, w.student[id].ver, g)
    BY DEF EndorseCreateStudentGrade
  <1>2. request[t] \in Request /\ id \in IDs /\ request[t].mark \in Marks
    BY <1>1, RequestFields, ConstantsAssumption DEF IInv, Proposed
  <1>3. w \in World /\ height[p] \in DOMAIN chain /\ w.student[id].ver \in Nat
    BY <1>2, ChainWorlds, EntryOfWorld
  <1>4. w.student[id].val # NoStudent /\ w.student[id].val \in Student
    BY <1>1, <1>2, <1>3, EntryOfWorld
    DEF CreateStudentGradeAllowed, QueryStudentAllowed, StudentExists
  <1>5. g \in Grade /\ g.school = w.student[id].val.school
    BY <1>2, <1>4 DEF NewGrade, Grade, Student
  <1>6. put'[t] = g /\ readVer'[t] = w.student[id].ver
    BY <1>1 DEF Endorsed, IInv, TypeOK
  <1>7. UNCHANGED <<chain, caller, request>>
    BY <1>1 DEF Endorsed, ledgerVars
  <1>8. \E n \in DOMAIN chain : ReadAndPut(t, chain[n].student[request[t].id])'
    BY <1>1, <1>3, <1>4, <1>5, <1>6, <1>7 DEF ReadAndPut
  <1>9. QED BY <1>1, <1>3, <1>5, <1>8, EndorsedIInv

\* The heart of the argument: an endorsement whose read is still current has
\* read the entry at the head of the chain, whichever peer gave it.
LEMMA CurrentReadIsTip ==
  ASSUME IInv, NEW t \in Txns, stage[t] = "endorsed", ReadIsCurrent(t)
  PROVE  BlindCreation(t) \/ ReadAndPut(t, Tip.student[request[t].id])
  <1>1. CASE BlindCreation(t)
    BY <1>1
  <1>2. ASSUME NEW n \in DOMAIN chain, ReadAndPut(t, chain[n].student[request[t].id])
        PROVE  ReadAndPut(t, Tip.student[request[t].id])
    <2>1. request[t].id \in IDs
      BY RequestFields, ConstantsAssumption DEF IInv, Proposed
    <2>2. readVer[t] = chain[n].student[request[t].id].ver
      BY <1>2 DEF ReadAndPut
    <2>3. chain[n].student[request[t].id].ver \in Nat
      BY <2>1, ChainWorlds, EntryOfWorld
    <2>4. readVer[t] = Tip.student[request[t].id].ver
      BY <2>2, <2>3 DEF ReadIsCurrent, Unread
    <2>5. chain[n].student[request[t].id] = Tip.student[request[t].id]
      BY <2>1, <2>2, <2>4, ChainWorlds DEF Tip, IInv, VersionsAreFresh
    <2>6. QED BY <1>2, <2>5
  <1>3. QED BY <1>1, <1>2 DEF IInv, ReadsAreFaithful

\* What the commit of a transaction for a student does to the state at the tip.
LEMMA StudentCommitted ==
  ASSUME IInv, NEW t \in Txns, CommitStudent(t)
  PROVE  /\ request[t].id \in IDs
         /\ put[t] \in Student
         /\ Tip' = PutStudent(Tip, request[t].id, Len(chain) + 1, put[t])
         /\ Commits(t, request[t].id)
         /\ \A i \in IDs : Tip'.student[i].val
              = IF i = request[t].id THEN put[t] ELSE Tip.student[i].val
         /\ Tip'.grades = Tip.grades
         /\ Tip \in World
  <1> DEFINE id == request[t].id
             w == PutStudent(Tip, id, Len(chain) + 1, put[t])
  <1>1. /\ stage[t] = "endorsed" /\ request[t].op \in {"CreateStudent", "UpdateStudent"}
        /\ ReadIsCurrent(t)
    BY DEF CommitStudent
  <1>2. request[t] \in Request /\ id \in IDs
    BY <1>1, RequestFields, ConstantsAssumption DEF IInv, Proposed
  <1>3. Tip \in World
    BY ChainWorlds DEF Tip
  <1>4. put[t] \in Student
    <2>1. CASE BlindCreation(t)
      BY <2>1 DEF BlindCreation
    <2>2. CASE ReadAndPut(t, Tip.student[id])
      <3>1. Tip.student[id].val \in Student \cup {NoStudent}
        BY <1>2, <1>3, EntryOfWorld
      <3>2. QED BY <1>1, <1>2, <2>2, <3>1, UpdatedStudentIsStudent DEF ReadAndPut
    <2>3. QED BY <1>1, <2>1, <2>2, CurrentReadIsTip
  <1>5. Tip' = w
    BY ChainWorlds DEF Tip, CommitStudent
  <1>6. Commits(t, id)
    BY <1>1 DEF Commits, CommitStudent, IInv, TypeOK
  <1> HIDE DEF id
  <1>7. /\ \A i \in IDs : w.student[i].val = IF i = id THEN put[t] ELSE Tip.student[i].val
        /\ w.grades = Tip.grades
    BY <1>2, <1>3, <1>4 DEF PutStudent, World, Entry
  <1>8. QED BY <1>2, <1>3, <1>4, <1>5, <1>6, <1>7 DEF id

LEMMA GradeCommitted ==
  ASSUME IInv, NEW t \in Txns, CommitGrade(t)
  PROVE  /\ request[t].id \in IDs
         /\ put[t] \in Grade
         /\ Tip' = PutGrade(Tip, request[t].id, put[t])
         /\ Tip.student[request[t].id].val # NoStudent
         /\ put[t].school = Tip.student[request[t].id].val.school
         /\ Tip'.student = Tip.student
         /\ Tip'.grades = [Tip.grades EXCEPT ![request[t].id][put[t].school] = Append(@, put[t])]
         /\ Tip \in World
  <1> DEFINE id == request[t].id
             w == PutGrade(Tip, id, put[t])
  <1>1. /\ stage[t] = "endorsed" /\ request[t].op = "CreateStudentGrade"
        /\ ReadIsCurrent(t)
    BY DEF CommitGrade
  <1>2. request[t] \in Request /\ id \in IDs
    BY <1>1, RequestFields, ConstantsAssumption DEF IInv, Proposed
  <1>3. Tip \in World
    BY ChainWorlds DEF Tip
  <1>4. /\ put[t] \in Grade
        /\ Tip.student[id].val # NoStudent
        /\ put[t].school = Tip.student[id].val.school
    BY <1>1, CurrentReadIsTip DEF ReadAndPut, BlindCreation
  <1>5. Tip' = w
    BY ChainWorlds DEF Tip, CommitGrade
  <1>6. /\ w.student = Tip.student
        /\ w.grades = [Tip.grades EXCEPT ![id][put[t].school] = Append(@, put[t])]
    BY DEF PutGrade
  <1>7. QED BY <1>2, <1>3, <1>4, <1>5, <1>6

LEMMA CommitStudentIInv ==
  ASSUME IInv, NEW t \in Txns, CommitStudent(t)
  PROVE  IInv'
  <1> DEFINE id == request[t].id
             ver == Len(chain) + 1
             w == PutStudent(Tip, id, ver, put[t])
  <1>1. /\ id \in IDs /\ put[t] \in Student /\ Tip \in World /\ ver \in Nat
        /\ put[t] # NoStudent
    BY StudentCommitted, ChainWorlds, ConstantsAssumption
  <1>2. /\ stage[t] = "endorsed"
        /\ chain' = Append(chain, w) /\ stage' = [stage EXCEPT ![t] = "committed"]
        /\ UNCHANGED <<height, caller, request, readVer, put>>
    BY DEF CommitStudent
  <1> HIDE DEF ver, id
  <1>3. /\ w \in World
        /\ w.student[id] = [ver |-> ver, val |-> put[t]]
        /\ \A i \in IDs \ {id} : w.student[i] = Tip.student[i]
    BY <1>1 DEF PutStudent, World, Entry
  <1>4. \A i \in IDs : \/ w.student[i] = Tip.student[i]
                      \/ (w.student[i].ver = ver /\ w.student[i].val # NoStudent)
    BY <1>1, <1>3
  <1>5. w.student[id].ver = ver
    BY <1>3
  <1> HIDE DEF w
  <1>6. QED BY <1>2, <1>3, <1>4, <1>5, CommitIInv DEF id, ver

LEMMA CommitGradeIInv ==
  ASSUME IInv, NEW t \in Txns, CommitGrade(t)
  PROVE  IInv'
  <1> DEFINE w == PutGrade(Tip, request[t].id, put[t])
  <1>1. /\ stage[t] = "endorsed" /\ request[t].op = "CreateStudentGrade"
        /\ chain' = Append(chain, w) /\ stage' = [stage EXCEPT ![t] = "committed"]
        /\ UNCHANGED <<height, caller, request, readVer, put>>
    BY DEF CommitGrade
  <1>2. w \in World /\ w.student = Tip.student
    BY GradeCommitted, PutGradeWorld
  <1> HIDE DEF w
  <1>3. QED BY <1>1, <1>2, CommitIInv

LEMMA NextIInv == IInv /\ [Next]_vars => IInv'
  <1> SUFFICES ASSUME IInv, [Next]_vars PROVE IInv'
    OBVIOUS
  <1>1. ASSUME NEW t \in Txns, NEW u \in Users, NEW req \in Requests, Propose(t, u, req)
        PROVE  IInv'
    BY <1>1, ProposeIInv
  <1>2. ASSUME NEW t \in Txns, NEW p \in Peers, NEW date \in Dates,
               EndorseCreateStudent(t, p, date) \/ EndorseCreateStudentGrade(t, p, date)
        PROVE  IInv'
    BY <1>2, EndorseCreateStudentIInv, EndorseCreateStudentGradeIInv
  <1>3. ASSUME NEW t \in Txns, NEW date \in Dates, EndorseCreateStudentUnread(t, date)
        PROVE  IInv'
    BY <1>3, EndorseCreateStudentUnreadIInv
  <1>4. ASSUME NEW t \in Txns, NEW p \in Peers, EndorseUpdateStudent(t, p)
        PROVE  IInv'
    BY <1>4, EndorseUpdateStudentIInv
  <1>5. ASSUME NEW t \in Txns, NEW p \in Peers, Refuse(t, p)
        PROVE  IInv'
    BY <1>5, DroppedIInv DEF Refuse
  <1>6. ASSUME NEW t \in Txns, CommitStudent(t) \/ CommitGrade(t)
        PROVE  IInv'
    BY <1>6, CommitStudentIInv, CommitGradeIInv
  <1>7. ASSUME NEW t \in Txns, Invalidate(t)
        PROVE  IInv'
    BY <1>7, DroppedIInv DEF Invalidate
  <1>8. ASSUME NEW p \in Peers, ApplyBlock(p)
        PROVE  IInv'
    BY <1>8, ApplyBlockIInv
  <1>9. CASE UNCHANGED vars
    BY <1>9 DEF vars, IInv, TypeOK, Proposed, VersionsAreBlocks, VersionsAreFresh,
       ReadsAreFaithful, BlindCreation, ReadAndPut, CreationsAreWritten, Tip
  <1>10. QED
    BY <1>1, <1>2, <1>3, <1>4, <1>5, <1>6, <1>7, <1>8, <1>9 DEF Next

-----------------------------------------------------------------------------
(* The theorems *)

\* The inductive invariant holds throughout.
THEOREM InvariantHolds == Spec => []IInv
  <1>1. QED BY InitIInv, NextIInv, PTL DEF Spec

\* Every variable keeps its type: in particular no student is ever stored without
\* a school, and no block refers to a key outside the registry.
THEOREM TypeCorrect == Spec => []TypeOK
  <1>1. IInv => TypeOK
    BY DEF IInv
  <1>2. QED BY <1>1, InvariantHolds, PTL

\* What a step does to the chain: nothing, or the commit of one transaction.
LEMMA ChainStep ==
  ASSUME [Next]_vars
  PROVE  \/ UNCHANGED chain
         \/ \E t \in Txns : CommitStudent(t) \/ CommitGrade(t)
  BY DEF Next, vars, Propose, EndorseCreateStudent, EndorseCreateStudentGrade,
     EndorseCreateStudentUnread, EndorseUpdateStudent, Endorsed, Refuse, Invalidate,
     ApplyBlock, ledgerVars

\* Registration is for good, for every number of students, users and peers.
THEOREM RegistrationTheorem == Spec => RegistrationIsForGood
  <1> DEFINE Kept(id) ==
        Registered(id) =>
          /\ Registered(id)'
          /\ \/ Tip'.student[id].val.created = Tip.student[id].val.created
             \/ \E t \in Txns : Commits(t, id) /\ readVer[t] = Unread
  <1>1. ASSUME IInv, [Next]_vars, NEW id \in IDs PROVE UNCHANGED chain \/ Kept(id)
    <2>1. CASE UNCHANGED chain
      BY <2>1
    <2>2. ASSUME NEW t \in Txns, CommitGrade(t) PROVE Kept(id)
      BY <1>1, <2>2, GradeCommitted DEF Registered
    <2>3. ASSUME NEW t \in Txns, CommitStudent(t) PROVE Kept(id)
      <3>1. CASE id # request[t].id
        BY <1>1, <2>3, <3>1, StudentCommitted DEF Registered
      <3>2. CASE id = request[t].id /\ BlindCreation(t)
        BY <1>1, <2>3, <3>2, StudentCommitted, ConstantsAssumption
        DEF Registered, BlindCreation
      <3>3. CASE id = request[t].id /\ ReadAndPut(t, Tip.student[id])
        <4> SUFFICES ASSUME Registered(id) PROVE Kept(id)
          OBVIOUS
        <4>1. Tip.student[id].val \in Student /\ request[t] \in Request
          BY <1>1, <2>3, StudentCommitted, EntryOfWorld, ConstantsAssumption
          DEF Registered, IInv, Proposed, CommitStudent
        <4>2. /\ request[t].op = "UpdateStudent"
              /\ put[t] = UpdatedStudent(caller[t], request[t], Tip.student[id].val)
          BY <2>3, <3>3 DEF Registered, ReadAndPut, CommitStudent
        <4>3. put[t].created = Tip.student[id].val.created
          BY <4>1, <4>2, UpdatedStudentIsStudent
        <4>4. Tip'.student[id].val = put[t] /\ put[t] # NoStudent
          BY <1>1, <2>3, <3>3, StudentCommitted, ConstantsAssumption
        <4>5. QED BY <4>3, <4>4 DEF Registered
      <3>4. QED BY <1>1, <2>3, <3>1, <3>2, <3>3, CurrentReadIsTip DEF CommitStudent
    <2>4. QED BY <1>1, <2>1, <2>2, <2>3, ChainStep
  <1>2. IInv /\ [Next]_vars => [\A id \in IDs : Kept(id)]_chain
    BY <1>1
  <1>3. QED BY <1>2, InvariantHolds, PTL DEF Spec, RegistrationIsForGood

\* A transaction becomes committed by its own commit only, and nothing about a
\* committed transaction changes.
LEMMA StageStep ==
  ASSUME IInv, [Next]_vars, NEW t \in Txns, stage'[t] = "committed"
  PROVE  /\ UNCHANGED <<request[t], readVer[t], put[t]>>
         /\ \/ stage[t] = "committed"
            \/ CommitStudent(t) \/ CommitGrade(t)
  BY DEF Next, vars, Propose, EndorseCreateStudent, EndorseCreateStudentGrade,
     EndorseCreateStudentUnread, EndorseUpdateStudent, Endorsed, Refuse, Invalidate,
     CommitStudent, CommitGrade, ApplyBlock, ledgerVars, IInv, TypeOK

\* A creation that read its key is committed only while the number is free.
LEMMA CreationFindsNothing ==
  ASSUME IInv, NEW t \in Txns, CommitStudent(t), request[t].op = "CreateStudent",
         readVer[t] # Unread
  PROVE  Tip.student[request[t].id].ver = 0
  <1>1. ReadAndPut(t, Tip.student[request[t].id])
    BY CurrentReadIsTip DEF CommitStudent, BlindCreation
  <1>2. Tip.student[request[t].id].val = NoStudent
    BY <1>1 DEF ReadAndPut
  <1>3. QED BY <1>2, StudentCommitted, ChainWorlds DEF IInv, VersionsAreBlocks, Tip

\* Of the creations of one number that read their key, one at most is committed.
THEOREM OneCreationTheorem == Spec => []OneCreationPerStudent
  <1> DEFINE Wins(t) == /\ stage[t] = "committed"
                        /\ request[t].op = "CreateStudent"
                        /\ readVer[t] # Unread
  <1>1. Init => OneCreationPerStudent
    BY DEF Init, OneCreationPerStudent
  <1>2. IInv /\ OneCreationPerStudent /\ [Next]_vars => OneCreationPerStudent'
    <2> SUFFICES ASSUME IInv, OneCreationPerStudent, [Next]_vars,
                        NEW t1 \in Txns, NEW t2 \in Txns, Wins(t1)', Wins(t2)',
                        request'[t1].id = request'[t2].id
                 PROVE  t1 = t2
      BY DEF OneCreationPerStudent
    <2>1. /\ UNCHANGED <<request[t1], readVer[t1], request[t2], readVer[t2]>>
          /\ stage[t1] = "committed" \/ CommitStudent(t1)
          /\ stage[t2] = "committed" \/ CommitStudent(t2)
      BY StageStep DEF CommitGrade
    <2>2. ASSUME NEW x \in Txns, NEW y \in Txns, stage[x] = "committed", CommitStudent(y),
                 request[x].op = "CreateStudent", request[y].op = "CreateStudent",
                 readVer[y] # Unread, request[x].id = request[y].id
          PROVE  FALSE
      BY <2>2, CreationFindsNothing DEF IInv, CreationsAreWritten
    <2>3. CASE stage[t1] = "committed" /\ stage[t2] = "committed"
      BY <2>1, <2>3 DEF OneCreationPerStudent
    <2>4. CASE CommitStudent(t1) /\ CommitStudent(t2)
      <3>1. stage[t2] = "endorsed" /\ stage' = [stage EXCEPT ![t1] = "committed"]
        BY <2>4 DEF CommitStudent
      <3>2. QED BY <3>1 DEF IInv, TypeOK
    <2>5. QED BY <2>1, <2>2, <2>3, <2>4
  <1>3. QED BY <1>1, <1>2, InvariantHolds, PTL DEF Spec

\* Every school under which a grade was put is one the student attended.
THEOREM GradedSchoolsTheorem == Spec => []GradedSchoolsWereAttended
  <1>1. Init => GradedSchoolsWereAttended
    BY DEF Init, GradedSchoolsWereAttended, Tip, Genesis
  <1>2. IInv /\ GradedSchoolsWereAttended /\ [Next]_vars => GradedSchoolsWereAttended'
    <2> DEFINE Attended(id, school) ==
          \E n \in DOMAIN chain : /\ chain[n].student[id].val # NoStudent
                                 /\ chain[n].student[id].val.school = school
    <2> SUFFICES ASSUME IInv, GradedSchoolsWereAttended, [Next]_vars,
                        NEW id \in IDs, NEW school \in Schools,
                        Tip'.grades[id][school] # <<>>
                 PROVE  Attended(id, school)'
      BY DEF GradedSchoolsWereAttended
    <2>1. CASE UNCHANGED chain
      BY <2>1 DEF GradedSchoolsWereAttended, Tip
    <2>2. ASSUME NEW t \in Txns, CommitStudent(t) \/ CommitGrade(t)
          PROVE  Attended(id, school)'
      <3>1. \A n \in DOMAIN chain : n \in DOMAIN chain' /\ chain'[n] = chain[n]
        <4>1. PICK w : chain' = Append(chain, w)
          BY <2>2 DEF CommitStudent, CommitGrade
        <4>2. chain \in Seq(World \cup {w}) /\ w \in World \cup {w}
          BY DEF IInv, TypeOK
        <4>3. QED BY <4>1, <4>2
      <3>2. Attended(id, school) => Attended(id, school)'
        BY <3>1
      <3>3. CASE Tip.grades[id][school] # <<>>
        BY <3>2, <3>3 DEF GradedSchoolsWereAttended
      <3>4. CASE Tip.grades[id][school] = <<>>
        <4>1. CommitGrade(t)
          BY <2>2, <3>4, StudentCommitted
        <4>2. id = request[t].id /\ school = put[t].school
          <5> DEFINE g == put[t]
                     book == Tip.grades
          <5>1. /\ Tip'.grades = [book EXCEPT ![request[t].id][g.school] = Append(@, g)]
                /\ book \in [IDs -> [Schools -> Seq(Grade)]]
                /\ request[t].id \in IDs /\ g.school \in Schools
            BY <4>1, GradeCommitted DEF World, Grade
          <5> HIDE DEF g, book
          <5>2. id # request[t].id \/ school # g.school => Tip'.grades[id][school] = book[id][school]
            BY <5>1
          <5>3. QED BY <3>4, <5>2 DEF g, book
        <4>3. Len(chain) \in DOMAIN chain /\ Tip = chain[Len(chain)]
          BY ChainWorlds DEF Tip
        <4>4. Attended(id, school)
          BY <4>1, <4>2, <4>3, GradeCommitted
        <4>5. QED BY <3>2, <4>4
      <3>5. QED BY <3>3, <3>4
    <2>3. QED BY <2>1, <2>2, ChainStep
  <1>3. QED BY <1>1, <1>2, InvariantHolds, PTL DEF Spec

\* A student changes school only by the commit of an update that names the new
\* school: an update endorsed before somebody else's change of school, and
\* committed after it, never brings the old school back.
THEOREM SchoolTheorem == Spec => SchoolChangesOnRequest
  <1> DEFINE Asked(id) ==
        Registered(id) /\ Tip'.student[id].val.school # Tip.student[id].val.school =>
          \E t \in Txns :
            /\ Commits(t, id)
            /\ \/ readVer[t] = Unread
               \/ /\ request[t].op = "UpdateStudent"
                  /\ request[t].school = Tip'.student[id].val.school
  <1>1. ASSUME IInv, [Next]_vars, NEW id \in IDs PROVE UNCHANGED chain \/ Asked(id)
    <2>1. CASE UNCHANGED chain
      BY <2>1
    <2>2. ASSUME NEW t \in Txns, CommitGrade(t) PROVE Asked(id)
      BY <1>1, <2>2, GradeCommitted
    <2>3. ASSUME NEW t \in Txns, CommitStudent(t) PROVE Asked(id)
      <3>1. CASE id # request[t].id
        BY <1>1, <2>3, <3>1, StudentCommitted
      <3>2. CASE id = request[t].id /\ BlindCreation(t)
        BY <1>1, <2>3, <3>2, StudentCommitted DEF BlindCreation
      <3>3. CASE id = request[t].id /\ ReadAndPut(t, Tip.student[id])
        <4> SUFFICES ASSUME Registered(id),
                            Tip'.student[id].val.school # Tip.student[id].val.school
                     PROVE  /\ Commits(t, id)
                            /\ request[t].op = "UpdateStudent"
                            /\ request[t].school = Tip'.student[id].val.school
          OBVIOUS
        <4>1. Commits(t, id) /\ Tip'.student[id].val = put[t]
          BY <1>1, <2>3, <3>3, StudentCommitted
        <4>2. /\ request[t].op = "UpdateStudent"
              /\ put[t] = UpdatedStudent(caller[t], request[t], Tip.student[id].val)
          BY <2>3, <3>3 DEF Registered, ReadAndPut, CommitStudent
        <4>3. QED BY <4>1, <4>2 DEF UpdatedStudent
      <3>4. QED BY <1>1, <2>3, <3>1, <3>2, <3>3, CurrentReadIsTip DEF CommitStudent
    <2>4. QED BY <1>1, <2>1, <2>2, <2>3, ChainStep
  <1>2. IInv /\ [Next]_vars => [\A id \in IDs : Asked(id)]_chain
    BY <1>1
  <1>3. QED BY <1>2, InvariantHolds, PTL DEF Spec, SchoolChangesOnRequest

\* The history of a grade key only grows at its end.
LEMMA GradesAreKept ==
  ASSUME IInv, [Next]_vars, NEW id \in IDs, NEW school \in Schools,
         NEW i \in DOMAIN Tip.grades[id][school]
  PROVE  /\ i \in DOMAIN Tip'.grades[id][school]
         /\ Tip'.grades[id][school][i] = Tip.grades[id][school][i]
  <1>1. CASE UNCHANGED chain
    BY <1>1 DEF Tip
  <1>2. ASSUME NEW t \in Txns, CommitStudent(t)
        PROVE  Tip'.grades = Tip.grades
    BY <1>2, StudentCommitted
  <1>3. ASSUME NEW t \in Txns, CommitGrade(t)
        PROVE  /\ i \in DOMAIN Tip'.grades[id][school]
               /\ Tip'.grades[id][school][i] = Tip.grades[id][school][i]
    <2> DEFINE g == put[t]
               book == Tip.grades
    <2>1. /\ Tip'.grades = [book EXCEPT ![request[t].id][g.school] = Append(@, g)]
          /\ book \in [IDs -> [Schools -> Seq(Grade)]]
          /\ request[t].id \in IDs /\ g \in Grade /\ g.school \in Schools
      BY <1>3, GradeCommitted DEF World, Grade
    <2> HIDE DEF g, book
    <2>2. \/ Tip'.grades[id][school] = book[id][school]
          \/ Tip'.grades[id][school] = Append(book[id][school], g)
      BY <2>1
    <2>3. book[id][school] \in Seq(Grade) /\ i \in DOMAIN book[id][school]
      BY <2>1 DEF book
    <2>4. /\ i \in DOMAIN Tip'.grades[id][school]
          /\ Tip'.grades[id][school][i] = book[id][school][i]
      <3> DEFINE old == book[id][school]
                 new == Tip'.grades[id][school]
      <3>1. /\ old \in Seq(Grade) /\ g \in Grade /\ i \in DOMAIN old
            /\ new = old \/ new = Append(old, g)
        BY <2>1, <2>2, <2>3
      <3> HIDE DEF old, new
      <3>2. i \in DOMAIN new /\ new[i] = old[i]
        BY <3>1
      <3>3. QED BY <3>2 DEF old, new
    <2>5. QED BY <2>4 DEF book
  <1>4. QED BY <1>1, <1>2, <1>3, ChainStep

\* Every committed grade can be queried for ever after.
THEOREM QueryTheorem == Spec => []QueryReturnsEveryGrade
  <1> DEFINE Kept(t) ==
        \E school \in Schools : \E i \in DOMAIN Tip.grades[request[t].id][school] :
          Tip.grades[request[t].id][school][i] = put[t]
      AllKept == \A t \in Txns : stage[t] = "committed" /\ request[t].op = "CreateStudentGrade"
                               => Kept(t)
  <1>1. Init => AllKept
    BY DEF Init
  <1>2. IInv /\ AllKept /\ [Next]_vars => AllKept'
    <2> SUFFICES ASSUME IInv, AllKept, [Next]_vars, NEW t \in Txns,
                        stage'[t] = "committed", request'[t].op = "CreateStudentGrade"
                 PROVE  Kept(t)'
      OBVIOUS
    <2>1. /\ UNCHANGED <<request[t], put[t]>>
          /\ stage[t] = "committed" \/ CommitGrade(t)
      BY StageStep DEF CommitStudent
    <2>2. CASE stage[t] = "committed"
      <3>0. PICK school \in Schools : \E i \in DOMAIN Tip.grades[request[t].id][school] :
              Tip.grades[request[t].id][school][i] = put[t]
        BY <2>1, <2>2
      <3>1. PICK i \in DOMAIN Tip.grades[request[t].id][school] :
              Tip.grades[request[t].id][school][i] = put[t]
        BY <3>0
      <3>2. request[t].id \in IDs
        BY <2>2, RequestFields, ConstantsAssumption DEF IInv, Proposed
      <3>3. QED BY <2>1, <3>1, <3>2, GradesAreKept
    <2>3. CASE CommitGrade(t)
      <3> DEFINE g == put[t]
                 id == request[t].id
                 book == Tip.grades
      <3>1. /\ Tip'.grades = [book EXCEPT ![id][g.school] = Append(@, g)]
            /\ book \in [IDs -> [Schools -> Seq(Grade)]]
            /\ id \in IDs /\ g \in Grade /\ g.school \in Schools
        BY <2>3, GradeCommitted DEF World, Grade
      <3> HIDE DEF g, book, id
      <3>2. Tip'.grades[id][g.school] = Append(book[id][g.school], g)
        BY <3>1
      <3>3. \E i \in DOMAIN Tip'.grades[id][g.school] : Tip'.grades[id][g.school][i] = g
        <4>1. book[id][g.school] \in Seq(Grade)
          BY <3>1
        <4>2. /\ Len(book[id][g.school]) + 1 \in DOMAIN Tip'.grades[id][g.school]
              /\ Tip'.grades[id][g.school][Len(book[id][g.school]) + 1] = g
          BY <3>1, <3>2, <4>1
        <4>3. QED BY <4>2
      <3>4. \E school \in Schools : \E i \in DOMAIN Tip'.grades[request[t].id][school] :
              Tip'.grades[request[t].id][school][i] = put[t]
        BY <3>1, <3>3 DEF g, id
      <3>5. QED BY <2>1, <3>4
    <2>4. QED BY <2>1, <2>2, <2>3
  <1>3. IInv /\ AllKept => QueryReturnsEveryGrade
    <2> SUFFICES ASSUME IInv, AllKept, NEW t \in Txns, stage[t] = "committed",
                        request[t].op = "CreateStudentGrade"
                 PROVE  \E r \in QueryStudentGrades(request[t].id, Tip) : r.grade = put[t]
      BY DEF QueryReturnsEveryGrade
    <2>0. PICK school \in Schools : \E i \in DOMAIN Tip.grades[request[t].id][school] :
            Tip.grades[request[t].id][school][i] = put[t]
      OBVIOUS
    <2>1. PICK i \in DOMAIN Tip.grades[request[t].id][school] :
            Tip.grades[request[t].id][school][i] = put[t]
      BY <2>0
    <2>2. [place |-> <<school, i>>, grade |-> put[t]] \in QueryStudentGrades(request[t].id, Tip)
      BY <2>1 DEF QueryStudentGrades
    <2>3. QED BY <2>2
  <1> HIDE DEF AllKept
  <1>4. QED BY <1>1, <1>2, <1>3, InvariantHolds, PTL DEF Spec

-----------------------------------------------------------------------------
(* The transactions implement the registry. *)

students == [id \in IDs |-> Tip.student[id].val]

LEMMA RegistryInit == Init => Registry!Init
  <1> SUFFICES ASSUME Init PROVE Registry!Init
    OBVIOUS
  <1>1. Tip = Genesis
    BY DEF Init, Tip
  <1>2. /\ \A id \in IDs : Tip.student[id].val = NoStudent
        /\ Tip.grades = [id \in IDs |-> [school \in Schools |-> <<>>]]
    BY <1>1 DEF Genesis
  <1>3. QED BY <1>2 DEF Registry!Init

\* The commit of a creation registers a student, at once.
LEMMA CreationEnrols ==
  ASSUME IInv, NEW t \in Txns, NEW id \in IDs, id = request[t].id,
         CommitStudent(t), request[t].op = "CreateStudent"
  PROVE  Registry!Enrol(id)
  <1>1. /\ id \in IDs /\ put[t] \in Student /\ Tip'.grades = Tip.grades
        /\ students' = [students EXCEPT ![id] = put[t]]
    BY StudentCommitted DEF students
  <1>2. BlindCreation(t) \/ ReadAndPut(t, Tip.student[id])
    BY CurrentReadIsTip DEF CommitStudent
  <1>3. ~ put[t].graduated /\ (students[id] = NoStudent \/ StateReadsMayFail)
    BY <1>1, <1>2 DEF BlindCreation, ReadAndPut, students
  <1>4. put[t] \in Registry!Student
    BY <1>1 DEF Student, Registry!Student
  <1>5. QED BY <1>1, <1>3, <1>4 DEF Registry!Enrol, students

\* The commit of an update revises the record that is there at that moment.
LEMMA UpdateRevises ==
  ASSUME IInv, NEW t \in Txns, NEW id \in IDs, id = request[t].id,
         CommitStudent(t), request[t].op = "UpdateStudent"
  PROVE  Registry!Revise(id)
  <1>1. /\ id \in IDs /\ put[t] \in Student /\ Tip'.grades = Tip.grades
        /\ Tip \in World
        /\ students' = [students EXCEPT ![id] = put[t]]
    BY StudentCommitted DEF students
  <1>2. ReadAndPut(t, Tip.student[id])
    BY CurrentReadIsTip DEF CommitStudent, BlindCreation
  <1>3. students[id] # NoStudent /\ students[id] = Tip.student[id].val
    BY <1>1, <1>2 DEF ReadAndPut, students
  <1>4. students[id] \in Student /\ request[t] \in Request
    BY <1>1, <1>3, EntryOfWorld, ConstantsAssumption DEF IInv, Proposed, CommitStudent
  <1>5. put[t].created = students[id].created
    BY <1>2, <1>3, <1>4, UpdatedStudentIsStudent DEF ReadAndPut
  <1>6. put[t] \in Registry!Student
    BY <1>1 DEF Student, Registry!Student
  <1>7. QED BY <1>1, <1>3, <1>5, <1>6 DEF Registry!Revise, students

\* The commit of a grade marks it under the school the student attends then.
LEMMA GradeMarks ==
  ASSUME IInv, NEW t \in Txns, NEW id \in IDs, id = request[t].id,
         CommitGrade(t)
  PROVE  Registry!Mark(id)
  <1>1. /\ id \in IDs /\ put[t] \in Grade
        /\ students' = students
        /\ students[id] # NoStudent /\ put[t].school = students[id].school
        /\ Tip'.grades = [Tip.grades EXCEPT ![id][put[t].school] = Append(@, put[t])]
    BY GradeCommitted DEF students
  <1>2. put[t] \in Registry!Grade
    BY <1>1 DEF Grade, Registry!Grade
  <1>3. QED BY <1>1, <1>2 DEF Registry!Mark, students

LEMMA RegistryStep ==
  ASSUME IInv, [Next]_vars
  PROVE  [Registry!Next]_(Registry!vars)
  <1>1. CASE UNCHANGED chain
    BY <1>1 DEF Registry!vars, Tip
  <1>2. ASSUME NEW t \in Txns, CommitStudent(t) PROVE Registry!Next
    <2>1. PICK id \in IDs : id = request[t].id
      BY <1>2, StudentCommitted
    <2>2. request[t].op \in {"CreateStudent", "UpdateStudent"}
      BY <1>2 DEF CommitStudent
    <2>3. Registry!Enrol(id) \/ Registry!Revise(id)
      BY <1>2, <2>1, <2>2, CreationEnrols, UpdateRevises
    <2>4. QED BY <2>3 DEF Registry!Next
  <1>3. ASSUME NEW t \in Txns, CommitGrade(t) PROVE Registry!Next
    <2>1. PICK id \in IDs : id = request[t].id
      BY <1>3, GradeCommitted
    <2>2. Registry!Mark(id)
      BY <1>3, <2>1, GradeMarks
    <2>3. QED BY <2>2 DEF Registry!Next
  <1>4. QED BY <1>1, <1>2, <1>3, ChainStep

\* Whatever the peers' lag and the order of endorsements and commits, the ledger
\* evolves as if every committed operation had happened at once.
THEOREM RegistryTheorem == Spec => ImplementsRegistry
  <1>1. Init => Registry!Init
    BY RegistryInit
  <1>2. IInv /\ [Next]_vars => [Registry!Next]_(Registry!vars)
    BY RegistryStep
  <1>3. QED
    BY <1>1, <1>2, InvariantHolds, PTL DEF Spec, ImplementsRegistry, Registry!Spec
=============================================================================
