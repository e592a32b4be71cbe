--------------------------- MODULE StudentRegistry ---------------------------
(***************************************************************************)
(* What the student contract promises its callers: a registry in which     *)
(* every operation happens at once, on the registry as it stands.          *)
(***************************************************************************)
EXTENDS Naturals, Sequences

CONSTANTS IDs, Names, Profiles, Schools, Marks, Dates, NoStudent,
          MayReplace  \* whether a registration may replace an earlier one

VARIABLES students,  \* the record of each identity-card number
          grades     \* for a student and a school, the grades given there, oldest first

vars == <<students, grades>>

Student == [name : Names, profile : Profiles, school : Schools,
            graduated : BOOLEAN, created : Dates]

Grade == [school : Schools, mark : Marks, date : Dates]

Init == /\ students = [id \in IDs |-> NoStudent]
        /\ grades = [id \in IDs |-> [school \in Schools |-> <<>>]]

\* A number is registered once, as a student who has not graduated.
Enrol(id) == /\ students[id] = NoStudent \/ MayReplace
             /\ \E s \in Student : /\ ~ s.graduated
                                   /\ students' = [students EXCEPT ![id] = s]
             /\ UNCHANGED grades

\* A registered student's record is revised, never its date of creation.
Revise(id) == /\ students[id] # NoStudent
              /\ \E s \in Student : /\ s.created = students[id].created
                                    /\ students' = [students EXCEPT ![id] = s]
              /\ UNCHANGED grades

\* A grade goes on the record of the school the student attends at that moment.
Mark(id) == /\ students[id] # NoStudent
            /\ \E g \in Grade :
                 /\ g.school = students[id].school
                 /\ grades' = [grades EXCEPT ![id][g.school] = Append(@, g)]
            /\ UNCHANGED students

Next == \E id \in IDs : Enrol(id) \/ Revise(id) \/ Mark(id)

Spec == Init /\ [][Next]_vars
=============================================================================
