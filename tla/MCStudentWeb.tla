---------------------------- MODULE MCStudentWeb ----------------------------
(* One visit of the page of students, by a manager of a school or of the *)
(* bureau, with three students on pages of one.                          *)
EXTENDS StudentWeb, TLC

Symmetry == Permutations(Passwords)

Numbers == 1 .. 3
OneEach == [u \in {"manager", "officer"} |-> IF u = "manager" THEN "School1MSP" ELSE "EducationBureauMSP"]
Officers == {"officer"}
FirstAndLast == [i \in Numbers |-> IF i = 1 THEN [name |-> "a", school |-> "School2MSP"]
                                   ELSE IF i = 3 THEN [name |-> "a", school |-> "School1MSP"]
                                   ELSE NoStudent]

=============================================================================
