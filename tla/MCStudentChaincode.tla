-------------------------- MODULE MCStudentChaincode --------------------------
EXTENDS StudentChaincode, TLC

CONSTANTS bureau, manager1, manager2, ann, none

MCSchools == {"School1MSP", "School2MSP"}

MCCert ==
  [u \in Users |->
     CASE u = bureau -> [msp |-> Bureau, units |-> {"client"}, affiliation |-> none, id |-> bureau]
       [] u = manager1 -> [msp |-> "School1MSP", units |-> {"client"},
                           affiliation |-> <<"school1", "manager", "staff">>, id |-> manager1]
       [] OTHER -> [msp |-> "School2MSP", units |-> {"client"},
                    affiliation |-> <<"school2", "manager">>, id |-> u]]

Create(id, school) == [op |-> "CreateStudent", id |-> id, name |-> "Ann",
                       profile |-> "2024", school |-> school]
Update(id, school) == [op |-> "UpdateStudent", id |-> id, name |-> "Ann",
                       profile |-> "2025", school |-> school, graduated |-> FALSE]
GradeOf(id) == [op |-> "CreateStudentGrade", id |-> id, mark |-> "A"]

MCRequests == UNION { {Create(id, ""), Create(id, "School2MSP"), Update(id, ""),
                       Update(id, "School1MSP"), GradeOf(id)} : id \in IDs }

Symmetry == Permutations(Txns) \cup Permutations(Peers)
===============================================================================
