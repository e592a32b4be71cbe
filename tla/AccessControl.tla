---------------------------- MODULE AccessControl ----------------------------
(***************************************************************************)
(* Who may call the student contract: chaincode/sm/accesscontrol.go.       *)
(*                                                                         *)
(* A caller is known to the chaincode by its X.509 certificate only.  Cert *)
(* gives, for every user, what the contract reads from it: the MSP that    *)
(* issued it, its organizational units, the value of the hf.Affiliation    *)
(* attribute split at the dots (NoAffiliation when the attribute is not    *)
(* in the certificate) and the identity string GetID() returns.            *)
(***************************************************************************)
EXTENDS Naturals, Sequences

CONSTANTS Users, Cert, NoAffiliation

Bureau == "EducationBureauMSP"

\* The affiliations AssertManager asks for.
ManagerAffiliations ==
  { <<"bureau", "manager">>, <<"school1", "manager">>, <<"school2", "manager">> }

\* Despite its name and its comment, the loop compares position by position:
\* the required parts must be the first parts of the user's affiliation.
IsSubset(userAffiliations, requiredParts) ==
  /\ Len(userAffiliations) >= Len(requiredParts)
  /\ \A i \in DOMAIN requiredParts : userAffiliations[i] = requiredParts[i]

CheckAffiliation(u, requiredAffiliations) ==
  \/ "admin" \in Cert[u].units
  \/ Cert[u].msp = Bureau
  \/ /\ Cert[u].affiliation # NoAffiliation
     /\ \E required \in requiredAffiliations : IsSubset(Cert[u].affiliation, required)

AssertManager(u) == CheckAffiliation(u, ManagerAffiliations)

\* GetID() is the certificate's subject and issuer: a student whose record is
\* kept under exactly that string owns the record.
AssertStateOwner(u, studentID) == Cert[u].id = studentID
=============================================================================
