SPECIFICATION Spec
CONSTANTS
    Users = {"manager", "officer"}
    Bureau <- Officers
    SchoolOf <- OneEach
    Schools = {"School1MSP", "School2MSP"}
    Passwords = {p1, p2}
    IDs <- Numbers
    Names = {"a", "b"}
    Enrolled <- FirstAndLast
    Size = 1
    NoUser = NoUser
    NoAccount = NoAccount
    NoStudent = NoStudent
    NoPage = NoPage
    MaxActs = 6
    MaxFaults = 1
INVARIANTS
    TypeOK
    WalkReachesEveryStudent
    OwnWritesShown
    BureauCannotCreate
PROPERTIES
    SchoolIsKept
    LockedOutStays
CHECK_DEADLOCK FALSE
SYMMETRY Symmetry
