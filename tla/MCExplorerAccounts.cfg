SPECIFICATION Spec
CONSTANTS
    Root = root
    Users = {root, u1, u2}
    Requests = {q1, q2}
    NoUser = NoUser
    NoRole = NoRole
    MaxStarts = 2
    MaxFaults = 1
INVARIANTS
    TypeOK
    RootAdminStays
    ServerIsWhole
PROPERTIES
    RemovedCompletely
    PartialEnrolmentIsFinal
CHECK_DEADLOCK FALSE
SYMMETRY Symmetry
