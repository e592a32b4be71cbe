SPECIFICATION Spec
CONSTANTS
    Root = root
    Users = {root, u1, u2}
    Requests = {q1, q2}
    NoUser = NoUser
    NoRole = NoRole
    MaxStarts = 1
    MaxFaults = 0
INVARIANTS
    UsernamesAreUnique
CHECK_DEADLOCK FALSE
SYMMETRY Symmetry
