SPECIFICATION Spec
CONSTANTS
    Users = {u1, u2}
    Texts = {a, b}
    Requests = {1, 2}
    MaxId = 4
    Names = {n1, n2}
INVARIANTS
    ApiInv
PROPERTY
    OnlyTheOwnerWrites
CHECK_DEADLOCK FALSE
