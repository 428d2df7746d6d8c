SPECIFICATION SessionFairSpec
CONSTANTS
    Requests = {0, 1, 2, 3}
    aLower = aLower
    aUpper = aUpper
    Addresses = {aLower, aUpper}
    Lower <- MCLower
    Passwords = {p1, p2}
    None = None
INVARIANTS
    AccountsInv
    TabInv
PROPERTIES
    PageSettles
CHECK_DEADLOCK FALSE
