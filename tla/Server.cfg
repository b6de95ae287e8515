SPECIFICATION MCSpec
CONSTANTS
    Clients = {c1, c2}
    Passwords = {p1, p2}
    Empty = empty
    Null = null
SYMMETRY Symmetry
INVARIANTS RestrictedRights 
CHECK_DEADLOCK FALSE
