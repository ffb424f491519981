SPECIFICATION Spec
CONSTANTS
    Users = {u1, u2}
    NoUser = NoUser
INVARIANT EntryForUser
CHECK_DEADLOCK FALSE
