SPECIFICATION Spec
CONSTANTS
    Users = {u1, u2}
    Priorities = {100, 998}
    MaxActs = 3
INVARIANT HighestPriority
CHECK_DEADLOCK FALSE
