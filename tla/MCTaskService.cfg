SPECIFICATION Spec
CONSTANTS
    Request = {"r1", "r2", "r3"}
    Job = {"j1", "j2", "j3", "j4"}
    owner <- MCOwner
    Capacity = 2
INVARIANT NothingLost
PROPERTY NeverRestarted
CHECK_DEADLOCK FALSE
