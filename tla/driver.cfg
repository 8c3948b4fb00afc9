\* A probe that went on with no registers ends in an oops.
CHECK_DEADLOCK FALSE
SPECIFICATION Spec
CONSTANTS
    Users = {u1, u2}
    Operations = {0, 11}
    MaxNumbers = 2
    Faults <- AllFaults
INVARIANTS TypeOK FilesAreServed Released NoUserMeetsUnmapped SleepsWhenReleased
