SPECIFICATION Spec
CONSTANTS
    MaxSamples = 3
    Periods = {1}
    MaxChanges = 2
CHECK_DEADLOCK FALSE
INVARIANT IndexInRange
