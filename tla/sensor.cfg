SPECIFICATION FairSpec
CONSTANTS
    MaxSamples = 3
    Periods = {1}
    MaxChanges = 3
CHECK_DEADLOCK FALSE
INVARIANTS TypeOK WindowIsLatest
PROPERTIES KeepsReading JoinReturns
