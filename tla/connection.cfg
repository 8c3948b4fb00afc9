SPECIFICATION Spec
CONSTANTS
    k1 = k1
    Clients = {k1}
    Requests <- MCRequests
    Tails <- MCTails
    Remains <- MCRemains
    Missing <- MCMissing
    Faults = {"socket", "setsockopt", "bind", "inet_ntop", "getsockname", "listen", "fork", "malloc", "signal"}
    MaxAddresses = 2
    MaxFds = 3
    MaxRequests = 2
    RequestSize = 4
INVARIANTS TypeOK AnswersMatch EndsAreSeen StrayCloses
PROPERTY ChildrenEnd
CHECK_DEADLOCK FALSE
