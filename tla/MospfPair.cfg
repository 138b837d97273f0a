CONSTANTS
    Router = {1, 2}
    Net = {"a"}
    Attached <- PairAttached
    SeqLimit = 3
    QueueLen = 2
    MaxRestarts = 2
SPECIFICATION TSpec
INVARIANT TypeOK
PROPERTY DatabasesAgree
CHECK_DEADLOCK FALSE
