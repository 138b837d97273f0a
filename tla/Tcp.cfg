CONSTANTS
    c1 = c1
    c2 = c2
    listener = listener
    Client <- MCClient
    Listener = listener
    Iss = {5}
    Window = 65535
    Backlog = 1
    MaxFaults = 1
SPECIFICATION Spec
INVARIANTS TypeOK NoLostWakeup SeqAgree TablesHoldLive
CHECK_DEADLOCK FALSE
PROPERTIES AcceptReturns GivenBackOnce
