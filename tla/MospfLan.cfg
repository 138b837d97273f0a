CONSTANTS
    r1 = r1
    r2 = r2
    r3 = r3
    a = a
    Router = {r1, r2, r3}
    Net = {a}
    Attached <- LanAttached
    SeqLimit = 5
    QueueLen = 1
    MaxSaid = 4
SPECIFICATION HSpec
INVARIANTS OneEntryPerOrigin NoOwnEntry
PROPERTY ImplementsDb
SYMMETRY LanSymmetry
CHECK_DEADLOCK FALSE
