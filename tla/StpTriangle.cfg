CONSTANTS
    Switch <- Switches
    Port <- TrianglePorts
    Owner <- TriangleOwner
    Id <- TriangleId
    Peers <- TrianglePeers
    Dist <- TriangleDist
    NoPort = NoPort
    QueueLen = 1
SPECIFICATION FairSpec
INVARIANTS TypeOK NoOverclaim ParentIsCloser CostIsAchievable HelloOnlyAtRoots
PROPERTIES StatusImproves RootElected
