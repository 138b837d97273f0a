CONSTANTS
    Switch <- Switches
    Port <- ValleyPorts
    Owner <- ValleyOwner
    Id <- ValleyId
    Peers <- ValleyPeers
    Dist <- ValleyDist
    NoPort = NoPort
    QueueLen = 1
SPECIFICATION ReliableSpec
PROPERTY OneDesignatedPerSegment
