CONSTANTS
    Switch <- Switches
    Port <- LinePorts
    Owner <- LineOwner
    Id <- LineId
    Peers <- LinePeers
    Dist <- LineDist
    NoPort = NoPort
    QueueLen = 2
    MaxRestarts = 1
SPECIFICATION FSpec
INVARIANT FTypeOK
PROPERTIES LoopsAreTransient RootElectedAgain
CHECK_DEADLOCK FALSE
