CONSTANTS
    in = in
    out = out
    none = none
    NULL = NULL
    Octet = 4
    Internal <- MCInternal
    Remote <- MCRemote
    HashSize = 1
    Hash <- OneBucket
    PortMin = 2
    PortMax = 4
    Rules <- MCRules
    MaxSeq = 1
    Flags = {"ACK", "FIN"}
    Timeout = 1
SPECIFICATION FairSpec
INVARIANTS TypeOK PoolAccurate AnswersReachSender
PROPERTIES StableTranslation PortsReclaimed
