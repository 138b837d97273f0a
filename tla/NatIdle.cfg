CONSTANTS
    in = in
    out = out
    none = none
    NULL = NULL
    Octet = 4
    Internal <- OneInternal
    Remote <- OneRemote
    HashSize = 1
    Hash <- OneBucket
    PortMin = 2
    PortMax = 3
    Rules <- NoRules
    MaxSeq = 1
    Flags = {"ACK"}
    Timeout = 1
SPECIFICATION HSpec
PROPERTY OnlyIdleExpire
