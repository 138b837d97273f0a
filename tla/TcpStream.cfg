CONSTANTS
    Data <- MCData
    Byte <- MCByte
    Zero = 0
    Mss = 2
    Capacity = 3
    ReadSize = 2
    Interval = 1
SPECIFICATION Spec
INVARIANTS TypeOK UnackedKept
PROPERTIES ImplementsStream TransferEnds
CHECK_DEADLOCK FALSE
