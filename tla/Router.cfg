CONSTANTS
    i1 = i1
    i2 = i2
    eth = eth
    m1 = m1
    m2 = m2
    all = all
    Mac <- MCMac
    NoPacket = NoPacket
    NoAddress = NoAddress
    Ip = {5, 9, 10}
    Iface <- MCIface
    Neighbour = {5, 9, 10}
    Packet <- MCPacket
    Kernel <- MCKernel
    Bits = 4
    Size = 2
    EntryTimeout = 0
    MaxRetries = 3
SPECIFICATION RFairSpec
INVARIANTS TypeOK OneEntryPerHost OneRequestPerTarget PendingMeansUnknown
INVARIANTS BuffersAccounted RightWay
PROPERTIES PendingLeaves NoOvertaking NoneLostInSilence
