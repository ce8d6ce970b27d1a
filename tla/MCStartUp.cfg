CONSTANTS
    Cpu <- MCCpu
    Housekeeping <- MCHousekeeping
    Hot <- MCHot
    Rest = {"logger", "acceptor"}
    Exchange = {"handler", "acceptor"}
    cpu <- MCCore
    WordBits = 6
    Ask = {}
    Align = {4}
    HotSize = 10
    Slack = 2
    kHugePageSize = 8
    SmallPage = 4
    CacheLine = 4
SPECIFICATION StartUpSpec
INVARIANTS GaugeHonest FifoNailed NobodyStarved
