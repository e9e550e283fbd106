\* Three blocks, 24 addresses, failing commands.
CONSTANTS
    AddrSpace  = 24
    Blocks     = 3
    BlockSize  = 4
    SectorSize = 2
    SmallEnds  = TRUE
    Spans      <- MCSpans
    Faults     = TRUE
SPECIFICATION FairSpec
INVARIANTS TypeOK NeedsWpsel RangeDone OthersKept QueryTells
PROPERTIES CallReturns
