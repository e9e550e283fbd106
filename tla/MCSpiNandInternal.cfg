\* Internal ECC: table and markers agree; every command may fail.
CONSTANTS
    NBlks   = 2
    NPages  = 4
    EccType = "ECC_INTERNAL_SPI"
    Faults  = TRUE
    Spans   <- MCSpans
SPECIFICATION FairSpec
INVARIANTS TypeOK RetiredStaysBad BbtMatchesFlash
PROPERTIES OnlyRangeTouched IsBadBlockManager CallReturns
