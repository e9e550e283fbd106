\* Software ECC, no fault: do table and markers still agree?
CONSTANTS
    NBlks   = 2
    NPages  = 4
    EccType = "ECC_SW_BCH"
    Faults  = FALSE
    Spans   <- MCSwSpans
SPECIFICATION Spec
INVARIANT BbtMatchesFlash
