\* Software ECC, transfers that fail, fail bits, power cuts.
CONSTANTS
    NBlks   = 2
    NPages  = 3
    NSteps  = 2
    EccType = "ECC_SW_BCH"
    ChipEcc = FALSE
    Faults  = TRUE
    Spans   <- MCSpans
SPECIFICATION Spec
INVARIANTS TypeOK SuccessMeansDone RetiredStaysBad NoPhantomBad WholeWindow
PROPERTIES OnlyRangeTouched
