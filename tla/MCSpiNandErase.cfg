\* No fault at all: does an erase that reports success cover its range?
CONSTANTS
    NBlks   = 2
    NPages  = 4
    EccType = "ECC_INTERNAL_SPI"
    Faults  = FALSE
    Spans   <- MCSpans
SPECIFICATION Spec
INVARIANT EraseCoversRange
