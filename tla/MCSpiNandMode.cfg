\* Every build; commands may fail and the chip may ignore writes.
CONSTANTS
    Builds   <- MCBuilds
    Faults   = TRUE
    Refusals = TRUE
SPECIFICATION Spec
INVARIANTS TypeOK CacheCoherent RunsInMode
