\* Every shape of list, with every wait timing out, and the calibrations.
CONSTANTS
    Devices <- MCDevices
    PollUs  = 2
SPECIFICATION FairSpec
INVARIANTS TypeOK CsReleased ReadsFresh InTheEye
PROPERTIES WaitsForTheChip IsPacketChannel OperationReturns
