SPECIFICATION FairSpec
CONSTANTS
    IncomingCap = 2
    MaxPackets = 2
    MaxSends = 3
    MaxTraffic = 9
    Sizes = {1, 2}
INVARIANTS
    GaplessUntilError
    OvertakesOneEvent
    FalseSuccessIsLate
PROPERTIES
    StopReported
    DropReturns
