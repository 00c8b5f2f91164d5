SPECIFICATION Spec
CONSTANTS
    IncomingCap = 1
    MaxPackets = 1
    MaxSends = 2
    MaxTraffic = 9
    Sizes = {1, 2}
INVARIANTS
    SendSynchronous
