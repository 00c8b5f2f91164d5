SPECIFICATION FairSpec
CONSTANTS
    Kinds = {2, 4}
    Chunk = 4
    Buffer <- MCBuffer
    MaxAcl = 10
    Payloads = {0, 1, 2, 4, 6, 8, 14}
    MaxPackets = 3
INVARIANTS
    OnlyWholePackets
PROPERTIES
    EveryPacketArrives
