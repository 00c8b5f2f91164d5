SPECIFICATION FairSpec
CONSTANTS
    h1 = h1
    a1 = a1
    NoHandle = NoHandle
    Attributes = {a1}
    NSlots = 1
    AclBuffers = 1
    DefaultMtu = 4
    MaxLinks = 2
    Lens = {2}
    QueueCap = 2
    CmdCap = 1
    Batch = 2
    MaxNotify = 2
    h2 = h2
    Handles = {h1}
    Mtus = {4, 5}
    MaxWrites = 2
INVARIANTS
    NoCrossDelivery
    StateForLiveOnly
    NoTruncation
    DeliveredInOrder
PROPERTIES
    ProvidesService
    ReportsEvents
    CccdOfItsLink
    AcceptedLeaves
    ShutdownEnds
