SPECIFICATION FairSpec
CONSTANTS
    Owners = {a, b}
    Nobody = Nobody
    MaxDevices = 2
INVARIANTS
    OneSession
    ConnectionOutlivesServer
    NoOrphanRequest
PROPERTIES
    StopReleases
    OwnerGetsSession
