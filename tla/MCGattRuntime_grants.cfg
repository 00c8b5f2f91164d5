SPECIFICATION Spec
CONSTANTS
    h1 = h1
    a1 = a1
    NoHandle = NoHandle
    Attributes = {a1}
    NSlots = 2
    AclBuffers = 1
    DefaultMtu = 4
    MaxLinks = 2
    Lens = {1}
    QueueCap = 2
    CmdCap = 1
    Batch = 1
    MaxNotify = 2
    h2 = h2
    Handles = {h1, h2}
    Mtus = {4}
    MaxWrites = 2
SYMMETRY Symmetry
INVARIANTS
    GrantHonoured
