SPECIFICATION Spec
CONSTANTS
    Handles = {h1, h2}
    Chars = {c, d}
    Readable = {c}
    Writable = {c}
    Notifying = {d}
    Lens = {1, 2, 3}
    MaxValue = 2
    Room = 1
    MaxChanges = 1
SYMMETRY Symmetry
INVARIANTS
    OneSnapshot
    NotStale
PROPERTIES
    PeerAndApplicationAgree
