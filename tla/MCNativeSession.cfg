SPECIFICATION SessionSpec
CONSTANTS
    Callers = {c1, c2}
    Nobody = Nobody
    Connections = {1, 2}
    TX = TX
    MaxEvents = 3
INVARIANTS
    Barrier
    RunTellsTheTruth
    CaughtUp
PROPERTIES
    ServesSession
    CallersReturn
    DeadLeave
