\* One device, three I/Os of either kind, any of which may be given up.
SPECIFICATION Spec
CONSTANTS
    MaxIOs = 3
    MaxReports = 3
    PacketLen = 2
    OutLens = {0, 2, 3, 4}
INVARIANTS
    ReadsInOrder
    WritesArrive
    OneLossPerRead
PROPERTY
    LossesComeFirst
CHECK_DEADLOCK FALSE
