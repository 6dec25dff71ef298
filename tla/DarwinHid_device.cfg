\* One device, opened, read and closed while reports arrive.
SPECIFICATION FairSpec
CONSTANT
    MaxReports = 4
INVARIANTS
    TypeOK
    CallbackNeverBlocks
    OpenIsServed
    ClosedIsReleased
PROPERTIES
    CloseEnds
    ImplementsLatest
CHECK_DEADLOCK FALSE
