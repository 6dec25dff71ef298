\* Every authenticator data of up to ten bytes of four values.
SPECIFICATION Spec
CONSTANTS
    FixedLen = 2
    FlagsAt = 1
    AAGUIDLen = 1
    Base = 4
    MaxBytes = 10
INVARIANT
    ReadsTheLayout
CHECK_DEADLOCK FALSE
