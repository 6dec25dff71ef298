\* Descriptors with items of value zero.
SPECIFICATION Spec
CONSTANTS
    Items <- ZeroItems
    MaxItems = 5
INVARIANT
    OnlyWithBothReports
CHECK_DEADLOCK FALSE
