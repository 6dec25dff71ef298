\* Descriptors whose usage page and usage items have a value.
SPECIFICATION Spec
CONSTANTS
    Items <- FidoItems
    MaxItems = 8
INVARIANTS
    OnlyWithBothReports
    AcceptsWellFormed
CHECK_DEADLOCK FALSE
