\* Two answers that come too late, one command off.
SPECIFICATION Spec
CONSTANTS
    r1 = r1
    r2 = r2
    s1 = s1
    s2 = s2
    RPs <- MCRPs
    Salts <- MCSalts
    None = None
    Garbage = Garbage
    MaxCalls = 4
    MaxKeys = 1
SYMMETRY Symmetric
INVARIANT
    SecretIsRightAlways
CHECK_DEADLOCK FALSE
