\* An authenticator with a PIN, right and wrong ones entered.
SPECIFICATION Spec
CONSTANTS
    r1 = r1
    r2 = r2
    s1 = s1
    s2 = s2
    RPs <- MCRPs
    Salts <- MCSalts
    None = None
    Garbage = Garbage
    MaxCalls = 4
    MaxKeys = 2
SYMMETRY Symmetric
INVARIANTS
    SecretIsRight
    TokensGood
    CredentialIsNew
    RightPINIsFree
CHECK_DEADLOCK FALSE
