\* One caller at a time, the documented use.
SPECIFICATION RetrySpec
CONSTANTS
    good = good
    old = old
    plain = plain
    r1 = r1
    r2 = r2
    c1 = c1
    c2 = c2
    c3 = c3
    p1 = p1
    p2 = p2
    None = None
    Callers <- OneCaller
    Keys <- MCKeys
    HmacKeys <- MCHmacKeys
    TwoKeys <- MCTwoKeys
    Conns <- MCConns
    RPs <- MCRPs
    MaxFaults = 1
INVARIANTS
    TypeOK
    NoLeak
    CommandsOnlySupported
    TokenFits
    PromptedOnce
PROPERTIES
    SessionSticky
    CallsReturn
    TryAgain
