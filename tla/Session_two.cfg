\* Two callers without a lock between them.
SPECIFICATION Spec
CONSTANTS
    good = good
    old = old
    plain = plain
    r1 = r1
    r2 = r2
    c1 = c1
    c2 = c2
    c3 = c3
    p1 = p1
    p2 = p2
    None = None
    Callers <- TwoCallers
    Keys <- GoodAndOld
    HmacKeys <- GoodAndOld
    TwoKeys <- OnlyGood
    Conns <- ThreeConns
    RPs <- OneRP
    MaxFaults = 0
SYMMETRY Symmetric
INVARIANTS
    NoUseAfterClose
    TouchAtMostOncePerCall
    OpenHandlesBounded
