\* Every platform, with a fair authenticator where Read has no timeout.
SPECIFICATION FairSpec
CONSTANTS
    InitBody = 3
    ContBody = 2
    SeqSpace = 2
    MaxLen = 11
    NonceLen = 1
    InitLen = 2
    ReqLens = {3, 11, 12}
    RespLens = {0, 8}
    Statuses = {1}
    MaxKeepAlives = 2
    MaxForeign = 1
    MaxCalls = 4
    Platforms <- AllPlatforms
INVARIANTS
    TypeOK
    NoResidue
    AnswersItsRequest
    WholeRequest
    ChannelIsOurs
PROPERTIES
    ImplementsExchange
    CallReturns
CHECK_DEADLOCK FALSE
