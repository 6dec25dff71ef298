\* Two keys and a keyboard, plugged in and out at any moment.
SPECIFICATION FairSpec
CONSTANTS
    k1 = k1
    k2 = k2
    keyboard = keyboard
    None = None
    Devices <- MCDevices
    Fido <- MCFido
    Paths = {1, 2, 3}
    Platforms <- AllPlatforms
INVARIANTS
    TypeOK
    FindsThoseThatStay
    NothingLeftBehind
PROPERTIES
    OpensWhatWasFound
    ConnectEnds
