SPECIFICATION Spec
CONSTANTS
    r1 = r1
    r2 = r2
    on = on
    off = off
    Requests <- TwoRequests
    Settings <- OnOff
    MaxClock = 2
INVARIANTS TypeOK CacheIsStored
PROPERTY EtagRenewedUnlessLarge
