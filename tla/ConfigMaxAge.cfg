SPECIFICATION Spec
CONSTANTS
    r1 = r1
    r2 = r2
    on = on
    off = off
    Requests <- OneRequest
    Settings <- JustOn
    MaxClock = 1
PROPERTY EtagRenewed
