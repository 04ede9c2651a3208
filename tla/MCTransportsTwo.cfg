CONSTANTS
    t1 = t1
    t2 = t2
    addr1 = addr1
    Transports = {t1, t2}
    Serials = {t1, t2}
    Serial <- OwnSerials
    Emulators = {t2}
    MaxAttempts = 1
SPECIFICATION Spec
INVARIANTS
    Custody
    PacketsLive
    StartsFresh
CHECK_DEADLOCK FALSE
