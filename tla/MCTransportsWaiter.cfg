CONSTANTS
    t1 = t1
    t2 = t2
    addr1 = addr1
    Transports = {t1}
    Serials = {t1}
    Serial <- OwnSerials
    Emulators = {}
    MaxAttempts = 1
SPECIFICATION Spec
INVARIANT WaiterReadsLive
CHECK_DEADLOCK FALSE
