CONSTANTS
    t1 = t1
    t2 = t2
    addr1 = addr1
    Transports = {t1, t2}
    Serials = {addr1}
    Serial <- OneSerial
    Emulators = {}
    MaxAttempts = 1
SPECIFICATION FairSpec
INVARIANTS
    SerialsUnique
PROPERTIES
    LostIsResolved
    KickedIsDeleted
CHECK_DEADLOCK FALSE
