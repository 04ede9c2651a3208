CONSTANTS
    MaxId = 1
    HostIds = 1
    MaxBytes = 2
    MaxPayload = 2
    Window = 1
    AckModes = {TRUE, FALSE}
    Openers = {"host"}
    MaxRestarts = 0
SPECIFICATION Spec
INVARIANTS
    ClosingWaitsForWrite
    StreamIntact
    CreditConserved
    NoStall
    SilentAfterClose
    OverdraftBounded
PROPERTIES
    ClosingDrains
CHECK_DEADLOCK FALSE
