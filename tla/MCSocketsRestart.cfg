CONSTANTS
    MaxId = 2
    HostIds = 1
    MaxBytes = 1
    MaxPayload = 1
    Window = 1
    AckModes = {TRUE, FALSE}
    Openers = {"host"}
    MaxRestarts = 1
SPECIFICATION Spec
INVARIANTS
    PeersAgree
    SameServer
CHECK_DEADLOCK FALSE
