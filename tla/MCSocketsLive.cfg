CONSTANTS
    MaxId = 1
    HostIds = 1
    MaxBytes = 1
    MaxPayload = 1
    Window = 1
    AckModes = {FALSE}
    Openers = {"host", "device"}
    MaxRestarts = 1
SPECIFICATION FairSpec
PROPERTIES
    HangupCloses
    OpenAnswered
    OrphanCloses
CHECK_DEADLOCK FALSE
