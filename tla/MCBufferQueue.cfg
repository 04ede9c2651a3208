CONSTANTS
    t1 = t1
    t2 = t2
    s1 = s1
    s2 = s2
    s3 = s3
    b1 = b1
    b2 = b2
    NoBuffer = NoBuffer
    NoSlot = NoSlot
    Threads = {t1, t2}
    Dequeuers = {t1}
    Allocators = {t2}
    Managers = {t1}
    Slots = {s1, s2, s3}
    Buffers = {b1, b2}
    MaxFrames = 2
    DequeuedCounts = {1, 2}
    LateLimits = FALSE
    ByApps = {FALSE}
    AcquiredCounts = {1, 2}
    BufferCounts = {1, 3}
    Resizes = {TRUE}
    Failures = {FALSE}
    Batches = {FALSE}
SPECIFICATION Spec
INVARIANTS
    TypeOK
    Consistent
    OwnedByProducer
    OwnedByConsumer
    ConsumerKnows
    NoLostWakeup
PROPERTIES
    CallbacksInOrder
SYMMETRY Alike
CHECK_DEADLOCK FALSE
