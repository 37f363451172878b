CONSTANTS
    h1 = h1
    Hash = {h1}
    NoJob = NoJob
    InboundDelta = 6
    OutboundDelta = 1
    FailBackBuffer = 2
    CltvBuffer = 1
    Margin = 1
    JobBlocks = 1
    MaxHeight = 7
    MaxFaults = 3
SPECIFICATION FairSpec
INVARIANTS
    AckedMeansRecorded
    FailedMeansUnpaid
PROPERTIES
    RequestLeavesRoom
    PaymentIsAtomic
    CollectsWhileHeld
    PreimageIsRecorded
    UsesOutbox
CHECK_DEADLOCK FALSE
