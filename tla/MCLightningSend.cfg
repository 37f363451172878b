CONSTANTS
    h1 = h1
    h2 = h2
    Hash = {h1, h2}
    NoJob = NoJob
    FinalDelta <- MCFinalDelta
    InboundDelta = 6
    FailBackBuffer = 2
    CltvBuffer = 1
    Margin = 2
    JobBlocks = 1
    RestartSettings = {TRUE, FALSE}
    MaxHeight = 7
    MaxFaults = 2
SPECIFICATION FairSpec
INVARIANTS
    PayAtMostOnce
    DeliveryResolvesInTime
    QuoteLeavesRoomToPay
PROPERTIES
    RelayIsAtomic
    CollectsWhileHeld
    PreimageIsRecorded
CHECK_DEADLOCK FALSE
