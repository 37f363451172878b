CONSTANTS
    m1 = m1
    m2 = m2
    Mapping = {m1, m2}
    NoMapping = NoMapping
    MaxFaults = 2
SPECIFICATION FairSpec
INVARIANTS
    CompletedMeansDelivered
PROPERTIES
    RecordedIsNotSentTwice
    DeliveredIsConcluded
CHECK_DEADLOCK FALSE
