CONSTANTS
    m1 = m1
    m2 = m2
    Mapping = {m1, m2}
    NoMapping = NoMapping
    Limit = 1
    MaxFaults = 2
SPECIFICATION FairSpec
INVARIANTS
    SentOnlyAgainstPayment
    RepeatedSendNeedsFault
PROPERTIES
    EveryMappingConcludes
