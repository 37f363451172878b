CONSTANTS
    m1 = m1
    m2 = m2
    Mapping = {m1}
    NoMapping = NoMapping
    Limit = 1
    MaxFaults = 0
SPECIFICATION FairSpec
INVARIANT ExpiredMeansUnpaid
