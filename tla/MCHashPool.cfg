CONSTANTS
    p1 = p1
    p2 = p2
    p3 = p3
    p4 = p4
    p5 = p5
    r1 = r1
    r2 = r2
    PaymentHash = {p1, p2, p3, p4, p5}
    NoHash = NoHash
    MaxIndex = 5
    BatchMaxSize = 2
    PoolMaxSize = 3
    Request = {r1, r2}
    MaxFaults = 3
SPECIFICATION Spec
SYMMETRY MCSymmetry
INVARIANTS
    HashesAreDistinct
    PoolMatchesInvoices
    SlotsAreFinalizedInOrder
    LiveHashesAreBounded
    OrderMatchesPool
PROPERTY AcceptedStays
CHECK_DEADLOCK FALSE
