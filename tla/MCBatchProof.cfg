SPECIFICATION Spec
CONSTANTS
    Orders = {o1, o2}
    BatchIds = {b1, b2}
    PaymentHash = {h1, h2, h3}
    MaxIndex = 3
    MaxRequests = 3
    None = None
SYMMETRY Symmetry
INVARIANTS ProofVerifies BatchIsWhole
CHECK_DEADLOCK FALSE
