SPECIFICATION Spec
CONSTANTS
    served = served
    conv = conv
    Asset = {served, conv}
    Supported = {served}
    Convertible = {conv}
    Pairs <- const_Pairs
    Preference <- const_Preference
    Precision <- const_Precision
    None = None
    Peers = {p1}
    Min = 1
    Target = 2
    MaxNum = 2
    MaxReceives = 1
    MaxFaults = 1
    MaxChannelChanges = 2
INVARIANTS NoSecondChannel GraceHolds ChoiceIsKept
PROPERTIES NoStacking PeerIsServed PoolIsRefilled
