SPECIFICATION Spec
CONSTANTS
    p1 = p1
    p2 = p2
    served = served
    conv = conv
    odd = odd
    Asset = {served, conv, odd}
    Supported = {served}
    Convertible = {conv, odd}
    Pairs <- const_Pairs
    Preference <- const_Preference
    Precision <- const_Precision
    None = None
    Peers = {p1, p2}
    Visited = {p1}
    Fundable <- const_Fundable
    Handles = {x, y}
    RetryLimit = 2
    Requests = {r}
    Cron = Cron
    MaxFaults = 1
INVARIANTS HandlesAreStable AnswersAgree PromisesAreKept
PROPERTY ChannelGetsPinned
