SPECIFICATION FairSpec
CONSTANTS
    Subject = {ip}
    Caller = {o1, o2, o3}
    MaxRequests = 3
    Window = 3
    Crashes = TRUE
    Prompt = TRUE
    Unset = Unset
INVARIANTS
    LimiterTypeOK
    LessThanTwice
PROPERTIES
    Unblocks
