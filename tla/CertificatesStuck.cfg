SPECIFICATION FairSpec
CONSTANTS
    Machines = {m1}
    First = m1
    Workers = {}
    NoMachine = NoMachine
    Lagging = {}
    TornReads = FALSE
    Legacy = FALSE
    MaxFaults = 1
    TTLs = {ok}
    Malformed = {}
    NoTTL = NoTTL
    MaxRequests = 1
    MaxOutdated = 0
    RefreshFaults = {"plan"}
PROPERTY EventuallyRefreshed
