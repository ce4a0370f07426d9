SPECIFICATION FairSpec
CONSTANTS
    Machines = {m1, w1}
    First = m1
    Workers = {w1}
    NoMachine = NoMachine
    Lagging = {"controlplane", "bootstrap"}
    TornReads = FALSE
    Legacy = TRUE
    MaxFaults = 1
    TTLs = {ok, bad}
    Malformed = {bad}
    NoTTL = NoTTL
    MaxRequests = 2
    MaxOutdated = 1
    RefreshFaults = {"clear", "expiry", "mark", "plan", "run", "finish", "fail", "crash"}
INVARIANTS TypeOK OneAuthority TokensAgree DoneMeansRefreshed RefreshesAccounted
PROPERTIES AllJoin WithdrawalClears
