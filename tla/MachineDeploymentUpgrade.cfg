SPECIFICATION FairSpec
CONSTANTS
    Options = {o1, o2}
    NoOption = NoOption
    Base = o1
    Machines = {1, 2, 3}
    NoMachine = 0
    MachineSets = {{1, 2, 3}}
    Joining = {3}
    Leaving = {1}
    Lagging = {}
    Retarget = FALSE
    MaxRequests = 1
    MaxFailures = 1
    MaxErrors = 1
    MaxChanges = 9
INVARIANTS TypeOK OneAtATime
PROPERTIES DoneMeansUpgraded EventuallyAllUpgraded
CHECK_DEADLOCK FALSE
