SPECIFICATION FairSpec
CONSTANTS
    Options = {o1, o2}
    NoOption = NoOption
    Base = o1
    Machines = {m1, m2}
    NoMachine = NoMachine
    Joining = {}
    Leaving = {m1}
    Lagging = {}
    Retarget = FALSE
    MaxRequests = 2
    MaxFailures = 1
    MaxErrors = 1
    MaxChanges = 9
INVARIANTS TypeOK OneAtATime UpgradingHoldsLock ReleaseIsInstalled NoNeedlessRefresh
PROPERTIES RollingSpec EventuallyAllUpgraded
CHECK_DEADLOCK FALSE
