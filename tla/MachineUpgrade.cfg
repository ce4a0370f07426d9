SPECIFICATION FairUpgradeSpec
CONSTANTS
    Options = {o1, o2}
    NoOption = NoOption
    Base = o1
    Machines = {m1}
    NoMachine = NoMachine
    Joining = {}
    Leaving = {m1}
    Lagging = {}
    Retarget = FALSE
    MaxRequests = 2
    MaxFailures = 2
    MaxErrors = 2
    MaxChanges = 9
INVARIANTS UpgradeTypeOK ReleaseIsInstalled NoNeedlessRefresh
PROPERTY EventuallyUpgraded
CHECK_DEADLOCK FALSE
