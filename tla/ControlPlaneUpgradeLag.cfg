SPECIFICATION FairSpec
CONSTANTS
    Options = {o1}
    NoOption = NoOption
    Base = o1
    Machines = {m1, m2}
    NoMachine = NoMachine
    Joining = {m2}
    Leaving = {}
    Lagging = {"bootstrap", "ConfigMap", "CK8sControlPlane"}
    Retarget = FALSE
    MaxRequests = 1
    MaxFailures = 1
    MaxErrors = 0
    MaxChanges = 2
PROPERTY EventuallyAllUpgraded
CHECK_DEADLOCK FALSE
