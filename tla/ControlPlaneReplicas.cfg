SPECIFICATION FairSpec
CONSTANTS
    FailureDomains = {a, b}
    NoDomain = NoDomain
    Replicas = {1, 2}
    FirstReplicas = 1
    RollingUpdate = {}
    MinHealthyPeriod = 0
    RetryPeriod = 0
    MaxRetry = {}
    TemplateHook = FALSE
    Failures = {"unreachable"}
    LateJoins = FALSE
    LostReplies = {}
    MachineCacheLags = FALSE
    Idempotent = FALSE
    MaxMachines = 6
    MaxEdits = 2
    MaxFaults = 2
    MaxClock = 0
INVARIANTS TypeOK OneDeletionAtATime MachineHasParts GoneLeavesNothing SpreadEvenly
PROPERTIES NeverTooMany ScaleDownWhenStable EventuallySettled
CHECK_DEADLOCK FALSE
