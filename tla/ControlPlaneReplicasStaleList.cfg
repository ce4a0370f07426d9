SPECIFICATION Spec
CONSTANTS
    FailureDomains = {}
    NoDomain = NoDomain
    Replicas = {1}
    FirstReplicas = 1
    RollingUpdate = {}
    MinHealthyPeriod = 0
    RetryPeriod = 0
    MaxRetry = {}
    TemplateHook = FALSE
    Failures = {}
    LateJoins = FALSE
    LostReplies = {}
    MachineCacheLags = TRUE
    Idempotent = TRUE
    MaxMachines = 3
    MaxEdits = 0
    MaxFaults = 0
    MaxClock = 0
PROPERTIES NeverTooMany
CHECK_DEADLOCK FALSE
