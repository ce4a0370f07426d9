SPECIFICATION Spec
CONSTANTS
    FailureDomains = {}
    NoDomain = NoDomain
    Replicas = {1, 2}
    FirstReplicas = 1
    RollingUpdate = {{}}
    MinHealthyPeriod = 2
    RetryPeriod = 1
    MaxRetry = {1}
    TemplateHook = TRUE
    Failures = {"unreachable", "notReady"}
    LateJoins = TRUE
    LostReplies = {"finalizer", "remove", "delete", "infra", "config", "patch"}
    MachineCacheLags = FALSE
    Idempotent = FALSE
    MaxMachines = 5
    MaxEdits = 1
    MaxFaults = 3
    MaxClock = 3
INVARIANTS OneDeletionAtATime MachineHasParts RetryBound
PROPERTIES NeverTooMany
CHECK_DEADLOCK FALSE
