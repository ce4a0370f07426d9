SPECIFICATION Spec
CONSTANTS
    ControlPlane = {m1, m2}
    Workers = {}
    NoMachine = NoMachine
    Lagging = {"CK8sConfig"}
    MaxFailures = 2
INVARIANT AtMostOneInit
CHECK_DEADLOCK FALSE
