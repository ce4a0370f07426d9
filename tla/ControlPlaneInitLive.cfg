SPECIFICATION FairSpec
CONSTANTS
    ControlPlane = {m1, m2}
    Workers = {}
    NoMachine = NoMachine
    Lagging = {"ConfigMap", "CK8sConfig", "Machine"}
    MaxFailures = 1
PROPERTY EventuallyBootstrapped
CHECK_DEADLOCK FALSE
