SPECIFICATION Spec
CONSTANTS
    ControlPlane = {m1, m2, m3}
    Workers = {w1}
    NoMachine = NoMachine
    Lagging = {"Cluster"}
    MaxFailures = 3
SYMMETRY Symmetry
INVARIANTS TypeOK AtMostOneInit InitNodeHoldsLock
PROPERTY FormationSpec
CHECK_DEADLOCK FALSE
