CONSTANTS
    Requests = {q1, q2}
    Agents = {a1}
    Workers = {w1}
    None = None
    MaxWakes = 2
    MaxRetries = 1
    RunKinds = {"wake", "sync"}
    MaxRuns = 2
    MaxCheckins = 1
    FaultKinds = {"gateway", "redis", "crash", "redelivery"}
    MaxFaults = 1
SPECIFICATION Spec
INVARIANTS TypeOK WakeLimit
CHECK_DEADLOCK FALSE
SYMMETRY RequestSymmetry
