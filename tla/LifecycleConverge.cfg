CONSTANTS
    Requests = {q1, q2}
    Agents = {a1}
    Workers = {w1}
    None = None
    MaxWakes = 2
    MaxRetries = 1
    RunKinds = {"wake"}
    MaxRuns = 2
    MaxCheckins = 1
    FaultKinds = {}
    MaxFaults = 0
SPECIFICATION FairSpec
INVARIANTS Watched
PROPERTIES Converges
CHECK_DEADLOCK FALSE
