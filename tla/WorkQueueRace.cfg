\* Two workers race to drain and retry one delayed job, with faults.
CONSTANTS
    j1 = j1
    j2 = j2
    j3 = j3
    j4 = j4
    None = None
    Jobs = {j1}
    Workers = {w1, w2}
    Kind <- KindTimed
    MaxRetries = 1
    BatchSize = 2
    RetryDelayed = TRUE
    MaxDefers = 1
    MaxFaults = 1
SYMMETRY WorkerSymmetry
SPECIFICATION Spec
INVARIANTS TypeOK NoSilentLoss ZremBacked
