\* The deployed shape, one worker: every kind of job, faults, immediate retries.
CONSTANTS
    j1 = j1
    j2 = j2
    j3 = j3
    j4 = j4
    None = None
    Jobs = {j1, j2, j3, j4}
    Workers = {w1}
    Kind <- KindAll
    MaxRetries = 1
    BatchSize = 2
    RetryDelayed = FALSE
    MaxDefers = 1
    MaxFaults = 1
SPECIFICATION FairSpec
INVARIANTS OneCopy RetryBudget
PROPERTIES EventuallySettled
