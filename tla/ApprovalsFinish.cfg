CONSTANTS
    Tasks <- MCTasks
    Ids = {a1, a2}
    Requests = {q1, q2}
    None = None
SPECIFICATION FairSpec
INVARIANTS OrderedLocks
PROPERTIES RequestsFinish
