CONSTANTS
    Tasks <- MCTasks
    Ids = {a1, a2, a3}
    Requests = {q1, q2}
    None = None
SPECIFICATION SpecApi
SYMMETRY Interchangeable
INVARIANTS TypeOK OnePending FinalStatusAnnounced
