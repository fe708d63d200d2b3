CONSTANTS
    Runs = {r1}
    Requests = {q1, q2}
    Workers = {w1}
    None = None
    BlockOnPending = TRUE
    LeadOnly = TRUE
    CommentRequired = FALSE
    RedisFails = FALSE
    Reports = {"running", "blocked"}
    Created = {"inbox"}
    Moves = {}
    MaxMessages = 1
    MaxLost = 1
SPECIFICATION Spec
INVARIANTS TypeOK RunTimestamps DispatchOnce DispatchNotForgotten
SYMMETRY RequestSymmetry
