CONSTANTS
    Runs = {r1, r2}
    Requests = {q1}
    Workers = {}
    None = None
    BlockOnPending = TRUE
    LeadOnly = FALSE
    CommentRequired = FALSE
    RedisFails = TRUE
    Reports = {"running", "succeeded", "failed"}
    Created = {"inbox", "in_progress", "review", "done"}
    Moves = {"inbox", "in_progress", "review", "done"}
    MaxMessages = 1
    MaxLost = 0
SPECIFICATION Spec
INVARIANTS InProgressStamped DispatchNotForgotten
