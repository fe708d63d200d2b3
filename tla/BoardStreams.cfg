CONSTANTS
    Items = {i1, i2}
    First = {{}, {i1}, {i1, i2}}
    Lists = {"tasks", "approvals", "agents", "chat", "groupChat", "groupNotes"}
    MaxSteps = 3
    MaxOwn = 2
    MaxLate = 1
    SnapLimit = 1
SPECIFICATION FairSpec
INVARIANTS TypeOK CaughtUp NoPhantomMove
PROPERTIES ImplementsReplica Converges
CHECK_DEADLOCK FALSE
