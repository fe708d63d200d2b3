CONSTANTS
    Pages = {"board", "activity"}
    Cap = 2
    PollLimit = 1
    HistLimit = 2
    MaxPolls = 1
    MaxQueued = 2
    MaxEvents = 3
    MaxToggles = 1
    MaxFaults = 1
SPECIFICATION FairSpec
INVARIANTS FeedOK SeenIsShown
PROPERTIES OnlyCapDrops EventsShown
CHECK_DEADLOCK FALSE
