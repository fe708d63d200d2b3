CONSTANTS
    Followed = {"agents","boards","groups","gateways","tags","fields","packs","skills","users","members","invites","organizations","webhooks","approvals","silos","requests","runs"}
    Ids = {"a", "b"}
    MyId = "a"
    MaxVisits = 1
    Roamed = {"users", "groups"}
    Busy = {"users", "gateways", "approvals"}
    MaxWrites = 1
    MaxFaults = 1
SPECIFICATION FairSpec
INVARIANTS TypeOK ReadYourWrites NoGhostRows
PROPERTIES PollsConverge OnboardingSettles
CHECK_DEADLOCK FALSE
