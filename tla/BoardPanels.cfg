CONSTANTS
    Tasks = {t1, t2}
    NoTask = none
    Modes = {"all", "runtime"}
    MaxActs = 2
    MaxEvents = 1
SPECIFICATION FairSpec
INVARIANTS PanelsOK UrlAgrees CommentsRight FormCurrent
PROPERTIES ComesToRest
CHECK_DEADLOCK FALSE
