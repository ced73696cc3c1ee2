CONSTANTS
    Starters = {s1}
    Runners = {}
    Killable = {}
    InitMayDie = TRUE
    MayPause = FALSE
SPECIFICATION FairSpec
PROPERTY StartReturns
CHECK_DEADLOCK FALSE
