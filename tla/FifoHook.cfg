CONSTANTS
    Starters = {s1}
    Runners = {}
    Killable = {}
    InitMayDie = FALSE
    MayPause = FALSE
SPECIFICATION Spec
INVARIANT StartContainerAborts
CHECK_DEADLOCK FALSE
