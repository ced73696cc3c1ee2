CHECK_DEADLOCK FALSE
CONSTANTS
    Starters = {s1, s2, s3}
    Runners = {s3}
    Killable = {s1, s2, s3}
    InitMayDie = TRUE
    MayPause = TRUE
SPECIFICATION FairSpec
INVARIANTS TypeOK OkMeansStarted DeathExplained CreatedMeansUnstarted
PROPERTIES ImplementsGate SomeoneSucceeds
