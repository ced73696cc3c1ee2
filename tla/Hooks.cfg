CHECK_DEADLOCK FALSE
CONSTANTS
    HookCount = 2
    MaxPayload = 2
    StdinCapacity = 1
    StdoutCapacity = 1
    MaxOutput = 2
    MaxTimeout = 2
SPECIFICATION FairSpec
INVARIANTS TypeOK PhaseStopsAtFailure FullTimeGranted
PROPERTIES TimeoutsAreHonoured NoMutualWait
