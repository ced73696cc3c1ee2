CONSTANTS
    HookCount = 1
    MaxPayload = 2
    StdinCapacity = 1
    StdoutCapacity = 1
    MaxOutput = 0
    MaxTimeout = 1
SPECIFICATION FairSpec
PROPERTY TimeoutsAlwaysHonoured
CHECK_DEADLOCK FALSE
