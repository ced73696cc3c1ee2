CONSTANT Victims = {"create", "mid", "init"}
SPECIFICATION FairSpec
INVARIANTS TypeOK SetupInsideCgroup OkMeansReady NoProtocolError  FailedCreateLeavesNothing
PROPERTIES CreateReturns FailureEndsChildren OrphanOnlyIfReady
