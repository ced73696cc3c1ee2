CONSTANT Victims = {"mid"}
SPECIFICATION FairSpec
PROPERTIES CreateAlwaysReturns
CHECK_DEADLOCK FALSE
