CHECK_DEADLOCK FALSE
CONSTANTS
    Clients = {c1, c2}
    Operations = {"kill", "killAll", "pause", "resume", "delete", "deleteForce", "run", "runKeep"}
    Workers = {w1}
SPECIFICATION MCSpec
INVARIANTS TypeOK KillAllReachesEveryone KillAllRestores PauseHolds DeleteFreesCgroup
PROPERTY DeleteForceKills
