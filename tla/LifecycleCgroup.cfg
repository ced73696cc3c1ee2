CONSTANTS
    Clients = {c1}
    Operations = {"delete"}
    Workers = {w1}
SPECIFICATION Spec
INVARIANT DeleteAlwaysFreesCgroup
CHECK_DEADLOCK FALSE
