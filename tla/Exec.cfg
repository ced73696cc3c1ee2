CHECK_DEADLOCK FALSE
CONSTANT Layouts = {
    {"user", "ipc", "uts", "net", "pid", "cgroup", "mnt"},
    {"ipc", "uts", "net", "cgroup", "mnt"},
    {"uts", "pid", "mnt"}}
SPECIFICATION FairSpec
INVARIANTS TypeOK PlacedBeforeProgram ErrorMeansNoProgram JoinedWhileAlive
PROPERTIES ExecReturns OrphanEnds
