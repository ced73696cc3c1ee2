CHECK_DEADLOCK FALSE
CONSTANT Layouts = {{"uts", "pid", "mnt"}}
SPECIFICATION Spec
INVARIANT JoinedAll
