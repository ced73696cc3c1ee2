------------------------------- MODULE Bundle -------------------------------
(***************************************************************************)
(* config.json as `create` takes it: what a bundle says (bundle/mod.rs),   *)
(* when it is refused (bundle/validate.rs), which namespaces it asks for   *)
(* (namespace.rs) and which program it names.                              *)
(*                                                                         *)
(* A bundle is a record; a section that config.json leaves out has its     *)
(* default.  Texts are members of small sets, told apart only where the    *)
(* code tells them apart.                                                  *)
(***************************************************************************)
EXTENDS Integers, Sequences, SequencesExt

Kind == {"user", "ipc", "uts", "network", "pid", "cgroup", "mount", "time"}

None == [none |-> TRUE]
Given(section) == section # None

\* The paths of config.json, whose parts may be names that the code and the kernel use ("b" is the
\* bundle's directory), and what it says of a device that is added, of a mount and of a layer.
Names == {"dev", "console", "pts", "ptmx", "null", "zero", "full", "tty", "random", "urandom",
          "fd", "stdin", "stdout", "stderr", "proc", "sys", "etc", "hosts", "data",
          "kcore", "scsi", "self", "firmware", "cgroup", "sub", "b"} \cup STRING
Paths == Seq(Names)
DeviceEntries == [path : Paths, onHost : BOOLEAN, owned : BOOLEAN]
MountEntries == [destination : Paths, typ : STRING, source : STRING, options : Seq(STRING)]
LayerEntries == [absolute : BOOLEAN, path : Paths]

\* The bundle with every optional section left out.
Plain ==
    [version |-> <<1, 0, 2>>, foreign |-> {}, rootPath |-> "rootfs", linux |-> TRUE,
     relative |-> {},           \* fields that hold a path that is not absolute
     namespaces |-> <<>>, uidMap |-> FALSE, gidMap |-> FALSE, timeOffsets |-> FALSE,
     hostname |-> FALSE, domainname |-> FALSE, sysctl |-> {},
     mounts |-> <<>>, devices |-> <<>>, masked |-> <<>>, readonlyPaths |-> <<>>,
     readonlyRoot |-> FALSE, propagation |-> "none", overlay |-> None,
     cgroupsPath |-> <<>>, resources |-> <<>>,
     hasProcess |-> TRUE, args |-> <<"/bin/sh">>, env |-> {}, cwd |-> <<>>,
     terminal |-> FALSE, console |-> "none",        \* console: create's --console-socket
     rlimits |-> <<>>, oomScoreAdj |-> "none", umask |-> FALSE,
     uid |-> 0, gid |-> 0, groups |-> {},
     capabilities |-> None, noNewPrivileges |-> FALSE, seccomp |-> None]

-----------------------------------------------------------------------------
(***************************************************************************)
(* bundle/validate.rs.                                                     *)
(***************************************************************************)
SUPPORTED_MAJOR == 1
PROPAGATIONS == {"shared", "slave", "private", "unbindable"}

platform(b) == b.foreign = {}

\* Three numbers (a part that is not one is -1), the first of which is known.
version(v) == Len(v) = 3 /\ (\A i \in 1..3 : v[i] >= 0) /\ v[1] = SUPPORTED_MAJOR

Types(b) == {n.typ : n \in ToSet(b.namespaces)}

\* No type is listed twice.
namespace_types(b) ==
    \A i, j \in 1..Len(b.namespaces) : b.namespaces[i].typ = b.namespaces[j].typ => i = j

process(b) ==
    b.hasProcess =>
        /\ b.args # <<>> /\ b.args[1] # ""
        /\ "cwd" \notin b.relative
        /\ "NOKEY" \notin b.env
        /\ \A i, j \in 1..Len(b.rlimits) : b.rlimits[i].typ = b.rlimits[j].typ => i = j
        /\ \A r \in ToSet(b.rlimits) : r.soft <= r.hard

mounts(b) == "mounts" \notin b.relative

\* Variant: a name is accepted without a UTS namespace.
spec_named(b) ==
    /\ platform(b) /\ version(b.version)
    /\ b.rootPath # "" /\ b.linux
    /\ namespace_types(b) /\ process(b) /\ mounts(b)
    /\ b.propagation \in PROPAGATIONS \cup {"none"}
    /\ b.relative \cap {"maskedPaths", "readonlyPaths"} = {}

\* Whether the bundle is accepted.
spec(b) ==
    /\ platform(b) /\ version(b.version)
    /\ b.rootPath # "" /\ b.linux
    /\ namespace_types(b) /\ process(b) /\ mounts(b)
    /\ b.hostname \/ b.domainname => "uts" \in Types(b)
    /\ b.propagation \in PROPAGATIONS \cup {"none"}
    /\ b.relative \cap {"maskedPaths", "readonlyPaths"} = {}

-----------------------------------------------------------------------------
(***************************************************************************)
(* namespace.rs.  The path of a namespace is "" (to be created), "gone"    *)
(* (nothing there), "host" (a namespace that the host's user namespace     *)
(* owns), "nested" (one that the joined user namespace owns) or "unseen"   *)
(* (as "host", but not there for a process in the joined mount namespace). *)
(***************************************************************************)
NamespacePaths == {"", "gone", "host", "nested", "unseen"}
NamespaceEntries == [typ : Kind, path : NamespacePaths]

JOIN_ORDER == <<"user", "ipc", "uts", "network", "pid", "cgroup", "mount">>

PathOf(b, k) ==
    IF k \in Types(b) THEN (CHOOSE n \in ToSet(b.namespaces) : n.typ = k).path ELSE "absent"

\* The flags for those without a path; an empty path is none.
layout_create(b) == {n.typ : n \in {m \in ToSet(b.namespaces) : m.path = ""}}

\* The others, which are joined.
layout_join(b) == {k \in Kind : PathOf(b, k) \notin {"", "absent"}}

\* j comes before k in a list of kinds; what is not in it comes last.
Precedes(order, j, k) == \E i \in 1..Len(order) : order[i] = j /\ \A h \in 1..i : order[h] # k

\* Variant: as they are listed.
joined_before_listed(b, j, k) ==
    Precedes([i \in 1..Len(b.namespaces) |-> b.namespaces[i].typ], j, k)

\* Sorted by their position in JOIN_ORDER.
joined_before(b, j, k) == Precedes(JOIN_ORDER, j, k)

layout_ok(b) == \A n \in ToSet(b.namespaces) : n.path # "gone"

\* Variant: the complement of a flag has only the bits that have a name.
without_truncating(flags, unwanted) == (flags \ {"time"}) \ unwanted

\* The mask is computed on the bits, so that flags without a name stay.
without(flags, unwanted) == flags \ unwanted

unshare_flags(b) == without(layout_create(b), {"cgroup"})
cgroup_ns(b) == "cgroup" \in layout_create(b)
OwnMounts(b) == "mount" \in unshare_flags(b)

-----------------------------------------------------------------------------
(***************************************************************************)
(* bundle/mod.rs: the program.  A bare name is looked up in PATH, or in    *)
(* DEFAULT_PATH; "/bin/sh" is there and "/bin/nosh" is not; "a\0" holds a  *)
(* NUL byte.                                                               *)
(***************************************************************************)
IsPath(program) == program \in {"/bin/sh", "/bin/nosh"}
SearchPath(env) == IF "PATH=/none" \in env THEN "/none" ELSE "/bin"

resolve_executable(program, env, own_rootfs) ==
    IF IsPath(program) THEN own_rootfs => program = "/bin/sh"
                       ELSE SearchPath(env) = "/bin" /\ program = "sh"

to_cstrings(values) == "a\\0" \notin ToSet(values)

\* argv, the executable and the C strings: the last that may refuse the bundle.
ProgramOk(b) ==
    /\ b.hasProcess /\ b.args # <<>>
    /\ resolve_executable(b.args[1], b.env, OwnMounts(b))
    /\ to_cstrings(b.args) /\ "a\\0" \notin b.env
=============================================================================
