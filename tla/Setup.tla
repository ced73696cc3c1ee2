-------------------------------- MODULE Setup --------------------------------
(***************************************************************************)
(* What `create` makes out of a bundle, from config.json to the program:   *)
(* container/init.rs (stage_one, container_init) with the part of          *)
(* container/mod.rs that prepares and limits it, composing the bundle, the *)
(* cgroup, the namespaces, the file system and the privileges.             *)
(*                                                                         *)
(* The processes and messages of create are in module Create, the hooks in *)
(* Hooks, waiting for start in ExecFifo; here one bundle goes through all  *)
(* steps, each an action, and stops at the first that fails.               *)
(***************************************************************************)
EXTENDS Bundle, Resources, Overlay, Rootfs, Privileges

CONSTANT Bundles                \* what config.json, and create's options, say

\* The types of config.json's fields; the fields that are left out are there with their defaults.
ASSUME BundlesAssumption ==
    \A bundle \in Bundles :
        /\ DOMAIN bundle = DOMAIN Plain
        /\ bundle.noNewPrivileges \in BOOLEAN /\ bundle.timeOffsets \in BOOLEAN
        /\ bundle.namespaces \in Seq(NamespaceEntries)
        /\ bundle.masked \in Seq(Paths) /\ bundle.readonlyPaths \in Seq(Paths)
        /\ bundle.cwd \in Paths /\ bundle.sysctl \subseteq (Kind \ {"user"}) \cup {"global", ".escape"}
        /\ bundle.devices \in Seq(DeviceEntries) /\ \A d \in ToSet(bundle.devices) : resolve(d.path) \in Paths
        /\ bundle.mounts \in Seq(MountEntries) /\ \A m \in ToSet(bundle.mounts) : resolve(m.destination) \in Paths
        /\ bundle.resources # <<>> => ResourcesTyped(bundle.resources[1])
        /\ Given(bundle.overlay) => /\ bundle.overlay.lower \in Seq(Seq(LayerEntries))
                                    /\ bundle.overlay.upper \in Seq(LayerEntries)
                                    /\ bundle.overlay.work \in Seq(LayerEntries)

VARIABLES
    b,          \* the bundle
    pc,         \* the step that is next
    done,       \* how many entries of the list that the step goes through are done
    ns,         \* per kind: whose namespace the init is in, who owns it; time offsets; root of the cgroups
    cred,       \* the privileges of the init
    fsys,       \* its file system
    cg,         \* its cgroup
    host,       \* what has been changed outside of the container
    keys,       \* sysctls that are still to be written
    proc        \* its other attributes

vars == <<b, pc, done, ns, cred, fsys, cg, host, keys, proc>>

\* The host: the controllers of its root cgroup, those enabled for the children.
HostControllers == {"memory", "pids", "cpu", "cpuset", "io", "rdma"}
HostEnabled == {"memory", "pids"}

BundleDir == <<"b">>
Id == "c1"

CapableOver(k) == ns.how["user"] = "host" \/ ns.owner[k] = ns.how["user"]
Able == {k \in Kind : CapableOver(k)}
HostUser == ns.how["user"] = "host"

\* The next step, if this one succeeds.
Go(ok, next) == pc' = IF ok THEN next ELSE "failed"

\* A loop over a list that changes the file system, up to the first entry that fails.
Each(at, list, after, next) ==
    /\ pc = at
    /\ IF done < Len(list)
       THEN fsys' = after /\ done' = done + 1 /\ Go(after.ok, at)
       ELSE pc' = next /\ done' = 0 /\ UNCHANGED fsys
    /\ UNCHANGED <<b, ns, cred, cg, host, keys, proc>>

-----------------------------------------------------------------------------
(***************************************************************************)
(* In `create`: load, build, spawn.                                        *)
(***************************************************************************)
Init ==
    /\ b \in Bundles
    /\ pc = "load" /\ done = 0
    /\ ns = [how |-> [k \in Kind |-> "host"], owner |-> [k \in Kind |-> "host"],
             offsets |-> FALSE, cgroupRoot |-> <<>>]
    /\ cred = Root
    /\ fsys = HostTree
    /\ cg = [path |-> <<>>, controllers |-> {}, written |-> <<>>, member |-> FALSE]
    /\ host = {}
    /\ keys = b.sysctl
    /\ proc = [limits |-> <<>>, oom |-> "none", umask |-> FALSE, cwd |-> <<"host">>, stdio |-> "inherited"]

LoadBundle ==
    /\ pc = "load"
    /\ Go(spec(b), "plan")
    /\ UNCHANGED <<b, done, ns, cred, fsys, cg, host, keys, proc>>

\* Whether the root is put together from layers.
Layered(bundle) == Given(bundle.overlay) /\ bundle.overlay.lower # <<>>
Layers(bundle) == from_annotations(bundle.overlay, BundleDir)

PlanOk(bundle) ==
    /\ bundle.terminal <=> bundle.console # "none"
    /\ layout_ok(bundle)
    /\ Given(bundle.overlay) => annotations_ok(bundle.overlay)
    /\ IF Layered(bundle)
       THEN OwnMounts(bundle) /\ prepare(Layers(bundle)) /\ prepare_merged(bundle.rootPath)
       ELSE bundle.rootPath # "gone"

Plan ==
    /\ pc = "plan"
    /\ Go(PlanOk(b), "cgroup")
    /\ UNCHANGED <<b, done, ns, cred, fsys, cg, host, keys, proc>>

CreateCgroup ==
    /\ pc = "cgroup"
    /\ LET path == relative_path(b.cgroupsPath, Id)
       IN  cg' = [cg EXCEPT !.path = path, !.controllers = Controllers(HostControllers, HostEnabled, path)]
    /\ pc' = "apply"
    /\ UNCHANGED <<b, done, ns, cred, fsys, host, keys, proc>>

\* All writes, or an error: create then removes the cgroup.
ApplyResources ==
    /\ pc = "apply"
    /\ LET ws == IF b.resources = <<>> THEN <<>> ELSE writes(b.resources[1])
           known == \A w \in ToSet(ws) : ControllerOf(w.file) \in cg.controllers
       IN  /\ cg' = [cg EXCEPT !.written = IF known THEN ws ELSE <<>>]
           /\ Go(known, "spawn")
    /\ UNCHANGED <<b, done, ns, cred, fsys, host, keys, proc>>

\* The fifo, the console socket, the fork of the intermediate.
Spawn ==
    /\ pc = "spawn"
    /\ Go(b.console # "deaf", "join")
    /\ UNCHANGED <<b, done, ns, cred, fsys, cg, host, keys, proc>>

-----------------------------------------------------------------------------
(***************************************************************************)
(* The intermediate: stage_one.                                            *)
(***************************************************************************)
\* open(2) and setns(2): the path has to be there, and the caller needs capabilities over it.
OwnerOf(k) == IF PathOf(b, k) = "nested" THEN "joined" ELSE "host"

CanJoin(k) ==
    /\ PathOf(b, k) = "unseen" => ns.how["mount"] # "joined"
    /\ ns.how["user"] = "host" \/ k = "user" \/ OwnerOf(k) = ns.how["user"]

ToJoin == {k \in layout_join(b) : ns.how[k] # "joined"}

JoinExisting ==
    /\ pc = "join"
    /\ \/ ToJoin = {} /\ pc' = "unshare" /\ UNCHANGED <<ns, cred>>
       \/ \E k \in ToJoin :
            /\ \A j \in ToJoin \ {k} : joined_before(b, k, j)
            /\ Go(CanJoin(k), "join")
            /\ ns' = IF CanJoin(k) THEN [ns EXCEPT !.how[k] = "joined", !.owner[k] = OwnerOf(k)] ELSE ns
            /\ cred' = IF CanJoin(k) /\ k = "user" THEN EnterUserNamespace(cred) ELSE cred
    /\ UNCHANGED <<b, done, fsys, cg, host, keys, proc>>

unshare_order == <<"user", "mount", "uts", "ipc", "pid", "network", "time">>
ToUnshare == {k \in unshare_flags(b) : ns.how[k] # "new"}

\* Each namespace belongs to the user namespace its creator is in, and the mounts of a tree of
\* another one's are no longer shared with it; the offsets of the clocks are written while
\* nobody is in the new time namespace.
Unshare ==
    /\ pc = "unshare"
    /\ \/ /\ ToUnshare = {}
          /\ pc' = IF "user" \in unshare_flags(b) THEN "map" ELSE "attach"
          /\ UNCHANGED <<ns, cred, fsys>>
       \/ \E k \in ToUnshare :
            /\ \A j \in ToUnshare \ {k} : Precedes(unshare_order, k, j)
            /\ ns' = [ns EXCEPT !.how[k] = "new", !.owner[k] = ns.how["user"],
                                !.offsets = @ \/ (k = "time" /\ b.timeOffsets)]
            /\ cred' = IF k = "user" THEN EnterUserNamespace(cred) ELSE cred
            /\ fsys' = IF k = "mount" /\ ns.how["user"] # "host" THEN [fsys EXCEPT !.prop = "slave"] ELSE fsys
            /\ UNCHANGED pc
    /\ UNCHANGED <<b, done, cg, host, keys, proc>>

\* userns::write in create, then become_root_in_namespace.
MapIds ==
    /\ pc = "map"
    /\ IF b.uidMap /\ b.gidMap
       THEN cred' = become_root_in_namespace(cred) /\ Go(cred'.ok, "attach")
       ELSE pc' = "failed" /\ UNCHANGED cred
    /\ UNCHANGED <<b, done, ns, fsys, cg, host, keys, proc>>

\* The init is forked and reported; create puts it into the cgroup.
Attach ==
    /\ pc = "attach"
    /\ cg' = [cg EXCEPT !.member = TRUE]
    /\ pc' = "cgroupns"
    /\ UNCHANGED <<b, done, ns, cred, fsys, host, keys, proc>>

-----------------------------------------------------------------------------
(***************************************************************************)
(* container_init: the namespaces and the file system.                     *)
(***************************************************************************)
UnshareCgroup ==
    /\ pc = "cgroupns"
    /\ ns' = IF cgroup_ns(b)
             THEN [ns EXCEPT !.how["cgroup"] = "new", !.owner["cgroup"] = ns.how["user"],
                             !.cgroupRoot = IF cg.member THEN cg.path ELSE <<>>]
             ELSE ns
    /\ pc' = IF OwnMounts(b) THEN "root" ELSE "identity"
    /\ UNCHANGED <<b, done, cred, fsys, cg, host, keys, proc>>

MountRoot ==
    /\ pc = "root"
    /\ LET private == make_root_private(fsys)
           merged == mount_at(Layers(b))
           mounted == IF Layered(b) THEN Then(private, merged.ok, Rooted(private, "overlay", merged.mounted))
                                    ELSE make_mount_point(private)
       IN  fsys' = Then(mounted, "mount" \in Able, mounted)
    /\ Go(fsys'.ok, "mounts")
    /\ UNCHANGED <<b, done, ns, cred, cg, host, keys, proc>>

ApplyMounts ==
    Each("mounts", b.mounts, apply_one(fsys, b.mounts[done + 1], Able), "nodes")

\* The host's nodes are bound when there is a user namespace, or one that was joined.
BindsNodes == "user" \in unshare_flags(b) \/ layout_join(b) # {}

CreateNodes ==
    Each("nodes", DEFAULT_DEVICES, node(fsys, Dev(DEFAULT_DEVICES[done + 1]), TRUE, BindsNodes), "links")

CreateLinks == Each("links", SYMLINKS, Make(fsys, Dev(SYMLINKS[done + 1])), "devices")

CreateDevices ==
    Each("devices", b.devices, extra_device(fsys, b.devices[done + 1], BindsNodes, HostUser), "pivot")

\* What is mounted in a user namespace that was joined belongs to it, and the init, which did not
\* become its root, may be nobody there: what it makes in such a file system fails with EOVERFLOW.
Overflow ==
    /\ pc \in {"mounts", "nodes", "links", "devices", "console"}
    /\ ns.how["user"] = "joined"
    /\ Layered(b) \/ \E m \in ToSet(fsys.tab) : MountOf(fsys, m.at).fs.typ = "tmpfs"
    /\ pc' = "failed"
    /\ UNCHANGED <<b, done, ns, cred, fsys, cg, host, keys, proc>>

\* pivot_root and the propagation; after it, create's console.
PivotRoot ==
    /\ pc = "pivot"
    /\ fsys' = set_propagation(pivot(fsys), b.propagation)
    /\ proc' = [proc EXCEPT !.cwd = <<>>]
    /\ Go(fsys'.ok, IF b.console # "none" THEN "console" ELSE "identity")
    /\ UNCHANGED <<b, done, ns, cred, cg, host, keys>>

SetupConsole ==
    /\ pc = "console"
    /\ fsys' = setup_console(fsys)
    /\ proc' = [proc EXCEPT !.stdio = IF fsys'.ok THEN "pty" ELSE @]
    /\ Go(fsys'.ok, "identity")
    /\ UNCHANGED <<b, done, ns, cred, cg, host, keys>>

\* sethostname and setdomainname.
SetIdentity ==
    /\ pc = "identity"
    /\ IF b.hostname \/ b.domainname
       THEN /\ Go("uts" \in Able, "sysctl")
            /\ host' = IF ns.how["uts"] = "host" THEN host \cup {"name"} ELSE host
       ELSE pc' = "sysctl" /\ UNCHANGED host
    /\ UNCHANGED <<b, done, ns, cred, fsys, cg, keys, proc>>

\* What is at /proc/self and at /proc/sys is the kernel's only on a proc file system at /proc: the
\* container's, or the host's when it has no tree of its own.
ProcSeen(name) == LET there == MountOf(fsys, <<"proc", name>>).fs IN there.typ = "proc" /\ there.at = <<"proc">>
ProcWritable(name) == ProcSeen(name) /\ ~MountOf(fsys, <<"proc", name>>).ro

ProcIsThere == OwnMounts(b) => ProcSeen("self")
ProcIsWritable == OwnMounts(b) => ProcWritable("self")

\* sysctl.rs: a key goes to the namespace of its kind that the init is in, "global" to none.
sysctl_resolve_ok(key) == key # ".escape"

SysctlWritable(key) ==
    /\ OwnMounts(b) => ProcWritable("sys")
    /\ IF key = "global" THEN HostUser ELSE key \in Able

\* The keys of a HashMap, in any order.
ApplySysctl ==
    /\ pc = "sysctl"
    /\ \/ /\ keys = {}
          /\ pc' = IF OwnMounts(b) THEN "mask" ELSE "limits"
          /\ UNCHANGED <<host, keys>>
       \/ \E key \in keys :
            /\ keys' = keys \ {key}
            /\ IF sysctl_resolve_ok(key) /\ SysctlWritable(key)
               THEN /\ host' = IF key = "global" \/ ns.how[key] = "host" THEN host \cup {key} ELSE host
                    /\ pc' = "sysctl"
               ELSE pc' = "failed" /\ UNCHANGED host
    /\ UNCHANGED <<b, done, ns, cred, fsys, cg, proc>>

MaskPaths == Each("mask", b.masked, mask_one(fsys, b.masked[done + 1]), "readonly")

ReadonlyPaths == Each("readonly", b.readonlyPaths, readonly_one(fsys, b.readonlyPaths[done + 1]), "remounts")

RemountReadonly == Each("remounts", b.mounts, remount_readonly(fsys, b.mounts[done + 1]), "rootfs")

\* root.readonly.
ReadonlyRootfs ==
    /\ pc = "rootfs"
    /\ fsys' = IF b.readonlyRoot THEN readonly_rootfs(fsys) ELSE fsys
    /\ pc' = "limits"
    /\ UNCHANGED <<b, done, ns, cred, cg, host, keys, proc>>

-----------------------------------------------------------------------------
(***************************************************************************)
(* container_init: the process.                                            *)
(***************************************************************************)
CwdIsThere(cwd) == cwd # <<"nodir">> /\ (OwnMounts(b) => cwd = <<>> \/ Exists(fsys, cwd))

\* The program, the limits, the OOM score, the umask and the working directory.
ApplyLimits ==
    /\ pc = "limits"
    /\ Go(/\ ProgramOk(b)
          /\ apply_limits_ok(b.rlimits, HostUser)
          /\ apply_oom_score_adj_ok(b.oomScoreAdj, HostUser, ProcIsWritable)
          /\ CwdIsThere(b.cwd), "filter")
    /\ proc' = [proc EXCEPT !.limits = b.rlimits, !.oom = b.oomScoreAdj, !.umask = b.umask, !.cwd = b.cwd]
    /\ UNCHANGED <<b, done, ns, cred, fsys, cg, host, keys>>

\* A step of the process's privileges.
Privilege(at, next, k) ==
    /\ pc = at
    /\ cred' = k
    /\ Go(k.ok, next)
    /\ UNCHANGED <<b, done, ns, fsys, cg, host, keys, proc>>

\* Without no_new_privs the filter needs CAP_SYS_ADMIN, and is loaded while that is there.
FilterEarly ==
    Privilege("filter", "bounding",
              IF Given(b.seccomp) /\ ~b.noNewPrivileges THEN apply_seccomp(cred, b.seccomp) ELSE cred)

DropBounding ==
    Privilege("bounding", "user",
              IF Given(b.capabilities) THEN drop_bounding(cred, b.capabilities) ELSE cred)

DropPrivileges == Privilege("user", "caps", drop_privileges(cred, b.uid, b.gid, b.groups))

ApplyCapabilities ==
    Privilege("caps", "nnp", IF Given(b.capabilities) THEN apply_caps(cred, b.capabilities) ELSE cred)

NoNewPrivs == Privilege("nnp", "late", IF b.noNewPrivileges THEN set_no_new_privs(cred) ELSE cred)

FilterLate ==
    Privilege("late", "ready",
              IF Given(b.seccomp) /\ b.noNewPrivileges THEN apply_seccomp(cred, b.seccomp) ELSE cred)

\* InitReady: after it, create reports success.
Ready == Privilege("ready", "park", Call(cred, "write", TRUE, cred))

\* park reopens the fifo through /proc, writes and closes it; an init that cannot is lost, and
\* start has nobody to wait for.
Park ==
    /\ pc = "park"
    /\ pc' = IF /\ ProcIsThere /\ Allows(cred, "openat") /\ Allows(cred, "write")
               /\ ~Kills(cred, "close")
             THEN "parked" ELSE "lost"
    /\ UNCHANGED <<b, done, ns, cred, fsys, cg, host, keys, proc>>

\* Released by start, the startContainer hooks done: unblock_all and execve.
Exec ==
    /\ pc = "parked"
    /\ cred' = Execve(Call(cred, "rt_sigprocmask", TRUE, cred))
    /\ pc' = IF cred'.ok THEN "running" ELSE "lost"
    /\ UNCHANGED <<b, done, ns, fsys, cg, host, keys, proc>>

\* A filter that forbids what the allocator or a library calls may end any step under it.
Starved ==
    /\ pc \in {"bounding", "user", "caps", "nnp", "late", "ready", "park", "parked"}
    /\ ~Allows(cred, "library")
    /\ pc' = IF pc \in {"park", "parked"} THEN "lost" ELSE "failed"
    /\ UNCHANGED <<b, done, ns, cred, fsys, cg, host, keys, proc>>

-----------------------------------------------------------------------------
Next ==
    \/ LoadBundle \/ Plan \/ CreateCgroup \/ ApplyResources \/ Spawn
    \/ JoinExisting \/ Unshare \/ MapIds \/ Attach \/ UnshareCgroup
    \/ MountRoot \/ ApplyMounts \/ CreateNodes \/ CreateLinks \/ CreateDevices \/ PivotRoot \/ SetupConsole
    \/ SetIdentity \/ ApplySysctl
    \/ MaskPaths \/ ReadonlyPaths \/ RemountReadonly \/ ReadonlyRootfs \/ ApplyLimits
    \/ FilterEarly \/ DropBounding \/ DropPrivileges \/ ApplyCapabilities \/ NoNewPrivs \/ FilterLate
    \/ Ready \/ Park \/ Exec \/ Starved \/ Overflow

Spec == Init /\ [][Next]_vars

-----------------------------------------------------------------------------
(***************************************************************************)
(* Properties.                                                             *)
(***************************************************************************)
Steps == {"load", "plan", "cgroup", "apply", "spawn", "join", "unshare", "map", "attach", "cgroupns",
          "root", "mounts", "nodes", "links", "devices", "pivot", "console", "identity", "sysctl",
          "mask", "readonly", "remounts", "rootfs", "limits",
          "filter", "bounding", "user", "caps", "nnp", "late", "ready", "park", "parked",
          "running", "failed", "lost"}

\* Create has reported success.
Created == pc \in {"park", "parked", "running", "lost"}

\* Every variable keeps its type through all steps of create and of the init.
TypeOK ==
    /\ DOMAIN b = DOMAIN Plain /\ pc \in Steps
    /\ ns.how \in [Kind -> {"host", "joined", "new"}] /\ ns.owner \in [Kind -> {"host", "joined", "new"}]
    /\ cred.eff \subseteq cred.perm /\ cred.perm \subseteq Caps /\ cred.inh \subseteq Caps
    /\ cred.amb \subseteq cred.perm \cap cred.inh /\ cred.bnd \subseteq Caps
    /\ cred.uid \in {0, OverflowId, b.uid} /\ cred.gid \in {0, OverflowId, b.gid}
    /\ \A i \in DOMAIN fsys.tab : fsys.tab[i].ro \in BOOLEAN
    /\ keys \subseteq b.sysctl /\ proc.stdio \in {"inherited", "pty"}

\* The container is in exactly the namespaces that config.json asks for: what has no path is
\* new and belongs to the container's user namespace, what has one is joined, all else is the
\* host's.  Its clock offsets are set, and its cgroup namespace begins at its own cgroup
\* (layout, without, join_existing, unshare_order, write_time_offsets, the message CgroupApplied).
NamespacesAsAsked ==
    Created =>
        /\ \A k \in Kind : ns.how[k] = CASE PathOf(b, k) = "absent" -> "host"
                                         [] PathOf(b, k) = ""       -> "new"
                                         [] OTHER                   -> "joined"
        /\ \A k \in Kind \ {"user"} : ns.how[k] = "new" => ns.owner[k] = ns.how["user"]
        /\ ns.offsets <=> (b.timeOffsets /\ PathOf(b, "time") = "")
        /\ PathOf(b, "cgroup") = "" => ns.cgroupRoot = relative_path(b.cgroupsPath, Id)

\* The program runs as the user and with the groups asked for, with no_new_privs and the filter
\* asked for and only then, and with the capabilities that execve makes of the asked sets: a
\* root program gets the bounding and inheritable ones (under no_new_privs only those that were
\* permitted), any other the ambient ones (the order of container_init's privilege calls).
ProgramPrivileges ==
    LET all == [bounding |-> Caps, permitted |-> IF b.uid = 0 THEN Caps ELSE {}, inheritable |-> {}, ambient |-> {}]
        asked == IF Given(b.capabilities) THEN b.capabilities ELSE all
        found == asked.bounding \cup asked.inheritable
        root == IF b.noNewPrivileges THEN found \cap asked.permitted ELSE found
    IN  pc = "running" =>
            /\ cred.uid = b.uid /\ cred.gid = b.gid /\ cred.groups = b.groups
            /\ cred.eff = cred.perm
            /\ cred.perm = asked.ambient \cup IF b.uid = 0 THEN root ELSE {}
            /\ cred.bnd = asked.bounding
            /\ cred.nnp = b.noNewPrivileges
            /\ cred.filter = IF Given(b.seccomp) THEN <<build(b.seccomp)>> ELSE <<>>

\* Whether set-up succeeds or not, the host keeps its names and its mounts.  What may change
\* outside of the container is a sysctl of a namespace that the bundle does not list, and the
\* owner of a host device that a container with joined namespaces asked to own (validate::spec,
\* make_root_private, sysctl::apply, devices::create).
HostUntouched ==
    /\ ~fsys.leaks
    /\ host \subseteq {key \in b.sysctl : key = "global" \/ key \notin Types(b)}
    /\ fsys.touched # {} => layout_join(b) # {} /\ \E d \in ToSet(b.devices) : d.owned

\* Mounts that add something: no remounts and no changes of propagation.
NewMounts == {i \in DOMAIN b.mounts :
                LET flags == parse_options(b.mounts[i].options).flags
                IN  "remount" \notin flags /\ ("bind" \in flags \/ flags \cap {"private", "slave", "shared", "unbindable"} = {})}
Destination(i) == resolve(b.mounts[i].destination)
IsBind(i) == "bind" \in parse_options(b.mounts[i].options).flags
CoveredAfter(i, p) == \E j \in NewMounts : j > i /\ IsPrefix(Destination(j), p)
CoveredByMount(i) == CoveredAfter(i, Destination(i))
Masked(p) == \E q \in ToSet(b.masked) : IsPrefix(q, p)
BelowConsole(p) == b.terminal /\ IsPrefix(Dev("console"), p)
UnderConsole(i) == BelowConsole(Destination(i))

RootAsAsked ==
    /\ ~fsys.old /\ fsys.prop = IF b.propagation = "none" THEN "private" ELSE b.propagation
    /\ Layered(b) => fsys.layers = Layers(b)

MountsThere ==
    \A i \in NewMounts :
        ~CoveredByMount(i) /\ ~Masked(Destination(i)) /\ ~UnderConsole(i) =>
            LET there == MountOf(fsys, Destination(i)).fs
            IN  there.at = Destination(i) /\ there.source = b.mounts[i].source

DevicesThere ==
    /\ \A name \in ToSet(DEFAULT_DEVICES \o SYMLINKS) : Masked(<<"dev">>) \/ Exists(fsys, Dev(name))
    /\ \A d \in ToSet(b.devices) :
          LET p == resolve(d.path) IN Masked(p) \/ BelowConsole(p) \/ Exists(fsys, p)
    /\ \A i \in NewMounts : b.mounts[i].typ = "devpts" =>
          Masked(<<"dev">>) \/ CoveredAfter(i, <<"dev">>) \/ Exists(fsys, Dev("ptmx"))

ConsoleThere ==
    b.terminal => proc.stdio = "pty" /\ (Masked(Dev("console")) \/ MountOf(fsys, Dev("console")).fs.typ = "pty")

\* The container sees the root and the layers it asked for, without the old root; each mount
\* at its destination unless a later one, a mask or the console covers it; the six devices, the
\* devices asked for, the pseudo-terminals, and its console, none of them hidden by another
\* step (mount_at, pivot, mounts::apply, devices::create, console::setup, and their order).
RootfsAsAsked == Created /\ OwnMounts(b) => RootAsAsked /\ MountsThere /\ DevicesThere /\ ConsoleThere

\* Mounts that are read-only and stay so while the others are made: a later one may cover them
\* and a remount without `ro` makes them writable again.
Loosens(j) == LET flags == parse_options(b.mounts[j].options).flags IN "remount" \in flags /\ "ro" \notin flags
Loosened(i) == \E j \in DOMAIN b.mounts : j > i /\ Loosens(j) /\ Destination(j) = Destination(i)
ReadonlyMounts == {i \in NewMounts : /\ "ro" \in parse_options(b.mounts[i].options).flags
                                     /\ ~IsBind(i) /\ ~CoveredByMount(i) /\ ~Loosened(i)}

MaskedHidden == \A p \in ToSet(b.masked) : Exists(fsys, p) => MountOf(fsys, p).fs.typ \in {"mask", "null"}
PathsReadonly == \A p \in ToSet(b.readonlyPaths) : Exists(fsys, p) => MountOf(fsys, p).ro
MountsReadonly ==
    \A i \in ReadonlyMounts :
        ~UnderConsole(i) /\ ~Masked(Destination(i)) => MountOf(fsys, Destination(i)).ro
RootReadonly == b.readonlyRoot => MountOf(fsys, <<>>).ro

\* Once create has returned nothing of a masked path is to be seen, a readonly path, a
\* read-only mount and a read-only root cannot be written, whatever the order and the nesting
\* of the paths.  Excepted are binds: `ro` does not reach them (mask_paths, readonly_paths,
\* remount_readonly_mounts, readonly_rootfs).
HardeningHolds ==
    Created /\ OwnMounts(b) => MaskedHidden /\ PathsReadonly /\ MountsReadonly /\ RootReadonly

LastWritten(file) == LET Is(w) == w.file = file IN cg.written[SelectLastInSeq(cg.written, Is)].value
IsWritten(file) == \E w \in ToSet(cg.written) : w.file = file
InUnified(r, file) == \E w \in ToSet(r.unified) : w.file = file

\* What a file has that `unified` does not name comes from the field it is for.
Ours(r, file) == IsWritten(file) /\ ~InUnified(r, file)

MemoryAddsUp(r) ==
    /\ r.limit # <<>> /\ r.swap # <<>> /\ Ours(r, "memory.max") /\ Ours(r, "memory.swap.max")
    /\ r.limit[1] > 0 /\ r.swap[1] > 0
    => LastWritten("memory.max") + LastWritten("memory.swap.max")
         = IF r.swap[1] > r.limit[1] THEN r.swap[1] ELSE r.limit[1]

NoLimitByAccident(r) ==
    /\ \A file \in {"memory.max", "memory.low", "pids.max"} :
          Ours(r, file) => LastWritten(file) = Unlimited \/ LastWritten(file) > 0
    /\ r.quota # <<>> /\ Ours(r, "cpu.max") =>
          LastWritten("cpu.max")[1] = IF r.quota[1] > 0 THEN r.quota[1] ELSE Unlimited

WeightsAreAsked(r) ==
    \A file \in {"cpu.weight", "io.weight"} :
        Ours(r, file) <=> LET asked == IF file = "cpu.weight" THEN r.shares ELSE r.weight
                          IN  asked # <<>> /\ asked[1] # 0 /\ ~InUnified(r, file)

SharesOrdered(n) ==
    /\ shares_to_weight(n) \in 1..10000 /\ shares_to_weight(262144) = 10000
    /\ \A s \in {1, 2, 28, 29, 1024, 262143} : s <= n => shares_to_weight(s) <= shares_to_weight(n)

IoWeightOrdered(n) ==
    /\ blkio_to_io_weight(n) \in 1..10000 /\ blkio_to_io_weight(1000) = 10000
    /\ \A s \in {1, 10, 11, 500, 999} : s <= n => blkio_to_io_weight(s) <= blkio_to_io_weight(n)

\* The limits of the container are those of config.json in the kernel's terms: memory and swap
\* together come to memory.swap, weights keep their order and stay in the kernel's range for
\* every number, nothing is limited by a value that means unlimited, and `unified` has the last
\* word.  They are in place, in a cgroup of the container's own, before the init is in it; a
\* cgroupsPath without a name is excepted (Cgroup::apply, relative_path).
LimitsAsAsked ==
    cg.member /\ b.resources # <<>> =>
        LET r == b.resources[1]
        IN  /\ MemoryAddsUp(r) /\ NoLimitByAccident(r) /\ WeightsAreAsked(r)
            /\ Ours(r, "cpu.weight") => SharesOrdered(r.shares[1])
            /\ Ours(r, "io.weight") => IoWeightOrdered(r.weight[1])
            /\ \A w \in ToSet(r.unified) : LastWritten(w.file) = w.value
            /\ b.cgroupsPath = <<>> => Len(cg.path) = 2

-----------------------------------------------------------------------------
(***************************************************************************)
(* When a bundle is refused, said of the bundle alone.                     *)
(***************************************************************************)
UserAsked == PathOf(b, "user")
Owns(k) == UserAsked = "absent" \/ PathOf(b, k) = "" \/ (PathOf(b, k) = "nested" /\ UserAsked # "")

NamespacesRefused ==
    \/ UserAsked = "" /\ ~(b.uidMap /\ b.gidMap)
    \/ \E k \in Kind \ {"user"} :
          /\ PathOf(b, k) \notin {"absent", ""}
          /\ UserAsked \notin {"absent", ""} /\ PathOf(b, k) # "nested"
    \/ PathOf(b, "time") = "unseen" /\ PathOf(b, "mount") \notin {"absent", ""}

ReadonlyMount(i) == "ro" \in parse_options(b.mounts[i].options).flags /\ ~IsBind(i)

\* A proc file system of its own at /proc, with nothing over the part that is asked for.
HasProc(name, writable) ==
    OwnMounts(b) => \E i \in NewMounts : /\ Destination(i) = <<"proc">> /\ b.mounts[i].typ = "proc" /\ ~IsBind(i)
                                         /\ ~CoveredAfter(i, <<"proc", name>>)
                                         /\ writable /\ ReadonlyMount(i) => Loosened(i)

ProcMasked == OwnMounts(b) /\ Masked(<<"proc", "self">>)
ProcReadonly == OwnMounts(b) /\ ToSet(b.readonlyPaths) \cap {<<"proc">>, <<"proc", "self">>} # {}

SysctlRefused ==
    \E key \in b.sysctl : \/ ~sysctl_resolve_ok(key) \/ ~HasProc("sys", TRUE)
                          \/ IF key = "global" THEN UserAsked # "absent" ELSE ~Owns(key)

ProcessRefused ==
    \/ ~ProgramOk(b) \/ b.cwd = <<"nodir">>
    \/ UserAsked # "absent" /\ (b.oomScoreAdj = "lower" \/ \E r \in ToSet(b.rlimits) : r.hard > HostHard)
    \/ b.oomScoreAdj # "none" /\ (~HasProc("self", TRUE) \/ ProcMasked \/ ProcReadonly)

CapabilitiesRefused ==
    LET c == b.capabilities
    IN  /\ Given(c)
        /\ \/ ~(c.bounding \cup c.permitted \cup c.effective \cup c.inheritable \subseteq Caps)
           \/ ~(c.effective \subseteq c.permitted) \/ ~(c.ambient \subseteq c.permitted \cap c.inheritable)
           \/ "SETPCAP" \notin c.effective /\ ~(c.inheritable \subseteq c.permitted)
           \/ ~(c.inheritable \subseteq c.bounding)

\* The calls that have to succeed under the filter until create reports success.
LeavesRoot == UserAsked \in {"absent", ""} /\ b.uid # 0
KeepsCaps == LeavesRoot /\ build(b.seccomp)["geteuid"] = "allow"
Filtered ==
    {"write"} \cup IF b.noNewPrivileges THEN {}
                   ELSE {"setgroups", "setgid", "setuid"}
                        \cup (IF Given(b.capabilities) THEN {"prctl", "capget", "capset"} ELSE {})
                        \cup (IF KeepsCaps THEN {"prctl"} ELSE {})

\* A root that geteuid does not tell loses its capabilities as it leaves, and lacks those asked for.
Untold ==
    /\ ~b.noNewPrivileges
    /\ \/ build(b.seccomp)["geteuid"] = "kill"
       \/ /\ LeavesRoot /\ ~KeepsCaps /\ Given(b.capabilities)
          /\ b.capabilities.permitted \cup b.capabilities.inheritable # {}

FilterRefused ==
    /\ Given(b.seccomp)
    /\ ~build_ok(b.seccomp) \/ Untold \/ \E call \in Filtered : build(b.seccomp)[call] # "allow"

\* A filter under which the set-up may end at any step, or not.
FilterStarves == Given(b.seccomp) /\ build(b.seccomp)["library"] # "allow"

\* Reasons that refuse a bundle.
Refused ==
    \/ ~spec(b) \/ ~PlanOk(b) \/ b.console = "deaf"
    \/ b.resources # <<>> /\ \E w \in ToSet(writes(b.resources[1])) :
            ControllerOf(w.file) \notin Controllers(HostControllers, HostEnabled, relative_path(b.cgroupsPath, Id))
    \/ NamespacesRefused
    \/ Layered(b) /\ ~mount_at(Layers(b)).ok
    \/ (b.hostname \/ b.domainname) /\ ~Owns("uts")
    \/ SysctlRefused \/ ProcessRefused \/ CapabilitiesRefused \/ FilterRefused

MountedType(i) ==
    IF ~IsBind(i) THEN effective_fstype(b.mounts[i].typ)
    ELSE IF b.mounts[i].source = "file" THEN "hostfile" ELSE "hostdir"

\* A mount that takes new names, and one that has no room for p, which is made in it.
Holding(i) == MountedType(i) \in {"tmpfs", "hostdir"} /\ ~ReadonlyMount(i)
Blocks(i, p) ==
    /\ IsPrefix(Destination(i), p) /\ ~Holding(i)
    /\ p \notin Contents(MountedType(i), Destination(i)) \cup {Destination(i)}

Below(q, p) == IsPrefix(q, p) /\ q # p

\* A mount that fails, or that cannot be made in the one before it.
MountsRefused ==
    \/ \E i \in NewMounts : IF IsBind(i) THEN b.mounts[i].source = "gone"
                              ELSE MountedType(i) \notin DOMAIN Governs \/ ~Owns(Governs[MountedType(i)])
    \/ \E i, j \in NewMounts : i < j /\ Blocks(i, Destination(j))
    \/ \E i, j \in NewMounts :
          /\ b.mounts[j].typ = "devpts"
          /\ Destination(i) = <<>> \/ Destination(i) = Dev("ptmx")
          /\ Destination(i) = <<>> \/ ~Holding(i)

Nodes == {Dev(name) : name \in ToSet(DEFAULT_DEVICES)} \cup {resolve(d.path) : d \in ToSet(b.devices)}

\* No room for a node, a link or the console, or a device that root may not have.
DevicesRefused ==
    \/ \E i \in NewMounts : IsPrefix(Destination(i), <<"dev">>) /\ ~Holding(i)
    \/ \E d \in ToSet(b.devices) :
          \/ ~d.onHost
          \/ d.owned /\ UserAsked # "absent"
          \/ \E i \in NewMounts : Blocks(i, resolve(d.path))
          \/ \E q \in Nodes : Below(q, resolve(d.path))
    \/ b.terminal /\ ~\E i \in NewMounts :
                        /\ Destination(i) = Dev("pts") /\ b.mounts[i].typ = "devpts" /\ ~IsBind(i)
                        /\ ~CoveredByMount(i)

\* What is hardened is not there any more, or cannot be bound.
HardeningRefused ==
    \/ \E i \in NewMounts :
          /\ "ro" \in parse_options(b.mounts[i].options).flags /\ b.mounts[i].typ = "tmpfs"
          /\ CoveredByMount(i) \/ Masked(Destination(i)) \/ UnderConsole(i)
    \/ \E k, l \in DOMAIN b.masked : k < l /\ IsPrefix(b.masked[k], <<"dev">>) /\ IsFile(b.masked[l])
    \/ b.propagation = "unbindable"

CwdRefused ==
    /\ b.cwd # <<>>
    /\ \/ b.cwd \notin Unpacked
       \/ \E q \in {Destination(i) : i \in NewMounts} \cup ToSet(b.masked) : Below(q, b.cwd)

\* A file system of the container's own in a user namespace that was joined.
OverflowRefused ==
    UserAsked \notin {"absent", ""} /\ (Layered(b) \/ \E i \in NewMounts : MountedType(i) = "tmpfs")

\* Reasons that may, depending on the order of the mounts and on who the init is in a joined user
\* namespace, refuse a bundle with its own mounts.
TreeRefused ==
    /\ OwnMounts(b)
    /\ \/ NewMounts # DOMAIN b.mounts \/ OverflowRefused
       \/ MountsRefused \/ DevicesRefused \/ HardeningRefused \/ CwdRefused

\* What keeps a container that was created from being started.
Unstartable ==
    \/ ~HasProc("self", FALSE) \/ ProcMasked
    \/ /\ Given(b.seccomp)
       /\ \/ \E call \in {"openat", "rt_sigprocmask", "execve"} : build(b.seccomp)[call] # "allow"
          \/ build(b.seccomp)["close"] = "kill"

\* A bundle fails for a reason that can be read from it and not because the steps disturb one
\* another, no refused bundle runs, and one that create accepted but that cannot run has no
\* /proc or masks it, or a filter that forbids a call of the last steps or of the libraries (the
\* order of all steps of stage_one and container_init).
FailsIfRefused ==
    /\ pc = "failed" => Refused \/ TreeRefused \/ FilterStarves
    /\ pc = "lost" => Unstartable \/ FilterStarves
    /\ pc = "running" => ~Refused /\ ~Unstartable
=============================================================================
