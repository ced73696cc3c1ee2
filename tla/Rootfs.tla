------------------------------- MODULE Rootfs -------------------------------
(***************************************************************************)
(* The file system of a container with a mount namespace of its own:       *)
(* rootfs/mounts.rs, devices.rs, pivot.rs, harden.rs and the mounts of     *)
(* container/console.rs, over the kernel's mount table.                    *)
(*                                                                         *)
(* A path is the sequence of its components, as the container sees it.     *)
(* `f` is the state; f.ok turns FALSE at the first call that fails.        *)
(***************************************************************************)
EXTENDS Integers, Sequences, SequencesExt

\* Names that are files wherever they are; all others are directories.
Files == {"kcore", "null", "zero", "full", "tty", "random", "urandom", "hosts", "fuse", "ptmx",
          "console", "fd", "stdin", "stdout", "stderr", "oom_score_adj"}
IsFile(p) == p # <<>> /\ Last(p) \in Files

\* What a file system holds where it is mounted.
Contents(typ, at) ==
    CASE typ = "proc"   -> {at \o <<"kcore">>, at \o <<"sys">>, at \o <<"scsi">>, at \o <<"self">>}
      [] typ = "sysfs"  -> {at \o <<"firmware">>, at \o <<"cgroup">>}
      [] typ = "devpts" -> {at \o <<"ptmx">>}
      [] typ = "hostdir" -> {at \o <<"sub">>}
      [] OTHER          -> {}

\* What the directory (or the layers) at root.path holds.
Unpacked == {<<"proc">>, <<"sys">>, <<"dev">>, <<"etc">>, <<"etc", "hosts">>, <<"data">>}

Mounted(fs, at, ro) == [fs |-> fs, at |-> at, ro |-> ro, unbindable |-> FALSE]
Fs(typ, source, at) == [typ |-> typ, source |-> source, at |-> at]

\* A file system that is new is none of those that are mounted already.
NewFs(f, typ, source, at) == [typ |-> typ, source |-> source, at |-> at, nr |-> Len(f.tab)]

\* The host's tree, with root.path where the container will have its root: still a directory
\* of a host file system, and all mounts shared with the host.
HostTree == [tab |-> <<>>, has |-> {}, layers |-> <<>>, prop |-> "shared", old |-> TRUE,
             leaks |-> FALSE, touched |-> {}, ok |-> TRUE]

-----------------------------------------------------------------------------
(***************************************************************************)
(* The kernel: which mount a path is on, and what mount(2) does.           *)
(***************************************************************************)
Top(f, p) ==
    LET Above(m) == IsPrefix(m.at, p) IN SelectLastInSeq(f.tab, Above)

MountOf(f, p) == f.tab[Top(f, p)]
MountPoint(f, p) == f.tab # <<>> /\ MountOf(f, p).at = p
Exists(f, p) == f.tab # <<>> /\ (MountPoint(f, p) \/ [fs |-> MountOf(f, p).fs, path |-> p] \in f.has)

Fail(f) == [f EXCEPT !.ok = FALSE]
Then(f, can, after) == IF f.ok /\ can THEN after ELSE Fail(f)

Holds(f, p) == ~MountOf(f, p).ro /\ MountOf(f, p).fs.typ \in {"base", "overlay", "tmpfs", "hostdir"}

\* create_dir_all, File::create and symlink: something new where the file system takes it.
Make(f, p) ==
    LET new == {SubSeq(p, 1, i) : i \in {j \in 1..Len(p) : ~Exists(f, SubSeq(p, 1, j))}}
    IN  IF new = {} THEN f
        ELSE Then(f, Holds(f, p), [f EXCEPT !.has = @ \cup {[fs |-> MountOf(f, q).fs, path |-> q] : q \in new}])

\* A mount that is still shared with the host appears there too.
Add(f, fs, at, ro) ==
    [f EXCEPT !.tab = Append(@, Mounted(fs, at, ro)),
              !.has = @ \cup {[fs |-> fs, path |-> q] : q \in Contents(fs.typ, at)},
              !.leaks = @ \/ (f.prop = "shared" /\ f.old)]

SetRo(f, p, ro) == [f EXCEPT !.tab[Top(f, p)].ro = ro]

\* Binding a path onto itself.  When it is recursive, the mounts made since the one that the
\* path is on come along: those below the path, and the others, which are seen where they were
\* because they keep their order.
SelfBind(f, p, rec) ==
    LET own == [MountOf(f, p) EXCEPT !.at = p]
        later == IF rec THEN SubSeq(f.tab, Top(f, p) + 1, Len(f.tab)) ELSE <<>>
    IN  Then(f, ~MountOf(f, p).unbindable, [f EXCEPT !.tab = @ \o <<own>> \o later])

-----------------------------------------------------------------------------
(***************************************************************************)
(* mounts.rs.                                                              *)
(***************************************************************************)
Propagations == [private |-> {"private"}, rprivate |-> {"private", "rec"},
                 slave |-> {"slave"}, rslave |-> {"slave", "rec"},
                 shared |-> {"shared"}, rshared |-> {"shared", "rec"},
                 unbindable |-> {"unbindable"}, runbindable |-> {"unbindable", "rec"}]
Sets == [ro |-> {"ro"}, noexec |-> {"noexec"}, remount |-> {"remount"}, bind |-> {"bind"},
         rbind |-> {"bind", "rec"}] @@ Propagations
Clears == [rw |-> {"ro"}, exec |-> {"noexec"}, defaults |-> {}]

\* Each option after the one before it; what is no flag is data for the file system.
parse_options(options) ==
    FoldLeft(LAMBDA o, option :
                IF option \in DOMAIN Sets THEN [o EXCEPT !.flags = @ \cup Sets[option]]
                ELSE IF option \in DOMAIN Clears THEN [o EXCEPT !.flags = @ \ Clears[option]]
                ELSE [o EXCEPT !.data = Append(@, option)],
             [flags |-> {}, data |-> <<>>], options)

\* ".." goes up, and stays at the root of the container.
resolve(destination) ==
    FoldLeft(LAMBDA out, c : IF c = ".." THEN (IF out = <<>> THEN out ELSE Front(out))
                             ELSE IF c = "." THEN out ELSE Append(out, c),
             <<>>, destination)

\* The host is a unified one.
effective_fstype(requested) == IF requested = "cgroup" THEN "cgroup2" ELSE requested

\* The namespace whose owner alone may mount a type.
Governs == [proc |-> "pid", sysfs |-> "network", mqueue |-> "ipc", cgroup2 |-> "cgroup",
            tmpfs |-> "mount", devpts |-> "mount"]

\* mount(2) as path_mount sorts it out: a remount, a bind, a change of propagation (which takes
\* no other flag), or a new mount.  `able`: the namespaces that the caller has capabilities over.
Mount(f, m, at, fstype, flags, able) ==
    LET props == flags \cap {"private", "slave", "shared", "unbindable"}
        ro == "ro" \in flags
    IN  IF "remount" \in flags THEN Then(f, MountPoint(f, at), SetRo(f, at, ro))
        ELSE IF "bind" \in flags
             THEN Then(f, m.source # "gone",
                       Add(f, Fs(IF m.source = "file" THEN "hostfile" ELSE "hostdir", m.source, at), at, FALSE))
        ELSE IF props # {}
             THEN Then(f, flags \ props \subseteq {"rec"} /\ MountPoint(f, at),
                       [f EXCEPT !.tab[Top(f, at)].unbindable = "unbindable" \in props])
        ELSE Then(f, fstype \in DOMAIN Governs /\ Governs[fstype] \in able, Add(f, NewFs(f, fstype, m.source, at), at, ro))

link_ptmx(f) ==
    Then(f, Exists(f, <<"dev">>) /\ Holds(f, <<"dev", "ptmx">>),
         [f EXCEPT !.has = @ \cup {[fs |-> MountOf(f, <<"dev", "ptmx">>).fs, path |-> <<"dev", "ptmx">>]}])

apply_one(f, m, able) ==
    LET destination == resolve(m.destination)
        fstype == effective_fstype(m.typ)
        flags == parse_options(m.options).flags
        mounted == Mount(Make(f, destination), m, destination, fstype, flags, able)
    IN  IF mounted.ok /\ fstype = "devpts" THEN link_ptmx(mounted) ELSE mounted

-----------------------------------------------------------------------------
(***************************************************************************)
(* devices.rs.                                                             *)
(***************************************************************************)
DEFAULT_DEVICES == <<"null", "zero", "full", "tty", "random", "urandom">>
SYMLINKS == <<"fd", "stdin", "stdout", "stderr">>
Dev(name) == <<"dev", name>>

bind(f, target, onHost) ==
    LET made == Make(f, target)
    IN  Then(made, onHost, Add(made, Fs("hostdev", "file", target), target, FALSE))

\* Nothing is done where something is; a container with a user namespace or a joined namespace
\* gets the host's node.
node(f, target, onHost, user_namespace) ==
    IF ~f.ok \/ Exists(f, target) THEN f
    ELSE IF user_namespace THEN bind(Make(f, Front(target)), target, onHost)
    ELSE Make(f, target)

\* A new owner for the node; one that is bound is the host's, which root may change and the
\* root of a user namespace may not.
chown(f, target, hostUser) ==
    IF \E m \in ToSet(f.tab) : m = MountOf(f, target) /\ m.fs.typ = "hostdev"
    THEN Then(f, hostUser, [f EXCEPT !.touched = @ \cup {"owner of a device"}])
    ELSE f

extra_device(f, d, user_namespace, hostUser) ==
    LET target == resolve(d.path)
        there == node(f, target, d.onHost, user_namespace)
    IN  IF there.ok /\ d.owned THEN chown(there, target, hostUser) ELSE there

-----------------------------------------------------------------------------
(***************************************************************************)
(* pivot.rs, and the root of the new tree.                                 *)
(***************************************************************************)
make_root_private(f) == [f EXCEPT !.prop = "private"]

Rooted(f, typ, layers) ==
    LET g == Add(f, Fs(typ, "none", <<>>), <<>>, FALSE)
    IN  [g EXCEPT !.has = @ \cup {[fs |-> Fs(typ, "none", <<>>), path |-> p] : p \in Unpacked},
                  !.layers = layers]

make_mount_point(f) == Rooted(f, "base", <<>>)

\* The kernel moves no mount that is shared, and only a mount point becomes the root.
pivot(f) == Then(f, f.prop # "shared" /\ MountPoint(f, <<>>), [f EXCEPT !.old = FALSE])

\* All mounts that are there, and none that come later.
set_propagation(f, requested) ==
    IF requested = "none" THEN f
    ELSE [f EXCEPT !.prop = requested,
                   !.tab = [i \in DOMAIN @ |-> [@[i] EXCEPT !.unbindable = requested = "unbindable"]]]

-----------------------------------------------------------------------------
(***************************************************************************)
(* harden.rs.                                                              *)
(***************************************************************************)
mask_one(f, p) ==
    IF ~f.ok \/ ~Exists(f, p) THEN f
    ELSE IF IsFile(p) THEN Then(f, Exists(f, Dev("null")) /\ ~MountOf(f, Dev("null")).unbindable,
                                Add(f, Fs("null", "none", p), p, FALSE))
    ELSE Add(f, Fs("mask", "none", p), p, TRUE)

\* Variant: the mounts below the path are not taken along.
readonly_one_flat(f, p) ==
    IF ~f.ok \/ ~Exists(f, p) THEN f ELSE SetRo(SelfBind(f, p, FALSE), p, TRUE)

readonly_one(f, p) ==
    IF ~f.ok \/ ~Exists(f, p) THEN f
    ELSE SetRo(SelfBind(f, p, TRUE), p, TRUE)

readonly_rootfs(f) == SetRo(f, <<>>, TRUE)

remount_readonly(f, m) ==
    LET destination == resolve(m.destination)
    IN  IF "ro" \in parse_options(m.options).flags /\ m.typ = "tmpfs"
        THEN Then(f, MountPoint(f, destination), SetRo(f, destination, TRUE))
        ELSE f

-----------------------------------------------------------------------------
(***************************************************************************)
(* console.rs, inside the new root: the pty comes from the container's own *)
(* devpts, its master goes to the caller, its slave becomes /dev/console   *)
(* and the standard streams.                                               *)
(***************************************************************************)
HasPtys(f) == Exists(f, <<"dev", "pts">>) /\ MountOf(f, <<"dev", "pts">>).fs.typ = "devpts" /\ Exists(f, Dev("ptmx"))

bind_console(f) ==
    LET made == Make(f, Dev("console"))
    IN  Then(made, ~MountOf(made, <<"dev", "pts">>).unbindable,
              Add(made, Fs("pty", "none", Dev("console")), Dev("console"), FALSE))

setup_console(f) == Then(f, HasPtys(f), bind_console(f))
=============================================================================
