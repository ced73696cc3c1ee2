------------------------------- MODULE MCSetup -------------------------------
(***************************************************************************)
(* The bundles that TLC takes through Setup: a plain one and one as Docker *)
(* writes them, each with one section varied at a time, and the products   *)
(* of the sections that depend on one another.                             *)
(***************************************************************************)
EXTENDS Setup

New(kinds) == SetToSeq({[typ |-> k, path |-> ""] : k \in kinds})
At(k, path) == <<[typ |-> k, path |-> path]>>

M(destination, typ, source, options) ==
    [destination |-> destination, typ |-> typ, source |-> source, options |-> options]

Proc == M(<<"proc">>, "proc", "none", <<"noexec">>)
DevTmpfs == M(<<"dev">>, "tmpfs", "none", <<"mode=755">>)
Pts == M(<<"dev", "pts">>, "devpts", "none", <<"newinstance">>)
Shm == M(<<"dev", "shm">>, "tmpfs", "none", <<"size=65536k">>)
Sysfs == M(<<"sys">>, "sysfs", "none", <<"ro">>)
Cgroup == M(<<"sys", "cgroup">>, "cgroup", "none", <<"ro">>)
Mqueue == M(<<"dev", "mqueue">>, "mqueue", "none", <<>>)
Hosts == M(<<"etc", "hosts">>, "bind", "file", <<"rbind", "rprivate">>)

Docker == [bounding |-> {"SETID", "KILL"}, permitted |-> {"SETID", "KILL"}, effective |-> {"SETID", "KILL"},
           inheritable |-> {}, ambient |-> {}]
Filter == [default |-> "ERRNO", architectures |-> {"X86_64"},
           syscalls |-> {[names |-> Calls, action |-> "ALLOW", args |-> {}]}]

Most == {"mount", "uts", "ipc", "pid", "network", "cgroup"}

Usual ==
    [Plain EXCEPT !.namespaces = New(Most), !.hostname = TRUE, !.sysctl = {"network"},
        !.mounts = <<Proc, DevTmpfs, Pts, Shm, Sysfs, Cgroup, Mqueue, Hosts>>,
        !.masked = <<<<"proc", "kcore">>, <<"proc", "scsi">>, <<"sys", "firmware">>, <<"proc", "nothing">>>>,
        !.readonlyPaths = <<<<"proc", "sys">>>>, !.readonlyRoot = TRUE,
        !.resources = <<[NoResources EXCEPT !.limit = <<4>>, !.swap = <<6>>, !.shares = <<1024>>, !.pids = <<100>>]>>,
        !.capabilities = Docker, !.noNewPrivileges = TRUE, !.seccomp = Filter]


\* One section varied.
Vary(base, field, values) == {[base EXCEPT ![field] = v] : v \in values}
VaryAll(bases, field, values) == UNION {Vary(base, field, values) : base \in bases}

\* The usual bundle in a user namespace of its own, and in joined ones.
Rootless == [Usual EXCEPT !.namespaces = New(Most \cup {"user"}), !.uidMap = TRUE, !.gidMap = TRUE]
Joining == [Usual EXCEPT !.namespaces = At("network", "host") \o New(Most \ {"network"})]
Bases == {Plain, Usual, Rootless, Joining}

Invalid ==
    Vary(Usual, "version", {<<1, 0>>, <<1, -1, 0>>, <<2, 0, 0>>, <<1, 2, 9>>})
    \cup Vary(Usual, "foreign", {{"vm"}}) \cup Vary(Usual, "rootPath", {"", "gone"})
    \cup Vary(Usual, "linux", {FALSE}) \cup Vary(Usual, "relative", {{"cwd"}, {"mounts"}, {"maskedPaths"}})
    \cup Vary(Usual, "propagation", {"weird"}) \cup Vary(Usual, "hasProcess", {FALSE})
    \cup Vary(Usual, "namespaces", {New(Most) \o New({"uts"}), New(Most \ {"uts"})})
    \cup Vary(Usual, "env", {{"NOKEY"}, {"A=1"}, {"a\\0"}})
    \cup Vary(Usual, "terminal", {TRUE}) \cup Vary(Usual, "console", {"listening"})

Limit(soft, hard) == [typ |-> "NOFILE", soft |-> soft, hard |-> hard]

Processes ==
    LET Programs == {<<>>, <<"">>, <<"sh">>, <<"/bin/nosh">>, <<"sh", "a\\0">>, <<"sh", "-c">>}
    IN  VaryAll(VaryAll({Plain, Usual}, "args", Programs), "env", {{}, {"PATH=/none"}})
        \cup VaryAll(Bases, "rlimits", {<<Limit(1, 9)>>, <<Limit(2, 3)>>, <<Limit(3, 2)>>, <<Limit(1, 1), Limit(1, 1)>>})
        \cup VaryAll(Bases, "cwd", {<<"data">>, <<"nodir">>, <<"proc", "sys">>})
        \cup VaryAll(VaryAll(Bases, "oomScoreAdj", {"lower", "raise"}), "readonlyPaths", {<<>>, <<<<"proc">>>>})

\* Two namespaces in either order, with what depends on them.
Entries ==
    {[typ |-> k, path |-> p] : k \in {"mount", "uts", "network", "time", "cgroup"}, p \in {"", "host", "nested", "unseen"}}
    \cup {[typ |-> "user", path |-> p] : p \in {"", "host"}}

Namespaces ==
    LET Two == {[Plain EXCEPT !.namespaces = <<e1, e2>>, !.uidMap = TRUE, !.gidMap = TRUE, !.timeOffsets = TRUE,
                              !.hostname = "uts" \in {e1.typ, e2.typ}] : e1 \in Entries, e2 \in Entries}
        Three == {[Plain EXCEPT !.namespaces = <<e>> \o At("mount", p) \o At("user", q)] :
                     e \in {x \in Entries : x.typ \in {"time", "uts"}}, p \in {"", "nested"}, q \in {"host"}}
    IN  Two \cup Three \cup Vary(Rootless, "gidMap", {FALSE}) \cup Vary(Joining, "namespaces", {At("ipc", "gone")})
        \cup {[Plain EXCEPT !.namespaces = At("user", "host") \o New({"mount"}), !.mounts = m] :
                  m \in {<<Proc, DevTmpfs, Pts>>, <<Proc, Pts>>, <<DevTmpfs, Hosts>>}}
        \cup Vary(Usual, "namespaces", {New(Most \cup {"time"})}) \cup Vary(Rootless, "domainname", {TRUE})

Sysctls ==
    LET Lists == {New(Most), New(Most \ {"network"}), New(Most \cup {"user"}), At("network", "host") \o New({"mount", "user", "uts"}),
                  At("user", "host") \o At("network", "nested") \o New({"mount", "uts"}), New({"uts"})}
        Mounts == {<<Proc>>, <<M(<<"proc">>, "proc", "none", <<"ro">>)>>, <<>>}
        Keys == {{"network"}, {"global"}, {"network", "uts"}, {"network", "global"}, {".escape"}}
        With(n, m, k) == [Plain EXCEPT !.namespaces = n, !.uidMap = TRUE, !.gidMap = TRUE, !.mounts = m, !.sysctl = k,
                                       !.readonlyPaths = <<<<"proc", "sys">>>>]
    IN  {With(n, m, k) : n \in Lists, m \in Mounts, k \in Keys}

Dir(destination, options) == M(destination, "bind", "dir", options)

Mounts ==
    {<<Proc, Pts, DevTmpfs>>, <<Proc, Pts>>, <<Proc, DevTmpfs>>, <<DevTmpfs, Pts, Shm>>, <<Proc, DevTmpfs, Pts, Shm>>,
     <<Proc, DevTmpfs, Pts, M(<<"dev", "shm">>, "tmpfs", "none", <<"ro">>)>>,
     <<Proc, DevTmpfs, Pts, M(<<"run">>, "tmpfs", "none", <<"rw", "ro">>), Dir(<<"run", "x">>, <<"rbind">>)>>,
     <<Proc, M(<<"run", "x">>, "tmpfs", "none", <<"ro">>), M(<<"run">>, "tmpfs", "none", <<"ro", "rw">>)>>,
     <<Proc, M(<<"dev">>, "tmpfs", "none", <<"ro">>)>>,
     <<Proc, Dir(<<"data">>, <<"rbind", "ro">>), M(<<"data", "sub">>, "tmpfs", "none", <<>>)>>,
     <<Proc, Dir(<<"..", "data", "..", "opt", ".">>, <<"bind">>)>>,
     <<Proc, M(<<"data">>, "bind", "gone", <<"bind">>)>>,
     <<Proc, M(<<"data">>, "none", "none", <<"private">>)>>,
     <<Proc, M(<<"data">>, "tmpfs", "none", <<>>), M(<<"data">>, "none", "none", <<"rslave">>)>>,
     <<Proc, M(<<"data">>, "tmpfs", "none", <<>>), M(<<"data">>, "tmpfs", "none", <<"remount", "ro">>)>>,
     <<Proc, Sysfs, Cgroup, M(<<"sys">>, "sysfs", "none", <<"remount">>)>>,
     <<Proc, DevTmpfs, Pts, M(<<"dev", "console">>, "mqueue", "none", <<"ro">>)>>,
     <<Proc, M(<<"data">>, "ext9", "none", <<>>)>>, <<Proc, M(<<"proc", "x">>, "tmpfs", "none", <<>>)>>,
     <<Proc, M(<<"data", "pts">>, "devpts", "none", <<>>)>>,
     <<Proc, DevTmpfs, Pts, M(<<"dev">>, "tmpfs", "none", <<>>)>>,
     <<Proc, DevTmpfs, Pts, Dir(<<"dev", "null", "x">>, <<"bind">>)>>,
     <<Proc, M(<<"proc", "sys">>, "tmpfs", "none", <<>>)>>, <<Proc, M(<<"proc", "self">>, "tmpfs", "none", <<"ro">>)>>,
     <<M(<<"proc">>, "proc", "none", <<"ro">>), Proc>>, <<Proc, M(<<"proc">>, "proc", "dir", <<"bind">>)>>,
     <<M(<<"proc">>, "proc", "none", <<"ro">>), M(<<"proc">>, "proc", "none", <<"remount">>)>>,
     <<M(<<>>, "tmpfs", "none", <<>>), Proc, Pts>>, <<M(<<>>, "tmpfs", "none", <<>>), Proc>>,
     <<Proc, M(<<"dev", "ptmx">>, "bind", "file", <<"bind">>), Pts>>, <<Proc, M(<<"etc">>, "tmpfs", "none", <<>>)>>,
     <<Proc, M(<<"etc">>, "bind", "file", <<"bind">>), Hosts>>,
     <<Proc, M(<<"data">>, "tmpfs", "dir", <<"bind", "ro">>), M(<<"data">>, "tmpfs", "none", <<>>)>>}

Samples == {<<"proc">>, <<"proc", "sys">>, <<"proc", "kcore">>, <<"data">>, <<"data", "sub">>, <<"dev", "shm">>, <<"none">>}

Trees ==
    LET Plainer == [Usual EXCEPT !.masked = <<>>, !.readonlyPaths = <<>>, !.sysctl = {}]
        Console(x) == [x EXCEPT !.terminal = TRUE, !.console = "listening"]
        Users == {Plainer, [Plainer EXCEPT !.namespaces = Rootless.namespaces, !.uidMap = TRUE, !.gidMap = TRUE]}
        Shapes == {[x EXCEPT !.mounts = m] : x \in Users \cup {Console(x) : x \in Users}, m \in Mounts}
        Uses == {[Plainer EXCEPT !.sysctl = {"uts"}], [Plainer EXCEPT !.oomScoreAdj = "raise"],
                 [Plainer EXCEPT !.cwd = <<"etc", "hosts">>], [Plainer EXCEPT !.masked = <<<<"dev">>, <<"proc", "kcore">>>>]}
        Lists == {<<p, q>> : p \in Samples, q \in Samples}
        Inner == [Plainer EXCEPT !.mounts = <<Proc, DevTmpfs, Pts, Shm, Dir(<<"data">>, <<"bind">>), M(<<"data", "sub">>, "tmpfs", "none", <<"ro">>)>>]
        Extra(path, onHost, owned) == [path |-> path, onHost |-> onHost, owned |-> owned]
    IN  Shapes \cup {[x EXCEPT !.mounts = m] : x \in Uses, m \in Mounts}
        \cup {[Inner EXCEPT !.masked = l, !.readonlyPaths = <<p>>, !.readonlyRoot = r] : l \in Lists, p \in Samples, r \in BOOLEAN}
        \cup {[Inner EXCEPT !.masked = <<p>>, !.readonlyPaths = l] : l \in Lists, p \in Samples}
        \cup VaryAll(VaryAll({Plainer, Usual, Console(Plainer)}, "propagation", {"shared", "slave", "private", "unbindable"}),
                     "readonlyPaths", {<<>>, <<<<"proc", "sys">>>>, <<<<"proc", "scsi">>>>})
        \cup VaryAll(Bases, "devices", {<<Extra(Dev("fuse"), h, o)>> : h \in BOOLEAN, o \in BOOLEAN}
                                       \cup {<<Extra(Dev("null"), TRUE, TRUE)>>})
        \cup VaryAll({Console(Usual), Console(Rootless)}, "devices",
                     {<<Extra(Dev("console"), TRUE, FALSE)>>, <<Extra(Dev("console") \o <<"x">>, TRUE, FALSE)>>,
                      <<Extra(Dev("fuse"), TRUE, FALSE), Extra(Dev("fuse") \o <<"x">>, TRUE, FALSE)>>})
        \cup VaryAll({Usual, Console(Usual)}, "masked", {<<<<"dev">>>>, <<Dev("ptmx")>>, <<Dev("console"), Dev("tty")>>, <<<<>>>>})
        \cup {[Console(Plain) EXCEPT !.console = c, !.namespaces = n] : c \in {"deaf", "listening"}, n \in {<<>>, New(Most)}}

Abs(path) == [absolute |-> TRUE, path |-> path]
Rel(path) == [absolute |-> FALSE, path |-> path]
Upper == <<Abs(<<"l", "up">>)>>
Work == <<Abs(<<"l", "work">>)>>

Layerings ==
    LET Lowers == {<<Abs(<<"l", "1">>)>>, <<Abs(<<"l", "1">>), Abs(<<"l", "2">>)>>, <<Rel(<<"1">>), Abs(<<"l", "2">>)>>,
                   <<Abs(<<"l", "1">>), Abs(<<"l", "gone">>)>>, <<Abs(<<"l", "1">>), Abs(<<"l", "com,ma">>)>>,
                   <<Abs(<<"l", "1">>), Abs(<<"l", "co:lon">>), Abs(<<"l", "co:lon2">>)>>,
                   <<Abs(<<"l", "i", "1">>), Abs(<<"l", "i", "2">>), Abs(<<"l", "3">>)>>,
                   <<Abs(<<"l", "i", "1">>), Abs(<<"m", "i", "2">>), Abs(<<"l", "3">>), Abs(<<"l", "4">>)>>,
                   <<Abs(<<"l", "1">>), Abs(<<"l", "1">>)>>, <<Abs(<<"l", "1">>), Abs(<<"l", "1", "in">>)>>,
                   <<Abs(<<"alias", "up">>), Abs(<<"l", "2">>)>>, <<>>}
        Uppers == {<<Upper, Work>>, <<<<>>, <<>>>>, <<Upper, <<>>>>, <<<<>>, Work>>, <<Upper, <<Abs(<<"other", "w">>)>>>>,
                   <<Upper, <<Abs(<<"l", "up", "w">>)>>>>, <<<<Abs(<<"l", "work", "u">>)>>, Work>>, <<Upper, <<Abs(<<"l", "1", "w">>)>>>>}
        Annotations == {[lower |-> <<l>>, upper |-> u[1], work |-> u[2]] : l \in Lowers, u \in Uppers}
                       \cup {[lower |-> <<>>, upper |-> u[1], work |-> u[2]] : u \in Uppers}
    IN  VaryAll(Vary(Usual, "rootPath", {"empty", "gone"}), "overlay", Annotations)
        \cup VaryAll({Usual, Plain}, "overlay", {[lower |-> <<<<Abs(<<"l", "1">>)>>>>, upper |-> Upper, work |-> Work]})

Quantities ==
    LET R(field, values) == Vary(NoResources, field, {<<v>> : v \in values})
        Memory == {[NoResources EXCEPT !.limit = l, !.swap = s] :
                      l \in {<<>>, <<-1>>, <<0>>, <<4>>}, s \in {<<>>, <<-1>>, <<0>>, <<3>>, <<4>>, <<6>>}}
        Ends == R("shares", {0, 1, 2, 28, 29, 1024, 262144, 2147483647}) \cup R("weight", {0, 1, 10, 11, 500, 1000, 65535})
                \cup R("pids", {-1, 0, 100}) \cup R("reservation", {0, 3}) \cup R("cpus", {"0-1", ""}) \cup R("mems", {"0", ""})
                \cup {[NoResources EXCEPT !.quota = <<q>>, !.period = p] : q \in {-1, 0, 50000}, p \in {<<>>, <<1000>>}}
        Others == {[NoResources EXCEPT !.throttles.wbps = <<1>>, !.throttles.rbps = <<2, 1>>],
                   [NoResources EXCEPT !.limit = <<4>>, !.unified = <<[file |-> "memory.max", value |-> 2]>>],
                   [NoResources EXCEPT !.unified = <<[file |-> "misc.max", value |-> 2]>>]}
    IN  VaryAll(VaryAll({Plain}, "resources", {<<r>> : r \in Memory \cup Ends \cup Others}), "cgroupsPath", {<<>>, <<<<"..", "x">>>>, <<<<"..">>>>, <<<<"a", "b", "c">>>>})

Sets5(bounding, permitted, effective, inheritable, ambient) ==
    [bounding |-> bounding, permitted |-> permitted, effective |-> effective, inheritable |-> inheritable, ambient |-> ambient]

Deny(call, action) == [default |-> "ALLOW", architectures |-> {}, syscalls |-> {[names |-> {call, "unknown"}, action |-> action, args |-> {}]}]

Privileged ==
    LET Asked == {None, Docker, Sets5({}, {}, {}, {}, {}), Sets5(Caps, Caps, Caps, {}, {}),
                  Sets5({"KILL"}, {"KILL"}, {"KILL"}, {"KILL"}, {"KILL"}), Sets5({"KILL"}, {"KILL"}, {}, {}, {"KILL"}),
                  Sets5({"KILL"}, {"KILL"}, {"KILL", "SETID"}, {}, {}), Sets5(Caps, {"KILL"}, {"KILL"}, {"SETID"}, {}),
                  Sets5(Caps, {"SETPCAP"}, {"SETPCAP"}, {"KILL"}, {}), Sets5({"SETPCAP"}, Caps, {"SETPCAP"}, {"KILL"}, {}),
                  Sets5(Caps \cup {"UNKNOWN"}, Caps, Caps, {}, {})}
        Filters == {None, Filter} \cup {Deny(call, "ERRNO") : call \in Calls} \cup {Deny("capset", "KILL"), Deny("geteuid", "KILL"), Deny("close", "KILL"), Deny("rest", "NOTIFY")}
                   \cup {[Filter EXCEPT !.architectures = {"unknown"}], [Filter EXCEPT !.default = "NOTIFY"],
                         [Filter EXCEPT !.syscalls = {[names |-> {"rest"}, action |-> "ALLOW", args |-> {6}]}],
                         [Filter EXCEPT !.syscalls = {[names |-> {"unknown"}, action |-> "ALLOW", args |-> {6}],
                                                      [names |-> Calls, action |-> "LOG", args |-> {}]}]}
        Users == {<<>>, New({"user"}), At("user", "host")}
    IN  {[Plain EXCEPT !.namespaces = n, !.uidMap = TRUE, !.gidMap = TRUE, !.uid = id, !.gid = id + 1, !.groups = {"g"},
                       !.capabilities = c, !.seccomp = f, !.noNewPrivileges = nnp] :
            n \in Users, id \in {0, 1000}, c \in Asked, f \in Filters, nnp \in BOOLEAN}

MCBundles == Bases \cup Invalid \cup Processes \cup Namespaces \cup Sysctls \cup Trees \cup Layerings \cup Quantities \cup Privileged
=============================================================================
