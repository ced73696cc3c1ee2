----------------------------- MODULE Privileges -----------------------------
(***************************************************************************)
(* How the init gives up what it may do: container/process.rs,             *)
(* container/capabilities.rs and container/seccomp.rs, over the part of    *)
(* the kernel that decides what each call changes and when it is refused.  *)
(*                                                                         *)
(* A process is a record `k`; k.ok turns FALSE at the first call that      *)
(* fails (or kills the process), and nothing changes after that.           *)
(***************************************************************************)
EXTENDS Integers, Sequences, SequencesExt

Caps == {"SETID", "SETPCAP", "SYS_ADMIN", "KILL"}       \* SETID: CAP_SETUID and CAP_SETGID
OverflowId == 65534

\* What a filter may name: the calls that the set-up makes while one may be in place, "library"
\* for those that the allocator and the libraries may make meanwhile (brk, mmap, munmap), and
\* "rest" for all others.
Calls == {"geteuid", "prctl", "capget", "capset", "setgroups", "setgid", "setuid", "write", "openat", "close",
          "rt_sigprocmask", "execve", "library", "rest"}

\* A root process, as mars is and as a child of it starts.
Root == [uid |-> 0, gid |-> 0, groups |-> {"host"},
         eff |-> Caps, perm |-> Caps, inh |-> {}, amb |-> {}, bnd |-> Caps,
         keepcaps |-> FALSE, nnp |-> FALSE, filter |-> <<>>, ok |-> TRUE]

-----------------------------------------------------------------------------
(***************************************************************************)
(* The kernel.                                                             *)
(***************************************************************************)
Allows(k, call) == k.filter = <<>> \/ k.filter[1][call] = "allow"
Kills(k, call) == k.filter # <<>> /\ k.filter[1][call] = "kill"

\* k after a call, for which it needs `can`.
Call(k, call, can, after) == IF k.ok /\ Allows(k, call) /\ can THEN after ELSE [k EXCEPT !.ok = FALSE]

\* A process in a user namespace that is new to it has all capabilities there, and no id.
EnterUserNamespace(k) ==
    [k EXCEPT !.uid = OverflowId, !.gid = OverflowId, !.eff = Caps, !.perm = Caps,
              !.inh = {}, !.amb = {}, !.bnd = Caps, !.keepcaps = FALSE]

Setgroups(k, groups) == Call(k, "setgroups", "SETID" \in k.eff, [k EXCEPT !.groups = groups])
Setgid(k, gid) == Call(k, "setgid", "SETID" \in k.eff \/ gid = k.gid, [k EXCEPT !.gid = gid])

\* Leaving uid 0 clears the sets, becoming it fills the effective one.
Setuid(k, uid) ==
    LET leaves == k.uid = 0 /\ uid # 0
        enters == k.uid # 0 /\ uid = 0
    IN  Call(k, "setuid", "SETID" \in k.eff \/ uid = k.uid,
             [k EXCEPT !.uid = uid,
                       !.perm = IF leaves /\ ~k.keepcaps THEN {} ELSE @,
                       !.eff = IF leaves THEN {} ELSE IF enters THEN k.perm ELSE @,
                       !.amb = IF leaves THEN {} ELSE @])

\* capset takes three sets; the library changes one and passes the others as capget has them.
Capset(k, eff, perm, inh) ==
    Call(Call(k, "capget", TRUE, k), "capset",
         /\ perm \subseteq k.perm /\ eff \subseteq perm
         /\ inh \subseteq k.inh \cup k.bnd
         /\ "SETPCAP" \notin k.eff => inh \subseteq k.inh \cup k.perm,
         [k EXCEPT !.eff = eff, !.perm = perm, !.inh = inh, !.amb = @ \cap perm \cap inh])

Load(k, filter) == Call(k, "rest", k.nnp \/ "SYS_ADMIN" \in k.eff, [k EXCEPT !.filter = <<filter>>])

\* execve of a program with no bits or capabilities of its own.
Execve(k) ==
    LET found == IF k.uid = 0 THEN k.bnd \cup k.inh ELSE {}
        perm == (IF k.nnp THEN found \cap k.perm ELSE found) \cup k.amb
    IN  Call(k, "execve", TRUE,
             [k EXCEPT !.perm = perm, !.eff = IF k.uid = 0 THEN perm ELSE k.amb, !.keepcaps = FALSE])

-----------------------------------------------------------------------------
(***************************************************************************)
(* capabilities.rs and process.rs.  `spec` holds the five asked sets.      *)
(***************************************************************************)
parse_ok(names) == names \subseteq Caps

keep_caps_across_setuid(k, keep) == Call(k, "prctl", TRUE, [k EXCEPT !.keepcaps = keep])
set_no_new_privs(k) == Call(k, "prctl", TRUE, [k EXCEPT !.nnp = TRUE])

drop_bounding(k, spec) ==
    Call(k, "prctl",
         /\ parse_ok(spec.bounding)
         /\ "SETPCAP" \in k.eff \/ k.bnd \subseteq spec.bounding,
         [k EXCEPT !.bnd = @ \cap spec.bounding])

\* Effective first, so that permitted never lacks one of it; ambient last.
apply_caps(k, spec) ==
    LET asked == /\ \A s \in {spec.permitted, spec.effective, spec.inheritable, spec.ambient} : parse_ok(s)
                 /\ spec.effective \subseteq spec.permitted
        k1 == Call(k, "capget", asked, k)
        k2 == Capset(k1, spec.effective, k1.perm, k1.inh)
        k3 == Capset(k2, k2.eff, spec.permitted, k2.inh)
        k4 == Capset(k3, k3.eff, k3.perm, spec.inheritable)
        k5 == Call(k4, "prctl", TRUE, [k4 EXCEPT !.amb = {}])
    IN  Call(k5, "prctl", spec.ambient \subseteq spec.permitted \cap spec.inheritable,
             [k5 EXCEPT !.amb = spec.ambient])

\* Variant: the ids swapped.
drop_privileges_swapped(k, uid, gid, groups) ==
    Setuid(Setgid(keep_caps_across_setuid(Setgroups(k, groups), TRUE), uid), gid)

\* The groups, the group and the user; a root that stops being one keeps what it may do.  A
\* geteuid that a filter makes fail returns -1, and the root is not taken for one.
drop_privileges(k, uid, gid, groups) ==
    LET leaving_root == Allows(k, "geteuid") /\ k.uid = 0 /\ uid # 0
        Keep(p, keep) == IF leaving_root THEN keep_caps_across_setuid(p, keep) ELSE p
        k1 == Keep(Setgroups([k EXCEPT !.ok = @ /\ ~Kills(k, "geteuid")], groups), TRUE)
    IN  Keep(Setuid(Setgid(k1, gid), uid), FALSE)

\* Inside a user namespace that was just mapped.
become_root_in_namespace(k) == Setuid(Setgid(k, 0), 0)

\* Limits: only a process of the host's user namespace raises a hard one.
HostHard == 5
apply_limits_ok(rlimits, hostUser) == \A r \in ToSet(rlimits) : r.hard > HostHard => hostUser

apply_oom_score_adj_ok(score, hostUser, procWritable) ==
    score # "none" => procWritable /\ (score = "lower" => hostUser)

-----------------------------------------------------------------------------
(***************************************************************************)
(* seccomp.rs.  What a filter does to a call: let it through, make it fail *)
(* or end the caller.                                                      *)
(***************************************************************************)
Actions == {"KILL", "KILL_THREAD", "KILL_PROCESS", "TRAP", "ERRNO", "TRACE", "ALLOW", "LOG"}

Verdict(action) ==
    CASE action \in {"KILL", "KILL_THREAD", "KILL_PROCESS", "TRAP"} -> "kill"
      [] action \in {"ERRNO", "TRACE"}                              -> "errno"
      [] action \in {"ALLOW", "LOG"}                                -> "allow"

action_ok(action) == action \in Actions             \* not NOTIFY
architecture_ok(arch) == arch # "unknown"
comparator_ok(index) == index <= 5

Known(names) == names \cap Calls

\* The arguments of a rule are looked at only for a call that is known.
build_ok(spec) ==
    /\ action_ok(spec.default)
    /\ \A arch \in spec.architectures : architecture_ok(arch)
    /\ \A r \in spec.syscalls : action_ok(r.action) /\ (Known(r.names) # {} => \A i \in r.args : comparator_ok(i))

\* Unknown names are left out, and so is a rule that restates the default; a rule with
\* arguments is taken to match none of the calls the set-up makes.
build(spec) ==
    [c \in Calls |->
        LET rules == {r \in spec.syscalls : c \in r.names /\ r.args = {}}
        IN  Verdict(IF rules = {} THEN spec.default ELSE (CHOOSE r \in rules : TRUE).action)]

\* Variant: no_new_privs is left to the library.
apply_seccomp_as_is(k, spec) ==
    IF build_ok(spec) THEN Load([k EXCEPT !.nnp = TRUE], build(spec)) ELSE [k EXCEPT !.ok = FALSE]

\* The library would set no_new_privs on loading; CtlNnp 0 turns that off.
apply_seccomp(k, spec) == IF build_ok(spec) THEN Load(k, build(spec)) ELSE [k EXCEPT !.ok = FALSE]
=============================================================================
