----------------------------- MODULE SetupProof -----------------------------
(***************************************************************************)
(* The privileges of the program, for every bundle: whatever users, groups,*)
(* capabilities and filter config.json asks for, and whichever namespaces  *)
(* the container has, what runs after execve has these and no others.      *)
(*                                                                         *)
(* The invariant is what the credentials are at each step of the init; the *)
(* order of the steps is what makes each of them succeed or fail.          *)
(*                                                                         *)
(* Then the limits: the conversions of cgroup/v2.rs for every number that  *)
(* config.json may hold, and what its files hold after all writes.         *)
(***************************************************************************)
EXTENDS Setup, SequenceTheorems, WellFoundedInduction, TLAPS

\* The steps before the privileges are touched.
Before == {"load", "plan", "cgroup", "apply", "spawn", "join", "unshare", "map", "attach", "cgroupns",
           "root", "mounts", "nodes", "links", "devices", "pivot", "console", "identity", "sysctl",
           "mask", "readonly", "remounts", "rootfs", "limits", "filter"}

\* A root process, of the host or of a user namespace it has entered.
Fresh == {Root, EnterUserNamespace(Root)}

Early == IF Given(b.seccomp) /\ ~b.noNewPrivileges THEN <<build(b.seccomp)>> ELSE <<>>
Final == IF Given(b.seccomp) THEN <<build(b.seccomp)>> ELSE <<>>
Bounding == IF Given(b.capabilities) THEN b.capabilities.bounding ELSE Caps

\* The truth values by name: the provers take an EXCEPT on a record better with them unexpanded.
Yes == TRUE
No == FALSE

Record(uid, gid, groups, eff, perm, inh, amb, bnd, keep, nnp, filter, ok) ==
    [uid |-> uid, gid |-> gid, groups |-> groups, eff |-> eff, perm |-> perm, inh |-> inh,
     amb |-> amb, bnd |-> bnd, keepcaps |-> keep, nnp |-> nnp, filter |-> filter, ok |-> ok]

Creds(uid, gid, groups, eff, perm, inh, amb, bnd, nnp, filter) ==
    Record(uid, gid, groups, eff, perm, inh, amb, bnd, No, nnp, filter, Yes)

\* Still root, with a filter and a bounding set.
Still(filter, bnd) ==
    \E uid, gid \in {0, OverflowId} :
        cred = Creds(uid, gid, {"host"}, Caps, Caps, {}, {}, bnd, No, filter)

\* The user asked for, with the sets asked for.
AsUser(k, eff, perm, inh, amb, nnp, filter) ==
    k = Creds(b.uid, b.gid, b.groups, eff, perm, inh, amb, Bounding, nnp, filter)

\* What is permitted after the user has been changed: all, or nothing any more for one that is
\* not root, when a filter keeps geteuid from telling the root that leaves.
Permitted(uid, perm) == perm = Caps \/ (perm = {} /\ uid # 0)

\* The sets that apply_caps leaves, or those of a process that asks for none.
Limited(nnp, filter) ==
    IF Given(b.capabilities)
    THEN AsUser(cred, b.capabilities.effective, b.capabilities.permitted, b.capabilities.inheritable,
                b.capabilities.ambient, nnp, filter)
    ELSE \E eff, perm : Permitted(b.uid, perm) /\ AsUser(cred, eff, perm, {}, {}, nnp, filter)

PInv ==
    /\ b \in Bundles
    /\ pc \in Before => cred \in Fresh
    /\ pc = "bounding" => Still(Early, Caps)
    /\ pc = "user" => Still(Early, Bounding)
    /\ pc = "caps" => \E eff, perm : Permitted(b.uid, perm) /\ AsUser(cred, eff, perm, {}, {}, No, Early)
    /\ pc = "nnp" => Limited(No, Early)
    /\ pc = "late" => Limited(b.noNewPrivileges, Early)
    /\ pc \in {"ready", "park", "parked"} => Limited(b.noNewPrivileges, Final)
    /\ ProgramPrivileges

-----------------------------------------------------------------------------
(***************************************************************************)
(* The calls, when they have succeeded.                                    *)
(***************************************************************************)
Shape(k) ==
    k = [uid |-> k.uid, gid |-> k.gid, groups |-> k.groups, eff |-> k.eff, perm |-> k.perm,
         inh |-> k.inh, amb |-> k.amb, bnd |-> k.bnd, keepcaps |-> k.keepcaps, nnp |-> k.nnp,
         filter |-> k.filter, ok |-> k.ok]

\* A call that has succeeded was possible, and has had its effect.
LEMMA CallSucceeds ==
    ASSUME NEW k, NEW call, NEW can, NEW after, Shape(k), Call(k, call, can, after).ok
    PROVE  k.ok /\ can /\ Call(k, call, can, after) = after
  BY DEF Call, Shape

Failed(k) == Shape(k) /\ ~k.ok

\* A call either has its effect or fails, and after a failure nothing else succeeds.
LEMMA CallEither ==
    ASSUME NEW k, NEW call, NEW can, NEW after, Shape(k)
    PROVE  /\ Call(k, call, can, after) = after \/ Failed(Call(k, call, can, after))
           /\ ~k.ok => Failed(Call(k, call, can, after))
  BY DEF Call, Shape, Failed

\* Entering a user namespace is the same from a fresh process as from one that has.
LEMMA FreshEnters == ASSUME NEW k \in Fresh PROVE EnterUserNamespace(k) \in Fresh
  BY DEF Fresh, EnterUserNamespace, Root

LEMMA FreshCreds ==
    ASSUME NEW k \in Fresh
    PROVE  \E uid, gid \in {0, OverflowId} :
               k = Creds(uid, gid, {"host"}, Caps, Caps, {}, {}, Caps, No, <<>>)
<1>1. CASE k = Root
  BY <1>1 DEF Root, Creds, Record, Yes, No
<1>2. CASE k = EnterUserNamespace(Root)
  BY <1>2 DEF EnterUserNamespace, Root, Creds, Record, Yes, No
<1>3. QED  BY <1>1, <1>2 DEF Fresh

\* Inside a user namespace that was mapped, the process becomes a root with everything.
LEMMA Becomes ==
    ASSUME NEW k \in Fresh, become_root_in_namespace(k).ok
    PROVE  become_root_in_namespace(k) = Root
<1> DEFINE k1 == Setgid(k, 0)
           k2 == Setuid(k1, 0)
           start == Root.groups
           empty == Root.filter
           R(uid, gid) == Creds(uid, gid, start, Caps, Caps, {}, {}, Caps, No, empty)
<1>1. start = {"host"} /\ empty = <<>>
  BY DEF Root
<1>2. PICK uid, gid \in {0, OverflowId} : k = R(uid, gid)
  BY <1>1, FreshCreds
<1>3. R(0, 0) = Root
  BY <1>1 DEF Root, Creds, Record, Yes, No
<1> HIDE DEF start, empty
<1>4. k2.ok /\ k2 = become_root_in_namespace(k)
  BY DEF become_root_in_namespace
<1>5. Shape(k) /\ [k EXCEPT !.gid = 0] = R(uid, 0)
  <2>1. Shape(k)
    BY <1>2 DEF Shape, Creds, Record
  <2>2. ASSUME NEW zero PROVE [k EXCEPT !.gid = zero] = R(uid, zero)
    BY <1>2 DEF Creds, Record
  <2>3. QED  BY <2>1, <2>2
<1>6. k1 = R(uid, 0) \/ Failed(k1)
  BY <1>5, CallEither DEF Setgid
<1> HIDE DEF k1
<1>7. k1 = R(uid, 0)
  BY <1>4, <1>6, CallEither DEF Setuid, Failed
<1> DEFINE after == [k1 EXCEPT !.uid = 0,
                               !.perm = IF (k1.uid = 0 /\ 0 # 0) /\ ~k1.keepcaps THEN {} ELSE @,
                               !.eff = IF k1.uid = 0 /\ 0 # 0 THEN {}
                                       ELSE IF k1.uid # 0 /\ 0 = 0 THEN k1.perm ELSE @,
                               !.amb = IF k1.uid = 0 /\ 0 # 0 THEN {} ELSE @]
<1>8. Shape(k1) /\ k1.eff = Caps /\ k1.perm = Caps
  BY <1>7 DEF Shape, Creds, Record
<1>9. k2 = after
  BY <1>4, <1>8, CallSucceeds DEF Setuid
<1>10. after = [k1 EXCEPT !.uid = 0, !.perm = Caps, !.eff = Caps, !.amb = {}]
  <2>1. k1.amb = {}
    BY <1>7 DEF Creds, Record
  <2>2. QED  BY <1>8, <2>1
<1> HIDE DEF after
<1>11. after = R(0, 0)
  <2>1. PICK g, zero : zero = 0 /\ k1 = R(uid, g) /\ g = 0
    BY <1>7
  <2>2. after = [k1 EXCEPT !.uid = zero, !.perm = Caps, !.eff = Caps, !.amb = {}]
    BY <1>10, <2>1
  <2>3. after = R(zero, g)
    BY <2>1, <2>2 DEF Creds, Record
  <2>4. QED  BY <2>1, <2>3
<1>12. QED  BY <1>4, <1>9, <1>11, <1>3

\* A filter that has been loaded is the one that was asked for.
LEMMA FilterLoaded ==
    ASSUME NEW k, NEW asked, Shape(k), apply_seccomp(k, asked).ok
    PROVE  apply_seccomp(k, asked) = [k EXCEPT !.filter = <<build(asked)>>]
<1>1. build_ok(asked)
  BY DEF apply_seccomp, Shape
<1>2. apply_seccomp(k, asked) = Load(k, build(asked))
  BY <1>1 DEF apply_seccomp
<1>3. QED  BY <1>2, CallSucceeds DEF Load

\* The bounding set that is left is the one that was asked for, if nothing was missing from it.
LEMMA BoundingDropped ==
    ASSUME NEW k, NEW asked, Shape(k), k.bnd = Caps, drop_bounding(k, asked).ok
    PROVE  drop_bounding(k, asked) = [k EXCEPT !.bnd = asked.bounding]
<1>1. parse_ok(asked.bounding) /\ drop_bounding(k, asked) = [k EXCEPT !.bnd = @ \cap asked.bounding]
  BY CallSucceeds DEF drop_bounding
<1>2. Caps \cap asked.bounding = asked.bounding
  BY <1>1 DEF parse_ok
<1>3. QED  BY <1>1, <1>2

\* The three sets that capset takes are the ones it sets, or it fails.
LEMMA CapsetEither ==
    ASSUME NEW uid, NEW gid, NEW groups, NEW eff0, NEW perm0, NEW inh0, NEW bnd, NEW filter,
           NEW eff, NEW perm, NEW inh, NEW k,
           k = Creds(uid, gid, groups, eff0, perm0, inh0, {}, bnd, No, filter) \/ Failed(k)
    PROVE  \/ Capset(k, eff, perm, inh) = Creds(uid, gid, groups, eff, perm, inh, {}, bnd, No, filter)
           \/ Failed(Capset(k, eff, perm, inh))
<1> DEFINE got == Call(k, "capget", TRUE, k)
<1>1. CASE Failed(got)
  BY <1>1, CallEither DEF Capset, Failed
<1>2. CASE k = Creds(uid, gid, groups, eff0, perm0, inh0, {}, bnd, No, filter) /\ got = k
  <2> DEFINE after == [k EXCEPT !.eff = eff, !.perm = perm, !.inh = inh, !.amb = @ \cap perm \cap inh]
  <2>1. Shape(k) /\ k.amb = {}
    BY <1>2 DEF Shape, Creds, Record
  <2>2. k.amb \cap perm \cap inh = {}
    BY <2>1
  <2>3. after = [k EXCEPT !.eff = eff, !.perm = perm, !.inh = inh, !.amb = {}]
    BY <2>2
  <2> HIDE DEF after
  <2>4. after = Creds(uid, gid, groups, eff, perm, inh, {}, bnd, No, filter)
    BY <1>2, <2>3 DEF Creds, Record
  <2>5. Capset(k, eff, perm, inh) = after \/ Failed(Capset(k, eff, perm, inh))
    BY <1>2, <2>1, CallEither DEF Capset, after
  <2>6. QED  BY <2>4, <2>5
<1>3. Shape(k)
  BY DEF Shape, Creds, Record, Failed
<1>4. Failed(got) \/ (got = k /\ ~Failed(k))
  BY <1>3, CallEither DEF Failed
<1>5. QED  BY <1>1, <1>2, <1>4

LEMMA CapsetFails ==
    ASSUME NEW k, NEW eff, NEW perm, NEW inh, Failed(k) PROVE Failed(Capset(k, eff, perm, inh))
<1> DEFINE got == Call(k, "capget", TRUE, k)
<1>1. Failed(got)
  BY CallEither DEF Failed
<1>2. QED  BY <1>1, CallEither DEF Capset, Failed

\* apply_caps leaves the sets asked for.
LEMMA CapsApplied ==
    ASSUME NEW uid, NEW gid, NEW groups, NEW eff0, NEW perm0, NEW bnd, NEW filter, NEW asked, NEW k,
           k = Creds(uid, gid, groups, eff0, perm0, {}, {}, bnd, No, filter),
           apply_caps(k, asked).ok
    PROVE  apply_caps(k, asked) = Creds(uid, gid, groups, asked.effective, asked.permitted,
                                        asked.inheritable, asked.ambient, bnd, No, filter)
<1> DEFINE can == /\ \A s \in {asked.permitted, asked.effective, asked.inheritable, asked.ambient} : parse_ok(s)
                  /\ asked.effective \subseteq asked.permitted
           k1 == Call(k, "capget", can, k)
           k2 == Capset(k1, asked.effective, k1.perm, k1.inh)
           k3 == Capset(k2, k2.eff, asked.permitted, k2.inh)
           k4 == Capset(k3, k3.eff, k3.perm, asked.inheritable)
           k5 == Call(k4, "prctl", TRUE, [k4 EXCEPT !.amb = {}])
           k6 == Call(k5, "prctl", asked.ambient \subseteq asked.permitted \cap asked.inheritable,
                      [k5 EXCEPT !.amb = asked.ambient])
           R(eff, perm, inh, amb) == Creds(uid, gid, groups, eff, perm, inh, amb, bnd, No, filter)
<1>1. k6 = apply_caps(k, asked)
  BY DEF apply_caps
<1>2. Shape(k)
  BY DEF Shape, Creds, Record
<1>3. k1 = R(eff0, perm0, {}, {}) \/ Failed(k1)
  BY <1>2, CallEither
<1> HIDE DEF k1
<1>4. k2 = R(asked.effective, perm0, {}, {}) \/ Failed(k2)
  <2>1. CASE k1 = R(eff0, perm0, {}, {})
    <3>1. k1.perm = perm0 /\ k1.inh = {}
      BY <2>1 DEF Creds, Record
    <3>2. QED  BY <2>1, <3>1, CapsetEither
  <2>2. CASE Failed(k1)
    BY <2>2, CapsetFails
  <2>3. QED  BY <1>3, <2>1, <2>2
<1> HIDE DEF k2
<1>5. k3 = R(asked.effective, asked.permitted, {}, {}) \/ Failed(k3)
  <2>1. CASE k2 = R(asked.effective, perm0, {}, {})
    <3>1. k2.eff = asked.effective /\ k2.inh = {}
      BY <2>1 DEF Creds, Record
    <3>2. QED  BY <2>1, <3>1, CapsetEither
  <2>2. CASE Failed(k2)
    BY <2>2, CapsetFails
  <2>3. QED  BY <1>4, <2>1, <2>2
<1> HIDE DEF k3
<1>6. k4 = R(asked.effective, asked.permitted, asked.inheritable, {}) \/ Failed(k4)
  <2>1. CASE k3 = R(asked.effective, asked.permitted, {}, {})
    <3>1. k3.eff = asked.effective /\ k3.perm = asked.permitted
      BY <2>1 DEF Creds, Record
    <3>2. QED  BY <2>1, <3>1, CapsetEither
  <2>2. CASE Failed(k3)
    BY <2>2, CapsetFails
  <2>3. QED  BY <1>5, <2>1, <2>2
<1> HIDE DEF k4
<1>7. ~Failed(k5)
  BY <1>1, CallEither DEF Failed
<1>8. ~Failed(k4)
  BY <1>7, CallEither DEF Failed
<1>9. k5 = R(asked.effective, asked.permitted, asked.inheritable, {})
  <2>1. k4 = R(asked.effective, asked.permitted, asked.inheritable, {})
    BY <1>6, <1>8
  <2>2. Shape(k4) /\ [k4 EXCEPT !.amb = {}] = k4
    BY <2>1 DEF Shape, Creds, Record
  <2>3. QED  BY <1>7, <2>1, <2>2, CallEither
<1> HIDE DEF k5
<1>10. /\ Shape(k5)
       /\ [k5 EXCEPT !.amb = asked.ambient]
            = R(asked.effective, asked.permitted, asked.inheritable, asked.ambient)
  BY <1>9 DEF Shape, Creds, Record
<1>11. QED  BY <1>1, <1>10, CallSucceeds

LEMMA FilterSet ==
    ASSUME NEW uid, NEW gid, NEW groups, NEW eff, NEW perm, NEW inh, NEW amb, NEW bnd, NEW nnp, NEW filter,
           NEW asked, NEW k,
           k = Creds(uid, gid, groups, eff, perm, inh, amb, bnd, nnp, filter), apply_seccomp(k, asked).ok
    PROVE  apply_seccomp(k, asked)
               = Creds(uid, gid, groups, eff, perm, inh, amb, bnd, nnp, <<build(asked)>>)
<1> DEFINE loaded == <<build(asked)>>
<1>1. Shape(k)
  BY DEF Shape, Creds, Record
<1>2. apply_seccomp(k, asked) = [k EXCEPT !.filter = loaded]
  BY <1>1, FilterLoaded
<1> HIDE DEF loaded
<1>3. [k EXCEPT !.filter = loaded] = Creds(uid, gid, groups, eff, perm, inh, amb, bnd, nnp, loaded)
  BY DEF Creds, Record
<1>4. QED  BY <1>2, <1>3 DEF loaded

LEMMA NnpSet ==
    ASSUME NEW uid, NEW gid, NEW groups, NEW eff, NEW perm, NEW inh, NEW amb, NEW bnd, NEW filter, NEW k,
           k = Creds(uid, gid, groups, eff, perm, inh, amb, bnd, No, filter), set_no_new_privs(k).ok
    PROVE  set_no_new_privs(k) = Creds(uid, gid, groups, eff, perm, inh, amb, bnd, Yes, filter)
<1>1. Shape(k)
  BY DEF Shape, Creds, Record
<1>2. set_no_new_privs(k) = [k EXCEPT !.nnp = Yes]
  BY <1>1, CallSucceeds DEF set_no_new_privs, Yes
<1>3. [k EXCEPT !.nnp = Yes] = Creds(uid, gid, groups, eff, perm, inh, amb, bnd, Yes, filter)
  BY DEF Creds, Record
<1>4. QED  BY <1>2, <1>3

\* What execve makes of the sets of a process.
LEMMA ExecveKeeps ==
    ASSUME NEW uid, NEW gid, NEW groups, NEW eff, NEW perm, NEW inh, NEW amb, NEW bnd, NEW nnp, NEW filter,
           NEW k, k = Creds(uid, gid, groups, eff, perm, inh, amb, bnd, nnp, filter), Execve(k).ok
    PROVE  LET found == IF uid = 0 THEN bnd \cup inh ELSE {}
               x == Execve(k)
           IN  /\ x.uid = uid /\ x.gid = gid /\ x.groups = groups /\ x.bnd = bnd
               /\ x.nnp = nnp /\ x.filter = filter
               /\ x.perm = (IF nnp THEN found \cap perm ELSE found) \cup amb
               /\ x.eff = IF uid = 0 THEN x.perm ELSE amb
<1> DEFINE found == IF k.uid = 0 THEN k.bnd \cup k.inh ELSE {}
           newPerm == (IF k.nnp THEN found \cap k.perm ELSE found) \cup k.amb
           newEff == IF k.uid = 0 THEN newPerm ELSE k.amb
           after == [k EXCEPT !.perm = newPerm, !.eff = newEff, !.keepcaps = FALSE]
<1>1. /\ Shape(k) /\ k.uid = uid /\ k.gid = gid /\ k.groups = groups /\ k.bnd = bnd /\ k.nnp = nnp
      /\ k.filter = filter /\ k.perm = perm /\ k.inh = inh /\ k.amb = amb
  BY DEF Shape, Creds, Record
<1>2. Execve(k) = after
  <2>1. Execve(k) = Call(k, "execve", TRUE, after)
    BY DEF Execve
  <2> HIDE DEF after
  <2>2. Execve(k) = after \/ Failed(Execve(k))
    BY <1>1, <2>1, CallEither
  <2>3. QED  BY <2>2 DEF Failed
<1> HIDE DEF newPerm, newEff
<1>3. /\ after.uid = k.uid /\ after.gid = k.gid /\ after.groups = k.groups /\ after.bnd = k.bnd
      /\ after.nnp = k.nnp /\ after.filter = k.filter /\ after.perm = newPerm /\ after.eff = newEff
  BY DEF Creds, Record
<1> HIDE DEF after
<1>4. QED  BY <1>1, <1>2, <1>3 DEF newPerm, newEff

\* Asking for the effective user changes nothing, or a filter ends the caller.
LEMMA UserAskedFor ==
    ASSUME NEW k, Shape(k), k.ok = Yes
    PROVE  LET asked == [k EXCEPT !.ok = @ /\ ~Kills(k, "geteuid")] IN asked = k \/ Failed(asked)
<1> DEFINE killed == Kills(k, "geteuid")
           asked == [k EXCEPT !.ok = @ /\ ~killed]
<1>1. Shape(asked) /\ asked.ok = (k.ok /\ ~killed)
  BY DEF Shape
<1>2. CASE killed
  BY <1>1, <1>2 DEF Failed
<1>3. CASE ~killed
  <2>1. asked = [k EXCEPT !.ok = Yes]
    BY <1>3 DEF Yes
  <2>2. [k EXCEPT !.ok = Yes] = k
    BY DEF Shape
  <2>3. QED  BY <2>1, <2>2
<1>4. QED  BY <1>2, <1>3

\* drop_privileges leaves the user, the group and the groups asked for, and all permitted
\* capabilities, whether the process was root or the root-to-be of a user namespace, or none, if
\* it leaves root and cannot tell.
LEMMA UserDropped ==
    ASSUME NEW uid0 \in {0, OverflowId}, NEW gid0 \in {0, OverflowId}, NEW bnd, NEW filter,
           NEW uid, NEW gid, NEW groups, NEW k,
           k = Creds(uid0, gid0, {"host"}, Caps, Caps, {}, {}, bnd, No, filter),
           drop_privileges(k, uid, gid, groups).ok
    PROVE  \E eff, perm : /\ Permitted(uid, perm)
                           /\ drop_privileges(k, uid, gid, groups)
                                = Creds(uid, gid, groups, eff, perm, {}, {}, bnd, No, filter)
<1> DEFINE leaving == Allows(k, "geteuid") /\ k.uid = 0 /\ uid # 0
           Keep(p, keep) == IF leaving THEN keep_caps_across_setuid(p, keep) ELSE p
           k0 == [k EXCEPT !.ok = @ /\ ~Kills(k, "geteuid")]
           k1 == Setgroups(k0, groups)
           k2 == Keep(k1, TRUE)
           k3 == Setgid(k2, gid)
           k4 == Setuid(k3, uid)
           k5 == Keep(k4, FALSE)
           P(u, g, gs, eff, perm, keep) == Record(u, g, gs, eff, perm, {}, {}, bnd, keep, No, filter, Yes)
           R(u, g, gs, eff, keep) == P(u, g, gs, eff, Caps, keep)
           kept == IF leaving THEN Yes ELSE No
<1>1. k5 = drop_privileges(k, uid, gid, groups)
  BY DEF drop_privileges
<1>2. k = R(uid0, gid0, {"host"}, Caps, No)
  BY DEF Creds
<1>3. k1 = R(uid0, gid0, groups, Caps, No) \/ Failed(k1)
  <2>1. Shape(k) /\ k.ok = Yes /\ [k EXCEPT !.groups = groups] = R(uid0, gid0, groups, Caps, No)
    BY <1>2 DEF Shape, Record
  <2>2. k0 = k \/ Failed(k0)
    BY <2>1, UserAskedFor
  <2> HIDE DEF k0
  <2>3. CASE k0 = k
    BY <2>1, <2>3, CallEither DEF Setgroups
  <2>4. CASE Failed(k0)
    BY <2>4, CallEither DEF Setgroups, Failed
  <2>5. QED  BY <2>2, <2>3, <2>4
<1> HIDE DEF k0, k1
<1>4. k2 = R(uid0, gid0, groups, Caps, kept) \/ Failed(k2)
  <2>1. CASE leaving
    <3>1. CASE Failed(k1)
      BY <2>1, <3>1, CallEither DEF keep_caps_across_setuid, Failed
    <3>2. CASE k1 = R(uid0, gid0, groups, Caps, No)
      <4>1. Shape(k1) /\ [k1 EXCEPT !.keepcaps = Yes] = R(uid0, gid0, groups, Caps, Yes)
        BY <3>2 DEF Shape, Record
      <4>2. QED  BY <2>1, <4>1, CallEither DEF keep_caps_across_setuid, Yes
    <3>3. QED  BY <1>3, <3>1, <3>2
  <2>2. CASE ~leaving
    BY <2>2, <1>3
  <2>3. QED  BY <2>1, <2>2
<1> HIDE DEF k2
<1>5. k3 = R(uid0, gid, groups, Caps, kept) \/ Failed(k3)
  <2>1. CASE Failed(k2)
    BY <2>1, CallEither DEF Setgid, Failed
  <2>2. CASE k2 = R(uid0, gid0, groups, Caps, kept)
    <3>1. Shape(k2) /\ [k2 EXCEPT !.gid = gid] = R(uid0, gid, groups, Caps, kept)
      BY <2>2 DEF Shape, Record
    <3>2. QED  BY <3>1, CallEither DEF Setgid
  <2>3. QED  BY <1>4, <2>1, <2>2
<1> HIDE DEF k3
<1> DEFINE Left(perm) == Permitted(uid, perm)
<1>6. (\E eff, perm : Left(perm) /\ k4 = P(uid, gid, groups, eff, perm, kept)) \/ Failed(k4)
  <2>1. CASE Failed(k3)
    BY <2>1, CallEither DEF Setuid, Failed
  <2>2. CASE k3 = R(uid0, gid, groups, Caps, kept)
    <3> DEFINE leaves == k3.uid = 0 /\ uid # 0
               enters == k3.uid # 0 /\ uid = 0
               eff == IF leaves THEN {} ELSE IF enters THEN k3.perm ELSE k3.eff
               perm == IF leaves /\ ~k3.keepcaps THEN {} ELSE Caps
               after == [k3 EXCEPT !.uid = uid,
                                   !.perm = IF leaves /\ ~k3.keepcaps THEN {} ELSE @,
                                   !.eff = IF leaves THEN {} ELSE IF enters THEN k3.perm ELSE @,
                                   !.amb = IF leaves THEN {} ELSE @]
    <3>1. Shape(k3)
      BY <2>2 DEF Shape, Record
    <3>2. Left(perm)
      BY DEF Permitted
    <3>3. after = P(uid, gid, groups, eff, perm, kept)
      <4>1. k3.perm = Caps /\ k3.amb = {}
        BY <2>2 DEF Record
      <4>2. after = [k3 EXCEPT !.uid = uid, !.perm = perm, !.eff = eff, !.amb = {}]
        BY <4>1
      <4> HIDE DEF eff, perm, after, kept, leaving
      <4>3. QED  BY <2>2, <4>2 DEF Record
    <3>4. k4 = after \/ Failed(k4)
      BY <3>1, CallEither DEF Setuid
    <3> HIDE DEF eff, perm, after
    <3>5. QED  BY <3>2, <3>3, <3>4
  <2>3. QED  BY <1>5, <2>1, <2>2
<1> HIDE DEF k4
<1>7. ~Failed(k4)
  BY <1>1, CallEither DEF keep_caps_across_setuid, Failed
<1>8. PICK eff, perm : Left(perm) /\ k4 = P(uid, gid, groups, eff, perm, kept)
  BY <1>6, <1>7
<1>9. k5 = P(uid, gid, groups, eff, perm, No)
  <2>1. CASE leaving
    <3>1. Shape(k4) /\ [k4 EXCEPT !.keepcaps = No] = P(uid, gid, groups, eff, perm, No)
      BY <1>8, <2>1 DEF Shape, Record
    <3>2. k5 = keep_caps_across_setuid(k4, FALSE)
      BY <2>1
    <3>3. keep_caps_across_setuid(k4, FALSE).ok
      BY <1>1, <3>2
    <3>4. QED  BY <3>1, <3>2, <3>3, CallSucceeds DEF keep_caps_across_setuid, No
  <2>2. CASE ~leaving
    BY <2>2, <1>8
  <2>3. QED  BY <2>1, <2>2
<1>10. QED  BY <1>1, <1>8, <1>9 DEF Creds, Permitted


-----------------------------------------------------------------------------
(***************************************************************************)
(* The steps.                                                              *)
(***************************************************************************)
LEMMA InitPInv == Init => PInv
  BY DEF Init, PInv, Before, Fresh, ProgramPrivileges

\* The bundle never changes, and what is asked for does not.
LEMMA AskedStays ==
    ASSUME b' = b
    PROVE  Early' = Early /\ Final' = Final /\ Bounding' = Bounding
  BY DEF Early, Final, Bounding

\* The steps that change no credentials.
LEMMA Elsewhere ==
    ASSUME PInv, pc \in Before \ {"filter"}, UNCHANGED <<b, cred>>, pc' \in Before \cup {"failed"}
    PROVE  PInv'
  BY DEF PInv, Before, ProgramPrivileges

\* create, the intermediate and the init up to the program's own attributes.
LEMMA BeforeStep ==
    ASSUME PInv,
           \/ LoadBundle \/ Plan \/ CreateCgroup \/ ApplyResources \/ Spawn
           \/ Attach \/ UnshareCgroup
           \/ MountRoot \/ ApplyMounts \/ CreateNodes \/ CreateLinks \/ CreateDevices \/ PivotRoot
           \/ SetupConsole \/ SetIdentity \/ ApplySysctl
           \/ MaskPaths \/ ReadonlyPaths \/ RemountReadonly \/ ReadonlyRootfs \/ ApplyLimits
    PROVE  PInv'
<1> USE DEF Go, Before
<1>1. CASE LoadBundle \/ Plan \/ CreateCgroup \/ ApplyResources \/ Spawn
  BY <1>1, Elsewhere DEF LoadBundle, Plan, CreateCgroup, ApplyResources, Spawn
<1>2. CASE Attach \/ UnshareCgroup \/ MountRoot
  BY <1>2, Elsewhere DEF Attach, UnshareCgroup, MountRoot
<1>3. CASE PivotRoot \/ SetupConsole \/ SetIdentity
  BY <1>3, Elsewhere DEF PivotRoot, SetupConsole, SetIdentity
<1>4. CASE ApplySysctl \/ ReadonlyRootfs \/ ApplyLimits
  BY <1>4, Elsewhere DEF ApplySysctl, ReadonlyRootfs, ApplyLimits
<1>5. CASE ApplyMounts \/ CreateNodes \/ CreateLinks \/ CreateDevices
  BY <1>5, Elsewhere DEF ApplyMounts, CreateNodes, CreateLinks, CreateDevices, Each
<1>6. CASE MaskPaths \/ ReadonlyPaths \/ RemountReadonly
  BY <1>6, Elsewhere DEF MaskPaths, ReadonlyPaths, RemountReadonly, Each
<1>7. QED  BY <1>1, <1>2, <1>3, <1>4, <1>5, <1>6

\* Joining, unsharing and becoming root leave a fresh process.
LEMMA NamespaceStep ==
    ASSUME PInv, JoinExisting \/ Unshare \/ MapIds
    PROVE  PInv'
<1>1. cred \in Fresh /\ EnterUserNamespace(cred) \in Fresh
  BY FreshEnters DEF PInv, Before, JoinExisting, Unshare, MapIds
<1>2. CASE JoinExisting \/ Unshare
  <2>1. cred' \in {cred, EnterUserNamespace(cred)} /\ b' = b /\ pc' \in Before \cup {"failed"}
    BY <1>2 DEF JoinExisting, Unshare, Go, Before
  <2>2. QED  BY <1>1, <2>1 DEF PInv, Before, ProgramPrivileges
<1>3. CASE MapIds
  <2>1. b' = b /\ pc' \in {"attach", "failed"}
    BY <1>3 DEF MapIds, Go
  <2>2. CASE pc' = "failed"
    BY <2>1, <2>2 DEF PInv, Before, ProgramPrivileges
  <2>3. CASE pc' = "attach"
    <3>1. cred' = become_root_in_namespace(cred) /\ cred'.ok
      BY <1>3, <2>3 DEF MapIds, Go
    <3>2. become_root_in_namespace(cred) = Root
      BY <1>1, <3>1, Becomes
    <3>3. QED  BY <2>1, <2>3, <3>1, <3>2 DEF PInv, Before, Fresh, ProgramPrivileges
  <2>4. QED  BY <2>1, <2>2, <2>3
<1>4. QED  BY <1>2, <1>3

\* A step of the privileges that fails ends in nothing the invariant speaks of.
LEMMA PrivilegeFails ==
    ASSUME PInv, b' = b, pc' \in {"failed", "lost"}
    PROVE  PInv'
  BY DEF PInv, Before, ProgramPrivileges

LEMMA FilterEarlyStep == ASSUME PInv, FilterEarly PROVE PInv'
<1> DEFINE asked == Given(b.seccomp) /\ ~b.noNewPrivileges
           k == IF asked THEN apply_seccomp(cred, b.seccomp) ELSE cred
<1>1. pc = "filter" /\ cred' = k /\ b' = b /\ pc' = IF k.ok THEN "bounding" ELSE "failed"
  BY DEF FilterEarly, Privilege, Go
<1>2. PICK uid, gid \in {0, OverflowId} :
          cred = Creds(uid, gid, {"host"}, Caps, Caps, {}, {}, Caps, No, <<>>)
  BY <1>1, FreshCreds DEF PInv, Before
<1>3. CASE ~k.ok
  BY <1>1, <1>3, PrivilegeFails
<1>4. CASE k.ok
  <2>1. k = Creds(uid, gid, {"host"}, Caps, Caps, {}, {}, Caps, No, Early)
    <3>1. CASE asked
      <4>1. Shape(cred) /\ Early = <<build(b.seccomp)>>
        BY <1>2, <3>1 DEF Shape, Creds, Record, Early
      <4>2. k = [cred EXCEPT !.filter = Early]
        BY <1>4, <3>1, <4>1, FilterLoaded
      <4> DEFINE groups == {"host"}
                 empty == <<>>
      <4>3. cred = Creds(uid, gid, groups, Caps, Caps, {}, {}, Caps, No, empty)
        BY <1>2
      <4> HIDE DEF groups, empty, k
      <4>4. k = Creds(uid, gid, groups, Caps, Caps, {}, {}, Caps, No, Early)
        BY <4>2, <4>3 DEF Creds, Record
      <4>5. QED  BY <4>4 DEF groups
    <3>2. CASE ~asked
      BY <1>2, <3>2 DEF Early
    <3>3. QED  BY <3>1, <3>2
  <2>2. Still(Early, Caps)'
    BY <1>1, <2>1, AskedStays DEF Still
  <2>3. QED  BY <1>1, <1>4, <2>2, AskedStays DEF PInv, Before, ProgramPrivileges
<1>5. QED  BY <1>3, <1>4

LEMMA DropBoundingStep == ASSUME PInv, DropBounding PROVE PInv'
<1> DEFINE k == IF Given(b.capabilities) THEN drop_bounding(cred, b.capabilities) ELSE cred
<1>1. pc = "bounding" /\ cred' = k /\ b' = b /\ pc' = IF k.ok THEN "user" ELSE "failed"
  BY DEF DropBounding, Privilege, Go
<1>2. PICK uid, gid \in {0, OverflowId} :
          cred = Creds(uid, gid, {"host"}, Caps, Caps, {}, {}, Caps, No, Early)
  BY <1>1 DEF PInv, Still
<1>3. CASE ~k.ok
  BY <1>1, <1>3, PrivilegeFails
<1>4. CASE k.ok
  <2>1. k = Creds(uid, gid, {"host"}, Caps, Caps, {}, {}, Bounding, No, Early)
    <3>1. CASE Given(b.capabilities)
      <4>1. Shape(cred) /\ cred.bnd = Caps /\ Bounding = b.capabilities.bounding
        BY <1>2, <3>1 DEF Shape, Creds, Record, Bounding
      <4>2. k = [cred EXCEPT !.bnd = Bounding]
        BY <1>4, <3>1, <4>1, BoundingDropped
      <4> DEFINE groups == {"host"}
      <4>3. cred = Creds(uid, gid, groups, Caps, Caps, {}, {}, Caps, No, Early)
        BY <1>2
      <4> HIDE DEF groups, k
      <4>4. k = Creds(uid, gid, groups, Caps, Caps, {}, {}, Bounding, No, Early)
        BY <4>2, <4>3 DEF Creds, Record
      <4>5. QED  BY <4>4 DEF groups
    <3>2. CASE ~Given(b.capabilities)
      BY <1>2, <3>2 DEF Bounding
    <3>3. QED  BY <3>1, <3>2
  <2>2. Still(Early, Bounding)'
    BY <1>1, <2>1, AskedStays DEF Still
  <2>3. QED  BY <1>1, <1>4, <2>2, AskedStays DEF PInv, Before, ProgramPrivileges
<1>5. QED  BY <1>3, <1>4

LEMMA DropPrivilegesStep == ASSUME PInv, DropPrivileges PROVE PInv'
<1> DEFINE k == drop_privileges(cred, b.uid, b.gid, b.groups)
<1>1. pc = "user" /\ cred' = k /\ b' = b /\ pc' = IF k.ok THEN "caps" ELSE "failed"
  BY DEF DropPrivileges, Privilege, Go
<1>2. PICK uid, gid \in {0, OverflowId} :
          cred = Creds(uid, gid, {"host"}, Caps, Caps, {}, {}, Bounding, No, Early)
  BY <1>1 DEF PInv, Still
<1>3. CASE ~k.ok
  BY <1>1, <1>3, PrivilegeFails
<1>4. CASE k.ok
  <2>1. \E eff, perm : Permitted(b.uid, perm) /\ k = Creds(b.uid, b.gid, b.groups, eff, perm, {}, {}, Bounding, No, Early)
    BY <1>2, <1>4, UserDropped
  <2>2. \E eff, perm : Permitted(b.uid, perm)' /\ AsUser(cred, eff, perm, {}, {}, No, Early)'
    BY <1>1, <2>1, AskedStays DEF AsUser, Permitted
  <2>3. QED  BY <1>1, <1>4, <2>2 DEF PInv, Before, ProgramPrivileges
<1>5. QED  BY <1>3, <1>4

LEMMA ApplyCapabilitiesStep == ASSUME PInv, ApplyCapabilities PROVE PInv'
<1> DEFINE k == IF Given(b.capabilities) THEN apply_caps(cred, b.capabilities) ELSE cred
<1>1. pc = "caps" /\ cred' = k /\ b' = b /\ pc' = IF k.ok THEN "nnp" ELSE "failed"
  BY DEF ApplyCapabilities, Privilege, Go
<1>2. PICK eff, perm : Permitted(b.uid, perm) /\ cred = Creds(b.uid, b.gid, b.groups, eff, perm, {}, {}, Bounding, No, Early)
  BY <1>1 DEF PInv, AsUser
<1>3. CASE ~k.ok
  BY <1>1, <1>3, PrivilegeFails
<1>4. CASE k.ok
  <2>1. Limited(No, Early)'
    <3>1. CASE Given(b.capabilities)
      <4>1. k = Creds(b.uid, b.gid, b.groups, b.capabilities.effective, b.capabilities.permitted,
                      b.capabilities.inheritable, b.capabilities.ambient, Bounding, No, Early)
        BY <1>2, <1>4, <3>1, CapsApplied
      <4>2. QED  BY <1>1, <3>1, <4>1, AskedStays DEF Limited, AsUser, Given, None
    <3>2. CASE ~Given(b.capabilities)
      BY <1>1, <1>2, <3>2, AskedStays DEF Limited, AsUser, Permitted, Given, None
    <3>3. QED  BY <3>1, <3>2
  <2>2. QED  BY <1>1, <1>4, <2>1 DEF PInv, Before, ProgramPrivileges
<1>5. QED  BY <1>3, <1>4

LEMMA NoNewPrivsStep == ASSUME PInv, NoNewPrivs PROVE PInv'
<1> DEFINE k == IF b.noNewPrivileges THEN set_no_new_privs(cred) ELSE cred
           LimitedTo(p, nnp) ==
               IF Given(b.capabilities)
               THEN AsUser(p, b.capabilities.effective, b.capabilities.permitted,
                           b.capabilities.inheritable, b.capabilities.ambient, nnp, Early)
               ELSE \E eff, perm : Permitted(b.uid, perm) /\ AsUser(p, eff, perm, {}, {}, nnp, Early)
<1>1. pc = "nnp" /\ cred' = k /\ b' = b /\ pc' = IF k.ok THEN "late" ELSE "failed"
  BY DEF NoNewPrivs, Privilege, Go
<1>2. LimitedTo(cred, No) /\ b.noNewPrivileges \in BOOLEAN
  BY <1>1, BundlesAssumption DEF PInv, Limited
<1>3. CASE ~k.ok
  BY <1>1, <1>3, PrivilegeFails
<1>4. CASE k.ok
  <2>1. LimitedTo(k, b.noNewPrivileges)
    <3>1. CASE b.noNewPrivileges
      <4>1. ASSUME NEW eff, NEW perm, NEW inh, NEW amb, AsUser(cred, eff, perm, inh, amb, No, Early)
            PROVE  AsUser(k, eff, perm, inh, amb, Yes, Early)
        BY <1>4, <3>1, <4>1, NnpSet DEF AsUser
      <4>2. LimitedTo(k, Yes)
        BY <1>2, <4>1
      <4>3. b.noNewPrivileges = Yes
        BY <1>2, <3>1 DEF Yes
      <4>4. QED  BY <4>2, <4>3
    <3>2. CASE ~b.noNewPrivileges
      <4>1. b.noNewPrivileges = No /\ k = cred
        BY <1>2, <3>2 DEF No
      <4>2. QED  BY <1>2, <4>1
    <3>3. QED  BY <3>1, <3>2
  <2>2. Limited(b.noNewPrivileges, Early)'
    BY <1>1, <2>1, AskedStays DEF Limited, AsUser, Permitted, Given, None
  <2>3. QED  BY <1>1, <1>4, <2>2 DEF PInv, Before, ProgramPrivileges
<1>5. QED  BY <1>3, <1>4

LEMMA FilterLateStep == ASSUME PInv, FilterLate PROVE PInv'
<1> DEFINE asked == Given(b.seccomp) /\ b.noNewPrivileges
           k == IF asked THEN apply_seccomp(cred, b.seccomp) ELSE cred
           LimitedTo(p, filter) ==
               IF Given(b.capabilities)
               THEN AsUser(p, b.capabilities.effective, b.capabilities.permitted,
                           b.capabilities.inheritable, b.capabilities.ambient, b.noNewPrivileges, filter)
               ELSE \E eff, perm : Permitted(b.uid, perm) /\ AsUser(p, eff, perm, {}, {}, b.noNewPrivileges, filter)
<1>1. pc = "late" /\ cred' = k /\ b' = b /\ pc' = IF k.ok THEN "ready" ELSE "failed"
  BY DEF FilterLate, Privilege, Go
<1>2. LimitedTo(cred, Early)
  BY <1>1 DEF PInv, Limited
<1>3. CASE ~k.ok
  BY <1>1, <1>3, PrivilegeFails
<1>4. CASE k.ok
  <2>1. LimitedTo(k, Final)
    <3>1. CASE asked
      <4>1. Final = <<build(b.seccomp)>>
        BY <3>1 DEF Final
      <4>2. ASSUME NEW eff, NEW perm, NEW inh, NEW amb,
                   AsUser(cred, eff, perm, inh, amb, b.noNewPrivileges, Early)
            PROVE  AsUser(k, eff, perm, inh, amb, b.noNewPrivileges, Final)
        <5>1. k = apply_seccomp(cred, b.seccomp) /\ apply_seccomp(cred, b.seccomp).ok
          BY <1>4, <3>1
        <5>2. cred = Creds(b.uid, b.gid, b.groups, eff, perm, inh, amb, Bounding, b.noNewPrivileges, Early)
          BY <4>2 DEF AsUser
        <5> HIDE DEF k, asked
        <5>3. apply_seccomp(cred, b.seccomp)
                = Creds(b.uid, b.gid, b.groups, eff, perm, inh, amb, Bounding, b.noNewPrivileges,
                        <<build(b.seccomp)>>)
          BY <5>1, <5>2, FilterSet
        <5>4. QED  BY <4>1, <5>1, <5>3 DEF AsUser
      <4>3. QED  BY <1>2, <4>2
    <3>2. CASE ~asked
      <4>1. Early = Final /\ k = cred
        BY <3>2 DEF Early, Final
      <4>2. QED  BY <1>2, <4>1
    <3>3. QED  BY <3>1, <3>2
  <2>2. Limited(b.noNewPrivileges, Final)'
    BY <1>1, <2>1, AskedStays DEF Limited, AsUser, Permitted, Given, None
  <2>3. QED  BY <1>1, <1>4, <2>2 DEF PInv, Before, ProgramPrivileges
<1>5. QED  BY <1>3, <1>4

\* Reporting and parking change nothing.
LEMMA ParkStep == ASSUME PInv, Ready \/ Park PROVE PInv'
<1>1. /\ pc \in {"ready", "park"} /\ b' = b /\ pc' \in {"park", "parked", "failed", "lost"}
      /\ pc' \in {"park", "parked"} => cred' = cred
  BY DEF Ready, Park, Privilege, Go, Call
<1>2. CASE pc' \in {"failed", "lost"}
  BY <1>1, <1>2, PrivilegeFails
<1>3. CASE pc' \in {"park", "parked"}
  <2>1. Limited(b.noNewPrivileges, Final)
    BY <1>1 DEF PInv
  <2>2. Limited(b.noNewPrivileges, Final)'
    BY <1>1, <1>3, <2>1, AskedStays DEF Limited, AsUser, Permitted, Given, None
  <2>3. QED  BY <1>1, <1>3, <2>2 DEF PInv, Before, ProgramPrivileges
<1>4. QED  BY <1>1, <1>2, <1>3

\* The filter and the host end a step early and change nothing.
LEMMA EndedStep == ASSUME PInv, Starved \/ Overflow PROVE PInv'
<1>1. b' = b /\ pc' \in {"failed", "lost"}
  BY DEF Starved, Overflow
<1>2. QED  BY <1>1, PrivilegeFails

LEMMA ExecStep == ASSUME PInv, Exec PROVE PInv'
<1> DEFINE unblocked == Call(cred, "rt_sigprocmask", TRUE, cred)
           k == Execve(unblocked)
<1>1. pc = "parked" /\ cred' = k /\ b' = b /\ pc' = IF k.ok THEN "running" ELSE "lost"
  BY DEF Exec
<1>2. CASE ~k.ok
  BY <1>1, <1>2, PrivilegeFails
<1>3. CASE k.ok
  <2> DEFINE all == [bounding |-> Caps, permitted |-> IF b.uid = 0 THEN Caps ELSE {},
                     inheritable |-> {}, ambient |-> {}]
             asked == IF Given(b.capabilities) THEN b.capabilities ELSE all
             found == asked.bounding \cup asked.inheritable
             root == IF b.noNewPrivileges THEN found \cap asked.permitted ELSE found
             Held == asked.ambient \cup IF b.uid = 0 THEN root ELSE {}
  <2>1. Limited(b.noNewPrivileges, Final)
    BY <1>1 DEF PInv
  <2>2. PICK eff, perm :
            /\ cred = Creds(b.uid, b.gid, b.groups, eff, perm, asked.inheritable, asked.ambient,
                            asked.bounding, b.noNewPrivileges, Final)
            /\ b.uid = 0 => perm = asked.permitted
    <3>1. CASE Given(b.capabilities)
      BY <2>1, <3>1 DEF Limited, AsUser, Bounding
    <3>2. CASE ~Given(b.capabilities)
      <4>1. asked = all /\ Bounding = Caps
        BY <3>2 DEF Bounding
      <4>2. PICK eff, perm :
                /\ Permitted(b.uid, perm)
                /\ cred = Creds(b.uid, b.gid, b.groups, eff, perm, {}, {}, Caps, b.noNewPrivileges, Final)
        BY <2>1, <3>2, <4>1 DEF Limited, AsUser
      <4>3. b.uid = 0 => perm = all.permitted
        BY <4>2 DEF Permitted
      <4> HIDE DEF Permitted
      <4>4. QED  BY <4>1, <4>2, <4>3
    <3>3. QED  BY <3>1, <3>2
  <2> HIDE DEF all, asked, k
  <2>3. /\ k.uid = b.uid /\ k.gid = b.gid /\ k.groups = b.groups /\ k.bnd = asked.bounding
        /\ k.nnp = b.noNewPrivileges /\ k.filter = Final
        /\ k.perm = (IF b.noNewPrivileges THEN (IF b.uid = 0 THEN found ELSE {}) \cap perm
                                          ELSE IF b.uid = 0 THEN found ELSE {}) \cup asked.ambient
        /\ k.eff = IF b.uid = 0 THEN k.perm ELSE asked.ambient
    <3> HIDE DEF found, root, Held
    <3>1. k = Execve(cred) /\ Execve(cred).ok
      <4>1. k = Execve(unblocked) /\ Execve(unblocked).ok
        BY <1>3 DEF k
      <4>2. Shape(cred)
        BY <2>2 DEF Shape, Creds, Record
      <4>3. unblocked = cred \/ Failed(unblocked)
        BY <4>2, CallEither
      <4> HIDE DEF unblocked
      <4>4. ~Failed(unblocked)
        BY <4>1, CallEither DEF Execve, Failed
      <4>5. QED  BY <4>1, <4>3, <4>4
    <3>2. QED  BY <2>2, <3>1, ExecveKeeps DEF found
  <2>4. k.perm = Held /\ k.eff = k.perm
    <3>1. CASE b.uid = 0
      BY <2>2, <2>3, <3>1
    <3>2. CASE b.uid # 0
      BY <2>3, <3>2
    <3>3. QED  BY <3>1, <3>2
  <2>5. ProgramPrivileges'
    <3> HIDE DEF Held
    <3>1. cred' = k /\ b' = b
      BY <1>1
    <3>2. QED  BY <2>3, <2>4, <3>1 DEF ProgramPrivileges, Held, all, asked, Final, Given, None
  <2>6. QED  BY <1>1, <1>3, <2>5 DEF PInv, Before
<1>4. QED  BY <1>2, <1>3

LEMMA NextPInv == PInv /\ [Next]_vars => PInv'
<1> SUFFICES ASSUME PInv, [Next]_vars PROVE PInv'
  OBVIOUS
<1>1. CASE UNCHANGED vars
  BY <1>1 DEF vars, PInv, Still, Limited, AsUser, Early, Final, Bounding, ProgramPrivileges, Permitted, Given, None
<1>2. CASE Next
  BY <1>2, BeforeStep, NamespaceStep, FilterEarlyStep, DropBoundingStep, DropPrivilegesStep,
     ApplyCapabilitiesStep, NoNewPrivsStep, FilterLateStep, ParkStep, EndedStep, ExecStep DEF Next
<1>3. QED  BY <1>1, <1>2

-----------------------------------------------------------------------------
\* Whatever a bundle asks for, the program that execve starts has the user, the groups, the
\* capabilities, no_new_privs and the filter that it asks for (the order of container_init's
\* privilege calls, and what each of them needs from those before it).
THEOREM PrivilegesAsAsked == Spec => []ProgramPrivileges
<1>1. PInv => ProgramPrivileges
  BY DEF PInv
<1>2. QED  BY <1>1, InitPInv, NextPInv, PTL DEF Spec

-----------------------------------------------------------------------------
(***************************************************************************)
(* The conversions of cgroup/v2.rs.  Setup's runs have numbers at the ends *)
(* of their ranges and at a few points between; these are about all.       *)
(***************************************************************************)
\* The formula as the code has it, with the product that TLC's integers cannot hold.
SharesFormula(shares) ==
    IF shares = 0 THEN 100 ELSE 1 + ((clamp(shares, 2, 262144) - 2) * 9999) \div 262142

-----------------------------------------------------------------------------
\* The weight computed by halves is the code's for every number, and the ends of the range of
\* shares become the ends of that of weights (shares_to_weight).
THEOREM SharesAreExact ==
    /\ \A shares \in Nat : shares_to_weight(shares) = SharesFormula(shares)
    /\ shares_to_weight(2) = 1 /\ shares_to_weight(262144) = 10000
<1>1. shares_to_weight(2) = 1 /\ shares_to_weight(262144) = 10000
  BY DEF shares_to_weight, clamp
<1>2. SUFFICES ASSUME NEW shares \in Nat, shares # 0
               PROVE  shares_to_weight(shares) = SharesFormula(shares)
  BY <1>1 DEF shares_to_weight, SharesFormula
<1> DEFINE s == clamp(shares, 2, 262144) - 2
           h == s \div 2
           r == s % 2
<1>3. s \in Nat /\ s <= 262142
  BY DEF clamp
<1> HIDE DEF s
<1>4. h \in Int /\ r \in {0, 1} /\ s = 2 * h + r
  BY <1>3
<1> HIDE DEF h, r
<1>5. (s * 9999) \div 262142 = (h * 9999 + r * 4999) \div 131071
  <2>1. CASE r = 0
    BY <1>4, <2>1
  <2>2. CASE r = 1
    BY <1>4, <2>2
  <2>3. QED  BY <1>4, <2>1, <2>2
<1>6. QED  BY <1>2, <1>3, <1>4, <1>5 DEF shares_to_weight, SharesFormula, s, h, r

\* What the kernel takes for a weight.
IsWeight(weight) == weight \in 1 .. 10000

\* The kernel takes cpu.weight from 1 to 10000, and that is what every number of shares
\* becomes (shares_to_weight).
THEOREM SharesInRange == \A shares \in Nat : IsWeight(shares_to_weight(shares))
<1> TAKE shares \in Nat
<1>1. CASE shares = 0
  BY <1>1 DEF shares_to_weight, IsWeight
<1>2. CASE shares # 0
  <2> DEFINE s == clamp(shares, 2, 262144) - 2
             q == (s * 9999) \div 262142
  <2>1. s \in Nat /\ s <= 262142
    BY DEF clamp
  <2> HIDE DEF s
  <2>2. q \in Nat /\ q <= 9999
    BY <2>1
  <2>3. shares_to_weight(shares) = 1 + q
    BY <1>2, SharesAreExact DEF SharesFormula, s
  <2> HIDE DEF q
  <2>4. QED  BY <2>2, <2>3 DEF IsWeight
<1>3. QED  BY <1>1, <1>2

\* More shares never become a smaller weight; 0, which is the default, is excepted
\* (shares_to_weight).
THEOREM SharesInOrder ==
    \A few, many \in Nat \ {0} : few <= many => shares_to_weight(few) <= shares_to_weight(many)
<1> TAKE few, many \in Nat \ {0}
<1> HAVE few <= many
<1> DEFINE s == clamp(few, 2, 262144) - 2
           t == clamp(many, 2, 262144) - 2
<1>1. s \in Nat /\ t \in Nat /\ s <= t /\ t <= 262142
  BY DEF clamp
<1> HIDE DEF s, t
<1>2. (s * 9999) \div 262142 <= (t * 9999) \div 262142
  BY <1>1
<1>3. QED  BY <1>1, <1>2, SharesAreExact DEF SharesFormula, s, t

\* The same of io.weight, for the blkio weights (blkio_to_io_weight).
THEOREM IoWeightInRange == \A weight \in Nat : IsWeight(blkio_to_io_weight(weight))
<1> TAKE weight \in Nat
<1> DEFINE w == clamp(weight, 10, 1000)
           q == ((w - 10) * 9999) \div 990
<1>1. w \in Nat /\ 10 <= w /\ w <= 1000
  BY DEF clamp
<1>2. blkio_to_io_weight(weight) = 1 + q
  BY DEF blkio_to_io_weight
<1> HIDE DEF w
<1>3. q \in Nat /\ q <= 9999
  BY <1>1
<1> HIDE DEF q
<1>4. QED  BY <1>2, <1>3 DEF IsWeight

\* A larger blkio weight never becomes a smaller one (blkio_to_io_weight).
THEOREM IoWeightInOrder ==
    \A few, many \in Nat : few <= many => blkio_to_io_weight(few) <= blkio_to_io_weight(many)
<1> TAKE few, many \in Nat
<1> HAVE few <= many
<1> DEFINE v == clamp(few, 10, 1000)
           w == clamp(many, 10, 1000)
           p == ((v - 10) * 9999) \div 990
           q == ((w - 10) * 9999) \div 990
<1>1. v \in Nat /\ w \in Nat /\ 10 <= v /\ v <= w
  BY DEF clamp
<1>2. blkio_to_io_weight(few) = 1 + p /\ blkio_to_io_weight(many) = 1 + q
  BY DEF blkio_to_io_weight
<1> HIDE DEF v, w
<1>3. p \in Nat /\ q \in Nat /\ p <= q
  BY <1>1
<1> HIDE DEF p, q
<1>4. QED  BY <1>2, <1>3

\* When config.json's swap, which is memory and swap together, is more than its memory limit, the
\* two files come to it; when it is not, there is no swap at all and the memory limit stands.
\* Neither is ever unlimited by accident (swap_value, limit_value).
THEOREM SwapAndMemory ==
    \A swap, limit \in Nat \ {0} :
        /\ swap > limit => limit_value(limit) + swap_value(swap, <<limit>>) = swap
        /\ swap <= limit => limit_value(limit) = limit /\ swap_value(swap, <<limit>>) = 0
        /\ limit_value(limit) # Unlimited /\ swap_value(swap, <<limit>>) # Unlimited
  BY DEF limit_value, swap_value, Unlimited
-----------------------------------------------------------------------------
(***************************************************************************)
(* What a file holds after a list of writes: the last one to it.           *)
(***************************************************************************)
IsList(t) == \E S : t \in Seq(S)
IsIn(t, file) == \E w \in ToSet(t) : w.file = file
LastIn(t, file) == LET Is(w) == w.file = file IN t[SelectLastInSeq(t, Is)].value

\* A set of positions that is not empty has a last one.
LEMMA LastPosition ==
    ASSUME NEW n \in Nat, NEW I \in SUBSET (1..n), I # {}
    PROVE  Max(I) \in I /\ \A i \in I : i <= Max(I)
<1> DEFINE Bounds == {u \in Nat : \A i \in I : i <= u}
<1>1. n \in Bounds
  OBVIOUS
<1>2. PICK u \in Bounds : \A v \in Bounds : ~(<<v, u>> \in OpToRel(<, Nat))
  BY <1>1, NatLessThanWellFounded, WFMin
<1>3. \A v \in Bounds : ~(v < u)
  BY <1>2 DEF OpToRel
<1>4. u \in I
  <2>1. SUFFICES ASSUME u \notin I PROVE FALSE
    OBVIOUS
  <2>2. \A i \in I : i < u
    BY <2>1
  <2>3. u > 0
    <3>1. PICK i \in I : i \in 1..n
      OBVIOUS
    <3>2. QED  BY <2>2, <3>1
  <2>4. u - 1 \in Bounds
    BY <2>2, <2>3
  <2>5. QED  BY <1>3, <2>4
<1>5. \E x \in I : \A y \in I : x >= y
  BY <1>4
<1>6. Max(I) \in I /\ \A y \in I : Max(I) >= y
  BY <1>5 DEF Max
<1>7. QED  BY <1>6

\* What a list is, and what joining two makes.
LEMMA ListIs == ASSUME NEW t, IsList(t) PROVE Len(t) \in Nat /\ DOMAIN t = 1..Len(t)
  BY LenProperties DEF IsList

LEMMA ListConcat ==
    ASSUME NEW s, NEW t, IsList(s), IsList(t)
    PROVE  /\ IsList(s \o t) /\ Len(s \o t) = Len(s) + Len(t)
           /\ \A i \in 1..Len(s) : (s \o t)[i] = s[i]
           /\ \A i \in 1..Len(t) : (s \o t)[Len(s) + i] = t[i]
<1>1. PICK S : s \in Seq(S)
  BY DEF IsList
<1>2. PICK T : t \in Seq(T)
  BY DEF IsList
<1> DEFINE R == S \cup T
<1>3. s \in Seq(R) /\ t \in Seq(R)
  BY <1>1, <1>2, SeqMonotonic
<1> HIDE DEF R
<1>4. s \o t \in Seq(R) /\ Len(s) \in Nat /\ Len(t) \in Nat
  BY <1>3, ConcatProperties, LenProperties
<1>5. QED  BY <1>3, <1>4, ConcatProperties DEF IsList

LEMMA InIs == ASSUME NEW t, IsList(t), NEW file PROVE IsIn(t, file) <=> \E i \in 1..Len(t) : t[i].file = file
  BY ListIs DEF IsIn, ToSet

\* The write at a position is the last if none after it is to the same file.
LEMMA LastIs ==
    ASSUME NEW t, IsList(t), NEW file, NEW i \in 1..Len(t), t[i].file = file,
           \A j \in 1..Len(t) : t[j].file = file => j <= i
    PROVE  IsIn(t, file) /\ LastIn(t, file) = t[i].value
<1> DEFINE I == {j \in 1..Len(t) : t[j].file = file}
<1>1. Len(t) \in Nat
  BY ListIs
<1>2. i \in I /\ \A j \in I : j <= i
  OBVIOUS
<1>3. LastIn(t, file) = t[IF I # {} THEN Max(I) ELSE 0].value
  BY DEF LastIn, SelectLastInSeq
<1>4. I \in SUBSET (1..Len(t))
  OBVIOUS
<1> HIDE DEF I
<1>5. Max(I) \in I /\ \A j \in I : j <= Max(I)
  BY <1>1, <1>2, <1>4, LastPosition
<1>6. Max(I) = i
  <2> DEFINE top == Max(I)
  <2>1. top \in I /\ \A j \in I : j <= top
    BY <1>5
  <2> HIDE DEF top
  <2>2. top \in Int /\ i \in Int /\ top <= i /\ i <= top
    BY <1>1, <1>2, <1>4, <2>1
  <2>3. top = i
    BY <2>2
  <2>4. QED  BY <2>3 DEF top
<1>7. QED  BY <1>2, <1>3, <1>6, InIs

\* There is such a position for every file that is written.
LEMMA LastThere ==
    ASSUME NEW t, IsList(t), NEW file, IsIn(t, file)
    PROVE  \E i \in 1..Len(t) : /\ t[i].file = file /\ LastIn(t, file) = t[i].value
                                /\ \A j \in 1..Len(t) : t[j].file = file => j <= i
<1> DEFINE I == {j \in 1..Len(t) : t[j].file = file}
<1>1. Len(t) \in Nat
  BY ListIs
<1>2. I # {} /\ I \in SUBSET (1..Len(t))
  BY InIs
<1>3. Max(I) \in I /\ \A j \in I : j <= Max(I)
  <2> HIDE DEF I
  <2>1. QED  BY <1>1, <1>2, LastPosition
<1>4. QED  BY <1>3, LastIs

\* Of two lists, the second has the last word.
LEMMA LastOfTwo ==
    ASSUME NEW s, NEW t, IsList(s), IsList(t), NEW file
    PROVE  /\ IsIn(s \o t, file) <=> IsIn(s, file) \/ IsIn(t, file)
           /\ IsIn(t, file) => LastIn(s \o t, file) = LastIn(t, file)
           /\ ~IsIn(t, file) /\ IsIn(s, file) => LastIn(s \o t, file) = LastIn(s, file)
<1> DEFINE u == s \o t
           m == Len(s)
           n == Len(t)
<1>1. /\ m \in Nat /\ n \in Nat /\ IsList(u) /\ Len(u) = m + n
      /\ \A i \in 1..m : u[i] = s[i]
      /\ \A i \in 1..n : u[m + i] = t[i]
  BY ListIs, ListConcat
<1>2. \A i \in 1..Len(u) : (i <= m /\ u[i] = s[i]) \/ (i - m \in 1..n /\ u[i] = t[i - m])
  <2> TAKE i \in 1..Len(u)
  <2>1. CASE i <= m
    BY <1>1, <2>1
  <2>2. CASE i > m
    <3>1. i - m \in 1..n /\ i = m + (i - m)
      BY <1>1, <2>2
    <3>2. QED  BY <1>1, <3>1
  <2>3. QED  BY <1>1, <2>1, <2>2
<1> HIDE DEF u, m, n
<1>3. IsIn(u, file) => IsIn(s, file) \/ IsIn(t, file)
  BY <1>1, <1>2, InIs DEF m, n
<1>4. ASSUME IsIn(t, file) PROVE IsIn(u, file) /\ LastIn(u, file) = LastIn(t, file)
  <2>1. PICK i \in 1..n : /\ t[i].file = file /\ LastIn(t, file) = t[i].value
                          /\ \A j \in 1..n : t[j].file = file => j <= i
    BY <1>4, LastThere DEF n
  <2>2. m + i \in 1..Len(u) /\ u[m + i] = t[i]
    BY <1>1
  <2>3. ASSUME NEW j \in 1..Len(u), u[j].file = file PROVE j <= m + i
    <3>1. CASE j <= m
      BY <1>1, <2>1, <3>1
    <3>2. CASE j - m \in 1..n /\ u[j] = t[j - m]
      <4>1. j - m <= i
        BY <2>1, <2>3, <3>2
      <4>2. QED  BY <1>1, <2>1, <4>1
    <3>3. QED  BY <1>2, <3>1, <3>2
  <2>4. QED
    <3>1. m + i \in 1..Len(u) /\ u[m + i].file = file
      BY <2>1, <2>2
    <3>2. IsIn(u, file) /\ LastIn(u, file) = u[m + i].value
      <4> DEFINE at == m + i
      <4> HIDE DEF at
      <4>1. at \in 1..Len(u) /\ u[at].file = file /\ \A j \in 1..Len(u) : u[j].file = file => j <= at
        BY <2>3, <3>1 DEF at
      <4>2. IsIn(u, file) /\ LastIn(u, file) = u[at].value
        BY <1>1, <4>1, LastIs
      <4>3. QED  BY <4>2 DEF at
    <3>3. QED  BY <2>1, <2>2, <3>2
<1>5. ASSUME ~IsIn(t, file), IsIn(s, file) PROVE IsIn(u, file) /\ LastIn(u, file) = LastIn(s, file)
  <2>1. PICK i \in 1..m : /\ s[i].file = file /\ LastIn(s, file) = s[i].value
                          /\ \A j \in 1..m : s[j].file = file => j <= i
    BY <1>5, LastThere DEF m
  <2>2. i \in 1..Len(u) /\ u[i] = s[i]
    BY <1>1
  <2>3. ASSUME NEW j \in 1..Len(u), u[j].file = file PROVE j <= i
    <3>1. \A k \in 1..n : t[k].file # file
      BY <1>5, InIs DEF n
    <3>2. j \in 1..m /\ u[j] = s[j]
      BY <1>1, <1>2, <2>3, <3>1
    <3>3. QED  BY <2>1, <2>3, <3>2
  <2>4. QED  BY <1>1, <2>1, <2>2, <2>3, LastIs
<1>6. QED  BY <1>3, <1>4, <1>5 DEF u

-----------------------------------------------------------------------------
(***************************************************************************)
(* What every file holds after Cgroup::apply: one lemma per kind of write, *)
(* and then the nine files one after the other.                            *)
(***************************************************************************)
LimitFiles == {"memory.max", "memory.low", "memory.swap.max", "cpu.max", "cpu.weight",
          "cpuset.cpus", "cpuset.mems", "pids.max", "io.weight"}

\* The field of linux.resources a file is for, and what it becomes.
Asks(r, file) ==
    CASE file = "memory.max"      -> r.limit
      [] file = "memory.low"      -> r.reservation
      [] file = "memory.swap.max" -> r.swap
      [] file = "cpu.max"         -> r.quota
      [] file = "cpu.weight"      -> NonZero(r.shares)
      [] file = "cpuset.cpus"     -> NonEmpty(r.cpus)
      [] file = "cpuset.mems"     -> NonEmpty(r.mems)
      [] file = "pids.max"        -> r.pids
      [] file = "io.weight"       -> NonZero(r.weight)

Gives(r, file) ==
    CASE file = "memory.max"      -> limit_value(r.limit[1])
      [] file = "memory.low"      -> limit_value(r.reservation[1])
      [] file = "memory.swap.max" -> swap_value(r.swap[1], r.limit)
      [] file = "cpu.max"         -> cpu_max_value(r.quota[1], IF r.period = <<>> THEN 100000 ELSE r.period[1])
      [] file = "cpu.weight"      -> shares_to_weight(r.shares[1])
      [] file = "cpuset.cpus"     -> r.cpus[1]
      [] file = "cpuset.mems"     -> r.mems[1]
      [] file = "pids.max"        -> limit_value(r.pids[1])
      [] file = "io.weight"       -> blkio_to_io_weight(r.weight[1])

WriteOf(r, file) == Written(Asks(r, file), file, Gives(r, file))

\* A list of writes has for a file what is asked of it.
Wrote(s, r, file) ==
    /\ IsIn(s, file) <=> Asks(r, file) # <<>>
    /\ IsIn(s, file) => LastIn(s, file) = Gives(r, file)

\* A list has the writes to the files of D and none to another.
Covers(s, r, D) ==
    /\ IsList(s)
    /\ \A file \in D : Wrote(s, r, file)
    /\ \A file : file \notin D => ~IsIn(s, file)

LEMMA WriteIs ==
    ASSUME NEW r, NEW file PROVE Covers(WriteOf(r, file), r, {file})
<1> DEFINE option == Asks(r, file)
           value == Gives(r, file)
           w == [file |-> file, value |-> value]
           t == WriteOf(r, file)
<1>1. t = IF option = <<>> THEN <<>> ELSE <<w>>
  BY DEF WriteOf, Written
<1>2. w.file = file /\ w.value = value
  OBVIOUS
<1> HIDE DEF option, value, w, t
<1>3. CASE option = <<>>
  <2>1. IsList(t) /\ Len(t) = 0
    <3>1. t \in Seq({}) /\ Len(t) = 0
      BY <1>1, <1>3
    <3>2. QED  BY <3>1 DEF IsList
  <2>2. \A any : ~IsIn(t, any)
    BY <2>1, InIs
  <2>3. QED  BY <1>3, <2>1, <2>2 DEF Covers, Wrote, option, t
<1>4. CASE option # <<>>
  <2>1. t \in Seq({w}) /\ Len(t) = 1 /\ t[1] = w
    BY <1>1, <1>4
  <2>2. IsList(t)
    BY <2>1 DEF IsList
  <2>3. 1 \in 1..Len(t) /\ \A j \in 1..Len(t) : j = 1
    BY <2>1
  <2>4. IsIn(t, file) /\ LastIn(t, file) = value
    <3>1. t[1].file = file /\ t[1].value = value
      BY <1>2, <2>1
    <3>2. \A j \in 1..Len(t) : t[j].file = file => j <= 1
      BY <2>3
    <3>3. QED  BY <2>2, <2>3, <3>1, <3>2, LastIs
  <2>5. \A any : IsIn(t, any) => any = file
    BY <1>2, <2>1, <2>2, <2>3, InIs
  <2>6. QED  BY <1>4, <2>2, <2>4, <2>5 DEF Covers, Wrote, option, value, t
<1>5. QED  BY <1>3, <1>4

LEMMA CoversMore ==
    ASSUME NEW s, NEW r, NEW D, Covers(s, r, D), NEW file, file \notin D
    PROVE  Covers(s \o WriteOf(r, file), r, D \cup {file})
<1> DEFINE t == WriteOf(r, file)
           u == s \o t
<1>1. Covers(t, r, {file})
  BY WriteIs
<1> HIDE DEF t
<1>2. IsList(s) /\ IsList(t) /\ IsList(u)
  <2>1. IsList(s) /\ IsList(t)
    BY <1>1 DEF Covers
  <2>2. QED  BY <2>1, ListConcat
<1>3. \A any : /\ IsIn(u, any) <=> IsIn(s, any) \/ IsIn(t, any)
               /\ IsIn(t, any) => LastIn(u, any) = LastIn(t, any)
               /\ ~IsIn(t, any) /\ IsIn(s, any) => LastIn(u, any) = LastIn(s, any)
  BY <1>2, LastOfTwo
<1> HIDE DEF u
<1>4. ASSUME NEW any \in D PROVE Wrote(u, r, any)
  <2>1. Wrote(s, r, any) /\ ~IsIn(t, any)
    BY <1>1, <1>4 DEF Covers
  <2>2. QED  BY <1>3, <2>1 DEF Wrote
<1>5. Wrote(u, r, file)
  <2>1. Wrote(t, r, file) /\ ~IsIn(s, file)
    BY <1>1 DEF Covers
  <2>2. QED  BY <1>3, <2>1 DEF Wrote
<1>6. \A any : any \notin D \cup {file} => ~IsIn(u, any)
  BY <1>1, <1>3 DEF Covers
<1>7. Covers(u, r, D \cup {file})
  BY <1>2, <1>4, <1>5, <1>6 DEF Covers
<1>8. QED  BY <1>7 DEF u, t

\* The lines of io.max are all to io.max.
LEMMA LinesAre ==
    ASSUME NEW throttles, \A key \in {"rbps", "wbps", "riops", "wiops"} : throttles[key] \in Seq(Nat)
    PROVE  IsList(io_max_lines(throttles)) /\ \A file : IsIn(io_max_lines(throttles), file) => file = "io.max"
<1> DEFINE Lines(key) == [i \in 1..Len(throttles[key]) |->
                            [file |-> "io.max", value |-> [key |-> key, rate |-> throttles[key][i]]]]
           Unasked(t) == IsList(t) /\ \A file : IsIn(t, file) => file = "io.max"
<1>1. ASSUME NEW key \in {"rbps", "wbps", "riops", "wiops"} PROVE Unasked(Lines(key))
  <2> DEFINE n == Len(throttles[key])
             Line(i) == [file |-> "io.max", value |-> [key |-> key, rate |-> throttles[key][i]]]
             t == [i \in 1..n |-> Line(i)]
             R == {Line(i) : i \in 1..n}
  <2>1. n \in Nat
    BY <1>1, LenProperties
  <2>2. \A i \in 1..n : Line(i) \in R /\ Line(i).file = "io.max"
    OBVIOUS
  <2> HIDE DEF n, Line, R
  <2>3. t \in Seq(R) /\ Len(t) = n /\ \A i \in 1..n : t[i].file = "io.max"
    BY <2>1, <2>2
  <2> HIDE DEF t
  <2>4. Unasked(t)
    BY <2>3, InIs DEF IsList
  <2>5. QED  BY <2>4 DEF t, n, Line
<1>2. ASSUME NEW s, NEW t, Unasked(s), Unasked(t) PROVE Unasked(s \o t)
  BY <1>2, ListConcat, LastOfTwo
<1>3. io_max_lines(throttles) = Lines("rbps") \o Lines("wbps") \o Lines("riops") \o Lines("wiops")
  BY DEF io_max_lines
<1> DEFINE p == Lines("rbps")
           q == Lines("wbps")
           v == Lines("riops")
           w == Lines("wiops")
<1>4. Unasked(p) /\ Unasked(q) /\ Unasked(v) /\ Unasked(w)
  <2> HIDE DEF Lines, Unasked
  <2>1. QED  BY <1>1
<1>5. io_max_lines(throttles) = ((p \o q) \o v) \o w
  BY <1>3
<1> HIDE DEF p, q, v, w, Unasked
<1>6. Unasked(p \o q)
  BY <1>2, <1>4
<1>7. Unasked((p \o q) \o v)
  BY <1>2, <1>4, <1>6
<1>8. Unasked(((p \o q) \o v) \o w)
  BY <1>2, <1>4, <1>7
<1>9. QED  BY <1>5, <1>8 DEF Unasked

\* `unified` holds for every file it names the value it has there.
LEMMA UnifiedIs ==
    ASSUME NEW t \in Seq([file : STRING, value : Int]),
           \A i, j \in 1..Len(t) : t[i].file = t[j].file => i = j
    PROVE  /\ IsList(t)
           /\ \A w \in ToSet(t) : IsIn(t, w.file) /\ LastIn(t, w.file) = w.value
<1>1. IsList(t)
  BY DEF IsList
<1>2. ASSUME NEW w \in ToSet(t) PROVE IsIn(t, w.file) /\ LastIn(t, w.file) = w.value
  <2>1. PICK i \in 1..Len(t) : t[i] = w
    BY <1>1, ListIs DEF ToSet
  <2>2. Len(t) \in Nat
    BY <1>1, ListIs
  <2>3. \A j \in 1..Len(t) : t[j].file = t[i].file => j <= i
    BY <2>1, <2>2
  <2>4. IsIn(t, t[i].file) /\ LastIn(t, t[i].file) = t[i].value
    BY <1>1, <2>1, <2>3, LastIs
  <2>5. QED  BY <2>1, <2>4
<1>3. QED  BY <1>1, <1>2

\* What Cgroup::apply leaves in every file, for every linux.resources: what `unified` says of
\* it, and else what the field it is for becomes (Cgroup::apply).
THEOREM FilesHoldWhatIsAsked ==
    \A r : ResourcesTyped(r) =>
        /\ IsList(writes(r))
        /\ \A w \in ToSet(r.unified) : IsIn(writes(r), w.file) /\ LastIn(writes(r), w.file) = w.value
        /\ \A file \in LimitFiles : ~IsIn(r.unified, file) => Wrote(writes(r), r, file)
<1> SUFFICES ASSUME NEW r, ResourcesTyped(r)
             PROVE  /\ IsList(writes(r))
                    /\ \A w \in ToSet(r.unified) : IsIn(writes(r), w.file) /\ LastIn(writes(r), w.file) = w.value
                    /\ \A file \in LimitFiles : ~IsIn(r.unified, file) => Wrote(writes(r), r, file)
  OBVIOUS
<1> DEFINE s1 == WriteOf(r, "memory.max")
           s2 == s1 \o WriteOf(r, "memory.low")
           s3 == s2 \o WriteOf(r, "memory.swap.max")
           s4 == s3 \o WriteOf(r, "cpu.max")
           s5 == s4 \o WriteOf(r, "cpu.weight")
           s6 == s5 \o WriteOf(r, "cpuset.cpus")
           s7 == s6 \o WriteOf(r, "cpuset.mems")
           s8 == s7 \o WriteOf(r, "pids.max")
           s9 == s8 \o WriteOf(r, "io.weight")
           lines == io_max_lines(r.throttles)
           all == s9 \o lines
<1> DEFINE period == IF r.period = <<>> THEN 100000 ELSE r.period[1]
<1>1. writes(r) = all \o r.unified
  <2>1. WriteOf(r, "memory.max") = Written(r.limit, "memory.max", limit_value(r.limit[1]))
    BY DEF WriteOf, Asks, Gives
  <2>2. WriteOf(r, "memory.low") = Written(r.reservation, "memory.low", limit_value(r.reservation[1]))
    BY DEF WriteOf, Asks, Gives
  <2>3. WriteOf(r, "memory.swap.max") = Written(r.swap, "memory.swap.max", swap_value(r.swap[1], r.limit))
    BY DEF WriteOf, Asks, Gives
  <2>4. WriteOf(r, "cpu.max") = Written(r.quota, "cpu.max", cpu_max_value(r.quota[1], period))
    BY DEF WriteOf, Asks, Gives
  <2>5. WriteOf(r, "cpu.weight") = Written(NonZero(r.shares), "cpu.weight", shares_to_weight(r.shares[1]))
    BY DEF WriteOf, Asks, Gives
  <2>6. WriteOf(r, "cpuset.cpus") = Written(NonEmpty(r.cpus), "cpuset.cpus", r.cpus[1])
    BY DEF WriteOf, Asks, Gives
  <2>7. WriteOf(r, "cpuset.mems") = Written(NonEmpty(r.mems), "cpuset.mems", r.mems[1])
    BY DEF WriteOf, Asks, Gives
  <2>8. WriteOf(r, "pids.max") = Written(r.pids, "pids.max", limit_value(r.pids[1]))
    BY DEF WriteOf, Asks, Gives
  <2>9. WriteOf(r, "io.weight") = Written(NonZero(r.weight), "io.weight", blkio_to_io_weight(r.weight[1]))
    BY DEF WriteOf, Asks, Gives
  <2>10. writes(r) = Written(r.limit, "memory.max", limit_value(r.limit[1]))
           \o Written(r.reservation, "memory.low", limit_value(r.reservation[1]))
           \o Written(r.swap, "memory.swap.max", swap_value(r.swap[1], r.limit))
           \o Written(r.quota, "cpu.max", cpu_max_value(r.quota[1], period))
           \o Written(NonZero(r.shares), "cpu.weight", shares_to_weight(r.shares[1]))
           \o Written(NonEmpty(r.cpus), "cpuset.cpus", r.cpus[1])
           \o Written(NonEmpty(r.mems), "cpuset.mems", r.mems[1])
           \o Written(r.pids, "pids.max", limit_value(r.pids[1]))
           \o Written(NonZero(r.weight), "io.weight", blkio_to_io_weight(r.weight[1]))
           \o lines \o r.unified
    BY DEF writes
  <2> HIDE DEF lines, period
  <2>11. QED  BY <2>1, <2>2, <2>3, <2>4, <2>5, <2>6, <2>7, <2>8, <2>9, <2>10
<1> HIDE DEF s1
<1>2. Covers(s1, r, {"memory.max"})
  BY WriteIs DEF s1
<1> HIDE DEF s2
<1>3. Covers(s2, r, {"memory.max", "memory.low"})
  <2>1. Covers(s2, r, {"memory.max"} \cup {"memory.low"})
    BY <1>2, CoversMore DEF s2
  <2>2. {"memory.max"} \cup {"memory.low"} = {"memory.max", "memory.low"}
    OBVIOUS
  <2>3. QED  BY <2>1, <2>2
<1> HIDE DEF s3
<1>4. Covers(s3, r, {"memory.max", "memory.low"} \cup {"memory.swap.max"})
  BY <1>3, CoversMore DEF s3
<1> DEFINE D3 == {"memory.max", "memory.low"} \cup {"memory.swap.max"}
           D4 == D3 \cup {"cpu.max"}
           D5 == D4 \cup {"cpu.weight"}
           D6 == D5 \cup {"cpuset.cpus"}
           D7 == D6 \cup {"cpuset.mems"}
           D8 == D7 \cup {"pids.max"}
           D9 == D8 \cup {"io.weight"}
<1>5. "cpu.max" \notin D3 /\ "cpu.weight" \notin D4 /\ "cpuset.cpus" \notin D5
  OBVIOUS
<1>6. "cpuset.mems" \notin D6 /\ "pids.max" \notin D7 /\ "io.weight" \notin D8
  OBVIOUS
<1>7. \A file \in LimitFiles : file \in D9
  BY DEF LimitFiles
<1>8. "io.max" \notin LimitFiles
  BY DEF LimitFiles
<1>9. Covers(s3, r, D3)
  BY <1>4
<1> HIDE DEF s4, s5, s6, s7, s8, s9, D3, D4, D5, D6, D7, D8, D9
<1>10. Covers(s4, r, D4)
  BY <1>5, <1>9, CoversMore DEF s4, D4
<1>11. Covers(s5, r, D5)
  BY <1>5, <1>10, CoversMore DEF s5, D5
<1>12. Covers(s6, r, D6)
  BY <1>5, <1>11, CoversMore DEF s6, D6
<1>13. Covers(s7, r, D7)
  BY <1>6, <1>12, CoversMore DEF s7, D7
<1>14. Covers(s8, r, D8)
  BY <1>6, <1>13, CoversMore DEF s8, D8
<1>15. Covers(s9, r, D9)
  BY <1>6, <1>14, CoversMore DEF s9, D9
<1>16. IsList(lines) /\ \A file : IsIn(lines, file) => file = "io.max"
  BY LinesAre DEF ResourcesTyped
<1> HIDE DEF lines, all
<1>17. IsList(all) /\ \A file \in LimitFiles : Wrote(all, r, file)
  <2>1. IsList(s9)
    BY <1>15 DEF Covers
  <2>2. IsList(all)
    BY <1>16, <2>1, ListConcat DEF all
  <2>3. ASSUME NEW file \in LimitFiles PROVE Wrote(all, r, file)
    <3>1. Wrote(s9, r, file) /\ ~IsIn(lines, file)
      BY <1>7, <1>8, <1>15, <1>16, <2>3 DEF Covers
    <3>2. /\ IsIn(all, file) <=> IsIn(s9, file)
          /\ IsIn(s9, file) => LastIn(all, file) = LastIn(s9, file)
      BY <1>16, <2>1, <3>1, LastOfTwo DEF all
    <3>3. QED  BY <3>1, <3>2 DEF Wrote
  <2>4. QED  BY <2>2, <2>3
<1>18. /\ IsList(r.unified)
       /\ \A w \in ToSet(r.unified) : IsIn(r.unified, w.file) /\ LastIn(r.unified, w.file) = w.value
  BY UnifiedIs DEF ResourcesTyped
<1>19. IsList(writes(r))
  BY <1>1, <1>17, <1>18, ListConcat
<1>20. ASSUME NEW file
       PROVE  /\ IsIn(writes(r), file) <=> IsIn(all, file) \/ IsIn(r.unified, file)
              /\ IsIn(r.unified, file) => LastIn(writes(r), file) = LastIn(r.unified, file)
              /\ ~IsIn(r.unified, file) /\ IsIn(all, file) => LastIn(writes(r), file) = LastIn(all, file)
  BY <1>1, <1>17, <1>18, LastOfTwo
<1>21. \A w \in ToSet(r.unified) : IsIn(writes(r), w.file) /\ LastIn(writes(r), w.file) = w.value
  BY <1>18, <1>20
<1>22. \A file \in LimitFiles : ~IsIn(r.unified, file) => Wrote(writes(r), r, file)
  BY <1>17, <1>20 DEF Wrote
<1>23. QED  BY <1>19, <1>21, <1>22

=============================================================================
