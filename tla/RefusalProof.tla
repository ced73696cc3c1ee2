----------------------------- MODULE RefusalProof -----------------------------
(***************************************************************************)
(* When create refuses a bundle, for every bundle: each step that fails    *)
(* does so for a reason that is in Refused or TreeRefused, and a container *)
(* that runs is past all the steps that a reason of Refused would have     *)
(* stopped.                                                                *)
(*                                                                         *)
(* The converse of the lemmas so far: what a step needs to succeed, and    *)
(* that the steps before it have left that as it was.                      *)
(***************************************************************************)
EXTENDS IsolationProof

-----------------------------------------------------------------------------
(***************************************************************************)
(* The namespaces.                                                         *)
(***************************************************************************)
\* What has been joined could be: the user namespace first, the mount namespace after all others,
\* the one of the clocks after that.
Owned ==
    /\ \A k \in Kind : ns.how[k] = "joined" => ns.owner[k] = OwnerOf(k) /\ k \in layout_join(b)
    /\ \A k \in Kind : ns.how[k] = "host" => ns.owner[k] = "host"
    /\ \A k \in Kind \ {"user"} :
          ns.how[k] = "joined" /\ "user" \in layout_join(b) => ns.how["user"] = "joined" /\ OwnerOf(k) = "joined"
    /\ ns.how["mount"] = "joined" => \A k \in layout_join(b) : ns.how[k] = "joined" \/ k = "time"
    /\ ns.how["time"] = "joined" /\ PathOf(b, "time") = "unseen" => "mount" \notin layout_join(b)

OInv == NInv /\ Owned

\* The user namespace is the first in the order, the mount namespace the last, and the clocks' is not in it.
LEMMA JoinOrder ==
    /\ \A k : ~Precedes(JOIN_ORDER, k, "user")
    /\ \A k : ~Precedes(JOIN_ORDER, "time", k)
    /\ \A k \in Kind : Precedes(JOIN_ORDER, "mount", k) => k = "time"
<1> DEFINE o == JOIN_ORDER
<1>1. /\ Len(o) = 7 /\ o[1] = "user" /\ o[2] = "ipc" /\ o[3] = "uts" /\ o[4] = "network"
      /\ o[5] = "pid" /\ o[6] = "cgroup" /\ o[7] = "mount"
  BY DEF JOIN_ORDER
<1> HIDE DEF o
<1>2. \A k : ~Precedes(o, k, "user")
  BY <1>1 DEF Precedes
<1>3. \A k : ~Precedes(o, "time", k)
  <2>1. \A i \in 1..7 : o[i] # "time"
    BY <1>1
  <2>2. QED  BY <1>1, <2>1 DEF Precedes
<1>4. ASSUME NEW k \in Kind, Precedes(o, "mount", k) PROVE k = "time"
  <2>1. PICK i \in 1..7 : o[i] = "mount" /\ \A h \in 1..i : o[h] # k
    BY <1>1, <1>4 DEF Precedes
  <2>2. i = 7
    BY <1>1, <2>1
  <2>3. /\ o[1] # k /\ o[2] # k /\ o[3] # k /\ o[4] # k /\ o[5] # k /\ o[6] # k /\ o[7] # k
    BY <2>1, <2>2
  <2>4. QED  BY <1>1, <2>3 DEF Kind
<1>5. QED  BY <1>2, <1>3, <1>4 DEF o

LEMMA InitOwned == Init => Owned
<1> SUFFICES ASSUME Init PROVE Owned
  OBVIOUS
<1>1. \A k \in Kind : ns.how[k] = "host" /\ ns.owner[k] = "host"
  BY DEF Init
<1>2. QED  BY <1>1 DEF Owned, Kind

LEMMA OwnedStays == ASSUME Owned, UNCHANGED <<b, ns>> PROVE Owned'
  BY DEF Owned, OwnerOf

\* What cannot be joined is what NamespacesRefused says.
LEMMA JoinFails == ASSUME OInv, pc = "join", NEW k \in ToJoin, ~CanJoin(k) PROVE NamespacesRefused
<1>1. k \in Kind /\ k \in layout_join(b) /\ ns.how[k] # "joined" /\ PathOf(b, k) \notin {"", "absent"}
  BY DEF ToJoin, layout_join
<1>2. Joining /\ Owned /\ NsTyped
  BY DEF OInv, NInv
<1>3. CASE PathOf(b, k) = "unseen" /\ ns.how["mount"] = "joined"
  <2>1. k = "time"
    BY <1>1, <1>2, <1>3 DEF Owned
  <2>2. PathOf(b, "mount") \notin {"absent", ""}
    BY <1>2, <1>3 DEF Joining, layout_join, Kind
  <2>3. QED  BY <1>3, <2>1, <2>2 DEF NamespacesRefused
<1>4. CASE ns.how["user"] # "host" /\ k # "user" /\ OwnerOf(k) # ns.how["user"]
  <2>1. ns.how["user"] = "joined" /\ "user" \in layout_join(b)
    BY <1>2, <1>4 DEF Joining, Kind
  <2>2. UserAsked \notin {"absent", ""} /\ PathOf(b, k) # "nested"
    BY <1>4, <2>1 DEF layout_join, UserAsked, OwnerOf
  <2>3. QED  BY <1>1, <1>4, <2>2 DEF NamespacesRefused
<1>5. QED  BY <1>3, <1>4 DEF CanJoin

LEMMA JoinOwned == ASSUME OInv, JoinExisting PROVE Owned' /\ (pc' = "failed" => NamespacesRefused)
<1>1. Joining /\ Owned /\ NsTyped /\ pc = "join" /\ b' = b
  BY DEF OInv, NInv, JoinExisting
<1>2. CASE ns' = ns /\ pc' = "unshare"
  BY <1>1, <1>2, OwnedStays
<1>3. ASSUME NEW k \in ToJoin, \A j \in ToJoin \ {k} : joined_before(b, k, j), Go(CanJoin(k), "join"),
             ns' = IF CanJoin(k) THEN [ns EXCEPT !.how[k] = "joined", !.owner[k] = OwnerOf(k)] ELSE ns
      PROVE  Owned' /\ (pc' = "failed" => NamespacesRefused)
  <2>1. k \in Kind /\ k \in layout_join(b) /\ ns.how[k] # "joined"
    BY DEF ToJoin, layout_join
  <2>2. \A j \in ToJoin \ {k} : Precedes(JOIN_ORDER, k, j)
    BY <1>3 DEF joined_before
  <2>3. CASE ~CanJoin(k)
    BY <1>1, <1>3, <2>3, JoinFails, OwnedStays
  <2>4. CASE CanJoin(k)
    <3>1. /\ ns'.how = [ns.how EXCEPT ![k] = "joined"]
          /\ ns'.owner = [ns.owner EXCEPT ![k] = OwnerOf(k)]
          /\ pc' = "join"
      BY <1>1, <1>3, <2>4 DEF NsTyped, Go
    <3>2. \A j \in Kind : j # k => ns'.how[j] = ns.how[j] /\ ns'.owner[j] = ns.owner[j]
      BY <1>1, <3>1 DEF NsTyped
    <3>3. ns'.how[k] = "joined" /\ ns'.owner[k] = OwnerOf(k)
      BY <1>1, <2>1, <3>1 DEF NsTyped
    <3>4. "user" \in layout_join(b) /\ k # "user" => ns.how["user"] = "joined" /\ OwnerOf(k) = "joined"
      <4>1. "user" \in layout_join(b) /\ k # "user" => ns.how["user"] = "joined"
        BY <2>2, JoinOrder DEF ToJoin
      <4>2. QED  BY <2>4, <4>1 DEF CanJoin, OwnerOf
    <3>5. k = "mount" => \A j \in layout_join(b) : j = k \/ ns.how[j] = "joined" \/ j = "time"
      BY <2>2, JoinOrder DEF ToJoin, layout_join
    <3>6. k = "time" /\ PathOf(b, "time") = "unseen" => "mount" \notin layout_join(b)
      <4>1. k = "time" => \A j \in layout_join(b) : j = k \/ ns.how[j] = "joined"
        BY <2>2, JoinOrder DEF ToJoin
      <4>2. QED  BY <2>4, <4>1 DEF CanJoin
    <3>7. Owned'
      <4>1. \A j \in Kind : /\ ns'.how[j] = "joined" => ns'.owner[j] = OwnerOf(j) /\ j \in layout_join(b)
                            /\ ns'.how[j] = "host" => ns'.owner[j] = "host"
        BY <1>1, <2>1, <3>2, <3>3 DEF Owned
      <4>2. \A j \in Kind \ {"user"} :
               ns'.how[j] = "joined" /\ "user" \in layout_join(b) => ns'.how["user"] = "joined" /\ OwnerOf(j) = "joined"
        BY <1>1, <2>1, <3>2, <3>3, <3>4 DEF Owned, Kind
      <4>3. ns'.how["mount"] = "joined" => \A j \in layout_join(b) : ns'.how[j] = "joined" \/ j = "time"
        <5>1. layout_join(b) \subseteq Kind
          BY DEF layout_join
        <5>2. QED  BY <1>1, <2>1, <3>2, <3>3, <3>5, <5>1 DEF Owned, Kind
      <4>4. ns'.how["time"] = "joined" /\ PathOf(b, "time") = "unseen" => "mount" \notin layout_join(b)
        BY <1>1, <3>2, <3>3, <3>6 DEF Owned, Kind
      <4>5. QED  BY <1>1, <4>1, <4>2, <4>3, <4>4 DEF Owned, OwnerOf
    <3>8. QED  BY <3>1, <3>7
  <2>5. QED  BY <2>3, <2>4
<1>4. QED
  <2>1. CASE \E k \in ToJoin : /\ \A j \in ToJoin \ {k} : joined_before(b, k, j)
                               /\ Go(CanJoin(k), "join")
                               /\ ns' = IF CanJoin(k) THEN [ns EXCEPT !.how[k] = "joined", !.owner[k] = OwnerOf(k)] ELSE ns
    BY <1>3, <2>1
  <2>2. QED  BY <1>2, <2>1 DEF JoinExisting

\* What is unshared was not joined, and belongs to the process's user namespace.
LEMMA UnshareOwned == ASSUME OInv, Unshare PROVE Owned' /\ pc' # "failed"
<1>1. Unsharing /\ Owned /\ NsTyped /\ pc = "unshare" /\ b' = b /\ b \in Bundles /\ spec(b)
  BY DEF OInv, NInv, Unshare, Inside
<1>2. CASE ns' = ns /\ pc' \in {"map", "attach"}
  BY <1>1, <1>2, OwnedStays
<1>3. ASSUME NEW k \in ToUnshare, pc' = pc,
             ns' = [ns EXCEPT !.how[k] = "new", !.owner[k] = ns.how["user"],
                              !.offsets = @ \/ (k = "time" /\ b.timeOffsets)]
      PROVE  Owned' /\ pc' # "failed"
  <2>1. k \in layout_create(b) /\ namespace_types(b)
    BY <1>1 DEF ToUnshare, unshare_flags, without, spec
  <2>2. k \in Kind /\ k \notin layout_join(b)
    BY <1>1, <2>1, KindsAre, CreatedAreKinds
  <2>3. /\ ns'.how = [ns.how EXCEPT ![k] = "new"]
        /\ ns'.owner = [ns.owner EXCEPT ![k] = ns.how["user"]]
    BY <1>1, <1>3 DEF NsTyped
  <2>4. \A j \in Kind : j # k => ns'.how[j] = ns.how[j] /\ ns'.owner[j] = ns.owner[j]
    BY <1>1, <2>3 DEF NsTyped
  <2>5. ns'.how[k] = "new" /\ \A j \in layout_join(b) : j # k
    BY <1>1, <2>2, <2>3 DEF NsTyped
  <2>6. Owned'
    <3>1. \A j \in Kind : /\ ns'.how[j] = "joined" => ns'.owner[j] = OwnerOf(j) /\ j \in layout_join(b)
                          /\ ns'.how[j] = "host" => ns'.owner[j] = "host"
      BY <1>1, <2>4, <2>5 DEF Owned
    <3>2. \A j \in Kind \ {"user"} :
             ns'.how[j] = "joined" /\ "user" \in layout_join(b) => ns'.how["user"] = "joined" /\ OwnerOf(j) = "joined"
      BY <1>1, <2>4, <2>5 DEF Owned, Kind
    <3>3. ns'.how["mount"] = "joined" => \A j \in layout_join(b) : ns'.how[j] = "joined" \/ j = "time"
      <4>1. layout_join(b) \subseteq Kind
        BY DEF layout_join
      <4>2. QED  BY <1>1, <2>4, <2>5, <4>1 DEF Owned, Kind
    <3>4. ns'.how["time"] = "joined" /\ PathOf(b, "time") = "unseen" => "mount" \notin layout_join(b)
      BY <1>1, <2>4, <2>5 DEF Owned, Kind
    <3>5. QED  BY <1>1, <3>1, <3>2, <3>3, <3>4 DEF Owned, OwnerOf
  <2>7. QED  BY <1>1, <1>3, <2>6
<1>4. QED
  <2>1. CASE \E k \in ToUnshare :
                /\ ns' = [ns EXCEPT !.how[k] = "new", !.owner[k] = ns.how["user"],
                                    !.offsets = @ \/ (k = "time" /\ b.timeOffsets)]
                /\ pc' = pc
    BY <1>3, <2>1
  <2>2. QED  BY <1>2, <2>1 DEF Unshare

LEMMA CgroupOwned == ASSUME OInv, UnshareCgroup PROVE Owned'
<1>1. Unshared /\ Owned /\ NsTyped /\ b' = b /\ b \in Bundles /\ spec(b)
  BY DEF OInv, NInv, UnshareCgroup, Inside
<1>2. CASE ~cgroup_ns(b)
  BY <1>1, <1>2, OwnedStays DEF UnshareCgroup
<1>3. CASE cgroup_ns(b)
  <2>1. "cgroup" \notin layout_join(b)
    BY <1>1, <1>3, KindsAre DEF cgroup_ns, spec, Kind
  <2>2. /\ ns'.how = [ns.how EXCEPT !["cgroup"] = "new"]
        /\ ns'.owner = [ns.owner EXCEPT !["cgroup"] = ns.how["user"]]
    BY <1>1, <1>3 DEF NsTyped, UnshareCgroup
  <2>3. \A j \in Kind : j # "cgroup" => ns'.how[j] = ns.how[j] /\ ns'.owner[j] = ns.owner[j]
    BY <1>1, <2>2 DEF NsTyped
  <2>4. ns'.how["cgroup"] = "new" /\ \A j \in layout_join(b) : j # "cgroup"
    BY <1>1, <2>1, <2>2 DEF NsTyped, Kind
  <2>5. \A j \in Kind : /\ ns'.how[j] = "joined" => ns'.owner[j] = OwnerOf(j) /\ j \in layout_join(b)
                        /\ ns'.how[j] = "host" => ns'.owner[j] = "host"
    BY <1>1, <2>3, <2>4 DEF Owned
  <2>6. \A j \in Kind \ {"user"} :
           ns'.how[j] = "joined" /\ "user" \in layout_join(b) => ns'.how["user"] = "joined" /\ OwnerOf(j) = "joined"
    BY <1>1, <2>3, <2>4 DEF Owned, Kind
  <2>7. ns'.how["mount"] = "joined" => \A j \in layout_join(b) : ns'.how[j] = "joined" \/ j = "time"
    <3>1. layout_join(b) \subseteq Kind
      BY DEF layout_join
    <3>2. QED  BY <1>1, <2>3, <2>4, <3>1 DEF Owned, Kind
  <2>8. ns'.how["time"] = "joined" /\ PathOf(b, "time") = "unseen" => "mount" \notin layout_join(b)
    BY <1>1, <2>3, <2>4 DEF Owned, Kind
  <2>9. QED  BY <1>1, <2>5, <2>6, <2>7, <2>8 DEF Owned, OwnerOf
<1>4. QED  BY <1>2, <1>3

LEMMA NextOInv == OInv /\ [Next]_vars => OInv'
<1> SUFFICES ASSUME OInv, [Next]_vars PROVE OInv'
  OBVIOUS
<1>1. NInv'
  BY NextNInv DEF OInv
<1>2. CASE UNCHANGED <<b, ns>>
  BY <1>1, <1>2, OwnedStays DEF OInv
<1>3. CASE ~UNCHANGED <<b, ns>>
  <2>1. JoinExisting \/ Unshare \/ UnshareCgroup
    BY <1>3 DEF Next, vars, LoadBundle, Plan, CreateCgroup, ApplyResources, Spawn, MapIds, Attach,
       MountRoot, ApplyMounts, CreateNodes, CreateLinks, CreateDevices, PivotRoot, SetupConsole,
       SetIdentity, ApplySysctl, MaskPaths, ReadonlyPaths, RemountReadonly, ReadonlyRootfs, ApplyLimits,
       FilterEarly, DropBounding, DropPrivileges, ApplyCapabilities, NoNewPrivs, FilterLate, Ready, Park,
       Exec, Starved, Overflow, Each, Privilege
  <2>2. QED  BY <1>1, <2>1, JoinOwned, UnshareOwned, CgroupOwned DEF OInv
<1>4. QED  BY <1>2, <1>3

-----------------------------------------------------------------------------
\* Once the init has all its namespaces, it has capabilities over exactly those that Owns names.
LEMMA AbleIs ==
    ASSUME OInv, pc \in Inside
    PROVE  /\ HostUser <=> UserAsked = "absent"
           /\ \A k \in Kind \ {"user"} : k \in Able <=> Owns(k)
           /\ OwnMounts(b) => "mount" \in Able
           /\ OwnMounts(b) => Owns("mount")
<1>1. Settled /\ Owned /\ NsTyped /\ b \in Bundles /\ (pc # "failed" => spec(b))
  BY DEF OInv, NInv, Inside
<1>2. HostUser <=> UserAsked = "absent"
  BY <1>1 DEF Settled, HostUser, UserAsked, Kind
<1>3. ASSUME NEW k \in Kind \ {"user"} PROVE k \in Able <=> Owns(k)
  <2>1. k \in Able <=> HostUser \/ ns.owner[k] = ns.how["user"]
    BY DEF Able, CapableOver, HostUser
  <2>2. CASE UserAsked = "absent"
    BY <1>2, <2>1, <2>2 DEF Owns
  <2>3. CASE UserAsked = ""
    <3>1. ns.how["user"] = "new"
      BY <1>1, <2>3 DEF Settled, UserAsked, Kind
    <3>2. CASE PathOf(b, k) = ""
      BY <1>1, <2>1, <3>1, <3>2 DEF Settled, Owns
    <3>3. CASE PathOf(b, k) # ""
      <4>1. ns.how[k] \in {"host", "joined"}
        BY <1>1, <3>3 DEF Settled
      <4>2. ns.owner[k] \in {"host", "joined"}
        BY <1>1, <4>1 DEF Owned, OwnerOf
      <4>3. QED  BY <2>1, <2>3, <3>1, <3>3, <4>2 DEF Owns, HostUser
    <3>4. QED  BY <3>2, <3>3
  <2>4. CASE UserAsked \notin {"absent", ""}
    <3>1. ns.how["user"] = "joined"
      BY <1>1, <2>4 DEF Settled, UserAsked, Kind
    <3>2. CASE PathOf(b, k) = ""
      BY <1>1, <2>1, <3>1, <3>2 DEF Settled, Owns
    <3>3. CASE PathOf(b, k) = "absent"
      <4>1. ns.owner[k] = "host"
        BY <1>1, <3>3 DEF Settled, Owned
      <4>2. QED  BY <2>1, <2>4, <3>1, <3>3, <4>1 DEF Owns, HostUser
    <3>4. CASE PathOf(b, k) \notin {"", "absent"}
      <4>1. ns.owner[k] = OwnerOf(k)
        BY <1>1, <3>4 DEF Settled, Owned
      <4>2. QED  BY <2>1, <2>4, <3>1, <3>4, <4>1 DEF Owns, HostUser, OwnerOf
    <3>5. QED  BY <3>2, <3>3, <3>4
  <2>5. QED  BY <2>2, <2>3, <2>4
<1>4. OwnMounts(b) => Owns("mount")
  <2>1. spec(b)
    BY <1>1 DEF Inside
  <2>2. "mount" \in Kind /\ namespace_types(b)
    BY <2>1 DEF spec, Kind
  <2>3. QED  BY <1>1, <2>2, KindsAre DEF OwnMounts, unshare_flags, without, Owns
<1>5. QED  BY <1>2, <1>3, <1>4 DEF Kind

\* A container whose namespaces are refused gets none.
LEMMA NamespacesAccepted ==
    ASSUME OInv, pc \in Inside \cup {"attach", "cgroupns"}, UserAsked = "" => b.uidMap /\ b.gidMap
    PROVE  ~NamespacesRefused
<1>1. Owned /\ NsTyped /\ b \in Bundles /\ spec(b)
  BY DEF OInv, NInv, Inside
<1>2. \A k \in Kind : k \in layout_join(b) => ns.how[k] = "joined"
  <2>1. CASE pc \in Inside
    BY <2>1 DEF OInv, NInv, Settled, layout_join
  <2>2. CASE pc \in {"attach", "cgroupns"}
    BY <2>2 DEF OInv, NInv, Unshared, Unsharing, Inside
  <2>3. QED  BY <2>1, <2>2
<1>3. ASSUME NEW k \in Kind \ {"user"}, PathOf(b, k) \notin {"absent", ""}, UserAsked \notin {"absent", ""}
      PROVE  PathOf(b, k) = "nested"
  <2>1. k \in layout_join(b) /\ "user" \in layout_join(b)
    BY <1>3 DEF layout_join, UserAsked, Kind
  <2>2. QED  BY <1>1, <1>2, <2>1 DEF Owned, OwnerOf
<1>4. PathOf(b, "time") = "unseen" => PathOf(b, "mount") \in {"absent", ""}
  BY <1>1, <1>2 DEF Owned, layout_join, Kind
<1>5. QED  BY <1>3, <1>4 DEF NamespacesRefused

-----------------------------------------------------------------------------
(***************************************************************************)
(* The privileges: what each call needs, as well as what it does.          *)
(***************************************************************************)
\* k is r if the calls so far could be made, and has failed otherwise.
Gets(k, could, r) == (could => k = r) /\ (~could => Failed(k))

Whole(r) == Shape(r) /\ r.ok

LEMMA CallGets ==
    ASSUME NEW k, NEW could, NEW r, Gets(k, could, r), Whole(r),
           NEW call, NEW can, NEW after, NEW s, NEW next,
           could => (next <=> Allows(r, call) /\ can) /\ after = s, next => could
    PROVE  Gets(Call(k, call, can, after), next, s)
<1>1. CASE could
  <2>1. k = r /\ k.ok /\ Shape(k) /\ after = s /\ (next <=> Allows(r, call) /\ can)
    BY <1>1 DEF Gets, Whole
  <2>2. next => Call(k, call, can, after) = s
    BY <2>1 DEF Call
  <2>3. ~next => Failed(Call(k, call, can, after))
    <3>1. ~next => Call(k, call, can, after) = [k EXCEPT !.ok = No]
      BY <2>1 DEF Call, No
    <3>2. [k EXCEPT !.ok = No].ok = No /\ Shape([k EXCEPT !.ok = No])
      BY <2>1 DEF Shape
    <3>3. Failed([k EXCEPT !.ok = No])
      BY <3>2 DEF Failed, No
    <3>4. QED  BY <3>1, <3>3
  <2>4. QED  BY <1>1, <2>2, <2>3 DEF Gets
<1>2. CASE ~could
  <2>1. Failed(k)
    BY <1>2 DEF Gets
  <2>2. Failed(Call(k, call, can, after))
    BY <2>1, CallEither DEF Failed
  <2>3. QED  BY <1>2, <2>2 DEF Gets
<1>3. QED  BY <1>1, <1>2

LEMMA GetsOk == ASSUME NEW k, NEW could, NEW r, Gets(k, could, r), Whole(r) PROVE k.ok <=> could
  BY DEF Gets, Whole, Failed

LEMMA RecordWhole ==
    ASSUME NEW uid, NEW gid, NEW groups, NEW eff, NEW perm, NEW inh, NEW amb, NEW bnd, NEW keep, NEW nnp, NEW filter
    PROVE  LET r == Record(uid, gid, groups, eff, perm, inh, amb, bnd, keep, nnp, filter, Yes)
           IN  /\ Whole(r) /\ r.uid = uid /\ r.gid = gid /\ r.groups = groups /\ r.eff = eff /\ r.perm = perm
               /\ r.inh = inh /\ r.amb = amb /\ r.bnd = bnd /\ r.keepcaps = keep /\ r.nnp = nnp
               /\ r.filter = filter
  BY DEF Record, Whole, Shape, Yes

\* Whether a filter, if there is one, lets a call through.
Lets(filter, call) == filter = <<>> \/ filter[1][call] = "allow"

LEMMA RecordAllows ==
    ASSUME NEW uid, NEW gid, NEW groups, NEW eff, NEW perm, NEW inh, NEW amb, NEW bnd, NEW keep, NEW nnp, NEW filter,
           NEW call
    PROVE  Allows(Record(uid, gid, groups, eff, perm, inh, amb, bnd, keep, nnp, filter, Yes), call) <=> Lets(filter, call)
  BY DEF Allows, Lets, Record

\* Whether it does at least not end the caller.
Survives(filter, call) == filter = <<>> \/ filter[1][call] # "kill"

LEMMA RecordKills ==
    ASSUME NEW uid, NEW gid, NEW groups, NEW eff, NEW perm, NEW inh, NEW amb, NEW bnd, NEW keep, NEW nnp, NEW filter,
           NEW call
    PROVE  ~Kills(Record(uid, gid, groups, eff, perm, inh, amb, bnd, keep, nnp, filter, Yes), call)
             <=> Survives(filter, call)
  BY DEF Kills, Survives, Record

\* A root of a user namespace becomes its user 0 whenever it tries.
LEMMA BecomesAlways == ASSUME NEW k \in Fresh PROVE become_root_in_namespace(k).ok
<1> DEFINE start == {"host"}
           none == <<>>
           R(uid, gid) == Record(uid, gid, start, Caps, Caps, {}, {}, Caps, No, No, none, Yes)
           k1 == Setgid(k, 0)
           k2 == Setuid(k1, 0)
<1>1. PICK uid, gid \in {0, OverflowId} : k = R(uid, gid)
  BY FreshCreds DEF Creds
<1>2. Lets(none, "setgid") /\ Lets(none, "setuid") /\ "SETID" \in Caps
  BY DEF Lets, Caps
<1> HIDE DEF start, none
<1>3. k1 = R(uid, 0)
  <2>1. Whole(R(uid, gid)) /\ R(uid, gid).eff = Caps
    BY RecordWhole
  <2>2. Allows(R(uid, gid), "setgid")
    BY <1>2, RecordAllows
  <2>3. ASSUME NEW zero PROVE [k EXCEPT !.gid = zero] = R(uid, zero)
    BY <1>1 DEF Record
  <2>4. Setgid(k, 0) = [k EXCEPT !.gid = 0]
    BY <1>1, <1>2, <2>1, <2>2 DEF Setgid, Call, Whole
  <2>5. QED  BY <2>3, <2>4
<1> HIDE DEF k1
<1>4. k2.ok
  <2>1. Whole(R(uid, 0)) /\ R(uid, 0).eff = Caps
    BY RecordWhole
  <2>2. Allows(R(uid, 0), "setuid")
    BY <1>2, RecordAllows
  <2>3. k1.ok /\ Allows(k1, "setuid") /\ "SETID" \in k1.eff /\ Shape(k1)
    BY <1>2, <1>3, <2>1, <2>2 DEF Whole
  <2>4. ASSUME NEW uid2, NEW perm, NEW eff, NEW amb
        PROVE  [k1 EXCEPT !.uid = uid2, !.perm = perm, !.eff = eff, !.amb = amb].ok
    BY <2>3 DEF Shape
  <2>5. QED  BY <2>3, <2>4 DEF Setuid, Call
<1>5. QED  BY <1>4 DEF become_root_in_namespace, k1

\* The filter is loaded if it can be built, by a process that may load one.
LEMMA FilterNeeds ==
    ASSUME NEW uid, NEW gid, NEW groups, NEW eff, NEW perm, NEW inh, NEW amb, NEW bnd, NEW nnp, NEW asked, NEW k,
           k = Creds(uid, gid, groups, eff, perm, inh, amb, bnd, nnp, <<>>), nnp \/ "SYS_ADMIN" \in eff
    PROVE  apply_seccomp(k, asked).ok <=> build_ok(asked)
<1> DEFINE none == <<>>
           loaded == <<build(asked)>>
<1>1. k = Record(uid, gid, groups, eff, perm, inh, amb, bnd, No, nnp, none, Yes) /\ Lets(none, "rest")
  BY DEF Creds, Lets
<1> HIDE DEF none
<1>2. Whole(k) /\ Allows(k, "rest") /\ (k.nnp \/ "SYS_ADMIN" \in k.eff)
  BY <1>1, RecordWhole, RecordAllows
<1>3. CASE build_ok(asked)
  <2>1. apply_seccomp(k, asked) = [k EXCEPT !.filter = loaded]
    BY <1>2, <1>3 DEF apply_seccomp, Load, Call, Whole
  <2>2. QED  BY <1>2, <1>3, <2>1 DEF Whole, Shape
<1>4. CASE ~build_ok(asked)
  BY <1>2, <1>4 DEF apply_seccomp, Whole, Shape
<1>5. QED  BY <1>3, <1>4

\* no_new_privs is set if the filter allows it.
LEMMA NnpNeeds ==
    ASSUME NEW uid, NEW gid, NEW groups, NEW eff, NEW perm, NEW inh, NEW amb, NEW bnd, NEW filter, NEW k,
           k = Creds(uid, gid, groups, eff, perm, inh, amb, bnd, No, filter)
    PROVE  set_no_new_privs(k).ok <=> Lets(filter, "prctl")
<1>1. k = Record(uid, gid, groups, eff, perm, inh, amb, bnd, No, No, filter, Yes)
  BY DEF Creds
<1>2. Whole(k) /\ (Allows(k, "prctl") <=> Lets(filter, "prctl"))
  BY <1>1, RecordWhole, RecordAllows
<1>3. QED  BY <1>2 DEF set_no_new_privs, Call, Whole, Shape

\* The bounding set is dropped if it is one of known capabilities and the filter allows it.
LEMMA BoundingNeeds ==
    ASSUME NEW uid, NEW gid, NEW groups, NEW filter, NEW asked, NEW k,
           k = Creds(uid, gid, groups, Caps, Caps, {}, {}, Caps, No, filter)
    PROVE  drop_bounding(k, asked).ok <=> Lets(filter, "prctl") /\ parse_ok(asked.bounding)
<1>1. k = Record(uid, gid, groups, Caps, Caps, {}, {}, Caps, No, No, filter, Yes) /\ "SETPCAP" \in Caps
  BY DEF Creds, Caps
<1>2. Whole(k) /\ k.eff = Caps /\ (Allows(k, "prctl") <=> Lets(filter, "prctl"))
  BY <1>1, RecordWhole, RecordAllows
<1>3. QED  BY <1>1, <1>2 DEF drop_bounding, Call, Whole, Shape

\* What a process may still do after it has changed its user.
PermLeft(uid0, uid, filter) == IF uid0 = 0 /\ uid # 0 /\ ~Lets(filter, "geteuid") THEN {} ELSE Caps

\* drop_privileges needs the filter to allow its calls, two more when a root stops being one and
\* is told that it is one; what it may do is left to it unless it is not told.
LEMMA UserNeeds ==
    ASSUME NEW uid0 \in {0, OverflowId}, NEW gid0 \in {0, OverflowId}, NEW bnd, NEW filter,
           NEW uid, NEW gid, NEW groups, NEW k,
           k = Creds(uid0, gid0, {"host"}, Caps, Caps, {}, {}, bnd, No, filter)
    PROVE  LET after == drop_privileges(k, uid, gid, groups)
           IN  /\ after.ok <=>
                     /\ Survives(filter, "geteuid")
                     /\ Lets(filter, "setgroups") /\ Lets(filter, "setgid") /\ Lets(filter, "setuid")
                     /\ uid0 = 0 /\ uid # 0 /\ Lets(filter, "geteuid") => Lets(filter, "prctl")
               /\ after.ok => after.perm = PermLeft(uid0, uid, filter)
<1> DEFINE start == {"host"}
           leaving == Allows(k, "geteuid") /\ k.uid = 0 /\ uid # 0
           parts == uid0 = 0 /\ uid # 0
           told == Lets(filter, "geteuid")
           k0 == [k EXCEPT !.ok = @ /\ ~Kills(k, "geteuid")]
           Keep(p, keep) == IF leaving THEN keep_caps_across_setuid(p, keep) ELSE p
           k1 == Setgroups(k0, groups)
           k2 == Keep(k1, TRUE)
           k3 == Setgid(k2, gid)
           k4 == Setuid(k3, uid)
           k5 == Keep(k4, FALSE)
           Q(u, g, gs, eff, perm, keep) == Record(u, g, gs, eff, perm, {}, {}, bnd, keep, No, filter, Yes)
           R(u, g, gs, eff, keep) == Record(u, g, gs, eff, Caps, {}, {}, bnd, keep, No, filter, Yes)
           kept == IF leaving THEN Yes ELSE No
           eff1 == IF parts THEN {} ELSE Caps
           perm1 == PermLeft(uid0, uid, filter)
           spared == Survives(filter, "geteuid")
           grouped == spared /\ Lets(filter, "setgroups")
           keeping == grouped /\ (leaving => Lets(filter, "prctl"))
           group == keeping /\ Lets(filter, "setgid")
           user == group /\ Lets(filter, "setuid")
<1>1. k5 = drop_privileges(k, uid, gid, groups)
  BY DEF drop_privileges
<1>2. k = R(uid0, gid0, start, Caps, No) /\ "SETID" \in Caps
  BY DEF Creds, Caps
<1>3. Whole(k) /\ k.eff = Caps /\ k.uid = uid0
  BY <1>2, RecordWhole
<1>4. leaving <=> parts /\ told
  <2>1. Allows(k, "geteuid") <=> told
    BY <1>2, RecordAllows
  <2>2. QED  BY <1>3, <2>1
<1> HIDE DEF start, leaving
<1>5. Gets(k0, spared, R(uid0, gid0, start, Caps, No))
  <2>1. ~Kills(k, "geteuid") <=> spared
    BY <1>2, RecordKills
  <2>2. k0 = k \/ Failed(k0)
    <3>1. Shape(k) /\ k.ok = Yes
      BY <1>2, <1>3 DEF Record, Whole
    <3>2. QED  BY <3>1, UserAskedFor
  <2>3. k0.ok <=> ~Kills(k, "geteuid")
    BY <1>3 DEF Whole, Shape
  <2>4. QED  BY <1>2, <1>3, <2>1, <2>2, <2>3 DEF Gets, Failed, Whole
<1> HIDE DEF k0, spared
<1>6. Gets(k1, grouped, R(uid0, gid0, groups, Caps, No))
  <2>1. Whole(R(uid0, gid0, start, Caps, No)) /\ R(uid0, gid0, start, Caps, No).eff = Caps
    BY RecordWhole
  <2>2. spared => k0 = R(uid0, gid0, start, Caps, No)
    BY <1>5 DEF Gets
  <2>3. spared => [k0 EXCEPT !.groups = groups] = R(uid0, gid0, groups, Caps, No)
    BY <2>2 DEF Record
  <2>4. spared => (grouped <=> Allows(R(uid0, gid0, start, Caps, No), "setgroups") /\ "SETID" \in k0.eff)
    BY <1>2, <2>1, <2>2, RecordAllows
  <2> DEFINE r == R(uid0, gid0, start, Caps, No)
             s == R(uid0, gid0, groups, Caps, No)
             can == "SETID" \in k0.eff
             after == [k0 EXCEPT !.groups = groups]
  <2>5. spared => (grouped <=> Allows(r, "setgroups") /\ can) /\ after = s
    BY <2>3, <2>4
  <2>6. Gets(k0, spared, r) /\ Whole(r) /\ (grouped => spared) /\ k1 = Call(k0, "setgroups", can, after)
    BY <1>5, <2>1 DEF Setgroups
  <2> HIDE DEF grouped, r, s, can, after, k1
  <2>7. QED  BY <2>5, <2>6, CallGets DEF s
<1> HIDE DEF k1
<1>7. Gets(k2, keeping, R(uid0, gid0, groups, Caps, kept))
  <2>1. CASE leaving
    <3>1. grouped => [k1 EXCEPT !.keepcaps = Yes] = R(uid0, gid0, groups, Caps, Yes)
      <4>1. grouped => k1 = R(uid0, gid0, groups, Caps, No)
        BY <1>6 DEF Gets
      <4>2. QED  BY <4>1 DEF Record
    <3>2. Whole(R(uid0, gid0, groups, Caps, No))
      BY RecordWhole
    <3>3. keeping <=> grouped /\ Allows(R(uid0, gid0, groups, Caps, No), "prctl")
      BY <2>1, RecordAllows
    <3>4. Gets(Call(k1, "prctl", TRUE, [k1 EXCEPT !.keepcaps = Yes]), keeping, R(uid0, gid0, groups, Caps, Yes))
      BY <1>6, <3>1, <3>2, <3>3, CallGets
    <3>5. QED  BY <2>1, <3>4 DEF keep_caps_across_setuid, Yes
  <2>2. CASE ~leaving
    <3>1. k2 = k1 /\ kept = No /\ (keeping <=> grouped)
      BY <2>2
    <3>2. QED  BY <1>6, <3>1 DEF Gets
  <2>3. QED  BY <2>1, <2>2
<1> HIDE DEF k2, grouped
<1>8. Gets(k3, group, R(uid0, gid, groups, Caps, kept))
  <2>1. Whole(R(uid0, gid0, groups, Caps, kept)) /\ R(uid0, gid0, groups, Caps, kept).eff = Caps
    BY RecordWhole
  <2>2. keeping => k2 = R(uid0, gid0, groups, Caps, kept)
    BY <1>7 DEF Gets
  <2>3. keeping => [k2 EXCEPT !.gid = gid] = R(uid0, gid, groups, Caps, kept)
    <3> HIDE DEF keeping, kept
    <3>1. QED  BY <2>2 DEF Record
  <2>4. keeping => (group <=> Allows(R(uid0, gid0, groups, Caps, kept), "setgid") /\ ("SETID" \in k2.eff \/ gid = k2.gid))
    BY <1>2, <2>1, <2>2, RecordAllows
  <2>5. group => keeping
    OBVIOUS
  <2> DEFINE r == R(uid0, gid0, groups, Caps, kept)
             s == R(uid0, gid, groups, Caps, kept)
             can == "SETID" \in k2.eff \/ gid = k2.gid
             after == [k2 EXCEPT !.gid = gid]
  <2>6. keeping => (group <=> Allows(r, "setgid") /\ can) /\ after = s
    BY <2>3, <2>4
  <2>7. Gets(k2, keeping, r) /\ Whole(r) /\ k3 = Call(k2, "setgid", can, after)
    BY <1>7, <2>1 DEF Setgid
  <2> HIDE DEF group, keeping, r, s, can, after, k3
  <2>8. QED  BY <2>5, <2>6, <2>7, CallGets DEF s
<1> HIDE DEF k3, keeping
<1>9. Gets(k4, user, Q(uid, gid, groups, eff1, perm1, kept))
  <2> DEFINE r == R(uid0, gid, groups, Caps, kept)
             leaves == k3.uid = 0 /\ uid # 0
             enters == k3.uid # 0 /\ uid = 0
             after == [k3 EXCEPT !.uid = uid,
                                 !.perm = IF leaves /\ ~k3.keepcaps THEN {} ELSE @,
                                 !.eff = IF leaves THEN {} ELSE IF enters THEN k3.perm ELSE @,
                                 !.amb = IF leaves THEN {} ELSE @]
             s == Q(uid, gid, groups, eff1, perm1, kept)
  <2>1. Whole(r) /\ r.uid = uid0 /\ r.eff = Caps /\ r.perm = Caps /\ r.keepcaps = kept /\ r.amb = {}
    <3> HIDE DEF kept
    <3>1. QED  BY RecordWhole
  <2>2. group => k3 = r
    BY <1>8 DEF Gets
  <2>3. group => after = s
    <3>1. SUFFICES ASSUME group PROVE after = s
      OBVIOUS
    <3>2. (leaves <=> parts) /\ (leaves /\ ~k3.keepcaps <=> parts /\ ~told)
      BY <1>3, <1>4, <2>1, <2>2, <3>1 DEF Yes, No
    <3>3. (IF leaves THEN {} ELSE IF enters THEN k3.perm ELSE k3.eff) = eff1
      BY <2>1, <2>2, <3>1, <3>2
    <3>4. (IF leaves /\ ~k3.keepcaps THEN {} ELSE k3.perm) = perm1
      BY <2>1, <2>2, <3>1, <3>2 DEF PermLeft
    <3>5. after = [k3 EXCEPT !.uid = uid, !.perm = perm1, !.eff = eff1, !.amb = {}]
      <4>1. (IF leaves THEN {} ELSE k3.amb) = {}
        BY <2>1, <2>2, <3>1
      <4>2. QED  BY <3>3, <3>4, <4>1
    <3>6. k3 = R(uid0, gid, groups, Caps, kept)
      BY <2>2, <3>1
    <3> HIDE DEF eff1, perm1, after, kept, group, r
    <3>7. QED  BY <3>5, <3>6 DEF Record
  <2>4. group => (user <=> Allows(r, "setuid") /\ ("SETID" \in k3.eff \/ uid = k3.uid))
    <3>1. Allows(r, "setuid") <=> Lets(filter, "setuid")
      BY RecordAllows
    <3>2. QED  BY <1>2, <2>1, <2>2, <3>1
  <2>5. user => group
    OBVIOUS
  <2> DEFINE can == "SETID" \in k3.eff \/ uid = k3.uid
  <2>6. group => (user <=> Allows(r, "setuid") /\ can) /\ after = s
    BY <2>3, <2>4
  <2>7. Gets(k3, group, r) /\ Whole(r)
    BY <1>8, <2>1
  <2> HIDE DEF group, user, r, s, after, can
  <2>8. k4 = Call(k3, "setuid", can, after)
    BY DEF Setuid, after, can
  <2> HIDE DEF k4
  <2>9. Gets(k4, user, s)
    BY <2>5, <2>6, <2>7, <2>8, CallGets
  <2>10. QED  BY <2>9 DEF s
<1> HIDE DEF k4, group
<1>10. /\ k5.ok <=> user /\ (leaving => Lets(filter, "prctl"))
       /\ k5.ok => k5.perm = perm1
  <2> DEFINE r == Q(uid, gid, groups, eff1, perm1, kept)
  <2>1. Whole(r) /\ (Allows(r, "prctl") <=> Lets(filter, "prctl")) /\ r.perm = perm1
    <3> HIDE DEF eff1, perm1, kept
    <3>1. QED  BY RecordWhole, RecordAllows
  <2>2. CASE leaving
    <3> DEFINE next == user /\ Lets(filter, "prctl")
               after == [k4 EXCEPT !.keepcaps = No]
    <3>1. user => after = [r EXCEPT !.keepcaps = No]
      BY <1>9 DEF Gets
    <3>2. Whole([r EXCEPT !.keepcaps = No]) /\ [r EXCEPT !.keepcaps = No].perm = perm1
      <4> HIDE DEF r, perm1
      <4>1. QED  BY <2>1 DEF Whole, Shape
    <3> DEFINE s == [r EXCEPT !.keepcaps = No]
               can == TRUE
    <3>3. user => (next <=> Allows(r, "prctl") /\ can) /\ after = s
      BY <2>1, <3>1
    <3>4. Gets(k4, user, r) /\ Whole(r) /\ (next => user)
      BY <1>9, <2>1
    <3>5. s.perm = perm1
      BY <3>2
    <3> HIDE DEF r, user, after, s, next, can, perm1
    <3>6. Gets(Call(k4, "prctl", can, after), next, s)
      BY <3>3, <3>4, CallGets
    <3>7. k5 = Call(k4, "prctl", can, after)
      BY <2>2 DEF keep_caps_across_setuid, after, can, No
    <3>8. Whole(s)
      BY <3>2 DEF s
    <3>9. (k5.ok <=> next) /\ (next => k5 = s)
      BY <3>6, <3>7, <3>8, GetsOk DEF Gets
    <3>10. QED  BY <2>2, <3>5, <3>9 DEF next
  <2>3. CASE ~leaving
    <3>1. Gets(k4, user, r) /\ k5 = k4
      BY <1>9, <2>3
    <3> HIDE DEF r, user, perm1
    <3>2. QED  BY <2>1, <2>3, <3>1, GetsOk DEF Gets
  <2>4. QED  BY <2>2, <2>3
<1> HIDE DEF k5, perm1
<1>11. QED  BY <1>1, <1>4, <1>10 DEF group, keeping, grouped, spared, perm1

\* capset needs what the kernel says of the three sets it takes.
LEMMA CapsetGets ==
    ASSUME NEW uid, NEW gid, NEW groups, NEW eff0, NEW perm0, NEW inh0, NEW bnd, NEW filter,
           NEW eff, NEW perm, NEW inh, NEW k, NEW could, NEW next,
           Gets(k, could, Creds(uid, gid, groups, eff0, perm0, inh0, {}, bnd, No, filter)),
           could => (next <=> /\ Lets(filter, "capget") /\ Lets(filter, "capset")
                              /\ perm \subseteq perm0 /\ eff \subseteq perm
                              /\ inh \subseteq inh0 \cup bnd
                              /\ "SETPCAP" \notin eff0 => inh \subseteq inh0 \cup perm0),
           next => could
    PROVE  Gets(Capset(k, eff, perm, inh), next, Creds(uid, gid, groups, eff, perm, inh, {}, bnd, No, filter))
<1> DEFINE none == {}
           r == Record(uid, gid, groups, eff0, perm0, inh0, none, bnd, No, No, filter, Yes)
           s == Record(uid, gid, groups, eff, perm, inh, none, bnd, No, No, filter, Yes)
           can == /\ perm \subseteq k.perm /\ eff \subseteq perm
                  /\ inh \subseteq k.inh \cup k.bnd
                  /\ "SETPCAP" \notin k.eff => inh \subseteq k.inh \cup k.perm
           after == [k EXCEPT !.eff = eff, !.perm = perm, !.inh = inh, !.amb = @ \cap perm \cap inh]
           got == could /\ Lets(filter, "capget")
           j == Call(k, "capget", TRUE, k)
<1>1. Gets(k, could, r)
  BY DEF Creds
<1>2. none \cap perm \cap inh = none
  OBVIOUS
<1> HIDE DEF none
<1>3. /\ Whole(r) /\ \A call : Allows(r, call) <=> Lets(filter, call)
      /\ r.perm = perm0 /\ r.inh = inh0 /\ r.eff = eff0 /\ r.bnd = bnd /\ r.amb = none
  BY RecordWhole, RecordAllows
<1>4. could => after = s
  <2>1. SUFFICES ASSUME could PROVE after = s
    OBVIOUS
  <2>2. k = Record(uid, gid, groups, eff0, perm0, inh0, none, bnd, No, No, filter, Yes)
    BY <1>1, <2>1 DEF Gets
  <2>3. k.amb = none
    BY <1>3, <2>2
  <2>4. after = [k EXCEPT !.eff = eff, !.perm = perm, !.inh = inh, !.amb = none]
    BY <1>2, <2>3
  <2> HIDE DEF after
  <2>5. QED  BY <2>2, <2>4 DEF Record
<1>5. got => (next <=> Allows(r, "capset") /\ can) /\ after = s
  <2>1. could => k = r
    BY <1>1 DEF Gets
  <2> HIDE DEF r, after, s
  <2>2. got => (next <=> Allows(r, "capset") /\ can)
    BY <1>3, <2>1
  <2>3. QED  BY <1>4, <2>2
<1> HIDE DEF r, s, can, after
<1>6. Gets(j, got, r)
  <2> DEFINE yes == TRUE
  <2>1. could => (got <=> Allows(r, "capget") /\ yes) /\ k = r
    BY <1>1, <1>3 DEF Gets
  <2>2. got => could
    OBVIOUS
  <2> HIDE DEF got, yes
  <2>3. Gets(Call(k, "capget", yes, k), got, r)
    BY <1>1, <1>3, <2>1, <2>2, CallGets
  <2>4. QED  BY <2>3 DEF yes
<1>7. next => got
  OBVIOUS
<1>8. Capset(k, eff, perm, inh) = Call(j, "capset", can, after)
  BY DEF Capset, can, after
<1> HIDE DEF got, j
<1>9. Gets(Call(j, "capset", can, after), next, s)
  BY <1>3, <1>5, <1>6, <1>7, CallGets
<1>10. QED  BY <1>8, <1>9 DEF s, Creds, none

\* What apply_caps needs of the sets asked for.
CanHold(asked, bnd) ==
    /\ asked.permitted \cup asked.effective \cup asked.inheritable \subseteq Caps
    /\ asked.effective \subseteq asked.permitted /\ asked.ambient \subseteq asked.permitted \cap asked.inheritable
    /\ asked.inheritable \subseteq bnd
    /\ "SETPCAP" \notin asked.effective => asked.inheritable \subseteq asked.permitted

LEMMA CapsNeed ==
    ASSUME NEW uid, NEW gid, NEW groups, NEW eff0, NEW perm0, NEW bnd, NEW filter, NEW asked, NEW k,
           k = Creds(uid, gid, groups, eff0, perm0, {}, {}, bnd, No, filter)
    PROVE  apply_caps(k, asked).ok <=>
               /\ Lets(filter, "capget") /\ Lets(filter, "capset") /\ Lets(filter, "prctl")
               /\ CanHold(asked, bnd) /\ asked.permitted \subseteq perm0
<1> DEFINE known == /\ \A s \in {asked.permitted, asked.effective, asked.inheritable, asked.ambient} : parse_ok(s)
                    /\ asked.effective \subseteq asked.permitted
           k1 == Call(k, "capget", known, k)
           k2 == Capset(k1, asked.effective, k1.perm, k1.inh)
           k3 == Capset(k2, k2.eff, asked.permitted, k2.inh)
           k4 == Capset(k3, k3.eff, k3.perm, asked.inheritable)
           k5 == Call(k4, "prctl", TRUE, [k4 EXCEPT !.amb = {}])
           fits == asked.ambient \subseteq asked.permitted \cap asked.inheritable
           k6 == Call(k5, "prctl", fits, [k5 EXCEPT !.amb = asked.ambient])
           R(eff, perm, inh, amb) == Creds(uid, gid, groups, eff, perm, inh, amb, bnd, No, filter)
           c1 == Lets(filter, "capget") /\ known
           c2 == c1 /\ Lets(filter, "capset") /\ asked.effective \subseteq perm0
           c3 == c2 /\ asked.permitted \subseteq perm0
           c4 == /\ c3 /\ asked.inheritable \subseteq bnd
                 /\ "SETPCAP" \notin asked.effective => asked.inheritable \subseteq asked.permitted
           c5 == c4 /\ Lets(filter, "prctl")
           c6 == c5 /\ fits
           r0 == R(eff0, perm0, {}, {})
           r2 == R(asked.effective, perm0, {}, {})
           r3 == R(asked.effective, asked.permitted, {}, {})
           r4 == R(asked.effective, asked.permitted, asked.inheritable, {})
           r6 == R(asked.effective, asked.permitted, asked.inheritable, asked.ambient)
<1>1. k6 = apply_caps(k, asked)
  BY DEF apply_caps
<1>2. known => asked.permitted \subseteq Caps /\ asked.effective \subseteq Caps /\ asked.effective \subseteq asked.permitted
  BY DEF parse_ok
<1>3. \A eff, perm, inh, amb :
          /\ Whole(R(eff, perm, inh, amb))
          /\ \A call : Allows(R(eff, perm, inh, amb), call) <=> Lets(filter, call)
          /\ R(eff, perm, inh, amb).eff = eff /\ R(eff, perm, inh, amb).perm = perm
          /\ R(eff, perm, inh, amb).inh = inh
  BY RecordWhole, RecordAllows DEF Creds
<1>4. Gets(k1, c1, r0)
  <2>1. Gets(k, TRUE, r0) /\ Whole(r0) /\ k = r0
    BY <1>3 DEF Gets
  <2>2. c1 <=> Allows(r0, "capget") /\ known
    BY <1>3
  <2> HIDE DEF known, r0, R
  <2>3. QED  BY <2>1, <2>2, CallGets
<1> HIDE DEF k1
<1>5. Gets(k2, c2, r2)
  <2>1. CASE c1
    <3>1. k1 = r0 /\ k1.perm = perm0 /\ k1.inh = {}
      BY <1>3, <1>4, <2>1 DEF Gets
    <3>2. Gets(Capset(k1, asked.effective, perm0, {}), c2, r2)
      <4>1. Lets(filter, "capget") /\ (c2 <=> Lets(filter, "capset") /\ asked.effective \subseteq perm0)
        BY <2>1
      <4> HIDE DEF c1, c2
      <4>2. QED  BY <1>4, <2>1, <4>1, CapsetGets
    <3>3. QED  BY <3>1, <3>2
  <2>2. CASE ~c1
    <3>1. Failed(k2)
      BY <1>4, <2>2, CapsetFails DEF Gets
    <3>2. QED  BY <2>2, <3>1 DEF Gets
  <2>3. QED  BY <2>1, <2>2
<1> HIDE DEF k2
<1>6. Gets(k3, c3, r3)
  <2>1. CASE c2
    <3>1. k2 = r2 /\ k2.eff = asked.effective /\ k2.inh = {}
      BY <1>3, <1>5, <2>1 DEF Gets
    <3>2. Gets(Capset(k2, asked.effective, asked.permitted, {}), c3, r3)
      <4>1. /\ Lets(filter, "capget") /\ Lets(filter, "capset") /\ asked.effective \subseteq asked.permitted
            /\ c3 <=> asked.permitted \subseteq perm0
        BY <1>2, <2>1
      <4> HIDE DEF c2, c3
      <4>2. QED  BY <1>5, <2>1, <4>1, CapsetGets
    <3>3. QED  BY <3>1, <3>2
  <2>2. CASE ~c2
    <3>1. Failed(k3)
      BY <1>5, <2>2, CapsetFails DEF Gets
    <3>2. QED  BY <2>2, <3>1 DEF Gets
  <2>3. QED  BY <2>1, <2>2
<1> HIDE DEF k3
<1>7. Gets(k4, c4, r4)
  <2>1. CASE c3
    <3>1. k3 = r3 /\ k3.eff = asked.effective /\ k3.perm = asked.permitted
      BY <1>3, <1>6, <2>1 DEF Gets
    <3>2. Gets(Capset(k3, asked.effective, asked.permitted, asked.inheritable), c4, r4)
      <4>1. /\ Lets(filter, "capget") /\ Lets(filter, "capset") /\ asked.effective \subseteq asked.permitted
            /\ c4 <=> /\ asked.inheritable \subseteq bnd
                      /\ "SETPCAP" \notin asked.effective => asked.inheritable \subseteq asked.permitted
        BY <1>2, <2>1
      <4> HIDE DEF c3, c4
      <4>2. QED  BY <1>6, <2>1, <4>1, CapsetGets
    <3>3. QED  BY <3>1, <3>2
  <2>2. CASE ~c3
    <3>1. Failed(k4)
      BY <1>6, <2>2, CapsetFails DEF Gets
    <3>2. QED  BY <2>2, <3>1 DEF Gets
  <2>3. QED  BY <2>1, <2>2
<1> HIDE DEF k4
<1>8. Gets(k5, c5, r4)
  <2> DEFINE after == [k4 EXCEPT !.amb = {}]
             can == TRUE
  <2>1. c4 => after = r4
    <3>1. c4 => k4 = r4
      BY <1>7 DEF Gets
    <3>2. [r4 EXCEPT !.amb = {}] = r4
      BY DEF Creds, Record
    <3>3. QED  BY <3>1, <3>2
  <2>2. Allows(r4, "prctl") <=> Lets(filter, "prctl")
    BY <1>3
  <2> HIDE DEF after, r4, c4
  <2>3. c4 => (c5 <=> Allows(r4, "prctl") /\ can) /\ after = r4
    BY <2>1, <2>2
  <2>4. Whole(r4) /\ (c5 => c4)
    BY <1>3 DEF r4
  <2> HIDE DEF c5, can
  <2>5. Gets(Call(k4, "prctl", can, after), c5, r4)
    BY <1>7, <2>3, <2>4, CallGets
  <2>6. QED  BY <2>5 DEF after, can
<1> HIDE DEF k5
<1>9. Gets(k6, c6, r6)
  <2> DEFINE after == [k5 EXCEPT !.amb = asked.ambient]
  <2>1. c5 => after = r6
    <3>1. c5 => k5 = r4
      BY <1>8 DEF Gets
    <3>2. [r4 EXCEPT !.amb = asked.ambient] = r6
      BY DEF Creds, Record
    <3>3. QED  BY <3>1, <3>2
  <2>2. Allows(r4, "prctl") <=> Lets(filter, "prctl")
    BY <1>3
  <2> HIDE DEF after, r4, r6, c4, fits
  <2>3. c5 => (c6 <=> Allows(r4, "prctl") /\ fits) /\ after = r6
    BY <2>1, <2>2
  <2>4. Whole(r4) /\ (c6 => c5)
    BY <1>3 DEF r4
  <2> HIDE DEF c5, c6
  <2>5. Gets(Call(k5, "prctl", fits, after), c6, r6)
    BY <1>8, <2>3, <2>4, CallGets
  <2>6. QED  BY <2>5 DEF after
<1>10. k6.ok <=> c6
  <2>1. Whole(r6)
    BY <1>3
  <2> HIDE DEF k6, c6, r6
  <2>2. QED  BY <1>9, <2>1, GetsOk
<1>11. c6 <=> /\ Lets(filter, "capget") /\ Lets(filter, "capset") /\ Lets(filter, "prctl")
              /\ CanHold(asked, bnd) /\ asked.permitted \subseteq perm0
  BY DEF CanHold, parse_ok
<1>12. QED  BY <1>1, <1>10, <1>11

-----------------------------------------------------------------------------
(***************************************************************************)
(* The credentials, exactly, up to the user's.                             *)
(***************************************************************************)
\* The id of root before it is given up: 0 unless it is in a user namespace that was joined.
RootId == IF UserAsked \in {"absent", ""} THEN 0 ELSE OverflowId

ExactRoot(k, filter, bnd) ==
    k = Creds(RootId, RootId, {"host"}, Caps, Caps, {}, {}, bnd, No, filter)

Outer == {"load", "plan", "cgroup", "apply", "spawn", "join", "unshare", "map"}

Exact ==
    /\ pc \in Outer => cred = IF HostUser THEN Root ELSE EnterUserNamespace(Root)
    /\ pc = "map" => UserAsked = ""
    /\ pc \in Before \ Outer => ExactRoot(cred, <<>>, Caps)
    /\ pc = "bounding" => ExactRoot(cred, Early, Caps)
    /\ pc = "user" => ExactRoot(cred, Early, Bounding)
    /\ pc = "caps" => cred.perm = PermLeft(RootId, b.uid, Early)

CInv == OInv /\ PInv /\ Exact

LEMMA ExactIs ==
    /\ UserAsked \in {"absent", ""} => ExactRoot(Root, <<>>, Caps)
    /\ UserAsked \notin {"absent", ""} => ExactRoot(EnterUserNamespace(Root), <<>>, Caps)
    /\ EnterUserNamespace(EnterUserNamespace(Root)) = EnterUserNamespace(Root)
<1> DEFINE start == Root.groups
           empty == Root.filter
           R(uid, gid) == Creds(uid, gid, start, Caps, Caps, {}, {}, Caps, No, empty)
<1>1. start = {"host"} /\ empty = <<>>
  BY DEF Root
<1>2. R(0, 0) = Root
  BY <1>1 DEF Root, Creds, Record, Yes, No
<1>3. R(OverflowId, OverflowId) = EnterUserNamespace(Root)
  <2>1. PICK uid, gid \in {0, OverflowId} : EnterUserNamespace(Root) = R(uid, gid)
    BY <1>1, FreshCreds DEF Fresh
  <2>2. EnterUserNamespace(Root).uid = OverflowId /\ EnterUserNamespace(Root).gid = OverflowId
    BY DEF EnterUserNamespace, Root
  <2>3. R(uid, gid).uid = uid /\ R(uid, gid).gid = gid
    BY DEF Creds, Record
  <2> HIDE DEF R
  <2>4. QED  BY <2>1, <2>2, <2>3
<1>4. EnterUserNamespace(EnterUserNamespace(Root)) = EnterUserNamespace(Root)
  BY DEF EnterUserNamespace, Root
<1> HIDE DEF start, empty
<1>5. QED  BY <1>1, <1>2, <1>3, <1>4 DEF ExactRoot, RootId

\* The user namespace is the process's own after the last step outside, and then it is mapped.
LEMMA ExactNamespace == ASSUME CInv, JoinExisting \/ Unshare \/ MapIds PROVE Exact'
<1> DEFINE entered == EnterUserNamespace(Root)
           now == IF HostUser THEN Root ELSE entered
<1>1. /\ pc \in {"join", "unshare", "map"} /\ b' = b /\ NsTyped /\ b \in Bundles /\ spec(b)
      /\ cred = now /\ cred \in Fresh
      /\ RootId' = RootId /\ namespace_types(b)
  BY DEF CInv, OInv, NInv, PInv, Exact, Outer, Before, Inside, JoinExisting, Unshare, MapIds, RootId, UserAsked, spec
<1>2. EnterUserNamespace(now) = entered
  BY ExactIs
<1> HIDE DEF entered
<1>3. CASE JoinExisting
  <2>1. /\ pc' \in {"join", "unshare", "failed"}
        /\ \/ ns' = ns /\ cred' = cred
           \/ \E k \in ToJoin :
                 /\ ns' = [ns EXCEPT !.how[k] = "joined", !.owner[k] = OwnerOf(k)]
                 /\ cred' = IF k = "user" THEN EnterUserNamespace(cred) ELSE cred
    BY <1>3 DEF JoinExisting, Go
  <2>2. CASE ns' = ns /\ cred' = cred
    BY <1>1, <2>1, <2>2 DEF Exact, Outer, Before, HostUser, entered
  <2>3. ASSUME NEW k \in ToJoin, ns' = [ns EXCEPT !.how[k] = "joined", !.owner[k] = OwnerOf(k)],
               cred' = IF k = "user" THEN EnterUserNamespace(cred) ELSE cred
        PROVE  cred' = IF HostUser' THEN Root ELSE entered
    <3>1. ns'.how = [ns.how EXCEPT ![k] = "joined"] /\ k \in Kind
      BY <1>1, <2>3 DEF NsTyped, ToJoin, layout_join
    <3>2. HostUser' <=> HostUser /\ k # "user"
      BY <1>1, <3>1 DEF NsTyped, HostUser, Kind
    <3>3. QED  BY <1>1, <1>2, <2>3, <3>2
  <2>4. QED  BY <2>1, <2>2, <2>3 DEF Exact, Outer, Before, entered
<1>4. CASE Unshare
  <2>1. CASE ToUnshare = {} /\ ns' = ns /\ cred' = cred /\ pc' = IF "user" \in unshare_flags(b) THEN "map" ELSE "attach"
    <3>1. "user" \in unshare_flags(b) <=> UserAsked = ""
      BY <1>1, KindsAre DEF unshare_flags, without, UserAsked, Kind
    <3>2. ns.how["user"] = "joined" <=> UserAsked \notin {"", "absent"}
      BY <1>1, <1>4, KindsAre DEF CInv, OInv, NInv, Unsharing, Unshare, UserAsked, Kind
    <3>3. UserAsked = "" => ns.how["user"] = "new"
      BY <2>1, <3>1 DEF ToUnshare, UserAsked, Kind
    <3>4. ns.how["user"] = "new" => UserAsked = ""
      BY <1>4, <3>1 DEF CInv, OInv, NInv, Unsharing, Unshare, Kind
    <3>5. ns.how["user"] \in Whose
      BY <1>1 DEF NsTyped, Kind
    <3>6. CASE UserAsked = ""
      <4>1. cred = entered /\ pc' = "map" /\ ~HostUser' /\ UserAsked' = ""
        BY <1>1, <2>1, <3>1, <3>3, <3>6 DEF HostUser, UserAsked
      <4>2. QED  BY <2>1, <4>1 DEF Exact, Outer, Before, entered
    <3>7. CASE UserAsked = "absent"
      <4>1. HostUser /\ pc' = "attach"
        BY <2>1, <3>1, <3>2, <3>4, <3>5, <3>7 DEF HostUser, Whose
      <4>2. ExactRoot(Root, <<>>, Caps)
        BY <3>7, ExactIs
      <4>3. QED  BY <1>1, <2>1, <4>1, <4>2 DEF Exact, Outer, Before, ExactRoot
    <3>8. CASE UserAsked \notin {"", "absent"}
      <4>1. ~HostUser /\ pc' = "attach"
        BY <2>1, <3>1, <3>2, <3>8 DEF HostUser
      <4>2. ExactRoot(entered, <<>>, Caps)
        BY <3>8, ExactIs DEF entered
      <4>3. QED  BY <1>1, <2>1, <4>1, <4>2 DEF Exact, Outer, Before, ExactRoot
    <3>9. QED  BY <3>6, <3>7, <3>8
  <2>2. ASSUME NEW k \in ToUnshare, pc' = pc, cred' = IF k = "user" THEN EnterUserNamespace(cred) ELSE cred,
               ns' = [ns EXCEPT !.how[k] = "new", !.owner[k] = ns.how["user"],
                                !.offsets = @ \/ (k = "time" /\ b.timeOffsets)]
        PROVE  Exact'
    <3>1. ns'.how = [ns.how EXCEPT ![k] = "new"] /\ k \in Kind
      BY <1>1, <2>2, CreatedAreKinds DEF NsTyped, ToUnshare, unshare_flags, without
    <3>2. HostUser' <=> HostUser /\ k # "user"
      BY <1>1, <3>1 DEF NsTyped, HostUser, Kind
    <3>3. cred' = IF HostUser' THEN Root ELSE entered
      BY <1>1, <1>2, <2>2, <3>2
    <3>4. pc' = "unshare"
      BY <1>4, <2>2 DEF Unshare
    <3>5. QED  BY <3>3, <3>4 DEF Exact, Outer, Before, entered
  <2>3. CASE \E k \in ToUnshare :
                /\ ns' = [ns EXCEPT !.how[k] = "new", !.owner[k] = ns.how["user"],
                                    !.offsets = @ \/ (k = "time" /\ b.timeOffsets)]
                /\ cred' = IF k = "user" THEN EnterUserNamespace(cred) ELSE cred
                /\ pc' = pc
    BY <2>2, <2>3
  <2>4. QED  BY <1>4, <2>1, <2>3 DEF Unshare
<1>5. CASE MapIds
  <2>1. CASE pc' = "failed"
    BY <2>1 DEF Exact, Outer, Before
  <2>2. CASE pc' # "failed"
    <3>1. cred' = become_root_in_namespace(cred) /\ pc' = "attach" /\ cred'.ok
      BY <1>5, <2>2 DEF MapIds, Go
    <3>2. cred' = Root
      BY <1>1, <3>1, Becomes
    <3>3. UserAsked = ""
      BY <1>5 DEF CInv, Exact, MapIds
    <3>4. ExactRoot(Root, <<>>, Caps)
      BY <3>3, ExactIs
    <3>5. QED  BY <1>1, <3>1, <3>2, <3>4 DEF Exact, Outer, Before, ExactRoot
  <2>3. QED  BY <2>1, <2>2
<1>6. QED  BY <1>3, <1>4, <1>5

LEMMA InitExact == Init => Exact
  BY DEF Init, Exact, Outer, Before, HostUser, Kind

\* The steps that leave credentials and namespaces as they are.
LEMMA ExactStays ==
    ASSUME Exact, UNCHANGED <<b, cred>>, pc \in Before, pc' \in Before \cup {"failed"}, pc' # "map",
           pc \in Outer /\ pc' # "failed" => pc' \in Outer /\ ns' = ns, pc \notin Outer => pc' \notin Outer
    PROVE  Exact'
<1>1. CASE pc' = "failed"
  BY <1>1 DEF Exact, Outer, Before
<1>2. CASE pc' # "failed" /\ pc \in Outer
  BY <1>2 DEF Exact, Outer, Before, HostUser
<1>3. CASE pc' # "failed" /\ pc \notin Outer
  BY <1>3 DEF Exact, Outer, Before, ExactRoot, RootId, UserAsked
<1>4. QED  BY <1>1, <1>2, <1>3

LEMMA ExactBefore ==
    ASSUME Exact, \/ LoadBundle \/ Plan \/ CreateCgroup \/ ApplyResources \/ Spawn
                  \/ Attach \/ UnshareCgroup
                  \/ MountRoot \/ ApplyMounts \/ CreateNodes \/ CreateLinks \/ CreateDevices \/ PivotRoot
                  \/ SetupConsole \/ SetIdentity \/ ApplySysctl
                  \/ MaskPaths \/ ReadonlyPaths \/ RemountReadonly \/ ReadonlyRootfs \/ ApplyLimits
    PROVE  Exact'
<1>1. CASE LoadBundle \/ Plan \/ CreateCgroup \/ ApplyResources \/ Spawn
  <2>1. /\ UNCHANGED <<b, cred, ns>> /\ pc \in {"load", "plan", "cgroup", "apply", "spawn"}
        /\ pc' \in {"plan", "cgroup", "apply", "spawn", "join", "failed"}
    BY <1>1 DEF LoadBundle, Plan, CreateCgroup, ApplyResources, Spawn, Go
  <2>2. QED  BY <2>1, ExactStays DEF Before, Outer
<1> DEFINE Rest == Before \ Outer
<1>2. ASSUME UNCHANGED <<b, cred>>, pc \in Rest, pc' \in Rest \cup {"failed"} PROVE Exact'
  <2>1. pc \in Before /\ pc \notin Outer /\ pc' \in Before \cup {"failed"} /\ pc' \notin Outer /\ pc' # "map"
    BY <1>2 DEF Outer
  <2>2. QED  BY <1>2, <2>1, ExactStays
<1>3. CASE Attach \/ UnshareCgroup \/ MountRoot \/ PivotRoot \/ SetupConsole \/ SetIdentity
  <2>1. UNCHANGED <<b, cred>> /\ pc \in Rest /\ pc' \in Rest \cup {"failed"}
    BY <1>3 DEF Attach, UnshareCgroup, MountRoot, PivotRoot, SetupConsole, SetIdentity, Go, Before, Outer
  <2>2. QED  BY <1>2, <2>1
<1>4. CASE ApplySysctl \/ ReadonlyRootfs \/ ApplyLimits
  <2>1. UNCHANGED <<b, cred>> /\ pc \in Rest /\ pc' \in Rest \cup {"failed"}
    BY <1>4 DEF ApplySysctl, ReadonlyRootfs, ApplyLimits, Go, Before, Outer
  <2>2. QED  BY <1>2, <2>1
<1>5. CASE \/ ApplyMounts \/ CreateNodes \/ CreateLinks \/ CreateDevices
           \/ MaskPaths \/ ReadonlyPaths \/ RemountReadonly
  <2>1. UNCHANGED <<b, cred>> /\ pc \in Rest /\ pc' \in Rest \cup {"failed"}
    BY <1>5 DEF ApplyMounts, CreateNodes, CreateLinks, CreateDevices, MaskPaths, ReadonlyPaths, RemountReadonly,
       Each, Go, Before, Outer
  <2>2. QED  BY <1>2, <2>1
<1>6. QED  BY <1>1, <1>3, <1>4, <1>5

LEMMA ExactFilter == ASSUME CInv, FilterEarly PROVE Exact'
<1> DEFINE asked == Given(b.seccomp) /\ ~b.noNewPrivileges
           k == IF asked THEN apply_seccomp(cred, b.seccomp) ELSE cred
<1>1. pc = "filter" /\ cred' = k /\ b' = b /\ pc' = IF k.ok THEN "bounding" ELSE "failed"
  BY DEF FilterEarly, Privilege, Go
<1>2. ExactRoot(cred, <<>>, Caps)
  BY <1>1 DEF CInv, Exact, Outer, Before
<1>3. CASE ~k.ok
  BY <1>1, <1>3 DEF Exact, Outer, Before
<1>4. CASE k.ok
  <2>1. ExactRoot(k, Early, Caps)
    <3>1. CASE asked
      <4>1. apply_seccomp(cred, b.seccomp).ok /\ k = apply_seccomp(cred, b.seccomp) /\ Early = <<build(b.seccomp)>>
        BY <1>4, <3>1 DEF Early
      <4>2. QED  BY <1>2, <4>1, FilterSet DEF ExactRoot
    <3>2. CASE ~asked
      BY <1>2, <3>2 DEF Early
    <3>3. QED  BY <3>1, <3>2
  <2>2. ExactRoot(cred, Early, Caps)'
    BY <1>1, <2>1, AskedStays DEF ExactRoot, RootId, UserAsked
  <2>3. QED  BY <1>1, <1>4, <2>2 DEF Exact, Outer, Before
<1>5. QED  BY <1>3, <1>4

LEMMA ExactBounding == ASSUME CInv, DropBounding PROVE Exact'
<1> DEFINE k == IF Given(b.capabilities) THEN drop_bounding(cred, b.capabilities) ELSE cred
<1>1. pc = "bounding" /\ cred' = k /\ b' = b /\ pc' = IF k.ok THEN "user" ELSE "failed"
  BY DEF DropBounding, Privilege, Go
<1>2. ExactRoot(cred, Early, Caps)
  BY <1>1 DEF CInv, Exact
<1>3. CASE ~k.ok
  BY <1>1, <1>3 DEF Exact, Outer, Before
<1>4. CASE k.ok
  <2>1. ExactRoot(k, Early, Bounding)
    <3>1. CASE Given(b.capabilities)
      <4> DEFINE groups == {"host"}
                 none == {}
      <4>1. cred = Creds(RootId, RootId, groups, Caps, Caps, none, none, Caps, No, Early)
        BY <1>2 DEF ExactRoot
      <4>2. Shape(cred) /\ cred.bnd = Caps /\ Bounding = b.capabilities.bounding
        BY <4>1, <3>1 DEF Shape, Creds, Record, Bounding
      <4>3. k = [cred EXCEPT !.bnd = Bounding]
        BY <1>4, <3>1, <4>2, BoundingDropped
      <4> HIDE DEF groups, none, k
      <4>4. k = Creds(RootId, RootId, groups, Caps, Caps, none, none, Bounding, No, Early)
        BY <4>1, <4>3 DEF Creds, Record
      <4>5. QED  BY <4>4 DEF groups, none, ExactRoot
    <3>2. CASE ~Given(b.capabilities)
      BY <1>2, <3>2 DEF Bounding
    <3>3. QED  BY <3>1, <3>2
  <2>2. ExactRoot(cred, Early, Bounding)'
    BY <1>1, <2>1, AskedStays DEF ExactRoot, RootId, UserAsked
  <2>3. QED  BY <1>1, <1>4, <2>2 DEF Exact, Outer, Before
<1>5. QED  BY <1>3, <1>4

LEMMA ExactUser == ASSUME CInv, DropPrivileges PROVE Exact'
<1> DEFINE k == drop_privileges(cred, b.uid, b.gid, b.groups)
<1>1. pc = "user" /\ cred' = k /\ b' = b /\ pc' = IF k.ok THEN "caps" ELSE "failed"
  BY DEF DropPrivileges, Privilege, Go
<1>2. cred = Creds(RootId, RootId, {"host"}, Caps, Caps, {}, {}, Bounding, No, Early)
  BY <1>1 DEF CInv, Exact, ExactRoot
<1>3. k.ok => k.perm = PermLeft(RootId, b.uid, Early)
  <2>1. RootId \in {0, OverflowId}
    BY DEF RootId
  <2>2. QED  BY <1>2, <2>1, UserNeeds
<1> HIDE DEF k
<1>4. PermLeft(RootId, b.uid, Early)' = PermLeft(RootId, b.uid, Early)
  BY <1>1, AskedStays DEF PermLeft, RootId, UserAsked, Lets
<1>5. QED  BY <1>1, <1>3, <1>4 DEF Exact, Outer, Before

LEMMA NextCInv == CInv /\ [Next]_vars => CInv'
<1> SUFFICES ASSUME CInv, [Next]_vars PROVE CInv'
  OBVIOUS
<1>1. OInv' /\ PInv'
  BY NextOInv, NextPInv DEF CInv
<1>2. CASE UNCHANGED vars
  BY <1>1, <1>2, AskedStays DEF vars, CInv, Exact, ExactRoot, RootId, UserAsked, HostUser, PermLeft, Lets
<1>3. CASE ApplyCapabilities \/ NoNewPrivs \/ FilterLate \/ Ready \/ Park \/ Exec \/ Starved \/ Overflow
  <2>1. pc' \in {"nnp", "late", "ready", "park", "parked", "running", "lost", "failed"}
    BY <1>3 DEF ApplyCapabilities, NoNewPrivs, FilterLate, Ready, Park, Exec, Starved, Overflow, Privilege, Go
  <2>2. QED  BY <1>1, <2>1 DEF CInv, Exact, Outer, Before
<1>4. CASE ~UNCHANGED vars /\ ~(\/ ApplyCapabilities \/ NoNewPrivs \/ FilterLate \/ Ready \/ Park \/ Exec
                               \/ Starved \/ Overflow)
  <2>1. Exact'
    BY <1>4, ExactBefore, ExactNamespace, ExactFilter, ExactBounding, ExactUser DEF Next, CInv
  <2>2. QED  BY <1>1, <2>1 DEF CInv
<1>5. QED  BY <1>2, <1>3, <1>4

-----------------------------------------------------------------------------
(***************************************************************************)
(* Which privileges and which filter are refused.                          *)
(***************************************************************************)
\* What the calls so far have needed.
Passed ==
    LET c == b.capabilities
    IN  /\ pc \in {"bounding", "user", "caps", "nnp", "late", "ready", "park", "parked", "running"} =>
              (Given(b.seccomp) /\ ~b.noNewPrivileges => build_ok(b.seccomp))
        /\ pc \in {"user", "caps", "nnp", "late", "ready", "park", "parked", "running"} =>
              (Given(c) => parse_ok(c.bounding) /\ Lets(Early, "prctl"))
        /\ pc \in {"caps", "nnp", "late", "ready", "park", "parked", "running"} =>
              /\ Survives(Early, "geteuid")
              /\ Lets(Early, "setgroups") /\ Lets(Early, "setgid") /\ Lets(Early, "setuid")
              /\ RootId = 0 /\ b.uid # 0 /\ Lets(Early, "geteuid") => Lets(Early, "prctl")
        /\ pc \in {"nnp", "late", "ready", "park", "parked", "running"} =>
              (Given(c) => /\ Lets(Early, "capget") /\ Lets(Early, "capset") /\ CanHold(c, Bounding)
                           /\ c.permitted \subseteq PermLeft(RootId, b.uid, Early))
        /\ pc \in {"ready", "park", "parked", "running"} => (Given(b.seccomp) => build_ok(b.seccomp))
        /\ pc \in {"park", "parked", "running"} => Lets(Final, "write")
        /\ pc \in {"parked", "running"} => Lets(Final, "openat") /\ Survives(Final, "close")
        /\ pc = "running" => Lets(Final, "rt_sigprocmask") /\ Lets(Final, "execve")

LEMMA LetsIs ==
    ASSUME NEW call
    PROVE  /\ Lets(Early, call) <=> (Given(b.seccomp) /\ ~b.noNewPrivileges => build(b.seccomp)[call] = "allow")
           /\ Lets(Final, call) <=> (Given(b.seccomp) => build(b.seccomp)[call] = "allow")
           /\ Survives(Early, call) <=> (Given(b.seccomp) /\ ~b.noNewPrivileges => build(b.seccomp)[call] # "kill")
           /\ Survives(Final, call) <=> (Given(b.seccomp) => build(b.seccomp)[call] # "kill")
<1> DEFINE filter == build(b.seccomp)
<1> HIDE DEF filter
<1>1. <<filter>> # <<>> /\ <<filter>>[1] = filter
  OBVIOUS
<1>2. (Lets(<<filter>>, call) <=> filter[call] = "allow") /\ (Survives(<<filter>>, call) <=> filter[call] # "kill")
  BY <1>1 DEF Lets, Survives
<1>3. Lets(<<>>, call) /\ Survives(<<>>, call)
  BY DEF Lets, Survives
<1>4. QED  BY <1>2, <1>3 DEF Early, Final, filter

LEMMA RootIdIs == (RootId = 0) <=> (UserAsked \in {"absent", ""})
<1>1. OverflowId # 0
  BY DEF OverflowId
<1>2. QED  BY <1>1 DEF RootId

\* A filter that is in the way of a step is one that FilterRefused speaks of.
LEMMA FilterStops ==
    /\ Given(b.seccomp) /\ ~build_ok(b.seccomp) => FilterRefused
    /\ \A call \in {"setgroups", "setgid", "setuid"} : ~Lets(Early, call) => FilterRefused
    /\ \A call \in {"prctl", "capget", "capset"} : Given(b.capabilities) /\ ~Lets(Early, call) => FilterRefused
    /\ RootId = 0 /\ b.uid # 0 /\ Lets(Early, "geteuid") /\ ~Lets(Early, "prctl") => FilterRefused
    /\ ~Lets(Final, "write") => FilterRefused
    /\ ~Survives(Early, "geteuid") => FilterRefused
    /\ Given(b.capabilities) /\ b.capabilities.permitted \subseteq Caps
          /\ ~(b.capabilities.permitted \subseteq PermLeft(RootId, b.uid, Early)) => FilterRefused
<1>1. \A call \in Filtered : ~Lets(Early, call) => FilterRefused
  BY LetsIs DEF FilterRefused
<1>2. ~b.noNewPrivileges =>
         /\ {"setgroups", "setgid", "setuid"} \subseteq Filtered
         /\ Given(b.capabilities) => {"prctl", "capget", "capset"} \subseteq Filtered
         /\ KeepsCaps => "prctl" \in Filtered
  BY DEF Filtered
<1>3. \A call : ~Lets(Early, call) => ~b.noNewPrivileges
  BY LetsIs
<1>4. \A call \in {"setgroups", "setgid", "setuid"} : ~Lets(Early, call) => FilterRefused
  BY <1>1, <1>2, <1>3
<1>5. \A call \in {"prctl", "capget", "capset"} : Given(b.capabilities) /\ ~Lets(Early, call) => FilterRefused
  BY <1>1, <1>2, <1>3
<1>6. RootId = 0 /\ b.uid # 0 /\ Lets(Early, "geteuid") /\ ~Lets(Early, "prctl") => FilterRefused
  <2>1. ~Lets(Early, "prctl") /\ Lets(Early, "geteuid") => build(b.seccomp)["geteuid"] = "allow"
    BY LetsIs
  <2>2. QED  BY <1>1, <1>2, <1>3, <2>1, RootIdIs DEF KeepsCaps, LeavesRoot
<1>7. ~Lets(Final, "write") => FilterRefused
  BY LetsIs DEF FilterRefused, Filtered
<1>8. ~Survives(Early, "geteuid") => FilterRefused
  BY LetsIs DEF FilterRefused, Untold
<1>9. ASSUME Given(b.capabilities), b.capabilities.permitted \subseteq Caps,
             ~(b.capabilities.permitted \subseteq PermLeft(RootId, b.uid, Early))
      PROVE  FilterRefused
  <2>1. RootId = 0 /\ b.uid # 0 /\ ~Lets(Early, "geteuid") /\ b.capabilities.permitted # {}
    BY <1>9 DEF PermLeft
  <2>2. Given(b.seccomp) /\ ~b.noNewPrivileges /\ build(b.seccomp)["geteuid"] # "allow"
    BY <2>1, LetsIs
  <2>3. QED  BY <1>9, <2>1, <2>2, RootIdIs DEF FilterRefused, Untold, KeepsCaps, LeavesRoot
<1>10. QED  BY <1>4, <1>5, <1>6, <1>7, <1>8, <1>9 DEF FilterRefused

\* A program that runs has passed all of them.
LEMMA PassedAll ==
    ASSUME Passed, pc = "running"
    PROVE  /\ ~CapabilitiesRefused /\ ~FilterRefused
           /\ Given(b.seccomp) =>
                 /\ \A call \in {"openat", "rt_sigprocmask", "execve"} : build(b.seccomp)[call] = "allow"
                 /\ build(b.seccomp)["close"] # "kill"
<1>1. ~CapabilitiesRefused
  <2>1. SUFFICES ASSUME Given(b.capabilities) PROVE ~CapabilitiesRefused
    BY DEF CapabilitiesRefused
  <2>2. parse_ok(b.capabilities.bounding) /\ CanHold(b.capabilities, b.capabilities.bounding)
    BY <2>1 DEF Passed, Bounding
  <2>3. QED  BY <2>2 DEF CapabilitiesRefused, CanHold, parse_ok
<1>2. ASSUME NEW call \in Filtered PROVE Lets(Final, call)
  <2>1. CASE call = "write"
    BY <2>1 DEF Passed
  <2>2. CASE call # "write"
    <3>1. ~b.noNewPrivileges /\ (Lets(Early, call) <=> Lets(Final, call))
      BY <2>2, LetsIs DEF Filtered
    <3>2. KeepsCaps => RootId = 0 /\ b.uid # 0 /\ Lets(Early, "geteuid")
      BY LetsIs, RootIdIs DEF KeepsCaps, LeavesRoot
    <3>3. Lets(Early, call)
      BY <1>2, <2>2, <3>2 DEF Filtered, Passed
    <3>4. QED  BY <3>1, <3>3
  <2>3. QED  BY <2>1, <2>2
<1>3. Given(b.seccomp) => ~Untold
  <2>1. SUFFICES ASSUME Given(b.seccomp), ~b.noNewPrivileges PROVE ~Untold
    BY DEF Untold
  <2>2. build(b.seccomp)["geteuid"] # "kill"
    BY <2>1, LetsIs DEF Passed
  <2>3. ASSUME LeavesRoot, ~KeepsCaps, Given(b.capabilities)
        PROVE  b.capabilities.permitted \cup b.capabilities.inheritable = {}
    <3>1. ~Lets(Early, "geteuid") /\ RootId = 0 /\ b.uid # 0
      BY <2>1, <2>3, LetsIs, RootIdIs DEF KeepsCaps, LeavesRoot
    <3>2. b.capabilities.permitted = {} /\ CanHold(b.capabilities, Bounding)
      BY <2>3, <3>1 DEF Passed, PermLeft
    <3>3. QED  BY <3>2 DEF CanHold
  <2>4. QED  BY <2>2, <2>3 DEF Untold
<1>4. ~FilterRefused
  BY <1>2, <1>3, LetsIs DEF FilterRefused, Passed
<1>5. Given(b.seccomp) =>
         /\ \A call \in {"openat", "rt_sigprocmask", "execve"} : build(b.seccomp)[call] = "allow"
         /\ build(b.seccomp)["close"] # "kill"
  BY LetsIs DEF Passed
<1>6. QED  BY <1>1, <1>4, <1>5

LEMMA PassedStays ==
    ASSUME b' = b
    PROVE  /\ RootId' = RootId /\ Early' = Early /\ Final' = Final /\ Bounding' = Bounding
           /\ PermLeft(RootId, b.uid, Early)' = PermLeft(RootId, b.uid, Early)
           /\ FilterRefused' = FilterRefused /\ CapabilitiesRefused' = CapabilitiesRefused
           /\ FilterStarves' = FilterStarves
<1>1. UserAsked' = UserAsked /\ LeavesRoot' = LeavesRoot /\ KeepsCaps' = KeepsCaps
  BY DEF UserAsked, LeavesRoot, KeepsCaps
<1>2. Filtered' = Filtered /\ Untold' = Untold /\ FilterStarves' = FilterStarves
  BY <1>1 DEF Filtered, Untold, FilterStarves
<1>3. RootId' = RootId /\ Early' = Early /\ Final' = Final /\ Bounding' = Bounding
  BY <1>1, AskedStays DEF RootId
<1>4. PermLeft(RootId, b.uid, Early)' = PermLeft(RootId, b.uid, Early)
  BY <1>3 DEF PermLeft, Lets
<1>5. QED  BY <1>1, <1>2, <1>3, <1>4 DEF FilterRefused, CapabilitiesRefused

\* Nothing is needed before the first filter.
LEMMA PassedEarlier == ASSUME pc' \in Before \cup {"failed", "lost"} PROVE Passed'
  BY DEF Passed, Before

LEMMA FilterEarlyPasses ==
    ASSUME CInv, Passed, FilterEarly PROVE Passed' /\ (pc' = "failed" => FilterRefused)
<1> DEFINE asked == Given(b.seccomp) /\ ~b.noNewPrivileges
           k == IF asked THEN apply_seccomp(cred, b.seccomp) ELSE cred
<1>1. pc = "filter" /\ cred' = k /\ b' = b /\ pc' = IF k.ok THEN "bounding" ELSE "failed"
  BY DEF FilterEarly, Privilege, Go
<1>2. cred = Creds(RootId, RootId, {"host"}, Caps, Caps, {}, {}, Caps, No, <<>>)
  BY <1>1 DEF CInv, Exact, Outer, Before, ExactRoot
<1>3. k.ok <=> (asked => build_ok(b.seccomp))
  <2>1. cred.ok /\ "SYS_ADMIN" \in Caps
    BY <1>2, RecordWhole DEF Creds, Whole, Caps
  <2>2. apply_seccomp(cred, b.seccomp).ok <=> build_ok(b.seccomp)
    BY <1>2, <2>1, FilterNeeds
  <2>3. QED  BY <2>1, <2>2
<1> HIDE DEF k
<1>4. CASE k.ok
  BY <1>1, <1>3, <1>4 DEF Passed
<1>5. CASE ~k.ok
  BY <1>1, <1>3, <1>5, FilterStops, PassedEarlier
<1>6. QED  BY <1>4, <1>5

LEMMA BoundingPasses ==
    ASSUME CInv, Passed, DropBounding PROVE Passed' /\ (pc' = "failed" => FilterRefused \/ CapabilitiesRefused)
<1> DEFINE k == IF Given(b.capabilities) THEN drop_bounding(cred, b.capabilities) ELSE cred
<1>1. pc = "bounding" /\ cred' = k /\ b' = b /\ pc' = IF k.ok THEN "user" ELSE "failed"
  BY DEF DropBounding, Privilege, Go
<1>2. cred = Creds(RootId, RootId, {"host"}, Caps, Caps, {}, {}, Caps, No, Early)
  BY <1>1 DEF CInv, Exact, ExactRoot
<1>3. k.ok <=> (Given(b.capabilities) => Lets(Early, "prctl") /\ parse_ok(b.capabilities.bounding))
  <2>1. cred.ok
    BY <1>2, RecordWhole DEF Creds, Whole
  <2>2. QED  BY <1>2, <2>1, BoundingNeeds
<1> HIDE DEF k
<1>4. CASE k.ok
  BY <1>1, <1>3, <1>4, PassedStays DEF Passed
<1>5. CASE ~k.ok
  <2>1. Given(b.capabilities) /\ ~parse_ok(b.capabilities.bounding) => CapabilitiesRefused
    BY DEF CapabilitiesRefused, parse_ok
  <2>2. QED  BY <1>1, <1>3, <1>5, <2>1, FilterStops, PassedEarlier
<1>6. QED  BY <1>4, <1>5

LEMMA UserPasses ==
    ASSUME CInv, Passed, DropPrivileges PROVE Passed' /\ (pc' = "failed" => FilterRefused)
<1> DEFINE k == drop_privileges(cred, b.uid, b.gid, b.groups)
<1>1. pc = "user" /\ cred' = k /\ b' = b /\ pc' = IF k.ok THEN "caps" ELSE "failed"
  BY DEF DropPrivileges, Privilege, Go
<1>2. cred = Creds(RootId, RootId, {"host"}, Caps, Caps, {}, {}, Bounding, No, Early)
  BY <1>1 DEF CInv, Exact, ExactRoot
<1>3. k.ok <=> /\ Survives(Early, "geteuid")
               /\ Lets(Early, "setgroups") /\ Lets(Early, "setgid") /\ Lets(Early, "setuid")
               /\ RootId = 0 /\ b.uid # 0 /\ Lets(Early, "geteuid") => Lets(Early, "prctl")
  <2>1. RootId \in {0, OverflowId}
    BY DEF RootId
  <2>2. QED  BY <1>2, <2>1, UserNeeds
<1> HIDE DEF k
<1>4. CASE k.ok
  BY <1>1, <1>3, <1>4, PassedStays DEF Passed
<1>5. CASE ~k.ok
  BY <1>1, <1>3, <1>5, FilterStops, PassedEarlier
<1>6. QED  BY <1>4, <1>5

LEMMA CapabilitiesPass ==
    ASSUME CInv, Passed, ApplyCapabilities PROVE Passed' /\ (pc' = "failed" => FilterRefused \/ CapabilitiesRefused)
<1> DEFINE k == IF Given(b.capabilities) THEN apply_caps(cred, b.capabilities) ELSE cred
           c == b.capabilities
           left == PermLeft(RootId, b.uid, Early)
<1>1. pc = "caps" /\ cred' = k /\ b' = b /\ pc' = IF k.ok THEN "nnp" ELSE "failed"
  BY DEF ApplyCapabilities, Privilege, Go
<1>2. PICK eff : cred = Creds(b.uid, b.gid, b.groups, eff, left, {}, {}, Bounding, No, Early)
  <2>1. PICK eff, perm : cred = Creds(b.uid, b.gid, b.groups, eff, perm, {}, {}, Bounding, No, Early)
    BY <1>1 DEF CInv, PInv, AsUser
  <2>2. cred.perm = perm /\ cred.perm = left
    BY <1>1, <2>1, RecordWhole DEF Creds, CInv, Exact
  <2>3. QED  BY <2>1, <2>2
<1> HIDE DEF left
<1>3. k.ok <=> (Given(c) => /\ Lets(Early, "capget") /\ Lets(Early, "capset") /\ Lets(Early, "prctl")
                            /\ CanHold(c, Bounding) /\ c.permitted \subseteq left)
  <2>1. cred.ok
    BY <1>2, RecordWhole DEF Creds, Whole
  <2>2. apply_caps(cred, c).ok <=> /\ Lets(Early, "capget") /\ Lets(Early, "capset") /\ Lets(Early, "prctl")
                                   /\ CanHold(c, Bounding) /\ c.permitted \subseteq left
    BY <1>2, CapsNeed
  <2>3. QED  BY <2>1, <2>2
<1> HIDE DEF k
<1>4. CASE k.ok
  BY <1>1, <1>3, <1>4, PassedStays DEF Passed, left
<1>5. CASE ~k.ok
  <2>1. Given(c) /\ ~CanHold(c, Bounding) => CapabilitiesRefused
    <3>1. SUFFICES ASSUME Given(c), ~CapabilitiesRefused PROVE CanHold(c, Bounding)
      OBVIOUS
    <3>2. Bounding = c.bounding
      BY <3>1 DEF Bounding
    <3>3. QED  BY <3>1, <3>2 DEF CapabilitiesRefused, CanHold
  <2>2. Given(c) /\ CanHold(c, Bounding) /\ ~(c.permitted \subseteq left) => FilterRefused
    BY FilterStops DEF CanHold, left
  <2>3. QED  BY <1>1, <1>3, <1>5, <2>1, <2>2, FilterStops, PassedEarlier
<1>6. QED  BY <1>4, <1>5

\* Under no_new_privs there is no filter yet, so that it can always be set.
LEMMA NnpPasses == ASSUME CInv, Passed, NoNewPrivs PROVE Passed' /\ pc' # "failed"
<1> DEFINE k == IF b.noNewPrivileges THEN set_no_new_privs(cred) ELSE cred
<1>1. pc = "nnp" /\ cred' = k /\ b' = b /\ pc' = IF k.ok THEN "late" ELSE "failed"
  BY DEF NoNewPrivs, Privilege, Go
<1>2. PICK eff, perm, inh, amb :
          cred = Creds(b.uid, b.gid, b.groups, eff, perm, inh, amb, Bounding, No, Early)
  <2>1. Limited(No, Early)
    BY <1>1 DEF CInv, PInv
  <2>2. QED  BY <2>1 DEF Limited, AsUser
<1>3. k.ok
  <2>1. cred.ok
    BY <1>2, RecordWhole DEF Creds, Whole
  <2>2. set_no_new_privs(cred).ok <=> Lets(Early, "prctl")
    BY <1>2, NnpNeeds
  <2>3. b.noNewPrivileges => Lets(Early, "prctl")
    BY LetsIs
  <2>4. QED  BY <2>1, <2>2, <2>3
<1> HIDE DEF k
<1>4. QED  BY <1>1, <1>3, PassedStays DEF Passed

LEMMA FilterLatePasses ==
    ASSUME CInv, Passed, FilterLate PROVE Passed' /\ (pc' = "failed" => FilterRefused)
<1> DEFINE asked == Given(b.seccomp) /\ b.noNewPrivileges
           k == IF asked THEN apply_seccomp(cred, b.seccomp) ELSE cred
<1>1. pc = "late" /\ cred' = k /\ b' = b /\ pc' = IF k.ok THEN "ready" ELSE "failed"
  BY DEF FilterLate, Privilege, Go
<1>2. PICK eff, perm, inh, amb :
          cred = Creds(b.uid, b.gid, b.groups, eff, perm, inh, amb, Bounding, b.noNewPrivileges, Early)
  <2>1. Limited(b.noNewPrivileges, Early)
    BY <1>1 DEF CInv, PInv
  <2>2. QED  BY <2>1 DEF Limited, AsUser
<1>3. k.ok <=> (asked => build_ok(b.seccomp))
  <2>1. cred.ok
    BY <1>2, RecordWhole DEF Creds, Whole
  <2>2. asked => Early = <<>>
    BY DEF Early
  <2>3. asked => (apply_seccomp(cred, b.seccomp).ok <=> build_ok(b.seccomp))
    BY <1>2, <2>2, FilterNeeds
  <2>4. QED  BY <2>1, <2>3
<1> HIDE DEF k
<1>4. CASE k.ok
  BY <1>1, <1>3, <1>4, PassedStays DEF Passed
<1>5. CASE ~k.ok
  BY <1>1, <1>3, <1>5, FilterStops, PassedEarlier
<1>6. QED  BY <1>4, <1>5

\* The credentials of a process that is about to say that it is ready.
LEMMA LastCreds ==
    ASSUME CInv, pc \in {"ready", "park", "parked"}
    PROVE  /\ Whole(cred) /\ cred.filter = Final
           /\ \A call : Allows(cred, call) <=> Lets(Final, call)
           /\ \A call : ~Kills(cred, call) <=> Survives(Final, call)
<1>1. Limited(b.noNewPrivileges, Final)
  BY DEF CInv, PInv
<1>2. PICK eff, perm, inh, amb :
          cred = Record(b.uid, b.gid, b.groups, eff, perm, inh, amb, Bounding, No, b.noNewPrivileges, Final, Yes)
  BY <1>1 DEF Limited, AsUser, Creds
<1>3. QED  BY <1>2, RecordWhole, RecordAllows, RecordKills

LEMMA ReadyPasses == ASSUME CInv, Passed, Ready PROVE Passed' /\ (pc' = "failed" => FilterRefused)
<1> DEFINE k == Call(cred, "write", TRUE, cred)
<1>1. pc = "ready" /\ cred' = k /\ b' = b /\ pc' = IF k.ok THEN "park" ELSE "failed"
  BY DEF Ready, Privilege, Go
<1>2. k.ok <=> Lets(Final, "write")
  BY <1>1, LastCreds DEF Call, Whole, Shape
<1> HIDE DEF k
<1>3. CASE k.ok
  BY <1>1, <1>2, <1>3, PassedStays DEF Passed
<1>4. CASE ~k.ok
  BY <1>1, <1>2, <1>4, FilterStops, PassedEarlier
<1>5. QED  BY <1>3, <1>4

LEMMA ParkPasses ==
    ASSUME CInv, Passed, Park
    PROVE  /\ Passed' /\ pc' # "failed"
           /\ pc' = "lost" => ~Lets(Final, "openat") \/ ~Survives(Final, "close") \/ ~ProcIsThere
           /\ pc' # "lost" => ProcIsThere
<1>1. /\ pc = "park" /\ b' = b
      /\ pc' = IF ProcIsThere /\ Lets(Final, "openat") /\ Survives(Final, "close") THEN "parked" ELSE "lost"
  <2>1. pc = "park" => Lets(Final, "write")
    BY DEF Passed
  <2>2. QED  BY <2>1, LastCreds DEF Park
<1>2. CASE pc' = "parked"
  BY <1>1, <1>2, PassedStays DEF Passed
<1>3. QED  BY <1>1, <1>2, PassedEarlier

LEMMA ExecPasses ==
    ASSUME CInv, Passed, Exec
    PROVE  /\ Passed' /\ pc' # "failed"
           /\ pc' = "lost" => ~Lets(Final, "rt_sigprocmask") \/ ~Lets(Final, "execve")
<1> DEFINE freed == Call(cred, "rt_sigprocmask", TRUE, cred)
<1>1. pc = "parked" /\ b' = b /\ pc' = IF Execve(freed).ok THEN "running" ELSE "lost"
  BY DEF Exec
<1>2. Execve(freed).ok <=> Lets(Final, "rt_sigprocmask") /\ Lets(Final, "execve")
  <2>1. Whole(cred) /\ \A call : Allows(cred, call) <=> Lets(Final, call)
    BY <1>1, LastCreds
  <2>2. ASSUME NEW perm, NEW eff, NEW out
        PROVE  Call(cred, "execve", TRUE, [cred EXCEPT !.perm = perm, !.eff = eff, !.keepcaps = out]).ok
                 <=> Lets(Final, "execve")
    BY <2>1 DEF Call, Whole, Shape
  <2>3. Lets(Final, "rt_sigprocmask") => freed = cred
    BY <2>1 DEF Call, Whole
  <2>4. ~Lets(Final, "rt_sigprocmask") => Failed(freed)
    BY <2>1 DEF Call, Whole, Shape, Failed
  <2> HIDE DEF freed
  <2>5. Execve(cred).ok <=> Lets(Final, "execve")
    BY <2>2 DEF Execve
  <2>6. Failed(freed) => Failed(Execve(freed))
    BY CallEither DEF Execve, Failed
  <2>7. QED  BY <2>3, <2>4, <2>5, <2>6 DEF Failed
<1> HIDE DEF freed
<1>3. CASE pc' = "running"
  BY <1>1, <1>2, <1>3, PassedStays DEF Passed
<1>4. QED  BY <1>1, <1>2, <1>3, PassedEarlier

-----------------------------------------------------------------------------
(***************************************************************************)
(* The reasons that no tree is needed for.                                 *)
(***************************************************************************)
ResourcesOk ==
    b.resources # <<>> =>
        \A w \in ToSet(writes(b.resources[1])) :
            ControllerOf(w.file) \in Controllers(HostControllers, HostEnabled, relative_path(b.cgroupsPath, Id))

LayersOk == Layered(b) => mount_at(Layers(b)).ok
NameOk == b.hostname \/ b.domainname => Owns("uts")
KeyOk(key) == sysctl_resolve_ok(key) /\ IF key = "global" THEN UserAsked = "absent" ELSE Owns(key)

ProcessOk ==
    /\ ProgramOk(b) /\ b.cwd # <<"nodir">>
    /\ UserAsked # "absent" => b.oomScoreAdj # "lower" /\ ~\E r \in ToSet(b.rlimits) : r.hard > HostHard

\* What the steps need of proc.
HasOwnProc == HasProc("self", FALSE) /\ ~ProcMasked
OomOk == b.oomScoreAdj # "none" => HasProc("self", TRUE) /\ ~ProcMasked /\ ~ProcReadonly

Over == {"failed", "lost"}
UpToRoot == Outer \cup {"attach", "cgroupns", "root"}
UpToIdentity == UpToRoot \cup Tree \cup {"identity"}
UpToLimits == UpToIdentity \cup {"sysctl", "mask", "readonly", "remounts", "rootfs", "limits"}

\* What the steps so far have needed.
Met ==
    /\ pc \notin {"load"} \cup Over => spec(b)
    /\ pc \notin {"load", "plan"} \cup Over => PlanOk(b)
    /\ pc = "apply" => cg.controllers = Controllers(HostControllers, HostEnabled, relative_path(b.cgroupsPath, Id))
    /\ pc \notin {"load", "plan", "cgroup", "apply"} \cup Over => ResourcesOk
    /\ pc \notin {"load", "plan", "cgroup", "apply", "spawn"} \cup Over => b.console # "deaf"
    /\ pc \notin Outer \cup Over => (UserAsked = "" => b.uidMap /\ b.gidMap)
    /\ pc \notin UpToRoot \cup Over => LayersOk
    /\ pc \in UpToIdentity => keys = b.sysctl
    /\ pc \notin UpToIdentity \cup Over =>
          /\ NameOk /\ \A key \in b.sysctl \ keys : KeyOk(key) /\ HasProc("sys", TRUE)
    /\ pc \notin UpToIdentity \cup {"sysctl"} \cup Over => keys = {}
    /\ pc \notin UpToLimits \cup Over => ProcessOk /\ OomOk
    /\ pc \in {"parked", "running"} => HasOwnProc

\* What the init sees at /proc is what the bundle says.
ProcSound ==
    /\ pc = "sysctl" /\ (OwnMounts(b) => ProcWritable("sys")) => HasProc("sys", TRUE)
    /\ pc = "sysctl" /\ HasProc("sys", TRUE) /\ ~(OwnMounts(b) => ProcWritable("sys")) => Refused \/ TreeRefused
    /\ pc = "limits" /\ ProcIsWritable => HasProc("self", TRUE) /\ ~ProcMasked /\ ~ProcReadonly
    /\ pc = "limits" /\ HasProc("self", TRUE) /\ ~ProcMasked /\ ~ProcReadonly => ProcIsWritable \/ Refused \/ TreeRefused
    /\ pc = "park" => (ProcIsThere <=> HasOwnProc)

\* All of this is said of the bundle, which stays.
LEMMA SaidStays ==
    ASSUME b' = b
    PROVE  /\ UserAsked' = UserAsked /\ ResourcesOk' = ResourcesOk /\ LayersOk' = LayersOk /\ NameOk' = NameOk
           /\ \A key : KeyOk(key)' = KeyOk(key)
           /\ \A name : HasProc(name, TRUE)' = HasProc(name, TRUE) /\ HasProc(name, FALSE)' = HasProc(name, FALSE)
           /\ ProcessOk' = ProcessOk /\ OomOk' = OomOk /\ HasOwnProc' = HasOwnProc
<1>1. UserAsked' = UserAsked /\ \A k : Owns(k)' = Owns(k)
  BY DEF UserAsked, Owns
<1>2. /\ NewMounts' = NewMounts /\ \A i : Destination(i)' = Destination(i) /\ IsBind(i)' = IsBind(i)
      /\ ProcMasked' = ProcMasked /\ ProcReadonly' = ProcReadonly
  BY DEF NewMounts, Destination, IsBind, ProcMasked, Masked, ProcReadonly
<1>3. /\ \A i, p : CoveredAfter(i, p)' = CoveredAfter(i, p)
      /\ \A i : ReadonlyMount(i)' = ReadonlyMount(i) /\ Loosened(i)' = Loosened(i)
  BY <1>2 DEF CoveredAfter, ReadonlyMount, Loosened, Loosens
<1>4. \A name, w : HasProc(name, w)' = HasProc(name, w)
  BY <1>2, <1>3 DEF HasProc
<1>5. ResourcesOk' = ResourcesOk /\ LayersOk' = LayersOk
  BY DEF ResourcesOk, LayersOk
<1>6. NameOk' = NameOk /\ \A key : KeyOk(key)' = KeyOk(key)
  BY <1>1 DEF NameOk, KeyOk
<1>7. ProcessOk' = ProcessOk /\ OomOk' = OomOk /\ HasOwnProc' = HasOwnProc
  BY <1>1, <1>2, <1>4 DEF ProcessOk, OomOk, HasOwnProc
<1>8. QED  BY <1>1, <1>4, <1>5, <1>6, <1>7

\* Whatever fails is refused.
LEMMA OutsideMet ==
    ASSUME Met, CgTyped, LoadBundle \/ Plan \/ CreateCgroup \/ ApplyResources \/ Spawn
    PROVE  Met' /\ (pc' = "failed" => Refused)
<1>1. b' = b /\ keys' = keys
  BY DEF LoadBundle, Plan, CreateCgroup, ApplyResources, Spawn
<1>2. CASE LoadBundle
  <2>1. pc = "load" /\ pc' = IF spec(b) THEN "plan" ELSE "failed"
    BY <1>2 DEF LoadBundle, Go
  <2>2. QED  BY <1>1, <2>1, SaidStays DEF Met, Refused, Over, UpToIdentity, UpToLimits, UpToRoot, Outer, Tree
<1>3. CASE Plan
  <2>1. pc = "plan" /\ pc' = IF PlanOk(b) THEN "cgroup" ELSE "failed"
    BY <1>3 DEF Plan, Go
  <2>2. QED  BY <1>1, <2>1, SaidStays DEF Met, Refused, Over, UpToIdentity, UpToLimits, UpToRoot, Outer, Tree
<1>4. CASE CreateCgroup
  <2>1. pc = "cgroup" /\ pc' = "apply"
    BY <1>4 DEF CreateCgroup
  <2>2. cg'.controllers = Controllers(HostControllers, HostEnabled, relative_path(b.cgroupsPath, Id))
    BY <1>4 DEF CreateCgroup, CgTyped
  <2>3. QED  BY <1>1, <2>1, <2>2, SaidStays DEF Met, Over, UpToIdentity, UpToLimits, UpToRoot, Outer, Tree
<1>5. CASE ApplyResources
  <2>1. pc = "apply" /\ pc' = IF ResourcesOk THEN "spawn" ELSE "failed"
    <3>1. cg.controllers = Controllers(HostControllers, HostEnabled, relative_path(b.cgroupsPath, Id))
      BY <1>5 DEF ApplyResources, Met
    <3>2. ToSet(<<>>) = {}
      BY DEF ToSet
    <3>3. QED  BY <1>5, <3>1, <3>2 DEF ApplyResources, Go, ResourcesOk
  <2>2. ~ResourcesOk => Refused
    BY DEF ResourcesOk, Refused
  <2>3. QED  BY <1>1, <2>1, <2>2, SaidStays DEF Met, Over, UpToIdentity, UpToLimits, UpToRoot, Outer, Tree
<1>6. CASE Spawn
  <2>1. pc = "spawn" /\ pc' = IF b.console # "deaf" THEN "join" ELSE "failed"
    BY <1>6 DEF Spawn, Go
  <2>2. QED  BY <1>1, <2>1, SaidStays DEF Met, Refused, Over, UpToIdentity, UpToLimits, UpToRoot, Outer, Tree
<1>7. QED  BY <1>2, <1>3, <1>4, <1>5, <1>6

LEMMA NamespacesMet ==
    ASSUME CInv, Met, JoinExisting \/ Unshare \/ MapIds \/ Attach \/ UnshareCgroup
    PROVE  Met' /\ (pc' = "failed" => Refused)
<1>1. b' = b /\ keys' = keys
  BY DEF JoinExisting, Unshare, MapIds, Attach, UnshareCgroup
<1>2. CASE JoinExisting
  <2>1. pc = "join" /\ pc' \in {"join", "unshare", "failed"}
    BY <1>2 DEF JoinExisting, Go
  <2>2. pc' = "failed" => Refused
    BY <1>2, JoinOwned DEF CInv, Refused
  <2>3. QED  BY <1>1, <2>1, <2>2, SaidStays DEF Met, Over, UpToIdentity, UpToLimits, UpToRoot, Outer, Tree
<1>3. CASE Unshare
  <2>1. pc = "unshare" /\ pc' \in {"unshare", "map", "attach"} /\ (pc' = "attach" => "user" \notin unshare_flags(b))
    BY <1>3 DEF Unshare
  <2>2. UserAsked = "" => "user" \in unshare_flags(b)
    <3>1. b \in Bundles /\ spec(b)
      BY <2>1 DEF CInv, OInv, NInv, Met, Over
    <3>2. QED  BY <3>1, KindsAre DEF UserAsked, unshare_flags, without, spec, Kind
  <2>3. QED  BY <1>1, <2>1, <2>2, SaidStays DEF Met, Over, UpToIdentity, UpToLimits, UpToRoot, Outer, Tree
<1>4. CASE MapIds
  <2>1. pc = "map" /\ UserAsked = "" /\ cred \in Fresh
    BY <1>4 DEF MapIds, CInv, PInv, Exact, Before
  <2>2. pc' = IF b.uidMap /\ b.gidMap THEN "attach" ELSE "failed"
    BY <1>4, <2>1, BecomesAlways DEF MapIds, Go
  <2>3. ~(b.uidMap /\ b.gidMap) => Refused
    BY <2>1 DEF Refused, NamespacesRefused
  <2>4. QED  BY <1>1, <2>1, <2>2, <2>3, SaidStays DEF Met, Over, UpToIdentity, UpToLimits, UpToRoot, Outer, Tree
<1>5. CASE Attach
  <2>1. pc = "attach" /\ pc' = "cgroupns"
    BY <1>5 DEF Attach
  <2>2. QED  BY <1>1, <2>1, SaidStays DEF Met, Over, UpToIdentity, UpToLimits, UpToRoot, Outer, Tree
<1>6. CASE UnshareCgroup
  <2>1. pc = "cgroupns" /\ pc' = IF OwnMounts(b) THEN "root" ELSE "identity"
    BY <1>6 DEF UnshareCgroup
  <2>2. ~OwnMounts(b) => LayersOk
    BY <2>1 DEF Met, Over, PlanOk, LayersOk
  <2>3. QED  BY <1>1, <2>1, <2>2, SaidStays DEF Met, Over, UpToIdentity, UpToLimits, UpToRoot, Outer, Tree
<1>7. QED  BY <1>2, <1>3, <1>4, <1>5, <1>6

LEMMA IdentityMet == ASSUME OInv, Met, SetIdentity PROVE Met' /\ (pc' = "failed" => Refused)
<1>1. pc = "identity" /\ b' = b /\ keys' = keys /\ "uts" \in Kind \ {"user"}
  BY DEF SetIdentity, Kind
<1>2. "uts" \in Able <=> Owns("uts")
  BY <1>1, AbleIs DEF Inside
<1>3. pc' = IF NameOk THEN "sysctl" ELSE "failed"
  BY <1>2 DEF SetIdentity, Go, NameOk
<1>4. ~NameOk => Refused
  BY DEF NameOk, Refused
<1>5. QED  BY <1>1, <1>3, <1>4, SaidStays DEF Met, Over, UpToIdentity, UpToLimits, UpToRoot, Outer, Tree

LEMMA SysctlMet ==
    ASSUME OInv, Met, ProcSound, keys \subseteq b.sysctl, ApplySysctl
    PROVE  Met' /\ (pc' = "failed" => Refused \/ TreeRefused)
<1>1. pc = "sysctl" /\ b' = b /\ b \in Bundles
  BY DEF ApplySysctl, OInv, NInv
<1>2. CASE keys = {} /\ keys' = keys /\ pc' = IF OwnMounts(b) THEN "mask" ELSE "limits"
  BY <1>1, <1>2, SaidStays DEF Met, Over, UpToIdentity, UpToLimits, UpToRoot, Outer, Tree
<1>3. ASSUME NEW key \in keys, keys' = keys \ {key},
             pc' = IF sysctl_resolve_ok(key) /\ SysctlWritable(key) THEN "sysctl" ELSE "failed"
      PROVE  Met' /\ (pc' = "failed" => Refused \/ TreeRefused)
  <2> DEFINE writable == OwnMounts(b) => ProcWritable("sys")
  <2>1. key \in b.sysctl /\ key \in (Kind \ {"user"}) \cup {"global", ".escape"}
    BY <1>1, BundlesAssumption
  <2>2. "global" \notin Kind
    BY DEF Kind
  <2>3. sysctl_resolve_ok(key) /\ SysctlWritable(key) <=> KeyOk(key) /\ writable
    <3>1. HostUser <=> UserAsked = "absent"
      BY <1>1, AbleIs DEF Inside
    <3>2. key \in Kind \ {"user"} => (key \in Able <=> Owns(key))
      BY <1>1, AbleIs DEF Inside
    <3>3. QED  BY <2>1, <2>2, <3>1, <3>2 DEF KeyOk, SysctlWritable, sysctl_resolve_ok
  <2>4. writable => HasProc("sys", TRUE)
    BY <1>1 DEF ProcSound
  <2>5. ~KeyOk(key) \/ ~writable => Refused \/ TreeRefused
    <3>1. ~KeyOk(key) \/ ~HasProc("sys", TRUE) => Refused
      BY <2>1 DEF KeyOk, Refused, SysctlRefused
    <3>2. QED  BY <1>1, <3>1 DEF ProcSound
  <2> HIDE DEF writable
  <2>6. QED  BY <1>1, <1>3, <2>3, <2>4, <2>5, SaidStays
             DEF Met, Over, UpToIdentity, UpToLimits, UpToRoot, Outer, Tree
<1>4. QED  BY <1>2, <1>3 DEF ApplySysctl

LEMMA LimitsMet ==
    ASSUME OInv, Met, ProcSound, ApplyLimits,
           CwdIsThere(b.cwd) \/ b.cwd = <<"nodir">> \/ TreeRefused
    PROVE  Met' /\ (pc' = "failed" => Refused \/ TreeRefused)
<1> DEFINE ok == /\ ProgramOk(b)
                 /\ apply_limits_ok(b.rlimits, HostUser)
                 /\ apply_oom_score_adj_ok(b.oomScoreAdj, HostUser, ProcIsWritable)
                 /\ CwdIsThere(b.cwd)
<1>1. pc = "limits" /\ b' = b /\ keys' = keys /\ pc' = IF ok THEN "filter" ELSE "failed"
  BY DEF ApplyLimits, Go
<1>2. HostUser <=> UserAsked = "absent"
  BY <1>1, AbleIs DEF Inside
<1>3. ok => ProcessOk /\ OomOk
  BY <1>1, <1>2 DEF ProcessOk, OomOk, ProcSound, apply_limits_ok, apply_oom_score_adj_ok, CwdIsThere
<1>4. ~ok => Refused \/ TreeRefused
  <2>1. ~(ProcessOk /\ OomOk) => Refused
    BY DEF ProcessOk, OomOk, Refused, ProcessRefused
  <2>2. ProcessOk /\ OomOk => ok \/ Refused \/ TreeRefused
    BY <1>1, <1>2 DEF ProcessOk, OomOk, ProcSound, apply_limits_ok, apply_oom_score_adj_ok
  <2>3. QED  BY <2>1, <2>2
<1> HIDE DEF ok
<1>5. QED  BY <1>1, <1>3, <1>4, SaidStays DEF Met, Over, UpToIdentity, UpToLimits, UpToRoot, Outer, Tree

\* The privileges add nothing to it; the last steps need the container's proc.
LEMMA LateMet ==
    ASSUME Met, UNCHANGED <<b, keys>>, pc \notin UpToLimits \cup Over, pc' \notin UpToLimits,
           pc' \in {"parked", "running"} => HasOwnProc
    PROVE  Met'
<1>1. pc \notin UpToIdentity \cup {"sysctl", "load", "plan", "cgroup", "apply", "spawn"} \cup Outer \cup UpToRoot \cup Over
  BY DEF UpToLimits, UpToIdentity, UpToRoot, Outer
<1>2. QED  BY <1>1, SaidStays DEF Met, UpToLimits, UpToIdentity, UpToRoot, Outer

\* The steps that change the tree.
LEMMA TreeMet ==
    ASSUME Met, UNCHANGED <<b, keys>>, pc \in Tree \cup {"root"} \cup Hardening,
           pc' \in {pc, "failed"} \cup Tree \cup Hardening \cup {"identity", "limits"},
           pc \notin Tree \cup {"root"} => pc' \notin Tree \cup {"identity"},
           pc \in Tree \cup {"root"} => pc' \in Tree \cup {"identity", "failed"},
           pc = "root" /\ pc' # "failed" => LayersOk
    PROVE  Met'
<1>1. CASE pc' = "failed"
  BY <1>1 DEF Met, Over, UpToIdentity, UpToRoot, Outer, Tree
<1>2. CASE pc' # "failed" /\ pc \in Tree \cup {"root"}
  <2>1. pc' \in Tree \cup {"identity"}
    BY <1>2
  <2>2. QED  BY <1>2, <2>1, SaidStays DEF Met, Over, UpToIdentity, UpToLimits, UpToRoot, Outer, Tree
<1>3. CASE pc' # "failed" /\ pc \in {"mask", "readonly", "remounts", "rootfs"}
  <2>1. pc' \in {"mask", "readonly", "remounts", "rootfs", "limits"}
    BY <1>3 DEF Tree, Hardening
  <2>2. QED  BY <1>3, <2>1, SaidStays DEF Met, Over, UpToIdentity, UpToLimits, UpToRoot, Outer, Tree
<1>4. QED  BY <1>1, <1>2, <1>3 DEF Tree, Hardening

\* A program that runs is past everything that would have stopped it.
LEMMA RunsUnrefused ==
    ASSUME OInv, Met, Passed, pc = "running"
    PROVE  ~Refused /\ ~Unstartable
<1>1. /\ spec(b) /\ PlanOk(b) /\ ResourcesOk /\ b.console # "deaf" /\ LayersOk /\ NameOk
      /\ UserAsked = "" => b.uidMap /\ b.gidMap
      /\ \A key \in b.sysctl : KeyOk(key) /\ HasProc("sys", TRUE)
      /\ ProcessOk /\ OomOk /\ HasOwnProc
  BY DEF Met, Over, UpToIdentity, UpToLimits, UpToRoot, Outer, Tree
<1>2. ~NamespacesRefused
  BY <1>1, NamespacesAccepted DEF Inside
<1>3. ~SysctlRefused
  BY <1>1 DEF SysctlRefused, KeyOk
<1>4. ~ProcessRefused
  BY <1>1 DEF ProcessRefused, ProcessOk, OomOk
<1>5. /\ ~CapabilitiesRefused /\ ~FilterRefused
      /\ Given(b.seccomp) =>
            /\ \A call \in {"openat", "rt_sigprocmask", "execve"} : build(b.seccomp)[call] = "allow"
            /\ build(b.seccomp)["close"] # "kill"
  BY PassedAll
<1>6. ~Refused
  BY <1>1, <1>2, <1>3, <1>4, <1>5 DEF Refused, ResourcesOk, LayersOk, NameOk
<1>7. ~Unstartable
  BY <1>1, <1>5 DEF Unstartable, HasOwnProc
<1>8. QED  BY <1>6, <1>7

LEMMA RefusedStays ==
    ASSUME b' = b
    PROVE  /\ Refused' = Refused /\ TreeRefused' = TreeRefused /\ Unstartable' = Unstartable
           /\ FilterStarves' = FilterStarves
<1>1. UserAsked' = UserAsked /\ \A k : Owns(k)' = Owns(k)
  BY DEF UserAsked, Owns
<1>2. /\ NewMounts' = NewMounts /\ \A i : Destination(i)' = Destination(i) /\ IsBind(i)' = IsBind(i)
      /\ \A p : Masked(p)' = Masked(p)
      /\ ProcMasked' = ProcMasked /\ ProcReadonly' = ProcReadonly /\ BindsNodes' = BindsNodes
      /\ \A p : BelowConsole(p)' = BelowConsole(p)
  BY DEF NewMounts, Destination, IsBind, ProcMasked, Masked, ProcReadonly, BindsNodes, BelowConsole
<1>3. /\ \A i, p : CoveredAfter(i, p)' = CoveredAfter(i, p)
      /\ \A i : /\ ReadonlyMount(i)' = ReadonlyMount(i) /\ MountedType(i)' = MountedType(i)
                /\ UnderConsole(i)' = UnderConsole(i)
  BY <1>2 DEF CoveredAfter, ReadonlyMount, MountedType, UnderConsole
<1>4. /\ \A i : CoveredByMount(i)' = CoveredByMount(i) /\ Holding(i)' = Holding(i)
      /\ \A i, p : Blocks(i, p)' = Blocks(i, p)
      /\ Nodes' = Nodes
  BY <1>2, <1>3 DEF CoveredByMount, Holding, Blocks, Nodes
<1>5. /\ NamespacesRefused' = NamespacesRefused /\ SysctlRefused' = SysctlRefused
      /\ ProcessRefused' = ProcessRefused
  BY <1>1, <1>2, SaidStays DEF NamespacesRefused, SysctlRefused, ProcessRefused
<1>6. Refused' = Refused
  BY <1>1, <1>5, PassedStays DEF Refused
<1>7. MountsRefused' = MountsRefused
  BY <1>1, <1>2, <1>3, <1>4 DEF MountsRefused
<1>8. DevicesRefused' = DevicesRefused
  BY <1>1, <1>2, <1>3, <1>4 DEF DevicesRefused
<1>9. HardeningRefused' = HardeningRefused /\ CwdRefused' = CwdRefused
  BY <1>2, <1>3, <1>4 DEF HardeningRefused, CwdRefused
<1>10. TreeRefused' = TreeRefused
  <2>1. OverflowRefused' = OverflowRefused
    BY <1>1, <1>2, <1>3 DEF OverflowRefused
  <2>2. QED  BY <1>2, <1>7, <1>8, <1>9, <2>1 DEF TreeRefused
<1>11. Unstartable' = Unstartable
  BY <1>2, SaidStays DEF Unstartable
<1>12. QED  BY <1>6, <1>10, <1>11, PassedStays

\* The steps that change the tree fail for what is refused, and the working directory is there.
TreeSteps == {"root"} \cup Tree \cup Hardening
TreeFails == pc \in TreeSteps /\ pc' = "failed" => Refused \/ TreeRefused
CwdSound == pc = "limits" => CwdIsThere(b.cwd) \/ b.cwd = <<"nodir">> \/ TreeRefused

LEMMA PrivateTyped == ASSUME NEW f, FsTyped(f) PROVE FsTyped(make_root_private(f))
<1> DEFINE g(prop) == [f EXCEPT !.prop = prop]
<1>1. ASSUME NEW prop PROVE FsTyped(g(prop))
  BY DEF FsTyped, FsShape
<1>2. QED  BY <1>1 DEF make_root_private

LEMMA TreeMoves ==
    ASSUME HInv, Met,
                \/ MountRoot \/ ApplyMounts \/ CreateNodes \/ CreateLinks \/ CreateDevices \/ PivotRoot
                \/ SetupConsole \/ MaskPaths \/ ReadonlyPaths \/ RemountReadonly \/ ReadonlyRootfs \/ Overflow
    PROVE  pc \in TreeSteps /\ Met'
<1>1. UNCHANGED <<b, keys>>
  BY DEF MountRoot, ApplyMounts, CreateNodes, CreateLinks, CreateDevices, PivotRoot, Overflow,
         SetupConsole, MaskPaths, ReadonlyPaths, RemountReadonly, ReadonlyRootfs, Each
<1>2. CASE MountRoot
  <2>1. pc = "root" /\ pc' \in {"mounts", "failed"}
    BY <1>2 DEF MountRoot, Go
  <2>2. pc' # "failed" => LayersOk
    <3> DEFINE private == make_root_private(fsys)
               after == Rooted(private, "overlay", mount_at(Layers(b)).mounted)
               mounted == Then(private, mount_at(Layers(b)).ok, after)
    <3>1. SUFFICES ASSUME pc' # "failed", Layered(b), ~mount_at(Layers(b)).ok PROVE FALSE
      BY DEF LayersOk
    <3>2. fsys' = Then(mounted, "mount" \in Able, mounted) /\ fsys'.ok
      BY <1>2, <3>1 DEF MountRoot, Go
    <3>3. FsTyped(private)
      BY PrivateTyped DEF HInv, HostKept
    <3>4. mounted = Fail(private) /\ FsTyped(mounted)
      BY <3>1, <3>3, FailKeeps DEF Then, Plainly, Keeps
    <3>5. mounted.ok
      BY <3>2, <3>4, ThenOk
    <3>6. QED  BY <3>1, <3>3, <3>5, ThenOk
  <2>3. QED  BY <1>1, <2>1, <2>2, TreeMet DEF TreeSteps, Tree, Hardening
<1>3. CASE ApplyMounts \/ CreateNodes \/ CreateLinks \/ CreateDevices \/ PivotRoot \/ SetupConsole \/ Overflow
  <2>1. pc \in Tree /\ pc' \in Tree \cup {"identity", "failed"}
    BY <1>3 DEF ApplyMounts, CreateNodes, CreateLinks, CreateDevices, PivotRoot, SetupConsole, Overflow, Each, Go, Tree
  <2>2. QED  BY <1>1, <2>1, TreeMet DEF TreeSteps, Tree, Hardening
<1>4. CASE MaskPaths \/ ReadonlyPaths \/ RemountReadonly \/ ReadonlyRootfs
  <2>1. pc \in {"mask", "readonly", "remounts", "rootfs"} /\ pc' \in {"mask", "readonly", "remounts", "rootfs", "limits", "failed"}
    BY <1>4 DEF MaskPaths, ReadonlyPaths, RemountReadonly, ReadonlyRootfs, Each, Go
  <2>2. QED  BY <1>1, <2>1, TreeMet DEF TreeSteps, Tree, Hardening
<1>5. QED  BY <1>2, <1>3, <1>4

\* What the init has for a filter is the one asked for, as soon as it has one.
LEMMA StarvedFilter == ASSUME CInv, Starved PROVE FilterStarves
<1> DEFINE lacks(filter) == ~Lets(filter, "library")
<1>1. pc \in {"bounding", "user", "caps", "nnp", "late", "ready", "park", "parked"} /\ ~Allows(cred, "library")
  BY DEF Starved
<1>2. ASSUME NEW uid, NEW gid, NEW groups, NEW eff, NEW perm, NEW inh, NEW amb, NEW bnd, NEW nnp, NEW filter,
             cred = Creds(uid, gid, groups, eff, perm, inh, amb, bnd, nnp, filter)
      PROVE  lacks(filter)
  BY <1>1, <1>2, RecordAllows DEF Creds
<1>3. lacks(Early) \/ lacks(Final)
  <2> HIDE DEF lacks
  <2>1. CASE pc \in {"bounding", "user"}
    BY <1>2, <2>1 DEF CInv, Exact, ExactRoot
  <2>2. CASE pc = "caps"
    BY <1>2, <2>2 DEF CInv, PInv, AsUser
  <2>3. CASE pc = "nnp"
    <3>1. Limited(No, Early)
      BY <2>3 DEF CInv, PInv
    <3>2. QED  BY <1>2, <3>1 DEF Limited, AsUser
  <2>4. CASE pc = "late"
    <3>1. Limited(b.noNewPrivileges, Early)
      BY <2>4 DEF CInv, PInv
    <3>2. QED  BY <1>2, <3>1 DEF Limited, AsUser
  <2>5. CASE pc \in {"ready", "park", "parked"}
    <3>1. Limited(b.noNewPrivileges, Final)
      BY <2>5 DEF CInv, PInv
    <3>2. QED  BY <1>2, <3>1 DEF Limited, AsUser
  <2>6. QED  BY <1>1, <2>1, <2>2, <2>3, <2>4, <2>5
<1>4. QED  BY <1>3, LetsIs DEF FilterStarves

LEMMA RefusedNext ==
    ASSUME CInv, HInv, Met, Passed, ProcSound, TreeFails, CwdSound, Next
    PROVE  Met' /\ Passed' /\ FailsIfRefused'
<1>1. b' = b
  BY DEF Next, LoadBundle, Plan, CreateCgroup, ApplyResources, Spawn, JoinExisting, Unshare, MapIds, Attach,
     UnshareCgroup, MountRoot, ApplyMounts, CreateNodes, CreateLinks, CreateDevices, PivotRoot, SetupConsole,
     SetIdentity, ApplySysctl, MaskPaths, ReadonlyPaths, RemountReadonly, ReadonlyRootfs, ApplyLimits,
     FilterEarly, DropBounding, DropPrivileges, ApplyCapabilities, NoNewPrivs, FilterLate, Ready, Park,
     Exec, Starved, Overflow, Each, Privilege
<1>2. OInv /\ OInv' /\ CgTyped /\ keys \subseteq b.sysctl
  BY NextOInv DEF CInv, HInv, NInv, HostKept
<1>3. ASSUME Met', Passed', pc' = "failed" => Refused \/ TreeRefused \/ FilterStarves,
             pc' = "lost" => Unstartable \/ FilterStarves
      PROVE  FailsIfRefused'
  <2>1. (pc = "running" => ~Refused /\ ~Unstartable)'
    BY <1>2, <1>3, RunsUnrefused, PTL
  <2>2. QED  BY <1>1, <1>3, <2>1, RefusedStays DEF FailsIfRefused
<1> HIDE DEF FailsIfRefused
<1>4. CASE LoadBundle \/ Plan \/ CreateCgroup \/ ApplyResources \/ Spawn
  <2>1. pc' \in {"plan", "cgroup", "apply", "spawn", "join", "failed"}
    BY <1>4 DEF LoadBundle, Plan, CreateCgroup, ApplyResources, Spawn, Go
  <2>2. Passed'
    BY <2>1, PassedEarlier DEF Before
  <2>3. QED  BY <1>2, <1>3, <1>4, <2>1, <2>2, OutsideMet
<1>5. CASE JoinExisting \/ Unshare \/ MapIds \/ Attach \/ UnshareCgroup
  <2>1. pc' \in {"join", "unshare", "map", "attach", "cgroupns", "root", "identity", "failed"}
    BY <1>5 DEF JoinExisting, Unshare, MapIds, Attach, UnshareCgroup, Go
  <2>2. Passed'
    BY <2>1, PassedEarlier DEF Before
  <2>3. QED  BY <1>3, <1>5, <2>1, <2>2, NamespacesMet
<1>6. CASE \/ MountRoot \/ ApplyMounts \/ CreateNodes \/ CreateLinks \/ CreateDevices \/ PivotRoot
           \/ SetupConsole \/ MaskPaths \/ ReadonlyPaths \/ RemountReadonly \/ ReadonlyRootfs \/ Overflow
  <2>1. pc' \in Before \cup {"failed"}
    BY <1>6 DEF MountRoot, ApplyMounts, CreateNodes, CreateLinks, CreateDevices, PivotRoot, Overflow,
         SetupConsole, MaskPaths, ReadonlyPaths, RemountReadonly, ReadonlyRootfs, Each, Go, Before
  <2>2. Passed'
    BY <2>1, PassedEarlier
  <2>3. pc \in TreeSteps /\ Met'
    BY <1>6, TreeMoves
  <2>4. pc' # "lost"
    BY <2>1 DEF Before
  <2>5. QED  BY <1>3, <2>2, <2>3, <2>4 DEF TreeFails
<1>7. CASE SetIdentity \/ ApplySysctl \/ ApplyLimits
  <2>1. pc' \in Before \cup {"failed"}
    BY <1>7 DEF SetIdentity, ApplySysctl, ApplyLimits, Go, Before
  <2>2. Passed'
    BY <2>1, PassedEarlier
  <2>3. Met' /\ (pc' = "failed" => Refused \/ TreeRefused)
    BY <1>2, <1>7, IdentityMet, SysctlMet, LimitsMet DEF CwdSound, ApplyLimits
  <2>4. pc' # "lost"
    BY <2>1 DEF Before
  <2>5. QED  BY <1>3, <2>2, <2>3, <2>4
<1>8. CASE FilterEarly \/ DropBounding \/ DropPrivileges \/ ApplyCapabilities \/ NoNewPrivs \/ FilterLate \/ Ready
  <2>1. /\ pc \in {"filter", "bounding", "user", "caps", "nnp", "late", "ready"} /\ UNCHANGED <<b, keys>>
        /\ pc' \in {"bounding", "user", "caps", "nnp", "late", "ready", "park", "failed"}
    BY <1>8 DEF FilterEarly, DropBounding, DropPrivileges, ApplyCapabilities, NoNewPrivs, FilterLate, Ready, Privilege, Go
  <2>2. Met'
    BY <2>1, LateMet DEF UpToLimits, UpToIdentity, UpToRoot, Outer, Tree, Over
  <2>3. Passed' /\ (pc' = "failed" => FilterRefused \/ CapabilitiesRefused)
    BY <1>8, FilterEarlyPasses, BoundingPasses, UserPasses, CapabilitiesPass, NnpPasses, FilterLatePasses, ReadyPasses
  <2>4. QED  BY <1>3, <2>1, <2>2, <2>3 DEF Refused
<1>9. CASE Park \/ Exec
  <2>1. pc \in {"park", "parked"} /\ UNCHANGED <<b, keys>> /\ pc' \in {"parked", "running", "lost"}
    BY <1>9 DEF Park, Exec
  <2>2. /\ Passed' /\ (pc' \in {"parked", "running"} => HasOwnProc)
        /\ pc' = "lost" => \/ ~Lets(Final, "openat") \/ ~Survives(Final, "close")
                           \/ ~Lets(Final, "rt_sigprocmask") \/ ~Lets(Final, "execve") \/ ~HasOwnProc
    BY <1>9, <2>1, ParkPasses, ExecPasses DEF ProcSound, Met, Park, Exec
  <2>3. Met'
    BY <2>1, <2>2, LateMet DEF UpToLimits, UpToIdentity, UpToRoot, Outer, Tree, Over
  <2>4. pc' = "lost" => Unstartable
    BY <2>2, LetsIs DEF Unstartable, HasOwnProc
  <2>5. QED  BY <1>3, <2>1, <2>2, <2>3, <2>4
<1>10. CASE Starved
  <2>1. /\ pc \in {"bounding", "user", "caps", "nnp", "late", "ready", "park", "parked"} /\ UNCHANGED <<b, keys>>
        /\ pc' \in {"failed", "lost"}
    BY <1>10 DEF Starved
  <2>2. Met'
    BY <2>1, LateMet DEF UpToLimits, UpToIdentity, UpToRoot, Outer, Tree, Over
  <2>3. QED  BY <1>3, <1>10, <2>1, <2>2, PassedEarlier, StarvedFilter
<1>11. QED  BY <1>4, <1>5, <1>6, <1>7, <1>8, <1>9, <1>10, SMTT(30) DEF Next

-----------------------------------------------------------------------------
(***************************************************************************)
(* Which mount a path is on: the last of config.json's that covers it, or  *)
(* the root, until something of the container's own is put over it.        *)
(***************************************************************************)
Covering == {"hostdev", "pty", "mask", "null"}

\* Mount i is the last up to the n-th that covers p; none of these does.
Uncovered(i, p, n) == i <= n /\ IsPrefix(Destination(i), p) /\ ~OverBy(i, p, n)
Bare(p, n) == \A i \in NewMounts : i <= n => ~IsPrefix(Destination(i), p)
LoosenedBy(i, n) ==
    \E j \in DOMAIN b.mounts : i < j /\ j <= n /\ Loosens(j) /\ Destination(j) = Destination(i)

Comes(m, i) == m.fs.at = Destination(i) /\ m.fs.typ = MountedType(i)
Firm(m, i, n) == ReadonlyMount(i) /\ ~LoosenedBy(i, n) => m.ro
OfRoot(m) == m.fs.at = <<>> /\ m.fs.typ \in {"base", "overlay"}

Shown(m, n, p) ==
    \/ \E i \in NewMounts : Uncovered(i, p, n) /\ Comes(m, i) /\ Firm(m, i, n)
    \/ Bare(p, n) /\ OfRoot(m)
ShownTo(f, n) == \A p \in Paths : Shown(MountOf(f, p), n, p)
Views(f) == \A p \in Paths : MountOf(f, p).fs.typ \in Covering \/ Shown(MountOf(f, p), Len(b.mounts), p)

\* Each file system holds what it holds where it is mounted.
Equipped(f, fs) ==
    /\ \A q \in Contents(fs.typ, fs.at) : [fs |-> fs, path |-> q] \in f.has
    /\ fs.typ \in {"base", "overlay"} => \A q \in Unpacked : [fs |-> fs, path |-> q] \in f.has
Furnished(f) == \A p \in Paths : Equipped(f, MountOf(f, p).fs)

\* Where a mount is not where its file system is, it was bound there to be read-only.
Bound(f) ==
    \A p \in Paths :
        LET m == MountOf(f, p) IN m.fs.at \in Paths /\ IsPrefix(m.fs.at, m.at) /\ (m.at # m.fs.at => m.ro)

\* The proc file system: whether it is to be seen.
ProcDir == <<"proc">>
ProcPath(name) == <<"proc", name>>
IsProc(fs) == fs.typ = "proc" /\ fs.at = ProcDir
SeesProc(f, name) == IsProc(MountOf(f, ProcPath(name)).fs)
KeepsProc(f, name) == HasProc(name, FALSE) => SeesProc(f, name)
MaskedProc(f, n) ==
    (\E k \in DOMAIN b.masked : k <= n /\ IsPrefix(b.masked[k], ProcPath("self"))) => ~SeesProc(f, "self")

LEMMA ProcPaths ==
    /\ ProcDir \in Paths
    /\ \A name \in {"self", "sys"} :
          /\ ProcPath(name) \in Paths /\ IsPrefix(ProcDir, ProcPath(name)) /\ ProcPath(name) # ProcDir
          /\ \A q \in Paths : IsPrefix(q, ProcPath(name)) => q = ProcPath(name) \/ IsPrefix(q, ProcDir)
          /\ ProcPath(name) \in Contents("proc", ProcDir)
    /\ \A q \in Paths : IsPrefix(ProcDir, q) /\ IsPrefix(q, ProcPath("self")) => q \in {ProcDir, ProcPath("self")}
<1>1. {"proc", "self", "sys"} \subseteq Names
  BY DEF Names
<1>2. ProcDir \in Paths
  BY <1>1 DEF ProcDir, Paths
<1>3. ASSUME NEW name \in {"self", "sys"}
      PROVE  /\ ProcPath(name) \in Paths /\ IsPrefix(ProcDir, ProcPath(name)) /\ ProcPath(name) # ProcDir
             /\ \A q \in Paths : IsPrefix(q, ProcPath(name)) => q = ProcPath(name) \/ IsPrefix(q, ProcDir)
             /\ ProcPath(name) \in Contents("proc", ProcDir)
  <2>1. name \in Names
    BY <1>1
  <2>2. ProcPath(name) = Append(ProcDir, name)
    BY <2>1 DEF ProcPath, ProcDir
  <2>3. ProcDir \o <<name>> \in Contents("proc", ProcDir)
    BY DEF Contents
  <2> DEFINE next == Append(ProcDir, name)
  <2>4. /\ next \in Paths /\ ProcDir \o <<name>> = next /\ IsPrefix(ProcDir, next) /\ next # ProcDir
        /\ \A q \in Paths : IsPrefix(q, next) => q = next \/ IsPrefix(q, ProcDir)
    BY <1>2, <2>1, PrefixesOfNext
  <2> HIDE DEF next
  <2>5. ProcPath(name) = next
    BY <2>2 DEF next
  <2>6. QED  BY <2>3, <2>4, <2>5
<1>4. ASSUME NEW q \in Paths, IsPrefix(ProcDir, q), IsPrefix(q, ProcPath("self")) PROVE q \in {ProcDir, ProcPath("self")}
  BY <1>2, <1>3, <1>4, PrefixOrder
<1>5. QED  BY <1>2, <1>3, <1>4

\* At most one mount is the last one.
LEMMA OneUncovered ==
    ASSUME b \in Bundles, NEW p, NEW n, NEW i \in NewMounts, NEW j \in NewMounts, Uncovered(i, p, n), Uncovered(j, p, n)
    PROVE  i = j
<1>1. i \in Nat /\ j \in Nat
  BY MountsAre
<1>2. QED  BY <1>1 DEF Uncovered, OverBy

LEMMA MountedProc ==
    ASSUME NEW i \in NewMounts
    PROVE  MountedType(i) = "proc" <=> b.mounts[i].typ = "proc" /\ ~IsBind(i)
  BY DEF MountedType, effective_fstype

\* HasProc in these terms.
LEMMA HasProcIs ==
    ASSUME b \in Bundles, OwnMounts(b), NEW name
    PROVE  /\ HasProc(name, FALSE) <=>
                \E i \in NewMounts : /\ Destination(i) = ProcDir /\ MountedType(i) = "proc"
                                     /\ ~OverBy(i, ProcPath(name), Len(b.mounts))
           /\ HasProc(name, TRUE) <=>
                \E i \in NewMounts : /\ Destination(i) = ProcDir /\ MountedType(i) = "proc"
                                     /\ ~OverBy(i, ProcPath(name), Len(b.mounts))
                                     /\ (ReadonlyMount(i) => LoosenedBy(i, Len(b.mounts)))
<1>1. ASSUME NEW i \in NewMounts
      PROVE  /\ CoveredAfter(i, ProcPath(name)) <=> OverBy(i, ProcPath(name), Len(b.mounts))
             /\ Loosened(i) <=> LoosenedBy(i, Len(b.mounts))
  BY MountsAre DEF CoveredAfter, OverBy, Loosened, LoosenedBy
<1>2. QED  BY <1>1, MountedProc DEF HasProc, ProcDir, ProcPath

LEMMA ProcUncovered ==
    ASSUME b \in Bundles, NEW name \in {"self", "sys"}, NEW i \in NewMounts, Destination(i) = ProcDir,
           ~OverBy(i, ProcPath(name), Len(b.mounts))
    PROVE  Uncovered(i, ProcPath(name), Len(b.mounts))
  BY MountsAre, ProcPaths DEF Uncovered

\* What is seen at /proc is a mount of config.json, and writable only if that is.
LEMMA SeenIsAsked ==
    ASSUME b \in Bundles, OwnMounts(b), NEW f, Views(f), NEW name \in {"self", "sys"}, SeesProc(f, name)
    PROVE  /\ HasProc(name, FALSE)
           /\ ~MountOf(f, ProcPath(name)).ro => HasProc(name, TRUE)
<1> DEFINE m == MountOf(f, ProcPath(name))
           n == Len(b.mounts)
<1>1. m.fs.typ = "proc" /\ m.fs.at = ProcDir
  BY DEF SeesProc, IsProc
<1>2. PICK i \in NewMounts : Uncovered(i, ProcPath(name), n) /\ Comes(m, i) /\ Firm(m, i, n)
  BY <1>1, ProcPaths DEF Views, Shown, OfRoot, Covering
<1>3. Destination(i) = ProcDir /\ MountedType(i) = "proc" /\ ~OverBy(i, ProcPath(name), n)
  BY <1>1, <1>2 DEF Comes, Uncovered
<1>4. ~m.ro /\ ReadonlyMount(i) => LoosenedBy(i, n)
  BY <1>2 DEF Firm
<1>5. QED  BY <1>3, <1>4, HasProcIs
-----------------------------------------------------------------------------
(***************************************************************************)
(* What the operations do to the table: nothing, or one mount more.        *)
(***************************************************************************)
Alike(f, g) == FsTyped(g) /\ g.tab = f.tab /\ f.has \subseteq g.has
Puts(f, g, fs, at, ro) ==
    /\ FsTyped(g) /\ g.tab = Append(f.tab, Mounted(fs, at, ro))
    /\ f.has \cup NamesIn(fs, at) \subseteq g.has

LEMMA AlikeSees ==
    ASSUME NEW f, NEW g, Fine(f), Alike(f, g)
    PROVE  /\ Fine(g) /\ Sees(f, g) /\ \A q \in Paths : MountOf(g, q) = MountOf(f, q)
           /\ \A q \in Paths : Exists(f, q) => Exists(g, q)
<1>1. Sees(f, g) /\ \A q \in Paths : MountOf(g, q) = MountOf(f, q)
  BY SameTabSees DEF Alike
<1>2. QED  BY <1>1, SeesNames DEF Sees

LEMMA AddPuts ==
    ASSUME NEW f, FsTyped(f), NEW fs, NEW at, NEW ro \in BOOLEAN
    PROVE  Puts(f, Add(f, fs, at, ro), fs, at, ro) /\ Add(f, fs, at, ro).ok = f.ok
<1> DEFINE t == Append(f.tab, Mounted(fs, at, ro))
           has == f.has \cup NamesIn(fs, at)
           leaks == f.leaks \/ (f.prop = "shared" /\ f.old)
           g1 == [f EXCEPT !.tab = t]
           g2 == [g1 EXCEPT !.has = has]
           g3 == [g2 EXCEPT !.leaks = leaks]
<1>1. FsShape(f)
  BY DEF FsTyped
<1>2. Add(f, fs, at, ro) = g3
  BY <1>1 DEF Add, NamesIn, FsShape
<1>3. FsTyped(Add(f, fs, at, ro))
  BY AddKeeps DEF Keeps
<1> HIDE DEF t, has, leaks
<1>4. g1.tab = t /\ g1.ok = f.ok /\ FsShape(g1)
  BY <1>1 DEF FsShape
<1> HIDE DEF g1
<1>5. g2.tab = t /\ g2.has = has /\ g2.ok = f.ok /\ FsShape(g2)
  BY <1>4 DEF FsShape
<1> HIDE DEF g2
<1>6. g3.tab = t /\ g3.has = has /\ g3.ok = f.ok
  BY <1>5 DEF FsShape
<1>7. QED  BY <1>2, <1>3, <1>6 DEF Puts, t, has

LEMMA PutsSees ==
    ASSUME NEW f, NEW g, Fine(f), NEW fs, NEW at \in Paths, NEW ro \in BOOLEAN, Puts(f, g, fs, at, ro)
    PROVE  /\ Fine(g)
           /\ \A q \in Paths : MountOf(g, q) = IF IsPrefix(at, q) THEN Mounted(fs, at, ro) ELSE MountOf(f, q)
<1> DEFINE h == Add(f, fs, at, ro)
<1>1. Covered(f, h, fs, at, ro)
  BY AddSees
<1>2. h.tab = Append(f.tab, Mounted(fs, at, ro))
  BY AddPuts DEF Fine, Puts
<1> HIDE DEF h
<1>3. Fine(h) /\ Alike(h, g)
  BY <1>1, <1>2 DEF Covered, Puts, Alike
<1>4. Fine(g) /\ \A q \in Paths : MountOf(g, q) = MountOf(h, q)
  BY <1>3, AlikeSees
<1>5. QED  BY <1>1, <1>4 DEF Covered

LEMMA PutsBetween ==
    ASSUME NEW f, NEW f1, NEW g1, NEW g, NEW fs, NEW at, NEW ro, Alike(f, f1), Puts(f1, g1, fs, at, ro), Alike(g1, g)
    PROVE  Puts(f, g, fs, at, ro)
  BY DEF Alike, Puts

LEMMA AlikeBoth == ASSUME NEW f, NEW g, NEW h, Alike(f, g), Alike(g, h) PROVE Alike(f, h)
  BY DEF Alike

LEMMA AlikeSelf == ASSUME NEW f, FsTyped(f) PROVE Alike(f, f)
  BY DEF Alike

LEMMA HasAlike == ASSUME NEW f, FsTyped(f), NEW has, f.has \subseteq has PROVE Alike(f, [f EXCEPT !.has = has])
<1> DEFINE g == [f EXCEPT !.has = has]
<1>1. g.tab = f.tab /\ g.has = has
  BY HasIs
<1>2. FsTyped(g)
  BY HasKeeps DEF Plainly, Keeps
<1> HIDE DEF g
<1>3. Alike(f, g)
  BY <1>1, <1>2 DEF Alike
<1>4. QED  BY <1>3 DEF g

\* Make needs room only for what is not there.
LEMMA MakeAlike ==
    ASSUME NEW f, FsTyped(f), NEW p
    PROVE  /\ Make(f, p).ok => Alike(f, Make(f, p)) /\ f.ok
           /\ f.ok /\ Holds(f, p) => Make(f, p).ok
<1> DEFINE new == {SubSeq(p, 1, i) : i \in {j \in 1..Len(p) : ~Exists(f, SubSeq(p, 1, j))}}
           more == f.has \cup {[fs |-> MountOf(f, q).fs, path |-> q] : q \in new}
           after == [f EXCEPT !.has = more]
           can == Holds(f, p)
           g == Make(f, p)
<1>1. g = IF new = {} THEN f ELSE Then(f, can, after)
  BY DEF Make
<1>2. f.has \subseteq more
  OBVIOUS
<1> HIDE DEF new, more
<1>3. Alike(f, after)
  BY <1>2, HasAlike
<1>4. after.ok = f.ok
  BY HasIs
<1>5. Alike(f, f)
  BY AlikeSelf
<1> HIDE DEF after, can, g
<1>6. g.ok => Alike(f, g) /\ f.ok
  BY <1>1, <1>3, <1>5, ThenOk
<1>7. f.ok /\ can => g.ok
  BY <1>1, <1>4 DEF Then
<1>8. QED  BY <1>6, <1>7 DEF can, g

LEMMA MakeReached == ASSUME NEW f, NEW p \in Paths, Reached(f, p) PROVE Make(f, p) = f
<1> DEFINE new == {SubSeq(p, 1, i) : i \in {j \in 1..Len(p) : ~Exists(f, SubSeq(p, 1, j))}}
<1>1. new = {}
  BY PrefixSubIs DEF Reached
<1>2. QED  BY <1>1 DEF Make

\* There is room for a path, or it is there.
LEMMA MakeWorks ==
    ASSUME NEW f, Orderly(f), f.ok, NEW p \in Paths, Exists(f, p) \/ Holds(f, p)
    PROVE  Make(f, p).ok /\ Alike(f, Make(f, p))
<1>1. FsTyped(f)
  BY DEF Orderly, Fine
<1>2. CASE Exists(f, p)
  BY <1>1, <1>2, OrderlyReached, MakeReached, AlikeSelf
<1>3. CASE Holds(f, p)
  BY <1>1, <1>3, MakeAlike
<1>4. QED  BY <1>2, <1>3
\* At most a file system of this type at this place is new.
Lays(f, g, typ, at) ==
    \/ Alike(f, g)
    \/ \E fs : \E ro \in BOOLEAN : Puts(f, g, fs, at, ro) /\ fs.typ = typ /\ fs.at = at


LEMMA BindableMount ==
    ASSUME NEW f, Fine(f), Bindable(f), NEW p \in Paths PROVE MountOf(f, p).unbindable = FALSE
<1>1. Top(f, p) \in 1..Len(f.tab)
  BY TopThere DEF IsTop
<1>2. QED  BY <1>1 DEF MountOf, Bindable

LEMMA PutsBindable ==
    ASSUME NEW f, FsTyped(f), NEW g, NEW fs, NEW at, NEW ro \in BOOLEAN, Puts(f, g, fs, at, ro), Bindable(f)
    PROVE  Bindable(g)
<1> DEFINE m == Mounted(fs, at, ro)
           n == Len(f.tab)
<1>1. IsMount(m) /\ m.unbindable = FALSE
  BY DEF IsMount, Mounted
<1>2. IsTable(f.tab) /\ n \in Nat
  BY TableIs DEF FsTyped
<1>3. g.tab = Append(f.tab, m)
  BY DEF Puts
<1> HIDE DEF m
<1>4. Len(g.tab) = n + 1 /\ (\A i \in 1..n : g.tab[i] = f.tab[i]) /\ g.tab[n + 1] = m
  BY <1>1, <1>2, <1>3, TableAppend
<1>5. ASSUME NEW i \in 1..(n + 1) PROVE g.tab[i].unbindable = FALSE
  <2>1. i \in 1..n \/ i = n + 1
    BY <1>2
  <2>2. QED  BY <1>1, <1>4, <2>1 DEF Bindable
<1>6. QED  BY <1>4, <1>5 DEF Bindable

LEMMA LaysBindable ==
    ASSUME NEW f, FsTyped(f), NEW g, NEW typ, NEW at, Lays(f, g, typ, at), Bindable(f) PROVE Bindable(g)
  BY PutsBindable DEF Lays, Alike, Bindable

LEMMA NodeLays ==
    ASSUME NEW f, FsTyped(f), NEW p, NEW onHost, NEW user_namespace, node(f, p, onHost, user_namespace).ok
    PROVE  Lays(f, node(f, p, onHost, user_namespace), "hostdev", p)
<1> DEFINE parent == Make(f, Front(p))
           made == Make(parent, p)
           no == FALSE
           fs == Fs("hostdev", "file", p)
           after == Add(made, fs, p, no)
           bound == Then(made, onHost, after)
           alone == Make(f, p)
           g == node(f, p, onHost, user_namespace)
<1>1. g = IF ~f.ok \/ Exists(f, p) THEN f ELSE IF user_namespace THEN bound ELSE alone
  BY DEF node, bind
<1>2. g.ok
  OBVIOUS
<1>3. fs.typ = "hostdev" /\ fs.at = p /\ no \in BOOLEAN
  BY DEF Fs
<1>4. FsTyped(parent) /\ (parent.ok => Alike(f, parent)) /\ (alone.ok => Alike(f, alone))
  BY MakeKeeps, MakeAlike DEF Plainly, Keeps
<1>5. Alike(f, f)
  BY AlikeSelf
<1> HIDE DEF parent
<1>6. FsTyped(made) /\ (made.ok => Alike(parent, made) /\ parent.ok)
  BY <1>4, MakeKeeps, MakeAlike DEF Plainly, Keeps
<1> HIDE DEF made, fs, no
<1>7. Puts(made, after, fs, p, no)
  BY <1>3, <1>6, AddPuts
<1> HIDE DEF after, alone, g
<1>8. CASE g = bound
  <2>1. g = after /\ made.ok
    BY <1>2, <1>6, <1>8, ThenOk
  <2>2. Alike(f, made) /\ Alike(g, g)
    BY <1>4, <1>6, <1>7, <2>1, AlikeBoth, AlikeSelf DEF Puts
  <2>3. Puts(f, g, fs, p, no)
    BY <1>7, <2>1, <2>2, PutsBetween
  <2>4. Lays(f, g, "hostdev", p)
    BY <1>3, <2>3 DEF Lays
  <2>5. QED  BY <2>4 DEF g
<1>9. CASE g \in {f, alone}
  <2>1. Lays(f, g, "hostdev", p)
    BY <1>2, <1>4, <1>5, <1>9 DEF Lays
  <2>2. QED  BY <2>1 DEF g
<1>10. QED  BY <1>1, <1>8, <1>9

LEMMA AboveFront ==
    ASSUME NEW p \in Paths, p # <<>>, NEW q \in Paths, IsPrefix(q, p), q # p
    PROVE  Front(p) \in Paths /\ IsPrefix(Front(p), p) /\ IsPrefix(q, Front(p))
<1> DEFINE n == Len(p) - 1
           r == Front(p)
           x == p[Len(p)]
<1>1. r \in Paths /\ IsPrefix(r, p)
  BY FrontAbove
<1>2. Len(p) \in Nat /\ Len(p) # 0 /\ Len(p) \in 1..Len(p)
  BY LenProperties, EmptySeq DEF Paths
<1>3. x \in Names
  BY <1>2, ElementOfSeq DEF Paths
<1>4. Len(r) = n /\ \A i \in 1..n : r[i] = p[i]
  <2>1. n \in Nat
    BY <1>2
  <2>2. \A i \in 1..n : p[i] \in Names
    BY <1>2, ElementOfSeq DEF Paths
  <2>3. r = SubSeq(p, 1, n)
    BY DEF Front
  <2> HIDE DEF r, n
  <2>4. QED  BY <2>1, <2>2, <2>3, SubSeqProperties
<1>5. Append(r, x) = p
  <2>1. r \in Seq(Names) /\ p \in Seq(Names)
    BY <1>1 DEF Paths
  <2> DEFINE a == Append(r, x)
  <2>2. a \in Seq(Names) /\ Len(a) = Len(r) + 1 /\ (\A i \in 1..Len(r) : a[i] = r[i]) /\ a[Len(r) + 1] = x
    BY <1>3, <2>1, AppendProperties
  <2> HIDE DEF a, r
  <2>3. Len(a) = Len(p)
    BY <1>2, <1>4, <2>2
  <2>4. ASSUME NEW i \in 1..Len(p) PROVE a[i] = p[i]
    <3>1. i \in 1..Len(r) \/ i = Len(r) + 1
      BY <1>2, <1>4
    <3>2. QED  BY <1>2, <1>4, <2>2, <3>1
  <2>5. a = p
    BY <2>1, <2>2, <2>3, <2>4, SeqEqual
  <2>6. QED  BY <2>5 DEF a
<1> HIDE DEF r, x
<1>6. IsPrefix(q, r)
  BY <1>1, <1>3, <1>5, PrefixesOfNext
<1>7. QED  BY <1>1, <1>6 DEF r

LEMMA NodeWorks ==
    ASSUME NEW f, Orderly(f), f.ok, NEW p \in Paths, Exists(f, p) \/ Holds(f, p), NEW onHost, onHost, NEW user_namespace
    PROVE  node(f, p, onHost, user_namespace).ok
<1>1. Fine(f) /\ FsTyped(f)
  BY DEF Orderly, Fine
<1>2. CASE Exists(f, p)
  BY <1>2 DEF node
<1>3. CASE ~Exists(f, p) /\ Holds(f, p)
  <2> DEFINE parent == Make(f, Front(p))
             made == Make(parent, p)
             no == FALSE
             fs == Fs("hostdev", "file", p)
             after == Add(made, fs, p, no)
  <2>1. /\ node(f, p, onHost, user_namespace) = IF user_namespace THEN Then(made, onHost, after) ELSE Make(f, p)
        /\ Make(f, p).ok
    BY <1>1, <1>3, MakeAlike DEF node, bind
  <2>2. p # <<>> /\ MountOf(f, p).at # p
    BY <1>1, <1>3, RootExists, ExistsIs
  <2>3. Front(p) \in Paths /\ IsPrefix(Front(p), p) /\ IsPrefix(MountOf(f, p).at, Front(p))
    BY <1>1, <2>2, MountIsAbove, AboveFront
  <2>4. MountOf(f, Front(p)) = MountOf(f, p)
    BY <1>1, <2>3, SameMount
  <2>5. Holds(f, Front(p))
    BY <1>3, <2>4 DEF Holds
  <2>6. parent.ok /\ Alike(f, parent)
    BY <2>3, <2>5, MakeWorks
  <2> HIDE DEF parent
  <2>7. Holds(parent, p) /\ FsTyped(parent)
    BY <1>1, <1>3, <2>6, AlikeSees DEF Holds, Alike
  <2>8. made.ok /\ FsTyped(made)
    BY <2>6, <2>7, MakeAlike DEF Alike
  <2> HIDE DEF made, fs
  <2>9. after.ok
    BY <2>8, AddPuts
  <2>10. Then(made, onHost, after).ok
    BY <2>8, <2>9 DEF Then
  <2>11. QED  BY <2>1, <2>10
<1>4. QED  BY <1>2, <1>3

LEMMA ChownAlike ==
    ASSUME NEW f, FsTyped(f), NEW p, NEW hostUser
    PROVE  /\ chown(f, p, hostUser).ok => Alike(f, chown(f, p, hostUser))
           /\ f.ok /\ hostUser => chown(f, p, hostUser).ok
<1> DEFINE touched == f.touched \cup {"owner of a device"}
           after == [f EXCEPT !.touched = touched]
           at == \E m \in ToSet(f.tab) : m = MountOf(f, p) /\ m.fs.typ = "hostdev"
           g == chown(f, p, hostUser)
<1>1. g = IF at THEN Then(f, hostUser, after) ELSE f
  BY DEF chown
<1> HIDE DEF at, touched
<1>2. FsTyped(after) /\ after.tab = f.tab /\ after.has = f.has /\ after.ok = f.ok
  BY DEF FsTyped, FsShape
<1> HIDE DEF after, g
<1>3. Alike(f, after) /\ Alike(f, f)
  BY <1>2 DEF Alike
<1>4. g.ok => Alike(f, g)
  BY <1>1, <1>3, ThenOk
<1>5. f.ok /\ hostUser => g.ok
  BY <1>1, <1>2 DEF Then
<1>6. QED  BY <1>4, <1>5 DEF g
LEMMA DeviceLays ==
    ASSUME NEW f, FsTyped(f), NEW d, NEW user_namespace, NEW hostUser, extra_device(f, d, user_namespace, hostUser).ok
    PROVE  Lays(f, extra_device(f, d, user_namespace, hostUser), "hostdev", resolve(d.path))
<1> DEFINE p == resolve(d.path)
           there == node(f, p, d.onHost, user_namespace)
           owned == chown(there, p, hostUser)
           g == extra_device(f, d, user_namespace, hostUser)
<1>1. g = IF there.ok /\ d.owned THEN owned ELSE there
  BY DEF extra_device
<1>2. g.ok
  OBVIOUS
<1> HIDE DEF p
<1>3. there.ok => Lays(f, there, "hostdev", p)
  BY NodeLays
<1> HIDE DEF there
<1>4. there.ok
  <2> HIDE DEF owned, g
  <2>1. QED  BY <1>1, <1>2
<1>5. FsTyped(there)
  BY <1>3, <1>4 DEF Lays, Alike, Puts
<1>6. owned.ok => Alike(there, owned)
  BY <1>5, ChownAlike
<1> HIDE DEF owned, g
<1>7. CASE g = there
  BY <1>3, <1>4, <1>7 DEF g, p
<1>8. CASE g = owned
  <2>1. Alike(there, g)
    BY <1>2, <1>6, <1>8
  <2>2. FsTyped(f) => Alike(f, f)
    BY AlikeSelf
  <2>3. Lays(f, g, "hostdev", p)
    BY <1>3, <1>4, <2>1, <2>2, AlikeBoth, PutsBetween DEF Lays
  <2>4. QED  BY <2>3 DEF g, p
<1>9. QED  BY <1>1, <1>7, <1>8

LEMMA DeviceWorks ==
    ASSUME NEW f, Orderly(f), f.ok, NEW d, NEW p \in Paths, p = resolve(d.path), Exists(f, p) \/ Holds(f, p), d.onHost,
           NEW user_namespace, NEW hostUser, d.owned => hostUser
    PROVE  extra_device(f, d, user_namespace, hostUser).ok
<1> DEFINE there == node(f, p, d.onHost, user_namespace)
           owned == chown(there, p, hostUser)
<1>1. extra_device(f, d, user_namespace, hostUser) = IF there.ok /\ d.owned THEN owned ELSE there
  BY DEF extra_device
<1>2. there.ok
  BY NodeWorks
<1>3. FsTyped(f)
  BY DEF Orderly, Fine
<1>4. Lays(f, there, "hostdev", p)
  BY <1>2, <1>3, NodeLays
<1> HIDE DEF there
<1>5. FsTyped(there)
  BY <1>4 DEF Lays, Alike, Puts
<1>6. hostUser => owned.ok
  BY <1>2, <1>5, ChownAlike
<1> HIDE DEF owned
<1>7. QED  BY <1>1, <1>2, <1>6

LEMMA ConsoleLays ==
    ASSUME NEW f, FsTyped(f), setup_console(f).ok
    PROVE  Lays(f, setup_console(f), "pty", Dev("console"))
<1> DEFINE p == Dev("console")
           made == Make(f, p)
           no == FALSE
           fs == Fs("pty", "none", p)
           after == Add(made, fs, p, no)
           can == ~MountOf(made, <<"dev", "pts">>).unbindable
           bound == Then(made, can, after)
           g == setup_console(f)
<1>1. g = Then(f, HasPtys(f), bound)
  BY DEF setup_console, bind_console
<1>2. fs.typ = "pty" /\ fs.at = p /\ no \in BOOLEAN
  BY DEF Fs
<1>3. FsTyped(made) /\ (made.ok => Alike(f, made))
  BY MakeKeeps, MakeAlike DEF Plainly, Keeps
<1>4. g.ok
  OBVIOUS
<1> HIDE DEF made, fs, no
<1>5. Puts(made, after, fs, p, no)
  BY <1>2, <1>3, AddPuts
<1> HIDE DEF after, can
<1>6. g = bound
  <2> HIDE DEF bound, g
  <2>1. QED  BY <1>1, <1>4, ThenOk
<1> HIDE DEF g
<1>7. g = after /\ made.ok
  BY <1>3, <1>4, <1>6, ThenOk
<1>8. Alike(f, made) /\ Alike(g, g)
  BY <1>3, <1>5, <1>7, AlikeSelf DEF Puts
<1>9. Puts(f, g, fs, p, no)
  BY <1>5, <1>7, <1>8, PutsBetween
<1>10. Lays(f, g, "pty", p)
  BY <1>2, <1>9 DEF Lays
<1>11. QED  BY <1>10 DEF g, p

LEMMA ConsoleWorks ==
    ASSUME NEW f, Orderly(f), f.ok, HasPtys(f), Bindable(f), Exists(f, Dev("console")) \/ Holds(f, Dev("console"))
    PROVE  setup_console(f).ok
<1> DEFINE p == Dev("console")
           made == Make(f, p)
           no == FALSE
           fs == Fs("pty", "none", p)
           after == Add(made, fs, p, no)
           can == ~MountOf(made, <<"dev", "pts">>).unbindable
           bound == Then(made, can, after)
<1>1. setup_console(f) = IF f.ok /\ HasPtys(f) THEN bound ELSE Fail(f)
  BY DEF setup_console, bind_console, Then
<1>2. p \in Paths /\ Dev("pts") \in Paths /\ Dev("pts") = <<"dev", "pts">>
  <2>1. "console" \in Names /\ "pts" \in Names
    BY DEF Names
  <2>2. p \in Paths /\ Dev("pts") \in Paths
    BY <2>1, DevIs
  <2>3. QED  BY <2>2 DEF Dev
<1>3. made.ok /\ Alike(f, made)
  BY <1>2, MakeWorks
<1> HIDE DEF made
<1>4. MountOf(made, Dev("pts")).unbindable = FALSE /\ FsTyped(made)
  <2>1. Fine(made) /\ FsTyped(made) /\ Bindable(made)
    BY <1>3, AlikeSees DEF Alike, Orderly, Bindable
  <2>2. QED  BY <1>2, <2>1, BindableMount
<1>5. can
  BY <1>2, <1>4
<1> HIDE DEF can, fs
<1>6. after.ok
  BY <1>3, <1>4, AddPuts
<1>7. bound.ok
  BY <1>3, <1>5, <1>6 DEF Then
<1>8. QED  BY <1>1, <1>7

\* What a mask is put over was there.
LEMMA MaskLays ==
    ASSUME NEW f, FsTyped(f), NEW p, mask_one(f, p).ok
    PROVE  LET g == mask_one(f, p)
           IN  /\ ~Exists(f, p) => g = f
               /\ Exists(f, p) => \E fs : \E ro \in BOOLEAN : Puts(f, g, fs, p, ro) /\ fs.typ \in {"mask", "null"} /\ fs.at = p
<1> DEFINE no == FALSE
           yes == TRUE
           null == Fs("null", "none", p)
           empty == Fs("mask", "none", p)
           can == Exists(f, Dev("null")) /\ ~MountOf(f, Dev("null")).unbindable
           file == Add(f, null, p, no)
           dir == Add(f, empty, p, yes)
           g == mask_one(f, p)
<1>1. g = IF ~f.ok \/ ~Exists(f, p) THEN f ELSE IF IsFile(p) THEN Then(f, can, file) ELSE dir
  BY DEF mask_one
<1>2. g.ok /\ no \in BOOLEAN /\ yes \in BOOLEAN
  OBVIOUS
<1>3. null.typ = "null" /\ null.at = p /\ empty.typ = "mask" /\ empty.at = p
  BY DEF Fs
<1> HIDE DEF no, yes, null, empty, can
<1>4. Puts(f, file, null, p, no) /\ Puts(f, dir, empty, p, yes)
  BY <1>2, AddPuts
<1> HIDE DEF file, dir, g
<1>5. Exists(f, p) => g \in {file, dir}
  BY <1>1, <1>2, ThenOk
<1>6. ~Exists(f, p) => g = f
  BY <1>1
<1>7. Exists(f, p) => \E fs : \E ro \in BOOLEAN : Puts(f, g, fs, p, ro) /\ fs.typ \in {"mask", "null"} /\ fs.at = p
  BY <1>2, <1>3, <1>4, <1>5
<1>8. QED  BY <1>6, <1>7 DEF g

LEMMA MaskWorks ==
    ASSUME NEW f, Fine(f), f.ok, Bindable(f), NEW p, IsFile(p) => Exists(f, Dev("null"))
    PROVE  mask_one(f, p).ok
<1> DEFINE no == FALSE
           yes == TRUE
           null == Fs("null", "none", p)
           empty == Fs("mask", "none", p)
           can == Exists(f, Dev("null")) /\ ~MountOf(f, Dev("null")).unbindable
           file == Add(f, null, p, no)
           dir == Add(f, empty, p, yes)
<1>1. mask_one(f, p) = IF ~Exists(f, p) THEN f ELSE IF IsFile(p) THEN Then(f, can, file) ELSE dir
  BY DEF mask_one
<1>2. IsFile(p) => can
  BY BindableMount, DevIs DEF Names
<1> HIDE DEF no, yes, null, empty, can
<1>3. no \in BOOLEAN /\ yes \in BOOLEAN /\ FsTyped(f)
  BY DEF no, yes, Fine
<1>4. file.ok /\ dir.ok
  BY <1>3, AddPuts
<1> HIDE DEF file, dir
<1>5. QED  BY <1>1, <1>2, <1>4 DEF Then
\* A mount of config.json: a file system at its place, or another flag for what is mounted there.
Turns(f, g, flags, at) ==
    /\ Fine(g) /\ f.has \subseteq g.has
    /\ \A q \in Paths :
          /\ MountOf(g, q).fs = MountOf(f, q).fs
          /\ \/ MountOf(g, q).ro = MountOf(f, q).ro
             \/ "remount" \in flags /\ MountOf(f, q).at = at /\ MountOf(g, q).ro = ("ro" \in flags)

KindOf(m, flags) ==
    IF "bind" \notin flags THEN effective_fstype(m.typ) ELSE IF m.source = "file" THEN "hostfile" ELSE "hostdir"
Stays(flags) == "ro" \in flags /\ "bind" \notin flags

Brings(f, g, m, flags, at) ==
    /\ Adds(flags) => /\ \E fs : Puts(f, g, fs, at, Stays(flags)) /\ fs.at = at /\ fs.typ = KindOf(m, flags)
                      /\ "bind" \notin flags => KindOf(m, flags) \in DOMAIN Governs
    /\ ~Adds(flags) => Turns(f, g, flags, at)

LEMMA MountBrings ==
    ASSUME NEW f, Fine(f), NEW m, NEW at \in Paths, NEW flags, NEW able,
           Mount(f, m, at, effective_fstype(m.typ), flags, able).ok
    PROVE  Brings(f, Mount(f, m, at, effective_fstype(m.typ), flags, able), m, flags, at)
<1> DEFINE props == flags \cap {"private", "slave", "shared", "unbindable"}
           fstype == effective_fstype(m.typ)
           ro == "ro" \in flags
           un == "unbindable" \in props
           bound == Fs(IF m.source = "file" THEN "hostfile" ELSE "hostdir", m.source, at)
           new == NewFs(f, fstype, m.source, at)
           no == FALSE
           there == MountPoint(f, at)
           found == m.source # "gone"
           changes == flags \ props \subseteq {"rec"} /\ MountPoint(f, at)
           may == fstype \in DOMAIN Governs /\ Governs[fstype] \in able
           remounted == SetRo(f, at, ro)
           bind1 == Add(f, bound, at, no)
           changed == [f EXCEPT !.tab[Top(f, at)].unbindable = un]
           mounted == Add(f, new, at, ro)
           g == Mount(f, m, at, fstype, flags, able)
<1>1. g = IF "remount" \in flags THEN Then(f, there, remounted)
          ELSE IF "bind" \in flags THEN Then(f, found, bind1)
          ELSE IF props # {} THEN Then(f, changes, changed) ELSE Then(f, may, mounted)
  BY DEF Mount
<1>2. g.ok /\ FsTyped(f)
  BY DEF Fine
<1>3. CASE "remount" \in flags
  <2>1. there => Turns(f, remounted, flags, at)
    <3>1. SUFFICES ASSUME there PROVE Turns(f, remounted, flags, at)
      OBVIOUS
    <3>2. Flagged(f, remounted, at, ro)
      <4>1. ro \in BOOLEAN
        OBVIOUS
      <4> HIDE DEF ro
      <4>2. QED  BY <4>1, SetRoSees
    <3>3. MountOf(f, at).at = at
      BY <3>1 DEF MountPoint
    <3>4. \A q \in Paths : Top(f, q) = Top(f, at) => MountOf(f, q).at = at
      BY <3>3 DEF MountOf
    <3> HIDE DEF remounted
    <3>5. QED  BY <1>3, <3>2, <3>4 DEF Flagged, Sees, Turns
  <2>2. ~Adds(flags)
    BY <1>3 DEF Adds
  <2> HIDE DEF remounted, there, g
  <2>3. g = Then(f, there, remounted) /\ Then(f, there, remounted).ok
    BY <1>1, <1>2, <1>3
  <2>4. g = remounted /\ there
    BY <1>2, <2>3, ThenOk
  <2>5. Brings(f, g, m, flags, at)
    BY <2>1, <2>2, <2>4 DEF Brings
  <2>6. QED  BY <2>5 DEF g
<1>4. CASE "remount" \notin flags /\ "bind" \in flags
  <2>1. no \in BOOLEAN /\ no = Stays(flags) /\ bound.at = at /\ bound.typ = KindOf(m, flags)
    BY <1>4 DEF Stays, Fs, KindOf
  <2> HIDE DEF no, bound
  <2>2. Puts(f, bind1, bound, at, no)
    BY <1>2, <2>1, AddPuts
  <2> HIDE DEF bind1, found, g
  <2>3. g = Then(f, found, bind1) /\ Then(f, found, bind1).ok
    BY <1>1, <1>2, <1>4
  <2>4. g = bind1
    BY <1>2, <2>3, ThenOk
  <2>5. Brings(f, g, m, flags, at)
    BY <1>4, <2>1, <2>2, <2>4 DEF Brings, Adds
  <2>6. QED  BY <2>5 DEF g
<1>5. CASE "remount" \notin flags /\ "bind" \notin flags /\ props # {}
  <2>1. ~Adds(flags)
    BY <1>5 DEF Adds
  <2> HIDE DEF un
  <2>2. Sees(f, changed) /\ \A q \in Paths : MountOf(changed, q).ro = MountOf(f, q).ro
    BY UnbindableSees
  <2> HIDE DEF changed
  <2>3. Turns(f, changed, flags, at)
    BY <2>2 DEF Sees, Turns
  <2> HIDE DEF changes, g, props
  <2>4. g = Then(f, changes, changed) /\ Then(f, changes, changed).ok
    BY <1>1, <1>2, <1>5
  <2>5. g = changed
    BY <1>2, <2>4, ThenOk
  <2>6. Brings(f, g, m, flags, at)
    BY <2>1, <2>3, <2>5 DEF Brings
  <2>7. QED  BY <2>6 DEF g
<1>6. CASE "remount" \notin flags /\ "bind" \notin flags /\ props = {}
  <2>1. ro \in BOOLEAN /\ ro = Stays(flags) /\ new.at = at /\ new.typ = KindOf(m, flags)
    BY <1>6 DEF Stays, NewFs, KindOf
  <2> HIDE DEF ro, new
  <2>2. Puts(f, mounted, new, at, ro)
    BY <1>2, <2>1, AddPuts
  <2> HIDE DEF mounted, g, props
  <2>3. g = mounted /\ fstype \in DOMAIN Governs
    <3>1. may => fstype \in DOMAIN Governs
      OBVIOUS
    <3> HIDE DEF may
    <3>2. g = Then(f, may, mounted) /\ Then(f, may, mounted).ok
      BY <1>1, <1>2, <1>6
    <3>3. QED  BY <1>2, <3>1, <3>2, ThenOk
  <2>4. KindOf(m, flags) \in DOMAIN Governs
    BY <1>6, <2>3 DEF KindOf
  <2>5. Brings(f, g, m, flags, at)
    <3> HIDE DEF fstype
    <3>1. Adds(flags)
      BY <1>6 DEF Adds, props
    <3>2. \E fs : Puts(f, g, fs, at, Stays(flags)) /\ fs.at = at /\ fs.typ = KindOf(m, flags)
      BY <2>1, <2>2, <2>3
    <3>3. QED  BY <2>4, <3>1, <3>2 DEF Brings
  <2>6. QED  BY <2>5 DEF g
<1>7. QED  BY <1>3, <1>4, <1>5, <1>6

LEMMA MountWorks ==
    ASSUME NEW f, FsTyped(f), f.ok, NEW m, NEW at, NEW flags, NEW able, Adds(flags),
           IF "bind" \in flags THEN m.source # "gone"
                               ELSE effective_fstype(m.typ) \in DOMAIN Governs /\ Governs[effective_fstype(m.typ)] \in able
    PROVE  Mount(f, m, at, effective_fstype(m.typ), flags, able).ok
<1> DEFINE props == flags \cap {"private", "slave", "shared", "unbindable"}
           fstype == effective_fstype(m.typ)
           ro == "ro" \in flags
           bound == Fs(IF m.source = "file" THEN "hostfile" ELSE "hostdir", m.source, at)
           new == NewFs(f, fstype, m.source, at)
           no == FALSE
           found == m.source # "gone"
           may == fstype \in DOMAIN Governs /\ Governs[fstype] \in able
           bind1 == Add(f, bound, at, no)
           mounted == Add(f, new, at, ro)
<1>1. "remount" \notin flags /\ ("bind" \in flags \/ props = {})
  BY DEF Adds
<1>2. Mount(f, m, at, fstype, flags, able) = IF "bind" \in flags THEN Then(f, found, bind1) ELSE Then(f, may, mounted)
  BY <1>1 DEF Mount
<1>3. no \in BOOLEAN /\ ro \in BOOLEAN
  OBVIOUS
<1>4. IF "bind" \in flags THEN found ELSE may
  OBVIOUS
<1> HIDE DEF fstype, props, ro, bound, new, no, found, may
<1>5. bind1.ok /\ mounted.ok
  BY <1>3, AddPuts
<1> HIDE DEF bind1, mounted
<1>6. Mount(f, m, at, fstype, flags, able).ok
  BY <1>2, <1>4, <1>5 DEF Then
<1>7. QED  BY <1>6 DEF fstype
LEMMA LinkAlike ==
    ASSUME NEW f, FsTyped(f)
    PROVE  /\ link_ptmx(f).ok => Alike(f, link_ptmx(f))
           /\ f.ok /\ Exists(f, DevDir) /\ Holds(f, Dev("ptmx")) => link_ptmx(f).ok
<1> DEFINE can == Exists(f, <<"dev">>) /\ Holds(f, <<"dev", "ptmx">>)
           has == f.has \cup {[fs |-> MountOf(f, <<"dev", "ptmx">>).fs, path |-> <<"dev", "ptmx">>]}
           after == [f EXCEPT !.has = has]
           g == link_ptmx(f)
<1>1. g = Then(f, can, after)
  BY DEF link_ptmx, FsTyped, FsShape
<1>2. f.has \subseteq has
  OBVIOUS
<1>3. Exists(f, DevDir) /\ Holds(f, Dev("ptmx")) => can
  BY DEF DevDir, Dev
<1> HIDE DEF has, can
<1>4. Alike(f, after) /\ after.ok = f.ok
  BY <1>2, HasAlike, HasIs
<1> HIDE DEF after, g
<1>5. g.ok => Alike(f, g)
  BY <1>1, <1>4, ThenOk
<1>6. f.ok /\ can => g.ok
  BY <1>1, <1>4 DEF Then
<1>7. QED  BY <1>3, <1>5, <1>6 DEF g

LEMMA TurnsBetween ==
    ASSUME NEW f, NEW f1, NEW g1, NEW g, NEW flags, NEW at, Fine(f), Alike(f, f1), Turns(f1, g1, flags, at), Alike(g1, g)
    PROVE  Turns(f, g, flags, at)
<1>1. \A q \in Paths : MountOf(f1, q) = MountOf(f, q)
  BY AlikeSees
<1>2. Fine(g) /\ \A q \in Paths : MountOf(g, q) = MountOf(g1, q)
  BY AlikeSees DEF Turns
<1>3. f.has \subseteq g.has
  BY DEF Alike, Turns
<1>4. QED  BY <1>1, <1>2, <1>3 DEF Turns

LEMMA BringsBetween ==
    ASSUME NEW f, NEW f1, NEW g1, NEW g, NEW m, NEW flags, NEW at, Fine(f),
           Alike(f, f1), Brings(f1, g1, m, flags, at), Alike(g1, g)
    PROVE  Brings(f, g, m, flags, at)
  BY PutsBetween, TurnsBetween DEF Brings

LEMMA BringsTyped ==
    ASSUME NEW f, NEW g, NEW m, NEW flags, NEW at, Brings(f, g, m, flags, at) PROVE FsTyped(g)
  BY DEF Brings, Puts, Turns, Fine

LEMMA ApplyBrings ==
    ASSUME NEW f, Fine(f), NEW m, resolve(m.destination) \in Paths, NEW able, apply_one(f, m, able).ok
    PROVE  Brings(f, apply_one(f, m, able), m, parse_options(m.options).flags, resolve(m.destination))
<1> DEFINE at == resolve(m.destination)
           fstype == effective_fstype(m.typ)
           flags == parse_options(m.options).flags
           made == Make(f, at)
           mounted == Mount(made, m, at, effective_fstype(m.typ), flags, able)
           linked == link_ptmx(mounted)
           g == apply_one(f, m, able)
<1>1. g = IF mounted.ok /\ fstype = "devpts" THEN linked ELSE mounted
  BY DEF apply_one
<1>2. FsTyped(made) /\ at \in Paths /\ g.ok /\ FsTyped(f)
  BY MakeKeeps DEF Fine, Plainly, Keeps
<1> HIDE DEF at, fstype, flags
<1>3. mounted.ok
  <2> HIDE DEF mounted, g
  <2>1. QED  BY <1>1, <1>2
<1>4. made.ok
  <2> HIDE DEF made
  <2>1. QED  BY <1>2, <1>3, MountOk
<1>5. Alike(f, made)
  BY <1>2, <1>4, MakeAlike
<1> HIDE DEF made
<1>6. Brings(made, mounted, m, flags, at)
  BY <1>2, <1>3, <1>5, AlikeSees, MountBrings
<1> HIDE DEF mounted
<1>7. FsTyped(mounted)
  BY <1>6, BringsTyped
<1>8. linked.ok => Alike(mounted, linked)
  BY <1>7, LinkAlike
<1> HIDE DEF linked, g
<1>9. Alike(mounted, g)
  BY <1>1, <1>2, <1>7, <1>8, AlikeSelf
<1>10. Brings(f, g, m, flags, at)
  BY <1>5, <1>6, <1>9, BringsBetween
<1>11. QED  BY <1>10 DEF g, flags, at

\* A mount succeeds when there is room for it, and for what a devpts needs once it is mounted.
LEMMA ApplyWorks ==
    ASSUME NEW f, Orderly(f), f.ok, NEW m, NEW at \in Paths, at = resolve(m.destination),
           NEW flags, flags = parse_options(m.options).flags, NEW able,
           Exists(f, at) \/ Holds(f, at), Adds(flags),
           IF "bind" \in flags THEN m.source # "gone"
                               ELSE effective_fstype(m.typ) \in DOMAIN Governs /\ Governs[effective_fstype(m.typ)] \in able,
           \A h : Brings(f, h, m, flags, at) /\ m.typ = "devpts" => Exists(h, DevDir) /\ Holds(h, Dev("ptmx"))
    PROVE  apply_one(f, m, able).ok
<1> DEFINE fstype == effective_fstype(m.typ)
           made == Make(f, at)
           mounted == Mount(made, m, at, effective_fstype(m.typ), flags, able)
           linked == link_ptmx(mounted)
<1>1. apply_one(f, m, able) = IF mounted.ok /\ fstype = "devpts" THEN linked ELSE mounted
  BY DEF apply_one
<1>2. fstype = "devpts" => m.typ = "devpts"
  BY DEF effective_fstype
<1> HIDE DEF fstype
<1>3. made.ok /\ Alike(f, made) /\ Fine(f)
  BY MakeWorks DEF Orderly
<1> HIDE DEF made
<1>4. FsTyped(made) /\ Fine(made)
  BY <1>3, AlikeSees DEF Alike
<1>5. mounted.ok
  BY <1>3, <1>4, MountWorks
<1>6. Brings(made, mounted, m, flags, at)
  BY <1>4, <1>5, MountBrings
<1> HIDE DEF mounted
<1>7. FsTyped(mounted) /\ Alike(mounted, mounted)
  BY <1>6, BringsTyped, AlikeSelf
<1>8. Brings(f, mounted, m, flags, at)
  BY <1>3, <1>6, <1>7, BringsBetween
<1>9. fstype = "devpts" => linked.ok
  BY <1>2, <1>5, <1>7, <1>8, LinkAlike
<1> HIDE DEF linked
<1>10. QED  BY <1>1, <1>5, <1>9
\* A path that is bound to be read-only, and all that is on the same mount with it.
Seals(f, g, p) ==
    /\ Fine(g) /\ g.has = f.has /\ (Bindable(f) => Bindable(g))
    /\ \A q \in Paths :
          /\ MountOf(g, q).fs = MountOf(f, q).fs
          /\ MountOf(f, q).ro => MountOf(g, q).ro
          /\ MountOf(g, q).ro = MountOf(f, q).ro \/ MountOf(g, q).at = p
          /\ \/ MountOf(g, q).at = MountOf(f, q).at
             \/ MountOf(g, q).at = p /\ IsPrefix(MountOf(f, q).at, p) /\ MountOf(g, q).ro

LEMMA SealsSelf == ASSUME NEW f, Fine(f), NEW p PROVE Seals(f, f, p)
  BY DEF Seals

LEMMA SetRoBindable ==
    ASSUME NEW f, FsTyped(f), Bindable(f), NEW p, NEW ro \in BOOLEAN PROVE Bindable(SetRo(f, p, ro))
<1> DEFINE k == Top(f, p)
           t == [f.tab EXCEPT ![k].ro = ro]
           g == [f EXCEPT !.tab = t]
<1>1. SetRo(f, p, ro) = g
  BY DEF SetRo, FsTyped
<1>2. /\ Len(f.tab) \in Nat /\ DOMAIN f.tab = 1..Len(f.tab)
      /\ \A i \in 1..Len(f.tab) : IsMount(f.tab[i]) /\ f.tab[i].unbindable = FALSE
  BY TableIs DEF FsTyped, Bindable
<1>3. DOMAIN t = DOMAIN f.tab
  OBVIOUS
<1>4. \A i \in 1..Len(f.tab) : t[i].unbindable = FALSE
  <2> TAKE i \in 1..Len(f.tab)
  <2>1. t[i] = IF i = k THEN [f.tab[i] EXCEPT !.ro = ro] ELSE f.tab[i]
    BY <1>2
  <2>2. IsMount(f.tab[i]) /\ f.tab[i].unbindable = FALSE
    BY <1>2
  <2>3. QED  BY <2>1, <2>2 DEF IsMount
<1>5. Keeps(f, g)
  BY <1>1, SetRoKeeps DEF Plainly
<1> HIDE DEF t
<1>6. g.tab = t /\ Len(t) = Len(f.tab)
  <2>1. g.tab = t
    BY TabIs
  <2>2. IsTable(t)
    BY <1>5, <2>1 DEF Keeps, FsTyped
  <2>3. QED  BY <1>2, <1>3, <2>1, <2>2, TableIs
<1> HIDE DEF g
<1>7. Bindable(g)
  BY <1>4, <1>6 DEF Bindable
<1>8. QED  BY <1>1, <1>7

LEMMA SetRoSeals ==
    ASSUME NEW f, Fine(f), NEW p \in Paths, MountPoint(f, p)
    PROVE  Seals(f, SetRo(f, p, TRUE), p)
<1> DEFINE yes == TRUE
           g == SetRo(f, p, yes)
<1>1. yes \in BOOLEAN /\ yes = TRUE
  OBVIOUS
<1> HIDE DEF yes
<1>2. Flagged(f, g, p, yes)
  BY <1>1, SetRoSees
<1>3. Bindable(f) => Bindable(g)
  BY <1>1, SetRoBindable DEF Fine
<1>4. MountOf(f, p).at = p
  BY DEF MountPoint
<1>5. \A q \in Paths : Top(f, q) = Top(f, p) => MountOf(f, q).at = p
  BY <1>4 DEF MountOf
<1> HIDE DEF g
<1>6. Seals(f, g, p)
  BY <1>1, <1>2, <1>3, <1>5 DEF Flagged, Sees, Seals
<1>7. QED  BY <1>1, <1>6 DEF g

LEMMA ReadonlySeals ==
    ASSUME NEW f, Fine(f), NEW p \in Paths, readonly_one(f, p).ok
    PROVE  Seals(f, readonly_one(f, p), p)
<1> DEFINE bound == SelfBind(f, p, TRUE)
           set == SetRo(bound, p, TRUE)
           g == readonly_one(f, p)
<1>1. g = IF ~f.ok \/ ~Exists(f, p) THEN f ELSE set
  BY DEF readonly_one
<1>2. CASE g = f
  <2> HIDE DEF g
  <2>1. Seals(f, g, p)
    BY <1>2, SealsSelf
  <2>2. QED  BY <2>1 DEF g
<1>3. CASE g = set
  <2>1. FsTyped(bound)
    BY SelfBindKeeps DEF Fine, Paths, Keeps
  <2>2. bound.ok
    <3>1. set.ok
      BY <1>3
    <3> HIDE DEF bound
    <3>2. QED  BY <2>1, <3>1, SetRoOk
  <2>3. /\ Fine(bound) /\ bound.has = f.has /\ MountOf(bound, p).at = p
        /\ Bindable(f) => Bindable(bound)
        /\ \A q \in Paths : /\ MountOf(bound, q).fs = MountOf(f, q).fs
                            /\ MountOf(bound, q).ro = MountOf(f, q).ro
                            /\ \/ MountOf(bound, q).at = MountOf(f, q).at
                               \/ MountOf(bound, q).at = p /\ IsPrefix(p, q) /\ IsPrefix(MountOf(f, q).at, p)
    BY <2>2, SelfBindSees, ZenonT(60)
  <2> HIDE DEF bound
  <2>4. Seals(bound, set, p) /\ MountOf(set, p).ro /\ Flagged(bound, set, p, TRUE)
    <3>1. bound.tab # <<>>
      BY <2>3, EmptySeq DEF Fine, HasRoot
    <3>2. MountPoint(bound, p)
      BY <2>3, <3>1 DEF MountPoint
    <3>3. QED  BY <2>3, <3>2, SetRoSeals, SetRoNarrows, SetRoSees
  <2> HIDE DEF set, g
  <2>5. ASSUME NEW q \in Paths, MountOf(bound, q).at = p, IsPrefix(p, q)
        PROVE  MountOf(set, q).ro
    <3>1. IsPrefix(p, p)
      BY PrefixOrder
    <3>2. MountOf(set, q).at = p /\ Fine(set)
      BY <2>4, <2>5 DEF Flagged, Sees
    <3>3. MountOf(set, p) = MountOf(set, q)
      BY <2>5, <3>1, <3>2, SameMount
    <3>4. QED  BY <2>4, <3>3
  <2>6. \A q \in Paths : MountOf(set, q).at = MountOf(bound, q).at
    BY <2>4 DEF Flagged, Sees
  <2>7. Seals(f, g, p)
    <3>1. Fine(g) /\ g.has = f.has /\ (Bindable(f) => Bindable(g))
      BY <1>3, <2>3, <2>4 DEF Seals
    <3>2. ASSUME NEW q \in Paths
          PROVE  /\ MountOf(g, q).fs = MountOf(f, q).fs
                 /\ MountOf(f, q).ro => MountOf(g, q).ro
                 /\ MountOf(g, q).ro = MountOf(f, q).ro \/ MountOf(g, q).at = p
                 /\ \/ MountOf(g, q).at = MountOf(f, q).at
                    \/ MountOf(g, q).at = p /\ IsPrefix(MountOf(f, q).at, p) /\ MountOf(g, q).ro
      BY <1>3, <2>3, <2>4, <2>5, <2>6 DEF Seals
    <3>3. QED  BY <3>1, <3>2 DEF Seals
  <2>8. QED  BY <2>7 DEF g
<1>4. QED
  <2> HIDE DEF set
  <2>1. QED  BY <1>1, <1>2, <1>3

LEMMA ReadonlyWorks == ASSUME NEW f, Fine(f), f.ok, Bindable(f), NEW p \in Paths PROVE readonly_one(f, p).ok
<1> DEFINE own == [MountOf(f, p) EXCEPT !.at = p]
           later == SubSeq(f.tab, Top(f, p) + 1, Len(f.tab))
           t == f.tab \o <<own>> \o later
           after == [f EXCEPT !.tab = t]
           can == ~MountOf(f, p).unbindable
           bound == SelfBind(f, p, TRUE)
<1>1. bound = Then(f, can, after)
  BY DEF SelfBind
<1>2. can
  BY BindableMount
<1> HIDE DEF t, can
<1>3. after.ok
  BY TabIs DEF Fine
<1> HIDE DEF after
<1>4. bound.ok
  <2> HIDE DEF bound
  <2>1. QED  BY <1>1, <1>2, <1>3 DEF Then
<1>5. FsTyped(bound)
  BY SelfBindKeeps DEF Fine, Paths, Keeps
<1> HIDE DEF bound
<1>6. SetRo(bound, p, TRUE).ok
  BY <1>4, <1>5, SetRoOk
<1>7. QED  BY <1>6 DEF readonly_one, bound
LEMMA RemountSeals ==
    ASSUME NEW f, Fine(f), NEW m, NEW p \in Paths, p = resolve(m.destination), remount_readonly(f, m).ok
    PROVE  Seals(f, remount_readonly(f, m), p)
<1> DEFINE can == MountPoint(f, p)
           after == SetRo(f, p, TRUE)
           g == remount_readonly(f, m)
<1>1. g \in {f, Then(f, can, after)} /\ g.ok /\ FsTyped(f)
  BY DEF remount_readonly, Fine
<1>2. can => Seals(f, after, p)
  BY SetRoSeals
<1>3. Seals(f, f, p)
  BY SealsSelf
<1> HIDE DEF can, after, g
<1>4. Seals(f, g, p)
  BY <1>1, <1>2, <1>3, ThenOk
<1>5. QED  BY <1>4 DEF g

LEMMA RemountWorks ==
    ASSUME NEW f, Fine(f), f.ok, NEW m,
           "ro" \in parse_options(m.options).flags /\ m.typ = "tmpfs" => MountPoint(f, resolve(m.destination))
    PROVE  remount_readonly(f, m).ok
<1> DEFINE p == resolve(m.destination)
           asked == "ro" \in parse_options(m.options).flags /\ m.typ = "tmpfs"
           can == MountPoint(f, p)
           after == SetRo(f, p, TRUE)
<1>1. remount_readonly(f, m) = IF asked THEN Then(f, can, after) ELSE f
  BY DEF remount_readonly
<1>2. asked => can
  OBVIOUS
<1>3. after.ok
  BY SetRoOk DEF Fine
<1> HIDE DEF asked, can, after
<1>4. QED  BY <1>1, <1>2, <1>3 DEF Then

LEMMA RootfsSeals ==
    ASSUME NEW f, Fine(f)
    PROVE  Seals(f, readonly_rootfs(f), <<>>) /\ MountPoint(f, <<>>) /\ readonly_rootfs(f).ok = f.ok
<1> DEFINE root == <<>>
<1>1. root \in Paths /\ MountOf(f, root).at = root
  <2>1. root \in Paths
    BY EmptySeq DEF Paths
  <2>2. MountOf(f, root).at \in Paths /\ IsPrefix(MountOf(f, root).at, root)
    BY <2>1, MountIsAbove
  <2>3. QED  BY <2>1, <2>2, PrefixOfRoot
<1>2. MountPoint(f, root)
  BY <1>1, EmptySeq DEF MountPoint, Fine, HasRoot
<1> HIDE DEF root
<1>3. Seals(f, SetRo(f, root, TRUE), root) /\ SetRo(f, root, TRUE).ok = f.ok
  BY <1>1, <1>2, SetRoSeals, SetRoOk DEF Fine
<1>4. QED  BY <1>2, <1>3 DEF readonly_rootfs, root

LEMMA OldIs ==
    ASSUME NEW f, FsTyped(f), NEW old
    PROVE  FsTyped([f EXCEPT !.old = old]) /\ [f EXCEPT !.old = old].ok = f.ok
<1> DEFINE g == [f EXCEPT !.old = old]
<1>1. g.tab = f.tab /\ g.has = f.has /\ g.ok = f.ok /\ g.leaks = f.leaks /\ FsShape(g)
  BY DEF FsTyped, FsShape
<1> HIDE DEF g
<1>2. FsTyped(g) /\ g.ok = f.ok
  BY <1>1 DEF FsTyped
<1>3. QED  BY <1>2 DEF g

LEMMA PivotWorks ==
    ASSUME NEW f, Fine(f), f.ok, f.prop # "shared", NEW requested
    PROVE  set_propagation(pivot(f), requested).ok
<1> DEFINE no == FALSE
           after == [f EXCEPT !.old = no]
           can == f.prop # "shared" /\ MountPoint(f, <<>>)
           p == pivot(f)
           t == [i \in DOMAIN p.tab |-> [p.tab[i] EXCEPT !.unbindable = requested = "unbindable"]]
           g1 == [p EXCEPT !.prop = requested]
           g2 == [g1 EXCEPT !.tab = t]
<1>1. p = Then(f, can, after) /\ FsTyped(f)
  BY DEF pivot, Fine
<1>2. can
  BY RootfsSeals
<1> HIDE DEF no, can, p, g1, g2, t
<1>3. FsTyped(after) /\ after.ok = f.ok
  BY <1>1, OldIs
<1> HIDE DEF after
<1>4. FsTyped(p) /\ p.ok
  BY <1>1, <1>2, <1>3 DEF Then
<1>5. set_propagation(p, requested) = IF requested = "none" THEN p ELSE g2
  BY <1>4 DEF set_propagation, FsTyped, FsShape, g1, g2, t
<1>6. g1.ok /\ FsTyped(g1)
  BY <1>4 DEF FsTyped, FsShape, g1
<1>7. g2.ok
  BY <1>6, TabIs DEF g2
<1>8. set_propagation(p, requested).ok
  BY <1>4, <1>5, <1>7
<1>9. QED  BY <1>8 DEF p

-----------------------------------------------------------------------------
(***************************************************************************)
(* A mount of the container's own hides what is below it and nothing else. *)
(***************************************************************************)
Laid(f, g, typs, at) ==
    /\ Fine(g) /\ f.has \subseteq g.has
    /\ \A q \in Paths :
          \/ MountOf(g, q) = MountOf(f, q)
          \/ /\ IsPrefix(at, q)
             /\ LET m == MountOf(g, q) IN m.at = at /\ m.fs.at = at /\ m.fs.typ \in typs

LEMMA PutsLaid ==
    ASSUME NEW f, NEW g, Fine(f), NEW fs, NEW at \in Paths, NEW ro \in BOOLEAN, Puts(f, g, fs, at, ro), fs.at = at,
           NEW typs, fs.typ \in typs
    PROVE  Laid(f, g, typs, at)
<1>1. Fine(g) /\ \A q \in Paths : MountOf(g, q) = IF IsPrefix(at, q) THEN Mounted(fs, at, ro) ELSE MountOf(f, q)
  BY PutsSees
<1>2. Mounted(fs, at, ro).at = at /\ Mounted(fs, at, ro).fs = fs
  BY DEF Mounted
<1> HIDE DEF Mounted
<1>3. f.has \subseteq g.has
  BY DEF Puts
<1>4. QED  BY <1>1, <1>2, <1>3 DEF Laid

LEMMA AlikeLaid == ASSUME NEW f, NEW g, Fine(f), Alike(f, g), NEW typs, NEW at PROVE Laid(f, g, typs, at)
<1>1. Fine(g) /\ \A q \in Paths : MountOf(g, q) = MountOf(f, q)
  BY AlikeSees
<1>2. QED  BY <1>1 DEF Laid, Alike

LEMMA LaysLaid ==
    ASSUME NEW f, NEW g, Fine(f), NEW typ, NEW at \in Paths, Lays(f, g, typ, at)
    PROVE  Laid(f, g, {typ}, at)
<1>1. CASE Alike(f, g)
  BY <1>1, AlikeLaid
<1>2. CASE \E fs : \E ro \in BOOLEAN : Puts(f, g, fs, at, ro) /\ fs.typ = typ /\ fs.at = at
  <2>1. PICK fs : \E ro \in BOOLEAN : Puts(f, g, fs, at, ro) /\ fs.typ = typ /\ fs.at = at
    BY <1>2
  <2>2. PICK ro \in BOOLEAN : Puts(f, g, fs, at, ro) /\ fs.typ = typ /\ fs.at = at
    BY <2>1
  <2>3. fs.typ \in {typ}
    BY <2>2
  <2>4. QED  BY <2>2, <2>3, PutsLaid
<1>3. QED  BY <1>1, <1>2 DEF Lays

LEMMA MaskLaid ==
    ASSUME NEW f, Fine(f), NEW p \in Paths, mask_one(f, p).ok
    PROVE  Laid(f, mask_one(f, p), {"mask", "null"}, p)
<1> DEFINE g == mask_one(f, p)
           hiding == {"mask", "null"}
<1>1. FsTyped(f)
  BY DEF Fine
<1>2. CASE ~Exists(f, p)
  <2>1. g = f /\ Alike(f, f)
    BY <1>1, <1>2, MaskLays, AlikeSelf
  <2>2. QED  BY <2>1, AlikeLaid
<1>3. CASE Exists(f, p)
  <2>1. \E fs : \E ro \in BOOLEAN : Puts(f, g, fs, p, ro) /\ fs.typ \in hiding /\ fs.at = p
    BY <1>1, <1>3, MaskLays
  <2> HIDE DEF g, hiding
  <2>2. PICK fs : \E ro \in BOOLEAN : Puts(f, g, fs, p, ro) /\ fs.typ \in hiding /\ fs.at = p
    BY <2>1
  <2>3. PICK ro \in BOOLEAN : Puts(f, g, fs, p, ro) /\ fs.typ \in hiding /\ fs.at = p
    BY <2>2
  <2>4. Laid(f, g, hiding, p)
    BY <2>3, PutsLaid
  <2>5. QED  BY <2>4 DEF g, hiding
<1>4. QED  BY <1>2, <1>3

LEMMA CoveringHoldNothing == \A typ \in Covering : \A at : Contents(typ, at) = {} /\ typ \notin {"base", "overlay", "proc"}
  BY DEF Covering, Contents

LEMMA LaidExists ==
    ASSUME NEW f, NEW g, Fine(f), NEW typs, NEW at \in Paths, Laid(f, g, typs, at), NEW q \in Paths, Exists(f, q)
    PROVE  Exists(g, q) \/ (IsPrefix(at, q) /\ at # q)
<1>1. MountOf(f, q).at = q \/ [fs |-> MountOf(f, q).fs, path |-> q] \in f.has
  BY ExistsIs
<1>2. Fine(g) /\ f.has \subseteq g.has
  BY DEF Laid
<1>3. CASE MountOf(g, q) = MountOf(f, q)
  BY <1>1, <1>2, <1>3, ExistsIs
<1>4. CASE IsPrefix(at, q) /\ MountOf(g, q).at = at
  BY <1>2, <1>4, ExistsIs
<1>5. QED  BY <1>3, <1>4 DEF Laid

LEMMA LaidViews ==
    ASSUME NEW f, NEW g, Fine(f), NEW typs, typs \subseteq Covering, NEW at \in Paths, Laid(f, g, typs, at)
    PROVE  /\ Furnished(f) => Furnished(g)
           /\ Views(f) => Views(g)
           /\ Bound(f) => Bound(g)
           /\ \A name : ProcPath(name) \in Paths /\ SeesProc(g, name) => MountOf(g, ProcPath(name)) = MountOf(f, ProcPath(name))
<1> DEFINE Stood(q) == MountOf(g, q) = MountOf(f, q)
           Atop(q) == LET m == MountOf(g, q) IN m.at = at /\ m.fs.at = at /\ m.fs.typ \in Covering
<1>1. \A q \in Paths : Stood(q) \/ Atop(q)
  BY DEF Laid
<1>2. f.has \subseteq g.has
  BY DEF Laid
<1>3. Furnished(f) => Furnished(g)
  <2> SUFFICES ASSUME Furnished(f), NEW q \in Paths PROVE Equipped(g, MountOf(g, q).fs)
    BY DEF Furnished
  <2>1. Equipped(f, MountOf(f, q).fs)
    BY DEF Furnished
  <2>2. CASE Stood(q)
    BY <1>2, <2>1, <2>2 DEF Equipped
  <2>3. CASE Atop(q)
    BY <2>3, CoveringHoldNothing DEF Equipped
  <2>4. QED  BY <1>1, <2>2, <2>3
<1>4. Views(f) => Views(g)
  BY <1>1 DEF Views
<1>5. Bound(f) => Bound(g)
  <2> SUFFICES ASSUME Bound(f), NEW q \in Paths
               PROVE  LET m == MountOf(g, q)
                      IN  m.fs.at \in Paths /\ IsPrefix(m.fs.at, m.at) /\ (m.at # m.fs.at => m.ro)
    BY DEF Bound
  <2>1. CASE Stood(q)
    BY <2>1 DEF Bound
  <2>2. CASE Atop(q)
    BY <2>2, PrefixOrder
  <2>3. QED  BY <1>1, <2>1, <2>2
<1>6. ASSUME NEW name, ProcPath(name) \in Paths, SeesProc(g, name)
      PROVE  MountOf(g, ProcPath(name)) = MountOf(f, ProcPath(name))
  <2>1. MountOf(g, ProcPath(name)).fs.typ = "proc"
    BY <1>6 DEF SeesProc, IsProc
  <2>2. "proc" \notin Covering
    BY DEF Covering
  <2>3. QED  BY <1>1, <1>6, <2>1, <2>2
<1>7. QED  BY <1>3, <1>4, <1>5, <1>6

LEMMA ShownKept ==
    ASSUME NEW m, NEW m2, m2.fs = m.fs, m.ro => m2.ro, NEW n, NEW p, Shown(m, n, p)
    PROVE  Shown(m2, n, p)
<1>1. CASE \E i \in NewMounts : Uncovered(i, p, n) /\ Comes(m, i) /\ Firm(m, i, n)
  <2>1. PICK i \in NewMounts : Uncovered(i, p, n) /\ Comes(m, i) /\ Firm(m, i, n)
    BY <1>1
  <2>2. Comes(m2, i) /\ Firm(m2, i, n)
    BY <2>1 DEF Comes, Firm
  <2>3. QED  BY <2>1, <2>2 DEF Shown
<1>2. CASE Bare(p, n) /\ OfRoot(m)
  BY <1>2 DEF Shown, OfRoot
<1>3. QED  BY <1>1, <1>2 DEF Shown

\* The same file systems, at least as hard to write.
Kept(f, g) ==
    /\ Fine(g) /\ g.has = f.has
    /\ \A q \in Paths : MountOf(g, q).fs = MountOf(f, q).fs /\ (MountOf(f, q).ro => MountOf(g, q).ro)

LEMMA KeptViews ==
    ASSUME NEW f, NEW g, Kept(f, g)
    PROVE  /\ Furnished(f) => Furnished(g)
           /\ Views(f) => Views(g)
           /\ \A name : ProcPath(name) \in Paths => (SeesProc(g, name) <=> SeesProc(f, name))
<1>1. Furnished(f) => Furnished(g)
  BY DEF Kept, Furnished, Equipped
<1>2. Views(f) => Views(g)
  <2> SUFFICES ASSUME Views(f), NEW q \in Paths
               PROVE  MountOf(g, q).fs.typ \in Covering \/ Shown(MountOf(g, q), Len(b.mounts), q)
    BY DEF Views
  <2>1. MountOf(f, q).fs.typ \in Covering \/ Shown(MountOf(f, q), Len(b.mounts), q)
    BY DEF Views
  <2>2. MountOf(g, q).fs = MountOf(f, q).fs /\ (MountOf(f, q).ro => MountOf(g, q).ro)
    BY DEF Kept
  <2>3. QED  BY <2>1, <2>2, ShownKept
<1>3. \A name : ProcPath(name) \in Paths => (SeesProc(g, name) <=> SeesProc(f, name))
  BY DEF Kept, SeesProc
<1>4. QED  BY <1>1, <1>2, <1>3

LEMMA SealsKept == ASSUME NEW f, NEW g, NEW p, Seals(f, g, p) PROVE Kept(f, g)
  BY DEF Seals, Kept

LEMMA SealsBound ==
    ASSUME NEW f, Fine(f), NEW g, NEW p \in Paths, Seals(f, g, p), Bound(f)
    PROVE  Bound(g)
<1> SUFFICES ASSUME NEW q \in Paths
             PROVE  LET m == MountOf(g, q)
                    IN  m.fs.at \in Paths /\ IsPrefix(m.fs.at, m.at) /\ (m.at # m.fs.at => m.ro)
  BY DEF Bound
<1> DEFINE old == MountOf(f, q)
           new == MountOf(g, q)
<1>1. old.fs.at \in Paths /\ IsPrefix(old.fs.at, old.at) /\ (old.at # old.fs.at => old.ro)
  BY DEF Bound
<1>2. /\ new.fs = old.fs /\ (old.ro => new.ro)
      /\ new.at = old.at \/ (new.at = p /\ IsPrefix(old.at, p) /\ new.ro)
  BY DEF Seals
<1>3. old.at \in Paths
  BY MountIsAbove
<1>4. QED  BY <1>1, <1>2, <1>3, PrefixOrder

LEMMA SealsExists ==
    ASSUME NEW f, Fine(f), NEW g, NEW p \in Paths, Seals(f, g, p), NEW q \in Paths, Exists(f, q)
    PROVE  Exists(g, q)
<1> DEFINE old == MountOf(f, q)
           new == MountOf(g, q)
<1>1. old.at = q \/ [fs |-> old.fs, path |-> q] \in f.has
  BY ExistsIs
<1>2. /\ Fine(g) /\ new.fs = old.fs /\ g.has = f.has
      /\ new.at = old.at \/ (new.at = p /\ IsPrefix(old.at, p))
  BY DEF Seals
<1>3. new.at \in Paths /\ IsPrefix(new.at, q)
  BY <1>2, MountIsAbove
<1>4. new.at = q \/ [fs |-> new.fs, path |-> q] \in g.has
  BY <1>1, <1>2, <1>3, PrefixOrder
<1>5. QED  BY <1>2, <1>4, ExistsIs

-----------------------------------------------------------------------------
(***************************************************************************)
(* A mount of config.json more.                                            *)
(***************************************************************************)
LEMMA MountKinds ==
    ASSUME NEW i
    PROVE  KindOf(b.mounts[i], FlagsOf(i)) = MountedType(i) /\ (Stays(FlagsOf(i)) <=> ReadonlyMount(i))
  BY DEF KindOf, MountedType, IsBind, FlagsOf, Stays, ReadonlyMount

LEMMA GovernedKinds == ASSUME NEW typ \in DOMAIN Governs PROVE typ \notin {"base", "overlay"}
  BY DEF Governs

\* What was the last on a path up to the n-th is so after the next that is not above the path.
LEMMA UncoveredOneMore ==
    ASSUME b \in Bundles, NEW n \in Nat, NEW q \in Paths,
           n + 1 \in NewMounts => ~IsPrefix(Destination(n + 1), q)
    PROVE  /\ \A i \in NewMounts : Uncovered(i, q, n) => Uncovered(i, q, n + 1)
           /\ Bare(q, n) => Bare(q, n + 1)
<1>1. \A i \in NewMounts : i \in Nat
  BY MountsAre
<1>2. \A i \in NewMounts : i <= n + 1 => i <= n \/ i = n + 1
  BY <1>1
<1>3. \A i \in NewMounts : i <= n => i <= n + 1
  BY <1>1
<1>4. ASSUME NEW i \in NewMounts, Uncovered(i, q, n) PROVE Uncovered(i, q, n + 1)
  BY <1>2, <1>3, <1>4 DEF Uncovered, OverBy
<1>5. Bare(q, n) => Bare(q, n + 1)
  BY <1>2 DEF Bare
<1>6. QED  BY <1>4, <1>5

LEMMA UncoveredLast ==
    ASSUME b \in Bundles, NEW n \in Nat, NEW q, IsPrefix(Destination(n + 1), q)
    PROVE  Uncovered(n + 1, q, n + 1)
<1>1. \A i \in NewMounts : i \in Nat
  BY MountsAre
<1>2. QED  BY <1>1 DEF Uncovered, OverBy

LEMMA FirmLater ==
    ASSUME b \in Bundles, NEW m, NEW n \in Nat, NEW i, Firm(m, i, n) PROVE Firm(m, i, n + 1)
<1>1. \A j \in DOMAIN b.mounts : j <= n => j <= n + 1
  BY MountsAre
<1>2. QED  BY <1>1 DEF Firm, LoosenedBy

Overlays(f, g, fs, at, ro) ==
    \A q \in Paths : MountOf(g, q) = IF IsPrefix(at, q) THEN Mounted(fs, at, ro) ELSE MountOf(f, q)

LEMMA PutsOverlays ==
    ASSUME NEW f, NEW g, Fine(f), NEW fs, NEW at \in Paths, NEW ro \in BOOLEAN, Puts(f, g, fs, at, ro)
    PROVE  Overlays(f, g, fs, at, ro)
  BY PutsSees DEF Overlays

LEMMA AddedShown ==
    ASSUME b \in Bundles, NEW n \in Nat, NEW i \in NewMounts, i = n + 1, NEW f, ShownTo(f, n), NEW g,
           NEW at, at = Destination(i), NEW ro, ro = Stays(FlagsOf(i)), NEW fs, fs.at = at, fs.typ = MountedType(i),
           Overlays(f, g, fs, at, ro)
    PROVE  ShownTo(g, i)
<1> SUFFICES ASSUME NEW q \in Paths PROVE Shown(MountOf(g, q), i, q)
  BY DEF ShownTo
<1>1. CASE IsPrefix(at, q)
  <2>1. Uncovered(i, q, i)
    BY <1>1, UncoveredLast
  <2>2. MountOf(g, q) = Mounted(fs, at, ro)
    BY <1>1 DEF Overlays
  <2>3. MountOf(g, q).fs = fs /\ MountOf(g, q).ro = ro
    BY <2>2 DEF Mounted
  <2>4. Comes(MountOf(g, q), i) /\ Firm(MountOf(g, q), i, i)
    BY <2>3, MountKinds DEF Comes, Firm
  <2>5. QED  BY <2>1, <2>4 DEF Shown
<1>2. CASE ~IsPrefix(at, q)
  <2>1. MountOf(g, q) = MountOf(f, q) /\ Shown(MountOf(f, q), n, q)
    BY <1>2 DEF ShownTo, Overlays
  <2>2. /\ \A j \in NewMounts : Uncovered(j, q, n) => Uncovered(j, q, i)
        /\ Bare(q, n) => Bare(q, i)
    BY <1>2, UncoveredOneMore
  <2>3. \A j : Firm(MountOf(f, q), j, n) => Firm(MountOf(f, q), j, i)
    BY FirmLater
  <2>4. QED  BY <2>1, <2>2, <2>3 DEF Shown
<1>3. QED  BY <1>1, <1>2

LEMMA TurnedShown ==
    ASSUME b \in Bundles, NEW n \in Nat, n < Len(b.mounts), NEW f, Orderly(f), ShownTo(f, n), NEW g,
           ~Adds(FlagsOf(n + 1)), Turns(f, g, FlagsOf(n + 1), Destination(n + 1))
    PROVE  ShownTo(g, n + 1)
<1> DEFINE k == n + 1
           at == Destination(k)
<1>1. k \notin NewMounts /\ at \in Paths /\ k \in DOMAIN b.mounts
  BY MountsAre
<1> SUFFICES ASSUME NEW q \in Paths PROVE Shown(MountOf(g, q), k, q)
  BY DEF ShownTo
<1> DEFINE m == MountOf(f, q)
           m2 == MountOf(g, q)
<1>2. Shown(m, n, q)
  BY DEF ShownTo
<1>3. /\ \A i \in NewMounts : Uncovered(i, q, n) => Uncovered(i, q, k)
      /\ Bare(q, n) => Bare(q, k)
  BY <1>1, UncoveredOneMore
<1>4. /\ m2.fs = m.fs
      /\ m2.ro = m.ro \/ ("remount" \in FlagsOf(k) /\ m.at = at /\ m2.ro = ("ro" \in FlagsOf(k)))
  BY DEF Turns
<1>5. CASE \E i \in NewMounts : Uncovered(i, q, n) /\ Comes(m, i) /\ Firm(m, i, n)
  <2>1. PICK i \in NewMounts : Uncovered(i, q, n) /\ Comes(m, i) /\ Firm(m, i, n)
    BY <1>5
  <2>2. Comes(m2, i)
    BY <1>4, <2>1 DEF Comes
  <2>3. CASE m2.ro = m.ro
    <3>1. Firm(m2, i, n)
      BY <2>1, <2>3 DEF Firm
    <3>2. QED  BY <1>3, <2>1, <2>2, <3>1, FirmLater DEF Shown
  <2>4. CASE "remount" \in FlagsOf(k) /\ m.at = at /\ m2.ro = ("ro" \in FlagsOf(k))
    <3>1. m.fs.at = at
      BY <2>4 DEF Orderly
    <3>2. Destination(k) = Destination(i)
      BY <2>1, <3>1 DEF Comes
    <3>3. i < k
      <4>1. i \in Nat /\ i <= n
        BY <2>1, MountsAre DEF Uncovered
      <4>2. QED  BY <4>1
    <3>4. "ro" \notin FlagsOf(k) => LoosenedBy(i, k)
      BY <1>1, <2>4, <3>2, <3>3 DEF LoosenedBy, Loosens, FlagsOf
    <3>5. Firm(m2, i, k)
      BY <2>4, <3>4 DEF Firm
    <3>6. QED  BY <1>3, <2>1, <2>2, <3>5 DEF Shown
  <2>5. QED  BY <1>4, <2>3, <2>4
<1>6. CASE Bare(q, n) /\ OfRoot(m)
  BY <1>3, <1>4, <1>6 DEF Shown, OfRoot
<1>7. QED  BY <1>2, <1>5, <1>6 DEF Shown

LEMMA BroughtFurnished ==
    ASSUME NEW f, Fine(f), Furnished(f), NEW g, NEW m, NEW flags, NEW at \in Paths, Brings(f, g, m, flags, at)
    PROVE  Furnished(g)
<1>1. CASE Adds(flags)
  <2>1. PICK fs : Puts(f, g, fs, at, Stays(flags)) /\ fs.at = at /\ fs.typ = KindOf(m, flags)
    BY <1>1 DEF Brings
  <2> DEFINE ro == Stays(flags)
  <2>2. ro \in BOOLEAN
    BY DEF Stays
  <2> HIDE DEF ro
  <2>3. \A q \in Paths : MountOf(g, q) = IF IsPrefix(at, q) THEN Mounted(fs, at, ro) ELSE MountOf(f, q)
    BY <2>1, <2>2, PutsSees DEF ro
  <2>4. f.has \subseteq g.has /\ \A q \in Contents(fs.typ, fs.at) : [fs |-> fs, path |-> q] \in g.has
    BY <2>1 DEF Puts, NamesIn
  <2>5. fs.typ \notin {"base", "overlay"}
    BY <1>1, <2>1, GovernedKinds DEF Brings, KindOf
  <2>6. Equipped(g, fs)
    BY <2>4, <2>5 DEF Equipped
  <2>7. Mounted(fs, at, ro).fs = fs
    BY DEF Mounted
  <2>8. \A q \in Paths : Equipped(g, MountOf(f, q).fs)
    BY <2>4 DEF Furnished, Equipped
  <2>9. QED  BY <2>3, <2>6, <2>7, <2>8 DEF Furnished
<1>2. CASE ~Adds(flags)
  BY <1>2 DEF Brings, Turns, Furnished, Equipped
<1>3. QED  BY <1>1, <1>2

LEMMA BroughtShown ==
    ASSUME b \in Bundles, NEW n \in Nat, n < Len(b.mounts), NEW f, Orderly(f), ShownTo(f, n), NEW g,
           Brings(f, g, b.mounts[n + 1], FlagsOf(n + 1), Destination(n + 1))
    PROVE  ShownTo(g, n + 1)
<1>1. CASE Adds(FlagsOf(n + 1))
  <2>1. PICK fs : /\ Puts(f, g, fs, Destination(n + 1), Stays(FlagsOf(n + 1))) /\ fs.at = Destination(n + 1)
                  /\ fs.typ = KindOf(b.mounts[n + 1], FlagsOf(n + 1))
    BY <1>1 DEF Brings
  <2> DEFINE ro == Stays(FlagsOf(n + 1))
             i == n + 1
             at == Destination(i)
  <2>2. fs.typ = MountedType(i) /\ ro \in BOOLEAN
    BY <2>1, MountKinds DEF Stays
  <2>3. i \in NewMounts /\ at \in Paths /\ Fine(f)
    BY <1>1, MountsAre DEF Orderly
  <2>4. Puts(f, g, fs, at, ro) /\ fs.at = at
    BY <2>1
  <2>5. i = n + 1 /\ at = Destination(i) /\ ro = Stays(FlagsOf(i))
    OBVIOUS
  <2> HIDE DEF i, at, ro
  <2>6. Overlays(f, g, fs, at, ro)
    BY <2>2, <2>3, <2>4, PutsOverlays
  <2>7. ShownTo(g, i)
    BY <2>2, <2>3, <2>4, <2>5, <2>6, AddedShown
  <2>8. QED  BY <2>7 DEF i
<1>2. CASE ~Adds(FlagsOf(n + 1))
  BY <1>2, TurnedShown DEF Brings
<1>3. QED  BY <1>1, <1>2

-----------------------------------------------------------------------------
(***************************************************************************)
(* The same when every entry is a mount of its own: a path can be written  *)
(* unless its mount is asked to be read-only.                              *)
(***************************************************************************)
Clear(m, n, p) ==
    \/ \E i \in NewMounts : Uncovered(i, p, n) /\ Comes(m, i) /\ (m.ro <=> ReadonlyMount(i))
    \/ Bare(p, n) /\ OfRoot(m) /\ ~m.ro
ClearTo(f, n) == \A p \in Paths : Clear(MountOf(f, p), n, p)
Clearing(f) == \A p \in Paths : MountOf(f, p).fs.typ \in Covering \/ Clear(MountOf(f, p), Len(b.mounts), p)

\* Every mount is where its file system is: nothing has been bound again.
Placed(f) == \A p \in Paths : MountOf(f, p).fs.at = MountOf(f, p).at

LEMMA AddedClear ==
    ASSUME b \in Bundles, NEW n \in Nat, NEW i \in NewMounts, i = n + 1, NEW f, ClearTo(f, n), NEW g,
           NEW at, at = Destination(i), NEW ro, ro = Stays(FlagsOf(i)), NEW fs, fs.at = at, fs.typ = MountedType(i),
           Overlays(f, g, fs, at, ro)
    PROVE  ClearTo(g, i)
<1> SUFFICES ASSUME NEW q \in Paths PROVE Clear(MountOf(g, q), i, q)
  BY DEF ClearTo
<1>1. CASE IsPrefix(at, q)
  <2>1. Uncovered(i, q, i)
    BY <1>1, UncoveredLast
  <2>2. MountOf(g, q) = Mounted(fs, at, ro)
    BY <1>1 DEF Overlays
  <2>3. MountOf(g, q).fs = fs /\ MountOf(g, q).ro = ro
    BY <2>2 DEF Mounted
  <2>4. Comes(MountOf(g, q), i) /\ (MountOf(g, q).ro <=> ReadonlyMount(i))
    BY <2>3, MountKinds DEF Comes
  <2>5. QED  BY <2>1, <2>4 DEF Clear
<1>2. CASE ~IsPrefix(at, q)
  <2>1. MountOf(g, q) = MountOf(f, q) /\ Clear(MountOf(f, q), n, q)
    BY <1>2 DEF ClearTo, Overlays
  <2>2. /\ \A j \in NewMounts : Uncovered(j, q, n) => Uncovered(j, q, i)
        /\ Bare(q, n) => Bare(q, i)
    BY <1>2, UncoveredOneMore
  <2>3. QED  BY <2>1, <2>2 DEF Clear
<1>3. QED  BY <1>1, <1>2

LEMMA BroughtClear ==
    ASSUME b \in Bundles, NEW n \in Nat, n < Len(b.mounts), NEW f, Fine(f), ClearTo(f, n), NEW g,
           Brings(f, g, b.mounts[n + 1], FlagsOf(n + 1), Destination(n + 1)), Adds(FlagsOf(n + 1))
    PROVE  /\ ClearTo(g, n + 1) /\ Fine(g)
           /\ Bindable(f) => Bindable(g)
           /\ Placed(f) => Placed(g)
           /\ \A q \in Paths : Exists(f, q) /\ ~Below(Destination(n + 1), q) => Exists(g, q)
<1>1. PICK fs : /\ Puts(f, g, fs, Destination(n + 1), Stays(FlagsOf(n + 1))) /\ fs.at = Destination(n + 1)
                /\ fs.typ = KindOf(b.mounts[n + 1], FlagsOf(n + 1))
  BY DEF Brings
<1> DEFINE ro == Stays(FlagsOf(n + 1))
           i == n + 1
           at == Destination(i)
           typs == {fs.typ}
<1>2. fs.typ = MountedType(i) /\ ro \in BOOLEAN
  BY <1>1, MountKinds DEF Stays
<1>3. i \in NewMounts /\ at \in Paths
  BY MountsAre
<1>4. Puts(f, g, fs, at, ro) /\ fs.at = at
  BY <1>1
<1>5. i = n + 1 /\ at = Destination(i) /\ ro = Stays(FlagsOf(i)) /\ fs.typ \in typs
  OBVIOUS
<1> HIDE DEF i, at, ro, typs
<1>6. Overlays(f, g, fs, at, ro)
  BY <1>2, <1>3, <1>4, PutsOverlays
<1>7. ClearTo(g, i)
  BY <1>2, <1>3, <1>4, <1>5, <1>6, AddedClear
<1>8. Bindable(f) => Bindable(g)
  BY <1>2, <1>4, PutsBindable DEF Fine
<1>9. Laid(f, g, typs, at)
  BY <1>2, <1>3, <1>4, <1>5, PutsLaid
<1>10. \A q \in Paths : Exists(f, q) /\ ~Below(at, q) => Exists(g, q)
  BY <1>3, <1>9, LaidExists DEF Below
<1>11. Fine(g) /\ (Placed(f) => Placed(g))
  BY <1>9 DEF Laid, Placed
<1>12. QED  BY <1>7, <1>8, <1>10, <1>11 DEF i, at

LEMMA LaidClears ==
    ASSUME NEW f, NEW g, NEW typs, typs \subseteq Covering, NEW at \in Paths, Laid(f, g, typs, at), Clearing(f)
    PROVE  Clearing(g)
  BY DEF Laid, Clearing

\* Where no mount is in the way there is room.
LEMMA ClearRoom ==
    ASSUME NEW f, Orderly(f), Furnished(f), NEW n, NEW p \in Paths, Clear(MountOf(f, p), n, p),
           \A i \in NewMounts : i <= n => ~Blocks(i, p)
    PROVE  Exists(f, p) \/ Holds(f, p)
<1> DEFINE m == MountOf(f, p)
<1>1. CASE \E i \in NewMounts : Uncovered(i, p, n) /\ Comes(m, i) /\ (m.ro <=> ReadonlyMount(i))
  <2>1. PICK i \in NewMounts : Uncovered(i, p, n) /\ Comes(m, i) /\ (m.ro <=> ReadonlyMount(i))
    BY <1>1
  <2>2. m.fs.at = Destination(i) /\ m.fs.typ = MountedType(i) /\ m.at = m.fs.at /\ Fine(f)
    BY <2>1 DEF Comes, Orderly
  <2>3. IsPrefix(Destination(i), p) /\ ~Blocks(i, p)
    BY <2>1 DEF Uncovered
  <2>4. CASE Holding(i)
    BY <2>1, <2>2, <2>4 DEF Holding, Holds
  <2>5. CASE p = Destination(i)
    BY <2>2, <2>5, ExistsIs
  <2>6. CASE p \in Contents(MountedType(i), Destination(i))
    <3>1. Equipped(f, m.fs)
      BY DEF Furnished
    <3>2. [fs |-> m.fs, path |-> p] \in f.has
      BY <2>2, <2>6, <3>1 DEF Equipped
    <3>3. QED  BY <2>2, <3>2, ExistsIs
  <2>7. QED  BY <2>3, <2>4, <2>5, <2>6 DEF Blocks
<1>2. CASE Bare(p, n) /\ OfRoot(m) /\ ~m.ro
  BY <1>2 DEF OfRoot, Holds
<1>3. QED  BY <1>1, <1>2 DEF Clear

-----------------------------------------------------------------------------
(***************************************************************************)
(* What is true of the tree at each step, and what more is when nothing    *)
(* refuses it.                                                             *)
(***************************************************************************)
Fitting == {"nodes", "links", "devices", "pivot", "console"}
Naming == {"identity", "sysctl"}
Closing == {"readonly", "remounts", "rootfs", "limits"}

Fitted(f) == Furnished(f) /\ Views(f) /\ KeepsProc(f, "self") /\ KeepsProc(f, "sys")

Viewed(f, n, at) ==
    OwnMounts(b) /\ at \in Inside \ {"root"} =>
        /\ Furnished(f)
        /\ at = "mounts" => ShownTo(f, n)
        /\ at # "mounts" => Views(f)
        /\ at \in Fitting \cup Naming => Fitted(f)
        /\ at \in Late \ Naming => (~ProcMasked => KeepsProc(f, "self"))
        /\ at = "console" => Orderly(f)
        /\ at \in Naming \cup {"mask"} => Placed(f)
        /\ at = "mask" => MaskedProc(f, n)
        /\ at \in AfterMasks => Bound(f) /\ MaskedProc(f, Len(b.masked))

CwdIn(f) == b.cwd = <<>> \/ Exists(f, b.cwd)

\* Only nodes of the host have been put over what the bundle mounts, none of them at or above /dev.
NodesIn(f) ==
    /\ \A p \in Paths : LET fs == MountOf(f, p).fs IN fs.typ \in Covering => fs.typ = "hostdev" /\ fs.at \in Nodes
    /\ MountOf(f, DevDir).fs.typ \notin Covering
Reach(f) ==
    \A i \in NewMounts : ~CoveredByMount(i) => Exists(f, Destination(i)) /\ Comes(MountOf(f, Destination(i)), i)
Roomy(f) == Bindable(f) /\ CwdIn(f) /\ Clearing(f) /\ NodesIn(f) /\ PtmxTo(f, Len(b.mounts)) /\ Reach(f)

HasNull(f) == Exists(f, Dev("null"))
NullMasked(n) == \E k \in DOMAIN b.masked : k <= n /\ IsPrefix(b.masked[k], DevDir)
WritesProc(f) == ~ProcMasked /\ ~ProcReadonly /\ HasProc("self", TRUE) => ~MountOf(f, ProcPath("self")).ro

Smooth(f, n, at) ==
    OwnMounts(b) /\ ~TreeRefused =>
        /\ at \in {"mounts", "mask"} \cup Fitting \cup Naming \cup Closing => Bindable(f) /\ CwdIn(f)
        /\ at = "mounts" => ClearTo(f, n)
        /\ at \in Fitting => Roomy(f)
        /\ at \in Naming \cup {"mask"} => Clearing(f)
        /\ at \in (Fitting \ {"nodes"}) \cup Naming => HasNull(f)
        /\ at = "nodes" /\ n > 0 => HasNull(f)
        /\ at = "mask" => HasNull(f) \/ NullMasked(n)
        /\ at \in Closing => WritesProc(f)

LEMMA SeenExists ==
    ASSUME NEW f, Fine(f), Furnished(f), NEW name \in {"self", "sys"}, SeesProc(f, name)
    PROVE  Exists(f, ProcPath(name))
<1> DEFINE p == ProcPath(name)
           fs == MountOf(f, p).fs
<1>1. p \in Paths /\ p \in Contents("proc", ProcDir)
  BY ProcPaths
<1>2. fs.typ = "proc" /\ fs.at = ProcDir
  BY DEF SeesProc, IsProc
<1>3. Equipped(f, fs)
  BY <1>1 DEF Furnished
<1> HIDE DEF p, fs
<1>4. [fs |-> fs, path |-> p] \in f.has
  BY <1>1, <1>2, <1>3 DEF Equipped
<1>5. QED  BY <1>4, ExistsIs DEF p, fs

LEMMA LaidFitted ==
    ASSUME NEW f, NEW g, Fine(f), NEW typs, typs \subseteq Covering, NEW at \in Paths, Laid(f, g, typs, at),
           Fitted(f), \A name \in {"self", "sys"} : SeesProc(f, name) => SeesProc(g, name)
    PROVE  Fitted(g)
<1>1. Furnished(g) /\ Views(g)
  BY LaidViews DEF Fitted
<1>2. KeepsProc(g, "self") /\ KeepsProc(g, "sys")
  BY DEF Fitted, KeepsProc
<1>3. QED  BY <1>1, <1>2 DEF Fitted

LEMMA GrowsFitted ==
    ASSUME NEW f, NEW g, Fine(f), NEW typs, typs \subseteq Covering, NEW at \in Paths, Laid(f, g, typs, at),
           Grows(f, g), Fitted(f)
    PROVE  Fitted(g)
<1>1. ASSUME NEW name \in {"self", "sys"}, SeesProc(f, name) PROVE SeesProc(g, name)
  <2>1. Exists(f, ProcPath(name)) /\ ProcPath(name) \in Paths
    BY <1>1, SeenExists, ProcPaths DEF Fitted
  <2>2. MountOf(g, ProcPath(name)).fs = MountOf(f, ProcPath(name)).fs
    BY <2>1 DEF Grows
  <2>3. QED  BY <1>1, <2>2 DEF SeesProc
<1>2. QED  BY <1>1, LaidFitted

LEMMA PlaceIs == ASSUME b \in Bundles PROVE b.cwd \in Paths /\ \A i \in NewMounts : Destination(i) \in Paths
<1>1. b.cwd \in Paths
  BY BundlesAssumption
<1>2. QED  BY <1>1, MountsAre

LEMMA NullDev == Dev("null") \in Paths /\ Dev("null") \in Nodes /\ ~IsPrefix(Dev("null"), DevDir) /\ IsPrefix(DevDir, Dev("null"))
<1>1. "null" \in Names
  BY DEF Names
<1>2. Dev("null") \in Paths /\ IsPrefix(DevDir, Dev("null")) /\ DevDir \in Paths
  BY <1>1, DevPrefixes
<1>3. Dev("null") # DevDir
  <2>1. Len(Dev("null")) = 2 /\ Len(DevDir) = 1
    BY DEF Dev, DevDir
  <2>2. QED  BY <2>1
<1>4. Dev("null") \in Nodes
  <2>1. DEFAULT_DEVICES[1] = "null" /\ 1 \in DOMAIN DEFAULT_DEVICES
    BY DEF DEFAULT_DEVICES
  <2>2. "null" \in ToSet(DEFAULT_DEVICES)
    BY <2>1 DEF ToSet
  <2>3. QED  BY <2>2 DEF Nodes
<1>5. QED  BY <1>2, <1>3, <1>4, PrefixOrder

LEMMA GrowsRoomy ==
    ASSUME b \in Bundles, NEW f, NEW g, Fine(f), NEW at \in Paths, Laid(f, g, {"hostdev"}, at), Grows(f, g),
           Bindable(f) => Bindable(g), at \in Nodes, IsPrefix(at, DevDir) => Exists(f, DevDir), Roomy(f)
    PROVE  Roomy(g) /\ (HasNull(f) => HasNull(g))
<1>1. \A q \in Paths : Exists(f, q) => Exists(g, q) /\ MountOf(g, q).fs = MountOf(f, q).fs
  BY DEF Grows
<1>2. CwdIn(g)
  BY <1>1, PlaceIs DEF Roomy, CwdIn
<1>3. Clearing(g)
  <2>1. {"hostdev"} \subseteq Covering
    BY DEF Covering
  <2>2. QED  BY <2>1, LaidClears DEF Roomy
<1>4. NodesIn(g)
  <2>1. ASSUME NEW p \in Paths, MountOf(g, p).fs.typ \in Covering
        PROVE  MountOf(g, p).fs.typ = "hostdev" /\ MountOf(g, p).fs.at \in Nodes
    <3>1. MountOf(g, p) = MountOf(f, p) \/ (MountOf(g, p).fs.at = at /\ MountOf(g, p).fs.typ = "hostdev")
      BY DEF Laid
    <3>2. QED  BY <2>1, <3>1 DEF Roomy, NodesIn
  <2>2. DevDir \in Paths
    BY ListsNamed, DevPrefixes
  <2>3. MountOf(g, DevDir).fs = MountOf(f, DevDir).fs
    BY <1>1, <2>2 DEF Laid
  <2>4. QED  BY <2>1, <2>3 DEF Roomy, NodesIn
<1>5. PtmxTo(g, Len(b.mounts))
  <2>1. Dev("ptmx") \in Paths
    BY ListsNamed, DevPrefixes
  <2>2. QED  BY <1>1, <2>1 DEF Roomy, PtmxTo
<1>6. Reach(g)
  BY <1>1, PlaceIs DEF Roomy, Reach, Comes
<1>7. HasNull(f) => HasNull(g)
  BY <1>1, NullDev DEF HasNull
<1>8. QED  BY <1>2, <1>3, <1>4, <1>5, <1>6, <1>7 DEF Roomy

-----------------------------------------------------------------------------
(***************************************************************************)
(* The steps, one by one.                                                  *)
(***************************************************************************)
Works == pc # "failed" => fsys.ok
FInv == CInv /\ RInv /\ Met /\ Viewed(fsys, done, pc) /\ Smooth(fsys, done, pc) /\ Works
FStep ==
    /\ Viewed(fsys', done', pc') /\ Smooth(fsys', done', pc')
    /\ pc' # "failed" => fsys'.ok
    /\ TreeFails

LEMMA NothingOver ==
    ASSUME NEW f, NEW n, NEW at \in {"failed"} \cup Outside PROVE Viewed(f, n, at) /\ Smooth(f, n, at)
  BY DEF Viewed, Smooth, Inside, Outside, Fitting, Naming, Closing

\* A step that fails for a reason.
LEMMA FailedStep ==
    ASSUME pc' = "failed", pc \in TreeSteps => Refused \/ TreeRefused PROVE FStep
  BY NothingOver DEF FStep, TreeFails

LEMMA LoopStep ==
    ASSUME NEW at, at # "failed", NEW list, NEW after, NEW next, next # "failed", Each(at, list, after, next),
           fsys.ok,
           done < Len(list) /\ after.ok => Viewed(after, done + 1, at) /\ Smooth(after, done + 1, at),
           done < Len(list) /\ ~after.ok => TreeRefused,
           ~(done < Len(list)) => Viewed(fsys, 0, next) /\ Smooth(fsys, 0, next)
    PROVE  FStep
<1>1. /\ pc = at
      /\ \/ done < Len(list) /\ fsys' = after /\ done' = done + 1 /\ pc' = IF after.ok THEN at ELSE "failed"
         \/ ~(done < Len(list)) /\ fsys' = fsys /\ done' = 0 /\ pc' = next
  BY DEF Each, Go
<1>2. CASE done < Len(list) /\ fsys' = after /\ done' = done + 1 /\ pc' = IF after.ok THEN at ELSE "failed"
  <2>1. CASE after.ok
    BY <1>2, <2>1 DEF FStep, TreeFails
  <2>2. CASE ~after.ok
    BY <1>2, <2>2, FailedStep
  <2>3. QED  BY <2>1, <2>2
<1>3. CASE ~(done < Len(list)) /\ fsys' = fsys /\ done' = 0 /\ pc' = next
  BY <1>3 DEF FStep, TreeFails
<1>4. QED  BY <1>1, <1>2, <1>3

LEMMA ViewedMounts == ASSUME NEW f, NEW n, Furnished(f), ShownTo(f, n) PROVE Viewed(f, n, "mounts")
  BY DEF Viewed, Fitting, Naming, Late, AfterMasks, Tree

LEMMA ViewedFitting ==
    ASSUME NEW f, NEW n, NEW at \in Fitting, Fitted(f), at = "console" => Orderly(f) PROVE Viewed(f, n, at)
  BY DEF Viewed, Fitted, Fitting, Naming, Late, AfterMasks, Tree

LEMMA SmoothMounts ==
    ASSUME NEW f, NEW n, ~TreeRefused => Bindable(f) /\ CwdIn(f) /\ ClearTo(f, n) PROVE Smooth(f, n, "mounts")
  BY DEF Smooth, Fitting, Naming, Closing

LEMMA SmoothFitting ==
    ASSUME NEW f, NEW n \in Nat, NEW at \in Fitting,
           ~TreeRefused => Roomy(f) /\ (at # "nodes" \/ n > 0 => HasNull(f))
    PROVE  Smooth(f, n, at)
  BY DEF Smooth, Roomy, Fitting, Naming, Closing

LEMMA ViewedNaming ==
    ASSUME NEW f, NEW n, NEW at \in Naming, OwnMounts(b) => Fitted(f) /\ Placed(f) PROVE Viewed(f, n, at)
  BY DEF Viewed, Fitted, Fitting, Naming, Late, AfterMasks, Tree

LEMMA SmoothNaming ==
    ASSUME NEW f, NEW n, NEW at \in Naming,
           OwnMounts(b) /\ ~TreeRefused => Bindable(f) /\ CwdIn(f) /\ Clearing(f) /\ HasNull(f)
    PROVE  Smooth(f, n, at)
  BY DEF Smooth, Fitting, Naming, Closing

LEMMA ViewedMask ==
    ASSUME NEW f, NEW n, Furnished(f), Views(f), ~ProcMasked => KeepsProc(f, "self"), Placed(f), MaskedProc(f, n)
    PROVE  Viewed(f, n, "mask")
  BY DEF Viewed, Fitting, Naming, Late, AfterMasks, Tree

LEMMA SmoothMask ==
    ASSUME NEW f, NEW n, ~TreeRefused => Bindable(f) /\ CwdIn(f) /\ Clearing(f) /\ (HasNull(f) \/ NullMasked(n))
    PROVE  Smooth(f, n, "mask")
  BY DEF Smooth, Fitting, Naming, Closing

LEMMA ViewedLate ==
    ASSUME NEW f, NEW n, NEW at \in AfterMasks,
           OwnMounts(b) => /\ Furnished(f) /\ Views(f) /\ (~ProcMasked => KeepsProc(f, "self"))
                           /\ Bound(f) /\ MaskedProc(f, Len(b.masked))
    PROVE  Viewed(f, n, at)
  BY DEF Viewed, Fitting, Naming, Late, AfterMasks, Tree

LEMMA SmoothClosing ==
    ASSUME NEW f, NEW n, NEW at \in Closing, OwnMounts(b) /\ ~TreeRefused => Bindable(f) /\ CwdIn(f) /\ WritesProc(f)
    PROVE  Smooth(f, n, at)
  BY DEF Smooth, Fitting, Naming, Closing

-----------------------------------------------------------------------------
LEMMA PlantedViews ==
    ASSUME b \in Bundles, OwnMounts(b), NEW f, Fine(f), NEW typ \in {"base", "overlay"}, Planted(f, typ)
    PROVE  Viewed(f, 0, "mounts") /\ Smooth(f, 0, "mounts")
<1> DEFINE none == <<>>
           no == FALSE
           fs == Fs(typ, "none", none)
           root == Mounted(fs, none, no)
<1>1. /\ Len(f.tab) = 1 /\ f.tab[1] = root /\ \A p \in Paths : MountOf(f, p) = root
      /\ f.has = {[fs |-> fs, path |-> p] : p \in Unpacked}
  BY DEF Planted
<1>2. fs.typ = typ /\ fs.at = none /\ Contents(typ, none) = {}
  BY DEF Fs, Contents
<1>3. root.fs = fs /\ root.at = none /\ root.ro = no /\ root.unbindable = FALSE
  BY DEF Mounted
<1> HIDE DEF fs, root
<1>4. Furnished(f)
  BY <1>1, <1>2, <1>3 DEF Furnished, Equipped
<1>5. OfRoot(root) /\ ~root.ro
  BY <1>2, <1>3 DEF OfRoot
<1>6. \A p : Bare(p, 0)
  BY MountsAre DEF Bare, NewMounts
<1>7. ShownTo(f, 0) /\ ClearTo(f, 0)
  BY <1>1, <1>5, <1>6 DEF ShownTo, Shown, ClearTo, Clear
<1>8. Bindable(f)
  BY <1>1, <1>3 DEF Bindable
<1>9. ~TreeRefused => CwdIn(f)
  <2> SUFFICES ASSUME ~TreeRefused, b.cwd # none PROVE Exists(f, b.cwd)
    BY DEF CwdIn
  <2>1. b.cwd \in Unpacked
    BY DEF TreeRefused, CwdRefused
  <2>2. [fs |-> MountOf(f, b.cwd).fs, path |-> b.cwd] \in f.has
    BY <1>1, <1>3, <2>1, PlaceIs
  <2>3. QED  BY <2>2, ExistsIs
<1>10. QED  BY <1>4, <1>7, <1>8, <1>9, ViewedMounts, SmoothMounts

LEMMA RootFStep == ASSUME FInv, MountRoot PROVE FStep
<1> DEFINE private == make_root_private(fsys)
           merged == mount_at(Layers(b))
           can == merged.ok
           may == "mount" \in Able
           overlay == Rooted(private, "overlay", merged.mounted)
           base == Rooted(private, "base", <<>>)
           mounted == IF Layered(b) THEN Then(private, can, overlay) ELSE base
<1>1. /\ pc = "root" /\ UNCHANGED <<b, done>>
      /\ fsys' = Then(mounted, may, mounted) /\ pc' = IF fsys'.ok THEN "mounts" ELSE "failed"
  BY DEF MountRoot, make_mount_point, Go
<1>2. /\ FsTyped(fsys) /\ fsys.tab = <<>> /\ fsys.has = {} /\ b \in Bundles /\ OwnMounts(b)
      /\ done = 0 /\ fsys.ok
  <2>1. FsTyped(fsys) /\ fsys.tab = <<>> /\ b \in Bundles
    BY <1>1 DEF FInv, RInv, GInv, HInv, HostKept, TreeKept, Outside
  <2>2. fsys.has = {}
    BY <1>1 DEF FInv, RInv, Built, Outside
  <2>3. done = 0
    BY <1>1 DEF FInv, RInv, GInv, Hardened, Loops
  <2>4. OwnMounts(b)
    BY <1>1 DEF FInv, RInv, GInv, HInv, TreeKept
  <2>5. QED  BY <1>1, <2>1, <2>2, <2>3, <2>4 DEF FInv, Works
<1>3. FsTyped(private) /\ private.tab = <<>> /\ private.has = {}
  BY <1>2 DEF make_root_private, FsTyped, FsShape
<1>4. private.ok
  BY <1>2 DEF make_root_private, FsTyped, FsShape
<1>5. may
  <2>1. OInv /\ pc \in Inside
    BY <1>1 DEF FInv, CInv, Inside
  <2>2. QED  BY <1>2, <2>1, AbleIs
<1>6. ~Refused => (Layered(b) => can)
  BY DEF Refused
<1> HIDE DEF private, merged, can, may
<1>7. Orderly(overlay) /\ overlay.ok = private.ok /\ Planted(overlay, "overlay")
  BY <1>3, RootedOrderly
<1>8. Orderly(base) /\ base.ok = private.ok /\ Planted(base, "base")
  BY <1>3, RootedOrderly
<1> HIDE DEF overlay, base
<1>9. CASE Layered(b) /\ ~can
  <2>1. ~mounted.ok /\ FsTyped(mounted)
    BY <1>3, <1>4, <1>9, FailKeeps DEF Then, Plainly, Keeps, Fail, FsTyped, FsShape
  <2> HIDE DEF mounted
  <2>2. ~fsys'.ok
    BY <1>1, <2>1, ThenOk
  <2>3. QED  BY <1>1, <1>6, <1>9, <2>2, FailedStep
<1>10. CASE ~Layered(b) \/ can
  <2>1. PICK typ \in {"base", "overlay"} : Orderly(mounted) /\ mounted.ok /\ Planted(mounted, typ)
    <3>1. CASE Layered(b)
      <4>1. mounted = overlay
        BY <1>4, <1>10, <3>1 DEF Then
      <4> HIDE DEF mounted
      <4>2. QED  BY <1>4, <1>7, <4>1
    <3>2. CASE ~Layered(b)
      <4>1. mounted = base
        BY <3>2
      <4> HIDE DEF mounted
      <4>2. QED  BY <1>4, <1>8, <4>1
    <3>3. QED  BY <3>1, <3>2
  <2> HIDE DEF mounted
  <2>2. fsys' = mounted
    BY <1>1, <1>5, <2>1 DEF Then
  <2>3. Viewed(mounted, 0, "mounts") /\ Smooth(mounted, 0, "mounts")
    BY <1>2, <2>1, PlantedViews DEF Orderly
  <2>4. pc' = "mounts" /\ done' = 0
    BY <1>1, <1>2, <2>1, <2>2
  <2>5. QED  BY <2>1, <2>2, <2>3, <2>4 DEF FStep, TreeFails
<1>11. QED  BY <1>9, <1>10

LEMMA PtmxPath == Dev("ptmx") \in Paths /\ DevDir \in Paths /\ DevDir # <<>>
                  /\ \A q \in Paths : IsPrefix(q, Dev("ptmx")) => q = Dev("ptmx") \/ IsPrefix(q, DevDir)
<1>1. DevDir # <<>>
  BY DEF DevDir
<1>2. QED  BY <1>1, ListsNamed, DevPrefixes

LEMMA DevDirIs == DevDir \in Unpacked /\ \A q \in Paths : IsPrefix(q, DevDir) => q = DevDir \/ q = <<>>
<1>1. DevDir \in Unpacked
  BY DEF Unpacked, DevDir
<1> DEFINE none == <<>>
<1>2. none \in Paths /\ "dev" \in Names
  BY EmptySeq DEF Paths, Names
<1>3. Append(none, "dev") = DevDir
  BY DEF DevDir
<1> HIDE DEF none
<1>4. \A q \in Paths : IsPrefix(q, Append(none, "dev")) => q = Append(none, "dev") \/ IsPrefix(q, none)
  BY <1>2, PrefixesOfNext
<1>5. QED  BY <1>1, <1>3, <1>4, PrefixOfRoot DEF none

\* Under what the bundle does not refuse, /dev takes the link that belongs to a devpts.
LEMMA PtmxRoom ==
    ASSUME b \in Bundles, OwnMounts(b), ~TreeRefused, NEW j \in NewMounts, b.mounts[j].typ = "devpts", NEW h,
           Fine(h), Placed(h), Furnished(h), ClearTo(h, j)
    PROVE  Exists(h, DevDir) /\ Holds(h, Dev("ptmx"))
<1>1. ~MountsRefused /\ ~DevicesRefused
  BY DEF TreeRefused
<1>2. \A i \in NewMounts : i \in Nat /\ Destination(i) \in Paths
  BY MountsAre
<1>3. \A i \in NewMounts : Destination(i) # <<>>
  BY <1>1 DEF MountsRefused
<1>4. \A i \in NewMounts : IsPrefix(Destination(i), DevDir) => Holding(i)
  BY <1>1 DEF DevicesRefused, DevDir
<1>5. \A i \in NewMounts : Destination(i) = Dev("ptmx") => Holding(i)
  BY <1>1 DEF MountsRefused
<1>6. Exists(h, DevDir)
  <2> DEFINE m == MountOf(h, DevDir)
  <2>1. Clear(m, j, DevDir) /\ m.fs.at = m.at /\ Equipped(h, m.fs)
    BY PtmxPath DEF ClearTo, Placed, Furnished
  <2> HIDE DEF m
  <2>2. CASE \E i \in NewMounts : Uncovered(i, DevDir, j) /\ Comes(m, i)
    <3>1. PICK i \in NewMounts : Uncovered(i, DevDir, j) /\ Comes(m, i)
      BY <2>2
    <3>2. Destination(i) = DevDir
      BY <1>2, <1>3, <3>1, DevDirIs DEF Uncovered
    <3>3. m.at = DevDir
      BY <2>1, <3>1, <3>2 DEF Comes
    <3>4. QED  BY <3>3, ExistsIs DEF m
  <2>3. CASE OfRoot(m)
    <3>1. [fs |-> m.fs, path |-> DevDir] \in h.has
      BY <2>1, <2>3, DevDirIs DEF OfRoot, Equipped
    <3>2. QED  BY <3>1, ExistsIs DEF m
  <2>4. QED  BY <2>1, <2>2, <2>3 DEF Clear
<1>7. Holds(h, Dev("ptmx"))
  <2> DEFINE m == MountOf(h, Dev("ptmx"))
  <2>1. Clear(m, j, Dev("ptmx"))
    BY PtmxPath DEF ClearTo
  <2> HIDE DEF m
  <2>2. CASE \E i \in NewMounts : Uncovered(i, Dev("ptmx"), j) /\ Comes(m, i) /\ (m.ro <=> ReadonlyMount(i))
    <3>1. PICK i \in NewMounts : Uncovered(i, Dev("ptmx"), j) /\ Comes(m, i) /\ (m.ro <=> ReadonlyMount(i))
      BY <2>2
    <3>2. Holding(i)
      BY <1>2, <1>4, <1>5, <3>1, PtmxPath DEF Uncovered
    <3>3. QED  BY <3>1, <3>2 DEF Comes, Holding, Holds, m
  <2>3. CASE OfRoot(m) /\ ~m.ro
    BY <2>3 DEF OfRoot, Holds, m
  <2>4. QED  BY <2>1, <2>2, <2>3 DEF Clear
<1>8. QED  BY <1>6, <1>7

\* What is known while the tree is put together.
LEMMA AtWork ==
    ASSUME FInv, pc \in {"mounts"} \cup Fitting
    PROVE  /\ b \in Bundles /\ done \in Nat /\ OwnMounts(b) /\ fsys.ok /\ Orderly(fsys) /\ Fine(fsys) /\ FsTyped(fsys)
           /\ Placed(fsys) /\ Furnished(fsys)
<1>1. b \in Bundles /\ done \in Nat /\ FsTyped(fsys)
  BY DEF FInv, RInv, GInv, HInv, HostKept
<1>2. OwnMounts(b) /\ fsys.ok /\ pc \in Inside \ {"root"}
  BY DEF FInv, RInv, GInv, HInv, TreeKept, Building, Hardening, Works, Fitting, Inside
<1>3. Furnished(fsys)
  BY <1>2 DEF FInv, Viewed
<1>4. Orderly(fsys)
  <2>1. CASE pc \in Building
    BY <2>1, UnderConstruction DEF FInv
  <2>2. CASE pc = "console"
    BY <1>2, <2>2 DEF FInv, Viewed
  <2>3. QED  BY <2>1, <2>2 DEF Building, Fitting
<1>5. Fine(fsys) /\ Placed(fsys)
  BY <1>4 DEF Orderly, Placed
<1>6. QED  BY <1>1, <1>2, <1>3, <1>4, <1>5

LEMMA MountAble ==
    ASSUME OInv, pc \in Inside, OwnMounts(b), ~TreeRefused, NEW i \in NewMounts
    PROVE  LET typ == effective_fstype(b.mounts[i].typ)
           IN  IF "bind" \in FlagsOf(i) THEN b.mounts[i].source # "gone"
                                        ELSE typ \in DOMAIN Governs /\ Governs[typ] \in Able
<1>1. IF IsBind(i) THEN b.mounts[i].source # "gone"
                   ELSE MountedType(i) \in DOMAIN Governs /\ Owns(Governs[MountedType(i)])
  BY DEF TreeRefused, MountsRefused
<1>2. IsBind(i) <=> "bind" \in FlagsOf(i)
  BY DEF IsBind, FlagsOf
<1>3. ~IsBind(i) => MountedType(i) = effective_fstype(b.mounts[i].typ)
  BY DEF MountedType
<1>4. \A typ \in DOMAIN Governs : Governs[typ] \in Kind \ {"user"}
  BY DEF Governs, Kind
<1>5. \A k \in Kind \ {"user"} : Owns(k) => k \in Able
  BY AbleIs
<1>6. QED  BY <1>1, <1>2, <1>3, <1>4, <1>5

LEMMA NextMount ==
    ASSUME b \in Bundles, OwnMounts(b), ~TreeRefused, NEW n \in Nat, n < Len(b.mounts)
    PROVE  /\ n + 1 \in NewMounts /\ Adds(FlagsOf(n + 1))
           /\ \A i \in NewMounts : i <= n => ~Blocks(i, Destination(n + 1))
           /\ b.cwd # <<>> => ~Below(Destination(n + 1), b.cwd)
<1>1. n + 1 \in NewMounts
  BY MountsAre DEF TreeRefused
<1>2. Adds(FlagsOf(n + 1))
  BY <1>1, MountsAre
<1>3. \A i \in NewMounts : i <= n => i < n + 1
  BY MountsAre
<1>4. \A i \in NewMounts : i <= n => ~Blocks(i, Destination(n + 1))
  BY <1>1, <1>3 DEF TreeRefused, MountsRefused
<1>5. b.cwd # <<>> => ~Below(Destination(n + 1), b.cwd)
  BY <1>1 DEF TreeRefused, CwdRefused
<1>6. QED  BY <1>1, <1>2, <1>4, <1>5

LEMMA AllMade ==
    ASSUME b \in Bundles, NEW n \in Nat, n >= Len(b.mounts), NEW p
    PROVE  /\ \A i \in NewMounts : Uncovered(i, p, n) <=> Uncovered(i, p, Len(b.mounts))
           /\ \A i \in NewMounts : OverBy(i, p, n) <=> CoveredAfter(i, p)
           /\ \A i \in NewMounts : LoosenedBy(i, n) <=> LoosenedBy(i, Len(b.mounts))
           /\ Bare(p, n) <=> Bare(p, Len(b.mounts))
<1> DEFINE last == Len(b.mounts)
<1>1. last \in Nat /\ \A i \in DOMAIN b.mounts : i \in Nat /\ i <= last
  BY MountsAre
<1>2. NewMounts \subseteq DOMAIN b.mounts
  BY DEF NewMounts
<1> HIDE DEF last
<1>3. \A i \in DOMAIN b.mounts : i <= n
  BY <1>1 DEF last
<1>4. \A i \in NewMounts : OverBy(i, p, n) <=> OverBy(i, p, last)
  BY <1>1, <1>2, <1>3 DEF OverBy
<1>5. \A i \in NewMounts : OverBy(i, p, n) <=> CoveredAfter(i, p)
  <2>1. \A i, j \in NewMounts : i < j <=> j > i
    BY <1>1, <1>2
  <2>2. QED  BY <1>2, <1>3, <2>1 DEF OverBy, CoveredAfter
<1>6. \A i \in NewMounts : Uncovered(i, p, n) <=> Uncovered(i, p, last)
  BY <1>1, <1>2, <1>3, <1>4 DEF Uncovered
<1>7. \A i \in NewMounts : LoosenedBy(i, n) <=> LoosenedBy(i, last)
  BY <1>1, <1>3 DEF LoosenedBy
<1>8. Bare(p, n) <=> Bare(p, last)
  BY <1>1, <1>2, <1>3 DEF Bare
<1>9. QED  BY <1>5, <1>6, <1>7, <1>8 DEF last

LEMMA ShownMount ==
    ASSUME b \in Bundles, NEW m, NEW p, NEW n, Shown(m, n, p), NEW i \in NewMounts, Uncovered(i, p, n)
    PROVE  Comes(m, i)
<1>1. ~Bare(p, n)
  BY DEF Bare, Uncovered
<1>2. QED  BY <1>1, OneUncovered DEF Shown

LEMMA MountsAllShown ==
    ASSUME b \in Bundles, OwnMounts(b), NEW f, Furnished(f), NEW n \in Nat, n >= Len(b.mounts), ShownTo(f, n)
    PROVE  Fitted(f)
<1> DEFINE last == Len(b.mounts)
<1>1. ASSUME NEW p \in Paths PROVE Shown(MountOf(f, p), last, p)
  <2>1. Shown(MountOf(f, p), n, p)
    BY DEF ShownTo
  <2>2. QED  BY <2>1, AllMade DEF Shown, Firm
<1>2. Views(f)
  BY <1>1 DEF Views
<1>3. ASSUME NEW name \in {"self", "sys"} PROVE KeepsProc(f, name)
  <2> SUFFICES ASSUME HasProc(name, FALSE) PROVE SeesProc(f, name)
    BY DEF KeepsProc
  <2>1. PICK i \in NewMounts : /\ Destination(i) = ProcDir /\ MountedType(i) = "proc"
                               /\ ~OverBy(i, ProcPath(name), last)
    BY HasProcIs
  <2>2. Uncovered(i, ProcPath(name), last)
    BY <2>1, ProcUncovered
  <2>3. ProcPath(name) \in Paths
    BY ProcPaths
  <2>4. Comes(MountOf(f, ProcPath(name)), i)
    BY <1>1, <2>2, <2>3, ShownMount
  <2>5. QED  BY <2>1, <2>4 DEF Comes, SeesProc, IsProc
<1>4. QED  BY <1>2, <1>3 DEF Fitted

LEMMA MountsAllRoomy ==
    ASSUME b \in Bundles, OwnMounts(b), ~TreeRefused, NEW f, NEW n \in Nat, n >= Len(b.mounts), ShownTo(f, n),
           ClearTo(f, n), MountsTo(f, n), PtmxTo(f, n), Bindable(f), CwdIn(f)
    PROVE  Roomy(f)
<1> DEFINE last == Len(b.mounts)
<1>1. Clearing(f)
  <2>1. ASSUME NEW p \in Paths PROVE Clear(MountOf(f, p), last, p)
    <3>1. Clear(MountOf(f, p), n, p)
      BY DEF ClearTo
    <3>2. QED  BY <3>1, AllMade DEF Clear
  <2>2. QED  BY <2>1 DEF Clearing
<1>2. ASSUME NEW p \in Paths PROVE MountOf(f, p).fs.typ \notin Covering
  <2>1. Shown(MountOf(f, p), n, p)
    BY DEF ShownTo
  <2>2. ASSUME NEW i \in NewMounts PROVE MountedType(i) \notin Covering
    <3>1. ~IsBind(i) => MountedType(i) \in DOMAIN Governs
      BY DEF TreeRefused, MountsRefused
    <3>2. IsBind(i) => MountedType(i) \in {"hostfile", "hostdir"}
      BY DEF MountedType
    <3>3. \A typ \in DOMAIN Governs \cup {"hostfile", "hostdir"} : typ \notin Covering
      BY DEF Governs, Covering
    <3>4. QED  BY <3>1, <3>2, <3>3
  <2>3. "base" \notin Covering /\ "overlay" \notin Covering
    BY DEF Covering
  <2>4. QED  BY <2>1, <2>2, <2>3 DEF Shown, Comes, OfRoot
<1>3. NodesIn(f)
  BY <1>2, PtmxPath DEF NodesIn
<1>4. PtmxTo(f, last)
  <2>1. \A i \in NewMounts : i <= n
    BY MountsAre DEF NewMounts
  <2>2. \A i \in NewMounts : OverBy(i, DevDir, n) <=> OverBy(i, DevDir, last)
    <3>1. last \in Nat /\ last >= last
      BY MountsAre
    <3>2. QED  BY <3>1, AllMade
  <2>3. QED  BY <2>1, <2>2 DEF PtmxTo
<1>5. Reach(f)
  <2> SUFFICES ASSUME NEW i \in NewMounts, ~CoveredByMount(i)
               PROVE  Exists(f, Destination(i)) /\ Comes(MountOf(f, Destination(i)), i)
    BY DEF Reach
  <2>1. Destination(i) \in Paths /\ i <= n
    BY MountsAre DEF NewMounts
  <2>2. ~OverBy(i, Destination(i), n)
    BY AllMade DEF CoveredByMount
  <2>3. Uncovered(i, Destination(i), n)
    BY <2>1, <2>2, PrefixOrder DEF Uncovered
  <2>4. Comes(MountOf(f, Destination(i)), i)
    BY <2>1, <2>3, ShownMount DEF ShownTo
  <2>5. QED  BY <2>1, <2>2, <2>4 DEF MountsTo, At
<1>6. QED  BY <1>1, <1>3, <1>4, <1>5 DEF Roomy

LEMMA MountsFStep == ASSUME FInv, ApplyMounts PROVE FStep
<1> DEFINE i == done + 1
           m == b.mounts[i]
           after == apply_one(fsys, m, Able)
<1>1. Each("mounts", b.mounts, after, "nodes") /\ pc = "mounts"
  BY DEF ApplyMounts, Each
<1>2. /\ b \in Bundles /\ done \in Nat /\ OwnMounts(b) /\ fsys.ok /\ Orderly(fsys) /\ Fine(fsys)
      /\ Placed(fsys) /\ Furnished(fsys)
  BY <1>1, AtWork
<1>3. ShownTo(fsys, done)
  BY <1>1, <1>2 DEF FInv, Viewed, Inside
<1>4. ~TreeRefused => Bindable(fsys) /\ CwdIn(fsys) /\ ClearTo(fsys, done)
  BY <1>1, <1>2 DEF FInv, Smooth
<1>5. MountsTo(fsys, done) /\ PtmxTo(fsys, done)
  BY <1>1, UnderConstruction DEF FInv, Building
<1>6. ASSUME done < Len(b.mounts), after.ok
      PROVE  Viewed(after, i, "mounts") /\ Smooth(after, i, "mounts")
  <2>1. Destination(i) \in Paths
    BY <1>2, <1>6, MountsAre
  <2>2. Brings(fsys, after, m, FlagsOf(i), Destination(i))
    BY <1>2, <1>6, <2>1, ApplyBrings DEF FlagsOf, Destination
  <2> HIDE DEF after
  <2>3. Furnished(after)
    BY <1>2, <2>1, <2>2, BroughtFurnished
  <2>4. ShownTo(after, i)
    BY <1>2, <1>3, <1>6, <2>2, BroughtShown
  <2>5. ASSUME ~TreeRefused PROVE Bindable(after) /\ CwdIn(after) /\ ClearTo(after, i)
    <3>1. Adds(FlagsOf(done + 1)) /\ (b.cwd # <<>> => ~Below(Destination(done + 1), b.cwd))
      BY <1>2, <1>6, <2>5, NextMount
    <3>2. /\ ClearTo(after, done + 1) /\ (Bindable(fsys) => Bindable(after))
          /\ \A q \in Paths : Exists(fsys, q) /\ ~Below(Destination(done + 1), q) => Exists(after, q)
      BY <1>2, <1>4, <1>6, <2>2, <2>5, <3>1, BroughtClear
    <3>3. CwdIn(after)
      BY <1>2, <1>4, <2>5, <3>1, <3>2, PlaceIs DEF CwdIn
    <3>4. QED  BY <1>4, <2>5, <3>2, <3>3
  <2>6. QED  BY <2>3, <2>4, <2>5, ViewedMounts, SmoothMounts
<1>7. ASSUME done < Len(b.mounts), ~TreeRefused PROVE after.ok
  <2> DEFINE at == Destination(i)
             flags == FlagsOf(i)
  <2>1. /\ i \in NewMounts /\ Adds(flags)
        /\ \A k \in NewMounts : k <= done => ~Blocks(k, at)
    BY <1>2, <1>7, NextMount
  <2>2. at \in Paths /\ at = resolve(m.destination) /\ flags = parse_options(m.options).flags
    BY <2>1, MountsAre, <1>2 DEF FlagsOf, Destination
  <2>3. Clear(MountOf(fsys, at), done, at)
    BY <1>4, <1>7, <2>2 DEF ClearTo
  <2>4. Exists(fsys, at) \/ Holds(fsys, at)
    BY <1>2, <2>1, <2>2, <2>3, ClearRoom
  <2>5. IF "bind" \in flags THEN m.source # "gone"
        ELSE effective_fstype(m.typ) \in DOMAIN Governs /\ Governs[effective_fstype(m.typ)] \in Able
    <3>1. OInv /\ pc \in Inside
      BY <1>1 DEF FInv, CInv, Inside
    <3>2. QED  BY <1>2, <1>7, <2>1, <3>1, MountAble
  <2>6. ASSUME NEW h, Brings(fsys, h, m, flags, at), m.typ = "devpts" PROVE Exists(h, DevDir) /\ Holds(h, Dev("ptmx"))
    <3>1. ClearTo(h, done + 1) /\ Fine(h) /\ Placed(h)
      BY <1>2, <1>4, <1>7, <2>1, <2>6, BroughtClear
    <3>2. Furnished(h)
      BY <1>2, <2>2, <2>6, BroughtFurnished
    <3>3. QED  BY <1>2, <1>7, <2>1, <2>6, <3>1, <3>2, PtmxRoom
  <2> HIDE DEF i, m, at, flags
  <2>7. apply_one(fsys, m, Able).ok
    BY <1>2, <2>1, <2>2, <2>4, <2>5, <2>6, ApplyWorks
  <2>8. QED  BY <2>7 DEF m, i
<1>8. ASSUME ~(done < Len(b.mounts)) PROVE Viewed(fsys, 0, "nodes") /\ Smooth(fsys, 0, "nodes")
  <2>1. done >= Len(b.mounts)
    BY <1>2, <1>8, MountsAre
  <2>2. Fitted(fsys)
    BY <1>2, <1>3, <2>1, MountsAllShown
  <2>3. ~TreeRefused => Roomy(fsys)
    BY <1>2, <1>3, <1>4, <1>5, <2>1, MountsAllRoomy
  <2>4. QED  BY <2>2, <2>3, ViewedFitting, SmoothFitting DEF Fitting
<1> HIDE DEF after
<1>9. QED  BY <1>1, <1>2, <1>6, <1>7, <1>8, LoopStep

LEMMA BelowDev == ASSUME NEW x \in Names PROVE ~IsPrefix(Dev(x), DevDir)
<1>1. Dev(x) \in Paths /\ IsPrefix(DevDir, Dev(x)) /\ DevDir \in Paths
  BY DevPrefixes
<1>2. Len(Dev(x)) = 2 /\ Len(DevDir) = 1
  BY DEF Dev, DevDir
<1>3. Dev(x) # DevDir
  BY <1>2
<1>4. QED  BY <1>1, <1>3, PrefixOrder

LEMMA RoomThere ==
    ASSUME b \in Bundles, NEW f, Orderly(f), Furnished(f), Roomy(f), NEW p \in Paths,
           \A i \in NewMounts : ~Blocks(i, p), MountOf(f, p).fs.typ \in Covering => MountOf(f, p).fs.at = p
    PROVE  Exists(f, p) \/ Holds(f, p)
<1>1. CASE MountOf(f, p).fs.typ \in Covering
  <2>1. MountOf(f, p).at = p /\ Fine(f)
    BY <1>1 DEF Orderly
  <2>2. QED  BY <2>1, ExistsIs
<1>2. CASE MountOf(f, p).fs.typ \notin Covering
  <2>1. Clear(MountOf(f, p), Len(b.mounts), p)
    BY <1>2 DEF Roomy, Clearing
  <2>2. QED  BY <2>1, ClearRoom
<1>3. QED  BY <1>1, <1>2

LEMMA DevRoom ==
    ASSUME b \in Bundles, OwnMounts(b), ~TreeRefused, NEW f, Orderly(f), Furnished(f), Roomy(f), NEW x \in Names
    PROVE  Exists(f, Dev(x)) \/ Holds(f, Dev(x))
<1> DEFINE p == Dev(x)
           m == MountOf(f, p)
<1>1. /\ p \in Paths /\ DevDir \in Paths /\ IsPrefix(DevDir, p)
      /\ \A q \in Paths : IsPrefix(q, p) => q = p \/ IsPrefix(q, DevDir)
  BY DevPrefixes
<1>2. ASSUME NEW i \in NewMounts PROVE ~Blocks(i, p)
  <2>1. IsPrefix(Destination(i), DevDir) => Holding(i)
    BY DEF TreeRefused, DevicesRefused, DevDir
  <2>2. Destination(i) \in Paths
    BY MountsAre
  <2> HIDE DEF p
  <2>3. QED  BY <1>1, <2>1, <2>2 DEF Blocks
<1>3. ASSUME m.fs.typ \in Covering PROVE m.fs.at = p
  <2>1. Fine(f) /\ m.fs.at = m.at
    BY <1>1 DEF Orderly
  <2>2. m.at \in Paths /\ IsPrefix(m.at, p)
    BY <1>1, <2>1, MountIsAbove
  <2>3. IsPrefix(m.at, DevDir) => MountOf(f, DevDir) = m
    BY <1>1, <2>1, <2>2, SameMount
  <2>4. ~IsPrefix(m.at, DevDir)
    BY <1>3, <2>3 DEF Roomy, NodesIn
  <2>5. QED  BY <1>1, <2>1, <2>2, <2>4
<1> HIDE DEF p
<1>4. Exists(f, p) \/ Holds(f, p)
  BY <1>1, <1>2, <1>3, RoomThere
<1>5. QED  BY <1>4 DEF p

LEMMA DeviceRoom ==
    ASSUME b \in Bundles, OwnMounts(b), ~TreeRefused, NEW f, Orderly(f), Furnished(f), Roomy(f), NEW d \in ToSet(b.devices)
    PROVE  LET p == resolve(d.path) IN (Exists(f, p) \/ Holds(f, p)) /\ d.onHost /\ (d.owned => UserAsked = "absent")
<1> DEFINE p == resolve(d.path)
           m == MountOf(f, p)
<1>1. p \in Paths
  BY BundlesAssumption
<1>2. /\ d.onHost /\ ~(d.owned /\ UserAsked # "absent")
      /\ \A i \in NewMounts : ~Blocks(i, p)
      /\ \A q \in Nodes : ~Below(q, p)
  BY DEF TreeRefused, DevicesRefused
<1>3. ASSUME m.fs.typ \in Covering PROVE m.fs.at = p
  <2>1. Fine(f) /\ m.fs.at = m.at
    BY <1>1 DEF Orderly
  <2>2. IsPrefix(m.at, p)
    BY <1>1, <2>1, MountIsAbove
  <2>3. m.fs.at \in Nodes
    BY <1>1, <1>3 DEF Roomy, NodesIn
  <2>4. QED  BY <1>2, <2>1, <2>2, <2>3 DEF Below
<1> HIDE DEF p
<1>4. Exists(f, p) \/ Holds(f, p)
  BY <1>1, <1>2, <1>3, RoomThere
<1>5. QED  BY <1>2, <1>4 DEF p

\* A node, a link or a device more.
LEMMA FitsOneMore ==
    ASSUME b \in Bundles, NEW f, Orderly(f), NEW g, NEW at \in Paths, Lays(f, g, "hostdev", at), Grows(f, g), Fitted(f)
    PROVE  /\ Fitted(g)
           /\ Roomy(f) /\ at \in Nodes /\ (IsPrefix(at, DevDir) => Exists(f, DevDir)) => Roomy(g)
           /\ HasNull(f) => HasNull(g)
<1> DEFINE typs == {"hostdev"}
<1>1. Fine(f) /\ FsTyped(f)
  BY DEF Orderly, Fine
<1>2. Laid(f, g, typs, at) /\ (Bindable(f) => Bindable(g))
  BY <1>1, LaysLaid, LaysBindable
<1>3. typs \subseteq Covering
  BY DEF Covering
<1>4. Fitted(g)
  BY <1>1, <1>2, <1>3, GrowsFitted
<1>5. HasNull(f) => HasNull(g)
  BY NullDev DEF Grows, HasNull
<1>6. QED  BY <1>1, <1>2, <1>4, <1>5, GrowsRoomy

LEMMA FittingIs ==
    ASSUME FInv, pc \in Fitting
    PROVE  /\ Fitted(fsys) /\ (~TreeRefused => Roomy(fsys))
           /\ ~TreeRefused /\ (pc # "nodes" \/ done > 0) => HasNull(fsys)
<1>1. OwnMounts(b) /\ pc \in Inside \ {"root"}
  BY AtWork DEF Fitting, Inside
<1>2. QED  BY <1>1 DEF FInv, Viewed, Smooth

LEMMA NodesFStep == ASSUME FInv, CreateNodes PROVE FStep
<1> DEFINE name == DEFAULT_DEVICES[done + 1]
           target == Dev(name)
           yes == TRUE
           after == node(fsys, target, yes, BindsNodes)
<1>1. Each("nodes", DEFAULT_DEVICES, after, "links") /\ pc = "nodes" /\ pc \in Fitting
  BY DEF CreateNodes, Each, Fitting
<1>2. /\ b \in Bundles /\ done \in Nat /\ OwnMounts(b) /\ fsys.ok /\ Orderly(fsys) /\ FsTyped(fsys) /\ Furnished(fsys)
  BY <1>1, AtWork
<1>3. Fitted(fsys) /\ (~TreeRefused => Roomy(fsys)) /\ (~TreeRefused /\ done > 0 => HasNull(fsys))
  BY <1>1, FittingIs
<1>4. done < Len(DEFAULT_DEVICES) => name \in Names /\ target \in Paths /\ target \in Nodes /\ ~IsPrefix(target, DevDir)
  <2> SUFFICES ASSUME done < Len(DEFAULT_DEVICES)
               PROVE  name \in Names /\ target \in Paths /\ target \in Nodes /\ ~IsPrefix(target, DevDir)
    OBVIOUS
  <2>1. done + 1 \in 1..6
    BY <1>2, ListsNamed
  <2>2. name \in Names /\ name \in ToSet(DEFAULT_DEVICES)
    BY <2>1, ListsNamed DEF ToSet
  <2>3. QED  BY <2>2, DevPrefixes, BelowDev DEF Nodes
<1>5. ASSUME done < Len(DEFAULT_DEVICES), after.ok
      PROVE  Viewed(after, done + 1, "nodes") /\ Smooth(after, done + 1, "nodes")
  <2> HIDE DEF target, yes
  <2>1. Lays(fsys, after, "hostdev", target)
    BY <1>2, <1>5, NodeLays
  <2>2. Grows(fsys, after) /\ Exists(after, target)
    BY <1>2, <1>4, <1>5, NodeGrows
  <2> HIDE DEF after
  <2>3. Fitted(after) /\ (Roomy(fsys) => Roomy(after)) /\ (HasNull(fsys) => HasNull(after))
    BY <1>2, <1>3, <1>4, <1>5, <2>1, <2>2, FitsOneMore
  <2>4. done = 0 => HasNull(after)
    BY <2>2 DEF HasNull, target, DEFAULT_DEVICES
  <2>5. ~TreeRefused => Roomy(after) /\ HasNull(after)
    BY <1>2, <1>3, <2>3, <2>4
  <2>6. QED  BY <1>2, <2>3, <2>5, ViewedFitting, SmoothFitting DEF Fitting
<1>6. ASSUME done < Len(DEFAULT_DEVICES), ~TreeRefused PROVE after.ok
  <2>1. Exists(fsys, target) \/ Holds(fsys, target)
    BY <1>2, <1>3, <1>4, <1>6, DevRoom
  <2>2. target \in Paths /\ yes
    BY <1>4, <1>6
  <2> HIDE DEF target, yes
  <2>3. QED  BY <1>2, <2>1, <2>2, NodeWorks
<1>7. ASSUME ~(done < Len(DEFAULT_DEVICES)) PROVE Viewed(fsys, 0, "links") /\ Smooth(fsys, 0, "links")
  <2>1. done > 0
    BY <1>2, <1>7, ListsNamed
  <2>2. QED  BY <1>3, <2>1, ViewedFitting, SmoothFitting DEF Fitting
<1> HIDE DEF after
<1>8. QED  BY <1>1, <1>2, <1>5, <1>6, <1>7, LoopStep

LEMMA LinksFStep == ASSUME FInv, CreateLinks PROVE FStep
<1> DEFINE name == SYMLINKS[done + 1]
           target == Dev(name)
           after == Make(fsys, target)
           null == Dev("null")
<1>1. Each("links", SYMLINKS, after, "devices") /\ pc = "links" /\ pc \in Fitting
  BY DEF CreateLinks, Each, Fitting
<1>2. /\ b \in Bundles /\ done \in Nat /\ OwnMounts(b) /\ fsys.ok /\ Orderly(fsys) /\ FsTyped(fsys) /\ Furnished(fsys)
  BY <1>1, AtWork
<1>3. Fitted(fsys) /\ (~TreeRefused => Roomy(fsys) /\ HasNull(fsys))
  BY <1>1, FittingIs
<1>4. done < Len(SYMLINKS) => name \in Names /\ target \in Paths
  <2> SUFFICES ASSUME done < Len(SYMLINKS) PROVE name \in Names /\ target \in Paths
    OBVIOUS
  <2>1. done + 1 \in 1..4
    BY <1>2, ListsNamed
  <2>2. name \in Names
    BY <2>1, ListsNamed
  <2>3. QED  BY <2>2, DevPrefixes
<1>5. ASSUME done < Len(SYMLINKS), after.ok
      PROVE  Viewed(after, done + 1, "links") /\ Smooth(after, done + 1, "links")
  <2> HIDE DEF target
  <2>1. Lays(fsys, after, "hostdev", null)
    BY <1>2, <1>5, MakeAlike DEF Lays
  <2>2. Grows(fsys, after)
    BY <1>2, <1>4, <1>5, MakeGrows
  <2> HIDE DEF after
  <2>3. null \in Paths /\ null \in Nodes /\ ~IsPrefix(null, DevDir)
    BY NullDev
  <2> HIDE DEF null
  <2>4. Fitted(after) /\ (Roomy(fsys) => Roomy(after)) /\ (HasNull(fsys) => HasNull(after))
    BY <1>2, <1>3, <2>1, <2>2, <2>3, FitsOneMore
  <2>5. QED  BY <1>2, <1>3, <2>4, ViewedFitting, SmoothFitting DEF Fitting
<1>6. ASSUME done < Len(SYMLINKS), ~TreeRefused PROVE after.ok
  <2>1. Exists(fsys, target) \/ Holds(fsys, target)
    BY <1>2, <1>3, <1>4, <1>6, DevRoom
  <2>2. target \in Paths
    BY <1>4, <1>6
  <2> HIDE DEF target
  <2>3. QED  BY <1>2, <2>1, <2>2, MakeWorks
<1>7. ASSUME ~(done < Len(SYMLINKS)) PROVE Viewed(fsys, 0, "devices") /\ Smooth(fsys, 0, "devices")
  BY <1>3, ViewedFitting, SmoothFitting DEF Fitting
<1> HIDE DEF after
<1>8. QED  BY <1>1, <1>2, <1>5, <1>6, <1>7, LoopStep

LEMMA DevicesFStep == ASSUME FInv, CreateDevices PROVE FStep
<1> DEFINE d == b.devices[done + 1]
           target == resolve(d.path)
           after == extra_device(fsys, d, BindsNodes, HostUser)
<1>1. Each("devices", b.devices, after, "pivot") /\ pc = "devices" /\ pc \in Fitting
  BY DEF CreateDevices, Each, Fitting
<1>2. /\ b \in Bundles /\ done \in Nat /\ OwnMounts(b) /\ fsys.ok /\ Orderly(fsys) /\ FsTyped(fsys) /\ Furnished(fsys)
  BY <1>1, AtWork
<1>3. Fitted(fsys) /\ (~TreeRefused => Roomy(fsys) /\ HasNull(fsys))
  BY <1>1, FittingIs
<1>4. done < Len(b.devices) => d \in ToSet(b.devices) /\ target \in Paths /\ target \in Nodes
  <2> SUFFICES ASSUME done < Len(b.devices) PROVE d \in ToSet(b.devices) /\ target \in Paths /\ target \in Nodes
    OBVIOUS
  <2>1. done + 1 \in DOMAIN b.devices
    BY <1>2, DevicesAre
  <2>2. QED  BY <1>2, <2>1, DevicesAre DEF Nodes
<1>5. HasNull(fsys) => Exists(fsys, DevDir)
  BY <1>2, NullDev, PtmxPath, OrderlyReached DEF HasNull, Reached
<1>6. ASSUME done < Len(b.devices), after.ok
      PROVE  Viewed(after, done + 1, "devices") /\ Smooth(after, done + 1, "devices")
  <2> HIDE DEF d
  <2>1. Lays(fsys, after, "hostdev", target)
    BY <1>2, <1>6, DeviceLays
  <2>2. Grows(fsys, after)
    BY <1>2, <1>4, <1>6, ExtraDeviceGrows
  <2> HIDE DEF after, target
  <2>3. Fitted(after) /\ (Roomy(fsys) /\ HasNull(fsys) => Roomy(after)) /\ (HasNull(fsys) => HasNull(after))
    BY <1>2, <1>3, <1>4, <1>5, <1>6, <2>1, <2>2, FitsOneMore
  <2>4. QED  BY <1>2, <1>3, <2>3, ViewedFitting, SmoothFitting DEF Fitting
<1>7. ASSUME done < Len(b.devices), ~TreeRefused PROVE after.ok
  <2>1. (Exists(fsys, target) \/ Holds(fsys, target)) /\ d.onHost /\ (d.owned => UserAsked = "absent")
    BY <1>2, <1>3, <1>4, <1>7, DeviceRoom
  <2>2. target \in Paths
    BY <1>4, <1>7
  <2>3. HostUser <=> UserAsked = "absent"
    <3>1. OInv /\ pc \in Inside
      BY <1>1 DEF FInv, CInv, Inside
    <3>2. QED  BY <3>1, AbleIs
  <2> DEFINE p == target
  <2>4. p = resolve(d.path) /\ p \in Paths /\ (Exists(fsys, p) \/ Holds(fsys, p)) /\ (d.owned => HostUser)
    BY <2>1, <2>2, <2>3
  <2> HIDE DEF p, d
  <2>5. QED  BY <1>2, <2>1, <2>4, DeviceWorks
<1>8. ASSUME ~(done < Len(b.devices)) PROVE Viewed(fsys, 0, "pivot") /\ Smooth(fsys, 0, "pivot")
  BY <1>3, ViewedFitting, SmoothFitting DEF Fitting
<1> HIDE DEF after
<1>9. QED  BY <1>1, <1>2, <1>6, <1>7, <1>8, LoopStep

-----------------------------------------------------------------------------
\* The same tree, seen from the new root.
LEMMA SameTree ==
    ASSUME b \in Bundles, NEW f, Orderly(f), NEW g, Shows(f, g), g.has = f.has,
           \A q \in Paths : MountOf(g, q).ro = MountOf(f, q).ro
    PROVE  /\ Orderly(g)
           /\ Fitted(f) => Fitted(g)
           /\ Bindable(g) /\ Roomy(f) => Roomy(g)
           /\ HasNull(f) => HasNull(g)
<1>1. Sees(f, g) /\ Fine(f)
  BY DEF Shows, Orderly
<1>2. Orderly(g)
  BY <1>1, SeenOrderly
<1>3. Kept(f, g)
  BY <1>1 DEF Sees, Kept
<1>4. Fitted(f) => Fitted(g)
  BY <1>3, KeptViews, ProcPaths DEF Fitted, KeepsProc
<1>5. \A q \in Paths : (Exists(f, q) => Exists(g, q)) /\ MountOf(g, q).fs = MountOf(f, q).fs
  BY <1>1, SeesNames DEF Sees
<1>6. HasNull(f) => HasNull(g)
  BY <1>5, NullDev DEF HasNull
<1>7. ASSUME Bindable(g), Roomy(f) PROVE Roomy(g)
  <2>1. CwdIn(g)
    BY <1>5, <1>7, PlaceIs DEF Roomy, CwdIn
  <2>2. Clearing(g)
    BY <1>5, <1>7 DEF Roomy, Clearing, Clear, Comes, OfRoot
  <2>3. NodesIn(g)
    BY <1>5, <1>7, PtmxPath DEF Roomy, NodesIn
  <2>4. PtmxTo(g, Len(b.mounts))
    BY <1>5, <1>7, PtmxPath DEF Roomy, PtmxTo
  <2>5. Reach(g)
    BY <1>5, <1>7, PlaceIs DEF Roomy, Reach, Comes
  <2>6. QED  BY <1>7, <2>1, <2>2, <2>3, <2>4, <2>5 DEF Roomy
<1>8. QED  BY <1>2, <1>4, <1>6, <1>7

LEMMA PivotFStep == ASSUME FInv, PivotRoot PROVE FStep
<1> DEFINE after == set_propagation(pivot(fsys), b.propagation)
           next == IF b.console # "none" THEN "console" ELSE "identity"
<1>1. pc = "pivot" /\ pc \in Fitting /\ fsys' = after /\ pc' = (IF after.ok THEN next ELSE "failed") /\ done' = done
  BY DEF PivotRoot, Go, Fitting
<1>2. /\ b \in Bundles /\ done \in Nat /\ OwnMounts(b) /\ fsys.ok /\ Orderly(fsys) /\ Fine(fsys)
  BY <1>1, AtWork
<1>3. Fitted(fsys) /\ (~TreeRefused => Roomy(fsys) /\ HasNull(fsys))
  BY <1>1, FittingIs
<1>4. fsys.prop # "shared"
  BY <1>1, UnderConstruction DEF FInv, Building
<1>5. after.ok
  BY <1>2, <1>4, PivotWorks
<1>6. /\ Shows(fsys, after) /\ after.has = fsys.has /\ \A q \in Paths : MountOf(after, q).ro = MountOf(fsys, q).ro
      /\ b.propagation # "unbindable" /\ Bindable(fsys) => Bindable(after)
  BY <1>2, <1>5, PivotShows
<1> HIDE DEF after
<1>7. /\ Orderly(after) /\ Fitted(after) /\ (Bindable(after) /\ Roomy(fsys) => Roomy(after))
      /\ HasNull(fsys) => HasNull(after)
  BY <1>2, <1>3, <1>6, SameTree
<1>8. ~TreeRefused => Roomy(after) /\ HasNull(after)
  <2>1. ~TreeRefused => b.propagation # "unbindable"
    BY <1>2 DEF TreeRefused, HardeningRefused
  <2>2. QED  BY <1>3, <1>6, <1>7, <2>1 DEF Roomy
<1>9. CASE next = "console"
  <2>1. Viewed(after, done, "console") /\ Smooth(after, done, "console")
    BY <1>2, <1>7, <1>8, ViewedFitting, SmoothFitting DEF Fitting
  <2>2. QED  BY <1>1, <1>5, <1>9, <2>1 DEF FStep, TreeFails
<1>10. CASE next = "identity"
  <2>1. Placed(after)
    BY <1>7 DEF Orderly, Placed
  <2>2. Viewed(after, done, "identity") /\ Smooth(after, done, "identity")
    BY <1>7, <1>8, <2>1, ViewedNaming, SmoothNaming DEF Naming, Roomy
  <2>3. QED  BY <1>1, <1>5, <1>10, <2>2 DEF FStep, TreeFails
<1>11. QED  BY <1>9, <1>10

-----------------------------------------------------------------------------
LEMMA BelowConsoleIs ==
    LET at == Dev("console")
    IN  /\ at \in Paths
        /\ \A p \in Unpacked : ~(IsPrefix(at, p) /\ at # p)
        /\ \A name : ~IsPrefix(at, ProcPath(name))
        /\ ~IsPrefix(at, Dev("null"))
<1> DEFINE at == Dev("console")
<1>1. at \in Paths /\ ~IsPrefix(at, DevDir)
  BY ListsNamed, DevPrefixes, BelowDev
<1>2. Len(at) = 2 /\ at[1] = "dev" /\ at[2] = "console"
  BY DEF Dev
<1> HIDE DEF at
<1>3. ASSUME NEW p \in Unpacked, IsPrefix(at, p) PROVE FALSE
  <2>1. Len(p) < 2 \/ p[1] = "etc"
    BY DEF Unpacked
  <2>2. Len(at) <= Len(p) /\ \A i \in 1..Len(at) : at[i] = p[i]
    BY <1>3 DEF IsPrefix
  <2>3. Len(p) >= 2 /\ p[1] = "dev"
    BY <1>2, <2>2 DEF Unpacked
  <2>4. QED  BY <2>1, <2>3
<1>4. ASSUME NEW name, IsPrefix(at, ProcPath(name)) PROVE FALSE
  <2>1. ProcPath(name)[1] = "proc"
    BY DEF ProcPath
  <2>2. at[1] = ProcPath(name)[1]
    BY <1>2, <1>4 DEF IsPrefix
  <2>3. QED  BY <1>2, <2>1, <2>2
<1>5. ~IsPrefix(at, Dev("null"))
  <2>1. "null" \in Names
    BY DEF Names
  <2>2. IsPrefix(at, Dev("null")) => at = Dev("null")
    BY <1>1, <2>1, DevPrefixes
  <2>3. Dev("null")[2] = "null"
    BY DEF Dev
  <2>4. QED  BY <1>2, <2>2, <2>3
<1>6. QED  BY <1>1, <1>3, <1>4, <1>5 DEF at

LEMMA PtysThere ==
    ASSUME b \in Bundles, OwnMounts(b), ~TreeRefused, b.terminal, NEW f, Roomy(f)
    PROVE  HasPtys(f)
<1>1. PICK i \in NewMounts : Destination(i) = Dev("pts") /\ b.mounts[i].typ = "devpts" /\ ~IsBind(i) /\ ~CoveredByMount(i)
  BY DEF TreeRefused, DevicesRefused
<1>2. Exists(f, Dev("pts")) /\ MountOf(f, Dev("pts")).fs.typ = "devpts"
  <2>1. MountedType(i) = "devpts"
    BY <1>1 DEF MountedType, effective_fstype
  <2>2. Exists(f, Destination(i)) /\ Comes(MountOf(f, Destination(i)), i)
    BY <1>1 DEF Roomy, Reach
  <2>3. QED  BY <1>1, <2>1, <2>2 DEF Comes
<1>3. ~OverBy(i, DevDir, Len(b.mounts))
  <2> SUFFICES ASSUME NEW j \in NewMounts, i < j, IsPrefix(Destination(j), DevDir) PROVE FALSE
    BY DEF OverBy
  <2>1. "pts" \in Names
    BY DEF Names
  <2>2. Dev("pts") \in Paths /\ DevDir \in Paths /\ IsPrefix(DevDir, Dev("pts")) /\ Destination(j) \in Paths
    BY <2>1, DevPrefixes, MountsAre DEF NewMounts
  <2>3. IsPrefix(Destination(j), Dev("pts"))
    BY <2>2, PrefixOrder
  <2>4. j > i
    BY MountsAre DEF NewMounts
  <2>5. QED  BY <1>1, <2>3, <2>4 DEF CoveredByMount, CoveredAfter
<1>4. Exists(f, Dev("ptmx"))
  <2>1. i <= Len(b.mounts)
    BY MountsAre DEF NewMounts
  <2>2. QED  BY <1>1, <1>3, <2>1 DEF Roomy, PtmxTo
<1>5. QED  BY <1>2, <1>4 DEF HasPtys, Dev

LEMMA LaidPlaced ==
    ASSUME NEW f, NEW g, NEW typs, NEW at, Laid(f, g, typs, at), Placed(f) PROVE Placed(g)
  BY DEF Laid, Placed

LEMMA ConsoleFStep == ASSUME FInv, SetupConsole PROVE FStep
<1> DEFINE after == setup_console(fsys)
           at == Dev("console")
<1>1. pc = "console" /\ pc \in Fitting /\ fsys' = after /\ pc' = (IF after.ok THEN "identity" ELSE "failed") /\ done' = done
  BY DEF SetupConsole, Go, Fitting
<1>2. /\ b \in Bundles /\ done \in Nat /\ OwnMounts(b) /\ fsys.ok /\ Orderly(fsys) /\ Fine(fsys) /\ FsTyped(fsys)
      /\ Placed(fsys) /\ Furnished(fsys)
  BY <1>1, AtWork
<1>3. Fitted(fsys) /\ (~TreeRefused => Roomy(fsys) /\ HasNull(fsys))
  BY <1>1, FittingIs
<1>4. b.terminal
  BY <1>1, <1>2 DEF FInv, RInv, GInv, Hardened, Inside
<1>5. ASSUME ~TreeRefused PROVE after.ok
  <2>1. HasPtys(fsys)
    BY <1>2, <1>3, <1>4, <1>5, PtysThere
  <2>2. Exists(fsys, at) \/ Holds(fsys, at)
    BY <1>2, <1>3, <1>5, DevRoom, ListsNamed
  <2>3. Bindable(fsys)
    BY <1>3, <1>5 DEF Roomy
  <2>4. QED  BY <1>2, <2>1, <2>2, <2>3, ConsoleWorks
<1>6. CASE after.ok
  <2>1. at \in Paths /\ (\A p \in Unpacked : ~(IsPrefix(at, p) /\ at # p)) /\ (\A name : ~IsPrefix(at, ProcPath(name)))
        /\ ~IsPrefix(at, Dev("null"))
    BY BelowConsoleIs
  <2>2. Lays(fsys, after, "pty", at)
    BY <1>2, <1>6, ConsoleLays
  <2> HIDE DEF after, at
  <2> DEFINE typs == {"pty"}
  <2>3. typs \subseteq Covering
    BY DEF Covering
  <2>4. Laid(fsys, after, typs, at) /\ (Bindable(fsys) => Bindable(after))
    BY <1>2, <2>1, <2>2, LaysLaid, LaysBindable
  <2> HIDE DEF typs
  <2>5. \A name \in {"self", "sys"} : SeesProc(fsys, name) => SeesProc(after, name)
    BY <2>1, <2>4, ProcPaths DEF Laid, SeesProc
  <2>6. Fitted(after)
    BY <1>2, <1>3, <2>1, <2>3, <2>4, <2>5, LaidFitted
  <2>7. Placed(after)
    BY <1>2, <2>4, LaidPlaced
  <2>8. ASSUME ~TreeRefused PROVE Bindable(after) /\ CwdIn(after) /\ Clearing(after) /\ HasNull(after)
    <3>1. Roomy(fsys) /\ HasNull(fsys)
      BY <1>3, <2>8
    <3>2. Bindable(after)
      BY <2>4, <3>1 DEF Roomy
    <3>3. CwdIn(after)
      <4> SUFFICES ASSUME b.cwd # <<>> PROVE Exists(after, b.cwd)
        BY DEF CwdIn
      <4>1. b.cwd \in Unpacked /\ b.cwd \in Paths
        BY <1>2, <2>8, PlaceIs DEF TreeRefused, CwdRefused
      <4>2. Exists(fsys, b.cwd)
        BY <3>1 DEF Roomy, CwdIn
      <4>3. QED  BY <1>2, <2>1, <2>4, <4>1, <4>2, LaidExists
    <3>4. Clearing(after)
      BY <2>1, <2>3, <2>4, <3>1, LaidClears DEF Roomy
    <3>5. HasNull(after)
      <4>1. Exists(fsys, Dev("null")) /\ Dev("null") \in Paths
        BY <3>1, NullDev DEF HasNull
      <4>2. QED  BY <1>2, <2>1, <2>4, <4>1, LaidExists DEF HasNull
    <3>6. QED  BY <3>2, <3>3, <3>4, <3>5
  <2>9. Viewed(after, done, "identity") /\ Smooth(after, done, "identity")
    BY <2>6, <2>7, <2>8, ViewedNaming, SmoothNaming DEF Naming
  <2>10. QED  BY <1>1, <1>6, <2>9 DEF FStep, TreeFails
<1>7. CASE ~after.ok
  BY <1>1, <1>5, <1>7, FailedStep
<1>8. QED  BY <1>6, <1>7

-----------------------------------------------------------------------------
\* The steps that leave the tree as it is.
LEMMA ViewedLast ==
    ASSUME b \in Bundles, NEW f, NEW n, NEW at \in AfterMasks, Viewed(f, n, at)
    PROVE  \A next \in AfterMasks : \A k : Viewed(f, k, next)
<1>1. at \in Inside \ {"root"} /\ at \in Late \ Naming
  BY DEF AfterMasks, Late, Tree, Naming
<1>2. OwnMounts(b) => /\ Furnished(f) /\ (~ProcMasked => KeepsProc(f, "self"))
                      /\ Bound(f) /\ MaskedProc(f, Len(b.masked))
  BY <1>1 DEF Viewed
<1>3. OwnMounts(b) => Views(f)
  BY <1>1 DEF Viewed, AfterMasks, Late, Tree
<1>4. QED  BY <1>2, <1>3, ViewedLate

LEMMA SmoothLast == \A f, n : \A at \in AfterRoot \ {"limits"} : Smooth(f, n, at)
  BY DEF Smooth, Fitting, Naming, Closing, AfterRoot, AfterPaths, AfterMasks, Late, Tree

LEMMA LateFStep ==
    ASSUME FInv, pc \in AfterRoot \ {"failed"}, pc' \in (AfterRoot \ {"limits"}) \cup {"failed"}, fsys' = fsys
    PROVE  FStep
<1>1. b \in Bundles
  BY DEF FInv, RInv, GInv, HInv, NInv
<1>2. pc \in AfterMasks /\ pc \notin TreeSteps /\ pc # "failed"
  BY DEF AfterRoot, AfterPaths, AfterMasks, Late, Tree, TreeSteps, Hardening
<1>3. CASE pc' = "failed"
  BY <1>2, <1>3, FailedStep
<1>4. CASE pc' \in AfterRoot \ {"limits"}
  <2>1. pc' \in AfterMasks
    BY <1>4 DEF AfterRoot, AfterPaths
  <2>2. Viewed(fsys', done', pc') /\ Smooth(fsys', done', pc')
    BY <1>1, <1>2, <1>4, <2>1, ViewedLast, SmoothLast DEF FInv
  <2>3. QED  BY <1>2, <2>2 DEF FStep, FInv, Works, TreeFails
<1>5. QED  BY <1>3, <1>4

LEMMA OutsideFStep ==
    ASSUME FInv, pc \in Outside \ {"root"}, fsys'.ok = fsys.ok,
           \/ pc' \in Outside \cup {"failed"}
           \/ pc' = "identity" /\ ~OwnMounts(b)
    PROVE  FStep
<1>1. pc \notin TreeSteps /\ fsys'.ok
  BY DEF TreeSteps, Outside, Tree, Hardening, FInv, Works
<1>2. CASE pc' \in Outside \cup {"failed"}
  BY <1>1, <1>2, NothingOver DEF FStep, TreeFails
<1>3. CASE pc' = "identity" /\ ~OwnMounts(b)
  BY <1>1, <1>3, ViewedNaming, SmoothNaming DEF FStep, TreeFails, Naming
<1>4. QED  BY <1>2, <1>3

LEMMA IdentityFStep == ASSUME FInv, SetIdentity PROVE FStep
<1>1. pc = "identity" /\ pc' \in {"sysctl", "failed"} /\ fsys' = fsys
  BY DEF SetIdentity, Go
<1>2. pc \notin TreeSteps /\ fsys.ok
  BY <1>1 DEF TreeSteps, Tree, Hardening, FInv, Works
<1>3. CASE pc' = "failed"
  BY <1>2, <1>3, FailedStep
<1>4. CASE pc' = "sysctl"
  <2>1. pc \in Inside \ {"root"} /\ pc \in Naming
    BY <1>1 DEF Inside, Naming
  <2>2. OwnMounts(b) => Fitted(fsys) /\ Placed(fsys)
    BY <2>1 DEF FInv, Viewed
  <2>3. OwnMounts(b) /\ ~TreeRefused => Bindable(fsys) /\ CwdIn(fsys) /\ Clearing(fsys) /\ HasNull(fsys)
    BY <2>1 DEF FInv, Smooth
  <2>4. QED  BY <1>1, <1>2, <1>4, <2>2, <2>3, ViewedNaming, SmoothNaming DEF FStep, TreeFails, Naming
<1>5. QED  BY <1>1, <1>3, <1>4

LEMMA SysctlFStep == ASSUME FInv, ApplySysctl PROVE FStep
<1>1. pc = "sysctl" /\ fsys' = fsys /\ done' = done /\ pc' \in {"sysctl", "failed", IF OwnMounts(b) THEN "mask" ELSE "limits"}
  BY DEF ApplySysctl
<1>2. pc \notin TreeSteps /\ fsys.ok /\ done = 0
  BY <1>1 DEF TreeSteps, Tree, Hardening, FInv, Works, RInv, GInv, Hardened, Loops
<1>3. pc \in Inside \ {"root"} /\ pc \in Naming
  BY <1>1 DEF Inside, Naming
<1>4. OwnMounts(b) => Fitted(fsys) /\ Placed(fsys)
  BY <1>3 DEF FInv, Viewed
<1>5. OwnMounts(b) /\ ~TreeRefused => Bindable(fsys) /\ CwdIn(fsys) /\ Clearing(fsys) /\ HasNull(fsys)
  BY <1>3 DEF FInv, Smooth
<1>6. CASE pc' = "failed"
  BY <1>2, <1>6, FailedStep
<1>7. CASE pc' = "sysctl"
  BY <1>1, <1>2, <1>4, <1>5, <1>7, ViewedNaming, SmoothNaming DEF FStep, TreeFails, Naming
<1>8. CASE OwnMounts(b) /\ pc' = "mask"
  <2>1. MaskedProc(fsys, 0)
    <3>1. b.masked \in Seq(Paths)
      BY BundlesAssumption DEF FInv, RInv, GInv, HInv, NInv
    <3>2. \A k \in DOMAIN b.masked : ~(k <= 0)
      BY <3>1
    <3>3. QED  BY <3>2 DEF MaskedProc
  <2>2. Viewed(fsys, 0, "mask")
    BY <1>4, <1>8, <2>1, ViewedMask DEF Fitted
  <2>3. Smooth(fsys, 0, "mask")
    BY <1>5, <1>8, SmoothMask
  <2>4. QED  BY <1>1, <1>2, <1>8, <2>2, <2>3 DEF FStep, TreeFails
<1>9. CASE ~OwnMounts(b) /\ pc' = "limits"
  <2>1. Viewed(fsys, 0, "limits") /\ Smooth(fsys, 0, "limits")
    <3>1. "limits" \in AfterMasks /\ "limits" \in Closing
      BY DEF AfterMasks, Late, Inside, Tree, Closing
    <3>2. QED  BY <1>9, <3>1, ViewedLate, SmoothClosing
  <2>2. QED  BY <1>1, <1>2, <1>9, <2>1 DEF FStep, TreeFails
<1>10. QED  BY <1>1, <1>6, <1>7, <1>8, <1>9

-----------------------------------------------------------------------------
\* A proc file system that nothing makes read-only can be written.
LEMMA ClearWrites ==
    ASSUME b \in Bundles, OwnMounts(b), ~TreeRefused, NEW f, Clearing(f), NEW name \in {"self", "sys"},
           SeesProc(f, name), HasProc(name, TRUE)
    PROVE  ~MountOf(f, ProcPath(name)).ro
<1> DEFINE p == ProcPath(name)
           m == MountOf(f, p)
           last == Len(b.mounts)
<1>1. PICK i \in NewMounts : /\ Destination(i) = ProcDir /\ MountedType(i) = "proc" /\ ~OverBy(i, p, last)
                             /\ (ReadonlyMount(i) => LoosenedBy(i, last))
  BY HasProcIs
<1>2. ~ReadonlyMount(i)
  <2>1. \A j \in DOMAIN b.mounts : ~Loosens(j)
    BY DEF TreeRefused, NewMounts, Loosens
  <2>2. QED  BY <1>1, <2>1 DEF LoosenedBy
<1>3. Uncovered(i, p, last)
  BY <1>1, ProcUncovered
<1>4. m.fs.typ = "proc" /\ p \in Paths
  BY ProcPaths DEF SeesProc, IsProc
<1>5. Clear(m, last, p)
  BY <1>4 DEF Clearing, Covering
<1> HIDE DEF m, p, last
<1>6. CASE OfRoot(m)
  BY <1>4, <1>6 DEF OfRoot
<1>7. CASE \E j \in NewMounts : Uncovered(j, p, last) /\ Comes(m, j) /\ (m.ro <=> ReadonlyMount(j))
  <2>1. PICK j \in NewMounts : Uncovered(j, p, last) /\ (m.ro <=> ReadonlyMount(j))
    BY <1>7
  <2>2. i = j
    BY <1>3, <2>1, OneUncovered
  <2>3. ~m.ro
    BY <1>2, <2>1, <2>2
  <2>4. QED  BY <2>3 DEF m, p
<1>8. QED  BY <1>5, <1>6, <1>7 DEF Clear

LEMMA ProcDirIs == \A q \in Paths : IsPrefix(q, ProcDir) => q = ProcDir \/ q = <<>>
<1> DEFINE none == <<>>
<1>1. none \in Paths /\ "proc" \in Names
  BY EmptySeq DEF Paths, Names
<1>2. Append(none, "proc") = ProcDir
  BY DEF ProcDir
<1> HIDE DEF none
<1>3. \A q \in Paths : IsPrefix(q, Append(none, "proc")) => q = Append(none, "proc") \/ IsPrefix(q, none)
  BY <1>1, PrefixesOfNext
<1>4. QED  BY <1>2, <1>3, PrefixOfRoot DEF none

\* Where the container's proc file system is seen, all that is above is there.
LEMMA AboveProcExists ==
    ASSUME NEW f, Fine(f), Furnished(f), Placed(f), SeesProc(f, "self"),
           NEW q \in Paths, IsPrefix(q, ProcPath("self"))
    PROVE  Exists(f, q)
<1> DEFINE p == ProcPath("self")
<1>1. p \in Paths /\ ProcDir \in Paths /\ IsPrefix(ProcDir, p) /\ (q = p \/ IsPrefix(q, ProcDir))
  BY ProcPaths
<1>2. MountOf(f, p).at = ProcDir
  BY <1>1 DEF Placed, SeesProc, IsProc
<1>3. Exists(f, p)
  BY SeenExists
<1> HIDE DEF p
<1>4. CASE q = p
  BY <1>3, <1>4
<1>5. CASE q = ProcDir
  <2>1. MountOf(f, ProcDir) = MountOf(f, p)
    BY <1>1, <1>2, SameMount, PrefixOrder
  <2>2. QED  BY <1>2, <1>5, <2>1, ExistsIs
<1>6. CASE q = <<>>
  BY <1>6, RootExists
<1>7. QED  BY <1>1, <1>4, <1>5, <1>6, ProcDirIs

LEMMA MaskHidesProc ==
    ASSUME NEW f, Fine(f), Furnished(f), Placed(f), NEW p \in Paths, mask_one(f, p).ok,
           IsPrefix(p, ProcPath("self")), SeesProc(f, "self")
    PROVE  ~SeesProc(mask_one(f, p), "self")
<1> DEFINE g == mask_one(f, p)
<1>1. Exists(f, p) /\ FsTyped(f)
  BY AboveProcExists DEF Fine
<1>2. PICK fs : \E ro \in BOOLEAN : Puts(f, g, fs, p, ro) /\ fs.typ \in {"mask", "null"} /\ fs.at = p
  BY <1>1, MaskLays
<1>3. PICK ro \in BOOLEAN : Puts(f, g, fs, p, ro) /\ fs.typ \in {"mask", "null"}
  BY <1>2
<1> HIDE DEF g
<1>4. MountOf(g, ProcPath("self")) = Mounted(fs, p, ro)
  BY <1>3, PutsSees, ProcPaths
<1>5. MountOf(g, ProcPath("self")).fs = fs
  BY <1>4 DEF Mounted
<1>6. QED  BY <1>3, <1>5 DEF SeesProc, IsProc, g

LEMMA MaskBindable ==
    ASSUME NEW f, FsTyped(f), NEW p, mask_one(f, p).ok, Bindable(f) PROVE Bindable(mask_one(f, p))
<1> DEFINE g == mask_one(f, p)
<1>1. CASE Exists(f, p)
  <2>1. PICK fs : \E ro \in BOOLEAN : Puts(f, g, fs, p, ro)
    BY <1>1, MaskLays
  <2>2. PICK ro \in BOOLEAN : Puts(f, g, fs, p, ro)
    BY <2>1
  <2> HIDE DEF g
  <2>3. Bindable(g)
    BY <2>2, PutsBindable
  <2>4. QED  BY <2>3 DEF g
<1>2. CASE ~Exists(f, p)
  BY <1>2, MaskLays
<1>3. QED  BY <1>1, <1>2

\* A path more is masked.
LEMMA MasksOneMore ==
    ASSUME b \in Bundles, NEW f, Fine(f), Furnished(f), Placed(f), NEW n \in Nat, n < Len(b.masked),
           MaskedProc(f, n), NEW p \in Paths, p = b.masked[n + 1], NEW g, g = mask_one(f, p), g.ok
    PROVE  MaskedProc(g, n + 1)
<1> DEFINE typs == {"mask", "null"}
<1>1. Laid(f, g, typs, p)
  BY MaskLaid
<1>2. typs \subseteq Covering
  BY DEF Covering
<1> HIDE DEF typs
<1>3. SeesProc(g, "self") => SeesProc(f, "self")
  <2>1. SeesProc(g, "self") => MountOf(g, ProcPath("self")) = MountOf(f, ProcPath("self"))
    BY <1>1, <1>2, LaidViews, ProcPaths
  <2>2. QED  BY <2>1 DEF SeesProc
<1>4. IsPrefix(p, ProcPath("self")) /\ SeesProc(f, "self") => ~SeesProc(g, "self")
  BY MaskHidesProc
<1>5. \A k \in DOMAIN b.masked : k <= n + 1 => k <= n \/ k = n + 1
  <2>1. b.masked \in Seq(Paths)
    BY BundlesAssumption
  <2>2. QED  BY <2>1
<1>6. QED  BY <1>3, <1>4, <1>5 DEF MaskedProc

LEMMA PlacedBound == ASSUME NEW f, Fine(f), Placed(f) PROVE Bound(f)
<1> SUFFICES ASSUME NEW p \in Paths
             PROVE  LET m == MountOf(f, p) IN m.fs.at \in Paths /\ IsPrefix(m.fs.at, m.at) /\ (m.at # m.fs.at => m.ro)
  BY DEF Bound
<1>1. MountOf(f, p).at \in Paths /\ MountOf(f, p).fs.at = MountOf(f, p).at
  BY MountIsAbove DEF Placed
<1>2. QED  BY <1>1, PrefixOrder

\* What is known while the tree is hardened.
LEMMA AtMasks ==
    ASSUME FInv, pc \in {"mask", "readonly", "remounts", "rootfs"}
    PROVE  /\ b \in Bundles /\ done \in Nat /\ OwnMounts(b) /\ fsys.ok /\ Fine(fsys) /\ FsTyped(fsys)
           /\ Furnished(fsys) /\ Views(fsys) /\ (~ProcMasked => KeepsProc(fsys, "self"))
           /\ ~TreeRefused => Bindable(fsys) /\ CwdIn(fsys)
           /\ b.masked \in Seq(Paths) /\ b.readonlyPaths \in Seq(Paths)
<1>1. b \in Bundles /\ done \in Nat
  BY DEF FInv, RInv, GInv, HInv, HostKept
<1>2. OwnMounts(b) /\ fsys.ok /\ pc \in Inside \ {"root"}
  BY DEF FInv, RInv, GInv, HInv, TreeKept, Building, Hardening, Works, Inside
<1>3. pc \in Late \ Naming /\ pc # "mounts"
  BY DEF Late, Inside, Naming, Tree
<1>4. Furnished(fsys) /\ Views(fsys) /\ (~ProcMasked => KeepsProc(fsys, "self"))
  BY <1>2, <1>3 DEF FInv, Viewed
<1>5. ~TreeRefused => Bindable(fsys) /\ CwdIn(fsys)
  BY <1>2 DEF FInv, Smooth, Closing
<1>6. Fine(fsys) /\ FsTyped(fsys)
  BY <1>2 DEF FInv, RInv, GInv, Hardened, Fine
<1>7. QED  BY <1>1, <1>2, <1>4, <1>5, <1>6, BundlesAssumption

LEMMA MasksFStep == ASSUME FInv, MaskPaths PROVE FStep
<1> DEFINE p == b.masked[done + 1]
           after == mask_one(fsys, p)
           typs == {"mask", "null"}
           null == Dev("null")
<1>1. Each("mask", b.masked, after, "readonly") /\ pc = "mask"
  BY DEF MaskPaths, Each
<1>2. /\ b \in Bundles /\ done \in Nat /\ OwnMounts(b) /\ fsys.ok /\ Fine(fsys) /\ FsTyped(fsys)
      /\ Furnished(fsys) /\ Views(fsys) /\ (~ProcMasked => KeepsProc(fsys, "self"))
      /\ ~TreeRefused => Bindable(fsys) /\ CwdIn(fsys)
      /\ b.masked \in Seq(Paths) /\ b.readonlyPaths \in Seq(Paths)
  BY <1>1, AtMasks
<1>3. Placed(fsys) /\ MaskedProc(fsys, done) /\ (~TreeRefused => Clearing(fsys) /\ (HasNull(fsys) \/ NullMasked(done)))
  <2>1. pc \in Inside \ {"root"}
    BY <1>1 DEF Inside
  <2>2. QED  BY <1>1, <1>2, <2>1 DEF FInv, Viewed, Smooth
<1>4. done < Len(b.masked) => done + 1 \in DOMAIN b.masked /\ p \in Paths /\ p \in ToSet(b.masked)
  BY <1>2 DEF ToSet
<1>5. null \in Paths /\ \A q \in Paths : IsPrefix(q, null) => q = null \/ IsPrefix(q, DevDir)
  <2>1. "null" \in Names
    BY DEF Names
  <2>2. QED  BY <2>1, DevPrefixes
<1>6. typs \subseteq Covering
  BY DEF Covering
<1> HIDE DEF typs, null
<1>7. ASSUME done < Len(b.masked), after.ok
      PROVE  Viewed(after, done + 1, "mask") /\ Smooth(after, done + 1, "mask")
  <2>1. Laid(fsys, after, typs, p)
    BY <1>2, <1>4, <1>7, MaskLaid DEF typs
  <2>2. Bindable(fsys) => Bindable(after)
    BY <1>2, <1>7, MaskBindable
  <2>3. MaskedProc(after, done + 1)
    BY <1>2, <1>3, <1>4, <1>7, MasksOneMore
  <2> HIDE DEF after
  <2>4. Furnished(after) /\ Views(after)
    <3>1. p \in Paths
      BY <1>4, <1>7
    <3> HIDE DEF p
    <3>2. (Furnished(fsys) => Furnished(after)) /\ (Views(fsys) => Views(after))
      BY <1>2, <1>6, <2>1, <3>1, LaidViews
    <3>3. QED  BY <1>2, <3>2
  <2>5. ASSUME ~ProcMasked PROVE KeepsProc(after, "self")
    <3>1. ~IsPrefix(p, ProcPath("self"))
      BY <1>2, <1>4, <1>7, <2>5 DEF ProcMasked, Masked, ProcPath
    <3>2. MountOf(after, ProcPath("self")) = MountOf(fsys, ProcPath("self"))
      BY <2>1, <3>1, ProcPaths DEF Laid
    <3>3. QED  BY <1>2, <2>5, <3>2 DEF KeepsProc, SeesProc
  <2>6. Placed(after)
    BY <1>3, <2>1, LaidPlaced
  <2>7. ASSUME ~TreeRefused PROVE Bindable(after) /\ CwdIn(after) /\ Clearing(after) /\ (HasNull(after) \/ NullMasked(done + 1))
    <3>1. CwdIn(after)
      <4> SUFFICES ASSUME b.cwd # <<>> PROVE Exists(after, b.cwd)
        BY DEF CwdIn
      <4>1. Exists(fsys, b.cwd) /\ b.cwd \in Paths
        BY <1>2, <2>7, PlaceIs DEF CwdIn
      <4>2. ~Below(p, b.cwd)
        BY <1>2, <1>4, <1>7, <2>7 DEF TreeRefused, CwdRefused
      <4>3. QED  BY <1>2, <1>4, <1>7, <2>1, <4>1, <4>2, LaidExists DEF Below
    <3>2. Clearing(after)
      BY <1>3, <1>4, <1>6, <1>7, <2>1, <2>7, LaidClears
    <3>3. HasNull(fsys) => HasNull(after) \/ NullMasked(done + 1)
      <4> SUFFICES ASSUME HasNull(fsys), ~HasNull(after) PROVE NullMasked(done + 1)
        OBVIOUS
      <4>1. Exists(fsys, null) /\ ~Exists(after, null)
        BY DEF HasNull, null
      <4>2. IsPrefix(p, null) /\ p # null
        BY <1>2, <1>4, <1>5, <1>7, <2>1, <4>1, LaidExists
      <4>3. IsPrefix(p, DevDir)
        BY <1>4, <1>5, <1>7, <4>2
      <4>4. QED  BY <1>2, <1>4, <1>7, <4>3 DEF NullMasked
    <3>4. NullMasked(done) => NullMasked(done + 1)
      <4>1. \A k \in DOMAIN b.masked : k <= done => k <= done + 1
        BY <1>2
      <4>2. QED  BY <4>1 DEF NullMasked
    <3>5. QED  BY <1>2, <1>3, <2>2, <2>7, <3>1, <3>2, <3>3, <3>4
  <2>8. QED  BY <2>3, <2>4, <2>5, <2>6, <2>7, ViewedMask, SmoothMask
<1>8. ASSUME done < Len(b.masked), ~TreeRefused PROVE after.ok
  <2>1. IsFile(p) => Exists(fsys, Dev("null"))
    <3> SUFFICES ASSUME IsFile(p), ~HasNull(fsys) PROVE FALSE
      BY DEF HasNull
    <3>1. PICK k \in DOMAIN b.masked : k <= done /\ IsPrefix(b.masked[k], DevDir)
      BY <1>3, <1>8 DEF NullMasked
    <3>2. k < done + 1
      BY <1>2, <3>1
    <3>3. HardeningRefused
      BY <1>4, <1>8, <3>1, <3>2 DEF HardeningRefused, DevDir
    <3>4. QED  BY <1>2, <1>8, <3>3 DEF TreeRefused
  <2>2. Bindable(fsys)
    BY <1>2, <1>8
  <2> HIDE DEF p
  <2>3. QED  BY <1>2, <2>1, <2>2, MaskWorks
<1>9. ASSUME ~(done < Len(b.masked)) PROVE Viewed(fsys, 0, "readonly") /\ Smooth(fsys, 0, "readonly")
  <2>1. Bound(fsys)
    BY <1>2, <1>3, PlacedBound
  <2>2. MaskedProc(fsys, Len(b.masked))
    <3>1. \A k \in DOMAIN b.masked : k <= done
      BY <1>2, <1>9
    <3>2. QED  BY <1>3, <3>1 DEF MaskedProc
  <2>3. ~TreeRefused => WritesProc(fsys)
    <3> SUFFICES ASSUME ~TreeRefused, ~ProcMasked, HasProc("self", TRUE) PROVE ~MountOf(fsys, ProcPath("self")).ro
      BY DEF WritesProc
    <3>1. HasProc("self", FALSE)
      BY <1>2, HasProcIs
    <3>2. SeesProc(fsys, "self")
      BY <1>2, <3>1 DEF KeepsProc
    <3>3. QED  BY <1>2, <1>3, <3>2, ClearWrites
  <2>4. "readonly" \in AfterMasks /\ "readonly" \in Closing
    BY DEF AfterMasks, Late, Inside, Tree, Closing
  <2>5. QED  BY <1>2, <2>1, <2>2, <2>3, <2>4, ViewedLate, SmoothClosing
<1> HIDE DEF after
<1>10. QED  BY <1>1, <1>2, <1>7, <1>8, <1>9, LoopStep

-----------------------------------------------------------------------------
\* What lasts while the tree is made read-only.
Tight(f) ==
    /\ Furnished(f) /\ Views(f) /\ (~ProcMasked => KeepsProc(f, "self"))
    /\ Bound(f) /\ MaskedProc(f, Len(b.masked))
Closed(f) == Tight(f) /\ (~TreeRefused => Bindable(f) /\ CwdIn(f) /\ WritesProc(f))

LEMMA ClosedIs ==
    ASSUME b \in Bundles, OwnMounts(b), NEW f, Closed(f), NEW n, NEW at \in Closing
    PROVE  Viewed(f, n, at) /\ Smooth(f, n, at)
<1>1. at \in AfterMasks
  BY DEF AfterMasks, Late, Inside, Tree, Closing
<1>2. QED  BY <1>1, ViewedLate, SmoothClosing DEF Closed, Tight

LEMMA AtClosing ==
    ASSUME FInv, pc \in {"readonly", "remounts", "rootfs"}
    PROVE  /\ b \in Bundles /\ done \in Nat /\ OwnMounts(b) /\ fsys.ok /\ Fine(fsys) /\ Closed(fsys)
           /\ b.readonlyPaths \in Seq(Paths)
<1>1. /\ b \in Bundles /\ done \in Nat /\ OwnMounts(b) /\ fsys.ok /\ Fine(fsys)
      /\ Furnished(fsys) /\ Views(fsys) /\ (~ProcMasked => KeepsProc(fsys, "self"))
      /\ ~TreeRefused => Bindable(fsys) /\ CwdIn(fsys)
      /\ b.readonlyPaths \in Seq(Paths)
  BY AtMasks
<1>2. pc \in Inside \ {"root"} /\ pc \in AfterMasks /\ pc \in Closing
  BY DEF AfterMasks, Late, Inside, Tree, Closing
<1>3. Bound(fsys) /\ MaskedProc(fsys, Len(b.masked)) /\ (~TreeRefused => WritesProc(fsys))
  BY <1>1, <1>2 DEF FInv, Viewed, Smooth
<1>4. QED  BY <1>1, <1>3 DEF Closed, Tight

LEMMA SealsTight ==
    ASSUME NEW f, Fine(f), NEW g, NEW p \in Paths, Seals(f, g, p), Tight(f)
    PROVE  Tight(g)
<1>1. Kept(f, g)
  BY SealsKept
<1>2. Furnished(g) /\ Views(g) /\ (SeesProc(g, "self") <=> SeesProc(f, "self"))
  BY <1>1, KeptViews, ProcPaths DEF Tight
<1>3. Bound(g)
  BY SealsBound DEF Tight
<1>4. QED  BY <1>2, <1>3 DEF Tight, KeepsProc, MaskedProc

\* The kernel's files in /proc can still be written, or it was the path itself that was made read-only.
LEMMA SealsWrites ==
    ASSUME b \in Bundles, OwnMounts(b), NEW f, Fine(f), NEW g, NEW p \in Paths, Seals(f, g, p), Tight(f), WritesProc(f),
           ~WritesProc(g)
    PROVE  ~ProcMasked /\ ~ProcReadonly /\ HasProc("self", TRUE) /\ p \in {ProcDir, ProcPath("self")}
<1> DEFINE q == ProcPath("self")
           m == MountOf(g, q)
<1>1. ~ProcMasked /\ ~ProcReadonly /\ HasProc("self", TRUE) /\ m.ro /\ ~MountOf(f, q).ro
  BY DEF WritesProc
<1>2. q \in Paths /\ ProcDir \in Paths /\ \A r \in Paths : IsPrefix(ProcDir, r) /\ IsPrefix(r, q) => r \in {ProcDir, q}
  BY ProcPaths
<1>3. Tight(g) /\ Fine(g)
  BY SealsTight DEF Seals
<1>4. SeesProc(g, "self")
  <2>1. HasProc("self", FALSE)
    BY <1>1, HasProcIs
  <2>2. QED  BY <1>1, <1>3, <2>1 DEF Tight, KeepsProc
<1>5. m.fs.at = ProcDir
  BY <1>4 DEF SeesProc, IsProc
<1>6. m.at = p
  <2>1. MountOf(g, q).ro = MountOf(f, q).ro \/ MountOf(g, q).at = p
    BY <1>2 DEF Seals
  <2>2. QED  BY <1>1, <2>1
<1>7. IsPrefix(m.fs.at, m.at)
  BY <1>2, <1>3 DEF Tight, Bound
<1>8. IsPrefix(m.at, q)
  BY <1>2, <1>3, MountIsAbove
<1> HIDE DEF m
<1>9. p \in {ProcDir, q}
  BY <1>2, <1>5, <1>6, <1>7, <1>8
<1>10. QED  BY <1>1, <1>9 DEF q

LEMMA SealsClosed ==
    ASSUME b \in Bundles, OwnMounts(b), NEW f, Fine(f), NEW g, NEW p \in Paths, Seals(f, g, p), Closed(f),
           ~TreeRefused /\ ~ProcMasked /\ ~ProcReadonly /\ HasProc("self", TRUE) => p \notin {ProcDir, ProcPath("self")}
    PROVE  Closed(g)
<1>1. Tight(g)
  BY SealsTight DEF Closed
<1>2. ASSUME ~TreeRefused PROVE Bindable(g) /\ CwdIn(g) /\ WritesProc(g)
  <2>1. Bindable(f) /\ CwdIn(f) /\ WritesProc(f) /\ Tight(f)
    BY <1>2 DEF Closed
  <2>2. Bindable(g)
    BY <2>1 DEF Seals
  <2>3. CwdIn(g)
    BY <2>1, SealsExists, PlaceIs DEF CwdIn
  <2>4. WritesProc(g)
    BY <1>2, <2>1, SealsWrites
  <2>5. QED  BY <2>2, <2>3, <2>4
<1>3. QED  BY <1>1, <1>2 DEF Closed

LEMMA ReadonlyFStep == ASSUME FInv, ReadonlyPaths PROVE FStep
<1> DEFINE p == b.readonlyPaths[done + 1]
           after == readonly_one(fsys, p)
<1>1. Each("readonly", b.readonlyPaths, after, "remounts") /\ pc = "readonly"
  BY DEF ReadonlyPaths, Each
<1>2. /\ b \in Bundles /\ done \in Nat /\ OwnMounts(b) /\ fsys.ok /\ Fine(fsys) /\ Closed(fsys)
      /\ b.readonlyPaths \in Seq(Paths)
  BY <1>1, AtClosing
<1>3. "readonly" \in Closing /\ "remounts" \in Closing
  BY DEF Closing
<1>4. done < Len(b.readonlyPaths) => p \in Paths /\ p \in ToSet(b.readonlyPaths)
  BY <1>2 DEF ToSet
<1>5. ASSUME done < Len(b.readonlyPaths), after.ok
      PROVE  Viewed(after, done + 1, "readonly") /\ Smooth(after, done + 1, "readonly")
  <2>1. p \in Paths /\ p \in ToSet(b.readonlyPaths)
    BY <1>4, <1>5
  <2>2. Seals(fsys, after, p)
    BY <1>2, <1>5, <2>1, ReadonlySeals
  <2>3. ~ProcReadonly => p \notin {ProcDir, ProcPath("self")}
    BY <1>2, <2>1 DEF ProcReadonly, ProcDir, ProcPath
  <2> HIDE DEF after, p
  <2>4. Closed(after)
    BY <1>2, <2>1, <2>2, <2>3, SealsClosed
  <2>5. QED  BY <1>2, <1>3, <2>4, ClosedIs
<1>6. ASSUME done < Len(b.readonlyPaths), ~TreeRefused PROVE after.ok
  <2>1. p \in Paths /\ Bindable(fsys)
    BY <1>2, <1>4, <1>6 DEF Closed
  <2> HIDE DEF p
  <2>2. QED  BY <1>2, <2>1, ReadonlyWorks
<1>7. Viewed(fsys, 0, "remounts") /\ Smooth(fsys, 0, "remounts")
  BY <1>2, <1>3, ClosedIs
<1> HIDE DEF after
<1>8. QED  BY <1>1, <1>2, <1>5, <1>6, <1>7, LoopStep

\* A read-only tmpfs that is still there, and is not what the container's proc file system is on.
LEMMA RemountFits ==
    ASSUME FInv, pc = "remounts", ~TreeRefused, NEW j \in DOMAIN b.mounts,
           "ro" \in parse_options(b.mounts[j].options).flags, b.mounts[j].typ = "tmpfs"
    PROVE  /\ MountPoint(fsys, Destination(j))
           /\ HasProc("self", TRUE) => Destination(j) \notin {ProcDir, ProcPath("self")}
<1>1. b \in Bundles /\ OwnMounts(b) /\ Fine(fsys) /\ Closed(fsys)
  BY AtClosing
<1>2. j \in NewMounts
  BY <1>1 DEF TreeRefused
<1>3. ~CoveredByMount(j) /\ ~Masked(Destination(j)) /\ ~UnderConsole(j)
  BY <1>1, <1>2 DEF TreeRefused, HardeningRefused
<1>4. Destination(j) \in Paths /\ Len(b.mounts) \in Nat /\ DOMAIN b.mounts = 1..Len(b.mounts)
  BY <1>1, MountsAre
<1>5. MountPoint(fsys, Destination(j))
  <2> DEFINE p == Destination(j)
             m == MountOf(fsys, p)
  <2>1. SeenIn(fsys)
    BY <1>1 DEF FInv, RInv, Built, Present, Complete, Late, Inside, Tree
  <2>2. m.fs.at = p
    BY <1>2, <1>3, <2>1 DEF SeenIn, At
  <2>3. IsPrefix(m.fs.at, m.at)
    BY <1>1, <1>4 DEF Closed, Tight, Bound
  <2>4. m.at \in Paths /\ IsPrefix(m.at, p)
    BY <1>1, <1>4, MountIsAbove
  <2>5. fsys.tab # <<>>
    BY <1>1 DEF Fine, HasRoot
  <2>6. m.at = p
    BY <1>4, <2>2, <2>3, <2>4, PrefixOrder
  <2>7. QED  BY <2>5, <2>6 DEF MountPoint
<1>6. ASSUME HasProc("self", TRUE), Destination(j) \in {ProcDir, ProcPath("self")} PROVE FALSE
  <2>1. PICK i \in NewMounts : /\ Destination(i) = ProcDir /\ MountedType(i) = "proc"
                               /\ ~OverBy(i, ProcPath("self"), Len(b.mounts))
    BY <1>1, <1>6, HasProcIs
  <2>2. i # j
    BY <2>1, MountedProc
  <2>3. i \in Nat /\ j \in Nat /\ j <= Len(b.mounts)
    BY <1>4 DEF NewMounts
  <2>4. ProcDir \in Paths /\ ProcPath("self") \in Paths /\ IsPrefix(ProcDir, ProcPath("self"))
    BY ProcPaths
  <2>5. IsPrefix(Destination(j), ProcPath("self")) /\ IsPrefix(ProcDir, Destination(j))
    BY <1>6, <2>4, PrefixOrder
  <2>6. CASE i < j
    BY <1>2, <2>1, <2>3, <2>5, <2>6 DEF OverBy
  <2>7. CASE i > j
    BY <1>3, <2>1, <2>5, <2>7 DEF CoveredByMount, CoveredAfter
  <2>8. QED  BY <2>2, <2>3, <2>6, <2>7
<1>7. QED  BY <1>5, <1>6

LEMMA RemountsFStep == ASSUME FInv, RemountReadonly PROVE FStep
<1> DEFINE m == b.mounts[done + 1]
           p == Destination(done + 1)
           after == remount_readonly(fsys, m)
           sealed == "ro" \in parse_options(m.options).flags /\ m.typ = "tmpfs"
<1>1. Each("remounts", b.mounts, after, "rootfs") /\ pc = "remounts"
  BY DEF RemountReadonly, Each
<1>2. b \in Bundles /\ done \in Nat /\ OwnMounts(b) /\ fsys.ok /\ Fine(fsys) /\ Closed(fsys)
  BY <1>1, AtClosing
<1>3. "remounts" \in Closing /\ "rootfs" \in Closing
  BY DEF Closing
<1>4. done < Len(b.mounts) => done + 1 \in DOMAIN b.mounts /\ p \in Paths /\ p = resolve(m.destination)
  BY <1>2, MountsAre DEF Destination
<1>5. done < Len(b.mounts) /\ sealed /\ ~TreeRefused =>
          MountPoint(fsys, p) /\ (HasProc("self", TRUE) => p \notin {ProcDir, ProcPath("self")})
  BY <1>1, <1>4, RemountFits
<1>6. ~sealed => after = fsys
  BY DEF remount_readonly
<1>7. ASSUME done < Len(b.mounts), after.ok
      PROVE  Viewed(after, done + 1, "remounts") /\ Smooth(after, done + 1, "remounts")
  <2>1. CASE sealed
    <3>1. Seals(fsys, after, p)
      <4>1. p \in Paths /\ p = resolve(m.destination)
        BY <1>4, <1>7
      <4> HIDE DEF p, m
      <4>2. QED  BY <1>2, <1>7, <4>1, RemountSeals
    <3>2. p \in Paths /\ (~TreeRefused /\ HasProc("self", TRUE) => p \notin {ProcDir, ProcPath("self")})
      BY <1>4, <1>5, <1>7, <2>1
    <3> HIDE DEF after, p, sealed
    <3>3. Closed(after)
      BY <1>2, <3>1, <3>2, SealsClosed
    <3>4. QED  BY <1>2, <1>3, <3>3, ClosedIs
  <2>2. CASE ~sealed
    BY <1>2, <1>3, <1>6, <2>2, ClosedIs
  <2>3. QED  BY <2>1, <2>2
<1>8. ASSUME done < Len(b.mounts), ~TreeRefused PROVE after.ok
  <2>1. sealed => MountPoint(fsys, resolve(m.destination))
    BY <1>4, <1>5, <1>8
  <2>2. QED  BY <1>2, <2>1, RemountWorks
<1>9. Viewed(fsys, 0, "rootfs") /\ Smooth(fsys, 0, "rootfs")
  BY <1>2, <1>3, ClosedIs
<1> HIDE DEF after
<1>10. QED  BY <1>1, <1>2, <1>7, <1>8, <1>9, LoopStep

LEMMA RootfsFStep == ASSUME FInv, ReadonlyRootfs PROVE FStep
<1> DEFINE root == <<>>
           after == readonly_rootfs(fsys)
<1>1. pc = "rootfs" /\ pc' = "limits" /\ done' = done /\ fsys' = IF b.readonlyRoot THEN after ELSE fsys
  BY DEF ReadonlyRootfs
<1>2. b \in Bundles /\ OwnMounts(b) /\ fsys.ok /\ Fine(fsys) /\ Closed(fsys)
  BY <1>1, AtClosing
<1>3. Seals(fsys, after, root) /\ after.ok = fsys.ok
  BY <1>2, RootfsSeals
<1>4. root \in Paths /\ root \notin {ProcDir, ProcPath("self")}
  BY EmptySeq DEF Paths, ProcDir, ProcPath
<1> HIDE DEF after, root
<1>5. Closed(after)
  BY <1>2, <1>3, <1>4, SealsClosed
<1>6. Closed(fsys') /\ fsys'.ok
  BY <1>1, <1>2, <1>3, <1>5
<1>7. Viewed(fsys', done', "limits") /\ Smooth(fsys', done', "limits")
  BY <1>2, <1>6, ClosedIs DEF Closing
<1>8. QED  BY <1>1, <1>6, <1>7 DEF FStep, TreeFails

-----------------------------------------------------------------------------
\* The bundle stays, and with it what is said of the tree.
LEMMA SaysTheSame ==
    ASSUME b' = b
    PROVE  /\ NewMounts' = NewMounts /\ TreeRefused' = TreeRefused /\ ProcMasked' = ProcMasked
           /\ ProcReadonly' = ProcReadonly /\ Nodes' = Nodes
           /\ HasProc("self", TRUE)' = HasProc("self", TRUE)
           /\ HasProc("self", FALSE)' = HasProc("self", FALSE)
           /\ HasProc("sys", FALSE)' = HasProc("sys", FALSE)
<1>1. NewMounts' = NewMounts
  BY DEF NewMounts
<1>2. ProcMasked' = ProcMasked /\ ProcReadonly' = ProcReadonly /\ Nodes' = Nodes
  BY DEF ProcMasked, Masked, ProcReadonly, Nodes
<1>3. QED  BY <1>1, <1>2, SaidStays, RefusedStays

LEMMA ViewedNext == ASSUME b' = b, Viewed(fsys', done', pc') PROVE Viewed(fsys, done, pc)'
<1>1. NewMounts' = NewMounts
  BY SaysTheSame
<1>2. ShownTo(fsys, done)' <=> ShownTo(fsys', done')
  BY <1>1 DEF ShownTo, Shown, Uncovered, OverBy, Comes, Firm, MountedType, ReadonlyMount, LoosenedBy, Bare, Loosens,
     Destination, IsBind
<1>3. Views(fsys)' <=> Views(fsys')
  BY <1>1 DEF Views, Shown, Uncovered, OverBy, Comes, Firm, MountedType, ReadonlyMount, LoosenedBy, Bare, Loosens,
     Destination, IsBind
<1>4. (KeepsProc(fsys, "self")' <=> KeepsProc(fsys', "self")) /\ (KeepsProc(fsys, "sys")' <=> KeepsProc(fsys', "sys"))
  BY SaysTheSame DEF KeepsProc, SeesProc
<1>5. (Furnished(fsys)' <=> Furnished(fsys')) /\ (Orderly(fsys)' <=> Orderly(fsys')) /\ (Placed(fsys)' <=> Placed(fsys'))
      /\ (Bound(fsys)' <=> Bound(fsys'))
  OBVIOUS
<1>6. Fitted(fsys)' <=> Fitted(fsys')
  BY <1>3, <1>4, <1>5 DEF Fitted
<1>7. /\ MaskedProc(fsys, done)' <=> MaskedProc(fsys', done')
      /\ MaskedProc(fsys, Len(b.masked))' <=> MaskedProc(fsys', Len(b.masked))
  BY DEF MaskedProc, SeesProc
<1>8. (OwnMounts(b)' <=> OwnMounts(b)) /\ (ProcMasked' <=> ProcMasked)
  BY SaysTheSame
<1>9. QED  BY <1>2, <1>3, <1>4, <1>5, <1>6, <1>7, <1>8 DEF Viewed

LEMMA SmoothNext == ASSUME b' = b, Smooth(fsys', done', pc') PROVE Smooth(fsys, done, pc)'
<1>1. NewMounts' = NewMounts
  BY SaysTheSame
<1>2. ClearTo(fsys, done)' <=> ClearTo(fsys', done')
  BY <1>1 DEF ClearTo, Clear, Uncovered, OverBy, Comes, MountedType, ReadonlyMount, Bare, Destination, IsBind
<1>3. Clearing(fsys)' <=> Clearing(fsys')
  BY <1>1 DEF Clearing, Clear, Uncovered, OverBy, Comes, MountedType, ReadonlyMount, Bare, Destination, IsBind
<1>4. (Bindable(fsys)' <=> Bindable(fsys')) /\ (HasNull(fsys)' <=> HasNull(fsys'))
  OBVIOUS
<1>5. CwdIn(fsys)' <=> CwdIn(fsys')
  BY DEF CwdIn
<1>6. NodesIn(fsys)' <=> NodesIn(fsys')
  BY SaysTheSame DEF NodesIn
<1>7. PtmxTo(fsys, Len(b.mounts))' <=> PtmxTo(fsys', Len(b.mounts))
  BY <1>1 DEF PtmxTo, OverBy, Destination
<1>8. Reach(fsys)' <=> Reach(fsys')
  BY <1>1 DEF Reach, CoveredByMount, CoveredAfter, Comes, MountedType, Destination, IsBind
<1>9. Roomy(fsys)' <=> Roomy(fsys')
  BY <1>3, <1>4, <1>5, <1>6, <1>7, <1>8 DEF Roomy
<1>10. NullMasked(done)' <=> NullMasked(done')
  BY DEF NullMasked
<1>11. WritesProc(fsys)' <=> WritesProc(fsys')
  <2>1. /\ ProcMasked' = ProcMasked /\ ProcReadonly' = ProcReadonly
        /\ HasProc("self", TRUE)' = HasProc("self", TRUE)
    BY SaysTheSame
  <2>2. QED  BY <2>1, Zenon DEF WritesProc
<1>12. (OwnMounts(b)' <=> OwnMounts(b)) /\ (TreeRefused' <=> TreeRefused)
  BY SaysTheSame
<1>13. QED  BY <1>2, <1>3, <1>4, <1>5, <1>9, <1>10, <1>11, <1>12 DEF Smooth

-----------------------------------------------------------------------------
LEMMA BeforeTreeFStep ==
    ASSUME FInv, \/ LoadBundle \/ Plan \/ CreateCgroup \/ ApplyResources \/ Spawn
                 \/ JoinExisting \/ Unshare \/ MapIds \/ Attach \/ UnshareCgroup
    PROVE  FStep
<1>1. pc \in Outside \ {"root"}
  BY DEF LoadBundle, Plan, CreateCgroup, ApplyResources, Spawn, JoinExisting, Unshare, MapIds, Attach, UnshareCgroup, Outside
<1>2. \/ pc' \in Outside \cup {"failed"}
      \/ pc' = "identity" /\ ~OwnMounts(b)
  BY DEF LoadBundle, Plan, CreateCgroup, ApplyResources, Spawn, JoinExisting, Unshare, MapIds, Attach, UnshareCgroup,
         Outside, Go
<1>3. fsys'.ok = fsys.ok
  <2>1. CASE Unshare
    <3>1. FsTyped(fsys)
      BY DEF FInv, RInv, GInv, HInv, HostKept
    <3>2. fsys' = fsys \/ fsys' = [fsys EXCEPT !.prop = "slave"]
      BY <2>1 DEF Unshare
    <3>3. QED  BY <3>1, <3>2 DEF FsTyped, FsShape
  <2>2. CASE ~Unshare
    <3>1. fsys' = fsys
      BY <2>2 DEF LoadBundle, Plan, CreateCgroup, ApplyResources, Spawn, JoinExisting, MapIds, Attach, UnshareCgroup
    <3>2. QED  BY <3>1
  <2>3. QED  BY <2>1, <2>2
<1>4. QED  BY <1>1, <1>2, <1>3, OutsideFStep

LEMMA AfterTreeFStep ==
    ASSUME FInv, \/ ApplyLimits \/ FilterEarly \/ DropBounding \/ DropPrivileges \/ ApplyCapabilities \/ NoNewPrivs
                 \/ FilterLate \/ Ready \/ Park \/ Exec \/ Starved
    PROVE  FStep
<1>1. pc \in {"limits", "filter", "bounding", "user", "caps", "nnp", "late", "ready", "park", "parked"} /\ fsys' = fsys
  BY DEF ApplyLimits, FilterEarly, DropBounding, DropPrivileges, ApplyCapabilities, NoNewPrivs, FilterLate, Ready, Park,
         Exec, Starved, Privilege
<1>2. pc' \in {"filter", "bounding", "user", "caps", "nnp", "late", "ready", "park", "parked", "running", "lost", "failed"}
  BY DEF ApplyLimits, FilterEarly, DropBounding, DropPrivileges, ApplyCapabilities, NoNewPrivs, FilterLate, Ready, Park,
         Exec, Starved, Privilege, Go
<1>3. pc \in AfterRoot \ {"failed"} /\ pc' \in (AfterRoot \ {"limits"}) \cup {"failed"}
  <2>1. \A at \in {"limits", "filter", "bounding", "user", "caps", "nnp", "late", "ready", "park", "parked", "running", "lost"} :
           at \in Late /\ at \notin {"identity", "sysctl", "mask", "readonly", "remounts", "rootfs", "failed"}
    BY DEF Late, Tree, Inside
  <2>2. \A at \in Late : at \notin {"identity", "sysctl", "mask", "readonly", "remounts", "rootfs"} => at \in AfterRoot
    BY DEF AfterRoot, AfterPaths, AfterMasks
  <2>3. pc' # "limits"
    BY <1>2
  <2>4. QED  BY <1>1, <1>2, <2>1, <2>2, <2>3
<1>4. QED  BY <1>1, <1>3, LateFStep

\* A tmpfs that is to be seen is one of the bundle's mounts, and only a user namespace that the
\* bundle names is joined.
LEMMA OverflowFStep == ASSUME FInv, Overflow PROVE FStep
<1>1. /\ pc \in {"mounts", "nodes", "links", "devices", "console"} /\ pc' = "failed"
      /\ ns.how["user"] = "joined"
      /\ Layered(b) \/ \E m \in ToSet(fsys.tab) : MountOf(fsys, m.at).fs.typ = "tmpfs"
  BY DEF Overflow
<1>2. OwnMounts(b) /\ Fine(fsys)
  BY <1>1, AtWork DEF Fitting
<1>3. UserAsked \notin {"absent", ""}
  <2>1. Settled
    BY <1>1 DEF FInv, CInv, OInv, NInv, Inside
  <2>2. QED  BY <1>1, <2>1 DEF Settled, UserAsked, Kind
<1>4. ASSUME NEW m \in ToSet(fsys.tab), MountOf(fsys, m.at).fs.typ = "tmpfs"
      PROVE  \E i \in NewMounts : MountedType(i) = "tmpfs"
  <2>1. m.at \in Paths
    BY <1>2 DEF Fine, ToSet, FsTyped, IsTable
  <2>2. PICK n : Shown(MountOf(fsys, m.at), n, m.at)
    <3>1. ShownTo(fsys, done) \/ Views(fsys)
      BY <1>1, <1>2 DEF FInv, Viewed, Inside
    <3>2. QED  BY <1>4, <2>1, <3>1 DEF ShownTo, Views, Covering
  <2>3. QED  BY <1>4, <2>2 DEF Shown, OfRoot, Comes
<1>5. TreeRefused
  BY <1>1, <1>2, <1>3, <1>4 DEF TreeRefused, OverflowRefused
<1>6. QED  BY <1>1, <1>5, FailedStep

LEMMA NextFStep == ASSUME FInv, Next PROVE FStep
  BY BeforeTreeFStep, RootFStep, MountsFStep, NodesFStep, LinksFStep, DevicesFStep, PivotFStep, ConsoleFStep,
     IdentityFStep, SysctlFStep, MasksFStep, ReadonlyFStep, RemountsFStep, RootfsFStep, AfterTreeFStep,
     OverflowFStep DEF Next

-----------------------------------------------------------------------------
\* What the steps that use /proc and the working directory find is what the bundle says.
LEMMA WritesSysctl ==
    ASSUME FInv, pc = "sysctl"
    PROVE  /\ (OwnMounts(b) => ProcWritable("sys")) => HasProc("sys", TRUE)
           /\ HasProc("sys", TRUE) /\ ~(OwnMounts(b) => ProcWritable("sys")) => TreeRefused
<1> DEFINE p == ProcPath("sys")
<1>1. b \in Bundles
  BY DEF FInv, RInv, GInv, HInv, NInv
<1>2. pc \in Inside \ {"root"} /\ pc \in Naming
  BY DEF Inside, Naming
<1>3. ProcWritable("sys") <=> SeesProc(fsys, "sys") /\ ~MountOf(fsys, p).ro
  BY DEF ProcWritable, ProcSeen, SeesProc, IsProc, ProcPath, ProcDir
<1>4. ~OwnMounts(b) => HasProc("sys", TRUE)
  BY DEF HasProc
<1>5. ASSUME OwnMounts(b), ProcWritable("sys") PROVE HasProc("sys", TRUE)
  <2>1. Views(fsys)
    BY <1>2, <1>5 DEF FInv, Viewed, Fitted
  <2>2. QED  BY <1>1, <1>3, <1>5, <2>1, SeenIsAsked
<1>6. ASSUME OwnMounts(b), HasProc("sys", TRUE), ~TreeRefused PROVE ProcWritable("sys")
  <2>1. HasProc("sys", FALSE)
    BY <1>1, <1>6, HasProcIs
  <2>2. SeesProc(fsys, "sys")
    BY <1>2, <1>6, <2>1 DEF FInv, Viewed, Fitted, KeepsProc
  <2>3. Clearing(fsys)
    BY <1>2, <1>6 DEF FInv, Smooth
  <2>4. ~MountOf(fsys, p).ro
    BY <1>1, <1>6, <2>2, <2>3, ClearWrites
  <2>5. QED  BY <1>3, <2>2, <2>4
<1>7. QED  BY <1>4, <1>5, <1>6

LEMMA AtLast ==
    ASSUME FInv, pc \in {"limits", "park"}, OwnMounts(b)
    PROVE  b \in Bundles /\ Fine(fsys) /\ Tight(fsys) /\ PathsHold(fsys)
<1>1. b \in Bundles
  BY DEF FInv, RInv, GInv, HInv, NInv
<1>2. pc \in Inside \ {"root"} /\ pc \in AfterMasks /\ pc \in AfterPaths /\ pc \in Late \ Naming /\ pc # "mounts"
  BY DEF Inside, AfterMasks, AfterPaths, Late, Tree, Naming
<1>3. Furnished(fsys) /\ Views(fsys) /\ (~ProcMasked => KeepsProc(fsys, "self")) /\ Bound(fsys)
      /\ MaskedProc(fsys, Len(b.masked))
  BY <1>2 DEF FInv, Viewed
<1>4. Fine(fsys) /\ PathsHold(fsys)
  BY <1>2 DEF FInv, RInv, GInv, Hardened
<1>5. QED  BY <1>1, <1>3, <1>4 DEF Tight

\* Where the kernel's files of the process are seen, the bundle asks for them and hides them nowhere.
LEMMA SeenAtLast ==
    ASSUME FInv, pc \in {"limits", "park"}, OwnMounts(b), SeesProc(fsys, "self")
    PROVE  /\ HasProc("self", FALSE) /\ ~ProcMasked
           /\ ~MountOf(fsys, ProcPath("self")).ro => HasProc("self", TRUE) /\ ~ProcReadonly
<1> DEFINE p == ProcPath("self")
           m == MountOf(fsys, p)
<1>1. b \in Bundles /\ Fine(fsys) /\ Tight(fsys) /\ PathsHold(fsys)
  BY AtLast
<1>2. HasProc("self", FALSE) /\ (~m.ro => HasProc("self", TRUE))
  BY <1>1, SeenIsAsked DEF Tight
<1>3. ~ProcMasked
  <2> SUFFICES ASSUME NEW q \in ToSet(b.masked), IsPrefix(q, p) PROVE FALSE
    BY DEF ProcMasked, Masked, ProcPath
  <2>1. b.masked \in Seq(Paths)
    BY <1>1, BundlesAssumption
  <2>2. PICK k \in DOMAIN b.masked : q = b.masked[k]
    BY DEF ToSet
  <2>3. k <= Len(b.masked)
    BY <2>1
  <2>4. QED  BY <1>1, <2>2, <2>3 DEF Tight, MaskedProc
<1>4. ASSUME ~m.ro, ProcReadonly PROVE FALSE
  <2>1. p \in Paths /\ ProcDir \in Paths /\ IsPrefix(ProcDir, p)
    BY ProcPaths
  <2>2. Exists(fsys, p)
    BY <1>1, SeenExists DEF Tight
  <2>3. m.at = ProcDir
    <3>1. m.fs.at = ProcDir
      BY DEF SeesProc, IsProc
    <3>2. m.at # m.fs.at => m.ro
      BY <1>1, <2>1 DEF Tight, Bound
    <3>3. QED  BY <1>4, <3>1, <3>2
  <2>4. MountOf(fsys, ProcDir) = m /\ IsPrefix(m.at, ProcDir)
    BY <1>1, <2>1, <2>3, SameMount, PrefixOrder
  <2>5. Exists(fsys, ProcDir)
    BY <1>1, <2>3, <2>4, ExistsIs
  <2>6. PICK q \in ToSet(b.readonlyPaths) : q \in {ProcDir, p}
    BY <1>4 DEF ProcReadonly, ProcDir, ProcPath
  <2>7. PICK k \in DOMAIN b.readonlyPaths : q = b.readonlyPaths[k]
    BY DEF ToSet
  <2>8. Unwritable(fsys, q)
    BY <1>1, <2>7 DEF PathsHold
  <2>9. MountOf(fsys, q).ro
    BY <2>2, <2>5, <2>6, <2>8 DEF Unwritable
  <2>10. QED  BY <1>4, <2>4, <2>6, <2>9
<1>5. QED  BY <1>2, <1>3, <1>4

LEMMA FInvProcSound == ASSUME FInv PROVE ProcSound
<1>1. /\ pc = "sysctl" /\ (OwnMounts(b) => ProcWritable("sys")) => HasProc("sys", TRUE)
      /\ pc = "sysctl" /\ HasProc("sys", TRUE) /\ ~(OwnMounts(b) => ProcWritable("sys")) => Refused \/ TreeRefused
  BY WritesSysctl
<1>2. ~OwnMounts(b) => HasProc("self", TRUE) /\ HasProc("self", FALSE) /\ ~ProcMasked /\ ~ProcReadonly
                       /\ ProcIsThere /\ ProcIsWritable
  BY DEF HasProc, ProcMasked, ProcReadonly, ProcIsThere, ProcIsWritable
<1>3. OwnMounts(b) => /\ ProcIsThere <=> SeesProc(fsys, "self")
                      /\ ProcIsWritable <=> SeesProc(fsys, "self") /\ ~MountOf(fsys, ProcPath("self")).ro
  BY DEF ProcIsThere, ProcIsWritable, ProcWritable, ProcSeen, SeesProc, IsProc, ProcPath, ProcDir
<1>4. pc = "limits" /\ ProcIsWritable => HasProc("self", TRUE) /\ ~ProcMasked /\ ~ProcReadonly
  BY <1>2, <1>3, SeenAtLast
<1>5. pc = "limits" /\ HasProc("self", TRUE) /\ ~ProcMasked /\ ~ProcReadonly => ProcIsWritable \/ Refused \/ TreeRefused
  <2> SUFFICES ASSUME pc = "limits", HasProc("self", TRUE), ~ProcMasked, ~ProcReadonly, OwnMounts(b), ~TreeRefused
               PROVE  ProcIsWritable
    BY <1>2
  <2>1. b \in Bundles /\ KeepsProc(fsys, "self")
    BY AtLast DEF Tight
  <2>2. SeesProc(fsys, "self")
    BY <2>1, HasProcIs DEF KeepsProc
  <2>3. WritesProc(fsys)
    BY DEF FInv, Smooth, Closing
  <2>4. QED  BY <1>3, <2>2, <2>3 DEF WritesProc
<1>6. pc = "park" => (ProcIsThere <=> HasOwnProc)
  <2> SUFFICES ASSUME pc = "park", OwnMounts(b) PROVE SeesProc(fsys, "self") <=> HasOwnProc
    BY <1>2, <1>3 DEF HasOwnProc
  <2>1. ~ProcMasked => KeepsProc(fsys, "self")
    BY AtLast DEF Tight
  <2>2. QED  BY <2>1, SeenAtLast DEF HasOwnProc, KeepsProc
<1>7. QED  BY <1>1, <1>4, <1>5, <1>6 DEF ProcSound

LEMMA FInvCwdSound == ASSUME FInv PROVE CwdSound
  BY DEF FInv, Smooth, Closing, CwdIn, CwdSound, CwdIsThere

-----------------------------------------------------------------------------
LEMMA NextFInv == ASSUME FInv, Next, Met' PROVE FInv'
<1>1. CInv' /\ RInv'
  BY NextCInv, NextRInv DEF FInv
<1>2. b' = b
  BY BundleStays
<1>3. Viewed(fsys', done', pc') /\ Smooth(fsys', done', pc') /\ (pc' # "failed" => fsys'.ok)
  BY NextFStep DEF FStep
<1>4. Viewed(fsys, done, pc)' /\ Smooth(fsys, done, pc)'
  BY <1>2, <1>3, ViewedNext, SmoothNext
<1>5. QED  BY <1>1, <1>3, <1>4 DEF FInv, Works

LEMMA InitFInv == Init => FInv /\ Passed /\ FailsIfRefused
<1> SUFFICES ASSUME Init PROVE FInv /\ Passed /\ FailsIfRefused
  OBVIOUS
<1>1. RInv
  BY InitRInv
<1>2. CInv
  BY InitOwned, InitExact, InitPInv, <1>1 DEF CInv, OInv, RInv, GInv, HInv
<1>3. pc = "load" /\ keys = b.sysctl /\ fsys = HostTree
  BY DEF Init
<1>4. Met
  BY <1>3 DEF Met, Outer, UpToRoot, UpToIdentity, UpToLimits, Over
<1>5. Viewed(fsys, done, pc) /\ Smooth(fsys, done, pc)
  BY <1>3, NothingOver DEF Outside
<1>6. Works
  BY <1>3 DEF Works, HostTree
<1>7. Passed /\ FailsIfRefused
  BY <1>3 DEF Passed, FailsIfRefused
<1>8. QED  BY <1>1, <1>2, <1>4, <1>5, <1>6, <1>7 DEF FInv

LEMMA NextFails ==
    FInv /\ Passed /\ FailsIfRefused /\ [Next]_vars => FInv' /\ Passed' /\ FailsIfRefused'
<1> SUFFICES ASSUME FInv, Passed, FailsIfRefused, [Next]_vars PROVE FInv' /\ Passed' /\ FailsIfRefused'
  OBVIOUS
<1>1. CASE Next
  <2>1. ProcSound /\ CwdSound /\ TreeFails
    BY <1>1, FInvProcSound, FInvCwdSound, NextFStep DEF FStep
  <2>2. Met' /\ Passed' /\ FailsIfRefused'
    BY <1>1, <2>1, RefusedNext DEF FInv, RInv, GInv
  <2>3. QED  BY <1>1, <2>2, NextFInv
<1>2. CASE UNCHANGED vars
  <2>1. UNCHANGED <<b, pc, done, cg, fsys, keys, cred, ns>>
    BY <1>2 DEF vars
  <2>2. CInv' /\ RInv'
    BY NextCInv, NextRInv DEF FInv
  <2>3. Met'
    <3>1. b' = b /\ pc' = pc /\ cg' = cg /\ keys' = keys /\ Met
      BY <2>1 DEF FInv
    <3>2. (pc = "apply" =>
              cg.controllers = Controllers(HostControllers, HostEnabled, relative_path(b.cgroupsPath, Id)))'
      BY <3>1 DEF Met
    <3>3. (pc \notin UpToIdentity \cup Over =>
              NameOk /\ \A key \in b.sysctl \ keys : KeyOk(key) /\ HasProc("sys", TRUE))'
      BY <3>1, SaidStays DEF Met
    <3>4. QED  BY <3>1, <3>2, <3>3, SaidStays, ZenonT(60) DEF Met
  <2>4. Viewed(fsys', done', pc') /\ Smooth(fsys', done', pc') /\ (pc' # "failed" => fsys'.ok)
    BY <2>1 DEF FInv, Works
  <2>5. Viewed(fsys, done, pc)' /\ Smooth(fsys, done, pc)'
    BY <2>1, <2>4, ViewedNext, SmoothNext
  <2>6. Passed'
    BY <2>1, PassedStays DEF Passed
  <2>7. FailsIfRefused'
    BY <2>1, RefusedStays DEF FailsIfRefused
  <2>8. QED  BY <2>2, <2>3, <2>4, <2>5, <2>6, <2>7 DEF FInv, Works
<1>3. QED  BY <1>1, <1>2

\* No run of the specification fails but for a reason that can be read from the bundle, runs a bundle
\* that is refused, or loses an accepted one but for the reasons of Unstartable: whatever the order and
\* the nesting of mounts, devices, masks and read-only paths, the steps of stage_one and
\* container_init do not disturb one another.
THEOREM FailsOnlyIfRefused == Spec => []FailsIfRefused
<1>1. Init => FInv /\ Passed /\ FailsIfRefused
  BY InitFInv
<1>2. FInv /\ Passed /\ FailsIfRefused /\ [Next]_vars => FInv' /\ Passed' /\ FailsIfRefused'
  BY NextFails
<1>3. QED  BY <1>1, <1>2, PTL DEF Spec

===============================================================================
