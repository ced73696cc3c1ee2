---------------------------- MODULE IsolationProof ----------------------------
(***************************************************************************)
(* Where a container is and what it reaches outside of itself, for every   *)
(* bundle: its namespaces, the host that set-up leaves as it is, the       *)
(* limits it is under when the init joins its cgroup, what of its own tree *)
(* it can neither see nor write, and what it finds there.                  *)
(*                                                                         *)
(* Each call that changes one of these is a step of its own in Setup, so   *)
(* that the invariants below say what holds after every single one.        *)
(***************************************************************************)
EXTENDS SetupProof

-----------------------------------------------------------------------------
(***************************************************************************)
(* The namespaces.                                                         *)
(***************************************************************************)
Whose == {"host", "joined", "new"}

NsTyped ==
    /\ ns = [how |-> ns.how, owner |-> ns.owner, offsets |-> ns.offsets, cgroupRoot |-> ns.cgroupRoot]
    /\ ns.how \in [Kind -> Whose] /\ ns.owner \in [Kind -> Whose] /\ ns.offsets \in BOOLEAN

CgTyped == cg = [path |-> cg.path, controllers |-> cg.controllers, written |-> cg.written, member |-> cg.member]

\* Some of those to be joined are, and nothing is new.
Joining ==
    /\ \A k \in Kind : ns.how[k] = "host" \/ (ns.how[k] = "joined" /\ k \in layout_join(b))
    /\ ~ns.offsets

\* All of those are joined; what is new was asked for, and is owned by the user namespace that
\* the process is in for good.
Unsharing ==
    /\ \A k \in Kind : ns.how[k] = "joined" <=> k \in layout_join(b)
    /\ \A k \in Kind : ns.how[k] = "new" => k \in unshare_flags(b)
    /\ \A k \in Kind \ {"user"} :
          ns.how[k] = "new" =>
             /\ ns.owner[k] = ns.how["user"]
             /\ "user" \in unshare_flags(b) => ns.how["user"] = "new"
    /\ ns.offsets <=> (b.timeOffsets /\ ns.how["time"] = "new")

Unshared == Unsharing /\ \A k \in unshare_flags(b) : ns.how[k] = "new"

\* What NamespacesAsAsked says of a container that was created, at the steps before that.
Settled ==
    /\ \A k \in Kind : ns.how[k] = CASE PathOf(b, k) = "absent" -> "host"
                                     [] PathOf(b, k) = ""       -> "new"
                                     [] OTHER                   -> "joined"
    /\ \A k \in Kind \ {"user"} : ns.how[k] = "new" => ns.owner[k] = ns.how["user"]
    /\ ns.offsets <=> (b.timeOffsets /\ PathOf(b, "time") = "")
    /\ PathOf(b, "cgroup") = "" => ns.cgroupRoot = relative_path(b.cgroupsPath, Id)

\* The steps after the last namespace.
Inside == {"root", "mounts", "nodes", "links", "devices", "pivot", "console", "identity", "sysctl",
           "mask", "readonly", "remounts", "rootfs", "limits", "filter", "bounding", "user", "caps",
           "nnp", "late", "ready", "park", "parked", "running", "lost"}

NInv ==
    /\ b \in Bundles /\ pc \in Steps /\ NsTyped /\ CgTyped
    /\ pc \notin {"load", "failed"} => spec(b)
    /\ pc \in {"load", "plan", "cgroup", "apply", "spawn", "join"} => Joining
    /\ pc = "unshare" => Unsharing
    /\ pc \in {"map", "attach", "cgroupns"} => Unshared
    /\ pc \in Inside => Settled
    /\ pc \notin {"load", "plan", "cgroup", "failed"} => cg.path = relative_path(b.cgroupsPath, Id)
    /\ pc = "cgroupns" => cg.member

-----------------------------------------------------------------------------
(***************************************************************************)
(* The path of a kind.                                                     *)
(***************************************************************************)
\* A kind that is listed has the path of its entry, and no kind is listed twice (namespace_types).
LEMMA PathIs ==
    ASSUME NEW bundle \in Bundles, namespace_types(bundle), NEW i \in 1..Len(bundle.namespaces)
    PROVE  PathOf(bundle, bundle.namespaces[i].typ) = bundle.namespaces[i].path
<1> DEFINE s == bundle.namespaces
           k == s[i].typ
<1>1. s \in Seq(NamespaceEntries) /\ DOMAIN s = 1..Len(s)
  BY BundlesAssumption, LenProperties
<1>2. \A n \in ToSet(s) : n.typ = k => n = s[i]
  BY <1>1 DEF ToSet, namespace_types
<1>3. s[i] \in ToSet(s)
  BY <1>1 DEF ToSet
<1>4. k \in Types(bundle)
  BY <1>3 DEF Types
<1>5. (CHOOSE n \in ToSet(s) : n.typ = k) = s[i]
  BY <1>2, <1>3
<1>6. QED  BY <1>4, <1>5 DEF PathOf

\* A kind without a path is created, one that is not listed is left alone, all others are joined
\* (layout).
LEMMA KindsAre ==
    ASSUME NEW bundle \in Bundles, namespace_types(bundle), NEW k \in Kind
    PROVE  /\ k \in layout_create(bundle) <=> PathOf(bundle, k) = ""
           /\ k \in Types(bundle) <=> PathOf(bundle, k) # "absent"
           /\ k \in layout_join(bundle) <=> PathOf(bundle, k) \notin {"", "absent"}
           /\ k \in layout_create(bundle) => k \notin layout_join(bundle)
<1> DEFINE s == bundle.namespaces
<1>1. s \in Seq(NamespaceEntries) /\ DOMAIN s = 1..Len(s)
  BY BundlesAssumption, LenProperties
<1>2. layout_create(bundle) = {s[i].typ : i \in {j \in 1..Len(s) : s[j].path = ""}}
  BY <1>1 DEF layout_create, ToSet
<1>3. Types(bundle) = {s[i].typ : i \in 1..Len(s)}
  BY <1>1 DEF Types, ToSet
<1>4. CASE k \in Types(bundle)
  <2>1. PICK i \in 1..Len(s) : s[i].typ = k
    BY <1>3, <1>4
  <2>2. s[i].path \in NamespacePaths
    <3>1. s[i] \in NamespaceEntries
      BY <1>1, <2>1, ElementOfSeq
    <3>2. QED  BY <3>1 DEF NamespaceEntries
  <2>3. PathOf(bundle, k) = s[i].path /\ s[i].path # "absent"
    BY <2>1, <2>2, PathIs DEF NamespacePaths
  <2>4. k \in layout_create(bundle) => PathOf(bundle, k) = ""
    BY <1>2, PathIs
  <2>5. PathOf(bundle, k) = "" => k \in layout_create(bundle)
    BY <1>2, <2>1, <2>3
  <2>6. QED  BY <1>1, <1>2, <1>4, <2>3, <2>4, <2>5 DEF layout_join
<1>5. CASE k \notin Types(bundle)
  <2>1. PathOf(bundle, k) = "absent"
    BY <1>5 DEF PathOf
  <2>2. k \notin layout_create(bundle)
    BY <1>2, <1>3, <1>5
  <2>3. QED  BY <1>1, <1>2, <1>5, <2>1, <2>2 DEF layout_join
<1>6. QED  BY <1>4, <1>5

LEMMA CreatedAreKinds == ASSUME NEW bundle \in Bundles PROVE layout_create(bundle) \subseteq Kind
<1> DEFINE s == bundle.namespaces
<1>1. s \in Seq(NamespaceEntries) /\ DOMAIN s = 1..Len(s)
  BY BundlesAssumption, LenProperties
<1>2. \A i \in 1..Len(s) : s[i] \in NamespaceEntries
  BY <1>1, ElementOfSeq
<1>3. QED  BY <1>1, <1>2 DEF layout_create, ToSet, NamespaceEntries

-----------------------------------------------------------------------------
(***************************************************************************)
(* The steps.                                                              *)
(***************************************************************************)
LEMMA InitNInv == Init => NInv
<1> SUFFICES ASSUME Init PROVE NInv
  OBVIOUS
<1>1. b \in Bundles /\ pc = "load" /\ pc \in Steps
  BY DEF Init, Steps
<1>2. NsTyped /\ CgTyped
  BY DEF Init, NsTyped, CgTyped, Whose
<1>3. Joining
  BY DEF Init, Joining
<1>4. QED  BY <1>1, <1>2, <1>3 DEF NInv, Inside

\* The steps that leave the namespaces and the cgroup's path as they are.
LEMMA NothingNew ==
    ASSUME NInv, UNCHANGED <<b, ns, cg>>, pc \in Inside, pc' \in Inside \cup {"failed"}
    PROVE  NInv'
<1>1. UNCHANGED <<NsTyped, CgTyped, Settled>>
  BY DEF NsTyped, CgTyped, Settled
<1>2. QED  BY <1>1 DEF NInv, Inside, Steps

\* create, up to the fork of the intermediate.
LEMMA CreateNStep ==
    ASSUME NInv, LoadBundle \/ Plan \/ CreateCgroup \/ ApplyResources \/ Spawn
    PROVE  NInv'
<1>1. b' = b /\ ns' = ns
  BY DEF LoadBundle, Plan, CreateCgroup, ApplyResources, Spawn
<1>2. NsTyped' /\ (Joining => Joining')
  BY <1>1 DEF NInv, NsTyped, Joining
<1>3. CASE LoadBundle \/ Plan \/ Spawn
  <2>1. cg' = cg
    BY <1>3 DEF LoadBundle, Plan, Spawn
  <2>2. CgTyped'
    BY <2>1 DEF NInv, CgTyped
  <2>3. QED  BY <1>1, <1>2, <1>3, <2>1, <2>2 DEF NInv, LoadBundle, Plan, Spawn, Go, Inside, Steps
<1>4. CASE CreateCgroup
  <2>1. CgTyped' /\ cg'.path = relative_path(b.cgroupsPath, Id)
    BY <1>4 DEF NInv, CreateCgroup, CgTyped
  <2>2. QED  BY <1>1, <1>2, <1>4, <2>1 DEF NInv, CreateCgroup, Inside, Steps
<1>5. CASE ApplyResources
  <2>1. CgTyped' /\ cg'.path = cg.path
    BY <1>5 DEF NInv, ApplyResources, CgTyped
  <2>2. QED  BY <1>1, <1>2, <1>5, <2>1 DEF NInv, ApplyResources, Go, Inside, Steps
<1>6. QED  BY <1>3, <1>4, <1>5

\* Nothing comes before the user namespace.
LEMMA UserFirst == ASSUME NEW k, Precedes(unshare_order, k, "user") PROVE FALSE
  BY DEF Precedes, unshare_order

LEMMA JoinNStep == ASSUME NInv, JoinExisting PROVE NInv'
<1>1. /\ pc = "join" /\ b' = b /\ cg' = cg /\ Joining /\ NsTyped /\ spec(b) /\ b \in Bundles
      /\ cg.path = relative_path(b.cgroupsPath, Id)
  BY DEF NInv, JoinExisting
<1>2. CgTyped'
  BY <1>1 DEF NInv, CgTyped
<1>3. CASE ToJoin = {} /\ pc' = "unshare" /\ ns' = ns
  <2>1. \A k \in Kind : k \in layout_join(b) => ns.how[k] = "joined"
    BY <1>3 DEF ToJoin
  <2>2. Unsharing'
    BY <1>1, <1>3, <2>1 DEF Joining, Unsharing, Kind
  <2>3. NsTyped'
    BY <1>1, <1>3 DEF NsTyped
  <2>4. QED  BY <1>1, <1>2, <1>3, <2>2, <2>3 DEF NInv, Inside, Steps
<1>4. ASSUME NEW k \in ToJoin, pc' \in {"join", "failed"},
             ns' \in {[ns EXCEPT !.how[k] = "joined", !.owner[k] = OwnerOf(k)], ns}
      PROVE  NInv'
  <2>1. k \in layout_join(b) /\ k \in Kind
    BY DEF ToJoin, layout_join
  <2>2. NsTyped'
    <3>1. CASE ns' = ns
      BY <1>1, <3>1 DEF NsTyped
    <3>2. CASE ns' = [ns EXCEPT !.how[k] = "joined", !.owner[k] = OwnerOf(k)]
      <4>1. OwnerOf(k) \in Whose
        BY DEF OwnerOf, Whose
      <4>2. QED  BY <1>1, <2>1, <3>2, <4>1 DEF NsTyped, Whose
    <3>3. QED  BY <1>4, <3>1, <3>2
  <2>3. ns'.offsets = ns.offsets /\ ns'.how \in {[ns.how EXCEPT ![k] = "joined"], ns.how}
    BY <1>1, <1>4 DEF NsTyped
  <2>4. Joining'
    BY <1>1, <2>1, <2>3 DEF NsTyped, Joining
  <2>5. QED  BY <1>1, <1>2, <1>4, <2>2, <2>4 DEF NInv, Inside, Steps
<1>5. QED
  <2>1. CASE \E k \in ToJoin : /\ Go(CanJoin(k), "join")
                               /\ ns' = IF CanJoin(k) THEN [ns EXCEPT !.how[k] = "joined", !.owner[k] = OwnerOf(k)] ELSE ns
    <3>1. PICK k \in ToJoin : /\ Go(CanJoin(k), "join")
                              /\ ns' = IF CanJoin(k) THEN [ns EXCEPT !.how[k] = "joined", !.owner[k] = OwnerOf(k)] ELSE ns
      BY <2>1
    <3>2. QED  BY <1>4, <3>1 DEF Go
  <2>2. QED  BY <1>3, <2>1 DEF JoinExisting

LEMMA UnshareNStep == ASSUME NInv, Unshare PROVE NInv'
<1>1. /\ pc = "unshare" /\ b' = b /\ cg' = cg /\ Unsharing /\ NsTyped /\ spec(b) /\ b \in Bundles
      /\ cg.path = relative_path(b.cgroupsPath, Id)
  BY DEF NInv, Unshare, Inside
<1>2. CgTyped'
  BY <1>1 DEF NInv, CgTyped
<1>3. CASE ToUnshare = {} /\ pc' \in {"map", "attach"} /\ ns' = ns
  <2>1. Unshared'
    BY <1>1, <1>3 DEF ToUnshare, Unsharing, Unshared
  <2>2. NsTyped'
    BY <1>1, <1>3 DEF NsTyped
  <2>3. QED  BY <1>1, <1>2, <1>3, <2>1, <2>2 DEF NInv, Inside, Steps
<1>4. ASSUME NEW k \in ToUnshare, \A j \in ToUnshare \ {k} : Precedes(unshare_order, k, j), pc' = pc,
             ns' = [ns EXCEPT !.how[k] = "new", !.owner[k] = ns.how["user"],
                              !.offsets = @ \/ (k = "time" /\ b.timeOffsets)]
      PROVE  NInv'
  <2>1. k \in unshare_flags(b) /\ k \in layout_create(b) /\ ns.how[k] # "new"
    BY DEF ToUnshare, unshare_flags, without
  <2>2. namespace_types(b)
    BY <1>1 DEF spec
  <2>3. k \in Kind /\ k \notin layout_join(b)
    BY <1>1, <2>1, <2>2, KindsAre, CreatedAreKinds
  <2>4. NsTyped'
    BY <1>1, <1>4, <2>3 DEF NsTyped, Whose, Kind
  <2>5. /\ ns'.how = [ns.how EXCEPT ![k] = "new"]
        /\ ns'.owner = [ns.owner EXCEPT ![k] = ns.how["user"]]
        /\ ns'.offsets = (ns.offsets \/ (k = "time" /\ b.timeOffsets))
    BY <1>1, <1>4 DEF NsTyped
  <2>6. CASE k = "user"
    <3>1. \A j \in Kind \ {"user"} : ns.how[j] # "new"
      BY <1>1, <2>1, <2>6 DEF Unsharing
    <3>2. Unsharing'
      BY <1>1, <2>1, <2>3, <2>5, <2>6, <3>1 DEF Unsharing, NsTyped, Kind
    <3>3. QED  BY <1>1, <1>2, <1>4, <2>4, <3>2 DEF NInv, Inside, Steps
  <2>7. CASE k # "user"
    <3>1. "user" \in unshare_flags(b) => ns.how["user"] = "new"
      BY <1>4, <2>7, UserFirst DEF ToUnshare
    <3>2. Unsharing'
      <4>1. \A j \in Kind : ns'.how[j] = "joined" <=> j \in layout_join(b)
        BY <1>1, <2>3, <2>5 DEF Unsharing, NsTyped
      <4>2. \A j \in Kind : ns'.how[j] = "new" => j \in unshare_flags(b)
        BY <1>1, <2>1, <2>5 DEF Unsharing, NsTyped
      <4>3. \A j \in Kind \ {"user"} :
               ns'.how[j] = "new" => /\ ns'.owner[j] = ns'.how["user"]
                                     /\ "user" \in unshare_flags(b) => ns'.how["user"] = "new"
        BY <1>1, <2>3, <2>5, <2>7, <3>1 DEF Unsharing, NsTyped, Kind
      <4>4. ns'.offsets <=> (b.timeOffsets /\ ns'.how["time"] = "new")
        BY <1>1, <2>1, <2>3, <2>5 DEF Unsharing, NsTyped, Kind
      <4>5. QED  BY <1>1, <4>1, <4>2, <4>3, <4>4 DEF Unsharing
    <3>3. QED  BY <1>1, <1>2, <1>4, <2>4, <3>2 DEF NInv, Inside, Steps
  <2>8. QED  BY <2>6, <2>7
<1>5. QED
  <2>1. CASE \E k \in ToUnshare :
                /\ \A j \in ToUnshare \ {k} : Precedes(unshare_order, k, j)
                /\ ns' = [ns EXCEPT !.how[k] = "new", !.owner[k] = ns.how["user"],
                                    !.offsets = @ \/ (k = "time" /\ b.timeOffsets)]
                /\ pc' = pc
    BY <1>4, <2>1
  <2>2. QED  BY <1>3, <2>1 DEF Unshare

\* The user namespace is mapped, the init forked and put into its cgroup.
LEMMA MapNStep == ASSUME NInv, MapIds \/ Attach PROVE NInv'
<1>1. /\ pc \in {"map", "attach"} /\ b' = b /\ ns' = ns /\ Unshared /\ NsTyped /\ spec(b) /\ b \in Bundles
      /\ cg.path = relative_path(b.cgroupsPath, Id) /\ CgTyped
  BY DEF NInv, MapIds, Attach, Inside
<1>2. Unshared' /\ NsTyped'
  BY <1>1 DEF Unshared, Unsharing, NsTyped
<1>3. CASE MapIds
  <2>1. cg' = cg /\ pc' \in {"attach", "failed"}
    BY <1>3 DEF MapIds, Go
  <2>2. CgTyped'
    BY <1>1, <2>1 DEF CgTyped
  <2>3. QED  BY <1>1, <1>2, <2>1, <2>2 DEF NInv, Inside, Steps
<1>4. CASE Attach
  <2>1. cg'.path = cg.path /\ cg'.member /\ CgTyped' /\ pc' = "cgroupns"
    BY <1>1, <1>4 DEF Attach, CgTyped
  <2>2. QED  BY <1>1, <1>2, <2>1 DEF NInv, Inside, Steps
<1>5. QED  BY <1>3, <1>4

\* With the namespace of the cgroups, all are as they were asked for.
LEMMA CgroupNStep == ASSUME NInv, UnshareCgroup PROVE NInv'
<1>1. /\ pc = "cgroupns" /\ b' = b /\ cg' = cg /\ Unshared /\ NsTyped /\ spec(b) /\ b \in Bundles
      /\ cg.path = relative_path(b.cgroupsPath, Id) /\ CgTyped /\ cg.member
      /\ pc' \in {"root", "identity"}
  BY DEF NInv, UnshareCgroup, Inside
<1>2. CgTyped'
  BY <1>1 DEF CgTyped
<1>3. namespace_types(b)
  BY <1>1 DEF spec
<1>4. ns' = IF cgroup_ns(b)
            THEN [ns EXCEPT !.how["cgroup"] = "new", !.owner["cgroup"] = ns.how["user"],
                            !.cgroupRoot = cg.path]
            ELSE ns
  BY <1>1 DEF UnshareCgroup
<1>5. NsTyped'
  <2>1. CASE cgroup_ns(b)
    BY <1>1, <1>4, <2>1 DEF NsTyped, Whose, Kind
  <2>2. CASE ~cgroup_ns(b)
    BY <1>1, <1>4, <2>2 DEF NsTyped
  <2>3. QED  BY <2>1, <2>2
<1>6. /\ ns'.how = IF cgroup_ns(b) THEN [ns.how EXCEPT !["cgroup"] = "new"] ELSE ns.how
      /\ ns'.owner = IF cgroup_ns(b) THEN [ns.owner EXCEPT !["cgroup"] = ns.how["user"]] ELSE ns.owner
      /\ ns'.offsets = ns.offsets
      /\ cgroup_ns(b) => ns'.cgroupRoot = cg.path
  <2>1. CASE cgroup_ns(b)
    BY <1>1, <1>4, <2>1 DEF NsTyped
  <2>2. CASE ~cgroup_ns(b)
    BY <1>1, <1>4, <2>2 DEF NsTyped
  <2>3. QED  BY <2>1, <2>2
<1>7. \A k \in Kind : /\ k \in layout_create(b) <=> PathOf(b, k) = ""
                      /\ k \in layout_join(b) <=> PathOf(b, k) \notin {"", "absent"}
  BY <1>1, <1>3, KindsAre
<1>8. \A k \in Kind \ {"cgroup"} : ns.how[k] = "new" <=> k \in layout_create(b)
  BY <1>1 DEF Unshared, Unsharing, unshare_flags, without
<1>9. cgroup_ns(b) <=> "cgroup" \in layout_create(b)
  BY DEF cgroup_ns
<1>10. ns.how["cgroup"] # "new"
  BY <1>1 DEF Unshared, Unsharing, unshare_flags, without, Kind
<1>11. Settled'
  <2>1. \A k \in Kind : ns'.how[k] = CASE PathOf(b, k) = "absent" -> "host"
                                       [] PathOf(b, k) = ""       -> "new"
                                       [] OTHER                   -> "joined"
    <3> TAKE k \in Kind
    <3>1. ns.how[k] \in Whose /\ (ns.how[k] = "joined" <=> k \in layout_join(b))
      BY <1>1 DEF NsTyped, Unshared, Unsharing
    <3>2. CASE k = "cgroup"
      BY <1>1, <1>6, <1>7, <1>9, <1>10, <3>1, <3>2 DEF NsTyped, Whose
    <3>3. CASE k # "cgroup"
      BY <1>1, <1>6, <1>7, <1>8, <3>1, <3>3 DEF NsTyped, Whose
    <3>4. QED  BY <3>2, <3>3
  <2>2. \A k \in Kind \ {"user"} : ns'.how[k] = "new" => ns'.owner[k] = ns'.how["user"]
    BY <1>1, <1>6, <1>10 DEF NsTyped, Unshared, Unsharing, Kind
  <2>3. ns'.offsets <=> (b.timeOffsets /\ PathOf(b, "time") = "")
    BY <1>1, <1>6, <1>7, <1>8 DEF Unshared, Unsharing, Kind
  <2>4. PathOf(b, "cgroup") = "" => ns'.cgroupRoot = relative_path(b.cgroupsPath, Id)
    BY <1>1, <1>6, <1>7, <1>9 DEF Kind
  <2>5. QED  BY <1>1, <2>1, <2>2, <2>3, <2>4 DEF Settled
<1>12. QED  BY <1>1, <1>2, <1>5, <1>11 DEF NInv, Inside, Steps

\* From the root on, nothing joins or leaves a namespace.
LEMMA InsideNStep ==
    ASSUME NInv,
           \/ MountRoot \/ ApplyMounts \/ CreateNodes \/ CreateLinks \/ CreateDevices \/ PivotRoot
           \/ SetupConsole \/ SetIdentity \/ ApplySysctl
           \/ MaskPaths \/ ReadonlyPaths \/ RemountReadonly \/ ReadonlyRootfs \/ ApplyLimits
           \/ FilterEarly \/ DropBounding \/ DropPrivileges \/ ApplyCapabilities \/ NoNewPrivs \/ FilterLate
           \/ Ready \/ Park \/ Exec \/ Starved \/ Overflow
    PROVE  NInv'
<1> USE DEF Go, Inside
<1>1. CASE MountRoot \/ PivotRoot \/ SetupConsole
  BY <1>1, NothingNew DEF MountRoot, PivotRoot, SetupConsole
<1>2. CASE SetIdentity \/ ApplySysctl \/ ReadonlyRootfs \/ ApplyLimits
  BY <1>2, NothingNew DEF SetIdentity, ApplySysctl, ReadonlyRootfs, ApplyLimits
<1>3. CASE ApplyMounts \/ CreateNodes \/ CreateLinks \/ CreateDevices
  BY <1>3, NothingNew DEF ApplyMounts, CreateNodes, CreateLinks, CreateDevices, Each
<1>4. CASE MaskPaths \/ ReadonlyPaths \/ RemountReadonly
  BY <1>4, NothingNew DEF MaskPaths, ReadonlyPaths, RemountReadonly, Each
<1>5. CASE FilterEarly \/ DropBounding \/ DropPrivileges
  BY <1>5, NothingNew DEF FilterEarly, DropBounding, DropPrivileges, Privilege
<1>6. CASE ApplyCapabilities \/ NoNewPrivs \/ FilterLate
  BY <1>6, NothingNew DEF ApplyCapabilities, NoNewPrivs, FilterLate, Privilege
<1>7. CASE Ready \/ Park \/ Exec \/ Starved \/ Overflow
  BY <1>7, NothingNew DEF Ready, Park, Exec, Starved, Overflow, Privilege
<1>8. QED  BY <1>1, <1>2, <1>3, <1>4, <1>5, <1>6, <1>7

LEMMA NextNInv == NInv /\ [Next]_vars => NInv'
<1> SUFFICES ASSUME NInv, [Next]_vars PROVE NInv'
  OBVIOUS
<1>1. CASE UNCHANGED vars
  BY <1>1 DEF vars, NInv, NsTyped, CgTyped, Joining, Unsharing, Unshared, Settled
<1>2. CASE Next
  BY <1>2, CreateNStep, JoinNStep, UnshareNStep, MapNStep, CgroupNStep, InsideNStep DEF Next
<1>3. QED  BY <1>1, <1>2

\* A container that was created is in exactly the namespaces its bundle asks for: those without a
\* path are new and owned by the container's user namespace, those with one are joined, and the
\* clock offsets and the root of the cgroups are in place (layout, join_existing, unshare_order,
\* write_time_offsets, and the message CgroupApplied before the cgroup namespace).
THEOREM NamespacesAreAsAsked == Spec => []NamespacesAsAsked
<1>1. NInv => NamespacesAsAsked
  BY DEF NInv, NamespacesAsAsked, Created, Settled, Inside
<1>2. QED  BY <1>1, InitNInv, NextNInv, PTL DEF Spec

-----------------------------------------------------------------------------
(***************************************************************************)
(* The mount table: a sequence of mounts, under all of them the root.      *)
(***************************************************************************)
IsMount(m) ==
    /\ m = [fs |-> m.fs, at |-> m.at, ro |-> m.ro, unbindable |-> m.unbindable]
    /\ m.ro \in BOOLEAN

IsTable(t) == \E S : t \in Seq(S) /\ \A m \in S : IsMount(m)

LEMMA TableIs ==
    ASSUME NEW t, IsTable(t)
    PROVE  /\ Len(t) \in Nat /\ DOMAIN t = 1..Len(t)
           /\ \A i \in 1..Len(t) : IsMount(t[i])
<1>1. PICK S : t \in Seq(S) /\ \A m \in S : IsMount(m)
  BY DEF IsTable
<1>2. QED  BY <1>1, LenProperties, ElementOfSeq

LEMMA TableAppend ==
    ASSUME NEW t, NEW m, IsTable(t), IsMount(m)
    PROVE  /\ IsTable(Append(t, m)) /\ Len(Append(t, m)) = Len(t) + 1
           /\ \A i \in 1..Len(t) : Append(t, m)[i] = t[i]
           /\ Append(t, m)[Len(t) + 1] = m
<1>1. PICK S : t \in Seq(S) /\ \A x \in S : IsMount(x)
  BY DEF IsTable
<1> DEFINE T == S \cup {m}
<1>2. t \in Seq(T) /\ m \in T
  BY <1>1, SeqMonotonic
<1>3. \A x \in T : IsMount(x)
  BY <1>1
<1> HIDE DEF T
<1>4. QED  BY <1>2, <1>3, AppendProperties DEF IsTable

LEMMA TableConcat ==
    ASSUME NEW t, NEW u, IsTable(t), IsTable(u)
    PROVE  /\ IsTable(t \o u) /\ Len(t \o u) = Len(t) + Len(u)
           /\ \A i \in 1..Len(t) : (t \o u)[i] = t[i]
           /\ \A i \in 1..Len(u) : (t \o u)[Len(t) + i] = u[i]
<1>1. PICK S : t \in Seq(S) /\ \A x \in S : IsMount(x)
  BY DEF IsTable
<1>2. PICK R : u \in Seq(R) /\ \A x \in R : IsMount(x)
  BY DEF IsTable
<1> DEFINE T == S \cup R
<1>3. t \in Seq(T) /\ u \in Seq(T)
  BY <1>1, <1>2, SeqMonotonic
<1>4. \A x \in T : IsMount(x)
  BY <1>1, <1>2
<1> HIDE DEF T
<1>5. t \o u \in Seq(T) /\ Len(t) \in Nat /\ Len(u) \in Nat
  BY <1>3, ConcatProperties, LenProperties
<1>6. QED  BY <1>3, <1>4, <1>5, ConcatProperties DEF IsTable

LEMMA TableFrom ==
    ASSUME NEW t, IsTable(t), NEW n \in Nat
    PROVE  IsTable(SubSeq(t, n + 1, Len(t)))
<1>1. PICK S : t \in Seq(S) /\ \A x \in S : IsMount(x)
  BY DEF IsTable
<1>2. SubSeq(t, n + 1, Len(t)) \in Seq(S)
  BY <1>1, SubSeqProperties, LenProperties
<1>3. QED  BY <1>1, <1>2 DEF IsTable

LEMMA TableIntro == ASSUME NEW S, NEW t \in Seq(S), \A m \in S : IsMount(m) PROVE IsTable(t)
  BY DEF IsTable

LEMMA TableOfOne == ASSUME NEW m, IsMount(m) PROVE IsTable(<<m>>) /\ <<m>>[1] = m /\ Len(<<m>>) = 1
<1> DEFINE S == {m}
           t == <<m>>
<1>1. t \in Seq(S) /\ t[1] = m /\ Len(t) = 1
  OBVIOUS
<1>2. \A x \in S : IsMount(x)
  OBVIOUS
<1> HIDE DEF S, t
<1>3. IsTable(t)
  BY <1>1, <1>2, TableIntro
<1>4. QED  BY <1>1, <1>3 DEF t

LEMMA TableEmpty == IsTable(<<>>)
<1> DEFINE S == {}
           t == <<>>
<1>1. t \in Seq(S) /\ \A x \in S : IsMount(x)
  BY EmptySeq
<1> HIDE DEF S, t
<1>2. IsTable(t)
  BY <1>1, TableIntro
<1>3. QED  BY <1>2 DEF t

\* Any table of the same length with mounts in it.
LEMMA TableMapped ==
    ASSUME NEW t, NEW u, IsTable(t), DOMAIN u = DOMAIN t, u = [i \in DOMAIN t |-> u[i]],
           \A i \in DOMAIN t : IsMount(u[i])
    PROVE  IsTable(u) /\ Len(u) = Len(t)
<1> DEFINE S == {u[i] : i \in DOMAIN t}
<1>1. Len(t) \in Nat /\ DOMAIN t = 1..Len(t)
  BY TableIs
<1>2. \A x \in S : IsMount(x)
  OBVIOUS
<1>3. u \in [1..Len(t) -> S]
  BY <1>1
<1> HIDE DEF S
<1>4. u \in Seq(S)
  <2>1. u \in UNION {[1..n -> S] : n \in Nat}
    BY <1>1, <1>3
  <2>2. QED  BY <2>1, SeqDef, Zenon
<1>5. IsTable(u)
  BY <1>2, <1>4, TableIntro
<1>6. QED  BY <1>1, <1>5, TableIs

-----------------------------------------------------------------------------
(***************************************************************************)
(* The mount that a path is on: the last one above it.                     *)
(***************************************************************************)
\* The path of the root is above every path, so that each path is on a mount.
LEMMA OnAMount ==
    ASSUME NEW f, NEW S, NEW p \in Seq(S), IsTable(f.tab), f.tab # <<>>, f.tab[1].at = <<>>
    PROVE  Top(f, p) \in 1..Len(f.tab) /\ IsMount(MountOf(f, p)) /\ IsPrefix(MountOf(f, p).at, p)
<1> DEFINE Above(m) == IsPrefix(m.at, p)
           I == {i \in 1..Len(f.tab) : Above(f.tab[i])}
<1>1. /\ Len(f.tab) \in Nat /\ DOMAIN f.tab = 1..Len(f.tab)
      /\ \A i \in 1..Len(f.tab) : IsMount(f.tab[i])
  BY TableIs
<1>2. Len(f.tab) # 0
  <2>1. PICK R : f.tab \in Seq(R)
    BY DEF IsTable
  <2>2. QED  BY <2>1, EmptySeq
<1>3. 1 \in I
  BY <1>1, <1>2, LenProperties DEF IsPrefix
<1>4. Top(f, p) = IF I # {} THEN Max(I) ELSE 0
  BY <1>1 DEF Top, SelectLastInSeq
<1> HIDE DEF I
<1>5. Top(f, p) \in I
  <2>1. I \in SUBSET (1..Len(f.tab))
    BY DEF I
  <2>2. QED  BY <1>1, <1>3, <1>4, <2>1, LastPosition
<1>6. QED  BY <1>1, <1>5 DEF I, MountOf
-----------------------------------------------------------------------------
(***************************************************************************)
(* What no operation on the container's tree changes: that it is one, how  *)
(* its mounts propagate, whether the old root is below it, and what has    *)
(* been done to the host.                                                  *)
(***************************************************************************)
FsShape(f) ==
    f = [tab |-> f.tab, has |-> f.has, layers |-> f.layers, prop |-> f.prop, old |-> f.old,
         leaks |-> f.leaks, touched |-> f.touched, ok |-> f.ok]

FsTyped(f) ==
    /\ FsShape(f)
    /\ IsTable(f.tab) /\ f.leaks \in BOOLEAN

HasRoot(f) == Len(f.tab) > 0 /\ f.tab[1].at = <<>>

\* Mounts that are made are not seen by the host.
Apart(f) == ~(f.prop = "shared" /\ f.old)

\* No device of the host is bound.
NoNodes(f) == \A i \in 1..Len(f.tab) : f.tab[i].fs.typ # "hostdev"

Keeps(f, g) ==
    /\ FsTyped(g)
    /\ g.prop = f.prop /\ g.old = f.old /\ g.layers = f.layers /\ g.touched = f.touched
    /\ Apart(f) => g.leaks = f.leaks
    /\ HasRoot(f) => HasRoot(g)

\* The same without a device of the host.
Plainly(f, g) == Keeps(f, g) /\ (NoNodes(f) => NoNodes(g))

LEMMA KeepsSelf == ASSUME NEW f, FsTyped(f) PROVE Plainly(f, f)
  BY DEF Plainly, Keeps

LEMMA KeepsBoth ==
    ASSUME NEW f, NEW g, NEW h
    PROVE  /\ Keeps(f, g) /\ Keeps(g, h) => Keeps(f, h)
           /\ Plainly(f, g) /\ Plainly(g, h) => Plainly(f, h)
  BY DEF Plainly, Keeps, Apart

LEMMA FailKeeps == ASSUME NEW f, FsTyped(f) PROVE Plainly(f, Fail(f))
<1> DEFINE g(no) == [f EXCEPT !.ok = no]
<1>1. ASSUME NEW no
      PROVE  /\ g(no).tab = f.tab /\ g(no).prop = f.prop /\ g(no).old = f.old /\ g(no).layers = f.layers
             /\ g(no).touched = f.touched /\ g(no).leaks = f.leaks /\ FsTyped(g(no))
  BY DEF FsTyped, FsShape
<1>2. /\ Fail(f).tab = f.tab /\ Fail(f).prop = f.prop /\ Fail(f).old = f.old /\ Fail(f).layers = f.layers
      /\ Fail(f).touched = f.touched /\ Fail(f).leaks = f.leaks /\ FsTyped(Fail(f))
  BY <1>1 DEF Fail
<1>3. QED  BY <1>2 DEF Plainly, Keeps, HasRoot, NoNodes

\* A call either has its effect or fails, and has then changed nothing.
LEMMA ThenKeeps ==
    ASSUME NEW f, NEW can, NEW after, FsTyped(f)
    PROVE  /\ Keeps(f, after) => Keeps(f, Then(f, can, after))
           /\ Plainly(f, after) => Plainly(f, Then(f, can, after))
  BY FailKeeps DEF Then, Plainly

\* New names in the tree.
LEMMA HasKeeps == ASSUME NEW f, NEW new, FsTyped(f) PROVE Plainly(f, [f EXCEPT !.has = new])
<1> DEFINE g == [f EXCEPT !.has = new]
<1>1. /\ g.tab = f.tab /\ g.prop = f.prop /\ g.old = f.old /\ g.layers = f.layers
      /\ g.touched = f.touched /\ g.leaks = f.leaks /\ FsTyped(g)
  BY DEF FsTyped, FsShape
<1> HIDE DEF g
<1>2. Plainly(f, g)
  BY <1>1 DEF Plainly, Keeps, HasRoot, NoNodes
<1>3. QED  BY <1>2 DEF g

LEMMA MakeKeeps == ASSUME NEW f, NEW p, FsTyped(f) PROVE Plainly(f, Make(f, p))
<1> DEFINE new == {SubSeq(p, 1, i) : i \in {j \in 1..Len(p) : ~Exists(f, SubSeq(p, 1, j))}}
           more == f.has \cup {[fs |-> MountOf(f, q).fs, path |-> q] : q \in new}
<1>1. Make(f, p) = IF new = {} THEN f ELSE Then(f, Holds(f, p), [f EXCEPT !.has = more])
  BY DEF Make
<1> HIDE DEF new, more
<1>2. QED  BY <1>1, KeepsSelf, HasKeeps, ThenKeeps

\* A table of which only the mounts' own attributes change.
LEMMA TabKeeps ==
    ASSUME NEW f, NEW t, FsTyped(f), IsTable(t), Len(t) = Len(f.tab),
           \A i \in 1..Len(t) : t[i].at = f.tab[i].at /\ t[i].fs = f.tab[i].fs
    PROVE  Plainly(f, [f EXCEPT !.tab = t])
<1> DEFINE g == [f EXCEPT !.tab = t]
<1>1. /\ g.tab = t /\ g.prop = f.prop /\ g.old = f.old /\ g.layers = f.layers
      /\ g.touched = f.touched /\ g.leaks = f.leaks /\ FsTyped(g)
  BY DEF FsTyped, FsShape
<1> HIDE DEF g
<1>2. Len(t) \in Nat
  BY TableIs
<1>3. Plainly(f, g)
  BY <1>1, <1>2 DEF Plainly, Keeps, HasRoot, NoNodes
<1>4. QED  BY <1>3 DEF g

LEMMA SetRoKeeps == ASSUME NEW f, NEW p, NEW ro \in BOOLEAN, FsTyped(f) PROVE Plainly(f, SetRo(f, p, ro))
<1> DEFINE i == Top(f, p)
           t == [f.tab EXCEPT ![i].ro = ro]
<1>1. SetRo(f, p, ro) = [f EXCEPT !.tab = t]
  BY DEF SetRo, FsTyped
<1>2. /\ Len(f.tab) \in Nat /\ DOMAIN f.tab = 1..Len(f.tab)
      /\ \A j \in 1..Len(f.tab) : IsMount(f.tab[j])
  BY TableIs DEF FsTyped
<1>3. DOMAIN t = DOMAIN f.tab /\ t = [j \in DOMAIN f.tab |-> t[j]]
  OBVIOUS
<1>4. \A j \in DOMAIN f.tab : t[j] \in {f.tab[j], [f.tab[j] EXCEPT !.ro = ro]}
  OBVIOUS
<1>5. \A j \in DOMAIN f.tab : IsMount(t[j]) /\ t[j].at = f.tab[j].at /\ t[j].fs = f.tab[j].fs
  <2> TAKE j \in DOMAIN f.tab
  <2>1. IsMount(f.tab[j])
    BY <1>2
  <2>2. QED  BY <1>4, <2>1 DEF IsMount
<1> HIDE DEF t
<1>6. IsTable(t) /\ Len(t) = Len(f.tab)
  BY <1>3, <1>5, TableMapped DEF FsTyped
<1>7. QED  BY <1>1, <1>2, <1>5, <1>6, TabKeeps
LEMMA Changed ==
    ASSUME NEW f, FsShape(f), NEW t, NEW new, NEW leaks
    PROVE  LET g == [f EXCEPT !.tab = t, !.has = new, !.leaks = leaks]
           IN  /\ g.tab = t /\ g.prop = f.prop /\ g.old = f.old /\ g.layers = f.layers
               /\ g.touched = f.touched /\ g.leaks = leaks /\ FsShape(g)
<1> DEFINE g1 == [f EXCEPT !.tab = t]
           g2 == [g1 EXCEPT !.has = new]
           g3 == [g2 EXCEPT !.leaks = leaks]
<1>1. [f EXCEPT !.tab = t, !.has = new, !.leaks = leaks] = g3
  BY DEF FsShape
<1>2. g1 = [tab |-> t, has |-> f.has, layers |-> f.layers, prop |-> f.prop, old |-> f.old,
            leaks |-> f.leaks, touched |-> f.touched, ok |-> f.ok]
  BY DEF FsShape
<1> HIDE DEF g1
<1>3. g2 = [tab |-> t, has |-> new, layers |-> f.layers, prop |-> f.prop, old |-> f.old,
            leaks |-> f.leaks, touched |-> f.touched, ok |-> f.ok]
  BY <1>2
<1> HIDE DEF g2
<1>4. g3 = [tab |-> t, has |-> new, layers |-> f.layers, prop |-> f.prop, old |-> f.old,
            leaks |-> leaks, touched |-> f.touched, ok |-> f.ok]
  BY <1>3
<1> HIDE DEF g3
<1>5. QED  BY <1>1, <1>4 DEF FsShape

LEMMA AddKeeps ==
    ASSUME NEW f, NEW fs, NEW at, NEW ro \in BOOLEAN, FsTyped(f)
    PROVE  /\ Keeps(f, Add(f, fs, at, ro))
           /\ fs.typ # "hostdev" => Plainly(f, Add(f, fs, at, ro))
           /\ f.tab = <<>> /\ at = <<>> => HasRoot(Add(f, fs, at, ro))
<1> DEFINE m == Mounted(fs, at, ro)
           t == Append(f.tab, m)
           has == f.has \cup {[fs |-> fs, path |-> q] : q \in Contents(fs.typ, at)}
           leaks == f.leaks \/ (f.prop = "shared" /\ f.old)
           g == [f EXCEPT !.tab = t, !.has = has, !.leaks = leaks]
<1>1. Add(f, fs, at, ro) = g
  BY DEF Add, FsTyped
<1>2. IsMount(m) /\ m.fs = fs /\ m.at = at
  BY DEF IsMount, Mounted
<1>3. /\ IsTable(t) /\ Len(t) = Len(f.tab) + 1 /\ Len(f.tab) \in Nat
      /\ \A i \in 1..Len(f.tab) : t[i] = f.tab[i]
      /\ t[Len(f.tab) + 1] = m
  BY <1>2, TableAppend, TableIs DEF FsTyped
<1>4. leaks \in BOOLEAN /\ (Apart(f) => leaks = f.leaks)
  BY DEF Apart, FsTyped
<1> HIDE DEF t, has, m, leaks
<1>5. /\ g.tab = t /\ g.prop = f.prop /\ g.old = f.old /\ g.layers = f.layers
      /\ g.touched = f.touched /\ g.leaks = leaks /\ FsTyped(g)
  <2>1. FsShape(f)
    BY DEF FsTyped, FsShape
  <2>2. /\ g.tab = t /\ g.prop = f.prop /\ g.old = f.old /\ g.layers = f.layers
        /\ g.touched = f.touched /\ g.leaks = leaks /\ FsShape(g)
    BY <2>1, Changed
  <2> HIDE DEF g
  <2>3. QED  BY <1>3, <1>4, <2>2 DEF FsTyped
<1>6. HasRoot(f) => HasRoot(g)
  BY <1>3, <1>5 DEF HasRoot
<1>7. f.tab = <<>> /\ at = <<>> => HasRoot(g)
  BY <1>2, <1>3, <1>5 DEF HasRoot
<1>8. fs.typ # "hostdev" /\ NoNodes(f) => NoNodes(g)
  BY <1>2, <1>3, <1>5 DEF NoNodes
<1>9. QED  BY <1>1, <1>4, <1>5, <1>6, <1>7, <1>8 DEF Plainly, Keeps
\* A path bound onto itself: the tree goes on as it was, with more mounts.
LEMMA SelfBindKeeps ==
    ASSUME NEW f, NEW S, NEW p \in Seq(S), NEW rec \in BOOLEAN, FsTyped(f), HasRoot(f)
    PROVE  Keeps(f, SelfBind(f, p, rec))
<1> DEFINE own == [MountOf(f, p) EXCEPT !.at = p]
           later == IF rec THEN SubSeq(f.tab, Top(f, p) + 1, Len(f.tab)) ELSE <<>>
           t == f.tab \o <<own>> \o later
           g == [f EXCEPT !.tab = t]
<1>1. IsTable(f.tab) /\ Len(f.tab) \in Nat
  BY TableIs DEF FsTyped
<1>2. Top(f, p) \in 1..Len(f.tab) /\ IsMount(MountOf(f, p))
  <2>1. f.tab # <<>> /\ f.tab[1].at = <<>>
    BY DEF HasRoot
  <2>2. QED  BY <1>1, <2>1, OnAMount
<1>3. IsMount(own)
  BY <1>2 DEF IsMount
<1>4. IsTable(later)
  BY <1>1, <1>2, TableFrom, TableEmpty
<1> HIDE DEF own, later
<1>5. /\ IsTable(f.tab \o <<own>>) /\ Len(f.tab \o <<own>>) = Len(f.tab) + 1
      /\ \A i \in 1..Len(f.tab) : (f.tab \o <<own>>)[i] = f.tab[i]
  BY <1>1, <1>3, TableOfOne, TableConcat
<1>6. IsTable(t) /\ Len(t) = Len(f.tab) + 1 + Len(later) /\ Len(later) \in Nat /\ t[1] = f.tab[1]
  BY <1>1, <1>4, <1>5, TableConcat, TableIs DEF HasRoot
<1> HIDE DEF t
<1>7. /\ g.tab = t /\ g.prop = f.prop /\ g.old = f.old /\ g.layers = f.layers
      /\ g.touched = f.touched /\ g.leaks = f.leaks /\ FsTyped(g)
  BY <1>6 DEF FsTyped, FsShape
<1>8. Keeps(f, g)
  BY <1>1, <1>6, <1>7 DEF Keeps, HasRoot
<1>9. SelfBind(f, p, rec) = Then(f, ~MountOf(f, p).unbindable, g)
  BY DEF SelfBind, own, later, t
<1> HIDE DEF g
<1>10. QED  BY <1>8, <1>9, ThenKeeps

-----------------------------------------------------------------------------
(***************************************************************************)
(* The operations of mounts.rs, devices.rs, harden.rs and console.rs.      *)
(***************************************************************************)
LEMMA MountKeeps ==
    ASSUME NEW f, NEW m, NEW at, NEW fstype, NEW flags, NEW able, FsTyped(f)
    PROVE  Plainly(f, Mount(f, m, at, fstype, flags, able))
<1> DEFINE props == flags \cap {"private", "slave", "shared", "unbindable"}
           ro == "ro" \in flags
           un == "unbindable" \in props
           bound == Fs(IF m.source = "file" THEN "hostfile" ELSE "hostdir", m.source, at)
           new == NewFs(f, fstype, m.source, at)
           i == Top(f, at)
           t == [f.tab EXCEPT ![i].unbindable = un]
           remounted == Then(f, MountPoint(f, at), SetRo(f, at, ro))
           bind1 == Then(f, m.source # "gone", Add(f, bound, at, FALSE))
           changed == Then(f, flags \ props \subseteq {"rec"} /\ MountPoint(f, at), [f EXCEPT !.tab = t])
           mounted == Then(f, fstype \in DOMAIN Governs /\ Governs[fstype] \in able, Add(f, new, at, ro))
<1>1. Plainly(f, remounted)
  <2>1. ro \in BOOLEAN
    OBVIOUS
  <2>2. QED  BY <2>1, SetRoKeeps, ThenKeeps
<1>2. Plainly(f, bind1)
  <2>1. bound.typ # "hostdev"
    BY DEF Fs
  <2> HIDE DEF bound
  <2>2. QED  BY <2>1, AddKeeps, ThenKeeps
<1>3. Plainly(f, changed)
  <2>1. /\ Len(f.tab) \in Nat /\ DOMAIN f.tab = 1..Len(f.tab)
        /\ \A j \in 1..Len(f.tab) : IsMount(f.tab[j])
    BY TableIs DEF FsTyped
  <2>2. DOMAIN t = DOMAIN f.tab /\ t = [j \in DOMAIN f.tab |-> t[j]]
    OBVIOUS
  <2>3. \A j \in DOMAIN f.tab : t[j] \in {f.tab[j], [f.tab[j] EXCEPT !.unbindable = un]}
    OBVIOUS
  <2> HIDE DEF un
  <2>4. \A j \in DOMAIN f.tab : IsMount(t[j]) /\ t[j].at = f.tab[j].at /\ t[j].fs = f.tab[j].fs
    <3> TAKE j \in DOMAIN f.tab
    <3>1. IsMount(f.tab[j])
      BY <2>1
    <3>2. QED  BY <2>3, <3>1 DEF IsMount
  <2> HIDE DEF t
  <2>5. IsTable(t) /\ Len(t) = Len(f.tab)
    BY <2>2, <2>4, TableMapped DEF FsTyped
  <2>6. QED  BY <2>1, <2>4, <2>5, TabKeeps, ThenKeeps
<1>4. Plainly(f, mounted)
  <2>1. CASE fstype \in DOMAIN Governs
    <3>1. new.typ # "hostdev" /\ ro \in BOOLEAN
      BY <2>1 DEF NewFs, Governs
    <3> HIDE DEF new, ro
    <3>2. QED  BY <3>1, AddKeeps, ThenKeeps
  <2>2. CASE fstype \notin DOMAIN Governs
    <3>1. mounted = Fail(f)
      BY <2>2 DEF Then
    <3>2. QED  BY <3>1, FailKeeps
  <2>3. QED  BY <2>1, <2>2
<1>5. Mount(f, m, at, fstype, flags, able) = IF "remount" \in flags THEN remounted
                                             ELSE IF "bind" \in flags THEN bind1
                                             ELSE IF props # {} THEN changed ELSE mounted
  BY DEF Mount, FsTyped
<1> HIDE DEF remounted, bind1, changed, mounted
<1>6. QED  BY <1>1, <1>2, <1>3, <1>4, <1>5
LEMMA ApplyOneKeeps ==
    ASSUME NEW f, NEW m, NEW able, FsTyped(f)
    PROVE  Plainly(f, apply_one(f, m, able))
<1> DEFINE destination == resolve(m.destination)
           fstype == effective_fstype(m.typ)
           flags == parse_options(m.options).flags
           made == Make(f, destination)
           mounted == Mount(made, m, destination, fstype, flags, able)
<1>1. Plainly(f, made) /\ FsTyped(made)
  BY MakeKeeps DEF Plainly, Keeps
<1> HIDE DEF destination, fstype, flags, made
<1>2. Plainly(made, mounted)
  BY <1>1, MountKeeps
<1>3. apply_one(f, m, able) = IF mounted.ok /\ fstype = "devpts" THEN link_ptmx(mounted) ELSE mounted
  BY DEF apply_one, destination, fstype, flags, made
<1> HIDE DEF mounted
<1>4. Plainly(f, mounted) /\ FsTyped(mounted)
  BY <1>1, <1>2, KeepsBoth DEF Plainly, Keeps
<1>5. Plainly(mounted, link_ptmx(mounted))
  BY <1>4, HasKeeps, ThenKeeps DEF link_ptmx
<1>6. QED  BY <1>3, <1>4, <1>5, KeepsBoth

LEMMA BindKeeps ==
    ASSUME NEW f, NEW target, NEW onHost, FsTyped(f)
    PROVE  Keeps(f, bind(f, target, onHost))
<1> DEFINE made == Make(f, target)
           after == Add(made, Fs("hostdev", "file", target), target, FALSE)
<1>1. Keeps(f, made) /\ FsTyped(made)
  BY MakeKeeps DEF Plainly, Keeps
<1>2. Keeps(made, after)
  BY <1>1, AddKeeps
<1>3. bind(f, target, onHost) = Then(made, onHost, after)
  BY DEF bind
<1> HIDE DEF made, after
<1>4. QED  BY <1>1, <1>2, <1>3, ThenKeeps, KeepsBoth

\* The host's node is bound only where nodes cannot be made.
LEMMA NodeKeeps ==
    ASSUME NEW f, NEW target, NEW onHost, NEW user_namespace, FsTyped(f)
    PROVE  /\ Keeps(f, node(f, target, onHost, user_namespace))
           /\ ~user_namespace => Plainly(f, node(f, target, onHost, user_namespace))
<1> DEFINE parent == Make(f, Front(target))
           made == Make(f, target)
           bound == bind(parent, target, onHost)
<1>1. Plainly(f, f) /\ Plainly(f, made) /\ Plainly(f, parent)
  BY KeepsSelf, MakeKeeps
<1>2. FsTyped(parent)
  BY <1>1 DEF Plainly, Keeps
<1> HIDE DEF parent, made
<1>3. Keeps(parent, bound)
  BY <1>2, BindKeeps
<1> HIDE DEF bound
<1>4. Keeps(f, bound)
  BY <1>1, <1>3, KeepsBoth DEF Plainly
<1>5. node(f, target, onHost, user_namespace) \in {f, made, bound}
  BY DEF node, parent, made, bound
<1>6. ~user_namespace => node(f, target, onHost, user_namespace) \in {f, made}
  BY DEF node, made
<1>7. QED  BY <1>1, <1>4, <1>5, <1>6 DEF Plainly

\* The owner of a device is changed on the host only where the host's is bound, by the host's root.
LEMMA ChownKeeps ==
    ASSUME NEW f, NEW target, NEW hostUser, FsTyped(f)
    PROVE  LET g == chown(f, target, hostUser)
           IN  /\ FsTyped(g) /\ g.prop = f.prop /\ g.old = f.old /\ g.leaks = f.leaks /\ g.tab = f.tab
               /\ g.layers = f.layers
               /\ g.touched # f.touched => hostUser /\ ~NoNodes(f)
<1> DEFINE touched == f.touched \cup {"owner of a device"}
           after == [f EXCEPT !.touched = touched]
           at == \E m \in ToSet(f.tab) : m = MountOf(f, target) /\ m.fs.typ = "hostdev"
           failed == Fail(f)
<1>1. chown(f, target, hostUser) = IF at THEN Then(f, hostUser, after) ELSE f
  BY DEF chown
<1>2. at => ~NoNodes(f)
  <2>1. DOMAIN f.tab = 1..Len(f.tab)
    BY TableIs DEF FsTyped
  <2>2. QED  BY <2>1 DEF ToSet, NoNodes
<1> HIDE DEF at, touched
<1>3. /\ FsTyped(after) /\ after.prop = f.prop /\ after.old = f.old /\ after.leaks = f.leaks /\ after.tab = f.tab
      /\ after.layers = f.layers
  BY DEF FsTyped, FsShape
<1> HIDE DEF after
<1>4. /\ FsTyped(failed) /\ failed.prop = f.prop /\ failed.old = f.old /\ failed.leaks = f.leaks
      /\ failed.tab = f.tab /\ failed.touched = f.touched /\ failed.layers = f.layers
  <2> DEFINE g(no) == [f EXCEPT !.ok = no]
  <2>1. ASSUME NEW no
        PROVE  /\ g(no).tab = f.tab /\ g(no).prop = f.prop /\ g(no).old = f.old /\ g(no).layers = f.layers
               /\ g(no).touched = f.touched /\ g(no).leaks = f.leaks /\ FsTyped(g(no))
    BY DEF FsTyped, FsShape
  <2>2. QED  BY <2>1 DEF Fail
<1> HIDE DEF failed
<1>5. Then(f, hostUser, after) \in {after, failed} /\ (Then(f, hostUser, after) # failed => hostUser)
  BY DEF Then, failed
<1>6. QED  BY <1>1, <1>2, <1>3, <1>4, <1>5

LEMMA ExtraDeviceKeeps ==
    ASSUME NEW f, NEW d, NEW user_namespace, NEW hostUser, FsTyped(f)
    PROVE  LET g == extra_device(f, d, user_namespace, hostUser)
           IN  /\ FsTyped(g) /\ g.prop = f.prop /\ g.old = f.old /\ g.layers = f.layers
               /\ Apart(f) => g.leaks = f.leaks
               /\ HasRoot(f) => HasRoot(g)
               /\ ~user_namespace /\ NoNodes(f) => NoNodes(g)
               /\ g.touched # f.touched => d.owned /\ hostUser /\ (user_namespace \/ ~NoNodes(f))
<1> DEFINE target == resolve(d.path)
           there == node(f, target, d.onHost, user_namespace)
           owned == chown(there, target, hostUser)
<1>1. Keeps(f, there) /\ (~user_namespace => Plainly(f, there)) /\ FsTyped(there)
  BY NodeKeeps DEF Keeps
<1>2. extra_device(f, d, user_namespace, hostUser) = IF there.ok /\ d.owned THEN owned ELSE there
  BY DEF extra_device
<1> HIDE DEF target, there
<1>3. /\ FsTyped(owned) /\ owned.prop = there.prop /\ owned.old = there.old /\ owned.layers = there.layers
      /\ owned.leaks = there.leaks /\ owned.tab = there.tab
      /\ owned.touched # there.touched => hostUser /\ ~NoNodes(there)
  BY <1>1, ChownKeeps
<1> HIDE DEF owned
<1>4. /\ HasRoot(there) => HasRoot(owned)
      /\ NoNodes(there) => NoNodes(owned)
  BY <1>3 DEF HasRoot, NoNodes
<1>5. /\ there.prop = f.prop /\ there.old = f.old /\ there.layers = f.layers /\ there.touched = f.touched
      /\ Apart(f) => there.leaks = f.leaks
      /\ HasRoot(f) => HasRoot(there)
      /\ ~user_namespace /\ NoNodes(f) => NoNodes(there)
  BY <1>1 DEF Keeps, Plainly
<1>6. QED  BY <1>1, <1>2, <1>3, <1>4, <1>5
LEMMA MaskKeeps == ASSUME NEW f, NEW p, FsTyped(f) PROVE Keeps(f, mask_one(f, p))
<1> DEFINE null == Add(f, Fs("null", "none", p), p, FALSE)
           mask == Add(f, Fs("mask", "none", p), p, TRUE)
           can == Exists(f, Dev("null")) /\ ~MountOf(f, Dev("null")).unbindable
<1>1. Keeps(f, null) /\ Keeps(f, mask) /\ Keeps(f, f)
  BY AddKeeps, KeepsSelf DEF Plainly
<1>2. mask_one(f, p) \in {f, Then(f, can, null), mask}
  BY DEF mask_one
<1> HIDE DEF null, mask, can
<1>3. QED  BY <1>1, <1>2, ThenKeeps

LEMMA ReadonlyKeeps ==
    ASSUME NEW f, NEW S, NEW p \in Seq(S), FsTyped(f), HasRoot(f)
    PROVE  Keeps(f, readonly_one(f, p))
<1> DEFINE bound == SelfBind(f, p, TRUE)
<1>1. Keeps(f, bound) /\ FsTyped(bound)
  BY SelfBindKeeps DEF Keeps
<1> HIDE DEF bound
<1>2. Keeps(bound, SetRo(bound, p, TRUE))
  BY <1>1, SetRoKeeps DEF Plainly
<1>3. readonly_one(f, p) \in {f, SetRo(bound, p, TRUE)}
  BY DEF readonly_one, bound
<1>4. QED  BY <1>1, <1>2, <1>3, KeepsBoth, KeepsSelf DEF Plainly

LEMMA RemountKeeps == ASSUME NEW f, NEW m, FsTyped(f) PROVE Keeps(f, remount_readonly(f, m))
<1> DEFINE destination == resolve(m.destination)
           can == MountPoint(f, destination)
           after == SetRo(f, destination, TRUE)
<1>1. Keeps(f, after) /\ Keeps(f, f)
  BY SetRoKeeps, KeepsSelf DEF Plainly
<1>2. remount_readonly(f, m) \in {f, Then(f, can, after)}
  BY DEF remount_readonly
<1> HIDE DEF can, after
<1>3. QED  BY <1>1, <1>2, ThenKeeps

LEMMA ConsoleKeeps == ASSUME NEW f, FsTyped(f) PROVE Keeps(f, setup_console(f))
<1> DEFINE made == Make(f, Dev("console"))
           can == ~MountOf(made, <<"dev", "pts">>).unbindable
           after == Add(made, Fs("pty", "none", Dev("console")), Dev("console"), FALSE)
<1>1. Keeps(f, made) /\ FsTyped(made)
  BY MakeKeeps DEF Plainly, Keeps
<1> HIDE DEF made
<1>2. Keeps(made, after)
  BY <1>1, AddKeeps
<1>3. bind_console(f) = Then(made, can, after)
  BY DEF bind_console, made
<1> HIDE DEF can, after
<1>4. Keeps(f, bind_console(f))
  BY <1>1, <1>2, <1>3, ThenKeeps, KeepsBoth
<1>5. QED  BY <1>4, ThenKeeps DEF setup_console

\* A tree with the attributes given.
FsWith(f, prop, old) ==
    FsTyped(f) /\ f.prop = prop /\ f.old = old /\ f.leaks = FALSE /\ f.touched = {}

\* The new root, on the tree of the host.
LEMMA RootedIs ==
    ASSUME NEW f, NEW typ, NEW layers, typ # "hostdev", FsWith(f, "private", TRUE), f.tab = <<>>
    PROVE  LET g == Rooted(f, typ, layers)
           IN  FsWith(g, "private", TRUE) /\ HasRoot(g) /\ NoNodes(g)
<1> DEFINE g == Add(f, Fs(typ, "none", <<>>), <<>>, FALSE)
           has == g.has \cup {[fs |-> Fs(typ, "none", <<>>), path |-> p] : p \in Unpacked}
           h == [g EXCEPT !.has = has, !.layers = layers]
<1>1. NoNodes(f)
  BY EmptySeq DEF FsWith, NoNodes
<1>2. Plainly(f, g) /\ HasRoot(g)
  BY AddKeeps DEF FsWith, Fs
<1>3. Rooted(f, typ, layers) = h
  BY DEF Rooted, Fs
<1> HIDE DEF g, has
<1>4. FsWith(g, "private", TRUE) /\ NoNodes(g)
  BY <1>1, <1>2 DEF FsWith, Plainly, Keeps, Apart
<1>5. /\ h.tab = g.tab /\ h.prop = g.prop /\ h.old = g.old
      /\ h.touched = g.touched /\ h.leaks = g.leaks /\ FsTyped(h)
  <2> DEFINE h1 == [g EXCEPT !.has = has]
             h2 == [h1 EXCEPT !.layers = layers]
  <2>1. FsTyped(g)
    BY <1>4 DEF FsWith
  <2>2. h = h2
    BY <2>1 DEF FsTyped, FsShape
  <2>3. /\ h1.tab = g.tab /\ h1.prop = g.prop /\ h1.old = g.old
        /\ h1.touched = g.touched /\ h1.leaks = g.leaks /\ FsTyped(h1)
    BY <2>1 DEF FsTyped, FsShape
  <2> HIDE DEF h1, h
  <2>4. /\ h2.tab = h1.tab /\ h2.prop = h1.prop /\ h2.old = h1.old
        /\ h2.touched = h1.touched /\ h2.leaks = h1.leaks /\ FsTyped(h2)
    BY <2>3 DEF FsTyped, FsShape
  <2>5. QED  BY <2>2, <2>3, <2>4
<1> HIDE DEF h
<1>6. QED  BY <1>2, <1>3, <1>4, <1>5 DEF FsWith, HasRoot, NoNodes

\* The old root is gone when pivot_root has succeeded; the propagation is a request of the bundle.
LEMMA PivotIs ==
    ASSUME NEW f, NEW requested, FsTyped(f)
    PROVE  LET g == set_propagation(pivot(f), requested)
           IN  /\ FsTyped(g) /\ g.leaks = f.leaks /\ g.touched = f.touched /\ g.layers = f.layers
               /\ g.ok => ~g.old /\ (HasRoot(f) => HasRoot(g))
               /\ g.prop = IF requested = "none" THEN f.prop ELSE requested
<1> DEFINE no == FALSE
           after == [f EXCEPT !.old = no]
           p == pivot(f)
           un == requested = "unbindable"
           t == [i \in DOMAIN p.tab |-> [p.tab[i] EXCEPT !.unbindable = un]]
           g == [p EXCEPT !.prop = requested, !.tab = t]
<1>1. p = Then(f, f.prop # "shared" /\ MountPoint(f, <<>>), after)
  BY DEF pivot
<1>2. Plainly(f, Fail(f))
  BY FailKeeps
<1>3. /\ FsTyped(Fail(f)) /\ Fail(f).leaks = f.leaks /\ Fail(f).touched = f.touched /\ ~Fail(f).ok
      /\ Fail(f).layers = f.layers /\ Fail(f).prop = f.prop
  <2> DEFINE h(x) == [f EXCEPT !.ok = x]
  <2>1. ASSUME NEW x
        PROVE  /\ h(x).touched = f.touched /\ h(x).leaks = f.leaks /\ FsTyped(h(x)) /\ h(x).ok = x
               /\ h(x).layers = f.layers /\ h(x).prop = f.prop
    BY DEF FsTyped, FsShape
  <2>2. QED  BY <2>1 DEF Fail
<1> HIDE DEF no
<1>4. /\ FsTyped(after) /\ after.leaks = f.leaks /\ after.touched = f.touched /\ after.old = no
      /\ after.tab = f.tab /\ after.layers = f.layers /\ after.prop = f.prop
  BY DEF FsTyped, FsShape
<1>5. ~no
  BY DEF no
<1> HIDE DEF after
<1>6. /\ FsTyped(p) /\ p.leaks = f.leaks /\ p.touched = f.touched /\ p.layers = f.layers /\ p.prop = f.prop
      /\ p.ok => ~p.old /\ (HasRoot(f) => HasRoot(p))
  BY <1>1, <1>3, <1>4, <1>5 DEF Then, HasRoot
<1> HIDE DEF p
<1>7. set_propagation(p, requested) = IF requested = "none" THEN p ELSE g
  BY <1>6 DEF set_propagation, FsTyped, FsShape
<1> HIDE DEF un
<1>8. /\ Len(p.tab) \in Nat /\ DOMAIN p.tab = 1..Len(p.tab)
      /\ \A j \in 1..Len(p.tab) : IsMount(p.tab[j])
  BY <1>6, TableIs DEF FsTyped
<1>9. \A j \in DOMAIN p.tab : IsMount(t[j]) /\ t[j].at = p.tab[j].at
  <2> TAKE j \in DOMAIN p.tab
  <2>1. IsMount(p.tab[j]) /\ t[j] = [p.tab[j] EXCEPT !.unbindable = un]
    BY <1>8
  <2>2. QED  BY <2>1 DEF IsMount
<1>10. DOMAIN t = DOMAIN p.tab /\ t = [j \in DOMAIN p.tab |-> t[j]]
  OBVIOUS
<1> HIDE DEF t
<1>11. IsTable(t) /\ Len(t) = Len(p.tab)
  BY <1>6, <1>9, <1>10, TableMapped DEF FsTyped
<1>12. /\ g.tab = t /\ g.old = p.old /\ g.ok = p.ok /\ g.prop = requested /\ g.layers = p.layers
       /\ g.touched = p.touched /\ g.leaks = p.leaks /\ FsTyped(g)
  <2> DEFINE g1 == [p EXCEPT !.prop = requested]
             g2 == [g1 EXCEPT !.tab = t]
  <2>1. g = g2
    BY <1>6 DEF FsTyped, FsShape
  <2>2. /\ g1.tab = p.tab /\ g1.old = p.old /\ g1.ok = p.ok /\ g1.prop = requested /\ g1.layers = p.layers
        /\ g1.touched = p.touched /\ g1.leaks = p.leaks /\ FsTyped(g1)
    BY <1>6 DEF FsTyped, FsShape
  <2> HIDE DEF g1, g
  <2>3. /\ g2.tab = t /\ g2.old = g1.old /\ g2.ok = g1.ok /\ g2.prop = g1.prop /\ g2.layers = g1.layers
        /\ g2.touched = g1.touched /\ g2.leaks = g1.leaks /\ FsTyped(g2)
    BY <1>11, <2>2 DEF FsTyped, FsShape
  <2>4. QED  BY <2>1, <2>2, <2>3
<1> HIDE DEF g
<1>13. HasRoot(p) => HasRoot(g)
  BY <1>8, <1>9, <1>11, <1>12 DEF HasRoot
<1>14. QED  BY <1>6, <1>7, <1>12, <1>13 DEF p
-----------------------------------------------------------------------------
(***************************************************************************)
(* The host, through the steps.                                            *)
(***************************************************************************)
\* What a bundle may change outside of its container.
HostKeys == {key \in b.sysctl : key = "global" \/ key \notin Types(b)}
NodesAsked == layout_join(b) # {} /\ \E d \in ToSet(b.devices) : d.owned

HostKept ==
    /\ b \in Bundles /\ done \in Nat /\ FsTyped(fsys) /\ fsys.leaks = FALSE
    /\ fsys.touched # {} => NodesAsked
    /\ keys \subseteq b.sysctl /\ host \subseteq HostKeys

\* The steps before the container's root, between it and pivot_root, and those after it that
\* change the tree.
Outside == {"load", "plan", "cgroup", "apply", "spawn", "join", "unshare", "map", "attach", "cgroupns", "root"}
Building == {"mounts", "nodes", "links", "devices", "pivot"}
Hardening == {"console", "mask", "readonly", "remounts", "rootfs"}

\* The tree is the host's; then it is private, and binds devices of the host only where none
\* can be made; then the host's is no longer below it.
TreeKept ==
    /\ pc \in Outside => fsys.old = TRUE /\ fsys.touched = {} /\ fsys.tab = <<>>
    /\ pc \in Building => fsys.prop = "private" /\ HasRoot(fsys)
    /\ pc \in Building \ {"pivot"} /\ ~BindsNodes => NoNodes(fsys)
    /\ pc \in Building \cup Hardening \cup {"root"} => OwnMounts(b)
    /\ pc \in Hardening \cup {"identity", "sysctl"} /\ OwnMounts(b) => ~fsys.old /\ HasRoot(fsys)

HInv == NInv /\ HostKept /\ TreeKept

LEMMA InitHInv == Init => HInv
<1> SUFFICES ASSUME Init PROVE HInv
  OBVIOUS
<1>1. NInv
  BY InitNInv
<1>2. FsTyped(HostTree)
  BY TableEmpty DEF FsTyped, FsShape, HostTree
<1>3. HostKept
  BY <1>2 DEF Init, HostKept, HostTree
<1>4. TreeKept
  BY DEF Init, TreeKept, HostTree, Building, Hardening
<1>5. QED  BY <1>1, <1>3, <1>4 DEF HInv

\* Steps that do not concern the tree, and go on to others that do not.
LEMMA NothingDone ==
    ASSUME HostKept, TreeKept, UNCHANGED <<b, done, fsys, host, keys>>,
           \/ pc \in Outside /\ pc' \in Outside \ {"root"}
           \/ pc' \notin Outside \cup Building \cup Hardening \cup {"identity", "sysctl"}
    PROVE  HostKept' /\ TreeKept'
<1>1. HostKept'
  BY DEF HostKept, HostKeys, NodesAsked
<1>2. TreeKept'
  BY DEF TreeKept, Outside, Building, Hardening
<1>3. QED  BY <1>1, <1>2

LEMMA OutsideHStep ==
    ASSUME HInv, \/ LoadBundle \/ Plan \/ CreateCgroup \/ ApplyResources \/ Spawn
                 \/ JoinExisting \/ MapIds \/ Attach
    PROVE  HostKept' /\ TreeKept'
<1> USE DEF Go, Outside, Building, Hardening, HInv
<1>1. CASE LoadBundle \/ Plan \/ CreateCgroup \/ ApplyResources \/ Spawn
  BY <1>1, NothingDone DEF LoadBundle, Plan, CreateCgroup, ApplyResources, Spawn
<1>2. CASE JoinExisting
  BY <1>2, NothingDone DEF JoinExisting
<1>3. CASE MapIds \/ Attach
  BY <1>3, NothingDone DEF MapIds, Attach
<1>4. QED  BY <1>1, <1>2, <1>3

\* In a mount namespace of another user namespace the mounts are no longer the host's.
LEMMA UnshareHStep == ASSUME HInv, Unshare PROVE HostKept' /\ TreeKept'
<1> DEFINE g == [fsys EXCEPT !.prop = "slave"]
<1>1. /\ pc = "unshare" /\ pc' \in {"unshare", "map", "attach"} /\ fsys' \in {fsys, g}
      /\ UNCHANGED <<b, done, host, keys>>
  BY DEF Unshare
<1>2. FsTyped(fsys) /\ fsys.leaks = FALSE /\ fsys.touched = {} /\ fsys.old = TRUE /\ fsys.tab = <<>>
  BY <1>1 DEF HInv, HostKept, TreeKept, Outside
<1>3. /\ FsTyped(g) /\ g.leaks = fsys.leaks /\ g.touched = fsys.touched /\ g.old = fsys.old
      /\ g.tab = fsys.tab
  BY <1>2 DEF FsTyped, FsShape
<1> HIDE DEF g
<1>4. HostKept'
  BY <1>1, <1>2, <1>3 DEF HInv, HostKept, HostKeys, NodesAsked
<1>5. TreeKept'
  BY <1>1, <1>2, <1>3 DEF HInv, TreeKept, Outside, Building, Hardening
<1>6. QED  BY <1>4, <1>5

LEMMA CgroupHStep == ASSUME HInv, UnshareCgroup PROVE HostKept' /\ TreeKept'
<1>1. /\ pc = "cgroupns" /\ pc' = IF OwnMounts(b) THEN "root" ELSE "identity"
      /\ UNCHANGED <<b, done, fsys, host, keys>>
  BY DEF UnshareCgroup
<1>2. HostKept'
  BY <1>1 DEF HInv, HostKept, HostKeys, NodesAsked
<1>3. TreeKept'
  BY <1>1 DEF HInv, TreeKept, Outside, Building, Hardening
<1>4. QED  BY <1>2, <1>3

LEMMA MountRootHStep == ASSUME HInv, MountRoot PROVE HostKept' /\ TreeKept'
<1> DEFINE private == make_root_private(fsys)
           layers == mount_at(Layers(b)).mounted
           can == mount_at(Layers(b)).ok
           overlay == Rooted(private, "overlay", layers)
           base == Rooted(private, "base", <<>>)
           mounted == IF Layered(b) THEN Then(private, can, overlay) ELSE base
<1>1. /\ pc = "root" /\ UNCHANGED <<b, done, host, keys>>
      /\ fsys' = Then(mounted, "mount" \in Able, mounted) /\ Go(fsys'.ok, "mounts")
  BY DEF MountRoot, make_mount_point
<1>2. FsTyped(fsys) /\ fsys.leaks = FALSE /\ fsys.touched = {} /\ fsys.old = TRUE /\ fsys.tab = <<>> /\ OwnMounts(b)
  BY <1>1 DEF HInv, HostKept, TreeKept, Outside
<1>3. FsWith(private, "private", TRUE) /\ private.tab = <<>>
  BY <1>2 DEF make_root_private, FsWith, FsTyped, FsShape
<1> HIDE DEF private, layers, can
<1> DEFINE Good(g) == FsWith(g, "private", TRUE) /\ (g.ok => HasRoot(g) /\ NoNodes(g))
<1>4. Good(overlay) /\ Good(base)
  BY <1>3, RootedIs
<1> HIDE DEF overlay, base
<1>5. ASSUME NEW f, FsWith(f, "private", TRUE) PROVE FsWith(Fail(f), "private", TRUE) /\ ~Fail(f).ok
  <2> DEFINE h(x) == [f EXCEPT !.ok = x]
  <2>1. ASSUME NEW x
        PROVE  /\ h(x).touched = f.touched /\ h(x).leaks = f.leaks /\ h(x).prop = f.prop
               /\ h(x).old = f.old /\ FsTyped(h(x)) /\ h(x).ok = x
    BY <1>5 DEF FsWith, FsTyped, FsShape
  <2>2. QED  BY <1>5, <2>1 DEF Fail, FsWith
<1>6. Good(mounted)
  BY <1>3, <1>4, <1>5 DEF Then
<1> HIDE DEF mounted
<1>7. Good(fsys')
  BY <1>1, <1>5, <1>6 DEF Then
<1>8. HostKept'
  BY <1>1, <1>7 DEF HInv, HostKept, FsWith, HostKeys, NodesAsked
<1>9. TreeKept'
  BY <1>1, <1>2, <1>7 DEF TreeKept, FsWith, Go, Outside, Building, Hardening
<1>10. QED  BY <1>8, <1>9
\* An entry of a list, or the end of the list.
LEMMA EachIs ==
    ASSUME NEW at, NEW list, NEW after, NEW next, Each(at, list, after, next), done \in Nat
    PROVE  /\ pc = at /\ done' \in Nat /\ UNCHANGED <<b, ns, cg, host, keys>>
           /\ \/ done < Len(list) /\ fsys' = after /\ pc' \in {at, "failed"}
              \/ fsys' = fsys /\ pc' = next
  BY DEF Each, Go

\* A step that builds the tree, where no device is asked for.
LEMMA Builds ==
    ASSUME HInv, pc \in {"mounts", "nodes", "links"},
           Keeps(fsys, fsys'), ~BindsNodes => Plainly(fsys, fsys'),
           UNCHANGED <<b, host, keys>>, done' \in Nat,
           pc' \in {"mounts", "nodes", "links", "devices", "failed"}
    PROVE  HostKept' /\ TreeKept'
<1>1. fsys.prop = "private" /\ HasRoot(fsys) /\ OwnMounts(b) /\ (~BindsNodes => NoNodes(fsys))
  BY DEF HInv, TreeKept, Building
<1>2. FsTyped(fsys') /\ fsys'.leaks = FALSE /\ fsys'.touched = fsys.touched /\ fsys'.prop = "private" /\ HasRoot(fsys')
  BY <1>1 DEF HInv, HostKept, Keeps, Apart
<1>3. BindsNodes' = BindsNodes
  BY DEF BindsNodes
<1>4. HostKept'
  BY <1>2 DEF HInv, HostKept, HostKeys, NodesAsked
<1>5. TreeKept'
  BY <1>1, <1>2, <1>3 DEF TreeKept, Plainly, Outside, Building, Hardening
<1>6. QED  BY <1>4, <1>5

LEMMA BuildHStep == ASSUME HInv, ApplyMounts \/ CreateNodes \/ CreateLinks PROVE HostKept' /\ TreeKept'
<1>1. FsTyped(fsys) /\ done \in Nat /\ Plainly(fsys, fsys)
  BY KeepsSelf DEF HInv, HostKept
<1>2. CASE ApplyMounts
  <2> DEFINE after == apply_one(fsys, b.mounts[done + 1], Able)
  <2>1. Plainly(fsys, after)
    BY <1>1, ApplyOneKeeps
  <2>2. Each("mounts", b.mounts, after, "nodes")
    BY <1>2 DEF ApplyMounts
  <2> HIDE DEF after
  <2>3. QED  BY <1>1, <2>1, <2>2, EachIs, Builds DEF Plainly
<1>3. CASE CreateNodes
  <2> DEFINE after == node(fsys, Dev(DEFAULT_DEVICES[done + 1]), TRUE, BindsNodes)
  <2>1. Keeps(fsys, after) /\ (~BindsNodes => Plainly(fsys, after))
    BY <1>1, NodeKeeps
  <2>2. Each("nodes", DEFAULT_DEVICES, after, "links")
    BY <1>3 DEF CreateNodes
  <2> HIDE DEF after
  <2>3. QED  BY <1>1, <2>1, <2>2, EachIs, Builds DEF Plainly
<1>4. CASE CreateLinks
  <2> DEFINE after == Make(fsys, Dev(SYMLINKS[done + 1]))
  <2>1. Plainly(fsys, after)
    BY <1>1, MakeKeeps
  <2>2. Each("links", SYMLINKS, after, "devices")
    BY <1>4 DEF CreateLinks
  <2> HIDE DEF after
  <2>3. QED  BY <1>1, <2>1, <2>2, EachIs, Builds DEF Plainly
<1>5. QED  BY <1>2, <1>3, <1>4

\* The host's root that takes a device of the host as its own has joined a namespace: it is in no
\* user namespace of the container's, and nothing else makes it bind the host's devices.
LEMMA DevicesHStep == ASSUME HInv, CreateDevices PROVE HostKept' /\ TreeKept'
<1> DEFINE after == extra_device(fsys, b.devices[done + 1], BindsNodes, HostUser)
<1>1. FsTyped(fsys) /\ done \in Nat /\ fsys.leaks = FALSE
  BY DEF HInv, HostKept
<1>2. Each("devices", b.devices, after, "pivot")
  BY DEF CreateDevices
<1>3. /\ FsTyped(after) /\ after.prop = fsys.prop /\ after.old = fsys.old
      /\ Apart(fsys) => after.leaks = fsys.leaks
      /\ HasRoot(fsys) => HasRoot(after)
      /\ ~BindsNodes /\ NoNodes(fsys) => NoNodes(after)
      /\ after.touched # fsys.touched => b.devices[done + 1].owned /\ HostUser /\ (BindsNodes \/ ~NoNodes(fsys))
  BY <1>1, ExtraDeviceKeeps
<1> HIDE DEF after
<1>4. /\ pc = "devices" /\ done' \in Nat /\ UNCHANGED <<b, host, keys>>
      /\ \/ done < Len(b.devices) /\ fsys' = after /\ pc' \in {"devices", "failed"}
         \/ fsys' = fsys /\ pc' = "pivot"
  BY <1>1, <1>2, EachIs
<1>5. /\ fsys.prop = "private" /\ HasRoot(fsys) /\ OwnMounts(b) /\ (~BindsNodes => NoNodes(fsys))
      /\ spec(b) /\ Settled /\ b \in Bundles
  BY <1>4 DEF HInv, NInv, HostKept, TreeKept, Building, Inside
<1>6. HostUser => "user" \notin unshare_flags(b)
  <2>1. "user" \in layout_create(b) <=> PathOf(b, "user") = ""
    BY <1>5, KindsAre DEF spec, Kind
  <2>2. HostUser => PathOf(b, "user") = "absent"
    BY <1>5 DEF HostUser, Settled, Kind
  <2>3. QED  BY <2>1, <2>2 DEF unshare_flags, without
<1>7. done < Len(b.devices) => b.devices[done + 1] \in ToSet(b.devices)
  <2>1. Len(b.devices) \in Nat /\ DOMAIN b.devices = 1..Len(b.devices)
    BY <1>5, BundlesAssumption, LenProperties
  <2>2. QED  BY <1>1, <2>1 DEF ToSet
<1>8. fsys'.touched # fsys.touched => NodesAsked
  BY <1>3, <1>4, <1>5, <1>6, <1>7 DEF BindsNodes, NodesAsked
<1>9. FsTyped(fsys') /\ fsys'.leaks = FALSE /\ fsys'.prop = "private" /\ HasRoot(fsys')
  BY <1>1, <1>3, <1>4, <1>5 DEF Apart
<1>10. HostKept'
  BY <1>4, <1>8, <1>9 DEF HInv, HostKept, HostKeys, NodesAsked
<1>11. BindsNodes' = BindsNodes
  BY <1>4 DEF BindsNodes
<1>12. TreeKept'
  BY <1>3, <1>4, <1>5, <1>9, <1>11 DEF TreeKept, Outside, Building, Hardening
<1>13. QED  BY <1>10, <1>12

LEMMA PivotHStep == ASSUME HInv, PivotRoot PROVE HostKept' /\ TreeKept'
<1>1. /\ pc = "pivot" /\ fsys' = set_propagation(pivot(fsys), b.propagation)
      /\ UNCHANGED <<b, done, host, keys>>
      /\ pc' = IF fsys'.ok THEN (IF b.console # "none" THEN "console" ELSE "identity") ELSE "failed"
  BY DEF PivotRoot, Go
<1>2. FsTyped(fsys) /\ HasRoot(fsys) /\ OwnMounts(b)
  BY <1>1 DEF HInv, HostKept, TreeKept, Building
<1>3. /\ FsTyped(fsys') /\ fsys'.leaks = fsys.leaks /\ fsys'.touched = fsys.touched
      /\ fsys'.ok => ~fsys'.old /\ HasRoot(fsys')
  BY <1>1, <1>2, PivotIs
<1>4. HostKept'
  BY <1>1, <1>3 DEF HInv, HostKept, HostKeys, NodesAsked
<1>5. TreeKept'
  BY <1>1, <1>2, <1>3 DEF TreeKept, Outside, Building, Hardening
<1>6. QED  BY <1>4, <1>5

\* After pivot_root no mount can reach the host.
LEMMA Hardens ==
    ASSUME HInv, pc \in Hardening, Keeps(fsys, fsys'), UNCHANGED <<b, host, keys>>, done' \in Nat,
           pc' \in {"identity", "mask", "readonly", "remounts", "rootfs", "limits", "failed"}
    PROVE  HostKept' /\ TreeKept'
<1>1. HasRoot(fsys) /\ OwnMounts(b) /\ ~fsys.old
  BY DEF HInv, TreeKept
<1>2. FsTyped(fsys') /\ fsys'.leaks = FALSE /\ fsys'.touched = fsys.touched /\ fsys'.old = fsys.old /\ HasRoot(fsys')
  BY <1>1 DEF HInv, HostKept, Keeps, Apart
<1>3. HostKept'
  BY <1>2 DEF HInv, HostKept, HostKeys, NodesAsked
<1>4. TreeKept'
  BY <1>1, <1>2 DEF TreeKept, Outside, Building, Hardening
<1>5. QED  BY <1>3, <1>4

LEMMA HardenHStep ==
    ASSUME HInv, SetupConsole \/ MaskPaths \/ ReadonlyPaths \/ RemountReadonly \/ ReadonlyRootfs
    PROVE  HostKept' /\ TreeKept'
<1>1. FsTyped(fsys) /\ done \in Nat /\ Keeps(fsys, fsys) /\ b \in Bundles
  BY KeepsSelf DEF HInv, HostKept, Plainly
<1>2. CASE SetupConsole
  <2>1. Keeps(fsys, fsys')
    BY <1>1, <1>2, ConsoleKeeps DEF SetupConsole
  <2>2. QED  BY <1>1, <1>2, <2>1, Hardens DEF SetupConsole, Go, Hardening
<1>3. CASE MaskPaths
  <2> DEFINE after == mask_one(fsys, b.masked[done + 1])
  <2>1. Keeps(fsys, after)
    BY <1>1, MaskKeeps
  <2>2. Each("mask", b.masked, after, "readonly")
    BY <1>3 DEF MaskPaths
  <2> HIDE DEF after
  <2>3. QED  BY <1>1, <2>1, <2>2, EachIs, Hardens DEF Hardening
<1>4. CASE ReadonlyPaths
  <2> DEFINE p == b.readonlyPaths[done + 1]
             after == readonly_one(fsys, p)
  <2>1. Each("readonly", b.readonlyPaths, after, "remounts")
    BY <1>4 DEF ReadonlyPaths
  <2>2. HasRoot(fsys)
    <3>1. pc = "readonly"
      BY <1>1, <2>1, EachIs
    <3>2. QED  BY <3>1 DEF HInv, TreeKept, Hardening, Building
  <2>3. done < Len(b.readonlyPaths) => Keeps(fsys, after)
    <3>1. b.readonlyPaths \in Seq(Paths) /\ Len(b.readonlyPaths) \in Nat
      BY <1>1, BundlesAssumption, LenProperties
    <3>2. done < Len(b.readonlyPaths) => p \in Paths
      BY <1>1, <3>1, ElementOfSeq
    <3> HIDE DEF p
    <3>3. QED  BY <1>1, <2>2, <3>2, ReadonlyKeeps DEF Paths
  <2> HIDE DEF after
  <2>4. QED  BY <1>1, <2>1, <2>3, EachIs, Hardens DEF Hardening
<1>5. CASE RemountReadonly
  <2> DEFINE after == remount_readonly(fsys, b.mounts[done + 1])
  <2>1. Keeps(fsys, after)
    BY <1>1, RemountKeeps
  <2>2. Each("remounts", b.mounts, after, "rootfs")
    BY <1>5 DEF RemountReadonly
  <2> HIDE DEF after
  <2>3. QED  BY <1>1, <2>1, <2>2, EachIs, Hardens DEF Hardening
<1>6. CASE ReadonlyRootfs
  <2>1. Keeps(fsys, fsys')
    BY <1>1, <1>6, SetRoKeeps DEF ReadonlyRootfs, readonly_rootfs, Plainly
  <2>2. QED  BY <1>1, <1>6, <2>1, Hardens DEF ReadonlyRootfs, Hardening
<1>7. QED  BY <1>2, <1>3, <1>4, <1>5, <1>6
\* A name is set only in a UTS namespace that the bundle lists (validate::spec).
LEMMA IdentityHStep == ASSUME HInv, SetIdentity PROVE HostKept' /\ TreeKept'
<1>1. /\ pc = "identity" /\ pc' \in {"sysctl", "failed"} /\ UNCHANGED <<b, done, fsys, keys>>
      /\ spec(b) /\ Settled /\ b \in Bundles
  BY DEF SetIdentity, Go, HInv, NInv, Inside
<1>2. host' = host
  <2>1. CASE b.hostname \/ b.domainname
    <3>1. "uts" \in Types(b) /\ namespace_types(b)
      BY <1>1, <2>1 DEF spec
    <3>2. ns.how["uts"] # "host"
      BY <1>1, <3>1, KindsAre DEF Settled, Kind
    <3>3. QED  BY <2>1, <3>2 DEF SetIdentity
  <2>2. CASE ~(b.hostname \/ b.domainname)
    BY <2>2 DEF SetIdentity
  <2>3. QED  BY <2>1, <2>2
<1>3. HostKept'
  BY <1>1, <1>2 DEF HInv, HostKept, HostKeys, NodesAsked
<1>4. TreeKept'
  BY <1>1 DEF HInv, TreeKept, Outside, Building, Hardening
<1>5. QED  BY <1>3, <1>4

\* A key of a namespace that the bundle lists is written in that one.
LEMMA SysctlHStep == ASSUME HInv, ApplySysctl PROVE HostKept' /\ TreeKept'
<1>1. /\ pc = "sysctl" /\ UNCHANGED <<b, done, fsys>> /\ spec(b) /\ Settled /\ b \in Bundles
      /\ pc' \in {"sysctl", "failed", "limits"} \cup (IF OwnMounts(b) THEN {"mask"} ELSE {})
  BY DEF ApplySysctl, HInv, NInv, Inside
<1>2. keys' \subseteq b.sysctl /\ host' \subseteq HostKeys
  <2>1. CASE keys' = keys /\ host' = host
    BY <2>1 DEF HInv, HostKept
  <2>2. ASSUME NEW key \in keys, keys' = keys \ {key},
               host' \in {host, host \cup {key}},
               host' # host => key = "global" \/ (key \in Able /\ ns.how[key] = "host")
        PROVE  keys' \subseteq b.sysctl /\ host' \subseteq HostKeys
    <3>1. key \in b.sysctl
      BY DEF HInv, HostKept
    <3>2. CASE key = "global"
      BY <2>2, <3>1, <3>2 DEF HInv, HostKept, HostKeys
    <3>3. CASE key \in Kind /\ ns.how[key] = "host"
      <4>1. key \notin Types(b)
        BY <1>1, <3>3, KindsAre DEF Settled, spec
      <4>2. QED  BY <2>2, <3>1, <4>1 DEF HInv, HostKept, HostKeys
    <3>4. CASE host' = host
      BY <2>2, <3>4 DEF HInv, HostKept
    <3>5. QED  BY <2>2, <3>2, <3>3, <3>4 DEF Able
  <2>3. CASE \E key \in keys :
                /\ keys' = keys \ {key}
                /\ IF sysctl_resolve_ok(key) /\ SysctlWritable(key)
                   THEN host' = IF key = "global" \/ ns.how[key] = "host" THEN host \cup {key} ELSE host
                   ELSE UNCHANGED host
    <3>1. PICK key \in keys :
                /\ keys' = keys \ {key}
                /\ IF sysctl_resolve_ok(key) /\ SysctlWritable(key)
                   THEN host' = IF key = "global" \/ ns.how[key] = "host" THEN host \cup {key} ELSE host
                   ELSE UNCHANGED host
      BY <2>3
    <3>2. SysctlWritable(key) => key = "global" \/ key \in Able
      BY DEF SysctlWritable
    <3>3. QED  BY <2>2, <3>1, <3>2
  <2>4. QED  BY <2>1, <2>3 DEF ApplySysctl
<1>3. HostKept'
  BY <1>1, <1>2 DEF HInv, HostKept, HostKeys, NodesAsked
<1>4. TreeKept'
  BY <1>1 DEF HInv, TreeKept, Outside, Building, Hardening
<1>5. QED  BY <1>3, <1>4

LEMMA ProcessHStep ==
    ASSUME HInv,
           \/ ApplyLimits \/ FilterEarly \/ DropBounding \/ DropPrivileges \/ ApplyCapabilities
           \/ NoNewPrivs \/ FilterLate \/ Ready \/ Park \/ Exec \/ Starved \/ Overflow
    PROVE  HostKept' /\ TreeKept'
<1> USE DEF Go, Outside, Building, Hardening, HInv
<1>1. CASE ApplyLimits
  BY <1>1, NothingDone DEF ApplyLimits
<1>2. CASE FilterEarly \/ DropBounding \/ DropPrivileges
  BY <1>2, NothingDone DEF FilterEarly, DropBounding, DropPrivileges, Privilege
<1>3. CASE ApplyCapabilities \/ NoNewPrivs \/ FilterLate
  BY <1>3, NothingDone DEF ApplyCapabilities, NoNewPrivs, FilterLate, Privilege
<1>4. CASE Ready \/ Park \/ Exec \/ Starved \/ Overflow
  BY <1>4, NothingDone DEF Ready, Park, Exec, Starved, Overflow, Privilege
<1>5. QED  BY <1>1, <1>2, <1>3, <1>4

LEMMA NextHInv == HInv /\ [Next]_vars => HInv'
<1> SUFFICES ASSUME HInv, [Next]_vars PROVE HInv'
  OBVIOUS
<1>1. NInv'
  BY NextNInv DEF HInv
<1>2. CASE UNCHANGED vars
  <2>1. HostKept'
    BY <1>2 DEF vars, HInv, HostKept, HostKeys, NodesAsked
  <2>2. TreeKept'
    BY <1>2 DEF vars, HInv, TreeKept, BindsNodes
  <2>3. QED  BY <1>1, <2>1, <2>2 DEF HInv
<1>3. CASE Next
  <2>1. HostKept' /\ TreeKept'
    BY <1>3, OutsideHStep, UnshareHStep, CgroupHStep, MountRootHStep, BuildHStep, DevicesHStep, PivotHStep,
       HardenHStep, IdentityHStep, SysctlHStep, ProcessHStep DEF Next
  <2>2. QED  BY <1>1, <2>1 DEF HInv
<1>4. QED  BY <1>2, <1>3

\* Whether set-up succeeds or fails, and at whichever step, no mount of the container is seen by
\* the host, its names stay, a sysctl outside of the container's namespaces is one the bundle
\* asked for without the namespace, and a device of the host gets a new owner only where the
\* bundle asked for that and joined a namespace (validate::spec, make_root_private, pivot,
\* sysctl::apply, devices::create).
THEOREM HostIsUntouched == Spec => []HostUntouched
<1>1. HInv => HostUntouched
  BY DEF HInv, HostKept, HostUntouched, HostKeys, NodesAsked
<1>2. QED  BY <1>1, InitHInv, NextHInv, PTL DEF Spec
-----------------------------------------------------------------------------
(***************************************************************************)
(* The type of the credentials, which every call keeps, also one that      *)
(* fails half-way through a function.                                      *)
(***************************************************************************)
IsCred(k, uids, gids) ==
    /\ Shape(k) /\ k.uid \in uids /\ k.gid \in gids
    /\ k.eff \subseteq k.perm /\ k.perm \subseteq Caps /\ k.inh \subseteq Caps
    /\ k.amb \subseteq k.perm \cap k.inh /\ k.bnd \subseteq Caps

\* What is not one of the ids or sets.
LEMMA OtherFields ==
    ASSUME NEW k, NEW uids, NEW gids, IsCred(k, uids, gids), NEW x
    PROVE  /\ IsCred([k EXCEPT !.groups = x], uids, gids) /\ IsCred([k EXCEPT !.keepcaps = x], uids, gids)
           /\ IsCred([k EXCEPT !.nnp = x], uids, gids) /\ IsCred([k EXCEPT !.filter = x], uids, gids)
           /\ IsCred([k EXCEPT !.ok = x], uids, gids)
<1>1. Shape(k)
  BY DEF IsCred
<1>2. IsCred([k EXCEPT !.groups = x], uids, gids)
  BY <1>1 DEF IsCred, Shape
<1>3. IsCred([k EXCEPT !.keepcaps = x], uids, gids)
  BY <1>1 DEF IsCred, Shape
<1>4. IsCred([k EXCEPT !.nnp = x], uids, gids)
  BY <1>1 DEF IsCred, Shape
<1>5. IsCred([k EXCEPT !.filter = x], uids, gids)
  BY <1>1 DEF IsCred, Shape
<1>6. IsCred([k EXCEPT !.ok = x], uids, gids)
  BY <1>1 DEF IsCred, Shape
<1>7. QED  BY <1>2, <1>3, <1>4, <1>5, <1>6

LEMMA CallTyped ==
    ASSUME NEW k, NEW uids, NEW gids, IsCred(k, uids, gids), NEW call, NEW can, NEW after,
           can => IsCred(after, uids, gids)
    PROVE  IsCred(Call(k, call, can, after), uids, gids)
<1> DEFINE failed == [k EXCEPT !.ok = FALSE]
<1>1. IsCred(failed, uids, gids)
  <2>1. ASSUME NEW x PROVE IsCred([k EXCEPT !.ok = x], uids, gids)
    BY OtherFields
  <2>2. QED  BY <2>1
<1>2. Call(k, call, can, after) = failed \/ (can /\ Call(k, call, can, after) = after)
  BY DEF Call
<1> HIDE DEF failed
<1>3. QED  BY <1>1, <1>2

\* New ids and sets.
LEMMA SetsTyped ==
    ASSUME NEW k, NEW uids, NEW gids, IsCred(k, uids, gids),
           NEW uid \in uids, NEW gid \in gids, NEW eff, NEW perm, NEW inh, NEW amb, NEW bnd,
           eff \subseteq perm, perm \subseteq Caps, inh \subseteq Caps, amb \subseteq perm \cap inh, bnd \subseteq Caps
    PROVE  IsCred(Record(uid, gid, k.groups, eff, perm, inh, amb, bnd, k.keepcaps, k.nnp, k.filter, k.ok), uids, gids)
  BY DEF IsCred, Shape, Record

\* What capset and setuid change.
WithSets(k, eff, perm, inh, amb) == [k EXCEPT !.eff = eff, !.perm = perm, !.inh = inh, !.amb = amb]
WithUid(k, uid, eff, perm, amb) == [k EXCEPT !.uid = uid, !.perm = perm, !.eff = eff, !.amb = amb]

LEMMA SetsChanged ==
    ASSUME NEW k, Shape(k), NEW eff, NEW perm, NEW inh, NEW amb, NEW uid
    PROVE  /\ WithSets(k, eff, perm, inh, amb)
                = Record(k.uid, k.gid, k.groups, eff, perm, inh, amb, k.bnd, k.keepcaps, k.nnp, k.filter, k.ok)
           /\ WithUid(k, uid, eff, perm, amb)
                = Record(uid, k.gid, k.groups, eff, perm, k.inh, amb, k.bnd, k.keepcaps, k.nnp, k.filter, k.ok)
<1> DEFINE k1 == [k EXCEPT !.eff = eff]
           k2 == [k1 EXCEPT !.perm = perm]
           k3 == [k2 EXCEPT !.amb = amb]
           k4 == [k3 EXCEPT !.inh = inh]
           k5 == [k3 EXCEPT !.uid = uid]
<1>1. k = Record(k.uid, k.gid, k.groups, k.eff, k.perm, k.inh, k.amb, k.bnd, k.keepcaps, k.nnp, k.filter, k.ok)
  BY DEF Shape, Record
<1>2. WithSets(k, eff, perm, inh, amb) = k4
  BY DEF Shape, WithSets
<1>3. WithUid(k, uid, eff, perm, amb) = k5
  BY DEF Shape, WithUid
<1> HIDE DEF k1
<1>4. k1 = Record(k.uid, k.gid, k.groups, eff, k.perm, k.inh, k.amb, k.bnd, k.keepcaps, k.nnp, k.filter, k.ok)
  BY <1>1 DEF Record, k1
<1> HIDE DEF k2
<1>5. k2 = Record(k.uid, k.gid, k.groups, eff, perm, k.inh, k.amb, k.bnd, k.keepcaps, k.nnp, k.filter, k.ok)
  BY <1>4 DEF Record, k2
<1> HIDE DEF k3
<1>6. k3 = Record(k.uid, k.gid, k.groups, eff, perm, k.inh, amb, k.bnd, k.keepcaps, k.nnp, k.filter, k.ok)
  BY <1>5 DEF Record, k3
<1>7. k4 = Record(k.uid, k.gid, k.groups, eff, perm, inh, amb, k.bnd, k.keepcaps, k.nnp, k.filter, k.ok)
  BY <1>6 DEF Record
<1>8. k5 = Record(uid, k.gid, k.groups, eff, perm, k.inh, amb, k.bnd, k.keepcaps, k.nnp, k.filter, k.ok)
  BY <1>6 DEF Record
<1> HIDE DEF k4, k5
<1>9. QED  BY <1>2, <1>3, <1>7, <1>8

LEMMA IdsTyped ==
    ASSUME NEW k, NEW uids, NEW gids, IsCred(k, uids, gids), NEW uid \in uids, NEW gid \in gids
    PROVE  IsCred(Setgid(k, gid), uids, gids) /\ IsCred(Setuid(k, uid), uids, gids)
<1> DEFINE leaves == k.uid = 0 /\ uid # 0
           enters == k.uid # 0 /\ uid = 0
           perm == IF leaves /\ ~k.keepcaps THEN {} ELSE k.perm
           eff == IF leaves THEN {} ELSE IF enters THEN k.perm ELSE k.eff
           amb == IF leaves THEN {} ELSE k.amb
           after == WithUid(k, uid, eff, perm, amb)
           can == "SETID" \in k.eff \/ uid = k.uid
           changed == [k EXCEPT !.gid = gid]
           may == "SETID" \in k.eff \/ gid = k.gid
<1>1. IsCred(changed, uids, gids)
  BY DEF IsCred, Shape
<1>2. eff \subseteq perm /\ perm \subseteq Caps /\ amb \subseteq perm \cap k.inh
  BY DEF IsCred
<1>3. Setuid(k, uid) = Call(k, "setuid", can, after)
  BY DEF Setuid, WithUid, IsCred, Shape
<1>4. Setgid(k, gid) = Call(k, "setgid", may, changed)
  BY DEF Setgid
<1> HIDE DEF eff, perm, amb, can, may
<1>5. after = Record(uid, k.gid, k.groups, eff, perm, k.inh, amb, k.bnd, k.keepcaps, k.nnp, k.filter, k.ok)
  BY SetsChanged DEF IsCred
<1> HIDE DEF after, changed
<1>6. IsCred(after, uids, gids)
  <2>1. k.gid \in gids /\ k.inh \subseteq Caps /\ k.bnd \subseteq Caps
    BY DEF IsCred
  <2>2. QED  BY <1>2, <1>5, <2>1, SetsTyped
<1>7. QED  BY <1>1, <1>3, <1>4, <1>6, CallTyped

LEMMA CapsetTyped ==
    ASSUME NEW k, NEW uids, NEW gids, IsCred(k, uids, gids), NEW eff, NEW perm, NEW inh
    PROVE  IsCred(Capset(k, eff, perm, inh), uids, gids)
<1> DEFINE can == /\ perm \subseteq k.perm /\ eff \subseteq perm
                  /\ inh \subseteq k.inh \cup k.bnd
                  /\ "SETPCAP" \notin k.eff => inh \subseteq k.inh \cup k.perm
           amb == k.amb \cap perm \cap inh
           after == WithSets(k, eff, perm, inh, amb)
           got == Call(k, "capget", TRUE, k)
<1>1. Capset(k, eff, perm, inh) = Call(got, "capset", can, after)
  BY DEF Capset, WithSets, IsCred, Shape
<1>2. can => eff \subseteq perm /\ perm \subseteq Caps /\ inh \subseteq Caps /\ amb \subseteq perm \cap inh
  BY DEF IsCred
<1> HIDE DEF amb, can
<1>3. after = Record(k.uid, k.gid, k.groups, eff, perm, inh, amb, k.bnd, k.keepcaps, k.nnp, k.filter, k.ok)
  BY SetsChanged DEF IsCred
<1> HIDE DEF after
<1>4. can => IsCred(after, uids, gids)
  <2>1. k.uid \in uids /\ k.gid \in gids /\ k.bnd \subseteq Caps
    BY DEF IsCred
  <2>2. QED  BY <1>2, <1>3, <2>1, SetsTyped
<1>5. IsCred(got, uids, gids)
  BY CallTyped
<1> HIDE DEF got
<1>6. QED  BY <1>1, <1>4, <1>5, CallTyped

LEMMA FreshTyped ==
    ASSUME NEW k \in Fresh, NEW uids, NEW gids, {0, OverflowId} \subseteq uids, {0, OverflowId} \subseteq gids
    PROVE  IsCred(k, uids, gids)
<1>1. PICK uid, gid \in {0, OverflowId} : k = Creds(uid, gid, {"host"}, Caps, Caps, {}, {}, Caps, No, <<>>)
  BY FreshCreds
<1> DEFINE groups == {"host"}
           filter == <<>>
<1> HIDE DEF groups, filter
<1>2. k = Creds(uid, gid, groups, Caps, Caps, {}, {}, Caps, No, filter)
  BY <1>1 DEF groups, filter
<1>3. uid \in uids /\ gid \in gids
  OBVIOUS
<1>4. QED  BY <1>2, <1>3 DEF IsCred, Shape, Creds, Record

LEMMA SimpleTyped ==
    ASSUME NEW k, NEW uids, NEW gids, IsCred(k, uids, gids), NEW asked, 0 \in uids, 0 \in gids
    PROVE  /\ IsCred(become_root_in_namespace(k), uids, gids)
           /\ IsCred(set_no_new_privs(k), uids, gids)
           /\ IsCred(apply_seccomp(k, asked), uids, gids)
           /\ IsCred(drop_bounding(k, asked), uids, gids)
           /\ IsCred(Execve(k), uids, gids)
<1>1. IsCred(become_root_in_namespace(k), uids, gids)
  BY IdsTyped DEF become_root_in_namespace
<1>2. IsCred(set_no_new_privs(k), uids, gids)
  <2>1. IsCred([k EXCEPT !.nnp = Yes], uids, gids)
    BY OtherFields
  <2>2. QED  BY <2>1, CallTyped DEF set_no_new_privs, Yes
<1>3. IsCred(apply_seccomp(k, asked), uids, gids)
  <2>1. ASSUME NEW x PROVE IsCred([k EXCEPT !.ok = x], uids, gids) /\ IsCred([k EXCEPT !.filter = x], uids, gids)
    BY OtherFields
  <2>2. IsCred([k EXCEPT !.ok = FALSE], uids, gids) /\ IsCred([k EXCEPT !.filter = <<build(asked)>>], uids, gids)
    BY <2>1
  <2>3. IsCred(Load(k, build(asked)), uids, gids)
    BY <2>2, CallTyped DEF Load
  <2>4. QED  BY <2>2, <2>3 DEF apply_seccomp
<1>4. IsCred(drop_bounding(k, asked), uids, gids)
  <2> DEFINE left == k.bnd \cap asked.bounding
             after == [k EXCEPT !.bnd = left]
             can == parse_ok(asked.bounding) /\ ("SETPCAP" \in k.eff \/ k.bnd \subseteq asked.bounding)
  <2>1. drop_bounding(k, asked) = Call(k, "prctl", can, after)
    BY DEF drop_bounding, IsCred, Shape
  <2>2. ASSUME NEW x \in SUBSET Caps PROVE IsCred([k EXCEPT !.bnd = x], uids, gids)
    BY DEF IsCred, Shape
  <2>3. left \in SUBSET Caps
    BY DEF IsCred
  <2>4. IsCred(after, uids, gids)
    BY <2>2, <2>3
  <2> HIDE DEF after, can
  <2>5. QED  BY <2>1, <2>4, CallTyped
<1>5. IsCred(Execve(k), uids, gids)
  <2> DEFINE found == IF k.uid = 0 THEN k.bnd \cup k.inh ELSE {}
             perm == (IF k.nnp THEN found \cap k.perm ELSE found) \cup k.amb
             eff == IF k.uid = 0 THEN perm ELSE k.amb
             sets == WithSets(k, eff, perm, k.inh, k.amb)
             after == [k EXCEPT !.perm = perm, !.eff = eff, !.keepcaps = FALSE]
  <2>1. Execve(k) = Call(k, "execve", TRUE, after)
    BY DEF Execve
  <2>2. eff \subseteq perm /\ perm \subseteq Caps /\ k.amb \subseteq perm \cap k.inh
    BY DEF IsCred
  <2> HIDE DEF perm, eff
  <2>3. IsCred(sets, uids, gids)
    <3>1. sets = Record(k.uid, k.gid, k.groups, eff, perm, k.inh, k.amb, k.bnd, k.keepcaps, k.nnp, k.filter, k.ok)
      BY SetsChanged DEF IsCred
    <3>2. k.uid \in uids /\ k.gid \in gids /\ k.inh \subseteq Caps /\ k.bnd \subseteq Caps
      BY DEF IsCred
    <3> HIDE DEF sets
    <3>3. QED  BY <2>2, <3>1, <3>2, SetsTyped
  <2>4. after = [sets EXCEPT !.keepcaps = FALSE]
    <3>1. ASSUME NEW no, NEW p, NEW e
          PROVE  [k EXCEPT !.perm = p, !.eff = e, !.keepcaps = no] = [WithSets(k, e, p, k.inh, k.amb) EXCEPT !.keepcaps = no]
      BY DEF WithSets, IsCred, Shape
    <3>2. QED  BY <3>1
  <2> HIDE DEF sets, after
  <2>5. IsCred(after, uids, gids)
    BY <2>3, <2>4, OtherFields
  <2>6. QED  BY <2>1, <2>5, CallTyped
<1>6. QED  BY <1>1, <1>2, <1>3, <1>4, <1>5

LEMMA UserTyped ==
    ASSUME NEW k, NEW uids, NEW gids, IsCred(k, uids, gids), NEW uid \in uids, NEW gid \in gids, NEW groups
    PROVE  IsCred(drop_privileges(k, uid, gid, groups), uids, gids)
<1> DEFINE leaving_root == Allows(k, "geteuid") /\ k.uid = 0 /\ uid # 0
           Keep(p, keep) == IF leaving_root THEN keep_caps_across_setuid(p, keep) ELSE p
           k0 == [k EXCEPT !.ok = @ /\ ~Kills(k, "geteuid")]
<1>1. ASSUME NEW p, NEW keep, IsCred(p, uids, gids) PROVE IsCred(Keep(p, keep), uids, gids)
  BY <1>1, OtherFields, CallTyped DEF keep_caps_across_setuid
<1>2. drop_privileges(k, uid, gid, groups) = Keep(Setuid(Setgid(Keep(Setgroups(k0, groups), TRUE), gid), uid), FALSE)
  BY DEF drop_privileges
<1>3. IsCred(Setgroups(k0, groups), uids, gids)
  <2>1. ASSUME NEW x PROVE IsCred([k EXCEPT !.ok = x], uids, gids)
    BY OtherFields
  <2>2. IsCred(k0, uids, gids)
    BY <2>1
  <2> HIDE DEF k0
  <2>3. QED  BY <2>2, OtherFields, CallTyped DEF Setgroups
<1> HIDE DEF Keep, k0
<1>4. IsCred(Setgid(Keep(Setgroups(k0, groups), TRUE), gid), uids, gids)
  BY <1>1, <1>3, IdsTyped
<1>5. QED  BY <1>1, <1>2, <1>4, IdsTyped

\* A capset that succeeds has set the sets.
LEMMA CapsetSucceeds ==
    ASSUME NEW k, Shape(k), NEW eff, NEW perm, NEW inh, Capset(k, eff, perm, inh).ok
    PROVE  k.ok /\ Capset(k, eff, perm, inh).perm = perm /\ Capset(k, eff, perm, inh).inh = inh
<1> DEFINE can == /\ perm \subseteq k.perm /\ eff \subseteq perm
                  /\ inh \subseteq k.inh \cup k.bnd
                  /\ "SETPCAP" \notin k.eff => inh \subseteq k.inh \cup k.perm
           amb == k.amb \cap perm \cap inh
           after == WithSets(k, eff, perm, inh, amb)
           got == Call(k, "capget", TRUE, k)
<1>1. Capset(k, eff, perm, inh) = Call(got, "capset", can, after)
  BY DEF Capset, WithSets, Shape
<1>2. after.perm = perm /\ after.inh = inh
  BY SetsChanged DEF Record
<1>3. Shape(got) /\ (got.ok => k.ok)
  BY DEF Call, Shape
<1> HIDE DEF can, after, got
<1>4. QED  BY <1>1, <1>2, <1>3, CallSucceeds

\* The ambient set is set last, when the permitted and inheritable ones are those asked for.
LEMMA AppliedTyped ==
    ASSUME NEW k, NEW uids, NEW gids, IsCred(k, uids, gids), NEW asked
    PROVE  IsCred(apply_caps(k, asked), uids, gids)
<1> DEFINE can == /\ \A s \in {asked.permitted, asked.effective, asked.inheritable, asked.ambient} : parse_ok(s)
                  /\ asked.effective \subseteq asked.permitted
           k1 == Call(k, "capget", can, k)
           k2 == Capset(k1, asked.effective, k1.perm, k1.inh)
           k3 == Capset(k2, k2.eff, asked.permitted, k2.inh)
           k4 == Capset(k3, k3.eff, k3.perm, asked.inheritable)
           cleared == [k4 EXCEPT !.amb = {}]
           k5 == Call(k4, "prctl", TRUE, cleared)
           may == asked.ambient \subseteq asked.permitted \cap asked.inheritable
           raised == [k5 EXCEPT !.amb = asked.ambient]
<1>1. apply_caps(k, asked) = Call(k5, "prctl", may, raised)
  BY DEF apply_caps
<1>2. IsCred(k1, uids, gids)
  BY CallTyped
<1> HIDE DEF k1
<1>3. IsCred(k2, uids, gids)
  BY <1>2, CapsetTyped
<1> HIDE DEF k2
<1>4. IsCred(k3, uids, gids) /\ (k3.ok => k3.perm = asked.permitted)
  <2>1. IsCred(k3, uids, gids)
    BY <1>3, CapsetTyped
  <2>2. k3.ok => k3.perm = asked.permitted
    BY <1>3, CapsetSucceeds DEF IsCred
  <2>3. QED  BY <2>1, <2>2
<1> HIDE DEF k3
<1>5. IsCred(k4, uids, gids) /\ (k4.ok => k4.perm = asked.permitted /\ k4.inh = asked.inheritable)
  <2>1. IsCred(k4, uids, gids)
    BY <1>4, CapsetTyped
  <2>2. k4.ok => k3.ok /\ k4.perm = k3.perm /\ k4.inh = asked.inheritable
    BY <1>4, CapsetSucceeds DEF IsCred
  <2>3. QED  BY <1>4, <2>1, <2>2
<1> HIDE DEF k4
<1>6. IsCred(cleared, uids, gids) /\ cleared.perm = k4.perm /\ cleared.inh = k4.inh
  <2>1. ASSUME NEW x \in SUBSET (k4.perm \cap k4.inh)
        PROVE  LET c == [k4 EXCEPT !.amb = x] IN IsCred(c, uids, gids) /\ c.perm = k4.perm /\ c.inh = k4.inh
    BY <1>5 DEF IsCred, Shape
  <2>2. QED  BY <2>1
<1>7. /\ IsCred(k5, uids, gids)
      /\ k5.ok => k5.perm = asked.permitted /\ k5.inh = asked.inheritable
  <2> HIDE DEF cleared
  <2>1. IsCred(k5, uids, gids)
    BY <1>5, <1>6, CallTyped
  <2>2. k5.ok => k4.ok /\ k5 = cleared
    <3>1. Shape(k4)
      BY <1>5 DEF IsCred
    <3> HIDE DEF k5
    <3>2. k5 = Call(k4, "prctl", TRUE, cleared)
      BY DEF k5
    <3>3. QED  BY <3>1, <3>2, CallSucceeds
  <2>3. QED  BY <1>5, <1>6, <2>1, <2>2
<1> HIDE DEF k5
<1>8. CASE k5.ok
  <2>1. ASSUME NEW x, x \subseteq k5.perm \cap k5.inh PROVE IsCred([k5 EXCEPT !.amb = x], uids, gids)
    BY <1>7, <2>1 DEF IsCred, Shape
  <2>2. may => IsCred(raised, uids, gids)
    BY <1>7, <1>8, <2>1
  <2> HIDE DEF may, raised
  <2>3. QED  BY <1>1, <1>7, <2>2, CallTyped
<1>9. CASE ~k5.ok
  <2>1. ASSUME NEW x PROVE IsCred([k5 EXCEPT !.ok = x], uids, gids)
    BY <1>7, OtherFields
  <2>2. QED  BY <1>1, <1>9, <2>1 DEF Call
<1>10. QED  BY <1>8, <1>9
-----------------------------------------------------------------------------
(***************************************************************************)
(* The type of all variables.                                              *)
(***************************************************************************)
ProcTyped ==
    /\ proc = [limits |-> proc.limits, oom |-> proc.oom, umask |-> proc.umask, cwd |-> proc.cwd, stdio |-> proc.stdio]
    /\ proc.stdio \in {"inherited", "pty"}

CredTyped == IsCred(cred, {0, OverflowId, b.uid}, {0, OverflowId, b.gid})

TInv == HInv /\ PInv /\ CredTyped /\ ProcTyped

LEMMA InitTInv == Init => TInv
<1> SUFFICES ASSUME Init PROVE TInv
  OBVIOUS
<1>1. HInv /\ PInv
  BY InitHInv, InitPInv
<1>2. CredTyped
  BY FreshTyped DEF Init, CredTyped, Fresh
<1>3. ProcTyped
  BY DEF Init, ProcTyped
<1>4. QED  BY <1>1, <1>2, <1>3 DEF TInv

LEMMA CredStep ==
    ASSUME TInv, Next
    PROVE  CredTyped'
<1> DEFINE uids == {0, OverflowId, b.uid}
           gids == {0, OverflowId, b.gid}
           Is(k) == IsCred(k, uids, gids)
<1>1. Is(cred) /\ PInv
  BY DEF TInv, CredTyped
<1>2. 0 \in uids /\ 0 \in gids /\ b.uid \in uids /\ b.gid \in gids
      /\ {0, OverflowId} \subseteq uids /\ {0, OverflowId} \subseteq gids
  OBVIOUS
<1>3. b' = b /\ (Is(cred') => CredTyped')
  <2>1. b' = b
    BY DEF Next, LoadBundle, Plan, CreateCgroup, ApplyResources, Spawn, JoinExisting, Unshare, MapIds, Attach,
       UnshareCgroup, MountRoot, ApplyMounts, CreateNodes, CreateLinks, CreateDevices, PivotRoot, SetupConsole,
       SetIdentity, ApplySysctl, MaskPaths, ReadonlyPaths, RemountReadonly, ReadonlyRootfs, ApplyLimits,
       FilterEarly, DropBounding, DropPrivileges, ApplyCapabilities, NoNewPrivs, FilterLate, Ready, Park, Exec,
       Starved, Overflow, Each, Privilege
  <2>2. QED  BY <2>1 DEF CredTyped
<1> HIDE DEF uids, gids
<1>4. CASE LoadBundle \/ Plan \/ CreateCgroup \/ ApplyResources \/ Spawn \/ Attach \/ UnshareCgroup
  <2>1. cred' = cred
    BY <1>4 DEF LoadBundle, Plan, CreateCgroup, ApplyResources, Spawn, Attach, UnshareCgroup
  <2>2. QED  BY <1>1, <1>3, <2>1
<1>5. CASE \/ MountRoot \/ ApplyMounts \/ CreateNodes \/ CreateLinks \/ CreateDevices \/ PivotRoot \/ SetupConsole
           \/ SetIdentity \/ ApplySysctl \/ MaskPaths \/ ReadonlyPaths \/ RemountReadonly \/ ReadonlyRootfs
           \/ ApplyLimits \/ Park \/ Starved \/ Overflow
  <2>1. cred' = cred
    BY <1>5 DEF MountRoot, ApplyMounts, CreateNodes, CreateLinks, CreateDevices, PivotRoot, SetupConsole,
       SetIdentity, ApplySysctl, MaskPaths, ReadonlyPaths, RemountReadonly, ReadonlyRootfs, ApplyLimits, Park,
       Starved, Overflow, Each
  <2>2. QED  BY <1>1, <1>3, <2>1
<1>6. CASE JoinExisting \/ Unshare
  <2>1. cred \in Fresh
    BY <1>1, <1>6 DEF PInv, Before, JoinExisting, Unshare
  <2>2. cred' \in {cred, EnterUserNamespace(cred)}
    BY <1>6 DEF JoinExisting, Unshare
  <2>3. Is(cred')
    BY <1>2, <2>1, <2>2, FreshEnters, FreshTyped
  <2>4. QED  BY <1>3, <2>3
<1>7. CASE MapIds
  <2>1. cred' \in {cred, become_root_in_namespace(cred)}
    BY <1>7 DEF MapIds
  <2>2. QED  BY <1>1, <1>2, <1>3, <2>1, SimpleTyped
<1>8. CASE FilterEarly \/ DropBounding \/ NoNewPrivs \/ FilterLate
  <2>1. cred' \in {cred, apply_seccomp(cred, b.seccomp), drop_bounding(cred, b.capabilities), set_no_new_privs(cred)}
    BY <1>8 DEF FilterEarly, DropBounding, NoNewPrivs, FilterLate, Privilege
  <2>2. QED  BY <1>1, <1>2, <1>3, <2>1, SimpleTyped
<1>9. CASE DropPrivileges \/ ApplyCapabilities
  <2>1. cred' \in {cred, drop_privileges(cred, b.uid, b.gid, b.groups), apply_caps(cred, b.capabilities)}
    BY <1>9 DEF DropPrivileges, ApplyCapabilities, Privilege
  <2>2. QED  BY <1>1, <1>2, <1>3, <2>1, UserTyped, AppliedTyped
<1>10. CASE Ready \/ Exec
  <2> DEFINE unblocked == Call(cred, "rt_sigprocmask", TRUE, cred)
  <2>1. cred' \in {Call(cred, "write", TRUE, cred), Execve(unblocked)}
    BY <1>10 DEF Ready, Exec, Privilege
  <2>2. Is(unblocked) /\ Is(Call(cred, "write", TRUE, cred))
    BY <1>1, CallTyped
  <2> HIDE DEF unblocked
  <2>3. QED  BY <1>1, <1>2, <1>3, <2>1, <2>2, SimpleTyped
<1>11. QED  BY <1>4, <1>5, <1>6, <1>7, <1>8, <1>9, <1>10 DEF Next

LEMMA ProcStep == ASSUME TInv, Next PROVE ProcTyped'
<1>1. ProcTyped
  BY DEF TInv
<1>2. CASE PivotRoot
  <2>1. proc' = [proc EXCEPT !.cwd = <<>>]
    BY <1>2 DEF PivotRoot
  <2>2. QED  BY <1>1, <2>1 DEF ProcTyped
<1>3. CASE SetupConsole
  <2>1. proc' \in {proc, [proc EXCEPT !.stdio = "pty"]}
    BY <1>1, <1>3 DEF SetupConsole, ProcTyped
  <2>2. QED  BY <1>1, <2>1 DEF ProcTyped
<1>4. CASE ApplyLimits
  <2>1. proc' = [proc EXCEPT !.limits = b.rlimits, !.oom = b.oomScoreAdj, !.umask = b.umask, !.cwd = b.cwd]
    BY <1>4 DEF ApplyLimits
  <2>2. QED  BY <1>1, <2>1 DEF ProcTyped
<1>5. CASE \/ LoadBundle \/ Plan \/ CreateCgroup \/ ApplyResources \/ Spawn \/ JoinExisting \/ Unshare
           \/ MapIds \/ Attach \/ UnshareCgroup \/ MountRoot \/ ApplyMounts \/ CreateNodes \/ CreateLinks
           \/ CreateDevices \/ SetIdentity \/ ApplySysctl \/ MaskPaths \/ ReadonlyPaths \/ RemountReadonly
           \/ ReadonlyRootfs \/ FilterEarly \/ DropBounding \/ DropPrivileges \/ ApplyCapabilities
           \/ NoNewPrivs \/ FilterLate \/ Ready \/ Park \/ Exec \/ Starved \/ Overflow
  <2>1. proc' = proc
    BY <1>5 DEF LoadBundle, Plan, CreateCgroup, ApplyResources, Spawn, JoinExisting, Unshare, MapIds, Attach,
       UnshareCgroup, MountRoot, ApplyMounts, CreateNodes, CreateLinks, CreateDevices, SetIdentity, ApplySysctl,
       MaskPaths, ReadonlyPaths, RemountReadonly, ReadonlyRootfs, FilterEarly, DropBounding, DropPrivileges,
       ApplyCapabilities, NoNewPrivs, FilterLate, Ready, Park, Exec, Starved, Overflow, Each, Privilege
  <2>2. QED  BY <1>1, <2>1 DEF ProcTyped
<1>6. QED  BY <1>2, <1>3, <1>4, <1>5 DEF Next

LEMMA NextTInv == TInv /\ [Next]_vars => TInv'
<1> SUFFICES ASSUME TInv, [Next]_vars PROVE TInv'
  OBVIOUS
<1>1. HInv' /\ PInv'
  BY NextHInv, NextPInv DEF TInv
<1>2. CredTyped' /\ ProcTyped'
  <2>1. CASE UNCHANGED vars
    BY <2>1 DEF vars, TInv, CredTyped, ProcTyped
  <2>2. QED  BY <2>1, CredStep, ProcStep
<1>3. QED  BY <1>1, <1>2 DEF TInv

\* The variables keep their types through all steps of create and of the init, for every bundle:
\* so do the credentials when a call fails half-way through a function (TypeOK; the order of the
\* sets in capabilities::apply).
THEOREM SetupTyped == Spec => []TypeOK
<1>1. TInv => TypeOK
  <2> SUFFICES ASSUME TInv PROVE TypeOK
    OBVIOUS
  <2>1. DOMAIN b = DOMAIN Plain /\ pc \in Steps
    BY BundlesAssumption DEF TInv, HInv, NInv
  <2>2. ns.how \in [Kind -> {"host", "joined", "new"}] /\ ns.owner \in [Kind -> {"host", "joined", "new"}]
    BY DEF TInv, HInv, NInv, NsTyped, Whose
  <2>3. /\ cred.eff \subseteq cred.perm /\ cred.perm \subseteq Caps /\ cred.inh \subseteq Caps
        /\ cred.amb \subseteq cred.perm \cap cred.inh /\ cred.bnd \subseteq Caps
        /\ cred.uid \in {0, OverflowId, b.uid} /\ cred.gid \in {0, OverflowId, b.gid}
    BY DEF TInv, CredTyped, IsCred
  <2>4. \A i \in DOMAIN fsys.tab : fsys.tab[i].ro \in BOOLEAN
    BY TableIs DEF TInv, HInv, HostKept, FsTyped, IsMount
  <2>5. keys \subseteq b.sysctl /\ proc.stdio \in {"inherited", "pty"}
    BY DEF TInv, HInv, HostKept, ProcTyped
  <2>6. QED  BY <2>1, <2>2, <2>3, <2>4, <2>5 DEF TypeOK
<1>2. QED  BY <1>1, InitTInv, NextTInv, PTL DEF Spec

-----------------------------------------------------------------------------
(***************************************************************************)
(* The limits, which are all written before the init is in the cgroup.     *)
(***************************************************************************)
AllWrites == IF b.resources = <<>> THEN <<>> ELSE writes(b.resources[1])

\* The steps of create before its cgroup is ready, and those from there to the attachment.
BeforeLimits == {"load", "plan", "cgroup", "apply"}
UnderLimits == {"spawn", "join", "unshare", "map", "attach"}

WInv ==
    /\ pc \in BeforeLimits => ~cg.member
    /\ pc \in UnderLimits => cg.written = AllWrites
    /\ cg.member => cg.written = AllWrites /\ cg.path = relative_path(b.cgroupsPath, Id)

LInv == NInv /\ WInv

LEMMA InitLInv == Init => LInv
<1>1. Init => WInv
  BY DEF Init, WInv, BeforeLimits, UnderLimits
<1>2. QED  BY <1>1, InitNInv DEF LInv

\* The steps that leave the cgroup as it is.
LEMMA CgroupKept ==
    ASSUME LInv, UNCHANGED <<b, cg>>,
           pc' \in BeforeLimits => pc \in BeforeLimits,
           pc' \in UnderLimits => pc \in UnderLimits
    PROVE  WInv'
<1>1. UNCHANGED AllWrites
  BY DEF AllWrites
<1>2. QED  BY <1>1 DEF LInv, WInv

LEMMA CgroupWStep ==
    ASSUME LInv, CreateCgroup \/ ApplyResources \/ Attach PROVE WInv'
<1>1. /\ b' = b /\ UNCHANGED AllWrites
      /\ cg = [path |-> cg.path, controllers |-> cg.controllers, written |-> cg.written, member |-> cg.member]
  BY DEF LInv, NInv, CgTyped, CreateCgroup, ApplyResources, Attach, AllWrites
<1>2. CASE CreateCgroup
  <2>1. ~cg.member /\ pc' = "apply"
    BY <1>2 DEF LInv, WInv, CreateCgroup, BeforeLimits
  <2>2. cg'.member = cg.member
    BY <1>1, <1>2 DEF CreateCgroup
  <2>3. QED  BY <2>1, <2>2 DEF WInv, BeforeLimits, UnderLimits
<1>3. CASE ApplyResources
  <2>1. ~cg.member /\ pc' \in {"spawn", "failed"} /\ cg'.member = cg.member
    BY <1>1, <1>3 DEF LInv, WInv, ApplyResources, BeforeLimits, Go
  <2>2. pc' = "spawn" => cg'.written = AllWrites
    <3> DEFINE known == \A w \in ToSet(AllWrites) : ControllerOf(w.file) \in cg.controllers
    <3>1. /\ cg' = [cg EXCEPT !.written = IF known THEN AllWrites ELSE <<>>]
          /\ pc' = IF known THEN "spawn" ELSE "failed"
      BY <1>3 DEF ApplyResources, AllWrites, Go
    <3> HIDE DEF known
    <3>2. QED  BY <1>1, <3>1
  <2>3. QED  BY <1>1, <2>1, <2>2 DEF WInv, BeforeLimits, UnderLimits
<1>4. CASE Attach
  <2>1. cg.written = AllWrites /\ cg.path = relative_path(b.cgroupsPath, Id) /\ pc' = "cgroupns"
    BY <1>4 DEF LInv, WInv, NInv, Attach, UnderLimits
  <2>2. cg'.written = cg.written /\ cg'.path = cg.path
    BY <1>1, <1>4 DEF Attach
  <2>3. QED  BY <1>1, <2>1, <2>2 DEF WInv, BeforeLimits, UnderLimits
<1>5. QED  BY <1>2, <1>3, <1>4

LEMMA NextLInv == LInv /\ [Next]_vars => LInv'
<1>1. LInv /\ [Next]_vars => NInv'
  BY NextNInv DEF LInv
<1> SUFFICES ASSUME LInv, [Next]_vars PROVE WInv'
  BY <1>1 DEF LInv
<1>2. CASE UNCHANGED vars
  BY <1>2, CgroupKept DEF vars
<1>3. CASE Next
  <2> USE DEF BeforeLimits, UnderLimits, Go
  <2>1. CASE LoadBundle \/ Plan \/ Spawn
    BY <2>1, CgroupKept DEF LoadBundle, Plan, Spawn
  <2>2. CASE CreateCgroup \/ ApplyResources \/ Attach
    BY <2>2, CgroupWStep
  <2>3. CASE JoinExisting \/ Unshare \/ MapIds \/ UnshareCgroup
    BY <2>3, CgroupKept DEF JoinExisting, Unshare, MapIds, UnshareCgroup
  <2>4. CASE MountRoot \/ PivotRoot \/ SetupConsole
    BY <2>4, CgroupKept DEF MountRoot, PivotRoot, SetupConsole
  <2>5. CASE SetIdentity \/ ApplySysctl \/ ReadonlyRootfs \/ ApplyLimits
    BY <2>5, CgroupKept DEF SetIdentity, ApplySysctl, ReadonlyRootfs, ApplyLimits
  <2>6. CASE ApplyMounts \/ CreateNodes \/ CreateLinks \/ CreateDevices
    BY <2>6, CgroupKept DEF ApplyMounts, CreateNodes, CreateLinks, CreateDevices, Each
  <2>7. CASE MaskPaths \/ ReadonlyPaths \/ RemountReadonly
    BY <2>7, CgroupKept DEF MaskPaths, ReadonlyPaths, RemountReadonly, Each
  <2>8. CASE FilterEarly \/ DropBounding \/ DropPrivileges
    BY <2>8, CgroupKept DEF FilterEarly, DropBounding, DropPrivileges, Privilege
  <2>9. CASE ApplyCapabilities \/ NoNewPrivs \/ FilterLate
    BY <2>9, CgroupKept DEF ApplyCapabilities, NoNewPrivs, FilterLate, Privilege
  <2>10. CASE Ready \/ Park \/ Exec \/ Starved \/ Overflow
    BY <2>10, CgroupKept DEF Ready, Park, Exec, Starved, Overflow, Privilege
  <2>11. QED  BY <1>3, <2>1, <2>2, <2>3, <2>4, <2>5, <2>6, <2>7, <2>8, <2>9, <2>10 DEF Next
<1>4. QED  BY <1>2, <1>3

\* The weights as LimitsAsAsked has them.
LEMMA SharesAreOrdered == ASSUME NEW n \in Nat \ {0} PROVE SharesOrdered(n)
<1>1. shares_to_weight(262144) = 10000
  BY DEF shares_to_weight, clamp
<1>2. ASSUME NEW s \in Nat \ {0}, s <= n PROVE shares_to_weight(s) <= shares_to_weight(n)
  BY <1>2, SharesInOrder
<1>3. \A s \in {1, 2, 28, 29, 1024, 262143} : s \in Nat \ {0}
  OBVIOUS
<1>4. shares_to_weight(n) \in 1..10000
  <2>1. IsWeight(shares_to_weight(n))
    BY SharesInRange
  <2>2. QED  BY <2>1 DEF IsWeight
<1>5. QED  BY <1>1, <1>2, <1>3, <1>4 DEF SharesOrdered

LEMMA IoWeightsAreOrdered == ASSUME NEW n \in Nat PROVE IoWeightOrdered(n)
<1>1. blkio_to_io_weight(1000) = 10000
  BY DEF blkio_to_io_weight, clamp
<1>2. ASSUME NEW s \in Nat, s <= n PROVE blkio_to_io_weight(s) <= blkio_to_io_weight(n)
  BY <1>2, IoWeightInOrder
<1>3. \A s \in {1, 10, 11, 500, 999} : s \in Nat
  OBVIOUS
<1>4. blkio_to_io_weight(n) \in 1..10000
  <2>1. IsWeight(blkio_to_io_weight(n))
    BY IoWeightInRange
  <2>2. QED  BY <2>1 DEF IsWeight
<1>5. QED  BY <1>1, <1>2, <1>3, <1>4 DEF IoWeightOrdered

\* An option has one value if it has any.
LEMMA OptionIs == ASSUME NEW S, NEW option \in Seq(S), option # <<>> PROVE option[1] \in S
<1>1. Len(option) \in Nat /\ Len(option) # 0
  BY LenProperties, EmptySeq
<1>2. QED  BY <1>1, ElementOfSeq

LEMMA NonZeroIs ==
    ASSUME NEW option \in Seq(Nat)
    PROVE  /\ NonZero(option) # <<>> <=> option # <<>> /\ option[1] # 0
           /\ NonZero(option) # <<>> => option[1] \in Nat \ {0}
<1>1. option # <<>> => option[1] \in Nat
  BY OptionIs
<1>2. QED  BY <1>1 DEF NonZero

\* What a file holds once the init is in its cgroup.
LEMMA FileHolds ==
    ASSUME LInv, cg.member, b.resources # <<>>, NEW r, r = b.resources[1]
    PROVE  /\ ResourcesTyped(r)
           /\ \A file : IsWritten(file) <=> IsIn(cg.written, file)
           /\ \A file : InUnified(r, file) <=> IsIn(r.unified, file)
           /\ \A w \in ToSet(r.unified) : LastWritten(w.file) = w.value
           /\ \A file \in LimitFiles : ~InUnified(r, file) =>
                 /\ IsWritten(file) <=> Asks(r, file) # <<>>
                 /\ IsWritten(file) => LastWritten(file) = Gives(r, file)
<1>1. cg.written = writes(r) /\ ResourcesTyped(r)
  BY BundlesAssumption DEF LInv, WInv, NInv, AllWrites
<1>2. \A file : IsWritten(file) <=> IsIn(cg.written, file)
  BY DEF IsWritten, IsIn
<1>3. \A file : InUnified(r, file) <=> IsIn(r.unified, file)
  BY DEF InUnified, IsIn
<1>4. \A file : LastWritten(file) = LastIn(cg.written, file)
  BY DEF LastWritten, LastIn, SelectLastInSeq
<1>5. /\ \A w \in ToSet(r.unified) : IsIn(writes(r), w.file) /\ LastIn(writes(r), w.file) = w.value
      /\ \A file \in LimitFiles : ~IsIn(r.unified, file) => Wrote(writes(r), r, file)
  BY <1>1, FilesHoldWhatIsAsked
<1>6. QED  BY <1>1, <1>2, <1>3, <1>4, <1>5 DEF Wrote

\* Once the init is in its cgroup, the files there hold what config.json asks for, for every
\* number in it, or what `unified` says of them: memory and swap add up, no limit is unlimited
\* by accident, and the weights are in order and in the kernel's range (Cgroup::apply,
\* relative_path, and the attachment of a forked init that has not gone on yet).
THEOREM LimitsAreAsAsked == Spec => []LimitsAsAsked
<1>1. LInv => LimitsAsAsked
  <2> SUFFICES ASSUME LInv, cg.member, b.resources # <<>> PROVE LimitsAsAsked
    BY DEF LimitsAsAsked
  <2> DEFINE r == b.resources[1]
  <2>1. /\ ResourcesTyped(r)
        /\ \A w \in ToSet(r.unified) : LastWritten(w.file) = w.value
        /\ \A file \in LimitFiles : ~InUnified(r, file) =>
              /\ IsWritten(file) <=> Asks(r, file) # <<>>
              /\ IsWritten(file) => LastWritten(file) = Gives(r, file)
    BY FileHolds
  <2> HIDE DEF r
  <2>2. \A file \in LimitFiles : Ours(r, file) => Asks(r, file) # <<>> /\ LastWritten(file) = Gives(r, file)
    BY <2>1 DEF Ours
  <2>3. /\ r.limit \in Seq(Int) /\ r.reservation \in Seq(Int) /\ r.swap \in Seq(Int)
        /\ r.quota \in Seq(Int) /\ r.pids \in Seq(Int)
        /\ r.shares \in Seq(Nat) /\ r.weight \in Seq(Nat)
    BY <2>1 DEF ResourcesTyped
  <2>4. /\ Ours(r, "memory.max") => r.limit # <<>> /\ LastWritten("memory.max") = limit_value(r.limit[1])
        /\ Ours(r, "memory.low") => r.reservation # <<>> /\ LastWritten("memory.low") = limit_value(r.reservation[1])
        /\ Ours(r, "pids.max") => r.pids # <<>> /\ LastWritten("pids.max") = limit_value(r.pids[1])
        /\ Ours(r, "memory.swap.max") => LastWritten("memory.swap.max") = swap_value(r.swap[1], r.limit)
    BY <2>2 DEF LimitFiles, Asks, Gives
  <2>5. /\ r.limit # <<>> => r.limit[1] \in Int
        /\ r.reservation # <<>> => r.reservation[1] \in Int
        /\ r.pids # <<>> => r.pids[1] \in Int
        /\ r.swap # <<>> => r.swap[1] \in Int
        /\ r.quota # <<>> => r.quota[1] \in Int
    BY <2>3, OptionIs
  <2>6. MemoryAddsUp(r)
    BY <2>4, <2>5 DEF MemoryAddsUp, limit_value, swap_value
  <2>7. NoLimitByAccident(r)
    <3> DEFINE period == IF r.period = <<>> THEN 100000 ELSE r.period[1]
    <3>1. Ours(r, "cpu.max") => LastWritten("cpu.max") = cpu_max_value(r.quota[1], period)
      BY <2>2 DEF LimitFiles, Gives
    <3> HIDE DEF period
    <3>2. r.quota # <<>> /\ Ours(r, "cpu.max") =>
             LastWritten("cpu.max")[1] = IF r.quota[1] > 0 THEN r.quota[1] ELSE Unlimited
      BY <2>5, <3>1 DEF cpu_max_value
    <3>3. \A file \in {"memory.max", "memory.low", "pids.max"} :
             Ours(r, file) => LastWritten(file) = Unlimited \/ LastWritten(file) > 0
      BY <2>4, <2>5 DEF limit_value
    <3>4. QED  BY <3>2, <3>3 DEF NoLimitByAccident
  <2>8. /\ ~InUnified(r, "cpu.weight") => (IsWritten("cpu.weight") <=> NonZero(r.shares) # <<>>)
        /\ ~InUnified(r, "io.weight") => (IsWritten("io.weight") <=> NonZero(r.weight) # <<>>)
    BY <2>1 DEF LimitFiles, Asks
  <2>9. /\ NonZero(r.shares) # <<>> <=> r.shares # <<>> /\ r.shares[1] # 0
        /\ NonZero(r.shares) # <<>> => r.shares[1] \in Nat \ {0}
        /\ NonZero(r.weight) # <<>> <=> r.weight # <<>> /\ r.weight[1] # 0
        /\ NonZero(r.weight) # <<>> => r.weight[1] \in Nat \ {0}
    BY <2>3, NonZeroIs
  <2>10. WeightsAreAsked(r)
    BY <2>8, <2>9 DEF WeightsAreAsked, Ours
  <2>11. Ours(r, "cpu.weight") => SharesOrdered(r.shares[1])
    BY <2>8, <2>9, SharesAreOrdered DEF Ours
  <2>12. Ours(r, "io.weight") => IoWeightOrdered(r.weight[1])
    BY <2>8, <2>9, IoWeightsAreOrdered DEF Ours
  <2>13. b.cgroupsPath = <<>> => Len(cg.path) = 2
    <3>1. cg.path = relative_path(b.cgroupsPath, Id)
      BY DEF LInv, WInv
    <3>2. b.cgroupsPath = <<>> => relative_path(b.cgroupsPath, Id) = <<DEFAULT_PARENT, Id>>
      BY DEF relative_path
    <3>3. Len(<<DEFAULT_PARENT, Id>>) = 2
      OBVIOUS
    <3>4. QED  BY <3>1, <3>2, <3>3
  <2>14. QED
    BY <2>1, <2>6, <2>7, <2>10, <2>11, <2>12, <2>13 DEF LimitsAsAsked, r
<1>2. QED  BY <1>1, InitLInv, NextLInv, PTL DEF Spec

-----------------------------------------------------------------------------
(***************************************************************************)
(* Paths, and what a path is on after each of the kernel's operations.     *)
(***************************************************************************)
LEMMA PrefixIs ==
    ASSUME NEW p \in Paths, NEW q \in Paths
    PROVE  IsPrefix(p, q) <=> Len(p) <= Len(q) /\ \A i \in 1..Len(p) : p[i] = q[i]
<1> DEFINE n == Len(p)
<1>1. n \in Nat /\ Len(q) \in Nat
  BY LenProperties DEF Paths
<1>2. CASE n <= Len(q)
  <2> DEFINE s == SubSeq(p, 1, n)
             t == SubSeq(q, 1, n)
  <2>1. /\ \A i \in 1..n : p[i] \in Names
        /\ \A i \in 1..n : q[i] \in Names
    BY <1>1, <1>2, ElementOfSeq DEF Paths
  <2> HIDE DEF n
  <2>2. /\ s \in Seq(Names) /\ Len(s) = n /\ \A i \in 1..n : s[i] = p[i]
        /\ t \in Seq(Names) /\ Len(t) = n /\ \A i \in 1..n : t[i] = q[i]
    BY <1>1, <2>1, SubSeqProperties
  <2>3. s = t <=> \A i \in 1..n : s[i] = t[i]
    <3> HIDE DEF s, t
    <3>1. QED  BY <2>2, SeqEqual
  <2>4. IsPrefix(p, q) <=> s = t
    BY <1>2 DEF IsPrefix, n
  <2>5. (\A i \in 1..n : s[i] = t[i]) <=> \A i \in 1..n : p[i] = q[i]
    BY <2>2
  <2>6. QED  BY <1>2, <2>3, <2>4, <2>5 DEF n
<1>3. QED  BY <1>1, <1>2 DEF IsPrefix

LEMMA PrefixOrder ==
    ASSUME NEW p \in Paths, NEW q \in Paths, NEW r \in Paths
    PROVE  /\ IsPrefix(p, p) /\ IsPrefix(<<>>, p)
           /\ IsPrefix(p, q) /\ IsPrefix(q, r) => IsPrefix(p, r)
           /\ IsPrefix(p, q) /\ IsPrefix(q, p) => p = q
<1>1. Len(p) \in Nat /\ Len(q) \in Nat /\ Len(r) \in Nat
  BY LenProperties DEF Paths
<1>2. IsPrefix(p, p)
  BY <1>1, PrefixIs
<1>3. IsPrefix(<<>>, p)
  <2> DEFINE none == <<>>
  <2>1. none \in Paths /\ Len(none) = 0
    BY EmptySeq DEF Paths
  <2> HIDE DEF none
  <2>2. IsPrefix(none, p)
    BY <1>1, <2>1, PrefixIs
  <2>3. QED  BY <2>2 DEF none
<1>4. IsPrefix(p, q) /\ IsPrefix(q, r) => IsPrefix(p, r)
  BY <1>1, PrefixIs
<1>5. IsPrefix(p, q) /\ IsPrefix(q, p) => p = q
  <2> SUFFICES ASSUME IsPrefix(p, q), IsPrefix(q, p) PROVE p = q
    OBVIOUS
  <2>1. Len(p) = Len(q) /\ \A i \in 1..Len(p) : p[i] = q[i]
    BY <1>1, PrefixIs
  <2>2. QED  BY <2>1, SeqEqual DEF Paths
<1>6. QED  BY <1>2, <1>3, <1>4, <1>5

\* Only the root is a prefix of the root.
LEMMA PrefixOfRoot == ASSUME NEW p \in Paths, IsPrefix(p, <<>>) PROVE p = <<>>
<1> DEFINE none == <<>>
<1>1. none \in Paths
  BY EmptySeq DEF Paths
<1>2. IsPrefix(p, none)
  OBVIOUS
<1> HIDE DEF none
<1>3. IsPrefix(none, p)
  BY PrefixOrder DEF none
<1>4. p = none
  BY <1>1, <1>2, <1>3, PrefixOrder
<1>5. QED  BY <1>4 DEF none

\* A tree with a root, whose mounts are at paths.
Fine(f) == FsTyped(f) /\ HasRoot(f) /\ \A i \in 1..Len(f.tab) : f.tab[i].at \in Paths

IsTop(t, p, i) ==
    /\ i \in 1..Len(t) /\ IsPrefix(t[i].at, p)
    /\ \A j \in 1..Len(t) : IsPrefix(t[j].at, p) => j <= i

LEMMA TopIs == ASSUME NEW f, IsTable(f.tab), NEW p, NEW i, IsTop(f.tab, p, i) PROVE Top(f, p) = i
<1> DEFINE Above(m) == IsPrefix(m.at, p)
           I == {j \in 1..Len(f.tab) : Above(f.tab[j])}
<1>1. Len(f.tab) \in Nat
  BY TableIs
<1>2. Top(f, p) = IF I # {} THEN Max(I) ELSE 0
  BY DEF Top, SelectLastInSeq
<1>3. i \in I /\ \A j \in I : j <= i
  BY DEF IsTop
<1>4. I \in SUBSET (1..Len(f.tab))
  OBVIOUS
<1> HIDE DEF I
<1> DEFINE top == Max(I)
<1>5. top \in I /\ \A j \in I : j <= top
  BY <1>1, <1>3, <1>4, LastPosition
<1> HIDE DEF top
<1>6. top \in Int /\ i \in Int /\ top <= i /\ i <= top
  BY <1>1, <1>3, <1>4, <1>5
<1>7. top = i
  BY <1>6
<1>8. QED  BY <1>2, <1>3, <1>7 DEF top

LEMMA TopThere == ASSUME NEW f, Fine(f), NEW p \in Paths PROVE IsTop(f.tab, p, Top(f, p))
<1> DEFINE Above(m) == IsPrefix(m.at, p)
           I == {j \in 1..Len(f.tab) : Above(f.tab[j])}
<1>1. Len(f.tab) \in Nat /\ Len(f.tab) > 0
  BY TableIs DEF Fine, FsTyped, HasRoot
<1>2. Top(f, p) = IF I # {} THEN Max(I) ELSE 0
  BY DEF Top, SelectLastInSeq
<1>3. 1 \in I
  BY <1>1, PrefixOrder DEF Fine, HasRoot
<1>4. I \in SUBSET (1..Len(f.tab))
  OBVIOUS
<1>5. \A j \in I : IsPrefix(f.tab[j].at, p)
  OBVIOUS
<1>6. \A j \in 1..Len(f.tab) : IsPrefix(f.tab[j].at, p) => j \in I
  OBVIOUS
<1> HIDE DEF I
<1>7. Top(f, p) \in I /\ \A j \in I : j <= Top(f, p)
  BY <1>1, <1>2, <1>3, <1>4, LastPosition
<1>8. QED  BY <1>4, <1>5, <1>6, <1>7 DEF IsTop

\* A new mount is seen at its place and below, and hides what was there; nothing else changes.
NamesIn(fs, at) == {[fs |-> fs, path |-> q] : q \in Contents(fs.typ, at)}

Covered(f, g, fs, at, ro) ==
    /\ Fine(g) /\ g.ok = f.ok
    /\ g.has = f.has \cup NamesIn(fs, at)
    /\ \A p \in Paths : MountOf(g, p) = IF IsPrefix(at, p) THEN Mounted(fs, at, ro) ELSE MountOf(f, p)

LEMMA AddSees ==
    ASSUME NEW f, Fine(f), NEW fs, NEW at \in Paths, NEW ro \in BOOLEAN
    PROVE  Covered(f, Add(f, fs, at, ro), fs, at, ro)
<1> DEFINE m == Mounted(fs, at, ro)
           t == Append(f.tab, m)
           has == f.has \cup NamesIn(fs, at)
           leaks == f.leaks \/ (f.prop = "shared" /\ f.old)
           g == [f EXCEPT !.tab = t, !.has = has, !.leaks = leaks]
           n == Len(f.tab)
<1>1. Add(f, fs, at, ro) = g
  BY DEF Add, Fine, FsTyped, NamesIn
<1>2. Keeps(f, g)
  BY <1>1, AddKeeps DEF Fine
<1>3. IsMount(m) /\ m.at = at
  BY DEF IsMount, Mounted
<1>4. /\ IsTable(t) /\ Len(t) = n + 1 /\ n \in Nat
      /\ \A i \in 1..n : t[i] = f.tab[i]
      /\ t[n + 1] = m
  BY <1>3, TableAppend, TableIs DEF Fine, FsTyped
<1> HIDE DEF t, has, leaks, n, m
<1>5. g.tab = t /\ g.has = has /\ g.ok = f.ok
  <2> DEFINE g1 == [f EXCEPT !.tab = t]
             g2 == [g1 EXCEPT !.has = has]
             g3 == [g2 EXCEPT !.leaks = leaks]
  <2>1. FsShape(f)
    BY DEF Fine, FsTyped
  <2>2. g = g3
    BY <2>1 DEF FsShape
  <2>3. g1.tab = t /\ g1.ok = f.ok /\ FsShape(g1)
    BY <2>1 DEF FsShape
  <2> HIDE DEF g1
  <2>4. g2.tab = t /\ g2.has = has /\ g2.ok = f.ok /\ FsShape(g2)
    BY <2>3 DEF FsShape
  <2> HIDE DEF g2
  <2>5. g3.tab = t /\ g3.has = has /\ g3.ok = f.ok
    BY <2>4 DEF FsShape
  <2>6. QED  BY <2>2, <2>5
<1> HIDE DEF g
<1>6. Fine(g)
  <2>1. FsTyped(g) /\ HasRoot(g)
    BY <1>2 DEF Keeps, Fine
  <2>2. \A i \in 1..(n + 1) : i \in 1..n \/ i = n + 1
    BY <1>4
  <2>3. \A i \in 1..Len(t) : t[i].at \in Paths
    BY <1>3, <1>4, <2>2 DEF Fine, n
  <2>4. QED  BY <1>5, <2>1, <2>3 DEF Fine
<1>7. ASSUME NEW p \in Paths
      PROVE  MountOf(g, p) = IF IsPrefix(at, p) THEN m ELSE MountOf(f, p)
  <2>1. CASE IsPrefix(at, p)
    <3>1. IsTop(t, p, n + 1)
      BY <1>3, <1>4, <2>1 DEF IsTop
    <3>2. Top(g, p) = n + 1
      BY <1>4, <1>5, <3>1, TopIs
    <3>3. QED  BY <1>4, <1>5, <2>1, <3>2 DEF MountOf
  <2>2. CASE ~IsPrefix(at, p)
    <3> DEFINE i == Top(f, p)
    <3>1. IsTop(f.tab, p, i)
      BY TopThere
    <3> HIDE DEF i
    <3>2. i \in 1..n /\ i \in 1..Len(t) /\ IsPrefix(t[i].at, p)
      BY <1>4, <3>1 DEF IsTop, n
    <3>3. ASSUME NEW j \in 1..Len(t), IsPrefix(t[j].at, p) PROVE j <= i
      <4>1. j # n + 1
        BY <1>3, <1>4, <2>2, <3>3
      <4>2. j \in 1..n /\ t[j] = f.tab[j]
        BY <1>4, <3>3, <4>1
      <4>3. QED  BY <3>1, <3>3, <4>2 DEF IsTop, n
    <3>4. Top(g, p) = i
      BY <1>4, <1>5, <3>2, <3>3, TopIs DEF IsTop
    <3>5. QED  BY <1>4, <1>5, <2>2, <3>2, <3>4 DEF MountOf, i
  <2>3. QED  BY <2>1, <2>2
<1>8. QED  BY <1>1, <1>5, <1>6, <1>7 DEF Covered, m, has

\* A call that succeeded has had its effect.
LEMMA ThenOk ==
    ASSUME NEW f, FsTyped(f), NEW can, NEW after, Then(f, can, after).ok
    PROVE  Then(f, can, after) = after /\ f.ok /\ can
<1>1. ~Fail(f).ok
  <2> DEFINE g(no) == [f EXCEPT !.ok = no]
  <2>1. \A no : g(no).ok = no
    BY DEF FsTyped, FsShape
  <2>2. QED  BY <2>1 DEF Fail
<1>2. QED  BY <1>1 DEF Then

LEMMA TabIs ==
    ASSUME NEW f, FsTyped(f), NEW t
    PROVE  LET g == [f EXCEPT !.tab = t] IN g.tab = t /\ g.has = f.has /\ g.ok = f.ok
  BY DEF FsTyped, FsShape

LEMMA HasIs ==
    ASSUME NEW f, FsTyped(f), NEW has
    PROVE  LET g == [f EXCEPT !.has = has] IN g.tab = f.tab /\ g.has = has /\ g.ok = f.ok
  BY DEF FsTyped, FsShape

\* Where the mounts keep their places, each path stays on its own.
LEMMA SamePlaces ==
    ASSUME NEW f, NEW g, Fine(f), IsTable(g.tab), Len(g.tab) = Len(f.tab),
           \A i \in 1..Len(f.tab) : g.tab[i].at = f.tab[i].at, NEW p \in Paths
    PROVE  /\ Top(g, p) = Top(f, p) /\ Top(f, p) \in 1..Len(f.tab)
           /\ MountOf(g, p) = g.tab[Top(f, p)] /\ MountOf(f, p) = f.tab[Top(f, p)]
<1> DEFINE i == Top(f, p)
<1>1. IsTop(f.tab, p, i)
  BY TopThere
<1> HIDE DEF i
<1>2. IsTop(g.tab, p, i)
  BY <1>1 DEF IsTop
<1>3. Top(g, p) = i
  BY <1>2, TopIs
<1>4. QED  BY <1>1, <1>3 DEF IsTop, MountOf, i

\* The same mounts under all paths, and the same names in them or more.
Sees(f, g) ==
    /\ Fine(g) /\ f.has \subseteq g.has
    /\ \A q \in Paths : MountOf(g, q).fs = MountOf(f, q).fs /\ MountOf(g, q).at = MountOf(f, q).at

Tightens(f, g) == \A q \in Paths : MountOf(f, q).ro => MountOf(g, q).ro

LEMMA ExistsIs ==
    ASSUME NEW f, Fine(f), NEW p
    PROVE  Exists(f, p) <=> \/ MountOf(f, p).at = p
                            \/ [fs |-> MountOf(f, p).fs, path |-> p] \in f.has
<1>1. f.tab # <<>>
  <2>1. Len(f.tab) > 0
    BY DEF Fine, HasRoot
  <2>2. QED  BY <2>1, EmptySeq
<1>2. QED  BY <1>1 DEF Exists, MountPoint

LEMMA SeesNames ==
    ASSUME NEW f, NEW g, Fine(f), Sees(f, g), NEW p \in Paths
    PROVE  /\ Exists(f, p) => Exists(g, p)
           /\ g.has = f.has => (Exists(f, p) <=> Exists(g, p))
  BY ExistsIs DEF Sees

LEMMA SameTabSees ==
    ASSUME NEW f, NEW g, Fine(f), FsTyped(g), g.tab = f.tab, f.has \subseteq g.has
    PROVE  Sees(f, g) /\ \A q \in Paths : MountOf(g, q) = MountOf(f, q)
<1>1. Fine(g)
  BY DEF Fine, HasRoot
<1>2. \A q \in Paths : MountOf(g, q) = MountOf(f, q)
  BY DEF MountOf, Top
<1>3. QED  BY <1>1, <1>2 DEF Sees

\* The mount that a path is on has another flag.
Flagged(f, g, p, ro) ==
    /\ Sees(f, g) /\ g.has = f.has
    /\ \A q \in Paths : MountOf(g, q).ro = IF Top(f, q) = Top(f, p) THEN ro ELSE MountOf(f, q).ro

LEMMA SetRoSees ==
    ASSUME NEW f, Fine(f), NEW p \in Paths, NEW ro \in BOOLEAN
    PROVE  Flagged(f, SetRo(f, p, ro), p, ro)
<1> DEFINE i == Top(f, p)
           t == [f.tab EXCEPT ![i].ro = ro]
           g == [f EXCEPT !.tab = t]
<1>1. SetRo(f, p, ro) = g
  BY DEF SetRo, Fine, FsTyped
<1>2. /\ Len(f.tab) \in Nat /\ DOMAIN f.tab = 1..Len(f.tab)
      /\ \A j \in 1..Len(f.tab) : IsMount(f.tab[j])
  BY TableIs DEF Fine, FsTyped
<1>3. Keeps(f, g)
  BY <1>1, SetRoKeeps DEF Fine, Plainly
<1>4. i \in 1..Len(f.tab)
  BY TopThere DEF IsTop
<1>5. \A j \in DOMAIN f.tab : t[j] = IF j = i THEN [f.tab[j] EXCEPT !.ro = ro] ELSE f.tab[j]
  BY <1>2, <1>4
<1>6. \A j \in 1..Len(f.tab) : /\ t[j].fs = f.tab[j].fs /\ t[j].at = f.tab[j].at
                               /\ t[j].ro = IF j = i THEN ro ELSE f.tab[j].ro
  <2> TAKE j \in 1..Len(f.tab)
  <2>1. IsMount(f.tab[j])
    BY <1>2
  <2>2. QED  BY <1>2, <1>5, <2>1 DEF IsMount
<1>7. DOMAIN t = DOMAIN f.tab
  OBVIOUS
<1> HIDE DEF t, i
<1>8. g.tab = t /\ g.has = f.has
  BY TabIs DEF Fine
<1>9. Len(t) = Len(f.tab) /\ IsTable(t)
  <2>1. IsTable(t)
    BY <1>3, <1>8 DEF Keeps, FsTyped
  <2>2. QED  BY <1>2, <1>7, <2>1, TableIs
<1> HIDE DEF g
<1>10. \A q \in Paths : /\ Top(f, q) \in 1..Len(f.tab)
                        /\ MountOf(g, q) = t[Top(f, q)] /\ MountOf(f, q) = f.tab[Top(f, q)]
  BY <1>6, <1>8, <1>9, SamePlaces
<1>11. Fine(g)
  BY <1>3, <1>6, <1>8, <1>9 DEF Keeps, Fine
<1>12. Sees(f, g)
  BY <1>6, <1>8, <1>10, <1>11 DEF Sees
<1>13. QED  BY <1>1, <1>6, <1>8, <1>10, <1>12 DEF Flagged, i

LEMMA SetRoOk == ASSUME NEW f, FsTyped(f), NEW p, NEW ro PROVE SetRo(f, p, ro).ok = f.ok
<1> DEFINE t == [f.tab EXCEPT ![Top(f, p)].ro = ro]
<1>1. SetRo(f, p, ro) = [f EXCEPT !.tab = t]
  BY DEF SetRo, FsTyped
<1> HIDE DEF t
<1>2. QED  BY <1>1, TabIs

\* No mount refuses to be bound.
Bindable(f) == \A i \in 1..Len(f.tab) : f.tab[i].unbindable = FALSE

\* A path that is bound onto itself with all that is below it shows everywhere what it showed.
LEMMA SelfBindSees ==
    ASSUME NEW f, Fine(f), NEW p \in Paths, SelfBind(f, p, TRUE).ok
    PROVE  LET g == SelfBind(f, p, TRUE)
           IN  /\ Fine(g) /\ g.has = f.has /\ MountOf(g, p).at = p
               /\ Bindable(f) => Bindable(g)
               /\ \A q \in Paths : /\ MountOf(g, q).fs = MountOf(f, q).fs /\ MountOf(g, q).ro = MountOf(f, q).ro
                                   /\ \/ MountOf(g, q).at = MountOf(f, q).at
                                      \/ MountOf(g, q).at = p /\ IsPrefix(p, q) /\ IsPrefix(MountOf(f, q).at, p)
<1> DEFINE n == Len(f.tab)
           k == Top(f, p)
           own == [MountOf(f, p) EXCEPT !.at = p]
           later == SubSeq(f.tab, k + 1, n)
           t == f.tab \o <<own>> \o later
           g == [f EXCEPT !.tab = t]
<1>1. IsTable(f.tab) /\ n \in Nat /\ FsTyped(f)
  BY TableIs DEF Fine, FsTyped
<1>2. k \in 1..n /\ IsPrefix(f.tab[k].at, p) /\ \A j \in 1..n : IsPrefix(f.tab[j].at, p) => j <= k
  BY TopThere DEF IsTop
<1>3. IsMount(f.tab[k]) /\ MountOf(f, p) = f.tab[k]
  BY <1>1, <1>2, TableIs DEF MountOf
<1>4. IsMount(own) /\ own.at = p /\ own.fs = f.tab[k].fs /\ own.ro = f.tab[k].ro
  BY <1>3 DEF IsMount
<1>5. IsTable(later) /\ Len(later) = n - k /\ \A i \in 1..(n - k) : later[i] = f.tab[k + i]
  <2>1. \A i \in (k + 1)..n : f.tab[i] \in {f.tab[j] : j \in 1..n}
    BY <1>1, <1>2
  <2>2. /\ Len(later) = IF k + 1 <= n THEN n - (k + 1) + 1 ELSE 0
        /\ \A i \in 1..(n - (k + 1) + 1) : later[i] = f.tab[(k + 1) + i - 1]
    <3> DEFINE S == {f.tab[j] : j \in 1..n}
    <3>1. \A i \in (k + 1)..n : f.tab[i] \in S
      BY <2>1
    <3> HIDE DEF S, n, k
    <3>2. k + 1 \in Int /\ n \in Int
      BY <1>1, <1>2
    <3>3. QED  BY <3>1, <3>2, SubSeqProperties
  <2>3. IsTable(later)
    BY <1>1, <1>2, TableFrom
  <2> HIDE DEF later, n, k
  <2>4. Len(later) = n - k
    BY <1>1, <1>2, <2>2
  <2>5. ASSUME NEW i \in 1..(n - k) PROVE later[i] = f.tab[k + i]
    <3>1. i \in 1..(n - (k + 1) + 1) /\ (k + 1) + i - 1 = k + i
      BY <1>1, <1>2
    <3>2. QED  BY <2>2, <3>1
  <2>6. QED  BY <2>3, <2>4, <2>5
<1>6. SelfBind(f, p, TRUE) = Then(f, ~MountOf(f, p).unbindable, g)
  BY DEF SelfBind
<1> HIDE DEF own, later, n, k
<1>7. /\ IsTable(f.tab \o <<own>>) /\ Len(f.tab \o <<own>>) = n + 1
      /\ \A i \in 1..n : (f.tab \o <<own>>)[i] = f.tab[i]
      /\ (f.tab \o <<own>>)[n + 1] = own
  <2>1. IsTable(<<own>>) /\ <<own>>[1] = own /\ Len(<<own>>) = 1
    BY <1>4, TableOfOne
  <2>2. QED  BY <1>1, <2>1, TableConcat DEF n
<1>8. /\ IsTable(t) /\ Len(t) = n + 1 + (n - k)
      /\ \A i \in 1..n : t[i] = f.tab[i]
      /\ t[n + 1] = own
      /\ \A i \in 1..(n - k) : t[n + 1 + i] = f.tab[k + i]
  <2> DEFINE u == f.tab \o <<own>>
  <2>1. t = u \o later
    OBVIOUS
  <2>2. IsTable(u) /\ Len(u) = n + 1 /\ (\A i \in 1..n : u[i] = f.tab[i]) /\ u[n + 1] = own
    BY <1>7
  <2> HIDE DEF u, t
  <2>3. /\ IsTable(t) /\ Len(t) = Len(u) + Len(later)
        /\ \A i \in 1..Len(u) : t[i] = u[i]
        /\ \A i \in 1..Len(later) : t[Len(u) + i] = later[i]
    <3> DEFINE Joined(v) == /\ IsTable(v) /\ Len(v) = Len(u) + Len(later)
                            /\ \A i \in 1..Len(u) : v[i] = u[i]
                            /\ \A i \in 1..Len(later) : v[Len(u) + i] = later[i]
    <3>1. IsTable(later)
      BY <1>5
    <3>2. Joined(u \o later)
      BY <2>2, <3>1, TableConcat
    <3> HIDE DEF Joined
    <3>3. Joined(t)
      BY <2>1, <3>2
    <3>4. QED  BY <3>3 DEF Joined
  <2>4. Len(t) = n + 1 + (n - k)
    BY <1>1, <1>2, <1>5, <2>2, <2>3
  <2>5. \A i \in 1..n : t[i] = f.tab[i]
    BY <1>1, <2>2, <2>3
  <2>6. t[n + 1] = own
    BY <1>1, <2>2, <2>3
  <2>7. \A i \in 1..(n - k) : t[n + 1 + i] = f.tab[k + i]
    BY <1>5, <2>2, <2>3
  <2>8. QED  BY <2>3, <2>4, <2>5, <2>6, <2>7
<1> HIDE DEF t
<1>9. g.tab = t /\ g.has = f.has
  BY <1>1, TabIs
<1> HIDE DEF g
<1>10. SelfBind(f, p, TRUE) = g
  <2> DEFINE can == ~MountOf(f, p).unbindable
  <2>1. SelfBind(f, p, TRUE) = Then(f, can, g) /\ Then(f, can, g).ok
    BY <1>6
  <2> HIDE DEF can
  <2>2. Then(f, can, g) = g
    BY <1>1, <2>1, ThenOk
  <2>3. QED  BY <2>1, <2>2
<1>11. \A i \in 1..Len(t) : \/ i \in 1..n /\ t[i] = f.tab[i]
                            \/ i = n + 1 /\ t[i] = own
                            \/ i - (n + 1) \in 1..(n - k) /\ t[i] = f.tab[k + (i - (n + 1))]
  <2> TAKE i \in 1..Len(t)
  <2>1. CASE i <= n
    BY <1>1, <1>8, <2>1
  <2>2. CASE i = n + 1
    BY <1>8, <2>2
  <2>3. CASE i > n + 1
    <3>1. i - (n + 1) \in 1..(n - k) /\ i = n + 1 + (i - (n + 1))
      BY <1>1, <1>2, <1>8, <2>3
    <3>2. QED  BY <1>8, <3>1
  <2>4. QED  BY <1>1, <2>1, <2>2, <2>3
<1>12. ASSUME NEW q \in Paths
       PROVE  /\ MountOf(g, q).fs = MountOf(f, q).fs /\ MountOf(g, q).ro = MountOf(f, q).ro
              /\ \/ MountOf(g, q).at = MountOf(f, q).at
                 \/ MountOf(g, q).at = p /\ IsPrefix(p, q) /\ IsPrefix(MountOf(f, q).at, p)
  <2> DEFINE i == Top(f, q)
  <2>1. i \in 1..n /\ IsPrefix(f.tab[i].at, q) /\ \A j \in 1..n : IsPrefix(f.tab[j].at, q) => j <= i
    BY TopThere DEF IsTop, n
  <2>2. MountOf(f, q) = f.tab[i]
    BY DEF MountOf
  <2> HIDE DEF i
  <2>3. ASSUME NEW x \in 1..Len(t), IsPrefix(t[x].at, q),
               \A j \in 1..Len(t) : IsPrefix(t[j].at, q) => j <= x
        PROVE  MountOf(g, q) = t[x]
    <3>1. Top(g, q) = x
      BY <1>8, <1>9, <2>3, TopIs DEF IsTop
    <3>2. QED  BY <1>9, <3>1 DEF MountOf
  <2>4. \A j \in 1..n : j <= n
    OBVIOUS
  <2>5. CASE i > k
    <3> DEFINE x == n + 1 + (i - k)
    <3>1. i - k \in 1..(n - k) /\ x \in 1..Len(t) /\ k + (i - k) = i
      <4>1. n \in Nat /\ k \in 1..n /\ i \in 1..n /\ i > k /\ Len(t) = n + 1 + (n - k)
        BY <1>1, <1>2, <1>8, <2>1, <2>5
      <4>2. QED  BY <4>1
    <3>2. t[x] = f.tab[i]
      BY <1>8, <3>1
    <3>3. ASSUME NEW j \in 1..Len(t), IsPrefix(t[j].at, q) PROVE j <= x
      <4>1. CASE j \in 1..(n + 1)
        BY <1>1, <3>1, <4>1
      <4>2. CASE j - (n + 1) \in 1..(n - k) /\ t[j] = f.tab[k + (j - (n + 1))]
        <5>1. k + (j - (n + 1)) \in 1..n
          BY <1>1, <1>2, <4>2
        <5>2. k + (j - (n + 1)) <= i
          BY <2>1, <3>3, <4>2, <5>1
        <5>3. QED  BY <1>1, <1>2, <2>1, <3>1, <5>2
      <4>3. QED  BY <1>1, <1>11, <4>1, <4>2
    <3> HIDE DEF x
    <3>4. MountOf(g, q) = t[x]
      BY <2>1, <2>3, <3>1, <3>2, <3>3
    <3>5. QED  BY <2>2, <3>2, <3>4
  <2>6. ASSUME i <= k, NEW j \in 1..(n - k) PROVE ~IsPrefix(f.tab[k + j].at, q)
    <3>1. k + j \in 1..n /\ ~(k + j <= i)
      BY <1>1, <1>2, <2>1, <2>6
    <3>2. QED  BY <2>1, <3>1
  <2>7. CASE i <= k /\ IsPrefix(p, q)
    <3>1. IsPrefix(f.tab[k].at, q)
      <4>1. f.tab[k].at \in Paths
        BY <1>2 DEF Fine, n
      <4>2. QED  BY <1>2, <2>7, <4>1, PrefixOrder
    <3>2. i = k
      BY <1>1, <1>2, <2>1, <2>7, <3>1
    <3>3. n + 1 \in 1..Len(t) /\ IsPrefix(t[n + 1].at, q)
      BY <1>1, <1>2, <1>4, <1>8, <2>7
    <3>4. ASSUME NEW j \in 1..Len(t), IsPrefix(t[j].at, q) PROVE j <= n + 1
      BY <1>1, <1>11, <2>6, <2>7, <3>4
    <3>5. MountOf(g, q) = own
      BY <1>8, <2>3, <3>3, <3>4
    <3>6. QED  BY <1>2, <1>4, <2>2, <2>7, <3>2, <3>5
  <2>8. CASE i <= k /\ ~IsPrefix(p, q)
    <3>1. i \in 1..Len(t) /\ t[i] = f.tab[i]
      BY <1>1, <1>2, <1>8, <2>1
    <3>2. ASSUME NEW j \in 1..Len(t), IsPrefix(t[j].at, q) PROVE j <= i
      <4>1. CASE j \in 1..n /\ t[j] = f.tab[j]
        BY <2>1, <3>2, <4>1
      <4>2. CASE j = n + 1 /\ t[j] = own
        BY <1>4, <2>8, <3>2, <4>2
      <4>3. CASE j - (n + 1) \in 1..(n - k) /\ t[j] = f.tab[k + (j - (n + 1))]
        BY <2>6, <2>8, <3>2, <4>3
      <4>4. QED  BY <1>11, <4>1, <4>2, <4>3
    <3>3. MountOf(g, q) = f.tab[i]
      BY <2>1, <2>3, <3>1, <3>2
    <3>4. QED  BY <2>2, <3>3
  <2>9. QED  BY <1>1, <1>2, <2>1, <2>5, <2>7, <2>8
<1>13. Fine(g)
  <2>1. FsTyped(g) /\ HasRoot(g)
    <3>1. Keeps(f, g)
      <4>1. Keeps(f, SelfBind(f, p, TRUE))
        BY SelfBindKeeps DEF Fine, Paths
      <4>2. QED  BY <1>10, <4>1
    <3>2. QED  BY <3>1 DEF Keeps, Fine
  <2>2. ASSUME NEW i \in 1..Len(t) PROVE t[i].at \in Paths
    <3>1. CASE i \in 1..n /\ t[i] = f.tab[i]
      BY <3>1 DEF Fine, n
    <3>2. CASE t[i] = own
      BY <1>4, <3>2
    <3>3. CASE i - (n + 1) \in 1..(n - k) /\ t[i] = f.tab[k + (i - (n + 1))]
      <4>1. k + (i - (n + 1)) \in 1..n
        BY <1>1, <1>2, <3>3
      <4>2. QED  BY <3>3, <4>1 DEF Fine, n
    <3>4. QED  BY <1>11, <3>1, <3>2, <3>3
  <2>3. QED  BY <1>9, <2>1, <2>2 DEF Fine
<1>14. MountOf(g, p).at = p
  <2>1. Top(g, p) = n + 1
    <3>1. n + 1 \in 1..Len(t) /\ IsPrefix(t[n + 1].at, p)
      BY <1>1, <1>2, <1>4, <1>8, PrefixOrder
    <3>2. ASSUME NEW j \in 1..(n - k) PROVE ~IsPrefix(f.tab[k + j].at, p)
      <4>1. k + j \in 1..n /\ ~(k + j <= k)
        BY <1>1, <1>2
      <4>2. QED  BY <1>2, <4>1
    <3>3. ASSUME NEW j \in 1..Len(t), IsPrefix(t[j].at, p) PROVE j <= n + 1
      BY <1>1, <1>11, <3>2, <3>3
    <3>4. QED  BY <1>8, <1>9, <3>1, <3>3, TopIs DEF IsTop
  <2>2. QED  BY <1>4, <1>8, <1>9, <2>1 DEF MountOf
<1>15. ASSUME Bindable(f) PROVE Bindable(g)
  <2>1. \A i \in 1..n : f.tab[i].unbindable = FALSE
    BY <1>15 DEF Bindable, n
  <2>2. own.unbindable = FALSE
    BY <1>2, <1>3, <2>1 DEF own, IsMount
  <2>3. ASSUME NEW i \in 1..Len(t) PROVE t[i].unbindable = FALSE
    <3>1. CASE i - (n + 1) \in 1..(n - k) /\ t[i] = f.tab[k + (i - (n + 1))]
      <4>1. k + (i - (n + 1)) \in 1..n
        BY <1>1, <1>2, <3>1
      <4>2. QED  BY <2>1, <3>1, <4>1
    <3>2. QED  BY <1>11, <2>1, <2>2, <3>1
  <2>4. QED  BY <1>9, <2>3 DEF Bindable
<1>16. QED  BY <1>9, <1>10, <1>12, <1>13, <1>14, <1>15

-----------------------------------------------------------------------------
(***************************************************************************)
(* The operations once more: which mounts and which names they leave.      *)
(***************************************************************************)
\* A mount that is read-only and seen at a path, with every directory on the way to it.
Held(f, at) ==
    /\ MountOf(f, at).at = at /\ MountOf(f, at).ro
    /\ \A q \in Paths : IsPrefix(q, at) => Exists(f, q)

LEMMA RootExists == ASSUME NEW f, Fine(f) PROVE Exists(f, <<>>)
<1> DEFINE none == <<>>
           i == Top(f, none)
<1>1. none \in Paths
  BY EmptySeq DEF Paths
<1>2. IsTop(f.tab, none, i)
  BY <1>1, TopThere
<1>3. MountOf(f, none) = f.tab[i]
  BY DEF MountOf
<1> HIDE DEF i
<1>4. f.tab[i].at \in Paths /\ IsPrefix(f.tab[i].at, none)
  BY <1>2 DEF IsTop, Fine
<1>5. MountOf(f, none).at = none
  BY <1>3, <1>4, PrefixOfRoot
<1>6. QED  BY <1>5, ExistsIs

LEMMA PrefixSub ==
    ASSUME NEW p \in Paths, NEW q \in Paths, IsPrefix(q, p), q # <<>>
    PROVE  Len(q) \in 1..Len(p) /\ SubSeq(p, 1, Len(q)) = q
<1> DEFINE n == Len(q)
           s == SubSeq(p, 1, n)
<1>1. n \in Nat /\ Len(p) \in Nat /\ n # 0
  BY LenProperties, EmptySeq DEF Paths
<1>2. n <= Len(p) /\ \A i \in 1..n : q[i] = p[i]
  BY PrefixIs
<1>3. \A i \in 1..n : p[i] \in Names
  BY <1>1, <1>2, ElementOfSeq DEF Paths
<1>4. s \in Seq(Names) /\ Len(s) = n /\ \A i \in 1..n : s[i] = p[i]
  <2> HIDE DEF n
  <2>1. QED  BY <1>1, <1>3, SubSeqProperties
<1>5. s = q
  <2> HIDE DEF s
  <2>1. QED  BY <1>2, <1>4, SeqEqual DEF Paths
<1>6. QED  BY <1>1, <1>2, <1>5

\* What is made is there afterwards, with all directories on the way.
LEMMA MakeSees ==
    ASSUME NEW f, Fine(f), NEW p \in Paths, Make(f, p).ok
    PROVE  LET g == Make(f, p)
           IN  /\ Sees(f, g) /\ f.ok
               /\ \A q \in Paths : MountOf(g, q) = MountOf(f, q)
               /\ \A q \in Paths : IsPrefix(q, p) => Exists(g, q)
<1> DEFINE missing == {j \in 1..Len(p) : ~Exists(f, SubSeq(p, 1, j))}
           new == {SubSeq(p, 1, i) : i \in missing}
           more == f.has \cup {[fs |-> MountOf(f, q).fs, path |-> q] : q \in new}
           after == [f EXCEPT !.has = more]
           g == Make(f, p)
<1>1. g = IF new = {} THEN f ELSE Then(f, Holds(f, p), after)
  BY DEF Make
<1>2. FsTyped(f) /\ FsTyped(g)
  BY MakeKeeps DEF Fine, Plainly, Keeps
<1>3. ASSUME NEW q \in Paths, IsPrefix(q, p) PROVE Exists(f, q) \/ q \in new
  <2>1. CASE q = <<>>
    BY <2>1, RootExists
  <2>2. CASE q # <<>>
    <3>1. Len(q) \in 1..Len(p) /\ SubSeq(p, 1, Len(q)) = q
      BY <1>3, <2>2, PrefixSub
    <3>2. ~Exists(f, q) => Len(q) \in missing
      BY <3>1
    <3> HIDE DEF missing
    <3>3. QED  BY <3>1, <3>2
  <2>3. QED  BY <2>1, <2>2
<1>4. CASE new = {}
  <2> HIDE DEF new
  <2>1. g = f
    BY <1>1, <1>4
  <2> HIDE DEF g
  <2>2. Sees(f, g)
    BY <2>1 DEF Sees
  <2>3. QED  BY <1>3, <1>4, <2>1, <2>2 DEF g
<1>5. CASE new # {}
  <2> DEFINE can == Holds(f, p)
  <2>1. g = Then(f, can, after)
    BY <1>1, <1>5
  <2>2. Then(f, can, after).ok
    BY <2>1
  <2> HIDE DEF can, after
  <2>3. g = after /\ f.ok
    BY <1>2, <2>1, <2>2, ThenOk
  <2>4. \A q \in new : [fs |-> MountOf(f, q).fs, path |-> q] \in more
    OBVIOUS
  <2> HIDE DEF new, more
  <2>5. after.tab = f.tab /\ after.has = more /\ f.has \subseteq more
    BY <1>2, HasIs DEF after, more
  <2> HIDE DEF g
  <2>6. Sees(f, g) /\ \A q \in Paths : MountOf(g, q) = MountOf(f, q)
    BY <1>2, <2>3, <2>5, SameTabSees
  <2>7. ASSUME NEW q \in Paths, IsPrefix(q, p) PROVE Exists(g, q)
    <3>1. CASE Exists(f, q)
      BY <2>6, <3>1, SeesNames
    <3>2. CASE q \in new
      BY <2>3, <2>4, <2>5, <2>6, <3>2, ExistsIs DEF Sees
    <3>3. QED  BY <1>3, <2>7, <3>1, <3>2
  <2>8. QED  BY <2>3, <2>6, <2>7 DEF g
<1>6. QED  BY <1>4, <1>5

\* What holds a mount.
LEMMA HeldSees ==
    ASSUME NEW f, NEW g, Fine(f), Sees(f, g), NEW at \in Paths, Held(f, at),
           MountOf(f, at).ro => MountOf(g, at).ro
    PROVE  Held(g, at)
<1>1. \A q \in Paths : IsPrefix(q, at) => Exists(g, q)
  BY SeesNames DEF Held
<1>2. MountOf(g, at).at = at /\ MountOf(g, at).ro
  BY DEF Held, Sees
<1>3. QED  BY <1>1, <1>2 DEF Held

LEMMA HeldAdd ==
    ASSUME NEW f, Fine(f), NEW fs, NEW new \in Paths, NEW ro \in BOOLEAN, NEW at \in Paths,
           Held(f, at), ~IsPrefix(new, at)
    PROVE  Held(Add(f, fs, new, ro), at)
<1> DEFINE g == Add(f, fs, new, ro)
<1>0. Covered(f, g, fs, new, ro)
  BY AddSees
<1> HIDE DEF g
<1>1. /\ Fine(g) /\ f.has \subseteq g.has
      /\ \A p \in Paths : MountOf(g, p) = IF IsPrefix(new, p) THEN Mounted(fs, new, ro) ELSE MountOf(f, p)
  BY <1>0 DEF Covered
<1>2. ASSUME NEW q \in Paths, IsPrefix(q, at) PROVE Exists(g, q)
  <2>1. ~IsPrefix(new, q)
    BY <1>2, PrefixOrder
  <2>2. MountOf(g, q) = MountOf(f, q) /\ Exists(f, q)
    BY <1>1, <1>2, <2>1 DEF Held
  <2>3. QED  BY <1>1, <2>2, ExistsIs
<1>3. MountOf(g, at) = MountOf(f, at)
  BY <1>1 DEF Held
<1>4. Held(g, at)
  BY <1>2, <1>3 DEF Held
<1>5. QED  BY <1>4 DEF g

\* A new mount is held if it is read-only.
LEMMA HeldNew ==
    ASSUME NEW f, Fine(f), NEW fs, NEW at \in Paths, \A q \in Paths : IsPrefix(q, at) => Exists(f, q)
    PROVE  Held(Add(f, fs, at, TRUE), at)
<1> DEFINE ro == TRUE
           g == Add(f, fs, at, ro)
<1>1. ro \in BOOLEAN /\ ro
  OBVIOUS
<1> HIDE DEF ro
<1>0. Covered(f, g, fs, at, ro)
  BY <1>1, AddSees
<1> HIDE DEF g
<1>2. /\ Fine(g) /\ f.has \subseteq g.has
      /\ \A p \in Paths : MountOf(g, p) = IF IsPrefix(at, p) THEN Mounted(fs, at, ro) ELSE MountOf(f, p)
  BY <1>0 DEF Covered
<1>3. MountOf(g, at) = Mounted(fs, at, ro)
  BY <1>2, PrefixOrder
<1>4. MountOf(g, at).at = at /\ MountOf(g, at).ro
  BY <1>1, <1>3 DEF Mounted
<1>5. ASSUME NEW q \in Paths, IsPrefix(q, at) PROVE Exists(g, q)
  <2>1. CASE IsPrefix(at, q)
    <3>1. q = at
      BY <1>5, <2>1, PrefixOrder
    <3>2. QED  BY <1>2, <1>4, <3>1, ExistsIs
  <2>2. CASE ~IsPrefix(at, q)
    <3>1. MountOf(g, q) = MountOf(f, q) /\ Exists(f, q)
      BY <1>2, <1>5, <2>2
    <3>2. QED  BY <1>2, <3>1, ExistsIs
  <2>3. QED  BY <2>1, <2>2
<1>6. QED  BY <1>4, <1>5 DEF Held, g, ro

\* Another attribute of a mount.
LEMMA UnbindableSees ==
    ASSUME NEW f, Fine(f), NEW p \in Paths, NEW un
    PROVE  LET g == [f EXCEPT !.tab[Top(f, p)].unbindable = un]
           IN  Sees(f, g) /\ g.has = f.has /\ \A q \in Paths : MountOf(g, q).ro = MountOf(f, q).ro
<1> DEFINE i == Top(f, p)
           t == [f.tab EXCEPT ![i].unbindable = un]
           g == [f EXCEPT !.tab = t]
<1>1. [f EXCEPT !.tab[Top(f, p)].unbindable = un] = g
  BY DEF Fine, FsTyped
<1>2. /\ Len(f.tab) \in Nat /\ DOMAIN f.tab = 1..Len(f.tab) /\ IsTable(f.tab)
      /\ \A j \in 1..Len(f.tab) : IsMount(f.tab[j])
  BY TableIs DEF Fine, FsTyped
<1>3. \A j \in DOMAIN f.tab : t[j] \in {f.tab[j], [f.tab[j] EXCEPT !.unbindable = un]}
  OBVIOUS
<1>4. \A j \in 1..Len(f.tab) : /\ t[j].fs = f.tab[j].fs /\ t[j].at = f.tab[j].at /\ t[j].ro = f.tab[j].ro
                               /\ IsMount(t[j])
  <2> TAKE j \in 1..Len(f.tab)
  <2>1. IsMount(f.tab[j])
    BY <1>2
  <2>2. QED  BY <1>2, <1>3, <2>1 DEF IsMount
<1>5. DOMAIN t = DOMAIN f.tab /\ t = [j \in DOMAIN f.tab |-> t[j]]
  OBVIOUS
<1> HIDE DEF t, i
<1>6. Len(t) = Len(f.tab) /\ IsTable(t)
  BY <1>2, <1>4, <1>5, TableMapped
<1>7. g.tab = t /\ g.has = f.has
  BY TabIs DEF Fine
<1>8. Keeps(f, g)
  BY <1>4, <1>6, TabKeeps DEF Plainly, Fine
<1> HIDE DEF g
<1>9. \A q \in Paths : /\ Top(f, q) \in 1..Len(f.tab)
                       /\ MountOf(g, q) = t[Top(f, q)] /\ MountOf(f, q) = f.tab[Top(f, q)]
  BY <1>4, <1>6, <1>7, SamePlaces
<1>10. Fine(g)
  BY <1>4, <1>6, <1>7, <1>8 DEF Keeps, Fine
<1>11. QED  BY <1>1, <1>4, <1>7, <1>9, <1>10 DEF Sees
\* A mount call with these flags adds a mount; with those it makes one writable.
Adds(flags) == "remount" \notin flags /\ ("bind" \in flags \/ flags \cap {"private", "slave", "shared", "unbindable"} = {})
Frees(flags) == "remount" \in flags /\ "ro" \notin flags

\* A read-only mount that is added is held, and what was held is unless it is covered or freed.
Bears(f, g, flags, at) ==
    /\ Fine(g)
    /\ Adds(flags) /\ "ro" \in flags /\ "bind" \notin flags => Held(g, at)
    /\ \A p \in Paths :
          Held(f, p) /\ ~(Adds(flags) /\ IsPrefix(at, p)) /\ ~(Frees(flags) /\ p = at) => Held(g, p)

LEMMA AddBears ==
    ASSUME NEW f, Fine(f), NEW fs, NEW at \in Paths, NEW ro \in BOOLEAN, NEW flags, Adds(flags),
           \A q \in Paths : IsPrefix(q, at) => Exists(f, q),
           "ro" \in flags /\ "bind" \notin flags => ro = TRUE
    PROVE  Bears(f, Add(f, fs, at, ro), flags, at)
<1> DEFINE g == Add(f, fs, at, ro)
<1>1. Covered(f, g, fs, at, ro)
  BY AddSees
<1>2. Fine(g)
  BY <1>1 DEF Covered
<1>3. "ro" \in flags /\ "bind" \notin flags => Held(g, at)
  BY HeldNew
<1>4. \A p \in Paths : Held(f, p) /\ ~IsPrefix(at, p) => Held(g, p)
  BY HeldAdd
<1>5. QED  BY <1>2, <1>3, <1>4 DEF Bears

LEMMA RemountBears ==
    ASSUME NEW f, Fine(f), NEW at \in Paths, NEW flags, "remount" \in flags, MountPoint(f, at)
    PROVE  Bears(f, SetRo(f, at, "ro" \in flags), flags, at)
<1> DEFINE ro == "ro" \in flags
           g == SetRo(f, at, ro)
<1>1. ro \in BOOLEAN /\ (ro <=> "ro" \in flags)
  OBVIOUS
<1> HIDE DEF ro
<1>2. /\ Sees(f, g) /\ g.has = f.has
      /\ \A q \in Paths : MountOf(g, q).ro = IF Top(f, q) = Top(f, at) THEN ro ELSE MountOf(f, q).ro
  BY <1>1, SetRoSees DEF Flagged
<1> HIDE DEF g
<1>3. ASSUME NEW p \in Paths, Held(f, p), ~(Frees(flags) /\ p = at) PROVE Held(g, p)
  <2>1. CASE Top(f, p) = Top(f, at)
    <3>1. MountOf(f, p) = MountOf(f, at)
      BY <2>1 DEF MountOf
    <3>2. p = at
      BY <1>3, <3>1 DEF Held, MountPoint
    <3>3. ro
      BY <1>1, <1>3, <3>2 DEF Frees
    <3>4. MountOf(g, p).ro
      BY <1>2, <2>1, <3>3
    <3>5. QED  BY <1>2, <1>3, <3>4, HeldSees
  <2>2. CASE Top(f, p) # Top(f, at)
    <3>1. MountOf(g, p).ro = MountOf(f, p).ro
      BY <1>2, <2>2
    <3>2. QED  BY <1>2, <1>3, <3>1, HeldSees
  <2>3. QED  BY <2>1, <2>2
<1>4. ~Adds(flags)
  BY DEF Adds
<1>5. Bears(f, g, flags, at)
  BY <1>2, <1>3, <1>4 DEF Bears, Sees
<1>6. QED  BY <1>5 DEF g, ro

LEMMA MountBears ==
    ASSUME NEW f, Fine(f), NEW m, NEW at \in Paths, NEW fstype, NEW flags, NEW able,
           \A q \in Paths : IsPrefix(q, at) => Exists(f, q),
           Mount(f, m, at, fstype, flags, able).ok
    PROVE  Bears(f, Mount(f, m, at, fstype, flags, able), flags, at) /\ f.ok
<1> DEFINE props == flags \cap {"private", "slave", "shared", "unbindable"}
           ro == "ro" \in flags
           un == "unbindable" \in props
           bound == Fs(IF m.source = "file" THEN "hostfile" ELSE "hostdir", m.source, at)
           new == NewFs(f, fstype, m.source, at)
           no == FALSE
           there == MountPoint(f, at)
           found == m.source # "gone"
           changes == flags \ props \subseteq {"rec"} /\ MountPoint(f, at)
           may == fstype \in DOMAIN Governs /\ Governs[fstype] \in able
           remounted == SetRo(f, at, ro)
           bind1 == Add(f, bound, at, no)
           changed == [f EXCEPT !.tab[Top(f, at)].unbindable = un]
           mounted == Add(f, new, at, ro)
           g == Mount(f, m, at, fstype, flags, able)
<1>1. g = IF "remount" \in flags THEN Then(f, there, remounted)
          ELSE IF "bind" \in flags THEN Then(f, found, bind1)
          ELSE IF props # {} THEN Then(f, changes, changed) ELSE Then(f, may, mounted)
  BY DEF Mount
<1>2. g.ok /\ FsTyped(f)
  BY DEF Fine
<1>3. CASE "remount" \in flags
  <2>1. there => Bears(f, remounted, flags, at)
    BY <1>3, RemountBears
  <2> HIDE DEF remounted, there, g
  <2>2. g = Then(f, there, remounted) /\ Then(f, there, remounted).ok
    BY <1>1, <1>2, <1>3
  <2>3. g = remounted /\ there /\ f.ok
    BY <1>2, <2>2, ThenOk
  <2>4. QED  BY <2>1, <2>3 DEF g
<1>4. CASE "remount" \notin flags /\ "bind" \in flags
  <2>1. Adds(flags) /\ no \in BOOLEAN /\ ~no
    BY <1>4 DEF Adds
  <2> HIDE DEF no, bound
  <2>2. Bears(f, bind1, flags, at)
    BY <1>4, <2>1, AddBears
  <2> HIDE DEF bind1, found, g
  <2>3. g = Then(f, found, bind1) /\ Then(f, found, bind1).ok
    BY <1>1, <1>2, <1>4
  <2>4. g = bind1 /\ f.ok
    BY <1>2, <2>3, ThenOk
  <2>5. QED  BY <2>2, <2>4 DEF g
<1>5. CASE "remount" \notin flags /\ "bind" \notin flags /\ props # {}
  <2>1. ~Adds(flags) /\ ~Frees(flags)
    BY <1>5 DEF Adds, Frees
  <2> HIDE DEF un
  <2>2. Sees(f, changed) /\ \A q \in Paths : MountOf(changed, q).ro = MountOf(f, q).ro
    BY UnbindableSees
  <2> HIDE DEF changed
  <2>3. \A p \in Paths : Held(f, p) => Held(changed, p)
    BY <2>2, HeldSees
  <2>4. Bears(f, changed, flags, at)
    BY <2>1, <2>2, <2>3 DEF Bears, Sees
  <2> HIDE DEF changes, g, props
  <2>5. g = Then(f, changes, changed) /\ Then(f, changes, changed).ok
    BY <1>1, <1>2, <1>5
  <2>6. g = changed /\ f.ok
    BY <1>2, <2>5, ThenOk
  <2>7. QED  BY <2>4, <2>6 DEF g
<1>6. CASE "remount" \notin flags /\ "bind" \notin flags /\ props = {}
  <2>1. Adds(flags) /\ ro \in BOOLEAN /\ (ro <=> "ro" \in flags)
    BY <1>6 DEF Adds
  <2> HIDE DEF ro, new
  <2>2. Bears(f, mounted, flags, at)
    BY <1>6, <2>1, AddBears
  <2> HIDE DEF mounted, may, g, props
  <2>3. g = Then(f, may, mounted) /\ Then(f, may, mounted).ok
    BY <1>1, <1>2, <1>6
  <2>4. g = mounted /\ f.ok
    BY <1>2, <2>3, ThenOk
  <2>5. QED  BY <2>2, <2>4 DEF g
<1>7. QED  BY <1>3, <1>4, <1>5, <1>6
LEMMA MountOk ==
    ASSUME NEW f, FsTyped(f), NEW m, NEW at, NEW fstype, NEW flags, NEW able,
           Mount(f, m, at, fstype, flags, able).ok
    PROVE  f.ok
<1> DEFINE props == flags \cap {"private", "slave", "shared", "unbindable"}
           un == "unbindable" \in props
           bound == Fs(IF m.source = "file" THEN "hostfile" ELSE "hostdir", m.source, at)
           there == MountPoint(f, at)
           found == m.source # "gone"
           changes == flags \ props \subseteq {"rec"} /\ MountPoint(f, at)
           may == fstype \in DOMAIN Governs /\ Governs[fstype] \in able
           remounted == SetRo(f, at, "ro" \in flags)
           bind1 == Add(f, bound, at, FALSE)
           changed == [f EXCEPT !.tab[Top(f, at)].unbindable = un]
           mounted == Add(f, NewFs(f, fstype, m.source, at), at, "ro" \in flags)
           g == Mount(f, m, at, fstype, flags, able)
<1>1. g \in {Then(f, there, remounted), Then(f, found, bind1), Then(f, changes, changed), Then(f, may, mounted)}
  BY DEF Mount
<1>2. g.ok
  OBVIOUS
<1> HIDE DEF there, found, changes, may, remounted, bind1, changed, mounted, g
<1>3. QED  BY <1>1, <1>2, ThenOk

LEMMA HasSees ==
    ASSUME NEW f, Fine(f), NEW has, f.has \subseteq has
    PROVE  LET g == [f EXCEPT !.has = has]
           IN  Sees(f, g) /\ g.has = has /\ \A q \in Paths : MountOf(g, q) = MountOf(f, q)
<1> DEFINE g == [f EXCEPT !.has = has]
<1>1. FsTyped(f)
  BY DEF Fine
<1>2. g.tab = f.tab /\ g.has = has
  BY <1>1, HasIs
<1>3. FsTyped(g)
  BY <1>1, HasKeeps DEF Plainly, Keeps
<1> HIDE DEF g
<1>4. Sees(f, g) /\ \A q \in Paths : MountOf(g, q) = MountOf(f, q)
  BY <1>2, <1>3, SameTabSees
<1>5. QED  BY <1>2, <1>4 DEF g

\* Nothing less is seen, and nothing can be written that could not.
Shows(f, g) == Sees(f, g) /\ Tightens(f, g)

LEMMA ShowsSelf == ASSUME NEW f, Fine(f) PROVE Shows(f, f)
  BY DEF Shows, Sees, Tightens

LEMMA ShowsBoth == ASSUME NEW f, NEW g, NEW h, Shows(f, g), Shows(g, h) PROVE Shows(f, h)
  BY DEF Shows, Sees, Tightens

LEMMA ShowsHeld == ASSUME NEW f, NEW g, Fine(f), Shows(f, g), NEW p \in Paths, Held(f, p) PROVE Held(g, p)
  BY HeldSees DEF Shows, Tightens

LEMMA BearsBetween ==
    ASSUME NEW f, NEW f1, NEW g1, NEW g, NEW flags, NEW at \in Paths,
           Fine(f), Shows(f, f1), Bears(f1, g1, flags, at), Shows(g1, g)
    PROVE  Bears(f, g, flags, at)
<1>1. Fine(f1) /\ Fine(g1) /\ Fine(g)
  BY DEF Shows, Sees, Bears
<1>2. Adds(flags) /\ "ro" \in flags /\ "bind" \notin flags => Held(g, at)
  BY <1>1, ShowsHeld DEF Bears
<1>3. ASSUME NEW p \in Paths, Held(f, p), ~(Adds(flags) /\ IsPrefix(at, p)), ~(Frees(flags) /\ p = at)
      PROVE  Held(g, p)
  <2>1. Held(f1, p)
    BY <1>3, ShowsHeld
  <2>2. Held(g1, p)
    BY <1>3, <2>1 DEF Bears
  <2>3. QED  BY <1>1, <2>2, ShowsHeld
<1>4. QED  BY <1>1, <1>2, <1>3 DEF Bears

\* apply_one: the directories, the mount, and /dev/ptmx for a devpts.
LEMMA ApplyOneBears ==
    ASSUME NEW f, Fine(f), NEW m, resolve(m.destination) \in Paths, NEW able, apply_one(f, m, able).ok
    PROVE  Bears(f, apply_one(f, m, able), parse_options(m.options).flags, resolve(m.destination))
<1> DEFINE destination == resolve(m.destination)
           fstype == effective_fstype(m.typ)
           flags == parse_options(m.options).flags
           made == Make(f, destination)
           mounted == Mount(made, m, destination, fstype, flags, able)
           linked == link_ptmx(mounted)
           g == apply_one(f, m, able)
<1>1. g = IF mounted.ok /\ fstype = "devpts" THEN linked ELSE mounted
  BY DEF apply_one
<1>2. FsTyped(made) /\ destination \in Paths /\ g.ok
  BY MakeKeeps DEF Fine, Plainly, Keeps
<1> HIDE DEF destination, fstype, flags
<1>3. mounted.ok
  <2> HIDE DEF mounted, g
  <2>1. QED  BY <1>1, <1>2
<1>4. made.ok
  <2> HIDE DEF made
  <2>1. QED  BY <1>2, <1>3, MountOk
<1>5. /\ Sees(f, made)
      /\ \A q \in Paths : MountOf(made, q) = MountOf(f, q)
      /\ \A q \in Paths : IsPrefix(q, destination) => Exists(made, q)
  BY <1>2, <1>4, MakeSees
<1> HIDE DEF made
<1>6. Shows(f, made)
  BY <1>5 DEF Shows, Tightens
<1>7. Bears(made, mounted, flags, destination)
  BY <1>2, <1>3, <1>5, MountBears DEF Sees
<1> HIDE DEF mounted
<1>8. Fine(mounted) /\ FsTyped(mounted)
  BY <1>7 DEF Bears, Fine
<1>9. CASE g = mounted
  <2>1. Shows(mounted, g)
    BY <1>8, <1>9, ShowsSelf
  <2>2. Bears(f, g, flags, destination)
    BY <1>2, <1>6, <1>7, <2>1, BearsBetween
  <2>3. QED  BY <2>2 DEF g, flags, destination
<1>10. CASE g = linked
  <2> DEFINE can == Exists(mounted, <<"dev">>) /\ Holds(mounted, <<"dev", "ptmx">>)
             has == mounted.has \cup {[fs |-> MountOf(mounted, <<"dev", "ptmx">>).fs, path |-> <<"dev", "ptmx">>]}
             after == [mounted EXCEPT !.has = has]
  <2>1. linked = Then(mounted, can, after)
    BY <1>8 DEF link_ptmx, FsTyped, FsShape
  <2>2. mounted.has \subseteq has
    OBVIOUS
  <2> HIDE DEF has, can
  <2>3. Shows(mounted, after)
    BY <1>8, <2>2, HasSees DEF Shows, Tightens
  <2> HIDE DEF after, linked, g
  <2>4. g = after
    BY <1>2, <1>8, <1>10, <2>1, ThenOk
  <2>5. Bears(f, g, flags, destination)
    BY <1>2, <1>6, <1>7, <2>3, <2>4, BearsBetween
  <2>6. QED  BY <2>5 DEF g, flags, destination
<1>11. QED  BY <1>1, <1>9, <1>10
-----------------------------------------------------------------------------
(***************************************************************************)
(* The steps that build the tree leave what is held.                       *)
(***************************************************************************)
Leaves(f, g) == Fine(g) /\ \A p \in Paths : Held(f, p) => Held(g, p)

LEMMA ShowsLeaves == ASSUME NEW f, NEW g, Fine(f), Shows(f, g) PROVE Leaves(f, g)
  BY ShowsHeld DEF Leaves, Shows, Sees

LEMMA MakeOk == ASSUME NEW f, FsTyped(f), NEW p, Make(f, p).ok PROVE f.ok
<1> DEFINE new == {SubSeq(p, 1, i) : i \in {j \in 1..Len(p) : ~Exists(f, SubSeq(p, 1, j))}}
           more == f.has \cup {[fs |-> MountOf(f, q).fs, path |-> q] : q \in new}
           after == [f EXCEPT !.has = more]
           can == Holds(f, p)
           g == Make(f, p)
<1>1. g = IF new = {} THEN f ELSE Then(f, can, after)
  BY DEF Make
<1>2. g.ok
  OBVIOUS
<1> HIDE DEF new, after, can, g
<1>3. QED  BY <1>1, <1>2, ThenOk

LEMMA MakeShows == ASSUME NEW f, Fine(f), NEW p \in Paths, Make(f, p).ok PROVE Shows(f, Make(f, p)) /\ f.ok
<1> DEFINE g == Make(f, p)
<1>1. Sees(f, g) /\ f.ok /\ \A q \in Paths : MountOf(g, q) = MountOf(f, q)
  BY MakeSees
<1> HIDE DEF g
<1>2. Shows(f, g)
  BY <1>1 DEF Shows, Tightens
<1>3. QED  BY <1>1, <1>2 DEF g

LEMMA FrontIs == ASSUME NEW p \in Paths, p # <<>> PROVE Front(p) \in Paths
<1> DEFINE n == Len(p) - 1
<1>1. Len(p) \in Nat /\ Len(p) # 0
  BY LenProperties, EmptySeq DEF Paths
<1>2. \A i \in 1..n : p[i] \in Names
  BY <1>1, ElementOfSeq DEF Paths
<1>3. n \in Int
  BY <1>1
<1> HIDE DEF n
<1>4. SubSeq(p, 1, n) \in Seq(Names)
  BY <1>2, <1>3, SubSeqProperties
<1>5. QED  BY <1>4 DEF Front, n, Paths

\* A node is bound only where nothing is, so that no mount is below it.
LEMMA NodeLeaves ==
    ASSUME NEW f, Fine(f), NEW target \in Paths, NEW onHost, NEW user_namespace,
           node(f, target, onHost, user_namespace).ok
    PROVE  Leaves(f, node(f, target, onHost, user_namespace))
<1> DEFINE parent == Make(f, Front(target))
           made == Make(parent, target)
           no == FALSE
           after == Add(made, Fs("hostdev", "file", target), target, no)
           bound == Then(made, onHost, after)
           alone == Make(f, target)
           g == node(f, target, onHost, user_namespace)
<1>1. g = IF ~f.ok \/ Exists(f, target) THEN f ELSE IF user_namespace THEN bound ELSE alone
  BY DEF node, bind
<1>2. g.ok /\ FsTyped(f)
  BY DEF Fine
<1>3. CASE g = f
  <2> HIDE DEF g
  <2>1. Leaves(f, g)
    BY <1>3 DEF Leaves
  <2>2. QED  BY <2>1 DEF g
<1>4. CASE g = alone
  <2>1. alone.ok
    BY <1>2, <1>4
  <2>2. Shows(f, alone)
    BY <2>1, MakeShows
  <2> HIDE DEF alone, g
  <2>3. Leaves(f, g)
    BY <1>4, <2>2, ShowsLeaves
  <2>4. QED  BY <2>3 DEF g
<1>5. CASE g = bound /\ ~Exists(f, target)
  <2>1. target # <<>>
    BY <1>5, RootExists
  <2>2. Front(target) \in Paths
    BY <2>1, FrontIs
  <2>3. FsTyped(parent)
    BY <1>2, MakeKeeps DEF Plainly, Keeps
  <2>4. FsTyped(made)
    <3> HIDE DEF parent
    <3>1. QED  BY <2>3, MakeKeeps DEF Plainly, Keeps
  <2>5. bound = after /\ made.ok
    <3> HIDE DEF made, after, g
    <3>1. QED  BY <1>2, <1>5, <2>4, ThenOk
  <2>6. parent.ok
    <3> HIDE DEF parent
    <3>1. QED  BY <2>3, <2>5, MakeOk
  <2>7. Shows(f, parent)
    BY <2>2, <2>6, MakeShows
  <2> HIDE DEF parent
  <2>8. Shows(parent, made)
    BY <2>5, <2>7, MakeShows DEF Shows, Sees
  <2> HIDE DEF made
  <2>9. Shows(f, made) /\ Fine(made)
    BY <2>7, <2>8, ShowsBoth DEF Shows, Sees
  <2>10. no \in BOOLEAN
    OBVIOUS
  <2> DEFINE fs == Fs("hostdev", "file", target)
  <2> HIDE DEF no, fs
  <2>11. Fine(after)
    BY <2>9, <2>10, AddSees DEF Covered, fs
  <2>12. ASSUME NEW p \in Paths, Held(f, p) PROVE Held(after, p)
    <3>1. ~IsPrefix(target, p)
      BY <1>5, <2>12 DEF Held
    <3>2. Held(made, p)
      BY <2>9, <2>12, ShowsHeld
    <3>3. QED  BY <2>9, <2>10, <3>1, <3>2, HeldAdd DEF fs
  <2> HIDE DEF after, g, bound
  <2>13. Leaves(f, g)
    BY <1>5, <2>5, <2>11, <2>12 DEF Leaves
  <2>14. QED  BY <2>13 DEF g
<1>6. QED  BY <1>1, <1>3, <1>4, <1>5

LEMMA ChownShows ==
    ASSUME NEW f, Fine(f), NEW target, NEW hostUser, chown(f, target, hostUser).ok
    PROVE  Shows(f, chown(f, target, hostUser))
<1> DEFINE touched == f.touched \cup {"owner of a device"}
           after == [f EXCEPT !.touched = touched]
           at == \E m \in ToSet(f.tab) : m = MountOf(f, target) /\ m.fs.typ = "hostdev"
           g == chown(f, target, hostUser)
<1>1. g = IF at THEN Then(f, hostUser, after) ELSE f
  BY DEF chown
<1>2. g.ok /\ FsTyped(f)
  BY DEF Fine
<1> HIDE DEF at, touched
<1>3. FsTyped(after) /\ after.tab = f.tab /\ after.has = f.has
  BY <1>2 DEF FsTyped, FsShape
<1> HIDE DEF after, g
<1>4. Shows(f, after)
  BY <1>3, SameTabSees DEF Shows, Tightens
<1>5. g \in {f, after}
  BY <1>1, <1>2, ThenOk
<1>6. Shows(f, g)
  BY <1>4, <1>5, ShowsSelf
<1>7. QED  BY <1>6 DEF g

LEMMA ExtraDeviceLeaves ==
    ASSUME NEW f, Fine(f), NEW d, resolve(d.path) \in Paths, NEW user_namespace, NEW hostUser,
           extra_device(f, d, user_namespace, hostUser).ok
    PROVE  Leaves(f, extra_device(f, d, user_namespace, hostUser))
<1> DEFINE target == resolve(d.path)
           there == node(f, target, d.onHost, user_namespace)
           owned == chown(there, target, hostUser)
           g == extra_device(f, d, user_namespace, hostUser)
<1>1. g = IF there.ok /\ d.owned THEN owned ELSE there
  BY DEF extra_device
<1>2. g.ok /\ target \in Paths
  OBVIOUS
<1> HIDE DEF target
<1>3. there.ok
  <2> HIDE DEF there, g
  <2>1. QED  BY <1>1, <1>2
<1>4. Leaves(f, there)
  BY <1>2, <1>3, NodeLeaves
<1> HIDE DEF there
<1>5. Fine(there)
  BY <1>4 DEF Leaves
<1>6. owned.ok => Leaves(there, owned)
  BY <1>5, ChownShows, ShowsLeaves
<1> HIDE DEF owned, g
<1>7. Leaves(f, g)
  BY <1>1, <1>2, <1>4, <1>6 DEF Leaves
<1>8. QED  BY <1>7 DEF g
LEMMA PivotShows ==
    ASSUME NEW f, Fine(f), NEW requested, set_propagation(pivot(f), requested).ok
    PROVE  LET g == set_propagation(pivot(f), requested)
           IN  /\ Shows(f, g) /\ g.has = f.has /\ \A q \in Paths : MountOf(g, q).ro = MountOf(f, q).ro
               /\ requested # "unbindable" /\ Bindable(f) => Bindable(g)
<1> DEFINE no == FALSE
           after == [f EXCEPT !.old = no]
           can == f.prop # "shared" /\ MountPoint(f, <<>>)
           p == pivot(f)
           un == requested = "unbindable"
           t == [i \in DOMAIN p.tab |-> [p.tab[i] EXCEPT !.unbindable = un]]
           g1 == [p EXCEPT !.prop = requested]
           g2 == [g1 EXCEPT !.tab = t]
           g == set_propagation(p, requested)
<1>1. p = Then(f, can, after) /\ FsTyped(f)
  BY DEF pivot, Fine
<1> HIDE DEF no, can
<1>2. FsTyped(after) /\ after.tab = f.tab /\ after.has = f.has
  BY <1>1 DEF FsTyped, FsShape
<1> HIDE DEF after
<1>3. FsTyped(p)
  <2>1. Plainly(f, Fail(f))
    BY <1>1, FailKeeps
  <2> HIDE DEF p
  <2>2. QED  BY <1>1, <1>2, <2>1 DEF Then, Plainly, Keeps
<1> HIDE DEF p
<1>4. g = IF requested = "none" THEN p ELSE g2
  BY <1>3 DEF set_propagation, FsTyped, FsShape
<1> HIDE DEF un
<1>5. /\ Len(p.tab) \in Nat /\ DOMAIN p.tab = 1..Len(p.tab)
      /\ \A j \in 1..Len(p.tab) : IsMount(p.tab[j])
  BY <1>3, TableIs DEF FsTyped
<1>6. \A j \in DOMAIN p.tab : /\ IsMount(t[j]) /\ t[j].at = p.tab[j].at /\ t[j].fs = p.tab[j].fs
                              /\ t[j].ro = p.tab[j].ro /\ t[j].unbindable = un
  <2> TAKE j \in DOMAIN p.tab
  <2>1. IsMount(p.tab[j]) /\ t[j] = [p.tab[j] EXCEPT !.unbindable = un]
    BY <1>5
  <2>2. QED  BY <2>1 DEF IsMount
<1>7. DOMAIN t = DOMAIN p.tab /\ t = [j \in DOMAIN p.tab |-> t[j]]
  OBVIOUS
<1> HIDE DEF t
<1>8. IsTable(t) /\ Len(t) = Len(p.tab)
  BY <1>3, <1>6, <1>7, TableMapped DEF FsTyped
<1>9. g1.tab = p.tab /\ g1.has = p.has /\ g1.ok = p.ok /\ FsTyped(g1)
  BY <1>3 DEF FsTyped, FsShape
<1> HIDE DEF g1
<1>10. g2.tab = t /\ g2.has = p.has /\ g2.ok = p.ok /\ FsTyped(g2)
  <2>1. g2.tab = t /\ g2.has = g1.has /\ g2.ok = g1.ok
    BY <1>9, TabIs
  <2>2. FsTyped(g2)
    BY <1>8, <1>9 DEF FsTyped, FsShape
  <2>3. QED  BY <1>9, <2>1, <2>2
<1>11. g.ok
  BY DEF p
<1> HIDE DEF g2, g
<1>12. p.ok
  BY <1>4, <1>10, <1>11
<1>13. p = after
  BY <1>1, <1>12, ThenOk
<1>14. /\ Shows(f, p) /\ p.has = f.has /\ p.tab = f.tab
       /\ \A q \in Paths : MountOf(p, q).ro = MountOf(f, q).ro
  BY <1>2, <1>13, SameTabSees DEF Shows, Tightens
<1>15. /\ Shows(p, g2) /\ \A q \in Paths : MountOf(g2, q).ro = MountOf(p, q).ro
  <2>1. Fine(p)
    BY <1>14 DEF Shows, Sees
  <2>2. \A q \in Paths : /\ Top(p, q) \in 1..Len(p.tab)
                         /\ MountOf(g2, q) = t[Top(p, q)] /\ MountOf(p, q) = p.tab[Top(p, q)]
    BY <1>5, <1>6, <1>8, <1>10, <2>1, SamePlaces
  <2>3. Fine(g2)
    BY <1>5, <1>6, <1>8, <1>10, <2>1 DEF Fine, HasRoot
  <2>4. QED  BY <1>5, <1>6, <1>10, <2>2, <2>3 DEF Shows, Sees, Tightens
<1>16. requested # "unbindable" => Bindable(g2)
  BY <1>5, <1>6, <1>8, <1>10 DEF Bindable, un
<1>17. Shows(f, g)
  BY <1>4, <1>14, <1>15, ShowsBoth
<1>18. /\ g.has = f.has /\ (\A q \in Paths : MountOf(g, q).ro = MountOf(f, q).ro)
       /\ requested # "unbindable" /\ Bindable(f) => Bindable(g)
  BY <1>4, <1>10, <1>14, <1>15, <1>16 DEF Bindable
<1>19. QED  BY <1>17, <1>18 DEF g, p

\* The container's root, where nothing was mounted yet.
LEMMA RootedFine ==
    ASSUME NEW f, FsTyped(f), f.tab = <<>>, NEW typ, NEW layers
    PROVE  Fine(Rooted(f, typ, layers))
<1> DEFINE root == <<>>
           no == FALSE
           fs == Fs(typ, "none", root)
           m == Mounted(fs, root, no)
           t == Append(f.tab, m)
           g == Add(f, fs, root, no)
           has == g.has \cup {[fs |-> fs, path |-> p] : p \in Unpacked}
           h1 == [g EXCEPT !.has = has]
           h == [h1 EXCEPT !.layers = layers]
<1>1. root \in Paths /\ no \in BOOLEAN
  BY EmptySeq DEF Paths
<1>2. FsTyped(g) /\ HasRoot(g)
  BY AddKeeps DEF Keeps
<1>3. Rooted(f, typ, layers) = h
  BY <1>2 DEF Rooted, FsTyped, FsShape
<1>4. g.tab = t
  BY DEF Add, FsTyped, FsShape
<1> HIDE DEF g
<1>5. IsMount(m) /\ m.at = root
  BY <1>1 DEF IsMount, Mounted
<1> HIDE DEF m
<1>6. Len(t) = 1 /\ t[1] = m
  <2>1. Len(f.tab) = 0
    BY EmptySeq
  <2>2. Len(t) = Len(f.tab) + 1 /\ t[Len(f.tab) + 1] = m
    BY <1>5, TableAppend DEF FsTyped
  <2>3. QED  BY <2>1, <2>2
<1> HIDE DEF t, has
<1>7. h1.tab = t /\ FsTyped(h1)
  BY <1>2, <1>4 DEF FsTyped, FsShape
<1> HIDE DEF h1
<1>8. h.tab = t /\ FsTyped(h)
  BY <1>7 DEF FsTyped, FsShape
<1> HIDE DEF h
<1>9. ASSUME NEW i \in 1..Len(h.tab) PROVE h.tab[i].at = root
  <2>1. Len(h.tab) = 1 /\ h.tab[1] = m
    BY <1>6, <1>8
  <2>2. i = 1
    BY <2>1
  <2>3. QED  BY <1>5, <2>1, <2>2
<1>10. HasRoot(h)
  BY <1>5, <1>6, <1>8 DEF HasRoot
<1>11. Fine(h)
  BY <1>1, <1>8, <1>9, <1>10 DEF Fine
<1>12. QED  BY <1>3, <1>11

LEMMA PairIs == ASSUME NEW S, NEW x \in S, NEW y \in S PROVE <<x, y>> \in Seq(S)
  OBVIOUS

LEMMA DevIs == ASSUME NEW name \in Names PROVE Dev(name) \in Paths
<1>1. "dev" \in Names
  BY DEF Names
<1>2. QED  BY <1>1, PairIs DEF Dev, Paths

\* The console covers what is mounted at or below its place.
LEMMA ConsoleLeaves ==
    ASSUME NEW f, Fine(f), setup_console(f).ok
    PROVE  LET g == setup_console(f)
           IN  Fine(g) /\ \A p \in Paths : Held(f, p) /\ ~IsPrefix(Dev("console"), p) => Held(g, p)
<1> DEFINE console == Dev("console")
           made == Make(f, console)
           no == FALSE
           fs == Fs("pty", "none", console)
           can == ~MountOf(made, <<"dev", "pts">>).unbindable
           after == Add(made, fs, console, no)
           bound == Then(made, can, after)
           g == setup_console(f)
<1>1. g = Then(f, HasPtys(f), bound) /\ g.ok /\ FsTyped(f)
  BY DEF setup_console, bind_console, Fine
<1>2. console \in Paths /\ no \in BOOLEAN
  <2>1. "console" \in Names
    BY DEF Names
  <2>2. QED  BY <2>1, DevIs
<1> HIDE DEF no, fs, console, g, bound
<1>3. g = bound
  BY <1>1, ThenOk
<1>4. FsTyped(made)
  BY <1>1, MakeKeeps DEF Plainly, Keeps
<1>5. bound = after /\ made.ok
  <2>1. bound = Then(made, can, after) /\ bound.ok
    BY <1>1, <1>3 DEF bound
  <2> HIDE DEF made, can, after
  <2>2. QED  BY <1>4, <2>1, ThenOk
<1>6. Shows(f, made)
  BY <1>2, <1>5, MakeShows
<1> HIDE DEF made
<1>7. Fine(made)
  BY <1>6 DEF Shows, Sees
<1>8. Fine(after)
  BY <1>2, <1>7, AddSees DEF Covered
<1>9. ASSUME NEW p \in Paths, Held(f, p), ~IsPrefix(console, p) PROVE Held(after, p)
  <2>1. Held(made, p)
    BY <1>6, <1>9, ShowsHeld
  <2>2. QED  BY <1>2, <1>7, <1>9, <2>1, HeldAdd
<1>10. QED  BY <1>3, <1>5, <1>8, <1>9 DEF g, console
-----------------------------------------------------------------------------
(***************************************************************************)
(* The steps that hide paths and make them read-only.                      *)
(***************************************************************************)
Hidden(f, p) == Exists(f, p) => MountOf(f, p).fs.typ \in {"mask", "null"}
Unwritable(f, p) == Exists(f, p) => MountOf(f, p).ro

LEMMA CoverHides ==
    ASSUME NEW f, Fine(f), NEW typ \in {"mask", "null"}, NEW p \in Paths, NEW ro \in BOOLEAN
    PROVE  LET g == Add(f, Fs(typ, "none", p), p, ro)
           IN  /\ Fine(g) /\ Hidden(g, p)
               /\ \A q \in Paths : ~IsPrefix(p, q) => MountOf(g, q) = MountOf(f, q)
               /\ \A q \in Paths : Hidden(f, q) => Hidden(g, q)
               /\ \A q \in Paths : Exists(f, q) /\ (q = p \/ ~IsPrefix(p, q)) => Exists(g, q)
<1> DEFINE fs == Fs(typ, "none", p)
           g == Add(f, fs, p, ro)
<1>1. fs.typ = typ /\ NamesIn(fs, p) = {}
  BY DEF NamesIn, Contents, Fs
<1>2. Mounted(fs, p, ro).fs.typ \in {"mask", "null"}
  BY <1>1 DEF Mounted
<1>3. Covered(f, g, fs, p, ro)
  BY AddSees
<1> HIDE DEF g, fs
<1>4. /\ Fine(g) /\ g.has = f.has
      /\ \A q \in Paths : MountOf(g, q) = IF IsPrefix(p, q) THEN Mounted(fs, p, ro) ELSE MountOf(f, q)
  BY <1>1, <1>3 DEF Covered
<1>5. ASSUME NEW q \in Paths, IsPrefix(p, q) PROVE Hidden(g, q)
  BY <1>2, <1>4, <1>5 DEF Hidden
<1>6. ASSUME NEW q \in Paths, ~IsPrefix(p, q), Hidden(f, q) PROVE Hidden(g, q)
  <2>1. MountOf(g, q) = MountOf(f, q)
    BY <1>4, <1>6
  <2>2. Exists(g, q) => Exists(f, q)
    BY <1>4, <2>1, ExistsIs
  <2>3. QED  BY <1>6, <2>1, <2>2 DEF Hidden
<1>7. IsPrefix(p, p)
  BY PrefixOrder
<1>8. ASSUME NEW q \in Paths, Exists(f, q), q = p \/ ~IsPrefix(p, q) PROVE Exists(g, q)
  <2>1. CASE q = p
    <3>1. MountOf(g, q).at = q
      BY <1>4, <1>7, <2>1 DEF Mounted
    <3>2. QED  BY <1>4, <3>1, ExistsIs
  <2>2. CASE ~IsPrefix(p, q)
    BY <1>4, <1>8, <2>2, ExistsIs
  <2>3. QED  BY <1>8, <2>1, <2>2
<1>9. QED  BY <1>4, <1>5, <1>6, <1>7, <1>8 DEF g, fs

LEMMA MaskHides ==
    ASSUME NEW f, Fine(f), NEW p \in Paths, mask_one(f, p).ok
    PROVE  LET g == mask_one(f, p)
           IN  /\ Fine(g) /\ Hidden(g, p)
               /\ \A q \in Paths : ~IsPrefix(p, q) => MountOf(g, q) = MountOf(f, q)
               /\ \A q \in Paths : Hidden(f, q) => Hidden(g, q)
               /\ \A q \in Paths : Exists(f, q) /\ (q = p \/ ~IsPrefix(p, q)) => Exists(g, q)
<1> DEFINE no == FALSE
           yes == TRUE
           null == Add(f, Fs("null", "none", p), p, no)
           mask == Add(f, Fs("mask", "none", p), p, yes)
           can == Exists(f, Dev("null")) /\ ~MountOf(f, Dev("null")).unbindable
           g == mask_one(f, p)
           Done(h) == /\ Fine(h) /\ Hidden(h, p)
                      /\ \A q \in Paths : ~IsPrefix(p, q) => MountOf(h, q) = MountOf(f, q)
                      /\ \A q \in Paths : Hidden(f, q) => Hidden(h, q)
                      /\ \A q \in Paths : Exists(f, q) /\ (q = p \/ ~IsPrefix(p, q)) => Exists(h, q)
<1>1. g.ok /\ FsTyped(f)
  BY DEF Fine
<1>2. g = IF ~f.ok \/ ~Exists(f, p) THEN f ELSE IF IsFile(p) THEN Then(f, can, null) ELSE mask
  BY DEF mask_one
<1>3. no \in BOOLEAN /\ yes \in BOOLEAN
  OBVIOUS
<1> HIDE DEF no, yes
<1>4. Done(null) /\ Done(mask)
  BY <1>3, CoverHides
<1>5. ~Exists(f, p) => Done(f)
  BY DEF Hidden
<1> HIDE DEF null, mask, can, Done, g
<1>6. Done(g)
  BY <1>1, <1>2, <1>4, <1>5, ThenOk
<1>7. QED  BY <1>6 DEF Done, g

\* The same file systems under all paths, the same names, and nothing writable that was not.
Narrows(f, g) ==
    /\ Fine(g)
    /\ \A q \in Paths : /\ Exists(g, q) <=> Exists(f, q)
                        /\ MountOf(g, q).fs = MountOf(f, q).fs
                        /\ MountOf(f, q).ro => MountOf(g, q).ro

LEMMA NarrowsSelf == ASSUME NEW f, Fine(f) PROVE Narrows(f, f)
  BY DEF Narrows

LEMMA NarrowsKeeps ==
    ASSUME NEW f, NEW g, Narrows(f, g), NEW p \in Paths
    PROVE  /\ Hidden(f, p) => Hidden(g, p)
           /\ Unwritable(f, p) => Unwritable(g, p)
           /\ MountOf(f, p).ro => MountOf(g, p).ro
  BY DEF Narrows, Hidden, Unwritable

LEMMA SetRoNarrows ==
    ASSUME NEW f, Fine(f), NEW p \in Paths
    PROVE  Narrows(f, SetRo(f, p, TRUE)) /\ MountOf(SetRo(f, p, TRUE), p).ro
<1> DEFINE ro == TRUE
           g == SetRo(f, p, ro)
<1>1. ro \in BOOLEAN /\ ro
  OBVIOUS
<1> HIDE DEF ro
<1>0. Flagged(f, g, p, ro)
  BY <1>1, SetRoSees
<1> HIDE DEF g
<1>2. /\ Sees(f, g) /\ g.has = f.has
      /\ \A q \in Paths : MountOf(g, q).ro = IF Top(f, q) = Top(f, p) THEN ro ELSE MountOf(f, q).ro
  BY <1>0 DEF Flagged
<1>3. \A q \in Paths : Exists(g, q) <=> Exists(f, q)
  BY <1>2, SeesNames
<1>4. MountOf(g, p).ro
  BY <1>1, <1>2
<1>5. Narrows(f, g)
  BY <1>1, <1>2, <1>3 DEF Narrows, Sees
<1>6. QED  BY <1>4, <1>5 DEF g, ro

LEMMA ReadonlyNarrows ==
    ASSUME NEW f, Fine(f), NEW p \in Paths, readonly_one(f, p).ok
    PROVE  Narrows(f, readonly_one(f, p)) /\ Unwritable(readonly_one(f, p), p)
<1> DEFINE bound == SelfBind(f, p, TRUE)
           set == SetRo(bound, p, TRUE)
           g == readonly_one(f, p)
<1>1. g = IF ~f.ok \/ ~Exists(f, p) THEN f ELSE set
  BY DEF readonly_one
<1>2. g.ok
  OBVIOUS
<1>3. CASE g = f /\ ~Exists(f, p)
  <2> HIDE DEF g
  <2>1. Narrows(f, g) /\ Unwritable(g, p)
    BY <1>3, NarrowsSelf DEF Unwritable
  <2>2. QED  BY <2>1 DEF g
<1>4. CASE g = set /\ Exists(f, p)
  <2>1. FsTyped(bound)
    BY SelfBindKeeps DEF Fine, Paths, Keeps
  <2>2. bound.ok
    <3>1. set.ok
      BY <1>2, <1>4
    <3> HIDE DEF bound
    <3>2. QED  BY <2>1, <3>1, SetRoOk
  <2>3. /\ Fine(bound) /\ bound.has = f.has /\ MountOf(bound, p).at = p
        /\ Bindable(f) => Bindable(bound)
        /\ \A q \in Paths : /\ MountOf(bound, q).fs = MountOf(f, q).fs
                            /\ MountOf(bound, q).ro = MountOf(f, q).ro
                            /\ \/ MountOf(bound, q).at = MountOf(f, q).at
                               \/ MountOf(bound, q).at = p /\ IsPrefix(p, q) /\ IsPrefix(MountOf(f, q).at, p)
    BY <2>2, SelfBindSees
  <2> HIDE DEF bound
  <2>4. ASSUME NEW q \in Paths PROVE Exists(bound, q) <=> Exists(f, q)
    <3>1. MountOf(f, q).at \in Paths /\ IsPrefix(MountOf(f, q).at, q)
      BY TopThere DEF MountOf, IsTop, Fine
    <3>2. CASE MountOf(bound, q).at = MountOf(f, q).at
      BY <2>3, <3>2, ExistsIs
    <3>3. CASE MountOf(bound, q).at = p /\ IsPrefix(p, q) /\ IsPrefix(MountOf(f, q).at, p)
      <4>1. CASE q = p
        BY <1>4, <2>3, <3>3, <4>1, ExistsIs
      <4>2. CASE q # p
        <5>1. MountOf(f, q).at # q
          BY <3>1, <3>3, <4>2, PrefixOrder
        <5>2. QED  BY <2>3, <3>3, <4>2, <5>1, ExistsIs
      <4>3. QED  BY <4>1, <4>2
    <3>4. QED  BY <2>3, <3>2, <3>3
  <2>5. Narrows(bound, set) /\ MountOf(set, p).ro
    BY <2>3, SetRoNarrows
  <2> HIDE DEF set, g
  <2>6. Narrows(f, g)
    BY <1>4, <2>3, <2>4, <2>5 DEF Narrows
  <2>7. Unwritable(g, p)
    BY <1>4, <2>5 DEF Unwritable
  <2>8. QED  BY <2>6, <2>7 DEF g
<1>5. CASE ~f.ok /\ g = f
  <2> HIDE DEF g
  <2>1. QED  BY <1>2, <1>5
<1>6. QED
  <2> HIDE DEF set
  <2>1. QED  BY <1>1, <1>3, <1>4, <1>5

LEMMA RemountNarrows ==
    ASSUME NEW f, Fine(f), NEW m, resolve(m.destination) \in Paths, remount_readonly(f, m).ok
    PROVE  Narrows(f, remount_readonly(f, m))
<1> DEFINE destination == resolve(m.destination)
           can == MountPoint(f, destination)
           after == SetRo(f, destination, TRUE)
           g == remount_readonly(f, m)
<1>1. g \in {f, Then(f, can, after)} /\ g.ok /\ FsTyped(f)
  BY DEF remount_readonly, Fine
<1>2. Narrows(f, after) /\ Narrows(f, f)
  BY SetRoNarrows, NarrowsSelf
<1> HIDE DEF can, after, g
<1>3. Narrows(f, g)
  BY <1>1, <1>2, ThenOk
<1>4. QED  BY <1>3 DEF g
-----------------------------------------------------------------------------
(***************************************************************************)
(* What is held and hidden, through the steps.                             *)
(***************************************************************************)
FlagsOf(i) == parse_options(b.mounts[i].options).flags

\* A mount that is read-only, of those that are seen after the first n entries.
Lasting(i, n) ==
    /\ i <= n /\ Adds(FlagsOf(i)) /\ "ro" \in FlagsOf(i) /\ "bind" \notin FlagsOf(i)
    /\ \A j \in DOMAIN b.mounts :
          i < j /\ j <= n => /\ ~(Adds(FlagsOf(j)) /\ IsPrefix(Destination(j), Destination(i)))
                             /\ ~(Frees(FlagsOf(j)) /\ Destination(j) = Destination(i))

MountedTo(f, n) == \A i \in DOMAIN b.mounts : Lasting(i, n) => Held(f, Destination(i))
MountsHeld(f) == \A i \in ReadonlyMounts : Held(f, Destination(i))
MountsFixed(f) ==
    \A i \in ReadonlyMounts : ~UnderConsole(i) /\ ~Masked(Destination(i)) => MountOf(f, Destination(i)).ro
MaskedTo(f, n) == \A k \in DOMAIN b.masked : k <= n => Hidden(f, b.masked[k])
MasksHold(f) == \A k \in DOMAIN b.masked : Hidden(f, b.masked[k])
ReadonlyTo(f, n) == \A k \in DOMAIN b.readonlyPaths : k <= n => Unwritable(f, b.readonlyPaths[k])
PathsHold(f) == \A k \in DOMAIN b.readonlyPaths : Unwritable(f, b.readonlyPaths[k])

\* The steps that go through a list, those on the tree under construction, those after the
\* console and, of these, those after the masks, the read-only paths and the root.
Loops == {"mounts", "nodes", "links", "devices", "mask", "readonly", "remounts", "failed"}
Tree == {"mounts", "nodes", "links", "devices", "pivot", "console"}
Late == Inside \ ({"root"} \cup Tree)
AfterMasks == Late \ {"identity", "sysctl", "mask"}
AfterPaths == AfterMasks \ {"readonly"}
AfterRoot == AfterPaths \ {"remounts", "rootfs"}

Hardened(f, n, at) ==
    /\ at \notin Loops => n = 0
    /\ at \notin {"load", "plan", "failed"} => (b.terminal <=> b.console # "none")
    /\ OwnMounts(b) /\ at \in Inside \ {"root"} =>
          /\ Fine(f)
          /\ at = "mounts" => MountedTo(f, n)
          /\ at \in Tree \ {"mounts"} => MountsHeld(f)
          /\ at = "console" => b.terminal
          /\ at \in Late => MountsFixed(f)
          /\ at = "mask" => MaskedTo(f, n)
          /\ at \in AfterMasks => MasksHold(f)
          /\ at = "readonly" => ReadonlyTo(f, n)
          /\ at \in AfterPaths => PathsHold(f)
          /\ at \in AfterRoot => (b.readonlyRoot => MountOf(f, <<>>).ro)

GInv == HInv /\ Hardened(fsys, done, pc)

LEMMA MountsAre ==
    ASSUME b \in Bundles
    PROVE  /\ Len(b.mounts) \in Nat /\ DOMAIN b.mounts = 1..Len(b.mounts)
           /\ \A i \in DOMAIN b.mounts : Destination(i) \in Paths /\ resolve(b.mounts[i].destination) \in Paths
           /\ NewMounts = {i \in DOMAIN b.mounts : Adds(FlagsOf(i))}
           /\ \A i \in DOMAIN b.mounts : Loosens(i) <=> Frees(FlagsOf(i))
<1>1. b.mounts \in Seq(MountEntries) /\ \A m \in ToSet(b.mounts) : resolve(m.destination) \in Paths
  BY BundlesAssumption
<1>2. Len(b.mounts) \in Nat /\ DOMAIN b.mounts = 1..Len(b.mounts)
  BY <1>1, LenProperties
<1>3. \A i \in DOMAIN b.mounts : b.mounts[i] \in ToSet(b.mounts)
  BY DEF ToSet
<1>4. NewMounts = {i \in DOMAIN b.mounts : Adds(FlagsOf(i))}
  BY DEF NewMounts, Adds, FlagsOf
<1>5. \A i \in DOMAIN b.mounts : Loosens(i) <=> Frees(FlagsOf(i))
  BY DEF Loosens, Frees, FlagsOf
<1>6. QED  BY <1>1, <1>2, <1>3, <1>4, <1>5 DEF Destination

\* The mounts that HardeningHolds speaks of last to the end.
LEMMA ReadonlyLasts ==
    ASSUME b \in Bundles, NEW n \in Nat, n >= Len(b.mounts), NEW i \in ReadonlyMounts
    PROVE  i \in DOMAIN b.mounts /\ Lasting(i, n)
<1>1. /\ i \in DOMAIN b.mounts /\ i \in NewMounts
      /\ "ro" \in FlagsOf(i) /\ "bind" \notin FlagsOf(i)
      /\ ~CoveredByMount(i) /\ ~Loosened(i)
  BY DEF ReadonlyMounts, NewMounts, FlagsOf, IsBind
<1>2. i <= n
  BY <1>1, MountsAre
<1>3. ASSUME NEW j \in DOMAIN b.mounts, i < j
      PROVE  /\ ~(Adds(FlagsOf(j)) /\ IsPrefix(Destination(j), Destination(i)))
             /\ ~(Frees(FlagsOf(j)) /\ Destination(j) = Destination(i))
  <2>1. j > i
    BY <1>1, <1>3, MountsAre
  <2>2. ~(Adds(FlagsOf(j)) /\ IsPrefix(Destination(j), Destination(i)))
    BY <1>1, <2>1, MountsAre DEF CoveredByMount, CoveredAfter
  <2>3. ~(Frees(FlagsOf(j)) /\ Destination(j) = Destination(i))
    BY <1>1, <2>1, MountsAre DEF Loosened
  <2>4. QED  BY <2>2, <2>3
<1>4. Adds(FlagsOf(i))
  BY <1>1, MountsAre
<1>5. QED  BY <1>1, <1>2, <1>3, <1>4 DEF Lasting

\* The bundle stays, and with it what is said of it.
LEMMA HardenedNext == ASSUME b' = b, Hardened(fsys', done', pc') PROVE Hardened(fsys, done, pc)'
<1>1. NewMounts' = NewMounts
  BY DEF NewMounts
<1>2. \A i : Destination(i)' = Destination(i)
  BY DEF Destination
<1>3. \A i : FlagsOf(i)' = FlagsOf(i)
  BY DEF FlagsOf
<1>4. ReadonlyMounts' = ReadonlyMounts
  BY <1>1 DEF ReadonlyMounts, CoveredByMount, CoveredAfter, Loosened, Loosens, IsBind, Destination, NewMounts
<1>5. \A i : (UnderConsole(i)' <=> UnderConsole(i)) /\ (Masked(Destination(i))' <=> Masked(Destination(i)))
  BY DEF UnderConsole, BelowConsole, Masked, Destination
<1>6. OwnMounts(b)' <=> OwnMounts(b)
  OBVIOUS
<1>7. MountedTo(fsys, done)' <=> MountedTo(fsys', done')
  BY DEF MountedTo, Lasting, FlagsOf, Destination
<1>8. MountsHeld(fsys)' <=> MountsHeld(fsys')
  BY <1>2, <1>4 DEF MountsHeld
<1>9. MountsFixed(fsys)' <=> MountsFixed(fsys')
  BY <1>2, <1>4, <1>5 DEF MountsFixed
<1>10. (MaskedTo(fsys, done)' <=> MaskedTo(fsys', done')) /\ (MasksHold(fsys)' <=> MasksHold(fsys'))
  BY DEF MaskedTo, MasksHold
<1>11. (ReadonlyTo(fsys, done)' <=> ReadonlyTo(fsys', done')) /\ (PathsHold(fsys)' <=> PathsHold(fsys'))
  BY DEF ReadonlyTo, PathsHold
<1>12. QED  BY <1>6, <1>7, <1>8, <1>9, <1>10, <1>11 DEF Hardened
LEMMA HardenedFails == ASSUME NEW f, NEW n PROVE Hardened(f, n, "failed")
  BY DEF Hardened, Loops, Inside

LEMMA InitGInv == Init => GInv
<1> SUFFICES ASSUME Init PROVE GInv
  OBVIOUS
<1>1. HInv
  BY InitHInv
<1>2. Hardened(fsys, done, pc)
  BY DEF Init, Hardened, Loops, Inside
<1>3. QED  BY <1>1, <1>2 DEF GInv

\* An entry of a list, or the end of the list, unless it fails.
LEMMA EachOk ==
    ASSUME NEW at, at # "failed", NEW list, NEW after, NEW next, Each(at, list, after, next), pc' # "failed"
    PROVE  /\ pc = at /\ b' = b
           /\ \/ done < Len(list) /\ fsys' = after /\ done' = done + 1 /\ pc' = at /\ after.ok
              \/ ~(done < Len(list)) /\ fsys' = fsys /\ done' = 0 /\ pc' = next
  BY DEF Each, Go

\* The bundle has a console if and only if it has a terminal (create, when it prepares).
LEMMA OutsideGStep ==
    ASSUME GInv, \/ LoadBundle \/ Plan \/ CreateCgroup \/ ApplyResources \/ Spawn
                 \/ JoinExisting \/ Unshare \/ MapIds \/ Attach \/ UnshareCgroup
    PROVE  Hardened(fsys', done', pc')
<1> USE DEF Go
<1>1. /\ b' = b /\ done' = done /\ pc \in Outside
      /\ pc' \in (Outside \ {"load"}) \cup {"failed", "identity"}
      /\ pc' = "identity" => ~OwnMounts(b)
      /\ pc' \notin {"plan", "failed"} => pc \notin {"load", "plan"} \/ PlanOk(b)
  <2> USE DEF Outside
  <2>1. CASE LoadBundle
    BY <2>1 DEF LoadBundle
  <2>2. CASE Plan
    BY <2>2 DEF Plan
  <2>3. CASE CreateCgroup
    BY <2>3 DEF CreateCgroup
  <2>4. CASE ApplyResources
    BY <2>4 DEF ApplyResources
  <2>5. CASE Spawn
    BY <2>5 DEF Spawn
  <2>6. CASE JoinExisting
    BY <2>6 DEF JoinExisting
  <2>7. CASE Unshare
    BY <2>7 DEF Unshare
  <2>8. CASE MapIds
    BY <2>8 DEF MapIds
  <2>9. CASE Attach
    BY <2>9 DEF Attach
  <2>10. CASE UnshareCgroup
    BY <2>10 DEF UnshareCgroup
  <2>11. QED  BY <2>1, <2>2, <2>3, <2>4, <2>5, <2>6, <2>7, <2>8, <2>9, <2>10
<1>2. CASE pc' = "failed"
  BY <1>2, HardenedFails
<1>3. CASE pc' # "failed"
  <2>1. done' = 0
    BY <1>1 DEF GInv, Hardened, Outside, Loops
  <2>2. pc' # "plan" => (b.terminal <=> b.console # "none")
    BY <1>1, <1>3 DEF GInv, Hardened, Outside, PlanOk
  <2>3. ~(OwnMounts(b) /\ pc' \in Inside \ {"root"})
    BY <1>1, <1>3 DEF Outside, Inside
  <2>4. QED  BY <2>1, <2>2, <2>3, <1>1, <1>3 DEF Hardened
<1>4. QED  BY <1>2, <1>3

LEMMA MountRootGStep == ASSUME GInv, MountRoot PROVE Hardened(fsys', done', pc')
<1> DEFINE private == make_root_private(fsys)
           layers == mount_at(Layers(b)).mounted
           can == mount_at(Layers(b)).ok
           may == "mount" \in Able
           overlay == Rooted(private, "overlay", layers)
           base == Rooted(private, "base", <<>>)
           mounted == IF Layered(b) THEN Then(private, can, overlay) ELSE base
<1>1. /\ pc = "root" /\ UNCHANGED <<b, done, host, keys>>
      /\ fsys' = Then(mounted, may, mounted) /\ pc' = IF fsys'.ok THEN "mounts" ELSE "failed"
  BY DEF MountRoot, make_mount_point, Go
<1>2. FsTyped(fsys) /\ fsys.tab = <<>> /\ b \in Bundles
  BY <1>1 DEF GInv, HInv, HostKept, TreeKept, Outside
<1>3. FsTyped(private) /\ private.tab = <<>>
  BY <1>2 DEF make_root_private, FsTyped, FsShape
<1> HIDE DEF private, layers, can, may
<1>4. Fine(overlay) /\ Fine(base)
  BY <1>3, RootedFine
<1> HIDE DEF overlay, base
<1>5. FsTyped(mounted) /\ (mounted.ok => Fine(mounted))
  <2>1. CASE Layered(b)
    <3>1. FsTyped(Then(private, can, overlay))
      BY <1>3, <1>4, FailKeeps DEF Then, Fine, Plainly, Keeps
    <3>2. Then(private, can, overlay).ok => Then(private, can, overlay) = overlay
      BY <1>3, ThenOk
    <3>3. QED  BY <1>4, <2>1, <3>1, <3>2
  <2>2. CASE ~Layered(b)
    BY <1>4, <2>2 DEF Fine
  <2>3. QED  BY <2>1, <2>2
<1> HIDE DEF mounted
<1>6. CASE pc' # "failed"
  <2>1. fsys' = mounted /\ mounted.ok /\ pc' = "mounts"
    BY <1>1, <1>5, <1>6, ThenOk
  <2>2. Fine(fsys')
    BY <1>5, <2>1
  <2>3. done' = 0 /\ (b.terminal <=> b.console # "none")
    BY <1>1 DEF GInv, Hardened, Loops
  <2>4. MountedTo(fsys', 0)
    <3>1. \A i \in DOMAIN b.mounts : ~(i <= 0)
      BY <1>2, MountsAre
    <3>2. QED  BY <3>1 DEF MountedTo, Lasting
  <2>5. QED  BY <2>1, <2>2, <2>3, <2>4 DEF Hardened, Loops, Tree, Late, AfterMasks, AfterPaths, AfterRoot
<1>7. QED  BY <1>6, HardenedFails

\* Where the tree is under construction.
LEMMA Constructs ==
    ASSUME GInv, pc \in {"mounts", "nodes", "links", "devices", "pivot", "console"}
    PROVE  /\ b \in Bundles /\ done \in Nat /\ OwnMounts(b) /\ Fine(fsys)
           /\ (b.terminal <=> b.console # "none")
           /\ pc = "mounts" => MountedTo(fsys, done)
           /\ pc # "mounts" => MountsHeld(fsys)
           /\ pc = "console" => b.terminal
<1>1. b \in Bundles /\ done \in Nat
  BY DEF GInv, HInv, HostKept
<1>2. OwnMounts(b)
  BY DEF GInv, HInv, TreeKept, Building, Hardening
<1>3. QED  BY <1>1, <1>2 DEF GInv, Hardened, Inside, Tree

LEMMA Constructed ==
    ASSUME NEW f, NEW n, NEW at \in {"mounts", "nodes", "links", "devices", "pivot", "console"},
           Fine(f), b.terminal <=> b.console # "none",
           at \notin Loops => n = 0, at = "mounts" => MountedTo(f, n), at # "mounts" => MountsHeld(f),
           at = "console" => b.terminal
    PROVE  Hardened(f, n, at)
  BY DEF Hardened, Tree, Late, AfterMasks, AfterPaths, AfterRoot

LEMMA MountsGStep == ASSUME GInv, ApplyMounts PROVE Hardened(fsys', done', pc')
<1> DEFINE m == b.mounts[done + 1]
           after == apply_one(fsys, m, Able)
<1>1. CASE pc' = "failed"
  BY <1>1, HardenedFails
<1>2. CASE pc' # "failed"
  <2>1. Each("mounts", b.mounts, after, "nodes")
    BY DEF ApplyMounts
  <2>2. /\ pc = "mounts" /\ b' = b
        /\ \/ done < Len(b.mounts) /\ fsys' = after /\ done' = done + 1 /\ pc' = "mounts" /\ after.ok
           \/ ~(done < Len(b.mounts)) /\ fsys' = fsys /\ done' = 0 /\ pc' = "nodes"
    <3> HIDE DEF after
    <3>1. QED  BY <1>2, <2>1, EachOk
  <2>3. b \in Bundles /\ done \in Nat /\ Fine(fsys) /\ (b.terminal <=> b.console # "none") /\ MountedTo(fsys, done)
    BY <2>2, Constructs
  <2>4. CASE done < Len(b.mounts) /\ fsys' = after /\ done' = done + 1 /\ pc' = "mounts" /\ after.ok
    <3> DEFINE flags == FlagsOf(done + 1)
               place == Destination(done + 1)
    <3>1. done + 1 \in DOMAIN b.mounts /\ place \in Paths /\ resolve(m.destination) \in Paths
      BY <2>3, <2>4, MountsAre
    <3>2. Bears(fsys, after, flags, place)
      BY <2>3, <2>4, <3>1, ApplyOneBears DEF FlagsOf, Destination
    <3> HIDE DEF after
    <3>3. ASSUME NEW i \in DOMAIN b.mounts, Lasting(i, done + 1) PROVE Held(after, Destination(i))
      <4>1. i \in Nat /\ i <= done + 1 /\ Destination(i) \in Paths
        BY <2>3, <3>3, MountsAre DEF Lasting
      <4>2. CASE i = done + 1
        BY <3>2, <3>3, <4>2 DEF Lasting, Bears
      <4>3. CASE i # done + 1
        <5>1. i <= done /\ i < done + 1 /\ done + 1 <= done + 1
          BY <2>3, <4>1, <4>3
        <5>2. \A j \in DOMAIN b.mounts : j <= done => j <= done + 1
          BY <2>3, MountsAre
        <5>3. Lasting(i, done)
          BY <3>3, <5>1, <5>2 DEF Lasting
        <5>4. Held(fsys, Destination(i))
          BY <2>3, <5>3 DEF MountedTo
        <5>5. /\ ~(Adds(flags) /\ IsPrefix(place, Destination(i)))
              /\ ~(Frees(flags) /\ place = Destination(i))
          BY <3>1, <3>3, <5>1 DEF Lasting
        <5>6. QED  BY <3>2, <4>1, <5>4, <5>5 DEF Bears
      <4>4. QED  BY <4>2, <4>3
    <3>4. MountedTo(after, done + 1)
      BY <3>3 DEF MountedTo
    <3>5. Fine(after)
      BY <3>2 DEF Bears
    <3>6. QED  BY <2>3, <2>4, <3>4, <3>5, Constructed DEF Loops
  <2>5. CASE ~(done < Len(b.mounts)) /\ fsys' = fsys /\ done' = 0 /\ pc' = "nodes"
    <3>1. done >= Len(b.mounts)
      BY <2>3, <2>5, MountsAre
    <3>2. MountsHeld(fsys)
      BY <2>3, <3>1, ReadonlyLasts DEF MountsHeld, MountedTo
    <3>3. QED  BY <2>3, <2>5, <3>2, Constructed
  <2>6. QED  BY <2>2, <2>4, <2>5
<1>3. QED  BY <1>1, <1>2
LEMMA NodesNamed ==
    ASSUME NEW n \in Nat
    PROVE  /\ n < Len(DEFAULT_DEVICES) => Dev(DEFAULT_DEVICES[n + 1]) \in Paths
           /\ n < Len(SYMLINKS) => Dev(SYMLINKS[n + 1]) \in Paths
<1>1. n < Len(DEFAULT_DEVICES) => DEFAULT_DEVICES[n + 1] \in Names
  <2>1. Len(DEFAULT_DEVICES) = 6
    BY DEF DEFAULT_DEVICES
  <2>2. \A i \in 1..6 : DEFAULT_DEVICES[i] \in Names
    BY DEF DEFAULT_DEVICES, Names
  <2>3. QED  BY <2>1, <2>2
<1>2. n < Len(SYMLINKS) => SYMLINKS[n + 1] \in Names
  <2>1. Len(SYMLINKS) = 4
    BY DEF SYMLINKS
  <2>2. \A i \in 1..4 : SYMLINKS[i] \in Names
    BY DEF SYMLINKS, Names
  <2>3. QED  BY <2>1, <2>2
<1>3. QED  BY <1>1, <1>2, DevIs

\* An entry of a list after which all that was held still is.
LEMMA LeavesGStep ==
    ASSUME GInv, NEW at \in {"nodes", "links", "devices"}, NEW next \in {"links", "devices", "pivot"},
           NEW list, NEW after, Each(at, list, after, next),
           Fine(fsys) /\ done < Len(list) /\ after.ok => Leaves(fsys, after)
    PROVE  Hardened(fsys', done', pc')
<1>1. CASE pc' = "failed"
  BY <1>1, HardenedFails
<1>2. CASE pc' # "failed"
  <2>1. /\ pc = at /\ b' = b
        /\ \/ done < Len(list) /\ fsys' = after /\ done' = done + 1 /\ pc' = at /\ after.ok
           \/ ~(done < Len(list)) /\ fsys' = fsys /\ done' = 0 /\ pc' = next
    BY <1>2, EachOk
  <2>2. b \in Bundles /\ done \in Nat /\ Fine(fsys) /\ (b.terminal <=> b.console # "none") /\ MountsHeld(fsys)
    BY <2>1, Constructs
  <2>3. CASE done < Len(list) /\ fsys' = after /\ done' = done + 1 /\ pc' = at /\ after.ok
    <3>1. Leaves(fsys, after)
      BY <2>2, <2>3
    <3>2. MountsHeld(after)
      <4>1. \A i \in ReadonlyMounts : Destination(i) \in Paths
        BY <2>2, MountsAre DEF ReadonlyMounts
      <4>2. QED  BY <2>2, <3>1, <4>1 DEF MountsHeld, Leaves
    <3>3. at \in Loops
      BY DEF Loops
    <3>4. QED  BY <2>2, <2>3, <3>1, <3>2, <3>3, Constructed DEF Leaves
  <2>4. CASE ~(done < Len(list)) /\ fsys' = fsys /\ done' = 0 /\ pc' = next
    BY <2>2, <2>4, Constructed
  <2>5. QED  BY <2>1, <2>3, <2>4
<1>3. QED  BY <1>1, <1>2

LEMMA NodesGStep == ASSUME GInv, CreateNodes \/ CreateLinks \/ CreateDevices PROVE Hardened(fsys', done', pc')
<1>1. b \in Bundles /\ done \in Nat
  BY DEF GInv, HInv, HostKept
<1>2. CASE CreateNodes
  <2> DEFINE target == Dev(DEFAULT_DEVICES[done + 1])
             yes == TRUE
             after == node(fsys, target, yes, BindsNodes)
  <2>1. Each("nodes", DEFAULT_DEVICES, after, "links")
    BY <1>2 DEF CreateNodes
  <2>2. done < Len(DEFAULT_DEVICES) => target \in Paths
    BY <1>1, NodesNamed
  <2> HIDE DEF target, yes
  <2>3. Fine(fsys) /\ done < Len(DEFAULT_DEVICES) /\ after.ok => Leaves(fsys, after)
    BY <2>2, NodeLeaves
  <2> HIDE DEF after
  <2>4. QED  BY <2>1, <2>3, LeavesGStep
<1>3. CASE CreateLinks
  <2> DEFINE target == Dev(SYMLINKS[done + 1])
             after == Make(fsys, target)
  <2>1. Each("links", SYMLINKS, after, "devices")
    BY <1>3 DEF CreateLinks
  <2>2. done < Len(SYMLINKS) => target \in Paths
    BY <1>1, NodesNamed
  <2> HIDE DEF target
  <2>3. Fine(fsys) /\ done < Len(SYMLINKS) /\ after.ok => Leaves(fsys, after)
    BY <2>2, MakeShows, ShowsLeaves
  <2> HIDE DEF after
  <2>4. QED  BY <2>1, <2>3, LeavesGStep
<1>4. CASE CreateDevices
  <2> DEFINE d == b.devices[done + 1]
             after == extra_device(fsys, d, BindsNodes, HostUser)
  <2>1. Each("devices", b.devices, after, "pivot")
    BY <1>4 DEF CreateDevices
  <2>2. done < Len(b.devices) => resolve(d.path) \in Paths
    <3>1. b.devices \in Seq(DeviceEntries) /\ \A x \in ToSet(b.devices) : resolve(x.path) \in Paths
      BY <1>1, BundlesAssumption
    <3>2. Len(b.devices) \in Nat /\ DOMAIN b.devices = 1..Len(b.devices)
      BY <3>1, LenProperties
    <3>3. done < Len(b.devices) => d \in ToSet(b.devices)
      BY <1>1, <3>2 DEF ToSet
    <3>4. QED  BY <3>1, <3>3
  <2> HIDE DEF d
  <2>3. Fine(fsys) /\ done < Len(b.devices) /\ after.ok => Leaves(fsys, after)
    BY <2>2, ExtraDeviceLeaves
  <2> HIDE DEF after
  <2>4. QED  BY <2>1, <2>3, LeavesGStep
<1>5. QED  BY <1>2, <1>3, <1>4

\* With the new root in place, and with the console when there is one, what is read-only is fixed.
LEMMA Fixes ==
    ASSUME NEW f, Fine(f), b.terminal <=> b.console # "none", MountsFixed(f)
    PROVE  Hardened(f, 0, "identity")
  BY DEF Hardened, Inside, Tree, Late, AfterMasks, AfterPaths, AfterRoot

LEMMA PivotGStep == ASSUME GInv, PivotRoot PROVE Hardened(fsys', done', pc')
<1> DEFINE after == set_propagation(pivot(fsys), b.propagation)
<1>1. /\ pc = "pivot" /\ fsys' = after /\ UNCHANGED <<b, done>>
      /\ pc' = IF fsys'.ok THEN (IF b.console # "none" THEN "console" ELSE "identity") ELSE "failed"
  BY DEF PivotRoot, Go
<1>2. b \in Bundles /\ Fine(fsys) /\ (b.terminal <=> b.console # "none") /\ MountsHeld(fsys)
  BY <1>1, Constructs
<1>3. done = 0
  BY <1>1 DEF GInv, Hardened, Loops
<1>4. after.ok => Leaves(fsys, after)
  BY <1>2, PivotShows, ShowsLeaves
<1> HIDE DEF after
<1>5. after.ok => Fine(after) /\ MountsHeld(after)
  <2>1. \A i \in ReadonlyMounts : Destination(i) \in Paths
    BY <1>2, MountsAre DEF ReadonlyMounts
  <2>2. QED  BY <1>2, <1>4, <2>1 DEF MountsHeld, Leaves
<1>6. CASE pc' = "console"
  BY <1>1, <1>2, <1>3, <1>5, <1>6, Constructed
<1>7. CASE pc' = "identity"
  <2>1. MountsFixed(after)
    BY <1>1, <1>5, <1>7 DEF MountsFixed, MountsHeld, Held
  <2>2. QED  BY <1>1, <1>2, <1>3, <1>5, <1>7, <2>1, Fixes
<1>8. QED  BY <1>1, <1>6, <1>7, HardenedFails

LEMMA ConsoleGStep == ASSUME GInv, SetupConsole PROVE Hardened(fsys', done', pc')
<1> DEFINE after == setup_console(fsys)
<1>1. /\ pc = "console" /\ fsys' = after /\ UNCHANGED <<b, done>>
      /\ pc' = IF fsys'.ok THEN "identity" ELSE "failed"
  BY DEF SetupConsole, Go
<1>2. b \in Bundles /\ Fine(fsys) /\ (b.terminal <=> b.console # "none") /\ MountsHeld(fsys) /\ b.terminal
  BY <1>1, Constructs
<1>3. done = 0
  BY <1>1 DEF GInv, Hardened, Loops
<1>4. after.ok => Fine(after) /\ \A p \in Paths : Held(fsys, p) /\ ~IsPrefix(Dev("console"), p) => Held(after, p)
  BY <1>2, ConsoleLeaves
<1> HIDE DEF after
<1>5. after.ok => MountsFixed(after)
  <2>1. \A i \in ReadonlyMounts : Destination(i) \in Paths
    BY <1>2, MountsAre DEF ReadonlyMounts
  <2>2. ASSUME after.ok, NEW i \in ReadonlyMounts, ~UnderConsole(i) PROVE MountOf(after, Destination(i)).ro
    <3>1. ~IsPrefix(Dev("console"), Destination(i))
      BY <1>2, <2>2 DEF UnderConsole, BelowConsole
    <3>2. Held(after, Destination(i))
      BY <1>2, <1>4, <2>1, <2>2, <3>1 DEF MountsHeld
    <3>3. QED  BY <3>2 DEF Held
  <2>3. QED  BY <2>2 DEF MountsFixed
<1>6. QED  BY <1>1, <1>2, <1>3, <1>4, <1>5, Fixes, HardenedFails
LEMMA PathListsAre ==
    ASSUME b \in Bundles
    PROVE  /\ Len(b.masked) \in Nat /\ DOMAIN b.masked = 1..Len(b.masked)
           /\ \A k \in DOMAIN b.masked : b.masked[k] \in Paths /\ b.masked[k] \in ToSet(b.masked)
           /\ Len(b.readonlyPaths) \in Nat /\ DOMAIN b.readonlyPaths = 1..Len(b.readonlyPaths)
           /\ \A k \in DOMAIN b.readonlyPaths : b.readonlyPaths[k] \in Paths
<1>1. b.masked \in Seq(Paths) /\ b.readonlyPaths \in Seq(Paths)
  BY BundlesAssumption
<1>2. /\ Len(b.masked) \in Nat /\ DOMAIN b.masked = 1..Len(b.masked)
      /\ Len(b.readonlyPaths) \in Nat /\ DOMAIN b.readonlyPaths = 1..Len(b.readonlyPaths)
  BY <1>1, LenProperties
<1>3. \A k \in DOMAIN b.masked : b.masked[k] \in Paths
  BY <1>1, <1>2, ElementOfSeq
<1>4. \A k \in DOMAIN b.readonlyPaths : b.readonlyPaths[k] \in Paths
  BY <1>1, <1>2, ElementOfSeq
<1>5. \A k \in DOMAIN b.masked : b.masked[k] \in ToSet(b.masked)
  BY DEF ToSet
<1>6. QED  BY <1>2, <1>3, <1>4, <1>5

LEMMA NarrowsFixed ==
    ASSUME b \in Bundles, NEW f, NEW g, Narrows(f, g), NEW n
    PROVE  /\ MountsFixed(f) => MountsFixed(g)
           /\ MasksHold(f) => MasksHold(g)
           /\ ReadonlyTo(f, n) => ReadonlyTo(g, n)
           /\ PathsHold(f) => PathsHold(g)
<1>1. \A i \in ReadonlyMounts : Destination(i) \in Paths
  BY MountsAre DEF ReadonlyMounts
<1>2. MountsFixed(f) => MountsFixed(g)
  BY <1>1, NarrowsKeeps DEF MountsFixed
<1>3. MasksHold(f) => MasksHold(g)
  BY PathListsAre, NarrowsKeeps DEF MasksHold
<1>4. (ReadonlyTo(f, n) => ReadonlyTo(g, n)) /\ (PathsHold(f) => PathsHold(g))
  BY PathListsAre, NarrowsKeeps DEF ReadonlyTo, PathsHold
<1>5. QED  BY <1>2, <1>3, <1>4

\* The names and the sysctls do not concern the tree.
LEMMA NamesGStep == ASSUME GInv, SetIdentity \/ ApplySysctl PROVE Hardened(fsys', done', pc')
<1>1. /\ pc \in {"identity", "sysctl"} /\ UNCHANGED <<b, done, fsys>>
      /\ pc' \in {"sysctl", "failed", "mask", "limits"}
      /\ pc' = "limits" => ~OwnMounts(b)
  BY DEF SetIdentity, ApplySysctl, Go
<1>2. b \in Bundles
  BY DEF GInv, HInv, HostKept
<1>3. /\ done = 0 /\ (b.terminal <=> b.console # "none")
      /\ OwnMounts(b) => Fine(fsys) /\ MountsFixed(fsys)
  BY <1>1 DEF GInv, Hardened, Loops, Inside, Late, Tree
<1>4. MaskedTo(fsys, 0)
  <2>1. \A k \in DOMAIN b.masked : ~(k <= 0)
    BY <1>2, PathListsAre
  <2>2. QED  BY <2>1 DEF MaskedTo
<1>5. CASE pc' = "failed"
  BY <1>5, HardenedFails
<1>6. CASE pc' = "sysctl"
  BY <1>1, <1>3, <1>6 DEF Hardened, Inside, Tree, Late, AfterMasks, AfterPaths, AfterRoot
<1>7. CASE pc' = "mask"
  BY <1>1, <1>3, <1>4, <1>7 DEF Hardened, Inside, Tree, Late, AfterMasks, AfterPaths, AfterRoot
<1>8. CASE pc' = "limits"
  BY <1>1, <1>3, <1>8 DEF Hardened
<1>9. QED  BY <1>1, <1>5, <1>6, <1>7, <1>8

\* Where the tree is hardened.
LEMMA TreeHardens ==
    ASSUME GInv, pc \in {"mask", "readonly", "remounts", "rootfs"}
    PROVE  /\ b \in Bundles /\ done \in Nat /\ OwnMounts(b) /\ Fine(fsys)
           /\ (b.terminal <=> b.console # "none")
           /\ MountsFixed(fsys)
           /\ pc = "mask" => MaskedTo(fsys, done)
           /\ pc # "mask" => MasksHold(fsys)
           /\ pc = "readonly" => ReadonlyTo(fsys, done)
           /\ pc \in {"remounts", "rootfs"} => PathsHold(fsys)
           /\ pc = "rootfs" => done = 0
<1>1. b \in Bundles /\ done \in Nat
  BY DEF GInv, HInv, HostKept
<1>2. OwnMounts(b)
  BY DEF GInv, HInv, TreeKept, Hardening
<1>3. pc \in Inside \ {"root"} /\ pc \in Late
  BY DEF Inside, Late, Tree
<1>4. pc # "mask" => pc \in AfterMasks
  BY <1>3 DEF AfterMasks
<1>5. pc \in {"remounts", "rootfs"} => pc \in AfterPaths
  BY <1>4 DEF AfterPaths
<1>6. pc = "rootfs" => pc \notin Loops
  BY DEF Loops
<1>7. QED  BY <1>1, <1>2, <1>3, <1>4, <1>5, <1>6 DEF GInv, Hardened

LEMMA MasksGStep == ASSUME GInv, MaskPaths PROVE Hardened(fsys', done', pc')
<1> DEFINE p == b.masked[done + 1]
           after == mask_one(fsys, p)
<1>1. CASE pc' = "failed"
  BY <1>1, HardenedFails
<1>2. CASE pc' # "failed"
  <2>1. Each("mask", b.masked, after, "readonly")
    BY DEF MaskPaths
  <2>2. /\ pc = "mask" /\ b' = b
        /\ \/ done < Len(b.masked) /\ fsys' = after /\ done' = done + 1 /\ pc' = "mask" /\ after.ok
           \/ ~(done < Len(b.masked)) /\ fsys' = fsys /\ done' = 0 /\ pc' = "readonly"
    <3> HIDE DEF after
    <3>1. QED  BY <1>2, <2>1, EachOk
  <2>3. /\ b \in Bundles /\ done \in Nat /\ Fine(fsys) /\ (b.terminal <=> b.console # "none")
        /\ MountsFixed(fsys) /\ MaskedTo(fsys, done)
    BY <2>2, TreeHardens
  <2>4. CASE done < Len(b.masked) /\ fsys' = after /\ done' = done + 1 /\ pc' = "mask" /\ after.ok
    <3>1. done + 1 \in DOMAIN b.masked /\ p \in Paths /\ p \in ToSet(b.masked)
      BY <2>3, <2>4, PathListsAre
    <3>2. /\ Fine(after) /\ Hidden(after, p)
          /\ \A q \in Paths : ~IsPrefix(p, q) => MountOf(after, q) = MountOf(fsys, q)
          /\ \A q \in Paths : Hidden(fsys, q) => Hidden(after, q)
      BY <2>3, <2>4, <3>1, MaskHides
    <3> HIDE DEF after
    <3>3. MaskedTo(after, done + 1)
      <4>1. ASSUME NEW k \in DOMAIN b.masked, k <= done + 1 PROVE Hidden(after, b.masked[k])
        <5>1. CASE k = done + 1
          BY <3>2, <5>1
        <5>2. CASE k # done + 1
          <6>1. k <= done /\ b.masked[k] \in Paths
            BY <2>3, <4>1, <5>2, PathListsAre
          <6>2. QED  BY <2>3, <3>2, <6>1 DEF MaskedTo
        <5>3. QED  BY <5>1, <5>2
      <4>2. QED  BY <4>1 DEF MaskedTo
    <3>4. MountsFixed(after)
      <4>1. ASSUME NEW i \in ReadonlyMounts, ~UnderConsole(i), ~Masked(Destination(i))
            PROVE  MountOf(after, Destination(i)).ro
        <5>1. Destination(i) \in Paths /\ ~IsPrefix(p, Destination(i))
          BY <2>3, <3>1, <4>1, MountsAre DEF ReadonlyMounts, Masked
        <5>2. QED  BY <2>3, <3>2, <4>1, <5>1 DEF MountsFixed
      <4>2. QED  BY <4>1 DEF MountsFixed
    <3>5. QED  BY <2>3, <2>4, <3>2, <3>3, <3>4 DEF Hardened, Loops, Tree, AfterMasks, AfterPaths, AfterRoot
  <2>5. CASE ~(done < Len(b.masked)) /\ fsys' = fsys /\ done' = 0 /\ pc' = "readonly"
    <3>1. MasksHold(fsys)
      <4>1. \A k \in DOMAIN b.masked : k <= done
        BY <2>3, <2>5, PathListsAre
      <4>2. QED  BY <2>3, <4>1 DEF MasksHold, MaskedTo
    <3>2. ReadonlyTo(fsys, 0)
      <4>1. \A k \in DOMAIN b.readonlyPaths : ~(k <= 0)
        BY <2>3, PathListsAre
      <4>2. QED  BY <4>1 DEF ReadonlyTo
    <3>3. QED  BY <2>3, <2>5, <3>1, <3>2 DEF Hardened, Tree, AfterPaths, AfterRoot
  <2>6. QED  BY <2>2, <2>4, <2>5
<1>3. QED  BY <1>1, <1>2

LEMMA ReadonlyGStep == ASSUME GInv, ReadonlyPaths PROVE Hardened(fsys', done', pc')
<1> DEFINE p == b.readonlyPaths[done + 1]
           after == readonly_one(fsys, p)
<1>1. CASE pc' = "failed"
  BY <1>1, HardenedFails
<1>2. CASE pc' # "failed"
  <2>1. Each("readonly", b.readonlyPaths, after, "remounts")
    BY DEF ReadonlyPaths
  <2>2. /\ pc = "readonly" /\ b' = b
        /\ \/ done < Len(b.readonlyPaths) /\ fsys' = after /\ done' = done + 1 /\ pc' = "readonly" /\ after.ok
           \/ ~(done < Len(b.readonlyPaths)) /\ fsys' = fsys /\ done' = 0 /\ pc' = "remounts"
    <3> HIDE DEF after
    <3>1. QED  BY <1>2, <2>1, EachOk
  <2>3. /\ b \in Bundles /\ done \in Nat /\ Fine(fsys) /\ (b.terminal <=> b.console # "none")
        /\ MountsFixed(fsys) /\ MasksHold(fsys) /\ ReadonlyTo(fsys, done)
    BY <2>2, TreeHardens
  <2>4. CASE done < Len(b.readonlyPaths) /\ fsys' = after /\ done' = done + 1 /\ pc' = "readonly" /\ after.ok
    <3>1. done + 1 \in DOMAIN b.readonlyPaths /\ p \in Paths
      BY <2>3, <2>4, PathListsAre
    <3>2. Narrows(fsys, after) /\ Unwritable(after, p)
      BY <2>3, <2>4, <3>1, ReadonlyNarrows
    <3> HIDE DEF after
    <3>3. MountsFixed(after) /\ MasksHold(after) /\ ReadonlyTo(after, done) /\ Fine(after)
      BY <2>3, <3>2, NarrowsFixed DEF Narrows
    <3>4. ReadonlyTo(after, done + 1)
      <4>1. ASSUME NEW k \in DOMAIN b.readonlyPaths, k <= done + 1
            PROVE  Unwritable(after, b.readonlyPaths[k])
        <5>1. CASE k = done + 1
          BY <3>2, <5>1
        <5>2. CASE k # done + 1
          <6>1. k <= done
            BY <2>3, <4>1, <5>2, PathListsAre
          <6>2. QED  BY <3>3, <6>1 DEF ReadonlyTo
        <5>3. QED  BY <5>1, <5>2
      <4>2. QED  BY <4>1 DEF ReadonlyTo
    <3>5. QED  BY <2>3, <2>4, <3>3, <3>4 DEF Hardened, Loops, Tree, AfterPaths, AfterRoot
  <2>5. CASE ~(done < Len(b.readonlyPaths)) /\ fsys' = fsys /\ done' = 0 /\ pc' = "remounts"
    <3>1. PathsHold(fsys)
      <4>1. \A k \in DOMAIN b.readonlyPaths : k <= done
        BY <2>3, <2>5, PathListsAre
      <4>2. QED  BY <2>3, <4>1 DEF PathsHold, ReadonlyTo
    <3>2. QED  BY <2>3, <2>5, <3>1 DEF Hardened, Tree, AfterRoot
  <2>6. QED  BY <2>2, <2>4, <2>5
<1>3. QED  BY <1>1, <1>2

\* What is narrower after the paths keeps what HardeningHolds says of them.
LEMMA Narrowed ==
    ASSUME b \in Bundles, NEW f, NEW g, Narrows(f, g), NEW n, NEW at \in {"remounts", "rootfs", "limits"},
           b.terminal <=> b.console # "none", MountsFixed(f), MasksHold(f), PathsHold(f),
           at # "remounts" => n = 0, at = "limits" => (b.readonlyRoot => MountOf(g, <<>>).ro)
    PROVE  Hardened(g, n, at)
<1>1. MountsFixed(g) /\ MasksHold(g) /\ PathsHold(g) /\ Fine(g)
  BY NarrowsFixed DEF Narrows
<1>2. QED  BY <1>1 DEF Hardened, Loops, Tree, AfterRoot

LEMMA RemountsGStep == ASSUME GInv, RemountReadonly PROVE Hardened(fsys', done', pc')
<1> DEFINE m == b.mounts[done + 1]
           after == remount_readonly(fsys, m)
<1>1. CASE pc' = "failed"
  BY <1>1, HardenedFails
<1>2. CASE pc' # "failed"
  <2>1. Each("remounts", b.mounts, after, "rootfs")
    BY DEF RemountReadonly
  <2>2. /\ pc = "remounts" /\ b' = b
        /\ \/ done < Len(b.mounts) /\ fsys' = after /\ done' = done + 1 /\ pc' = "remounts" /\ after.ok
           \/ ~(done < Len(b.mounts)) /\ fsys' = fsys /\ done' = 0 /\ pc' = "rootfs"
    <3> HIDE DEF after
    <3>1. QED  BY <1>2, <2>1, EachOk
  <2>3. /\ b \in Bundles /\ done \in Nat /\ Fine(fsys) /\ (b.terminal <=> b.console # "none")
        /\ MountsFixed(fsys) /\ MasksHold(fsys) /\ PathsHold(fsys)
    BY <2>2, TreeHardens
  <2>4. CASE done < Len(b.mounts) /\ fsys' = after /\ done' = done + 1 /\ pc' = "remounts" /\ after.ok
    <3>1. resolve(m.destination) \in Paths
      BY <2>3, <2>4, MountsAre
    <3>2. Narrows(fsys, after)
      BY <2>3, <2>4, <3>1, RemountNarrows
    <3> HIDE DEF after
    <3>3. QED  BY <2>3, <2>4, <3>2, Narrowed
  <2>5. CASE ~(done < Len(b.mounts)) /\ fsys' = fsys /\ done' = 0 /\ pc' = "rootfs"
    BY <2>3, <2>5, NarrowsSelf, Narrowed
  <2>6. QED  BY <2>2, <2>4, <2>5
<1>3. QED  BY <1>1, <1>2

LEMMA RootfsGStep == ASSUME GInv, ReadonlyRootfs PROVE Hardened(fsys', done', pc')
<1> DEFINE root == <<>>
           set == SetRo(fsys, root, TRUE)
<1>1. /\ pc = "rootfs" /\ pc' = "limits" /\ UNCHANGED <<b, done>>
      /\ fsys' = IF b.readonlyRoot THEN set ELSE fsys
  BY DEF ReadonlyRootfs, readonly_rootfs
<1>2. /\ b \in Bundles /\ Fine(fsys) /\ (b.terminal <=> b.console # "none") /\ done = 0
      /\ MountsFixed(fsys) /\ MasksHold(fsys) /\ PathsHold(fsys)
  BY <1>1, TreeHardens
<1>3. root \in Paths
  BY EmptySeq DEF Paths
<1>4. Narrows(fsys, set) /\ MountOf(set, root).ro
  <2> HIDE DEF root
  <2>1. QED  BY <1>2, <1>3, SetRoNarrows
<1> HIDE DEF set
<1>5. Narrows(fsys, fsys') /\ (b.readonlyRoot => MountOf(fsys', root).ro)
  BY <1>1, <1>2, <1>4, NarrowsSelf
<1>6. QED  BY <1>1, <1>2, <1>5, Narrowed

LEMMA ProcessGStep ==
    ASSUME GInv,
           \/ ApplyLimits \/ FilterEarly \/ DropBounding \/ DropPrivileges \/ ApplyCapabilities
           \/ NoNewPrivs \/ FilterLate \/ Ready \/ Park \/ Exec \/ Starved
    PROVE  Hardened(fsys', done', pc')
<1> DEFINE Process == {"limits", "filter", "bounding", "user", "caps", "nnp", "late", "ready", "park", "parked",
                       "running", "lost"}
<1>1. UNCHANGED <<b, done, fsys>> /\ pc \in Process /\ pc' \in Process \cup {"failed"}
  <2> USE DEF Go
  <2>1. CASE ApplyLimits
    BY <2>1 DEF ApplyLimits
  <2>2. CASE FilterEarly \/ DropBounding \/ DropPrivileges
    BY <2>2 DEF FilterEarly, DropBounding, DropPrivileges, Privilege
  <2>3. CASE ApplyCapabilities \/ NoNewPrivs \/ FilterLate
    BY <2>3 DEF ApplyCapabilities, NoNewPrivs, FilterLate, Privilege
  <2>4. CASE Ready \/ Park \/ Exec \/ Starved
    BY <2>4 DEF Ready, Park, Exec, Starved, Privilege
  <2>5. QED  BY <2>1, <2>2, <2>3, <2>4
<1>2. \A at \in Process : at \in AfterRoot /\ at \in Inside \ {"root"} /\ at \notin Loops \cup Tree
  BY DEF AfterRoot, AfterPaths, AfterMasks, Late, Inside, Tree, Loops
<1>3. \A at \in Process : at \notin {"load", "plan", "failed", "mounts", "mask", "readonly", "console"}
  OBVIOUS
<1> HIDE DEF Process
<1>4. CASE pc' = "failed"
  BY <1>4, HardenedFails
<1>5. CASE pc' \in Process
  <2>1. Hardened(fsys, done, pc)
    BY DEF GInv
  <2>2. Hardened(fsys, done, pc')
    BY <1>1, <1>2, <1>3, <1>5, <2>1 DEF Hardened, AfterRoot, AfterPaths, AfterMasks
  <2>3. QED  BY <1>1, <2>2
<1>6. QED  BY <1>1, <1>4, <1>5

\* No step changes the bundle.
LEMMA BundleStays == ASSUME Next PROVE b' = b
<1>1. CASE LoadBundle \/ Plan \/ CreateCgroup \/ ApplyResources \/ Spawn
  BY <1>1 DEF LoadBundle, Plan, CreateCgroup, ApplyResources, Spawn
<1>2. CASE JoinExisting \/ Unshare \/ MapIds \/ Attach \/ UnshareCgroup
  BY <1>2 DEF JoinExisting, Unshare, MapIds, Attach, UnshareCgroup
<1>3. CASE MountRoot \/ PivotRoot \/ SetupConsole \/ SetIdentity \/ ApplySysctl \/ ReadonlyRootfs
  BY <1>3 DEF MountRoot, PivotRoot, SetupConsole, SetIdentity, ApplySysctl, ReadonlyRootfs
<1>4. CASE ApplyMounts \/ CreateNodes \/ CreateLinks \/ CreateDevices
  BY <1>4 DEF ApplyMounts, CreateNodes, CreateLinks, CreateDevices, Each
<1>5. CASE MaskPaths \/ ReadonlyPaths \/ RemountReadonly
  BY <1>5 DEF MaskPaths, ReadonlyPaths, RemountReadonly, Each
<1>6. CASE ApplyLimits \/ Park \/ Exec \/ Starved \/ Overflow
  BY <1>6 DEF ApplyLimits, Park, Exec, Starved, Overflow
<1>7. CASE FilterEarly \/ DropBounding \/ DropPrivileges \/ ApplyCapabilities \/ NoNewPrivs \/ FilterLate \/ Ready
  BY <1>7 DEF FilterEarly, DropBounding, DropPrivileges, ApplyCapabilities, NoNewPrivs, FilterLate, Ready, Privilege
<1>8. QED  BY <1>1, <1>2, <1>3, <1>4, <1>5, <1>6, <1>7 DEF Next

LEMMA NextGInv == GInv /\ [Next]_vars => GInv'
<1> SUFFICES ASSUME GInv, [Next]_vars PROVE GInv'
  OBVIOUS
<1>1. HInv'
  BY NextHInv DEF GInv
<1>2. CASE UNCHANGED vars
  <2>1. b' = b /\ fsys' = fsys /\ done' = done /\ pc' = pc
    BY <1>2 DEF vars
  <2>2. Hardened(fsys', done', pc')
    BY <2>1 DEF GInv
  <2>3. QED  BY <1>1, <2>1, <2>2, HardenedNext DEF GInv
<1>3. CASE Next
  <2>1. Hardened(fsys', done', pc')
    <3>1. CASE Overflow
      BY <3>1, HardenedFails DEF Overflow
    <3>2. CASE ~Overflow
      BY <1>3, <3>2, OutsideGStep, MountRootGStep, MountsGStep, NodesGStep, PivotGStep, ConsoleGStep, NamesGStep,
         MasksGStep, ReadonlyGStep, RemountsGStep, RootfsGStep, ProcessGStep DEF Next
    <3>3. QED  BY <3>1, <3>2
  <2>2. b' = b
    BY <1>3, BundleStays
  <2>3. QED  BY <1>1, <2>1, <2>2, HardenedNext DEF GInv
<1>4. QED  BY <1>2, <1>3

\* When create has reported success, and from then on, whatever the bundle lists and in whatever
\* order and nesting: no masked path shows what was there, no path that is to be read-only can be
\* written, no mount that was to be read-only can be, unless a later one of the bundle's own
\* entries covers it or makes it writable, and the root cannot if it was to be read-only
\* (mounts::apply, console::setup, mask_paths, readonly_paths, remount_readonly_mounts,
\* readonly_rootfs, and their order).
THEOREM HardeningLasts == Spec => []HardeningHolds
<1>1. GInv => HardeningHolds
  <2> SUFFICES ASSUME GInv, Created, OwnMounts(b) PROVE MaskedHidden /\ PathsReadonly /\ MountsReadonly /\ RootReadonly
    BY DEF HardeningHolds
  <2>1. b \in Bundles
    BY DEF GInv, HInv, HostKept
  <2>2. pc \in AfterRoot /\ pc \in Inside \ {"root"}
    BY DEF Created, AfterRoot, AfterPaths, AfterMasks, Late, Inside, Tree
  <2>3. pc \in AfterPaths /\ pc \in AfterMasks /\ pc \in Late
    BY <2>2 DEF AfterRoot, AfterPaths, AfterMasks
  <2>4. /\ MountsFixed(fsys) /\ MasksHold(fsys) /\ PathsHold(fsys)
        /\ b.readonlyRoot => MountOf(fsys, <<>>).ro
    BY <2>2, <2>3 DEF GInv, Hardened
  <2>5. MaskedHidden
    BY <2>4 DEF MaskedHidden, MasksHold, Hidden, ToSet
  <2>6. PathsReadonly
    BY <2>4 DEF PathsReadonly, PathsHold, Unwritable, ToSet
  <2>7. QED  BY <2>4, <2>5, <2>6 DEF MountsReadonly, MountsFixed, RootReadonly
<1>2. QED  BY <1>1, InitGInv, NextGInv, PTL DEF Spec

-----------------------------------------------------------------------------
(***************************************************************************)
(* What is seen in the tree: the names on the way to a path.               *)
(***************************************************************************)
\* Two paths above a third are one above the other.
LEMMA PrefixesMeet ==
    ASSUME NEW p \in Paths, NEW q \in Paths, NEW r \in Paths, IsPrefix(p, r), IsPrefix(q, r)
    PROVE  IsPrefix(p, q) \/ IsPrefix(q, p)
<1>1. Len(p) \in Nat /\ Len(q) \in Nat /\ Len(r) \in Nat
  BY LenProperties DEF Paths
<1>2. /\ Len(p) <= Len(r) /\ \A i \in 1..Len(p) : p[i] = r[i]
      /\ Len(q) <= Len(r) /\ \A i \in 1..Len(q) : q[i] = r[i]
  BY PrefixIs
<1>3. CASE Len(p) <= Len(q)
  <2>1. \A i \in 1..Len(p) : p[i] = q[i]
    BY <1>1, <1>2, <1>3
  <2>2. QED  BY <1>3, <2>1, PrefixIs
<1>4. CASE Len(q) <= Len(p)
  <2>1. \A i \in 1..Len(q) : q[i] = p[i]
    BY <1>1, <1>2, <1>4
  <2>2. QED  BY <1>4, <2>1, PrefixIs
<1>5. QED  BY <1>1, <1>3, <1>4

\* The paths above one component more: it itself, and those above it.
LEMMA PrefixesOfNext ==
    ASSUME NEW p \in Paths, NEW x \in Names
    PROVE  /\ Append(p, x) \in Paths /\ p \o <<x>> = Append(p, x)
           /\ IsPrefix(p, Append(p, x)) /\ Append(p, x) # p
           /\ \A q \in Paths : IsPrefix(q, Append(p, x)) => q = Append(p, x) \/ IsPrefix(q, p)
<1> DEFINE r == Append(p, x)
           n == Len(p)
<1>1. /\ n \in Nat /\ r \in Paths /\ Len(r) = n + 1
      /\ \A i \in 1..n : r[i] = p[i]
      /\ r[n + 1] = x
  BY LenProperties, AppendProperties DEF Paths
<1>2. p \o <<x>> = r
  BY DEF Paths
<1> HIDE DEF r
<1>3. IsPrefix(p, r)
  BY <1>1, PrefixIs
<1>4. ASSUME NEW q \in Paths, IsPrefix(q, r) PROVE q = r \/ IsPrefix(q, p)
  <2>1. Len(q) \in Nat /\ Len(q) <= n + 1 /\ \A i \in 1..Len(q) : q[i] = r[i]
    BY <1>1, <1>4, LenProperties, PrefixIs DEF Paths
  <2>2. CASE Len(q) = n + 1
    <3>1. q = r
      BY <1>1, <2>1, <2>2, SeqEqual DEF Paths
    <3>2. QED  BY <3>1
  <2>3. CASE Len(q) <= n
    <3>1. \A i \in 1..Len(q) : q[i] = p[i]
      BY <1>1, <2>1, <2>3
    <3>2. QED  BY <2>3, <3>1, PrefixIs
  <2>4. QED  BY <1>1, <2>1, <2>2, <2>3
<1>5. r # p
  BY <1>1
<1>6. QED  BY <1>1, <1>2, <1>3, <1>4, <1>5 DEF r

\* The device directory, and what is in it.
DevDir == <<"dev">>

LEMMA DevPrefixes ==
    ASSUME NEW x \in Names
    PROVE  /\ Dev(x) \in Paths /\ DevDir \in Paths /\ IsPrefix(DevDir, Dev(x))
           /\ \A q \in Paths : IsPrefix(q, Dev(x)) => q = Dev(x) \/ IsPrefix(q, DevDir)
<1>1. "dev" \in Names
  BY DEF Names
<1>2. DevDir \in Paths
  BY <1>1 DEF DevDir, Paths
<1>3. Dev(x) = Append(DevDir, x)
  BY <1>1 DEF Dev, DevDir
<1>4. QED  BY <1>2, <1>3, PrefixesOfNext

LEMMA PrefixSubIs ==
    ASSUME NEW p \in Paths, NEW i \in 1..Len(p)
    PROVE  SubSeq(p, 1, i) \in Paths /\ IsPrefix(SubSeq(p, 1, i), p)
<1>1. Len(p) \in Nat /\ \A j \in 1..Len(p) : p[j] \in Names
  BY LenProperties, ElementOfSeq DEF Paths
<1> DEFINE s == SubSeq(p, 1, i)
<1>2. \A j \in 1..i : p[j] \in Names
  BY <1>1
<1>3. s \in Seq(Names) /\ Len(s) = i /\ \A j \in 1..i : s[j] = p[j]
  BY <1>1, <1>2, SubSeqProperties
<1> HIDE DEF s
<1>4. IsPrefix(s, p)
  BY <1>1, <1>3, PrefixIs DEF Paths
<1>5. QED  BY <1>3, <1>4 DEF s, Paths

\* There, with every directory on the way.
Reached(f, p) == \A q \in Paths : IsPrefix(q, p) => Exists(f, q)

\* A tree as mounts and names build it: the file systems are where they were mounted, the
\* mounts that are seen are at paths that are there, and a file system that has a name has
\* those on the way to it.
Orderly(f) ==
    /\ Fine(f)
    /\ \A p \in Paths : MountOf(f, p).fs.at = MountOf(f, p).at /\ Reached(f, MountOf(f, p).at)
    /\ \A e \in f.has : e.path \in Paths
    /\ \A fs : \A p, q \in Paths :
          [fs |-> fs, path |-> p] \in f.has /\ IsPrefix(fs.at, q) /\ fs.at # q /\ IsPrefix(q, p)
              => [fs |-> fs, path |-> q] \in f.has

\* The mount of a path is also that of the paths between the two.
LEMMA SameMount ==
    ASSUME NEW f, Fine(f), NEW p \in Paths, NEW r \in Paths, IsPrefix(MountOf(f, p).at, r), IsPrefix(r, p)
    PROVE  MountOf(f, r) = MountOf(f, p)
<1> DEFINE i == Top(f, p)
<1>1. IsTop(f.tab, p, i)
  BY TopThere
<1>2. MountOf(f, p) = f.tab[i]
  BY DEF MountOf
<1> HIDE DEF i
<1>3. \A j \in 1..Len(f.tab) : f.tab[j].at \in Paths
  BY DEF Fine
<1>4. \A j \in 1..Len(f.tab) : IsPrefix(f.tab[j].at, r) => IsPrefix(f.tab[j].at, p)
  BY <1>3, PrefixOrder
<1>5. IsTop(f.tab, r, i)
  BY <1>1, <1>2, <1>4 DEF IsTop
<1>6. Top(f, r) = i
  BY <1>5, TopIs DEF Fine, FsTyped
<1>7. QED  BY <1>2, <1>6 DEF MountOf

LEMMA MountIsAbove ==
    ASSUME NEW f, Fine(f), NEW p \in Paths
    PROVE  MountOf(f, p).at \in Paths /\ IsPrefix(MountOf(f, p).at, p)
  BY TopThere DEF MountOf, IsTop, Fine

\* What is there can be reached.
LEMMA OrderlyReached == ASSUME NEW f, Orderly(f), NEW p \in Paths, Exists(f, p) PROVE Reached(f, p)
<1> DEFINE at == MountOf(f, p).at
           fs == MountOf(f, p).fs
<1>1. Fine(f) /\ at \in Paths /\ IsPrefix(at, p) /\ Reached(f, at) /\ fs.at = at
  BY MountIsAbove DEF Orderly
<1>2. CASE at = p
  BY <1>1, <1>2
<1>3. CASE at # p
  <2>1. [fs |-> fs, path |-> p] \in f.has
    BY <1>1, <1>3, ExistsIs
  <2>2. ASSUME NEW q \in Paths, IsPrefix(q, p) PROVE Exists(f, q)
    <3>1. CASE IsPrefix(q, at)
      BY <1>1, <3>1 DEF Reached
    <3>2. CASE ~IsPrefix(q, at)
      <4>1. IsPrefix(at, q) /\ at # q
        BY <1>1, <2>2, <3>2, PrefixesMeet, PrefixOrder
      <4>2. MountOf(f, q).fs = fs
        BY <1>1, <2>2, <4>1, SameMount
      <4>3. [fs |-> fs, path |-> q] \in f.has
        BY <1>1, <2>1, <2>2, <4>1 DEF Orderly
      <4>4. QED  BY <1>1, <4>2, <4>3, ExistsIs
    <3>3. QED  BY <3>1, <3>2
  <2>3. QED  BY <2>2 DEF Reached
<1>4. QED  BY <1>2, <1>3

\* The same mounts, and new names on them with all that is on the way.
LEMMA NamedOrderly ==
    ASSUME NEW f, NEW g, Orderly(f), Sees(f, g), NEW new \in SUBSET Paths,
           g.has = f.has \cup {[fs |-> MountOf(f, q).fs, path |-> q] : q \in new},
           \A q \in new : \A r \in Paths : IsPrefix(r, q) => Exists(f, r) \/ r \in new
    PROVE  Orderly(g)
<1>1. Fine(f) /\ Fine(g)
  BY DEF Orderly, Sees
<1>2. ASSUME NEW p \in Paths PROVE MountOf(g, p).fs.at = MountOf(g, p).at /\ Reached(g, MountOf(g, p).at)
  <2>1. MountOf(g, p).fs.at = MountOf(g, p).at /\ MountOf(g, p).at = MountOf(f, p).at
    BY DEF Orderly, Sees
  <2>2. Reached(f, MountOf(f, p).at)
    BY DEF Orderly
  <2>3. \A q \in Paths : Exists(f, q) => Exists(g, q)
    BY <1>1, SeesNames
  <2>4. QED  BY <2>1, <2>2, <2>3 DEF Reached
<1>3. \A e \in g.has : e.path \in Paths
  BY DEF Orderly
<1>4. ASSUME NEW fs, NEW p \in Paths, NEW q \in Paths, [fs |-> fs, path |-> p] \in g.has,
             IsPrefix(fs.at, q), fs.at # q, IsPrefix(q, p)
      PROVE  [fs |-> fs, path |-> q] \in g.has
  <2>1. CASE [fs |-> fs, path |-> p] \in f.has
    BY <1>4, <2>1 DEF Orderly
  <2>2. CASE [fs |-> fs, path |-> p] \notin f.has
    <3>1. p \in new /\ fs = MountOf(f, p).fs
      <4>1. PICK x \in new : [fs |-> fs, path |-> p] = [fs |-> MountOf(f, x).fs, path |-> x]
        BY <1>4, <2>2
      <4>2. QED  BY <4>1
    <3>2. fs.at = MountOf(f, p).at
      BY <3>1 DEF Orderly
    <3>3. MountOf(f, q) = MountOf(f, p)
      BY <1>1, <1>4, <3>2, SameMount
    <3>4. CASE q \in new
      BY <3>1, <3>3, <3>4
    <3>5. CASE Exists(f, q)
      BY <1>1, <1>4, <3>1, <3>2, <3>3, <3>5, ExistsIs
    <3>6. QED  BY <1>4, <3>1, <3>4, <3>5
  <2>3. QED  BY <2>1, <2>2
<1>5. QED  BY <1>1, <1>2, <1>3, <1>4 DEF Orderly

LEMMA SeenOrderly == ASSUME NEW f, NEW g, Orderly(f), Sees(f, g), g.has = f.has PROVE Orderly(g)
<1> DEFINE new == {}
<1>1. new \in SUBSET Paths /\ g.has = f.has \cup {[fs |-> MountOf(f, q).fs, path |-> q] : q \in new}
  OBVIOUS
<1>2. \A q \in new : \A r \in Paths : IsPrefix(r, q) => Exists(f, r) \/ r \in new
  OBVIOUS
<1> HIDE DEF new
<1>3. QED  BY <1>1, <1>2, NamedOrderly

\* What a file system holds is directly below its place.
LEMMA ContentsAre ==
    ASSUME NEW typ, NEW at \in Paths, NEW p \in Contents(typ, at)
    PROVE  \E x \in Names : p = Append(at, x)
<1> DEFINE Inner == {"kcore", "sys", "scsi", "self", "firmware", "cgroup", "ptmx", "sub"}
<1>1. \E x \in Inner : p = at \o <<x>>
  BY DEF Contents
<1>2. \A x \in Inner : x \in Names
  BY DEF Names
<1> HIDE DEF Inner
<1>3. QED  BY <1>1, <1>2, PrefixesOfNext

\* What a mount leaves as it was.
Beside(f, g, at) ==
    \A q \in Paths : ~IsPrefix(at, q) => MountOf(g, q).fs = MountOf(f, q).fs /\ (Exists(f, q) => Exists(g, q))

LEMMA AddBeside ==
    ASSUME NEW f, Fine(f), NEW fs, NEW at \in Paths, NEW ro \in BOOLEAN
    PROVE  LET g == Add(f, fs, at, ro)
           IN  Fine(g) /\ Exists(g, at) /\ MountOf(g, at).fs = fs /\ Beside(f, g, at)
<1> DEFINE g == Add(f, fs, at, ro)
<1>1. Covered(f, g, fs, at, ro)
  BY AddSees
<1> HIDE DEF g
<1>2. /\ Fine(g) /\ f.has \subseteq g.has
      /\ \A p \in Paths : MountOf(g, p) = IF IsPrefix(at, p) THEN Mounted(fs, at, ro) ELSE MountOf(f, p)
  BY <1>1 DEF Covered
<1>3. MountOf(g, at) = Mounted(fs, at, ro)
  BY <1>2, PrefixOrder
<1>4. Exists(g, at) /\ MountOf(g, at).fs = fs
  <2>1. MountOf(g, at).at = at /\ MountOf(g, at).fs = fs
    BY <1>3 DEF Mounted
  <2>2. QED  BY <1>2, <2>1, ExistsIs
<1>5. Beside(f, g, at)
  BY <1>2, ExistsIs DEF Beside
<1>6. QED  BY <1>2, <1>4, <1>5 DEF g

\* A mount at a path that is there.
LEMMA AddOrderly ==
    ASSUME NEW f, Orderly(f), NEW fs, NEW at \in Paths, fs.at = at, NEW ro \in BOOLEAN, Reached(f, at)
    PROVE  Orderly(Add(f, fs, at, ro))
<1> DEFINE g == Add(f, fs, at, ro)
<1>1. Fine(f)
  BY DEF Orderly
<1>2. Covered(f, g, fs, at, ro) /\ Exists(g, at) /\ Beside(f, g, at)
  BY <1>1, AddSees, AddBeside
<1> HIDE DEF g
<1>3. /\ Fine(g) /\ g.has = f.has \cup NamesIn(fs, at)
      /\ \A p \in Paths : MountOf(g, p) = IF IsPrefix(at, p) THEN Mounted(fs, at, ro) ELSE MountOf(f, p)
  BY <1>2 DEF Covered
<1>4. ASSUME NEW p \in Paths PROVE MountOf(g, p).fs.at = MountOf(g, p).at /\ Reached(g, MountOf(g, p).at)
  <2>1. CASE IsPrefix(at, p)
    <3>1. MountOf(g, p).fs = fs /\ MountOf(g, p).at = at
      BY <1>3, <2>1 DEF Mounted
    <3>2. ASSUME NEW q \in Paths, IsPrefix(q, at) PROVE Exists(g, q)
      <4>1. CASE IsPrefix(at, q)
        <5>1. q = at
          BY <3>2, <4>1, PrefixOrder
        <5>2. QED  BY <1>2, <5>1
      <4>2. CASE ~IsPrefix(at, q)
        BY <1>2, <3>2, <4>2 DEF Reached, Beside
      <4>3. QED  BY <4>1, <4>2
    <3>3. QED  BY <3>1, <3>2 DEF Reached
  <2>2. CASE ~IsPrefix(at, p)
    <3>1. MountOf(g, p) = MountOf(f, p)
      BY <1>3, <2>2
    <3>2. MountOf(f, p).fs.at = MountOf(f, p).at /\ Reached(f, MountOf(f, p).at)
      BY DEF Orderly
    <3>3. MountOf(f, p).at \in Paths /\ IsPrefix(MountOf(f, p).at, p)
      BY <1>1, MountIsAbove
    <3>4. ASSUME NEW q \in Paths, IsPrefix(q, MountOf(f, p).at) PROVE Exists(g, q)
      <4>1. ~IsPrefix(at, q)
        BY <2>2, <3>3, <3>4, PrefixOrder
      <4>2. QED  BY <1>2, <3>2, <3>4, <4>1 DEF Reached, Beside
    <3>5. QED  BY <3>1, <3>2, <3>4 DEF Reached
  <2>3. QED  BY <2>1, <2>2
<1>5. ASSUME NEW e \in NamesIn(fs, at)
      PROVE  e.fs = fs /\ \E x \in Names : e.path = Append(at, x)
  <2>1. PICK p \in Contents(fs.typ, at) : e = [fs |-> fs, path |-> p]
    BY DEF NamesIn
  <2>2. e.fs = fs /\ e.path = p
    BY <2>1
  <2>3. QED  BY <2>2, ContentsAre
<1>6. ASSUME NEW e \in g.has PROVE e.path \in Paths
  <2>1. CASE e \in f.has
    BY <2>1 DEF Orderly
  <2>2. CASE e \in NamesIn(fs, at)
    <3>1. PICK x \in Names : e.path = Append(at, x)
      BY <1>5, <2>2
    <3>2. QED  BY <3>1, PrefixesOfNext
  <2>3. QED  BY <1>3, <2>1, <2>2
<1>7. ASSUME NEW of, NEW p \in Paths, NEW q \in Paths, [fs |-> of, path |-> p] \in g.has,
             IsPrefix(of.at, q), of.at # q, IsPrefix(q, p)
      PROVE  [fs |-> of, path |-> q] \in g.has
  <2>1. CASE [fs |-> of, path |-> p] \in f.has
    <3>1. [fs |-> of, path |-> q] \in f.has
      BY <1>7, <2>1 DEF Orderly
    <3>2. QED  BY <1>3, <3>1
  <2>2. CASE [fs |-> of, path |-> p] \in NamesIn(fs, at)
    <3>1. of = fs /\ \E x \in Names : p = Append(at, x)
      <4> DEFINE e == [fs |-> of, path |-> p]
      <4>1. e.fs = of /\ e.path = p
        OBVIOUS
      <4>2. e \in NamesIn(fs, at)
        BY <2>2
      <4> HIDE DEF e
      <4>3. QED  BY <1>5, <4>1, <4>2
    <3>2. p = q \/ IsPrefix(q, at)
      BY <1>7, <3>1, PrefixesOfNext
    <3>3. p = q
      BY <1>7, <3>1, <3>2, PrefixOrder
    <3>4. QED  BY <1>7, <3>3
  <2>3. QED  BY <1>3, <1>7, <2>1, <2>2
<1>8. Orderly(g)
  BY <1>3, <1>4, <1>6, <1>7 DEF Orderly
<1>9. QED  BY <1>8 DEF g

-----------------------------------------------------------------------------
(***************************************************************************)
(* The operations a third time: what stays to be seen.                     *)
(***************************************************************************)
\* All that is there stays, on its own file system.
Grows(f, g) ==
    Orderly(g) /\ \A q \in Paths : Exists(f, q) => Exists(g, q) /\ MountOf(g, q).fs = MountOf(f, q).fs

LEMMA GrowsSelf == ASSUME NEW f, Orderly(f) PROVE Grows(f, f)
  BY DEF Grows

LEMMA GrowsBoth == ASSUME NEW f, NEW g, NEW h, Grows(f, g), Grows(g, h) PROVE Grows(f, h)
  BY DEF Grows

LEMMA SeenGrows == ASSUME NEW f, NEW g, Orderly(f), Sees(f, g), Orderly(g) PROVE Grows(f, g)
<1>1. \A q \in Paths : Exists(f, q) => Exists(g, q)
  BY SeesNames DEF Orderly
<1>2. QED  BY <1>1 DEF Grows, Sees

LEMMA MakeGrows ==
    ASSUME NEW f, Orderly(f), NEW p \in Paths, Make(f, p).ok
    PROVE  Grows(f, Make(f, p)) /\ Reached(Make(f, p), p) /\ f.ok
<1> DEFINE missing == {j \in 1..Len(p) : ~Exists(f, SubSeq(p, 1, j))}
           new == {SubSeq(p, 1, i) : i \in missing}
           more == f.has \cup {[fs |-> MountOf(f, q).fs, path |-> q] : q \in new}
           after == [f EXCEPT !.has = more]
           can == Holds(f, p)
           g == Make(f, p)
<1>1. g = IF new = {} THEN f ELSE Then(f, can, after)
  BY DEF Make
<1>2. Fine(f) /\ FsTyped(f)
  BY DEF Orderly, Fine
<1>3. /\ Sees(f, g) /\ f.ok
      /\ \A q \in Paths : IsPrefix(q, p) => Exists(g, q)
  BY <1>2, MakeSees
<1>4. new \in SUBSET Paths /\ \A q \in new : IsPrefix(q, p)
  BY PrefixSubIs
<1>5. ASSUME NEW q \in Paths, IsPrefix(q, p) PROVE Exists(f, q) \/ q \in new
  <2>1. CASE q = <<>>
    BY <1>2, <2>1, RootExists
  <2>2. CASE q # <<>>
    <3>1. Len(q) \in 1..Len(p) /\ SubSeq(p, 1, Len(q)) = q
      BY <1>5, <2>2, PrefixSub
    <3>2. ~Exists(f, q) => Len(q) \in missing
      BY <3>1
    <3> HIDE DEF missing
    <3>3. QED  BY <3>1, <3>2
  <2>3. QED  BY <2>1, <2>2
<1>6. \A q \in new : \A r \in Paths : IsPrefix(r, q) => Exists(f, r) \/ r \in new
  <2> HIDE DEF new
  <2>1. QED  BY <1>4, <1>5, PrefixOrder
<1>7. g.ok
  OBVIOUS
<1> HIDE DEF new, can, g
<1>8. Orderly(g)
  <2>1. CASE new = {}
    BY <1>1, <2>1
  <2>2. CASE new # {}
    <3>1. after.has = more
      BY <1>2, HasIs
    <3> HIDE DEF after
    <3>2. g = after
      BY <1>1, <1>2, <1>7, <2>2, ThenOk
    <3>3. QED  BY <1>3, <1>4, <1>6, <3>1, <3>2, NamedOrderly
  <2>3. QED  BY <2>1, <2>2
<1>9. Grows(f, g)
  BY <1>3, <1>8, SeenGrows
<1>10. QED  BY <1>3, <1>9 DEF g, Reached

LEMMA NodeGrows ==
    ASSUME NEW f, Orderly(f), NEW target \in Paths, NEW onHost, NEW user_namespace,
           node(f, target, onHost, user_namespace).ok
    PROVE  LET g == node(f, target, onHost, user_namespace) IN Grows(f, g) /\ Exists(g, target)
<1> DEFINE parent == Make(f, Front(target))
           made == Make(parent, target)
           no == FALSE
           after == Add(made, Fs("hostdev", "file", target), target, no)
           bound == Then(made, onHost, after)
           alone == Make(f, target)
           g == node(f, target, onHost, user_namespace)
<1>1. \/ g = f /\ (~f.ok \/ Exists(f, target))
      \/ g = bound /\ ~Exists(f, target)
      \/ g = alone
  BY DEF node, bind
<1>2. g.ok /\ Fine(f) /\ FsTyped(f)
  BY DEF Orderly, Fine
<1>3. CASE g = f /\ (~f.ok \/ Exists(f, target))
  <2> HIDE DEF g
  <2>1. Grows(f, g) /\ Exists(g, target)
    BY <1>2, <1>3, GrowsSelf
  <2>2. QED  BY <2>1 DEF g
<1>4. CASE g = alone
  <2>1. alone.ok
    BY <1>2, <1>4
  <2>2. Grows(f, alone) /\ Reached(alone, target)
    BY <2>1, MakeGrows
  <2> HIDE DEF alone, g
  <2>3. Grows(f, g) /\ Exists(g, target)
    BY <1>4, <2>2, PrefixOrder DEF Reached
  <2>4. QED  BY <2>3 DEF g
<1>5. CASE g = bound /\ ~Exists(f, target)
  <2>1. target # <<>>
    BY <1>2, <1>5, RootExists
  <2>2. Front(target) \in Paths
    BY <2>1, FrontIs
  <2>3. FsTyped(parent)
    BY <1>2, MakeKeeps DEF Plainly, Keeps
  <2>4. FsTyped(made)
    <3> HIDE DEF parent
    <3>1. QED  BY <2>3, MakeKeeps DEF Plainly, Keeps
  <2>5. bound = after /\ made.ok
    <3> HIDE DEF made, after, g
    <3>1. QED  BY <1>2, <1>5, <2>4, ThenOk
  <2>6. parent.ok
    <3> HIDE DEF parent
    <3>1. QED  BY <2>3, <2>5, MakeOk
  <2>7. Grows(f, parent)
    BY <2>2, <2>6, MakeGrows
  <2> HIDE DEF parent
  <2>8. Grows(parent, made) /\ Reached(made, target)
    BY <2>5, <2>7, MakeGrows DEF Grows
  <2> HIDE DEF made
  <2>9. Grows(f, made) /\ Orderly(made) /\ Fine(made)
    BY <2>7, <2>8, GrowsBoth DEF Grows, Orderly
  <2> DEFINE fs == Fs("hostdev", "file", target)
  <2>10. no \in BOOLEAN /\ fs.at = target
    BY DEF Fs
  <2> HIDE DEF no, fs
  <2>11. Orderly(after) /\ Exists(after, target) /\ Beside(made, after, target)
    <3>1. after = Add(made, fs, target, no)
      BY DEF fs
    <3> HIDE DEF after
    <3>2. QED  BY <2>8, <2>9, <2>10, <3>1, AddOrderly, AddBeside
  <2> HIDE DEF after, g, bound
  <2>12. ASSUME NEW q \in Paths, Exists(f, q) PROVE Exists(after, q) /\ MountOf(after, q).fs = MountOf(f, q).fs
    <3>1. ~IsPrefix(target, q)
      BY <1>5, <2>12, OrderlyReached DEF Reached
    <3>2. QED  BY <2>9, <2>11, <2>12, <3>1 DEF Grows, Beside
  <2>13. Grows(f, g) /\ Exists(g, target)
    BY <1>5, <2>5, <2>11, <2>12 DEF Grows
  <2>14. QED  BY <2>13 DEF g
<1>6. QED  BY <1>1, <1>3, <1>4, <1>5

LEMMA ChownGrows ==
    ASSUME NEW f, Orderly(f), NEW target, NEW hostUser, chown(f, target, hostUser).ok
    PROVE  Grows(f, chown(f, target, hostUser))
<1> DEFINE touched == f.touched \cup {"owner of a device"}
           after == [f EXCEPT !.touched = touched]
           at == \E m \in ToSet(f.tab) : m = MountOf(f, target) /\ m.fs.typ = "hostdev"
           g == chown(f, target, hostUser)
<1>1. g = IF at THEN Then(f, hostUser, after) ELSE f
  BY DEF chown
<1>2. g.ok /\ FsTyped(f) /\ Fine(f)
  BY DEF Fine, Orderly
<1> HIDE DEF at, touched
<1>3. FsTyped(after) /\ after.tab = f.tab /\ after.has = f.has
  BY <1>2 DEF FsTyped, FsShape
<1> HIDE DEF after, g
<1>4. Sees(f, after)
  BY <1>2, <1>3, SameTabSees
<1>5. Grows(f, after)
  BY <1>3, <1>4, SeenOrderly, SeenGrows
<1>6. g \in {f, after}
  BY <1>1, <1>2, ThenOk
<1>7. Grows(f, g)
  BY <1>5, <1>6, GrowsSelf
<1>8. QED  BY <1>7 DEF g

LEMMA ExtraDeviceGrows ==
    ASSUME NEW f, Orderly(f), NEW d, resolve(d.path) \in Paths, NEW user_namespace, NEW hostUser,
           extra_device(f, d, user_namespace, hostUser).ok
    PROVE  LET g == extra_device(f, d, user_namespace, hostUser) IN Grows(f, g) /\ Exists(g, resolve(d.path))
<1> DEFINE target == resolve(d.path)
           there == node(f, target, d.onHost, user_namespace)
           owned == chown(there, target, hostUser)
           g == extra_device(f, d, user_namespace, hostUser)
<1>1. g = IF there.ok /\ d.owned THEN owned ELSE there
  BY DEF extra_device
<1>2. g.ok /\ target \in Paths
  OBVIOUS
<1> HIDE DEF target
<1>3. there.ok
  <2> HIDE DEF there, g
  <2>1. QED  BY <1>1, <1>2
<1>4. Grows(f, there) /\ Exists(there, target)
  BY <1>2, <1>3, NodeGrows
<1> HIDE DEF there
<1>5. owned.ok => Grows(there, owned)
  BY <1>4, ChownGrows DEF Grows
<1> HIDE DEF owned, g
<1>6. Grows(f, g) /\ Exists(g, target)
  <2>1. CASE g = there
    BY <1>4, <2>1
  <2>2. CASE g = owned
    <3>1. Grows(there, g)
      BY <1>2, <1>5, <2>2
    <3>2. QED  BY <1>2, <1>4, <3>1, GrowsBoth DEF Grows
  <2>3. QED  BY <1>1, <2>1, <2>2
<1>7. QED  BY <1>6 DEF g, target

\* A mount that is added is seen at its place, and covers what was there and below.
Raises(f, g, flags, at, source) ==
    /\ Orderly(g) /\ Exists(g, at)
    /\ Adds(flags) => MountOf(g, at).fs.at = at /\ MountOf(g, at).fs.source = source
    /\ \A q \in Paths :
          Exists(f, q) /\ ~(Adds(flags) /\ IsPrefix(at, q)) => Exists(g, q) /\ MountOf(g, q).fs = MountOf(f, q).fs

LEMMA AddRaises ==
    ASSUME NEW f, Orderly(f), NEW at \in Paths, Reached(f, at), NEW fs, fs.at = at, NEW source, fs.source = source,
           NEW ro \in BOOLEAN, NEW flags, Adds(flags)
    PROVE  Raises(f, Add(f, fs, at, ro), flags, at, source)
<1> DEFINE g == Add(f, fs, at, ro)
<1>1. Orderly(g) /\ Exists(g, at) /\ MountOf(g, at).fs = fs /\ Beside(f, g, at)
  BY AddOrderly, AddBeside DEF Orderly
<1> HIDE DEF g
<1>2. Raises(f, g, flags, at, source)
  BY <1>1 DEF Raises, Beside
<1>3. QED  BY <1>2 DEF g

LEMMA SeenRaises ==
    ASSUME NEW f, NEW g, Orderly(f), Sees(f, g), g.has = f.has, NEW at \in Paths, Reached(f, at),
           NEW flags, ~Adds(flags), NEW source
    PROVE  Raises(f, g, flags, at, source)
<1>1. Grows(f, g)
  BY SeenOrderly, SeenGrows
<1>2. Exists(f, at)
  BY PrefixOrder DEF Reached
<1>3. QED  BY <1>1, <1>2 DEF Raises, Grows

LEMMA MountRaises ==
    ASSUME NEW f, Orderly(f), NEW m, NEW at \in Paths, Reached(f, at), NEW fstype, NEW flags, NEW able,
           Mount(f, m, at, fstype, flags, able).ok
    PROVE  Raises(f, Mount(f, m, at, fstype, flags, able), flags, at, m.source)
<1> DEFINE props == flags \cap {"private", "slave", "shared", "unbindable"}
           ro == "ro" \in flags
           un == "unbindable" \in props
           bound == Fs(IF m.source = "file" THEN "hostfile" ELSE "hostdir", m.source, at)
           new == NewFs(f, fstype, m.source, at)
           no == FALSE
           there == MountPoint(f, at)
           found == m.source # "gone"
           changes == flags \ props \subseteq {"rec"} /\ MountPoint(f, at)
           may == fstype \in DOMAIN Governs /\ Governs[fstype] \in able
           remounted == SetRo(f, at, ro)
           bind1 == Add(f, bound, at, no)
           changed == [f EXCEPT !.tab[Top(f, at)].unbindable = un]
           mounted == Add(f, new, at, ro)
           g == Mount(f, m, at, fstype, flags, able)
<1>1. g = IF "remount" \in flags THEN Then(f, there, remounted)
          ELSE IF "bind" \in flags THEN Then(f, found, bind1)
          ELSE IF props # {} THEN Then(f, changes, changed) ELSE Then(f, may, mounted)
  BY DEF Mount
<1>2. g.ok /\ Fine(f) /\ FsTyped(f) /\ ro \in BOOLEAN /\ no \in BOOLEAN
  BY DEF Orderly, Fine
<1>3. CASE "remount" \in flags
  <2>1. ~Adds(flags)
    BY <1>3 DEF Adds
  <2> HIDE DEF ro
  <2>2. Sees(f, remounted) /\ remounted.has = f.has
    BY <1>2, SetRoSees DEF Flagged
  <2> HIDE DEF remounted, there, g
  <2>3. Raises(f, remounted, flags, at, m.source)
    BY <2>1, <2>2, SeenRaises
  <2>4. g = remounted
    BY <1>1, <1>2, <1>3, ThenOk
  <2>5. QED  BY <2>3, <2>4 DEF g
<1>4. CASE "remount" \notin flags /\ "bind" \in flags
  <2>1. Adds(flags) /\ bound.at = at /\ bound.source = m.source
    BY <1>4 DEF Adds, Fs
  <2> HIDE DEF no, bound
  <2>2. Raises(f, bind1, flags, at, m.source)
    BY <1>2, <2>1, AddRaises
  <2> HIDE DEF bind1, found, g
  <2>3. g = bind1
    BY <1>1, <1>2, <1>4, ThenOk
  <2>4. QED  BY <2>2, <2>3 DEF g
<1>5. CASE "remount" \notin flags /\ "bind" \notin flags /\ props # {}
  <2>1. ~Adds(flags)
    BY <1>5 DEF Adds
  <2> HIDE DEF un
  <2>2. Sees(f, changed) /\ changed.has = f.has
    BY <1>2, UnbindableSees
  <2> HIDE DEF changed
  <2>3. Raises(f, changed, flags, at, m.source)
    BY <2>1, <2>2, SeenRaises
  <2> HIDE DEF changes, g, props
  <2>4. g = changed
    BY <1>1, <1>2, <1>5, ThenOk
  <2>5. QED  BY <2>3, <2>4 DEF g
<1>6. CASE "remount" \notin flags /\ "bind" \notin flags /\ props = {}
  <2>1. Adds(flags) /\ new.at = at /\ new.source = m.source
    BY <1>6 DEF Adds, NewFs
  <2> HIDE DEF ro, new
  <2>2. Raises(f, mounted, flags, at, m.source)
    BY <1>2, <2>1, AddRaises
  <2> HIDE DEF mounted, may, g, props
  <2>3. g = mounted
    BY <1>1, <1>2, <1>6, ThenOk
  <2>4. QED  BY <2>2, <2>3 DEF g
<1>7. QED  BY <1>3, <1>4, <1>5, <1>6

LEMMA RaisesBetween ==
    ASSUME NEW f, NEW f1, NEW g1, NEW g, NEW flags, NEW at \in Paths, NEW source,
           Grows(f, f1), Raises(f1, g1, flags, at, source), Grows(g1, g)
    PROVE  Raises(f, g, flags, at, source)
  BY DEF Raises, Grows

LEMMA LinkGrows ==
    ASSUME NEW f, Orderly(f), link_ptmx(f).ok
    PROVE  Grows(f, link_ptmx(f)) /\ Exists(link_ptmx(f), Dev("ptmx"))
<1> DEFINE ptmx == Dev("ptmx")
           new == {ptmx}
           has == f.has \cup {[fs |-> MountOf(f, q).fs, path |-> q] : q \in new}
           after == [f EXCEPT !.has = has]
           can == Exists(f, <<"dev">>) /\ Holds(f, ptmx)
           g == link_ptmx(f)
<1>1. FsTyped(f) /\ Fine(f) /\ g.ok
  BY DEF Orderly, Fine
<1>2. g = Then(f, can, after)
  <2>1. has = f.has \cup {[fs |-> MountOf(f, ptmx).fs, path |-> ptmx]}
    OBVIOUS
  <2> HIDE DEF has
  <2>2. QED  BY <1>1, <2>1 DEF link_ptmx, FsTyped, FsShape, Dev
<1>3. /\ ptmx \in Paths /\ DevDir \in Paths
      /\ \A q \in Paths : IsPrefix(q, ptmx) => q = ptmx \/ IsPrefix(q, DevDir)
  <2>1. "ptmx" \in Names
    BY DEF Names
  <2>2. QED  BY <2>1, DevPrefixes
<1> HIDE DEF ptmx
<1>4. new \in SUBSET Paths /\ f.has \subseteq has
  BY <1>3
<1>5. [fs |-> MountOf(f, ptmx).fs, path |-> ptmx] \in has
  OBVIOUS
<1> HIDE DEF has
<1>6. Sees(f, after) /\ after.has = has /\ \A q \in Paths : MountOf(after, q) = MountOf(f, q)
  BY <1>1, <1>4, HasSees
<1> HIDE DEF after, g
<1>7. g = after /\ can
  <2> HIDE DEF can
  <2>1. QED  BY <1>1, <1>2, ThenOk
<1>8. \A q \in new : \A r \in Paths : IsPrefix(r, q) => Exists(f, r) \/ r \in new
  <2>1. Reached(f, DevDir)
    BY <1>3, <1>7, OrderlyReached DEF DevDir
  <2>2. QED  BY <1>3, <2>1 DEF Reached
<1> HIDE DEF new
<1>9. Orderly(g)
  BY <1>4, <1>6, <1>7, <1>8, NamedOrderly DEF has
<1>10. Grows(f, g)
  BY <1>6, <1>7, <1>9, SeenGrows
<1>11. Exists(g, ptmx)
  BY <1>3, <1>5, <1>6, <1>7, ExistsIs DEF Sees
<1>12. QED  BY <1>10, <1>11 DEF g, ptmx

LEMMA ApplyOneRaises ==
    ASSUME NEW f, Orderly(f), NEW m, resolve(m.destination) \in Paths, NEW able, apply_one(f, m, able).ok
    PROVE  LET g == apply_one(f, m, able)
           IN  /\ Raises(f, g, parse_options(m.options).flags, resolve(m.destination), m.source)
               /\ m.typ = "devpts" => Exists(g, Dev("ptmx"))
<1> DEFINE destination == resolve(m.destination)
           fstype == effective_fstype(m.typ)
           flags == parse_options(m.options).flags
           made == Make(f, destination)
           mounted == Mount(made, m, destination, fstype, flags, able)
           linked == link_ptmx(mounted)
           g == apply_one(f, m, able)
<1>1. g = IF mounted.ok /\ fstype = "devpts" THEN linked ELSE mounted
  BY DEF apply_one
<1>2. FsTyped(made) /\ destination \in Paths /\ g.ok
  BY MakeKeeps DEF Orderly, Fine, Plainly, Keeps
<1>3. m.typ = "devpts" => fstype = "devpts"
  BY DEF effective_fstype
<1> HIDE DEF destination, fstype, flags
<1>4. mounted.ok
  <2> HIDE DEF mounted, g
  <2>1. QED  BY <1>1, <1>2
<1>5. made.ok
  <2> HIDE DEF made
  <2>1. QED  BY <1>2, <1>4, MountOk
<1>6. Grows(f, made) /\ Reached(made, destination) /\ Orderly(made)
  BY <1>2, <1>5, MakeGrows DEF Grows
<1> HIDE DEF made
<1>7. Raises(made, mounted, flags, destination, m.source)
  BY <1>2, <1>4, <1>6, MountRaises
<1> HIDE DEF mounted
<1>8. Orderly(mounted)
  BY <1>7 DEF Raises
<1>9. linked.ok => Grows(mounted, linked) /\ Exists(linked, Dev("ptmx"))
  BY <1>8, LinkGrows
<1> HIDE DEF linked, g
<1>10. Grows(mounted, g) /\ (fstype = "devpts" => Exists(g, Dev("ptmx")))
  BY <1>1, <1>2, <1>4, <1>8, <1>9, GrowsSelf
<1>11. Raises(f, g, flags, destination, m.source)
  BY <1>2, <1>6, <1>7, <1>10, RaisesBetween
<1>12. QED  BY <1>3, <1>10, <1>11 DEF g, destination, flags

\* The container's root, with what it holds, is such a tree.
LEMMA UnpackedIs ==
    /\ Unpacked \subseteq Paths
    /\ \A q \in Unpacked : \A r \in Paths : IsPrefix(r, q) => r = <<>> \/ r \in Unpacked
<1> DEFINE root == <<>>
           Top1 == {"proc", "sys", "dev", "etc", "data"}
<1>1. root \in Paths
  BY EmptySeq DEF Paths
<1>2. \A x \in Top1 \cup {"hosts"} : x \in Names
  BY DEF Names
<1>3. \A x : Append(root, x) = <<x>>
  OBVIOUS
<1>4. Unpacked = {<<x>> : x \in Top1} \cup {<<"etc", "hosts">>}
  BY DEF Unpacked
<1>5. "etc" \in Names /\ "hosts" \in Names
  BY DEF Names
<1>6. <<"etc", "hosts">> = Append(<<"etc">>, "hosts")
  BY <1>5
<1> HIDE DEF root, Top1
<1>7. ASSUME NEW x \in Top1
      PROVE  <<x>> \in Paths /\ \A r \in Paths : IsPrefix(r, <<x>>) => r = <<x>> \/ r = root
  <2>1. x \in Names /\ Append(root, x) = <<x>>
    BY <1>2, <1>3
  <2>2. /\ Append(root, x) \in Paths
        /\ \A r \in Paths : IsPrefix(r, Append(root, x)) => r = Append(root, x) \/ IsPrefix(r, root)
    BY <1>1, <2>1, PrefixesOfNext
  <2>3. \A r \in Paths : IsPrefix(r, root) => r = root
    BY PrefixOfRoot DEF root
  <2>4. QED  BY <2>1, <2>2, <2>3
<1>8. "etc" \in Top1
  BY DEF Top1
<1>9. /\ <<"etc", "hosts">> \in Paths
      /\ \A r \in Paths : IsPrefix(r, <<"etc", "hosts">>) => r = <<"etc", "hosts">> \/ r = <<"etc">> \/ r = root
  <2>1. /\ Append(<<"etc">>, "hosts") \in Paths
        /\ \A r \in Paths : IsPrefix(r, Append(<<"etc">>, "hosts")) => r = Append(<<"etc">>, "hosts") \/ IsPrefix(r, <<"etc">>)
    BY <1>2, <1>7, <1>8, PrefixesOfNext
  <2>2. QED  BY <2>1, <1>6, <1>7, <1>8
<1>10. QED  BY <1>4, <1>7, <1>8, <1>9 DEF root

\* The root alone, with what was unpacked there.
Planted(g, typ) ==
    LET root == Mounted(Fs(typ, "none", <<>>), <<>>, FALSE)
    IN  /\ Len(g.tab) = 1 /\ g.tab[1] = root /\ \A p \in Paths : MountOf(g, p) = root
        /\ g.has = {[fs |-> Fs(typ, "none", <<>>), path |-> p] : p \in Unpacked}

LEMMA RootedOrderly ==
    ASSUME NEW f, FsTyped(f), f.tab = <<>>, f.has = {}, NEW typ \in {"base", "overlay"}, NEW layers
    PROVE  LET g == Rooted(f, typ, layers)
           IN  Orderly(g) /\ g.layers = layers /\ g.prop = f.prop /\ g.old = f.old /\ g.ok = f.ok /\ Planted(g, typ)
<1> DEFINE root == <<>>
           no == FALSE
           fs == Fs(typ, "none", root)
           m == Mounted(fs, root, no)
           g == Add(f, fs, root, no)
           has == g.has \cup {[fs |-> fs, path |-> p] : p \in Unpacked}
           h1 == [g EXCEPT !.has = has]
           h == [h1 EXCEPT !.layers = layers]
<1>1. root \in Paths /\ no \in BOOLEAN
  BY EmptySeq DEF Paths
<1>2. FsTyped(g) /\ HasRoot(g) /\ g.prop = f.prop /\ g.old = f.old
  BY AddKeeps DEF Keeps
<1>2a. g.ok = f.ok
  BY DEF Add, FsTyped, FsShape
<1>3. Rooted(f, typ, layers) = h
  BY <1>2 DEF Rooted, FsTyped, FsShape
<1>4. g.has = {}
  <2>1. Contents(typ, root) = {} /\ fs.typ = typ
    BY DEF Contents, Fs
  <2>2. g.has = f.has \cup {[fs |-> fs, path |-> q] : q \in Contents(fs.typ, root)}
    BY DEF Add, FsTyped, FsShape
  <2>3. QED  BY <2>1, <2>2
<1>5. Fine(h)
  BY <1>3, RootedFine
<1>6. fs.at = root /\ m.at = root /\ m.fs = fs
  BY DEF Fs, Mounted
<1>7. g.tab = Append(f.tab, m) /\ IsMount(m)
  BY <1>1 DEF Add, FsTyped, FsShape, Mounted, IsMount
<1> HIDE DEF g, m
<1>8. Len(g.tab) = 1 /\ g.tab[1] = m
  <2>1. Len(f.tab) = 0
    BY EmptySeq
  <2>2. Len(Append(f.tab, m)) = Len(f.tab) + 1 /\ Append(f.tab, m)[Len(f.tab) + 1] = m
    BY <1>7, TableAppend DEF FsTyped
  <2>3. QED  BY <1>7, <2>1, <2>2
<1> HIDE DEF has, fs
<1>9. h1.tab = g.tab /\ h1.has = has /\ FsTyped(h1) /\ h1.prop = g.prop /\ h1.old = g.old
  BY <1>2 DEF FsTyped, FsShape
<1>9a. h1.ok = g.ok
  BY <1>2 DEF FsTyped, FsShape, h1
<1> HIDE DEF h1
<1>10a. h.ok = h1.ok
  BY <1>9 DEF FsTyped, FsShape
<1>10. h.tab = g.tab /\ h.has = has /\ h.layers = layers /\ h.prop = g.prop /\ h.old = g.old
  BY <1>9 DEF FsTyped, FsShape
<1>11. h.has = {[fs |-> fs, path |-> p] : p \in Unpacked}
  BY <1>4, <1>10 DEF has
<1> HIDE DEF h
<1>12. ASSUME NEW p \in Paths PROVE MountOf(h, p) = m
  <2>1. Top(h, p) \in 1..Len(h.tab)
    BY <1>5, TopThere DEF IsTop
  <2>2. Top(h, p) = 1
    BY <1>8, <1>10, <2>1
  <2>3. QED  BY <1>8, <1>10, <2>2 DEF MountOf
<1>13. ASSUME NEW p \in Paths PROVE MountOf(h, p).fs.at = MountOf(h, p).at /\ Reached(h, MountOf(h, p).at)
  <2>1. MountOf(h, p).fs.at = root /\ MountOf(h, p).at = root
    BY <1>6, <1>12
  <2>2. Exists(h, root)
    BY <1>5, RootExists DEF root
  <2>3. Reached(h, root)
    BY <2>2, PrefixOfRoot DEF Reached, root
  <2>4. QED  BY <2>1, <2>3
<1>14. \A e \in h.has : e.path \in Paths
  BY <1>11, UnpackedIs
<1>15. ASSUME NEW s, NEW p \in Paths, NEW q \in Paths, [fs |-> s, path |-> p] \in h.has,
              IsPrefix(s.at, q), s.at # q, IsPrefix(q, p)
       PROVE  [fs |-> s, path |-> q] \in h.has
  <2>1. s = fs /\ p \in Unpacked
    <3>1. PICK x \in Unpacked : [fs |-> s, path |-> p] = [fs |-> fs, path |-> x]
      BY <1>11, <1>15
    <3>2. QED  BY <3>1
  <2>2. q \in Unpacked
    BY <1>6, <1>15, <2>1, UnpackedIs DEF root
  <2>3. QED  BY <1>11, <2>1, <2>2
<1>16. Orderly(h)
  BY <1>5, <1>13, <1>14, <1>15 DEF Orderly
<1>17. Planted(h, typ)
  BY <1>8, <1>10, <1>11, <1>12 DEF Planted, m, fs, root, no
<1>18. QED  BY <1>2, <1>2a, <1>3, <1>9a, <1>10, <1>10a, <1>16, <1>17

\* What is there stays, and on its file system, but for what is at or below the hidden paths;
\* a hidden path itself is still there.
Spares(f, g, hidden) ==
    /\ Fine(g)
    /\ \A q \in Paths : Exists(f, q) =>
          /\ (\A p \in hidden : ~IsPrefix(p, q)) => MountOf(g, q).fs = MountOf(f, q).fs
          /\ (\A p \in hidden : IsPrefix(p, q) => p = q) => Exists(g, q)

LEMMA GrowsSpares == ASSUME NEW f, NEW g, Grows(f, g), NEW hidden PROVE Spares(f, g, hidden)
  BY DEF Grows, Spares, Orderly

LEMMA ShowsSpares == ASSUME NEW f, Fine(f), NEW g, Shows(f, g), NEW hidden PROVE Spares(f, g, hidden)
<1>1. Fine(g) /\ Sees(f, g)
  BY DEF Shows, Sees
<1>2. \A q \in Paths : Exists(f, q) => Exists(g, q) /\ MountOf(g, q).fs = MountOf(f, q).fs
  BY <1>1, SeesNames DEF Sees
<1>3. QED  BY <1>1, <1>2 DEF Spares

LEMMA NarrowsSpares == ASSUME NEW f, NEW g, Narrows(f, g), NEW hidden PROVE Spares(f, g, hidden)
  BY DEF Narrows, Spares

LEMMA MaskSpares ==
    ASSUME NEW f, Fine(f), NEW p \in Paths, mask_one(f, p).ok
    PROVE  Spares(f, mask_one(f, p), {p})
<1> DEFINE g == mask_one(f, p)
<1>1. /\ Fine(g)
      /\ \A q \in Paths : ~IsPrefix(p, q) => MountOf(g, q) = MountOf(f, q)
      /\ \A q \in Paths : Exists(f, q) /\ (q = p \/ ~IsPrefix(p, q)) => Exists(g, q)
  BY MaskHides
<1> HIDE DEF g
<1>2. Spares(f, g, {p})
  BY <1>1 DEF Spares
<1>3. QED  BY <1>2 DEF g

LEMMA ConsoleSpares ==
    ASSUME NEW f, Fine(f), setup_console(f).ok
    PROVE  LET g == setup_console(f)
           IN  /\ Spares(f, g, {Dev("console")})
               /\ Exists(g, Dev("console")) /\ MountOf(g, Dev("console")).fs.typ = "pty"
<1> DEFINE c == Dev("console")
           made == Make(f, c)
           no == FALSE
           fs == Fs("pty", "none", c)
           can == ~MountOf(made, <<"dev", "pts">>).unbindable
           added == Add(made, fs, c, no)
           bound == bind_console(f)
           g == setup_console(f)
<1>1. c \in Paths /\ no \in BOOLEAN /\ fs.typ = "pty"
  <2>1. "console" \in Names
    BY DEF Names
  <2>2. QED  BY <2>1, DevIs DEF Fs
<1>2. g = Then(f, HasPtys(f), bound) /\ bound = Then(made, can, added)
  BY DEF setup_console, bind_console
<1>3. FsTyped(f) /\ g.ok
  BY DEF Fine
<1> HIDE DEF c, g, bound, fs, no, can
<1>4. g = bound /\ bound.ok
  BY <1>2, <1>3, ThenOk
<1>5. FsTyped(made)
  BY <1>3, MakeKeeps DEF Plainly, Keeps
<1>6. bound = added /\ made.ok
  <2> HIDE DEF made, added
  <2>1. QED  BY <1>2, <1>4, <1>5, ThenOk
<1>7. Shows(f, made)
  BY <1>1, <1>6, MakeShows
<1>8. Fine(made)
  BY <1>7 DEF Shows, Sees
<1> HIDE DEF made
<1>9. Fine(added) /\ Exists(added, c) /\ MountOf(added, c).fs = fs /\ Beside(made, added, c)
  BY <1>1, <1>8, AddBeside
<1> HIDE DEF added
<1>10. Spares(made, added, {c})
  <2>1. ASSUME NEW q \in Paths, Exists(made, q)
        PROVE  /\ (\A p \in {c} : ~IsPrefix(p, q)) => MountOf(added, q).fs = MountOf(made, q).fs
               /\ (\A p \in {c} : IsPrefix(p, q) => p = q) => Exists(added, q)
    BY <1>9, <2>1 DEF Beside
  <2>2. QED  BY <1>9, <2>1 DEF Spares
<1>11. Spares(f, made, {c})
  BY <1>7, ShowsSpares
<1>12. Spares(f, added, {c})
  BY <1>10, <1>11 DEF Spares
<1>13. QED  BY <1>1, <1>4, <1>6, <1>9, <1>12 DEF c, g
-----------------------------------------------------------------------------
(***************************************************************************)
(* The layers: those that the kernel mounts are those of the annotations,  *)
(* whether their paths are shortened or not.                               *)
(***************************************************************************)
LEMMA RestIs ==
    ASSUME NEW p \in Paths, NEW q \in Paths, IsPrefix(p, q)
    PROVE  SubSeq(q, Len(p) + 1, Len(q)) \in Paths /\ p \o SubSeq(q, Len(p) + 1, Len(q)) = q
<1> DEFINE m == Len(p)
           n == Len(q)
           s == SubSeq(q, m + 1, n)
           r == p \o s
<1>1. m \in Nat /\ n \in Nat /\ m <= n /\ (\A i \in 1..m : p[i] = q[i]) /\ \A i \in 1..n : q[i] \in Names
  BY PrefixIs, LenProperties, ElementOfSeq DEF Paths
<1> HIDE DEF m, n
<1>2. s \in Seq(Names) /\ Len(s) = n - m /\ \A i \in 1..(n - m) : s[i] = q[m + i]
  <2>1. CASE m + 1 <= n
    <3>1. \A i \in (m + 1)..n : q[i] \in Names
      BY <1>1
    <3>2. /\ s \in Seq(Names)
          /\ Len(s) = IF m + 1 <= n THEN n - (m + 1) + 1 ELSE 0
          /\ \A i \in 1..(n - (m + 1) + 1) : s[i] = q[m + 1 + i - 1]
      BY <1>1, <3>1, SubSeqProperties
    <3>3. Len(s) = n - m
      BY <1>1, <2>1, <3>2
    <3>4. \A i \in 1..(n - m) : i \in 1..(n - (m + 1) + 1) /\ m + 1 + i - 1 = m + i
      BY <1>1
    <3>5. QED  BY <3>2, <3>3, <3>4
  <2>2. CASE ~(m + 1 <= n)
    <3>1. \A i \in (m + 1)..n : q[i] \in Names
      BY <1>1
    <3>2. /\ s \in Seq(Names)
          /\ Len(s) = IF m + 1 <= n THEN n - (m + 1) + 1 ELSE 0
      BY <1>1, <3>1, SubSeqProperties
    <3>3. n - m = 0 /\ Len(s) = 0
      BY <1>1, <2>2, <3>2
    <3>4. QED  BY <3>2, <3>3
  <2>3. QED  BY <2>1, <2>2
<1> HIDE DEF s
<1>3. p \in Seq(Names) /\ q \in Seq(Names) /\ Len(p) = m /\ Len(q) = n
  BY DEF Paths, m, n
<1>4. /\ r \in Seq(Names) /\ Len(r) = m + (n - m)
      /\ \A i \in 1..(m + (n - m)) : r[i] = IF i <= m THEN p[i] ELSE s[i - m]
  BY <1>2, <1>3, ConcatProperties
<1>5. Len(r) = n
  BY <1>1, <1>4
<1>6. ASSUME NEW i \in 1..n PROVE r[i] = q[i]
  <2>1. CASE i <= m
    BY <1>1, <1>4, <2>1
  <2>2. CASE ~(i <= m)
    <3>1. i - m \in 1..(n - m) /\ m + (i - m) = i
      BY <1>1, <2>2
    <3>2. r[i] = s[i - m]
      BY <1>1, <1>4, <2>2
    <3>3. QED  BY <1>2, <3>1, <3>2
  <2>3. QED  BY <2>1, <2>2
<1> HIDE DEF r
<1>7. r = q
  BY <1>3, <1>4, <1>5, <1>6, SeqEqual
<1>8. QED  BY <1>2, <1>7 DEF r, s, m, n, Paths

\* The longest of the common prefixes is one of them: there are some, and none is longer than
\* the shortest path.
LEMMA CommonIs ==
    ASSUME NEW S \in SUBSET Paths, S # {}
    PROVE  LongestCommonPrefix(S) \in Paths /\ \A t \in S : IsPrefix(LongestCommonPrefix(S), t)
<1> DEFINE C == CommonPrefixes(S)
           Is(longest) == longest \in C /\ \A other \in C : Len(other) <= Len(longest)
           root == <<>>
<1>1. PICK s \in S : TRUE
  OBVIOUS
<1>2. s \in Paths /\ Len(s) \in Nat
  BY <1>1, LenProperties DEF Paths
<1>3. ASSUME NEW c \in C PROVE c \in Paths /\ Len(c) \in Nat /\ Len(c) <= Len(s) /\ \A t \in S : IsPrefix(c, t)
  <2>1. PICK t \in S : c \in Prefixes(t)
    BY DEF CommonPrefixes
  <2>2. PICK l \in 0..Len(t) : c = SubSeq(t, 1, l)
    BY <2>1 DEF Prefixes
  <2>3. Len(t) \in Nat /\ t \in Paths /\ \A i \in 1..l : t[i] \in Names
    <3>1. t \in Seq(Names)
      BY DEF Paths
    <3>2. Len(t) \in Nat /\ \A i \in 1..Len(t) : t[i] \in Names
      BY <3>1, LenProperties, ElementOfSeq
    <3>3. QED  BY <3>1, <3>2, <2>2 DEF Paths
  <2>4. c \in Seq(Names)
    BY <2>2, <2>3, SubSeqProperties
  <2>5. \A u \in S : IsPrefix(c, u)
    BY DEF CommonPrefixes
  <2>6. Len(c) \in Nat
    BY <2>4, LenProperties
  <2>7. Len(c) <= Len(s)
    BY <1>1, <1>2, <2>4, <2>5, PrefixIs DEF Paths
  <2>8. QED  BY <2>4, <2>5, <2>6, <2>7 DEF Paths
<1>4. root \in C
  <2>1. root = SubSeq(s, 1, 0)
    <3>1. \A i \in 1..0 : s[i] \in Names
      OBVIOUS
    <3>2. SubSeq(s, 1, 0) \in Seq(Names) /\ Len(SubSeq(s, 1, 0)) = 0
      BY <1>2, <3>1, SubSeqProperties
    <3>3. QED  BY <3>2, EmptySeq
  <2>2. root \in Prefixes(s)
    BY <1>2, <2>1 DEF Prefixes
  <2>3. \A t \in S : IsPrefix(root, t)
    BY PrefixOrder
  <2>4. QED  BY <1>1, <2>2, <2>3 DEF CommonPrefixes
<1>5. \E longest : Is(longest)
  <2> DEFINE n == Len(s) + 1
             I == {Len(c) + 1 : c \in C}
  <2>1. n \in Nat /\ I \in SUBSET (1..n) /\ I # {}
    BY <1>2, <1>3, <1>4
  <2>2. Max(I) \in I /\ \A i \in I : i <= Max(I)
    <3> HIDE DEF n, I
    <3>1. QED  BY <2>1, LastPosition
  <2>3. PICK c \in C : Max(I) = Len(c) + 1
    BY <2>2
  <2>4. ASSUME NEW other \in C PROVE Len(other) <= Len(c)
    <3>1. Len(other) + 1 <= Len(c) + 1
      BY <2>2, <2>3
    <3>2. QED  BY <1>3, <3>1
  <2>5. QED  BY <2>3, <2>4
<1>6. LongestCommonPrefix(S) = CHOOSE longest \in C : \A other \in C : Len(other) <= Len(longest)
  BY DEF LongestCommonPrefix
<1> HIDE DEF C
<1>7. LongestCommonPrefix(S) \in C
  BY <1>5, <1>6
<1>8. QED  BY <1>3, <1>7

\* What is above a directory is above it, too.
LEMMA FrontAbove == ASSUME NEW p \in Paths PROVE Front(p) \in Paths /\ IsPrefix(Front(p), p)
<1> DEFINE n == Len(p)
           s == Front(p)
<1>1. n \in Nat /\ p \in Seq(Names) /\ \A i \in 1..n : p[i] \in Names
  BY LenProperties, ElementOfSeq DEF Paths
<1>2. s = SubSeq(p, 1, n - 1)
  BY DEF Front
<1> HIDE DEF n, s
<1>3. \A i \in 1..(n - 1) : p[i] \in Names
  BY <1>1
<1>4. /\ s \in Seq(Names) /\ Len(s) = IF 1 <= n - 1 THEN n - 1 ELSE 0
      /\ \A i \in 1..(n - 1) : s[i] = p[i]
  BY <1>1, <1>2, <1>3, SubSeqProperties
<1>5. Len(s) <= n /\ \A i \in 1..Len(s) : s[i] = p[i]
  BY <1>1, <1>4
<1>6. IsPrefix(s, p)
  BY <1>4, <1>5, PrefixIs DEF n, Paths
<1>7. QED  BY <1>4, <1>6 DEF s, Paths

LEMMA StrippedIs ==
    ASSUME NEW base \in Paths, NEW dirs \in Seq(Paths), \A i \in 1..Len(dirs) : IsPrefix(base, dirs[i])
    PROVE  LET rest == [i \in 1..Len(dirs) |-> SubSeq(dirs[i], Len(base) + 1, Len(dirs[i]))]
           IN  [i \in 1..Len(rest) |-> base \o rest[i]] = dirs
<1> DEFINE n == Len(dirs)
           rest == [i \in 1..n |-> SubSeq(dirs[i], Len(base) + 1, Len(dirs[i]))]
<1>1. n \in Nat /\ dirs = [i \in 1..n |-> dirs[i]] /\ \A i \in 1..n : dirs[i] \in Paths
  <2>1. DOMAIN dirs = 1..n /\ n \in Nat /\ \A i \in 1..n : dirs[i] \in Paths
    BY LenProperties, ElementOfSeq
  <2>2. QED  BY <2>1
<1>2. \A i \in 1..n : rest[i] \in Paths /\ base \o rest[i] = dirs[i]
  BY <1>1, RestIs
<1>3. rest \in Seq(Paths) /\ Len(rest) = n
  BY <1>1, <1>2
<1> HIDE DEF rest
<1>4. [i \in 1..Len(rest) |-> base \o rest[i]] = [i \in 1..n |-> dirs[i]]
  BY <1>2, <1>3
<1>5. QED  BY <1>1, <1>4 DEF rest, n

\* The directories of a mount of layers.
IsLayers(l) ==
    /\ l = [lower |-> l.lower, upper |-> l.upper, work |-> l.work]
    /\ l.lower \in Seq(Paths) /\ l.upper \in Seq(Paths) /\ l.work \in Seq(Paths)

LEMMA DirectoriesAre ==
    ASSUME NEW l, IsLayers(l)
    PROVE  /\ ToSet(Directories(l)) \subseteq Paths
           /\ \A dirs \in {l.lower, l.upper, l.work} : \A i \in 1..Len(dirs) : dirs[i] \in ToSet(Directories(l))
<1> DEFINE u == l.lower \o l.upper
           v == u \o l.work
           m == Len(l.lower)
           n == Len(l.upper)
           k == Len(l.work)
<1>1. l.lower \in Seq(Paths) /\ l.upper \in Seq(Paths) /\ l.work \in Seq(Paths) /\ m \in Nat /\ n \in Nat /\ k \in Nat
  BY LenProperties DEF IsLayers
<1>2. /\ u \in Seq(Paths) /\ Len(u) = m + n
      /\ \A i \in 1..(m + n) : u[i] = IF i <= m THEN l.lower[i] ELSE l.upper[i - m]
  BY <1>1, ConcatProperties
<1> HIDE DEF u
<1>3. /\ v \in Seq(Paths) /\ Len(v) = m + n + k
      /\ \A i \in 1..(m + n + k) : v[i] = IF i <= m + n THEN u[i] ELSE l.work[i - (m + n)]
  <2> DEFINE h == m + n
  <2>1. Len(u) = h /\ Len(l.work) = k
    BY <1>2
  <2> HIDE DEF h, k, m, n
  <2>2. /\ v \in Seq(Paths) /\ Len(v) = h + k
        /\ \A i \in 1..(h + k) : v[i] = IF i <= h THEN u[i] ELSE l.work[i - h]
    BY <1>1, <1>2, <2>1, ConcatProperties
  <2> HIDE DEF v
  <2>3. QED  BY <2>2 DEF h
<1>4. Directories(l) = v
  BY DEF Directories, u
<1> HIDE DEF v, m, n, k
<1>5. DOMAIN v = 1..(m + n + k) /\ ToSet(v) = {v[i] : i \in 1..(m + n + k)}
  BY <1>1, <1>3, LenProperties DEF ToSet
<1>6. \A i \in 1..(m + n + k) : v[i] \in Paths
  BY <1>1, <1>3, ElementOfSeq
<1>7. \A i \in 1..m : l.lower[i] \in ToSet(v)
  <2>1. \A i \in 1..m : i \in 1..(m + n + k) /\ v[i] = l.lower[i]
    BY <1>1, <1>2, <1>3
  <2>2. QED  BY <1>5, <2>1
<1>8. \A i \in 1..n : l.upper[i] \in ToSet(v)
  <2>1. \A i \in 1..n : m + i \in 1..(m + n + k) /\ v[m + i] = l.upper[i]
    BY <1>1, <1>2, <1>3
  <2>2. QED  BY <1>5, <2>1
<1>9. \A i \in 1..k : l.work[i] \in ToSet(v)
  <2>1. ASSUME NEW i \in 1..k PROVE l.work[i] \in ToSet(v)
    <3>1. m + n + i \in 1..(m + n + k) /\ ~(m + n + i <= m + n) /\ (m + n + i) - (m + n) = i
      BY <1>1
    <3>2. v[m + n + i] = l.work[i]
      BY <1>3, <3>1
    <3>3. QED  BY <1>5, <3>1, <3>2
  <2>2. QED  BY <2>1
<1>10. ToSet(v) \subseteq Paths
  BY <1>5, <1>6
<1>11. /\ \A i \in 1..Len(l.lower) : l.lower[i] \in ToSet(Directories(l))
       /\ \A i \in 1..Len(l.upper) : l.upper[i] \in ToSet(Directories(l))
       /\ \A i \in 1..Len(l.work) : l.work[i] \in ToSet(Directories(l))
  BY <1>4, <1>7, <1>8, <1>9 DEF m, n, k
<1>12. ASSUME NEW dirs \in {l.lower, l.upper, l.work}, NEW i \in 1..Len(dirs)
       PROVE  dirs[i] \in ToSet(Directories(l))
  <2>1. CASE dirs = l.lower
    BY <1>11, <1>12, <2>1
  <2>2. CASE dirs = l.upper
    BY <1>11, <1>12, <2>2
  <2>3. CASE dirs = l.work
    BY <1>11, <1>12, <2>3
  <2>4. QED  BY <2>1, <2>2, <2>3
<1>13. QED  BY <1>4, <1>10, <1>12

LEMMA MountedLayersAre ==
    ASSUME NEW l, IsLayers(l), l.lower # <<>>
    PROVE  mount_at(l).mounted = l
<1> DEFINE base == IF TooLong(l) THEN common_parent(l) ELSE <<>>
           Strip(dirs) == [i \in 1..Len(dirs) |-> SubSeq(dirs[i], Len(base) + 1, Len(dirs[i]))]
           From(dirs) == [i \in 1..Len(dirs) |-> base \o dirs[i]]
           data == relative_to(l, base)
<1>1. base \in Paths /\ \A dir \in ToSet(Directories(l)) : IsPrefix(base, dir)
  <2> DEFINE all == ToSet(Directories(l))
             S == {Front(dir) : dir \in all}
             root == <<>>
  <2>1. all \subseteq Paths
    BY DirectoriesAre
  <2>2. all # {}
    <3>1. Len(l.lower) \in Nat /\ Len(l.lower) # 0
      BY EmptySeq, LenProperties DEF IsLayers
    <3>2. 1 \in 1..Len(l.lower)
      BY <3>1
    <3>3. QED  BY <3>2, DirectoriesAre
  <2> HIDE DEF all
  <2>3. S \in SUBSET Paths /\ S # {}
    BY <2>1, <2>2, FrontAbove
  <2>4. CASE TooLong(l)
    <3>1. base = LongestCommonPrefix(S)
      BY <2>4 DEF common_parent, all
    <3> HIDE DEF S, base
    <3>2. base \in Paths /\ \A t \in S : IsPrefix(base, t)
      BY <2>3, <3>1, CommonIs
    <3>3. \A dir \in all : IsPrefix(base, dir)
      <4>1. ASSUME NEW dir \in all PROVE IsPrefix(base, dir)
        <5>1. Front(dir) \in Paths /\ IsPrefix(Front(dir), dir) /\ dir \in Paths
          BY <2>1, FrontAbove
        <5>2. IsPrefix(base, Front(dir))
          BY <3>2 DEF S
        <5>3. QED  BY <3>2, <5>1, <5>2, PrefixOrder
      <4>2. QED  BY <4>1
    <3>4. QED  BY <3>2, <3>3 DEF all
  <2>5. CASE ~TooLong(l)
    <3>1. base = root
      BY <2>5
    <3>2. root \in Paths
      BY EmptySeq DEF Paths
    <3>3. \A dir \in all : IsPrefix(root, dir)
      BY <2>1, PrefixOrder
    <3> HIDE DEF base, root
    <3>4. QED  BY <3>1, <3>2, <3>3 DEF all
  <2>6. QED  BY <2>4, <2>5
<1>2. mount_at(l).mounted = Resolved(data, base)
  BY DEF mount_at
<1> HIDE DEF base
<1>3. data.lower = Strip(l.lower) /\ data.upper = Strip(l.upper) /\ data.work = Strip(l.work)
  BY DEF relative_to
<1>4. Resolved(data, base) = [lower |-> From(data.lower), upper |-> From(data.upper), work |-> From(data.work)]
  BY DEF Resolved
<1> HIDE DEF data
<1>5. ASSUME NEW dirs \in {l.lower, l.upper, l.work} PROVE From(Strip(dirs)) = dirs
  <2>1. dirs \in Seq(Paths)
    BY DEF IsLayers
  <2>2. \A i \in 1..Len(dirs) : IsPrefix(base, dirs[i])
    BY <1>1, DirectoriesAre
  <2>3. QED  BY <1>1, <2>1, <2>2, StrippedIs
<1>6. From(data.lower) = l.lower /\ From(data.upper) = l.upper /\ From(data.work) = l.work
  BY <1>3, <1>5
<1> HIDE DEF From, Strip
<1>7. QED  BY <1>2, <1>4, <1>6 DEF IsLayers

\* Those of a bundle.
LEMMA AbsoluteIs ==
    ASSUME NEW dirs \in Seq(LayerEntries)
    PROVE  LET abs == [i \in 1..Len(dirs) |-> absolute(BundleDir, dirs[i])]
           IN  abs \in Seq(Paths) /\ Len(abs) = Len(dirs)
<1> DEFINE n == Len(dirs)
           abs == [i \in 1..n |-> absolute(BundleDir, dirs[i])]
<1>1. n \in Nat /\ \A i \in 1..n : dirs[i].path \in Paths
  <2>1. n \in Nat /\ \A i \in 1..n : dirs[i] \in LayerEntries
    BY LenProperties, ElementOfSeq
  <2>2. QED  BY <2>1 DEF LayerEntries
<1>2. BundleDir \in Paths
  <2>1. "b" \in Names
    BY DEF Names
  <2>2. QED  BY <2>1 DEF BundleDir, Paths
<1>3. \A i \in 1..n : absolute(BundleDir, dirs[i]) \in Paths
  <2>1. \A p, q \in Paths : p \o q \in Paths
    BY ConcatProperties DEF Paths
  <2>2. QED  BY <1>1, <1>2, <2>1 DEF absolute
<1>4. abs \in Seq(Paths) /\ Len(abs) = n
  BY <1>1, <1>3
<1>5. QED  BY <1>4

LEMMA LayersAreMounted ==
    ASSUME NEW bundle \in Bundles, Layered(bundle), PlanOk(bundle)
    PROVE  mount_at(Layers(bundle)).mounted = Layers(bundle)
<1> DEFINE a == bundle.overlay
           Abs(dirs) == [i \in 1..Len(dirs) |-> absolute(BundleDir, dirs[i])]
           l == Layers(bundle)
<1>1. a.lower \in Seq(Seq(LayerEntries)) /\ a.upper \in Seq(LayerEntries) /\ a.work \in Seq(LayerEntries)
  BY BundlesAssumption DEF Layered
<1>2. a.lower # <<>> /\ a.lower[1] # <<>>
  BY DEF Layered, PlanOk, annotations_ok
<1>3. a.lower[1] \in Seq(LayerEntries) /\ Len(a.lower[1]) \in Nat /\ Len(a.lower[1]) # 0
  <2>1. Len(a.lower) \in Nat /\ Len(a.lower) # 0
    BY <1>1, <1>2, EmptySeq, LenProperties
  <2>2. 1 \in 1..Len(a.lower)
    BY <2>1
  <2>3. a.lower[1] \in Seq(LayerEntries)
    BY <1>1, <2>2, ElementOfSeq
  <2>4. QED  BY <1>2, <2>3, EmptySeq, LenProperties
<1>4. l = [lower |-> Abs(a.lower[1]), upper |-> Abs(a.upper), work |-> Abs(a.work)]
  BY DEF Layers, from_annotations
<1>5. /\ Abs(a.lower[1]) \in Seq(Paths) /\ Len(Abs(a.lower[1])) = Len(a.lower[1])
      /\ Abs(a.upper) \in Seq(Paths) /\ Abs(a.work) \in Seq(Paths)
  BY <1>1, <1>3, AbsoluteIs
<1> HIDE DEF l, Abs
<1>6. IsLayers(l)
  BY <1>4, <1>5 DEF IsLayers
<1>7. l.lower # <<>>
  BY <1>3, <1>4, <1>5, EmptySeq
<1>8. QED  BY <1>6, <1>7, MountedLayersAre DEF l
-----------------------------------------------------------------------------
(***************************************************************************)
(* What the tree has to hold, and that no later step hides it but where    *)
(* the property says so.                                                   *)
(***************************************************************************)
At(f, p, source) == Exists(f, p) /\ MountOf(f, p).fs.at = p /\ MountOf(f, p).fs.source = source

\* While the mounts are made: each is there unless a later one of those made covers it.
OverBy(i, p, n) == \E j \in NewMounts : i < j /\ j <= n /\ IsPrefix(Destination(j), p)
MountsTo(f, n) ==
    \A i \in NewMounts : i <= n /\ ~OverBy(i, Destination(i), n) => At(f, Destination(i), b.mounts[i].source)
PtmxTo(f, n) ==
    \A i \in NewMounts : i <= n /\ b.mounts[i].typ = "devpts" /\ ~OverBy(i, DevDir, n) => Exists(f, Dev("ptmx"))

\* Afterwards.
SeenIn(f) ==
    \A i \in NewMounts : ~CoveredByMount(i) /\ ~Masked(Destination(i)) /\ ~UnderConsole(i)
                             => At(f, Destination(i), b.mounts[i].source)
PtmxIn(f) ==
    \A i \in NewMounts : b.mounts[i].typ = "devpts" =>
        Masked(DevDir) \/ CoveredAfter(i, DevDir) \/ Exists(f, Dev("ptmx"))
NamedTo(f, list, n) == \A k \in DOMAIN list : k <= n => Masked(DevDir) \/ Exists(f, Dev(list[k]))
AddedTo(f, n) ==
    \A k \in DOMAIN b.devices : k <= n =>
        LET p == resolve(b.devices[k].path) IN Masked(p) \/ BelowConsole(p) \/ Exists(f, p)

Present(f, nodes, links, devices) ==
    SeenIn(f) /\ PtmxIn(f) /\ NamedTo(f, DEFAULT_DEVICES, nodes) /\ NamedTo(f, SYMLINKS, links) /\ AddedTo(f, devices)

\* The paths that may be hidden once all devices are there.
Hiders == ToSet(b.masked) \cup IF b.terminal THEN {Dev("console")} ELSE {}

LEMMA HidersAre ==
    ASSUME b \in Bundles, NEW q \in Paths, NEW p \in Hiders, IsPrefix(p, q)
    PROVE  p \in Paths /\ (Masked(q) \/ BelowConsole(q))
<1>1. CASE p \in ToSet(b.masked)
  <2>1. p \in Paths
    BY <1>1, BundlesAssumption, ElementOfSeq, LenProperties DEF ToSet
  <2>2. QED  BY <1>1, <2>1 DEF Masked
<1>2. CASE b.terminal /\ p = Dev("console")
  <2>1. "console" \in Names
    BY DEF Names
  <2>2. QED  BY <1>2, <2>1, DevIs DEF BelowConsole
<1>3. QED  BY <1>1, <1>2 DEF Hiders

\* What is neither masked nor below the console is as it was.
LEMMA UncoveredStays ==
    ASSUME b \in Bundles, NEW f, NEW g, NEW hidden \in SUBSET Hiders, Spares(f, g, hidden),
           NEW q \in Paths, Exists(f, q), ~Masked(q), ~BelowConsole(q)
    PROVE  Exists(g, q) /\ MountOf(g, q).fs = MountOf(f, q).fs
<1>1. \A p \in hidden : ~IsPrefix(p, q)
  BY HidersAre
<1>2. QED  BY <1>1 DEF Spares

\* A name in the device directory is there even if it is itself the one that is masked.
LEMMA DevStays ==
    ASSUME b \in Bundles, NEW f, NEW g, NEW hidden \in SUBSET Hiders, Spares(f, g, hidden),
           NEW x \in Names, Exists(f, Dev(x)), ~Masked(DevDir)
    PROVE  Exists(g, Dev(x))
<1>1. /\ Dev(x) \in Paths /\ DevDir \in Paths
      /\ \A q \in Paths : IsPrefix(q, Dev(x)) => q = Dev(x) \/ IsPrefix(q, DevDir)
  BY DevPrefixes
<1>2. ASSUME NEW p \in hidden, IsPrefix(p, Dev(x)) PROVE p = Dev(x)
  <2>1. p \in Hiders /\ p \in Paths
    BY <1>1, <1>2, HidersAre
  <2>2. CASE p \in ToSet(b.masked)
    BY <1>1, <1>2, <2>1, <2>2 DEF Masked
  <2>3. CASE p = Dev("console")
    <3>1. ~IsPrefix(Dev("console"), DevDir)
      BY DEF IsPrefix, Dev, DevDir
    <3>2. QED  BY <1>1, <1>2, <2>1, <2>3, <3>1
  <2>4. QED  BY <2>1, <2>2, <2>3 DEF Hiders
<1>3. QED  BY <1>1, <1>2 DEF Spares

LEMMA ListsNamed ==
    /\ Len(DEFAULT_DEVICES) = 6 /\ DOMAIN DEFAULT_DEVICES = 1..6 /\ \A k \in 1..6 : DEFAULT_DEVICES[k] \in Names
    /\ Len(SYMLINKS) = 4 /\ DOMAIN SYMLINKS = 1..4 /\ \A k \in 1..4 : SYMLINKS[k] \in Names
    /\ "ptmx" \in Names /\ "console" \in Names
<1>1. Len(DEFAULT_DEVICES) = 6 /\ DOMAIN DEFAULT_DEVICES = 1..6 /\ \A k \in 1..6 : DEFAULT_DEVICES[k] \in Names
  BY DEF DEFAULT_DEVICES, Names
<1>2. Len(SYMLINKS) = 4 /\ DOMAIN SYMLINKS = 1..4 /\ \A k \in 1..4 : SYMLINKS[k] \in Names
  BY DEF SYMLINKS, Names
<1>3. QED  BY <1>1, <1>2 DEF Names

LEMMA DevicesAre ==
    ASSUME b \in Bundles
    PROVE  /\ Len(b.devices) \in Nat /\ DOMAIN b.devices = 1..Len(b.devices)
           /\ \A k \in DOMAIN b.devices : b.devices[k] \in ToSet(b.devices) /\ resolve(b.devices[k].path) \in Paths
<1>1. b.devices \in Seq(DeviceEntries) /\ \A x \in ToSet(b.devices) : resolve(x.path) \in Paths
  BY BundlesAssumption
<1>2. Len(b.devices) \in Nat /\ DOMAIN b.devices = 1..Len(b.devices)
  BY <1>1, LenProperties
<1>3. \A k \in DOMAIN b.devices : b.devices[k] \in ToSet(b.devices)
  BY DEF ToSet
<1>4. QED  BY <1>1, <1>2, <1>3

LEMMA PresentKept ==
    ASSUME b \in Bundles, NEW f, NEW g, NEW hidden \in SUBSET Hiders, Spares(f, g, hidden),
           NEW nodes, NEW links, NEW devices, Present(f, nodes, links, devices)
    PROVE  Present(g, nodes, links, devices)
<1>1. SeenIn(g)
  <2>1. ASSUME NEW i \in NewMounts, ~CoveredByMount(i), ~Masked(Destination(i)), ~UnderConsole(i)
        PROVE  At(g, Destination(i), b.mounts[i].source)
    <3>1. At(f, Destination(i), b.mounts[i].source)
      BY <2>1 DEF Present, SeenIn
    <3>2. Destination(i) \in Paths
      BY MountsAre DEF NewMounts
    <3>3. Exists(g, Destination(i)) /\ MountOf(g, Destination(i)).fs = MountOf(f, Destination(i)).fs
      BY <2>1, <3>1, <3>2, UncoveredStays DEF At, UnderConsole
    <3>4. QED  BY <3>1, <3>3 DEF At
  <2>2. QED  BY <2>1 DEF SeenIn
<1>2. ASSUME NEW x \in Names, Exists(f, Dev(x)) PROVE Masked(DevDir) \/ Exists(g, Dev(x))
  BY <1>2, DevStays
<1>3. PtmxIn(g)
  BY <1>2, ListsNamed DEF Present, PtmxIn
<1>4. NamedTo(g, DEFAULT_DEVICES, nodes) /\ NamedTo(g, SYMLINKS, links)
  BY <1>2, ListsNamed DEF Present, NamedTo
<1>5. AddedTo(g, devices)
  <2>1. ASSUME NEW k \in DOMAIN b.devices, k <= devices, NEW p, p = resolve(b.devices[k].path),
               ~Masked(p), ~BelowConsole(p)
        PROVE  Exists(g, p)
    <3>1. p \in Paths /\ Exists(f, p)
      BY <2>1, DevicesAre DEF Present, AddedTo
    <3>2. QED  BY <2>1, <3>1, UncoveredStays
  <2>2. QED  BY <2>1 DEF AddedTo
<1>6. QED  BY <1>1, <1>3, <1>4, <1>5 DEF Present

LEMMA MountsRise ==
    ASSUME b \in Bundles, NEW n \in Nat, n < Len(b.mounts), NEW f, NEW g,
           MountsTo(f, n), PtmxTo(f, n),
           Raises(f, g, FlagsOf(n + 1), Destination(n + 1), b.mounts[n + 1].source),
           b.mounts[n + 1].typ = "devpts" => Exists(g, Dev("ptmx"))
    PROVE  MountsTo(g, n + 1) /\ PtmxTo(g, n + 1)
<1> DEFINE new == n + 1
           at == Destination(new)
<1>1. new \in DOMAIN b.mounts /\ new \in Nat /\ at \in Paths /\ (new \in NewMounts <=> Adds(FlagsOf(new)))
  BY MountsAre
<1>2. ASSUME NEW i \in NewMounts, i <= new
      PROVE  i = new \/ (i <= n /\ i < new)
  BY <1>2, MountsAre DEF NewMounts
<1>3. ASSUME NEW i, NEW p, OverBy(i, p, n) PROVE OverBy(i, p, new)
  <2>1. \A j \in NewMounts : j <= n => j <= new
    BY MountsAre DEF NewMounts
  <2>2. QED  BY <1>3, <2>1 DEF OverBy
<1>4. ASSUME NEW i, i < new, NEW p, ~OverBy(i, p, new) PROVE ~(Adds(FlagsOf(new)) /\ IsPrefix(at, p))
  <2>1. new <= new
    BY <1>1
  <2>2. QED  BY <1>1, <1>4, <2>1 DEF OverBy
<1> HIDE DEF new, at
<1>5. ASSUME NEW i \in NewMounts, i <= new, ~OverBy(i, Destination(i), new)
      PROVE  At(g, Destination(i), b.mounts[i].source)
  <2>1. Destination(i) \in Paths
    BY MountsAre DEF NewMounts
  <2>2. CASE i = new
    BY <1>1, <1>5, <2>2 DEF Raises, At, new, at
  <2>3. CASE i <= n /\ i < new
    <3>1. At(f, Destination(i), b.mounts[i].source)
      BY <1>3, <1>5, <2>3 DEF MountsTo
    <3>2. ~(Adds(FlagsOf(new)) /\ IsPrefix(at, Destination(i)))
      BY <1>4, <1>5, <2>3
    <3>3. Exists(g, Destination(i)) /\ MountOf(g, Destination(i)).fs = MountOf(f, Destination(i)).fs
      BY <2>1, <3>1, <3>2 DEF Raises, At, new, at
    <3>4. QED  BY <3>1, <3>3 DEF At
  <2>4. QED  BY <1>2, <1>5, <2>2, <2>3
<1>6. ASSUME NEW i \in NewMounts, i <= new, b.mounts[i].typ = "devpts", ~OverBy(i, DevDir, new)
      PROVE  Exists(g, Dev("ptmx"))
  <2>1. CASE i = new
    BY <1>6, <2>1 DEF new
  <2>2. CASE i <= n /\ i < new
    <3>1. Exists(f, Dev("ptmx"))
      BY <1>3, <1>6, <2>2 DEF PtmxTo
    <3>2. ~(Adds(FlagsOf(new)) /\ IsPrefix(at, DevDir))
      BY <1>4, <1>6, <2>2
    <3>3. /\ Dev("ptmx") \in Paths
          /\ IsPrefix(at, Dev("ptmx")) => at = Dev("ptmx") \/ IsPrefix(at, DevDir)
      BY <1>1, ListsNamed, DevPrefixes
    <3>4. CASE at = Dev("ptmx")
      BY <3>4 DEF Raises, new, at
    <3>5. CASE ~(Adds(FlagsOf(new)) /\ IsPrefix(at, Dev("ptmx")))
      BY <3>1, <3>3, <3>5 DEF Raises, new, at
    <3>6. QED  BY <3>2, <3>3, <3>4, <3>5
  <2>3. QED  BY <1>2, <1>6, <2>1, <2>2
<1>7. MountsTo(g, new) /\ PtmxTo(g, new)
  BY <1>5, <1>6 DEF MountsTo, PtmxTo
<1>8. QED  BY <1>7 DEF new

LEMMA MountsPresent ==
    ASSUME b \in Bundles, NEW n \in Nat, n >= Len(b.mounts), NEW f, MountsTo(f, n), PtmxTo(f, n)
    PROVE  Present(f, 0, 0, 0)
<1>1. \A i \in NewMounts : i <= n
  BY MountsAre DEF NewMounts
<1>2. \A i, p : OverBy(i, p, n) => CoveredAfter(i, p)
  <2>1. \A i : \A j \in NewMounts : i < j => j > i
    OBVIOUS
  <2>2. ASSUME NEW i, NEW p, OverBy(i, p, n) PROVE CoveredAfter(i, p)
    <3>1. PICK j \in NewMounts : i < j /\ j <= n /\ IsPrefix(Destination(j), p)
      BY <2>2 DEF OverBy
    <3>2. j > i
      BY <3>1
    <3>3. QED  BY <3>1, <3>2 DEF CoveredAfter
  <2>3. QED  BY <2>2
<1>3. SeenIn(f)
  BY <1>1, <1>2 DEF SeenIn, MountsTo, CoveredByMount
<1>4. PtmxIn(f)
  BY <1>1, <1>2 DEF PtmxIn, PtmxTo
<1>5. NamedTo(f, DEFAULT_DEVICES, 0) /\ NamedTo(f, SYMLINKS, 0) /\ AddedTo(f, 0)
  <2>1. /\ \A k \in DOMAIN DEFAULT_DEVICES : ~(k <= 0)
        /\ \A k \in DOMAIN SYMLINKS : ~(k <= 0)
        /\ \A k \in DOMAIN b.devices : ~(k <= 0)
    BY ListsNamed, DevicesAre
  <2>2. QED  BY <2>1 DEF NamedTo, AddedTo
<1>6. QED  BY <1>3, <1>4, <1>5 DEF Present

\* A name more, a device more.
LEMMA NamedOneMore ==
    ASSUME NEW f, NEW list \in {DEFAULT_DEVICES, SYMLINKS}, NEW n \in Nat,
           NamedTo(f, list, n), Exists(f, Dev(list[n + 1]))
    PROVE  NamedTo(f, list, n + 1)
<1>1. \A k \in DOMAIN list : k <= n + 1 => k <= n \/ k = n + 1
  BY ListsNamed
<1>2. QED  BY <1>1 DEF NamedTo

LEMMA AddedOneMore ==
    ASSUME b \in Bundles, NEW f, NEW n \in Nat, AddedTo(f, n), Exists(f, resolve(b.devices[n + 1].path))
    PROVE  AddedTo(f, n + 1)
<1>1. \A k \in DOMAIN b.devices : k <= n + 1 => k <= n \/ k = n + 1
  BY DevicesAre
<1>2. QED  BY <1>1 DEF AddedTo

\* The pseudo-terminal of a container with a terminal.
ConsoleIn(f) == Masked(Dev("console")) \/ (Exists(f, Dev("console")) /\ MountOf(f, Dev("console")).fs.typ = "pty")
AskedPropagation == IF b.propagation = "none" THEN "private" ELSE b.propagation

\* How far the tree is built and what it has kept: nothing is there before the root is; an
\* orderly tree up to the pivot, with all that has been made so far; then all of it.
Complete == {"pivot", "console"} \cup Late
AfterPivot == {"console"} \cup Late

Built(f, n, at, stdio) ==
    /\ at \in Outside => f.has = {}
    /\ at \notin {"load", "plan", "failed"} => PlanOk(b)
    /\ OwnMounts(b) /\ at \in Inside \ {"root"} =>
          /\ Layered(b) => f.layers = Layers(b)
          /\ at \in Building => Orderly(f)
          /\ at = "mounts" => MountsTo(f, n) /\ PtmxTo(f, n)
          /\ at = "nodes" => Present(f, n, 0, 0)
          /\ at = "links" => Present(f, 6, n, 0)
          /\ at = "devices" => Present(f, 6, 4, n)
          /\ at \in Complete => Present(f, 6, 4, Len(b.devices))
          /\ at \in AfterPivot => ~f.old /\ f.prop = AskedPropagation
          /\ at \in Late /\ b.terminal => stdio = "pty" /\ ConsoleIn(f)

RInv == GInv /\ TInv /\ Built(fsys, done, pc, proc.stdio)

LEMMA BuiltFails == ASSUME NEW f, NEW n, NEW io PROVE Built(f, n, "failed", io)
  BY DEF Built, Outside, Inside

LEMMA BuiltBuilding ==
    ASSUME NEW f, NEW n, NEW io, NEW at \in Building, PlanOk(b), Orderly(f), Layered(b) => f.layers = Layers(b),
           at = "mounts" => MountsTo(f, n) /\ PtmxTo(f, n),
           at = "nodes" => Present(f, n, 0, 0),
           at = "links" => Present(f, 6, n, 0),
           at = "devices" => Present(f, 6, 4, n),
           at = "pivot" => Present(f, 6, 4, Len(b.devices))
    PROVE  Built(f, n, at, io)
<1>1. at \notin Outside /\ at \notin AfterPivot /\ at \notin Late /\ (at \in Complete => at = "pivot")
  BY DEF Outside, AfterPivot, Late, Tree, Building, Complete
<1>2. QED  BY <1>1 DEF Built

\* The same, as seen from the step.
LEMMA UnderConstruction ==
    ASSUME RInv, pc \in Building
    PROVE  /\ b \in Bundles /\ done \in Nat /\ OwnMounts(b) /\ FsTyped(fsys) /\ Orderly(fsys) /\ PlanOk(b)
           /\ fsys.prop = "private" /\ (Layered(b) => fsys.layers = Layers(b))
           /\ pc = "mounts" => MountsTo(fsys, done) /\ PtmxTo(fsys, done)
           /\ pc = "nodes" => Present(fsys, done, 0, 0)
           /\ pc = "links" => Present(fsys, 6, done, 0)
           /\ pc = "devices" => Present(fsys, 6, 4, done)
           /\ pc = "pivot" => Present(fsys, 6, 4, Len(b.devices))
<1>1. b \in Bundles /\ done \in Nat /\ FsTyped(fsys)
  BY DEF RInv, GInv, HInv, HostKept
<1>2. OwnMounts(b) /\ fsys.prop = "private"
  BY DEF RInv, GInv, HInv, TreeKept
<1>3. pc \in Inside \ {"root"} /\ pc \notin {"load", "plan", "failed"}
  BY DEF Building, Inside
<1>4. QED  BY <1>1, <1>2, <1>3 DEF RInv, Built, Complete

\* Once the tree is complete, only what is masked is hidden.
LEMMA ConsoleKept ==
    ASSUME b \in Bundles, NEW f, NEW g, NEW hidden \in SUBSET ToSet(b.masked), Spares(f, g, hidden), ConsoleIn(f)
    PROVE  ConsoleIn(g)
<1> DEFINE c == Dev("console")
<1>1. c \in Paths
  BY ListsNamed, DevIs
<1> HIDE DEF c
<1>2. CASE Masked(c)
  BY <1>2 DEF ConsoleIn, c
<1>3. CASE ~Masked(c)
  <2>1. \A p \in hidden : ~IsPrefix(p, c)
    BY <1>3 DEF Masked
  <2>2. Exists(f, c) /\ MountOf(f, c).fs.typ = "pty"
    BY <1>3 DEF ConsoleIn, c
  <2>3. Exists(g, c) /\ MountOf(g, c).fs = MountOf(f, c).fs
    BY <1>1, <2>1, <2>2 DEF Spares
  <2>4. QED  BY <2>2, <2>3 DEF ConsoleIn, c
<1>4. QED  BY <1>2, <1>3

LEMMA LateBuilt ==
    ASSUME b \in Bundles, NEW f, NEW g, NEW n, NEW m, NEW io, NEW at \in Late, NEW next \in Late,
           Built(f, n, at, io),
           OwnMounts(b) => /\ \E hidden \in SUBSET ToSet(b.masked) : Spares(f, g, hidden)
                           /\ g.prop = f.prop /\ g.old = f.old /\ g.layers = f.layers
    PROVE  Built(g, m, next, io)
<1>1. \A pcs \in {at, next} : /\ pcs \in Inside \ {"root"} /\ pcs \notin Outside /\ pcs \notin {"load", "plan", "failed"}
                              /\ pcs \notin Building /\ pcs \in Complete /\ pcs \in AfterPivot
  BY DEF Late, Tree, Inside, Outside, Building, Complete, AfterPivot
<1>2. PlanOk(b)
  BY <1>1 DEF Built
<1>3. CASE ~OwnMounts(b)
  BY <1>1, <1>2, <1>3 DEF Built
<1>4. CASE OwnMounts(b)
  <2>1. PICK hidden \in SUBSET ToSet(b.masked) : Spares(f, g, hidden)
    BY <1>4
  <2>2. hidden \in SUBSET Hiders
    BY DEF Hiders
  <2>3. Present(f, 6, 4, Len(b.devices)) /\ ~f.old /\ f.prop = AskedPropagation /\ (Layered(b) => f.layers = Layers(b))
        /\ (b.terminal => io = "pty" /\ ConsoleIn(f))
    BY <1>1, <1>4 DEF Built
  <2>4. Present(g, 6, 4, Len(b.devices))
    BY <2>1, <2>2, <2>3, PresentKept
  <2>5. b.terminal => ConsoleIn(g)
    BY <2>1, <2>3, ConsoleKept
  <2>6. \A x \in {"mounts", "nodes", "links", "devices"} : next # x
    BY <1>1 DEF Building
  <2>7. QED  BY <1>1, <1>2, <1>4, <2>3, <2>4, <2>5, <2>6 DEF Built
<1>5. QED  BY <1>3, <1>4

\* A loop over a list after the pivot, and any other step.
LEMMA LateStep ==
    ASSUME RInv, pc \in Late, pc' \in Late \cup {"failed"}, proc'.stdio = proc.stdio,
           OwnMounts(b) /\ pc' # "failed" =>
               /\ \E hidden \in SUBSET ToSet(b.masked) : Spares(fsys, fsys', hidden)
               /\ Keeps(fsys, fsys')
    PROVE  Built(fsys', done', pc', proc'.stdio)
<1>1. b \in Bundles /\ Built(fsys, done, pc, proc.stdio)
  BY DEF RInv, GInv, HInv, HostKept
<1>2. CASE pc' = "failed"
  BY <1>2, BuiltFails
<1>3. CASE pc' # "failed"
  BY <1>1, <1>3, LateBuilt DEF Keeps
<1>4. QED  BY <1>2, <1>3

LEMMA InitRInv == Init => RInv
<1> SUFFICES ASSUME Init PROVE RInv
  OBVIOUS
<1>1. GInv /\ TInv
  BY InitGInv, InitTInv
<1>2. Built(fsys, done, pc, proc.stdio)
  <2>1. pc = "load" /\ fsys.has = {}
    BY DEF Init, HostTree
  <2>2. QED  BY <2>1 DEF Built, Inside
<1>3. QED  BY <1>1, <1>2 DEF RInv

LEMMA OutsideRStep ==
    ASSUME RInv, \/ LoadBundle \/ Plan \/ CreateCgroup \/ ApplyResources \/ Spawn
                 \/ JoinExisting \/ Unshare \/ MapIds \/ Attach \/ UnshareCgroup
    PROVE  Built(fsys', done', pc', proc'.stdio)
<1> USE DEF Go
<1>1. /\ fsys'.has = fsys.has /\ pc \in Outside
      /\ pc' \in (Outside \ {"load"}) \cup {"failed", "identity"}
      /\ pc' = "identity" => ~OwnMounts(b)
      /\ pc' \notin {"plan", "failed"} => pc \notin {"load", "plan"} \/ PlanOk(b)
  <2> USE DEF Outside
  <2>1. CASE LoadBundle
    BY <2>1 DEF LoadBundle
  <2>2. CASE Plan
    BY <2>2 DEF Plan
  <2>3. CASE CreateCgroup
    BY <2>3 DEF CreateCgroup
  <2>4. CASE ApplyResources
    BY <2>4 DEF ApplyResources
  <2>5. CASE Spawn
    BY <2>5 DEF Spawn
  <2>6. CASE JoinExisting
    BY <2>6 DEF JoinExisting
  <2>7. CASE Unshare
    <3>1. fsys' = fsys \/ fsys' = [fsys EXCEPT !.prop = "slave"]
      BY <2>7 DEF Unshare
    <3>2. fsys'.has = fsys.has
      BY <3>1 DEF RInv, GInv, HInv, HostKept, FsTyped, FsShape
    <3>3. pc = "unshare" /\ pc' \in {"map", "attach", pc}
      BY <2>7 DEF Unshare
    <3>4. QED  BY <3>2, <3>3
  <2>8. CASE MapIds
    BY <2>8 DEF MapIds
  <2>9. CASE Attach
    BY <2>9 DEF Attach
  <2>10. CASE UnshareCgroup
    BY <2>10 DEF UnshareCgroup
  <2>11. QED  BY <2>1, <2>2, <2>3, <2>4, <2>5, <2>6, <2>7, <2>8, <2>9, <2>10
<1>2. CASE pc' = "failed"
  BY <1>2, BuiltFails
<1>3. CASE pc' # "failed"
  <2>1. fsys'.has = {}
    BY <1>1 DEF RInv, Built
  <2>2. pc' # "plan" => PlanOk(b)
    BY <1>1, <1>3 DEF RInv, Built, Outside
  <2>3. ~(OwnMounts(b) /\ pc' \in Inside \ {"root"})
    BY <1>1, <1>3 DEF Outside, Inside
  <2>4. QED  BY <2>1, <2>2, <2>3, <1>3 DEF Built
<1>4. QED  BY <1>2, <1>3

LEMMA MountRootRStep == ASSUME RInv, MountRoot PROVE Built(fsys', done', pc', proc'.stdio)
<1> DEFINE private == make_root_private(fsys)
           merged == mount_at(Layers(b))
           can == merged.ok
           may == "mount" \in Able
           overlay == Rooted(private, "overlay", merged.mounted)
           base == Rooted(private, "base", <<>>)
           mounted == IF Layered(b) THEN Then(private, can, overlay) ELSE base
<1>1. /\ pc = "root" /\ UNCHANGED <<b, done>>
      /\ fsys' = Then(mounted, may, mounted) /\ pc' = IF fsys'.ok THEN "mounts" ELSE "failed"
  BY DEF MountRoot, make_mount_point, Go
<1>2. FsTyped(fsys) /\ fsys.tab = <<>> /\ fsys.has = {} /\ b \in Bundles /\ PlanOk(b) /\ done = 0
  <2>1. FsTyped(fsys) /\ fsys.tab = <<>> /\ b \in Bundles
    BY <1>1 DEF RInv, GInv, HInv, HostKept, TreeKept, Outside
  <2>2. fsys.has = {} /\ PlanOk(b)
    BY <1>1 DEF RInv, Built, Outside
  <2>3. done = 0
    BY <1>1 DEF RInv, GInv, Hardened, Loops
  <2>4. QED  BY <2>1, <2>2, <2>3
<1>3. FsTyped(private) /\ private.tab = <<>> /\ private.has = {}
  BY <1>2 DEF make_root_private, FsTyped, FsShape
<1>4. Layered(b) => merged.mounted = Layers(b)
  BY <1>2, LayersAreMounted
<1> HIDE DEF private, merged, can, may
<1>5. Orderly(overlay) /\ Orderly(base) /\ overlay.layers = merged.mounted
  BY <1>3, RootedOrderly
<1> HIDE DEF overlay, base
<1>6. FsTyped(mounted) /\ (mounted.ok => Orderly(mounted) /\ (Layered(b) => mounted.layers = Layers(b)))
  <2>1. CASE Layered(b)
    <3>1. FsTyped(Then(private, can, overlay))
      BY <1>3, <1>5, FailKeeps DEF Then, Orderly, Fine, Plainly, Keeps
    <3>2. Then(private, can, overlay).ok => Then(private, can, overlay) = overlay
      BY <1>3, ThenOk
    <3>3. QED  BY <1>4, <1>5, <2>1, <3>1, <3>2
  <2>2. CASE ~Layered(b)
    BY <1>5, <2>2 DEF Orderly, Fine
  <2>3. QED  BY <2>1, <2>2
<1> HIDE DEF mounted
<1>7. CASE pc' # "failed"
  <2>1. fsys' = mounted /\ mounted.ok /\ pc' = "mounts"
    BY <1>1, <1>6, <1>7, ThenOk
  <2>2. Orderly(fsys') /\ (Layered(b) => fsys'.layers = Layers(b)) /\ done' = 0
    BY <1>1, <1>2, <1>6, <2>1
  <2>3. MountsTo(fsys', 0) /\ PtmxTo(fsys', 0)
    <3>1. \A i \in NewMounts : ~(i <= 0)
      BY <1>2, MountsAre DEF NewMounts
    <3>2. QED  BY <3>1 DEF MountsTo, PtmxTo
  <2>4. "mounts" \in Building
    BY DEF Building
  <2>5. QED  BY <1>2, <2>1, <2>2, <2>3, <2>4, BuiltBuilding
<1>8. QED  BY <1>7, BuiltFails

LEMMA MountsRStep == ASSUME RInv, ApplyMounts PROVE Built(fsys', done', pc', proc'.stdio)
<1> DEFINE m == b.mounts[done + 1]
           after == apply_one(fsys, m, Able)
<1>1. CASE pc' = "failed"
  BY <1>1, BuiltFails
<1>2. CASE pc' # "failed"
  <2>1. Each("mounts", b.mounts, after, "nodes")
    BY DEF ApplyMounts
  <2>2. /\ pc = "mounts"
        /\ \/ done < Len(b.mounts) /\ fsys' = after /\ done' = done + 1 /\ pc' = "mounts" /\ after.ok
           \/ ~(done < Len(b.mounts)) /\ fsys' = fsys /\ done' = 0 /\ pc' = "nodes"
    <3> HIDE DEF after
    <3>1. QED  BY <1>2, <2>1, EachOk
  <2>3. "mounts" \in Building /\ "nodes" \in Building
    BY DEF Building
  <2>4. /\ b \in Bundles /\ done \in Nat /\ FsTyped(fsys) /\ Orderly(fsys) /\ PlanOk(b)
        /\ (Layered(b) => fsys.layers = Layers(b)) /\ MountsTo(fsys, done) /\ PtmxTo(fsys, done)
    BY <2>2, <2>3, UnderConstruction
  <2>5. CASE done < Len(b.mounts) /\ fsys' = after /\ done' = done + 1 /\ pc' = "mounts" /\ after.ok
    <3>1. done + 1 \in DOMAIN b.mounts /\ resolve(m.destination) \in Paths
      BY <2>4, <2>5, MountsAre
    <3>2. /\ Raises(fsys, after, FlagsOf(done + 1), Destination(done + 1), b.mounts[done + 1].source)
          /\ b.mounts[done + 1].typ = "devpts" => Exists(after, Dev("ptmx"))
      BY <2>4, <2>5, <3>1, ApplyOneRaises DEF FlagsOf, Destination
    <3>3. after.layers = fsys.layers
      BY <2>4, ApplyOneKeeps DEF Plainly, Keeps
    <3> HIDE DEF after
    <3>4. MountsTo(after, done + 1) /\ PtmxTo(after, done + 1)
      BY <2>4, <2>5, <3>2, MountsRise
    <3>5. Orderly(after)
      BY <3>2 DEF Raises
    <3>6. QED  BY <2>3, <2>4, <2>5, <3>3, <3>4, <3>5, BuiltBuilding
  <2>6. CASE ~(done < Len(b.mounts)) /\ fsys' = fsys /\ done' = 0 /\ pc' = "nodes"
    <3>1. done >= Len(b.mounts)
      BY <2>4, <2>6, MountsAre
    <3>2. Present(fsys, 0, 0, 0)
      BY <2>4, <3>1, MountsPresent
    <3>3. QED  BY <2>3, <2>4, <2>6, <3>2, BuiltBuilding
  <2>7. QED  BY <2>2, <2>5, <2>6
<1>3. QED  BY <1>1, <1>2

LEMMA PresentGrows ==
    ASSUME b \in Bundles, NEW f, NEW g, Grows(f, g), NEW nodes, NEW links, NEW devices, Present(f, nodes, links, devices)
    PROVE  Present(g, nodes, links, devices)
<1> DEFINE none == {}
<1>1. none \in SUBSET Hiders
  OBVIOUS
<1> HIDE DEF none
<1>2. Spares(f, g, none)
  BY GrowsSpares
<1>3. QED  BY <1>1, <1>2, PresentKept

LEMMA NodesRStep == ASSUME RInv, CreateNodes PROVE Built(fsys', done', pc', proc'.stdio)
<1> DEFINE target == Dev(DEFAULT_DEVICES[done + 1])
           yes == TRUE
           after == node(fsys, target, yes, BindsNodes)
<1>1. CASE pc' = "failed"
  BY <1>1, BuiltFails
<1>2. CASE pc' # "failed"
  <2>1. Each("nodes", DEFAULT_DEVICES, after, "links")
    BY DEF CreateNodes
  <2>2. /\ pc = "nodes"
        /\ \/ done < Len(DEFAULT_DEVICES) /\ fsys' = after /\ done' = done + 1 /\ pc' = "nodes" /\ after.ok
           \/ ~(done < Len(DEFAULT_DEVICES)) /\ fsys' = fsys /\ done' = 0 /\ pc' = "links"
    <3> HIDE DEF after
    <3>1. QED  BY <1>2, <2>1, EachOk
  <2>3. "nodes" \in Building /\ "links" \in Building
    BY DEF Building
  <2>4. /\ b \in Bundles /\ done \in Nat /\ FsTyped(fsys) /\ Orderly(fsys) /\ PlanOk(b)
        /\ (Layered(b) => fsys.layers = Layers(b)) /\ Present(fsys, done, 0, 0)
    BY <2>2, <2>3, UnderConstruction
  <2>5. CASE done < Len(DEFAULT_DEVICES) /\ fsys' = after /\ done' = done + 1 /\ pc' = "nodes" /\ after.ok
    <3>1. target \in Paths
      BY <2>4, <2>5, NodesNamed
    <3>2. Grows(fsys, after) /\ Exists(after, target)
      <4> HIDE DEF target, yes
      <4>1. QED  BY <2>4, <2>5, <3>1, NodeGrows
    <3>3. after.layers = fsys.layers
      <4> HIDE DEF target, yes
      <4>1. Keeps(fsys, after)
        BY <2>4, NodeKeeps
      <4>2. QED  BY <4>1 DEF Keeps
    <3> HIDE DEF after
    <3>4. Present(after, done, 0, 0)
      BY <2>4, <3>2, PresentGrows
    <3>5. Present(after, done + 1, 0, 0)
      BY <2>4, <3>2, <3>4, NamedOneMore DEF Present
    <3>6. QED  BY <2>3, <2>4, <2>5, <3>2, <3>3, <3>5, BuiltBuilding DEF Grows
  <2>6. CASE ~(done < Len(DEFAULT_DEVICES)) /\ fsys' = fsys /\ done' = 0 /\ pc' = "links"
    <3>1. NamedTo(fsys, DEFAULT_DEVICES, 6)
      <4>1. \A k \in DOMAIN DEFAULT_DEVICES : k <= done
        BY <2>4, <2>6, ListsNamed
      <4>2. QED  BY <2>4, <4>1 DEF NamedTo, Present
    <3>2. Present(fsys, 6, 0, 0)
      BY <2>4, <3>1 DEF Present
    <3>3. QED  BY <2>3, <2>4, <2>6, <3>2, BuiltBuilding
  <2>7. QED  BY <2>2, <2>5, <2>6
<1>3. QED  BY <1>1, <1>2

LEMMA LinksRStep == ASSUME RInv, CreateLinks PROVE Built(fsys', done', pc', proc'.stdio)
<1> DEFINE target == Dev(SYMLINKS[done + 1])
           after == Make(fsys, target)
<1>1. CASE pc' = "failed"
  BY <1>1, BuiltFails
<1>2. CASE pc' # "failed"
  <2>1. Each("links", SYMLINKS, after, "devices")
    BY DEF CreateLinks
  <2>2. /\ pc = "links"
        /\ \/ done < Len(SYMLINKS) /\ fsys' = after /\ done' = done + 1 /\ pc' = "links" /\ after.ok
           \/ ~(done < Len(SYMLINKS)) /\ fsys' = fsys /\ done' = 0 /\ pc' = "devices"
    <3> HIDE DEF after
    <3>1. QED  BY <1>2, <2>1, EachOk
  <2>3. "links" \in Building /\ "devices" \in Building
    BY DEF Building
  <2>4. /\ b \in Bundles /\ done \in Nat /\ FsTyped(fsys) /\ Orderly(fsys) /\ PlanOk(b)
        /\ (Layered(b) => fsys.layers = Layers(b)) /\ Present(fsys, 6, done, 0)
    BY <2>2, <2>3, UnderConstruction
  <2>5. CASE done < Len(SYMLINKS) /\ fsys' = after /\ done' = done + 1 /\ pc' = "links" /\ after.ok
    <3>1. target \in Paths
      BY <2>4, <2>5, NodesNamed
    <3>2. Grows(fsys, after) /\ Exists(after, target)
      <4> HIDE DEF target
      <4>1. Grows(fsys, after) /\ Reached(after, target)
        BY <2>4, <2>5, <3>1, MakeGrows
      <4>2. QED  BY <3>1, <4>1, PrefixOrder DEF Reached
    <3>3. after.layers = fsys.layers
      BY <2>4, MakeKeeps DEF Plainly, Keeps
    <3> HIDE DEF after
    <3>4. Present(after, 6, done, 0)
      BY <2>4, <3>2, PresentGrows
    <3>5. Present(after, 6, done + 1, 0)
      BY <2>4, <3>2, <3>4, NamedOneMore DEF Present
    <3>6. QED  BY <2>3, <2>4, <2>5, <3>2, <3>3, <3>5, BuiltBuilding DEF Grows
  <2>6. CASE ~(done < Len(SYMLINKS)) /\ fsys' = fsys /\ done' = 0 /\ pc' = "devices"
    <3>1. NamedTo(fsys, SYMLINKS, 4)
      <4>1. \A k \in DOMAIN SYMLINKS : k <= done
        BY <2>4, <2>6, ListsNamed
      <4>2. QED  BY <2>4, <4>1 DEF NamedTo, Present
    <3>2. Present(fsys, 6, 4, 0)
      BY <2>4, <3>1 DEF Present
    <3>3. QED  BY <2>3, <2>4, <2>6, <3>2, BuiltBuilding
  <2>7. QED  BY <2>2, <2>5, <2>6
<1>3. QED  BY <1>1, <1>2

LEMMA DevicesRStep == ASSUME RInv, CreateDevices PROVE Built(fsys', done', pc', proc'.stdio)
<1> DEFINE d == b.devices[done + 1]
           after == extra_device(fsys, d, BindsNodes, HostUser)
<1>1. CASE pc' = "failed"
  BY <1>1, BuiltFails
<1>2. CASE pc' # "failed"
  <2>1. Each("devices", b.devices, after, "pivot")
    BY DEF CreateDevices
  <2>2. /\ pc = "devices"
        /\ \/ done < Len(b.devices) /\ fsys' = after /\ done' = done + 1 /\ pc' = "devices" /\ after.ok
           \/ ~(done < Len(b.devices)) /\ fsys' = fsys /\ done' = 0 /\ pc' = "pivot"
    <3> HIDE DEF after
    <3>1. QED  BY <1>2, <2>1, EachOk
  <2>3. "devices" \in Building /\ "pivot" \in Building
    BY DEF Building
  <2>4. /\ b \in Bundles /\ done \in Nat /\ FsTyped(fsys) /\ Orderly(fsys) /\ PlanOk(b)
        /\ (Layered(b) => fsys.layers = Layers(b)) /\ Present(fsys, 6, 4, done)
    BY <2>2, <2>3, UnderConstruction
  <2>5. CASE done < Len(b.devices) /\ fsys' = after /\ done' = done + 1 /\ pc' = "devices" /\ after.ok
    <3>1. resolve(d.path) \in Paths
      <4>1. done + 1 \in DOMAIN b.devices
        BY <2>4, <2>5, DevicesAre
      <4>2. QED  BY <2>4, <4>1, DevicesAre
    <3>2. Grows(fsys, after) /\ Exists(after, resolve(d.path))
      <4> HIDE DEF d
      <4>1. QED  BY <2>4, <2>5, <3>1, ExtraDeviceGrows
    <3>3. after.layers = fsys.layers
      BY <2>4, ExtraDeviceKeeps
    <3> HIDE DEF after
    <3>4. Present(after, 6, 4, done)
      BY <2>4, <3>2, PresentGrows
    <3>5. AddedTo(after, done + 1)
      BY <2>4, <3>2, <3>4, AddedOneMore DEF Present
    <3>6. Present(after, 6, 4, done + 1)
      BY <3>4, <3>5 DEF Present
    <3>7. QED  BY <2>3, <2>4, <2>5, <3>2, <3>3, <3>6, BuiltBuilding DEF Grows
  <2>6. CASE ~(done < Len(b.devices)) /\ fsys' = fsys /\ done' = 0 /\ pc' = "pivot"
    <3>1. AddedTo(fsys, Len(b.devices))
      <4>1. \A k \in DOMAIN b.devices : k <= done
        BY <2>4, <2>6, DevicesAre
      <4>2. QED  BY <2>4, <4>1 DEF AddedTo, Present
    <3>2. Present(fsys, 6, 4, Len(b.devices))
      BY <2>4, <3>1 DEF Present
    <3>3. QED  BY <2>3, <2>4, <2>6, <3>2, BuiltBuilding
  <2>7. QED  BY <2>2, <2>5, <2>6
<1>3. QED  BY <1>1, <1>2

\* What the file system shows as it is shown after pivot_root is there as before.
LEMMA PivotRStep == ASSUME RInv, PivotRoot PROVE Built(fsys', done', pc', proc'.stdio)
<1> DEFINE after == set_propagation(pivot(fsys), b.propagation)
           none == {}
<1>1. /\ pc = "pivot" /\ fsys' = after
      /\ pc' = IF fsys'.ok THEN (IF b.console # "none" THEN "console" ELSE "identity") ELSE "failed"
  BY DEF PivotRoot, Go
<1>2. /\ b \in Bundles /\ OwnMounts(b) /\ FsTyped(fsys) /\ Fine(fsys) /\ PlanOk(b) /\ fsys.prop = "private"
      /\ (Layered(b) => fsys.layers = Layers(b)) /\ Present(fsys, 6, 4, Len(b.devices))
  <2>1. "pivot" \in Building
    BY DEF Building
  <2>2. QED  BY <1>1, <2>1, UnderConstruction DEF Orderly
<1>3. CASE after.ok
  <2>1. Spares(fsys, after, none)
    BY <1>2, <1>3, PivotShows, ShowsSpares
  <2>2. after.layers = fsys.layers /\ ~after.old /\ after.prop = AskedPropagation
    BY <1>2, <1>3, PivotIs DEF AskedPropagation
  <2> HIDE DEF after
  <2>3. none \in SUBSET Hiders
    OBVIOUS
  <2> HIDE DEF none
  <2>4. Present(after, 6, 4, Len(b.devices))
    BY <1>2, <2>1, <2>3, PresentKept
  <2>5. pc' = "identity" => ~b.terminal
    BY <1>1, <1>2 DEF PlanOk
  <2>6. pc' \in {"console", "identity"}
    BY <1>1, <1>3
  <2>7. pc' \notin Outside \cup Building /\ pc' \in Complete /\ pc' \in AfterPivot /\ (pc' \in Late => pc' = "identity")
    BY <2>6 DEF Outside, Building, Complete, AfterPivot, Late, Tree, Inside
  <2>8. QED  BY <1>1, <1>2, <2>2, <2>4, <2>5, <2>6, <2>7 DEF Built
<1>4. CASE ~after.ok
  BY <1>1, <1>4, BuiltFails
<1>5. QED  BY <1>3, <1>4

LEMMA ConsoleRStep == ASSUME RInv, SetupConsole PROVE Built(fsys', done', pc', proc'.stdio)
<1> DEFINE after == setup_console(fsys)
           c == Dev("console")
<1>1. /\ pc = "console" /\ fsys' = after /\ UNCHANGED b
      /\ pc' = IF fsys'.ok THEN "identity" ELSE "failed"
      /\ proc' = [proc EXCEPT !.stdio = IF fsys'.ok THEN "pty" ELSE @]
  BY DEF SetupConsole, Go
<1>2. b \in Bundles /\ OwnMounts(b) /\ Fine(fsys) /\ b.terminal
  BY <1>1, Constructs DEF RInv
<1>3. /\ Present(fsys, 6, 4, Len(b.devices)) /\ ~fsys.old /\ fsys.prop = AskedPropagation /\ PlanOk(b)
      /\ (Layered(b) => fsys.layers = Layers(b))
  <2>1. pc \in Inside \ {"root"} /\ pc \in Complete /\ pc \in AfterPivot
    BY <1>1 DEF Inside, Complete, AfterPivot
  <2>2. QED  BY <1>1, <1>2, <2>1 DEF RInv, Built
<1>4. CASE after.ok
  <2>1. Spares(fsys, after, {c}) /\ Exists(after, c) /\ MountOf(after, c).fs.typ = "pty"
    BY <1>2, <1>4, ConsoleSpares
  <2>2. after.prop = fsys.prop /\ after.old = fsys.old /\ after.layers = fsys.layers
    BY <1>2, ConsoleKeeps DEF Keeps, Fine
  <2> HIDE DEF after
  <2>3. ConsoleIn(after)
    BY <2>1 DEF ConsoleIn
  <2>4. {c} \in SUBSET Hiders
    BY <1>2 DEF Hiders
  <2> HIDE DEF c
  <2>5. Present(after, 6, 4, Len(b.devices))
    BY <1>2, <1>3, <2>1, <2>4, PresentKept
  <2>6. proc'.stdio = "pty"
    BY <1>1, <1>4 DEF RInv, TInv, ProcTyped
  <2>7. pc' = "identity"
    BY <1>1, <1>4
  <2>8. pc' \notin Outside \cup Building
    BY <2>7 DEF Outside, Building
  <2>9. QED  BY <1>1, <1>2, <1>3, <2>2, <2>3, <2>5, <2>6, <2>7, <2>8 DEF Built
<1>5. CASE ~after.ok
  BY <1>1, <1>5, BuiltFails
<1>6. QED  BY <1>4, <1>5

\* The tree stays as it is.
LEMMA SparesSelf ==
    ASSUME NEW f, Fine(f), FsTyped(f)
    PROVE  (\E hidden \in SUBSET ToSet(b.masked) : Spares(f, f, hidden)) /\ Keeps(f, f)
<1> DEFINE none == {}
<1>1. none \in SUBSET ToSet(b.masked)
  OBVIOUS
<1> HIDE DEF none
<1>2. Spares(f, f, none)
  BY NarrowsSelf, NarrowsSpares
<1>3. QED  BY <1>1, <1>2, KeepsSelf DEF Plainly

LEMMA QuietRStep ==
    ASSUME RInv,
           \/ SetIdentity \/ ApplySysctl
           \/ ApplyLimits \/ FilterEarly \/ DropBounding \/ DropPrivileges \/ ApplyCapabilities
           \/ NoNewPrivs \/ FilterLate \/ Ready \/ Park \/ Exec \/ Starved
    PROVE  Built(fsys', done', pc', proc'.stdio)
<1> DEFINE Quiet == {"identity", "sysctl", "mask", "limits", "filter", "bounding", "user", "caps", "nnp", "late",
                     "ready", "park", "parked", "running", "lost"}
<1>1. fsys' = fsys /\ pc \in Quiet /\ pc' \in Quiet \cup {"failed"}
  <2> USE DEF Go
  <2>1. CASE SetIdentity \/ ApplySysctl
    BY <2>1 DEF SetIdentity, ApplySysctl
  <2>2. CASE ApplyLimits
    BY <2>2 DEF ApplyLimits
  <2>3. CASE FilterEarly \/ DropBounding \/ DropPrivileges
    BY <2>3 DEF FilterEarly, DropBounding, DropPrivileges, Privilege
  <2>4. CASE ApplyCapabilities \/ NoNewPrivs \/ FilterLate
    BY <2>4 DEF ApplyCapabilities, NoNewPrivs, FilterLate, Privilege
  <2>5. CASE Ready \/ Park \/ Exec \/ Starved
    BY <2>5 DEF Ready, Park, Exec, Starved, Privilege
  <2>6. QED  BY <2>1, <2>2, <2>3, <2>4, <2>5
<1>2. proc'.stdio = proc.stdio
  <2>1. CASE ApplyLimits
    BY <2>1 DEF ApplyLimits, RInv, TInv, ProcTyped
  <2>2. CASE SetIdentity \/ ApplySysctl \/ FilterEarly \/ DropBounding \/ DropPrivileges
    BY <2>2 DEF SetIdentity, ApplySysctl, FilterEarly, DropBounding, DropPrivileges, Privilege
  <2>3. CASE ApplyCapabilities \/ NoNewPrivs \/ FilterLate \/ Ready \/ Park \/ Exec \/ Starved
    BY <2>3 DEF ApplyCapabilities, NoNewPrivs, FilterLate, Ready, Park, Exec, Starved, Privilege
  <2>4. QED  BY <2>1, <2>2, <2>3
<1>3. Quiet \subseteq Late
  BY DEF Late, Inside, Tree
<1> HIDE DEF Quiet
<1>4. OwnMounts(b) => Fine(fsys) /\ FsTyped(fsys)
  <2>1. pc \in Inside \ {"root"}
    BY <1>1, <1>3 DEF Late
  <2>2. QED  BY <2>1 DEF RInv, GInv, Hardened, Fine
<1>5. QED  BY <1>1, <1>2, <1>3, <1>4, SparesSelf, LateStep

\* The steps of the hardening hide nothing but what is masked.
LEMMA HardenRStep ==
    ASSUME RInv, pc \in {"mask", "readonly", "remounts", "rootfs"}, pc' \in Late \cup {"failed"}, proc' = proc,
           pc' # "failed" => /\ \E hidden \in SUBSET ToSet(b.masked) : Spares(fsys, fsys', hidden)
                             /\ Keeps(fsys, fsys')
    PROVE  Built(fsys', done', pc', proc'.stdio)
<1>1. pc \in Late
  BY DEF Late, Inside, Tree
<1>2. QED  BY <1>1, LateStep

LEMMA NarrowsHidesNothing ==
    ASSUME NEW f, NEW g, Narrows(f, g) PROVE \E hidden \in SUBSET ToSet(b.masked) : Spares(f, g, hidden)
<1> DEFINE none == {}
<1>1. none \in SUBSET ToSet(b.masked)
  OBVIOUS
<1> HIDE DEF none
<1>2. QED  BY <1>1, NarrowsSpares

LEMMA MasksRStep == ASSUME RInv, MaskPaths PROVE Built(fsys', done', pc', proc'.stdio)
<1> DEFINE p == b.masked[done + 1]
           after == mask_one(fsys, p)
<1>1. Each("mask", b.masked, after, "readonly") /\ proc' = proc /\ pc = "mask"
  BY DEF MaskPaths, Each
<1>2. CASE pc' = "failed"
  BY <1>2, BuiltFails
<1>3. CASE pc' # "failed"
  <2>1. \/ done < Len(b.masked) /\ fsys' = after /\ pc' = "mask" /\ after.ok
        \/ fsys' = fsys /\ pc' = "readonly"
    <3> HIDE DEF after
    <3>1. QED  BY <1>1, <1>3, EachOk
  <2>2. b \in Bundles /\ done \in Nat /\ Fine(fsys) /\ FsTyped(fsys)
    BY <1>1, TreeHardens DEF RInv, Fine
  <2>3. pc' \in Late
    BY <2>1 DEF Late, Inside, Tree
  <2>4. CASE done < Len(b.masked) /\ fsys' = after /\ after.ok
    <3>1. p \in Paths /\ p \in ToSet(b.masked)
      BY <2>2, <2>4, PathListsAre
    <3>2. Spares(fsys, after, {p}) /\ Keeps(fsys, after)
      BY <2>2, <2>4, <3>1, MaskSpares, MaskKeeps
    <3> HIDE DEF after
    <3>3. \E hidden \in SUBSET ToSet(b.masked) : Spares(fsys, after, hidden)
      BY <3>1, <3>2
    <3>4. QED  BY <1>1, <2>3, <2>4, <3>2, <3>3, HardenRStep
  <2>5. CASE fsys' = fsys
    BY <1>1, <2>2, <2>3, <2>5, SparesSelf, HardenRStep
  <2>6. QED  BY <2>1, <2>4, <2>5
<1>4. QED  BY <1>2, <1>3

LEMMA ReadonlyRStep == ASSUME RInv, ReadonlyPaths PROVE Built(fsys', done', pc', proc'.stdio)
<1> DEFINE p == b.readonlyPaths[done + 1]
           after == readonly_one(fsys, p)
<1>1. Each("readonly", b.readonlyPaths, after, "remounts") /\ proc' = proc /\ pc = "readonly"
  BY DEF ReadonlyPaths, Each
<1>2. CASE pc' = "failed"
  BY <1>2, BuiltFails
<1>3. CASE pc' # "failed"
  <2>1. \/ done < Len(b.readonlyPaths) /\ fsys' = after /\ pc' = "readonly" /\ after.ok
        \/ fsys' = fsys /\ pc' = "remounts"
    <3> HIDE DEF after
    <3>1. QED  BY <1>1, <1>3, EachOk
  <2>2. b \in Bundles /\ done \in Nat /\ Fine(fsys) /\ FsTyped(fsys) /\ HasRoot(fsys)
    BY <1>1, TreeHardens DEF RInv, Fine
  <2>3. pc' \in Late
    BY <2>1 DEF Late, Inside, Tree
  <2>4. CASE done < Len(b.readonlyPaths) /\ fsys' = after /\ after.ok
    <3>1. p \in Paths
      BY <2>2, <2>4, PathListsAre
    <3>2. Narrows(fsys, after) /\ Keeps(fsys, after)
      BY <2>2, <2>4, <3>1, ReadonlyNarrows, ReadonlyKeeps DEF Paths
    <3> HIDE DEF after
    <3>3. QED  BY <1>1, <2>3, <2>4, <3>2, NarrowsHidesNothing, HardenRStep
  <2>5. CASE fsys' = fsys
    BY <1>1, <2>2, <2>3, <2>5, SparesSelf, HardenRStep
  <2>6. QED  BY <2>1, <2>4, <2>5
<1>4. QED  BY <1>2, <1>3

LEMMA RemountsRStep == ASSUME RInv, RemountReadonly PROVE Built(fsys', done', pc', proc'.stdio)
<1> DEFINE m == b.mounts[done + 1]
           after == remount_readonly(fsys, m)
<1>1. Each("remounts", b.mounts, after, "rootfs") /\ proc' = proc /\ pc = "remounts"
  BY DEF RemountReadonly, Each
<1>2. CASE pc' = "failed"
  BY <1>2, BuiltFails
<1>3. CASE pc' # "failed"
  <2>1. \/ done < Len(b.mounts) /\ fsys' = after /\ pc' = "remounts" /\ after.ok
        \/ fsys' = fsys /\ pc' = "rootfs"
    <3> HIDE DEF after
    <3>1. QED  BY <1>1, <1>3, EachOk
  <2>2. b \in Bundles /\ done \in Nat /\ Fine(fsys) /\ FsTyped(fsys)
    BY <1>1, TreeHardens DEF RInv, Fine
  <2>3. pc' \in Late
    BY <2>1 DEF Late, Inside, Tree
  <2>4. CASE done < Len(b.mounts) /\ fsys' = after /\ after.ok
    <3>1. resolve(m.destination) \in Paths
      BY <2>2, <2>4, MountsAre
    <3>2. Narrows(fsys, after) /\ Keeps(fsys, after)
      BY <2>2, <2>4, <3>1, RemountNarrows, RemountKeeps
    <3> HIDE DEF after
    <3>3. QED  BY <1>1, <2>3, <2>4, <3>2, NarrowsHidesNothing, HardenRStep
  <2>5. CASE fsys' = fsys
    BY <1>1, <2>2, <2>3, <2>5, SparesSelf, HardenRStep
  <2>6. QED  BY <2>1, <2>4, <2>5
<1>4. QED  BY <1>2, <1>3

LEMMA RootfsRStep == ASSUME RInv, ReadonlyRootfs PROVE Built(fsys', done', pc', proc'.stdio)
<1> DEFINE root == <<>>
           yes == TRUE
           set == SetRo(fsys, root, yes)
<1>1. /\ pc = "rootfs" /\ pc' = "limits" /\ proc' = proc
      /\ fsys' = IF b.readonlyRoot THEN set ELSE fsys
  BY DEF ReadonlyRootfs, readonly_rootfs
<1>2. Fine(fsys) /\ FsTyped(fsys)
  BY <1>1, TreeHardens DEF RInv, Fine
<1>3. pc' \in Late
  BY <1>1 DEF Late, Inside, Tree
<1>4. root \in Paths /\ yes \in BOOLEAN
  BY EmptySeq DEF Paths
<1>5. Narrows(fsys, set)
  <2> HIDE DEF root
  <2>1. QED  BY <1>2, <1>4, SetRoNarrows
<1>6. Keeps(fsys, set)
  <2> HIDE DEF root, yes
  <2>1. QED  BY <1>2, <1>4, SetRoKeeps DEF Plainly
<1> HIDE DEF set
<1>7. CASE fsys' = set
  BY <1>1, <1>3, <1>5, <1>6, <1>7, NarrowsHidesNothing, HardenRStep
<1>8. CASE fsys' = fsys
  BY <1>1, <1>2, <1>3, <1>8, SparesSelf, HardenRStep
<1>9. QED  BY <1>1, <1>7, <1>8

\* The bundle stays, and with it what is said of the tree.
LEMMA PresentNext ==
    ASSUME b' = b, NEW nodes, NEW links, NEW devices
    PROVE  Present(fsys, nodes, links, devices)' <=> Present(fsys', nodes, links, devices)
<1>1. NewMounts' = NewMounts
  BY DEF NewMounts
<1>2. SeenIn(fsys)' <=> SeenIn(fsys')
  BY <1>1 DEF SeenIn, At, CoveredByMount, CoveredAfter, UnderConsole, BelowConsole, Masked, Destination
<1>3. PtmxIn(fsys)' <=> PtmxIn(fsys')
  BY <1>1 DEF PtmxIn, CoveredAfter, Masked, Destination
<1>4. NamedTo(fsys, DEFAULT_DEVICES, nodes)' <=> NamedTo(fsys', DEFAULT_DEVICES, nodes)
  BY DEF NamedTo, Masked
<1>5. NamedTo(fsys, SYMLINKS, links)' <=> NamedTo(fsys', SYMLINKS, links)
  BY DEF NamedTo, Masked
<1>6. AddedTo(fsys, devices)' <=> AddedTo(fsys', devices)
  BY DEF AddedTo, Masked, BelowConsole
<1>7. QED  BY <1>2, <1>3, <1>4, <1>5, <1>6 DEF Present

LEMMA BuiltNext == ASSUME b' = b, Built(fsys', done', pc', proc'.stdio) PROVE Built(fsys, done, pc, proc.stdio)'
<1>1. PlanOk(b)' <=> PlanOk(b)
  OBVIOUS
<1>2. NewMounts' = NewMounts
  BY DEF NewMounts
<1>3. (Layered(b)' <=> Layered(b)) /\ Layers(b)' = Layers(b) /\ (OwnMounts(b)' <=> OwnMounts(b))
  OBVIOUS
<1>4. (MountsTo(fsys, done)' <=> MountsTo(fsys', done')) /\ (PtmxTo(fsys, done)' <=> PtmxTo(fsys', done'))
  BY <1>2 DEF MountsTo, PtmxTo, OverBy, At, Destination
<1>5. /\ Present(fsys, done, 0, 0)' <=> Present(fsys', done', 0, 0)
      /\ Present(fsys, 6, done, 0)' <=> Present(fsys', 6, done', 0)
      /\ Present(fsys, 6, 4, done)' <=> Present(fsys', 6, 4, done')
      /\ Present(fsys, 6, 4, Len(b.devices))' <=> Present(fsys', 6, 4, Len(b.devices))
  BY PresentNext
<1>6. (ConsoleIn(fsys)' <=> ConsoleIn(fsys')) /\ AskedPropagation' = AskedPropagation
  BY DEF ConsoleIn, AskedPropagation, Masked
<1>7. QED  BY <1>1, <1>3, <1>4, <1>5, <1>6 DEF Built

LEMMA NextRInv == RInv /\ [Next]_vars => RInv'
<1> SUFFICES ASSUME RInv, [Next]_vars PROVE RInv'
  OBVIOUS
<1>1. GInv' /\ TInv'
  BY NextGInv, NextTInv DEF RInv
<1>2. CASE UNCHANGED vars
  <2>1. b' = b /\ fsys' = fsys /\ done' = done /\ pc' = pc /\ proc' = proc
    BY <1>2 DEF vars
  <2>2. Built(fsys', done', pc', proc'.stdio)
    BY <2>1 DEF RInv
  <2>3. QED  BY <1>1, <2>1, <2>2, BuiltNext DEF RInv
<1>3. CASE Next
  <2>1. Built(fsys', done', pc', proc'.stdio)
    <3>1. CASE Overflow
      BY <3>1, BuiltFails DEF Overflow
    <3>2. CASE ~Overflow
      BY <1>3, <3>2, OutsideRStep, MountRootRStep, MountsRStep, NodesRStep, LinksRStep, DevicesRStep, PivotRStep,
         ConsoleRStep, QuietRStep, MasksRStep, ReadonlyRStep, RemountsRStep, RootfsRStep DEF Next
    <3>3. QED  BY <3>1, <3>2
  <2>2. b' = b
    BY <1>3, BundleStays
  <2>3. QED  BY <1>1, <2>1, <2>2, BuiltNext DEF RInv
<1>4. QED  BY <1>2, <1>3

\* What is present is what RootfsAsAsked asks for.
LEMMA PresentIsAsked ==
    ASSUME b \in Bundles, Present(fsys, 6, 4, Len(b.devices))
    PROVE  MountsThere /\ DevicesThere
<1>1. SeenIn(fsys) /\ PtmxIn(fsys) /\ NamedTo(fsys, DEFAULT_DEVICES, 6) /\ NamedTo(fsys, SYMLINKS, 4)
      /\ AddedTo(fsys, Len(b.devices))
  BY DEF Present
<1>2. MountsThere
  BY <1>1 DEF MountsThere, SeenIn, At
<1>3. \A name \in ToSet(DEFAULT_DEVICES \o SYMLINKS) : Masked(<<"dev">>) \/ Exists(fsys, Dev(name))
  <2>1. ASSUME NEW name \in ToSet(DEFAULT_DEVICES \o SYMLINKS) PROVE Masked(DevDir) \/ Exists(fsys, Dev(name))
    <3>1. name \in ToSet(DEFAULT_DEVICES) \cup ToSet(SYMLINKS)
      BY <2>1 DEF ToSet, DEFAULT_DEVICES, SYMLINKS
    <3>2. CASE name \in ToSet(DEFAULT_DEVICES)
      <4>1. PICK k \in DOMAIN DEFAULT_DEVICES : name = DEFAULT_DEVICES[k]
        BY <3>2 DEF ToSet
      <4>2. k <= 6
        BY ListsNamed
      <4>3. QED  BY <1>1, <4>1, <4>2 DEF NamedTo
    <3>3. CASE name \in ToSet(SYMLINKS)
      <4>1. PICK k \in DOMAIN SYMLINKS : name = SYMLINKS[k]
        BY <3>3 DEF ToSet
      <4>2. k <= 4
        BY ListsNamed
      <4>3. QED  BY <1>1, <4>1, <4>2 DEF NamedTo
    <3>4. QED  BY <3>1, <3>2, <3>3
  <2>2. QED  BY <2>1 DEF DevDir
<1>4. \A d \in ToSet(b.devices) :
          LET p == resolve(d.path) IN Masked(p) \/ BelowConsole(p) \/ Exists(fsys, p)
  <2> SUFFICES ASSUME NEW d \in ToSet(b.devices)
               PROVE  Masked(resolve(d.path)) \/ BelowConsole(resolve(d.path)) \/ Exists(fsys, resolve(d.path))
    OBVIOUS
  <2>1. PICK k \in DOMAIN b.devices : d = b.devices[k]
    BY DEF ToSet
  <2>2. k <= Len(b.devices)
    BY DevicesAre
  <2>3. QED  BY <1>1, <2>1, <2>2 DEF AddedTo
<1>5. \A i \in NewMounts : b.mounts[i].typ = "devpts" =>
          Masked(<<"dev">>) \/ CoveredAfter(i, <<"dev">>) \/ Exists(fsys, Dev("ptmx"))
  BY <1>1 DEF PtmxIn, DevDir
<1>6. QED  BY <1>2, <1>3, <1>4, <1>5 DEF DevicesThere

\* When create has reported success, and from then on, a container with mounts of its own sees
\* the root it asked for and nothing of the old one, with the propagation and the layers of the
\* bundle; each mount of the bundle at its destination, of its source; the default nodes and links,
\* the devices of the bundle, the pseudo-terminals; and a terminal if it has one.  None of the
\* later steps hides what an earlier one made, save what the bundle itself covers or masks
\* (mount_at, pivot, mounts::apply, devices::create, console::setup, and their order).
THEOREM RootfsIsAsAsked == Spec => []RootfsAsAsked
<1>1. RInv => RootfsAsAsked
  <2> SUFFICES ASSUME RInv, Created, OwnMounts(b) PROVE RootAsAsked /\ MountsThere /\ DevicesThere /\ ConsoleThere
    BY DEF RootfsAsAsked
  <2>1. b \in Bundles
    BY DEF RInv, GInv, HInv, HostKept
  <2>2. pc \in Late /\ pc \in Inside \ {"root"} /\ pc \in Complete /\ pc \in AfterPivot
    BY DEF Created, Late, Inside, Tree, Complete, AfterPivot
  <2>3. /\ Layered(b) => fsys.layers = Layers(b)
        /\ Present(fsys, 6, 4, Len(b.devices)) /\ ~fsys.old /\ fsys.prop = AskedPropagation
        /\ b.terminal => proc.stdio = "pty" /\ ConsoleIn(fsys)
    BY <2>2 DEF RInv, Built
  <2>4. RootAsAsked
    BY <2>3 DEF RootAsAsked, AskedPropagation
  <2>5. MountsThere /\ DevicesThere
    BY <2>1, <2>3, PresentIsAsked
  <2>6. ConsoleThere
    BY <2>3 DEF ConsoleThere, ConsoleIn
  <2>7. QED  BY <2>4, <2>5, <2>6
<1>2. QED  BY <1>1, InitRInv, NextRInv, PTL DEF Spec

=============================================================================
