------------------------------ MODULE ExecProof ------------------------------
(***************************************************************************)
(* The safety of exec, for every set of namespaces a container may have.   *)
(*                                                                         *)
(* The invariant has two parts.  Handshake follows the child: it is let go *)
(* by the packet, the packet comes after the placement, and a cgroup with  *)
(* a living process in it is not removed.  Collected follows the loop over *)
(* JOIN_ORDER: as long as the init lives, what has been passed is joined   *)
(* exactly if it is the container's own.                                   *)
(***************************************************************************)
EXTENDS Exec, TLAPS

BeforeCollect == {"load", "alive", "paused", "resolve"}
Collecting == BeforeCollect \cup {"collect"}
AfterCollect == {"procs", "pidFile", "setns", "block", "fork"}
BeforeFork == Collecting \cup AfterCollect

Handshake ==
    /\ cmd \in BeforeFork => child = "none"
    /\ child = "none" => ~packet /\ ~placed
    /\ cmd = "place" => ~placed
    /\ cmd \in {"place", "send"} => ~packet
    /\ cmd = "send" /\ ChildAlive => placed
    /\ packet /\ ChildAlive => placed
    /\ placed /\ ChildAlive => cgroup
    /\ Inside => packet
    /\ cmd = "err" /\ packet => pidFile = "empty"

Expected(n) == IF n \in own THEN "container" ELSE "none"
AsExpected == \A n \in Namespace : joins[n] = Expected(n)

Collected ==
    /\ cmd \in BeforeCollect => next = 1
    /\ cmd = "collect" => next \in 1 .. 7
    /\ cmd \in Collecting /\ init = "running" =>
         \A i \in 1 .. 7 :
            joins[JOIN_ORDER[i]] = IF i < next THEN Expected(JOIN_ORDER[i]) ELSE "none"
    /\ (cmd \in AfterCollect \/ child # "none") /\ intact => AsExpected

IInv == TypeOK /\ Handshake /\ Collected

-----------------------------------------------------------------------------
\* The order names seven different namespaces, and they are all there are.
LEMMA Order ==
    /\ Len(JOIN_ORDER) = 7
    /\ \A i \in 1 .. 7 : JOIN_ORDER[i] \in Namespace
    /\ \A i, j \in 1 .. 7 : JOIN_ORDER[i] = JOIN_ORDER[j] => i = j
    /\ \A n \in Namespace : \E i \in 1 .. 7 : JOIN_ORDER[i] = n
  BY DEF JOIN_ORDER, Namespace

\* The invariant holds initially.
LEMMA InitIInv == Init => IInv
<1> SUFFICES ASSUME Init PROVE IInv
  OBVIOUS
<1>1. TypeOK
  <2>1. joins \in [Namespace -> {"none", "container", "stranger"}]
    BY DEF Init
  <2>2. {packet, placed, blocked, cgroup, frozen, intact} \subseteq BOOLEAN
    BY DEF Init
  <2>3. cmd \in CmdPoint /\ child \in ChildPoint /\ next \in 1 .. 8
    BY DEF Init, CmdPoint, ChildPoint
  <2> QED
    BY <2>1, <2>2, <2>3 DEF Init, TypeOK
<1>2. Handshake
  BY DEF Init, Handshake, Inside, ChildAlive
<1>3. Collected
  BY Order DEF Init, Collected, BeforeCollect, AfterCollect
<1> QED
  BY <1>1, <1>2, <1>3 DEF IInv

\* One step of the command, its child or anybody else keeps the types.
LEMMA TypeStep == TypeOK /\ Collected /\ [Next]_vars => TypeOK'
<1> SUFFICES ASSUME TypeOK, Collected, [Next]_vars PROVE TypeOK'
  OBVIOUS
<1> USE DEF TypeOK, CmdPoint, ChildPoint, Returned, containerVars, childVars
<1>1. CASE Load \/ CheckAlive \/ CheckPaused \/ Resolve \/ OpenProcs \/ SetNs
  BY <1>1 DEF Load, CheckAlive, CheckPaused, Resolve, OpenProcs, SetNs, Step, Check
<1>2. CASE Collect
  <2>1. next \in 1 .. 7
    BY <1>2 DEF Collect, Collected
  <2>2. joins' \in [Namespace -> {"none", "container", "stranger"}]
    BY <1>2 DEF Collect
  <2>3. cmd' \in CmdPoint /\ next' \in 1 .. 8 /\ intact' \in BOOLEAN
    BY <1>2, <2>1 DEF Collect
  <2> QED
    BY <1>2, <2>2, <2>3 DEF Collect
<1>3. CASE CreatePidFile \/ Block \/ Fork \/ WritePid
  BY <1>3 DEF CreatePidFile, Block, Fork, WritePid
<1>9. CASE Place
  <2>1. placed' \in BOOLEAN
    <3>1. CASE ChildAlive
      BY <1>9, <3>1 DEF Place
    <3>2. CASE ~ChildAlive
      <4>1. ChildAlive = FALSE
        BY <3>2 DEF ChildAlive
      <4> QED
        BY <1>9, <4>1 DEF Place
    <3> QED
      BY <3>1, <3>2
  <2>2. cmd' \in CmdPoint
    BY <1>9 DEF Place
  <2> QED
    BY <1>9, <2>1, <2>2 DEF Place
<1>10. CASE Send
  <2>1. packet' \in BOOLEAN
    <3>1. CASE ChildAlive
      BY <1>10, <3>1 DEF Send
    <3>2. CASE ~ChildAlive
      <4>1. ChildAlive = FALSE
        BY <3>2 DEF ChildAlive
      <4> QED
        BY <1>10, <4>1 DEF Send
    <3> QED
      BY <3>1, <3>2
  <2>2. cmd' \in CmdPoint
    BY <1>10 DEF Send
  <2> QED
    BY <1>10, <2>1, <2>2 DEF Send
<1>4. CASE Supervise \/ ReapChild
  BY <1>4 DEF Supervise, ReapChild
<1>5. CASE ChildExpect \/ ChildEnter \/ ProgramExits \/ ChildDies \/ OrphanReaped
  BY <1>5 DEF ChildExpect, ChildEnter, ProgramExits, ChildDies, OrphanReaped, ChildEnds,
     childFrame, clientVars
<1>6. CASE InitEnds \/ InitGoes \/ Recycle \/ Freezer \/ KillMember \/ Delete
  BY <1>6 DEF InitEnds, InitGoes, Recycle, Freezer, KillMember, Delete, containerFrame, clientVars
<1>7. CASE Terminate \/ KillCmd
  BY <1>7 DEF Terminate, KillCmd
<1>8. CASE UNCHANGED vars
  BY <1>8 DEF vars, clientVars
<1> QED
  BY <1>1, <1>2, <1>3, <1>4, <1>5, <1>6, <1>7, <1>8, <1>9, <1>10 DEF Next, CmdNext, ChildNext

-----------------------------------------------------------------------------
\* One step keeps what is known of the child.
LEMMA HandshakeStep == TypeOK /\ Handshake /\ [Next]_vars => Handshake'
<1> SUFFICES ASSUME TypeOK, Handshake, [Next]_vars PROVE Handshake'
  OBVIOUS
<1> USE DEF TypeOK, Handshake, BeforeFork, Collecting, BeforeCollect, AfterCollect, ChildAlive,
     Inside, containerVars, childVars
<1>1. CASE Load \/ CheckAlive \/ CheckPaused \/ Resolve \/ OpenProcs \/ SetNs
  BY <1>1 DEF Load, CheckAlive, CheckPaused, Resolve, OpenProcs, SetNs, Step, Check
<1>2. CASE Collect \/ CreatePidFile \/ Block
  BY <1>2 DEF Collect, CreatePidFile, Block
<1>3. CASE Fork
  BY <1>3 DEF Fork
<1>4. CASE Place
  BY <1>4 DEF Place
<1>5. CASE Send \/ WritePid
  BY <1>5 DEF Send, WritePid
<1>6. CASE Supervise \/ ReapChild
  BY <1>6 DEF Supervise, ReapChild
<1>7. CASE ChildExpect \/ ChildEnter \/ ProgramExits \/ ChildDies \/ OrphanReaped
  BY <1>7 DEF ChildExpect, ChildEnter, ProgramExits, ChildDies, OrphanReaped, ChildEnds, CmdGone,
     Returned, childFrame, clientVars
<1>8. CASE InitEnds \/ InitGoes \/ Recycle \/ Freezer \/ KillMember \/ Delete
  BY <1>8 DEF InitEnds, InitGoes, Recycle, Freezer, KillMember, Delete, containerFrame, clientVars
<1>9. CASE Terminate \/ KillCmd
  BY <1>9 DEF Terminate, KillCmd
<1>10. CASE UNCHANGED vars
  BY <1>10 DEF vars, clientVars
<1> QED
  BY <1>1, <1>2, <1>3, <1>4, <1>5, <1>6, <1>7, <1>8, <1>9, <1>10 DEF Next, CmdNext, ChildNext

\* One step keeps what is known of the namespaces.
LEMMA CollectedStep == IInv /\ [Next]_vars => Collected'
<1> SUFFICES ASSUME IInv, [Next]_vars PROVE Collected'
  OBVIOUS
<1> USE DEF IInv, TypeOK, Collected, BeforeFork, Collecting, BeforeCollect, AfterCollect,
     AsExpected, Expected, containerVars, childVars
<1>1. CASE Load \/ CheckAlive \/ CheckPaused \/ Resolve
  BY <1>1 DEF Load, CheckAlive, CheckPaused, Resolve, Step, Check, Handshake
<1>2. CASE Collect
  <2>1. cmd = "collect" /\ next \in 1 .. 7 /\ next' = next + 1 /\ child = "none" /\ child' = "none"
        /\ init' = init /\ own' = own
    BY <1>2 DEF Collect, Handshake
  <2>2. CASE init # "running"
    <3>1. intact' = FALSE /\ init' # "running"
      BY <1>2, <2>1, <2>2 DEF Collect
    <3>2. cmd' = "collect" => next # 7
      BY <1>2, Order DEF Collect
    <3>3. cmd' \in {"collect", "procs", "err"}
      BY <1>2 DEF Collect
    <3> QED
      BY <2>1, <3>1, <3>2, <3>3
  <2>3. CASE init = "running"
    <3> DEFINE here == JOIN_ORDER[next]
    <3>1. cmd' # "err" => joins' = [joins EXCEPT ![here] = Expected(here)]
      <4>1. here \in Namespace /\ joins[here] = "none"
        BY <2>1, <2>3, Order
      <4>2. CASE here \in own
        BY <1>2, <2>3, <4>1, <4>2 DEF Collect, MaySkip, MayJoin, Visible
      <4>3. CASE here \notin own
        BY <1>2, <2>3, <4>1, <4>3 DEF Collect, MaySkip, MayJoin, Visible
      <4> QED
        BY <4>2, <4>3
    <3>2. cmd' # "err" => \A i \in 1 .. 7 :
            joins'[JOIN_ORDER[i]] = IF i < next + 1 THEN Expected(JOIN_ORDER[i]) ELSE "none"
      BY <2>1, <2>3, <3>1, Order
    <3>3. cmd' \in {"collect", "err"} \/ (cmd' = "procs" /\ next = 7)
      BY <1>2, Order DEF Collect
    <3>4. next = 7 /\ cmd' = "procs" => AsExpected'
      BY <2>1, <3>2, Order
    <3>5. cmd' = "collect" => next # 7
      BY <1>2, Order DEF Collect
    <3> QED
      BY <2>1, <3>2, <3>3, <3>4, <3>5
  <2> QED
    BY <2>2, <2>3
<1>3. CASE OpenProcs \/ CreatePidFile \/ SetNs \/ Block \/ Fork
  BY <1>3 DEF OpenProcs, CreatePidFile, SetNs, Block, Fork, Step, Check
<1>4. CASE Place \/ Send \/ WritePid \/ Supervise \/ ReapChild
  BY <1>4 DEF Place, Send, WritePid, Supervise, ReapChild
<1>5. CASE ChildExpect \/ ChildEnter \/ ProgramExits \/ ChildDies \/ OrphanReaped
  BY <1>5 DEF ChildExpect, ChildEnter, ProgramExits, ChildDies, OrphanReaped, ChildEnds,
     childFrame, clientVars
<1>6. CASE InitEnds \/ InitGoes \/ Recycle \/ Freezer \/ KillMember \/ Delete
  BY <1>6 DEF InitEnds, InitGoes, Recycle, Freezer, KillMember, Delete, ChildAlive,
     containerFrame, clientVars
<1>7. CASE Terminate \/ KillCmd
  BY <1>7 DEF Terminate, KillCmd
<1>8. CASE UNCHANGED vars
  BY <1>8 DEF vars, clientVars
<1> QED
  BY <1>1, <1>2, <1>3, <1>4, <1>5, <1>6, <1>7, <1>8 DEF Next, CmdNext, ChildNext

\* The invariant holds throughout.
LEMMA Invariance == Spec => []IInv
<1>1. IInv /\ [Next]_vars => IInv'
  BY TypeStep, HandshakeStep, CollectedStep DEF IInv
<1> QED
  BY InitIInv, <1>1, PTL DEF Spec

-----------------------------------------------------------------------------
\* The variables of exec have their types.
THEOREM TypeCorrect == Spec => []TypeOK
<1>1. IInv => TypeOK
  BY DEF IInv
<1> QED
  BY Invariance, <1>1, PTL

\* The child does nothing in the container before place has put it into its cgroup.
THEOREM CgroupBeforeExec == Spec => []PlacedBeforeProgram
<1>1. IInv => PlacedBeforeProgram
  BY DEF IInv, Handshake, PlacedBeforeProgram, Inside, ChildAlive
<1> QED
  BY Invariance, <1>1, PTL

\* exec reports an error for a program that runs only if the pid file is to blame.
THEOREM ErrorIsHonest == Spec => []ErrorMeansNoProgram
<1>1. IInv => ErrorMeansNoProgram
  BY DEF IInv, Handshake, ErrorMeansNoProgram, Inside
<1> QED
  BY Invariance, <1>1, PTL

\* collect finds exactly the container's own namespaces while the init lives.
THEOREM JoinsAreExact == Spec => []JoinedWhileAlive
<1>1. IInv => JoinedWhileAlive
  BY DEF IInv, Collected, AsExpected, Expected, JoinedWhileAlive, Inside
<1> QED
  BY Invariance, <1>1, PTL

=============================================================================
