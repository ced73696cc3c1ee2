---------------------------- MODULE CreateProof -----------------------------
(***************************************************************************)
(* The safety properties of Create, for every set of Victims.              *)
(*                                                                         *)
(* None of them is inductive.  What makes them so is the conversation      *)
(* (Conv): for each control point of the command, which packets can be in  *)
(* the socket and how far the two children can have come.                  *)
(***************************************************************************)
EXTENDS Create, TLAPS, SequenceTheorems

\* The points an init passes only after CgroupApplied.
Released == SetupPoint \cup {"report", "park", "parked"}

\* While nothing has been heard of the init, an intermediate that is gone
\* without a packet was SIGKILLed.
MidSilent == toCmd = <<>> /\ (mid = "dead" => "mid" \in killed)

ConvFirst ==
    /\ toChild = <<>>
    /\ ini \in {"none", "waitCg", "dead"}
    /\ \/ MidSilent /\ mid \in {"join", "request", "fork", "report", "fail", "dead"}
       \/ toCmd = <<"RequestUserMapping">> /\ mid \in {"waitMap", "dead"} /\ ini = "none"
          /\ (mid = "dead" => "mid" \in killed)
       \/ toCmd \in {<<"InitPid">>, <<"Failed">>} /\ mid \in {"exiting", "dead"}

ConvMap ==
    /\ MidSilent
    /\ toChild = <<>>
    /\ mid \in {"waitMap", "dead"}
    /\ ini = "none"

ConvPid ==
    /\ ini \in {"none", "waitCg", "dead"}
    /\ \/ toChild = <<"UserMappingDone">> /\ MidSilent /\ mid \in {"waitMap", "dead"} /\ ini = "none"
       \/ toChild = <<>> /\ MidSilent /\ mid \in {"becomeRoot", "fork", "report", "fail", "dead"}
       \/ toChild = <<>> /\ toCmd \in {<<"InitPid">>, <<"Failed">>} /\ mid \in {"exiting", "dead"}

\* From InitPid to CgroupApplied the init only waits.
ConvQuiet ==
    /\ toCmd = <<>>
    /\ toChild = <<>>
    /\ ini \in {"none", "waitCg", "dead"}

IniSilent == toCmd = <<>> /\ (ini = "dead" => "init" \in killed)

ConvReady ==
    \/ toChild = <<"CgroupApplied">> /\ IniSilent /\ ini \in {"waitCg", "dead"}
    \/ toChild = <<>> /\ IniSilent /\ ini \in SetupPoint \cup {"report", "fail", "dead"}
    \/ toChild = <<>> /\ toCmd = <<"InitReady">> /\ ready /\ ini \in {"park", "parked", "fail", "dead"}
    \/ toChild = <<>> /\ toCmd = <<"InitReady", "Failed">> /\ ready /\ ini \in {"exiting", "dead"}
    \/ toChild = <<>> /\ toCmd = <<"Failed">> /\ ini \in {"exiting", "dead"}

ConvDone ==
    /\ toChild = <<>>
    /\ ini \in {"park", "parked", "fail", "exiting", "dead"}
    /\ ini \in {"park", "parked", "fail"} => toCmd = <<>>
    /\ ready

\* All that is ever in the socket.
Packets ==
    /\ toCmd \in {<<>>, <<"RequestUserMapping">>, <<"InitPid">>, <<"Failed">>,
                  <<"InitReady">>, <<"InitReady", "Failed">>}
    /\ toChild \in {<<>>, <<"UserMappingDone">>, <<"CgroupApplied">>}

Conv ==
    /\ cmd \in BeforeFork => mid = "none" /\ toCmd = <<>> /\ toChild = <<>>
    /\ cmd = "recvFirst" => ConvFirst
    /\ cmd = "map" => ConvMap
    /\ cmd = "recvPid" => ConvPid
    /\ cmd = "reap" => ConvQuiet /\ mid \in {"exiting", "dead"}
    /\ cmd \in {"attach", "hooks", "release"} => ConvQuiet /\ mid = "reaped"
    /\ cmd = "recvReady" => ConvReady /\ mid = "reaped"
    /\ cmd \in {"save", "pidfile"} => ConvDone /\ mid = "reaped"
    /\ cmd = "ok" => ready /\ mid = "reaped"

\* In the clean-up an intermediate that is still there waits for a mapping or
\* exits, and an init waits for a release that does not come, is parked, or ends.
Quiescent ==
    cmd \in {"rmfifo", "kill", "drain"} =>
        /\ mid \in {"waitMap", "exiting", "dead", "reaped"}
        /\ mid = "waitMap" \/ ini = "waitCg" => toChild = <<>>
        /\ ini \in {"none", "waitCg", "park", "parked", "fail", "exiting", "dead"}
        /\ ini \in {"park", "parked", "fail"} => toCmd = <<>>

\* Which processes exist, and where they are.
Family ==
    /\ mid \in {"none", "join", "request", "waitMap", "becomeRoot", "fork"} => ini = "none"
    /\ "mid" \in dying => "mid" \in killed
    /\ "init" \in dying /\ cmd \in BeforeFork \cup InHandshake \cup {"rmfifo", "kill"}
         => "init" \in killed
    /\ "init" \in procs => ini # "none"
    /\ "orphan" \in procs => "cgroup" \in found

\* An init that was released is in the cgroup.
Attached ==
    /\ cmd \in {"hooks", "release", "recvReady", "save", "pidfile", "ok"} /\ IniAlive => "init" \in procs
    /\ ini \in Released => "init" \in procs
    /\ toChild = <<"CgroupApplied">> => mid = "reaped" /\ (IniAlive => "init" \in procs)

\* What is on disk at each point of the command.
OnDisk ==
    /\ cmd \in BeforeFork \ {"exists"} => "state" \notin files
    /\ cmd \in BeforeFork \ {"exists"} /\ "dir" \notin files => "fifo" \notin files
    /\ cmd = "exists" /\ "dir" \notin files => files \subseteq {"cgroup"}
    /\ cmd \in {"exists", "mkdir"} => files = found
    /\ cmd \in {"plan", "mkcgroup", "apply", "mkfifo"} => "dir" \in files
    /\ cmd \in {"apply", "mkfifo"} => "cgroup" \in files
    /\ cmd \in InHandshake \cup {"fork"} => {"dir", "fifo", "cgroup"} \subseteq files
    /\ cmd = "mkcgroup" /\ "cgroup" \in files => "cgroup" \in found
    /\ cmd = "plan" /\ "cgroup" \in files => "cgroup" \in found
    /\ cmd \in {"pidfile", "ok"} => files = Artefact
\* A failed create once its teardown has sent its SIGKILLs.
Cleaned ==
    /\ cmd \in {"drain", "rmcgroup", "rmdir"} => ("init" \in procs => "init" \in dying)
    /\ cmd = "rmdir" /\ "cgroup" \in files => "cgroup" \in found \/ "init" \in dying
    /\ cmd = "err" /\ err # "AlreadyExists" =>
         /\ files \subseteq {"cgroup"}
         /\ "init" \in procs => "init" \in dying
         /\ "cgroup" \in files => "cgroup" \in found \/ "init" \in dying

IInv ==
    /\ TypeOK /\ Packets /\ Conv /\ Quiescent /\ Family /\ Attached /\ OnDisk /\ Cleaned
    /\ NoProtocolError /\ SyncClosedMeansKilled

-----------------------------------------------------------------------------
(***************************************************************************)
(* Types.                                                                  *)
(***************************************************************************)
\* The initial states have the right types.
LEMMA InitTypeOK == Init => TypeOK
<1> SUFFICES ASSUME Init PROVE TypeOK
  OBVIOUS
<1>1. cmd \in CmdPoint /\ err \in ErrKind /\ mid \in MidPoint /\ ini \in IniPoint
  BY DEF Init, CmdPoint, BeforeFork, ErrKind, MidPoint, IniPoint
<1>2. toCmd \in Seq(Message) /\ toChild \in Seq(Message)
  BY DEF Init
<1>3. files \subseteq Artefact /\ found \subseteq Artefact /\ procs \subseteq Member
  BY DEF Init, Member
<1>4. dying = {} /\ killed = {} /\ ready \in BOOLEAN /\ userns \in BOOLEAN
  BY DEF Init
<1> QED
  BY <1>1, <1>2, <1>3, <1>4 DEF TypeOK

\* One step of any process keeps the types.
LEMMA TypeStep == TypeOK /\ [Next]_vars => TypeOK'
<1> SUFFICES ASSUME TypeOK, [Next]_vars PROVE TypeOK'
  OBVIOUS
<1> USE DEF TypeOK
<1>1. CASE CheckExists
  BY <1>1 DEF CheckExists, Goto, FailAt, childVars, CmdPoint, BeforeFork,
     InHandshake, InCleanup, Returned, ErrKind
<1>2. CASE MakeDir
  BY <1>2 DEF MakeDir, Goto, FailAt, childVars, CmdPoint, BeforeFork,
     InHandshake, InCleanup, Returned, ErrKind, Artefact
<1>3. CASE PlanBundle
  BY <1>3 DEF PlanBundle, Goto, FailAt, childVars, CmdPoint, BeforeFork,
     InHandshake, InCleanup, Returned, ErrKind
<1>4. CASE MakeCgroup
  BY <1>4 DEF MakeCgroup, Goto, FailAt, childVars, CmdPoint, BeforeFork,
     InHandshake, InCleanup, Returned, ErrKind, Artefact
<1>5. CASE ApplyResources
  BY <1>5 DEF ApplyResources, Goto, FailAt, childVars, CmdPoint, BeforeFork,
     InHandshake, InCleanup, Returned, ErrKind
<1>6. CASE MakeFifo
  BY <1>6 DEF MakeFifo, Goto, FailAt, childVars, CmdPoint, BeforeFork,
     InHandshake, InCleanup, Returned, ErrKind, Artefact
<1>7. CASE ForkMid
  BY <1>7 DEF ForkMid, Goto, FailAt, childVars, CmdPoint, BeforeFork,
     InHandshake, InCleanup, Returned, ErrKind, MidPoint
<1>8. CASE RecvFirst
  BY <1>8 DEF RecvFirst, Goto, FailAt, childVars, CmdPoint, BeforeFork,
     InHandshake, InCleanup, Returned, ErrKind, CmdRecv, CmdEof, ClosedError, MatchInitPid
<1>9. CASE WriteMapping
  <2>1. toChild' \in Seq(Message)
    <3>1. toChild' = toChild \/ toChild' = Append(toChild, "UserMappingDone")
      BY <1>9 DEF WriteMapping, CmdSend
    <3>2. toChild \in Seq(Message) /\ "UserMappingDone" \in Message
      BY DEF Message
    <3> QED
      BY <3>1, <3>2
  <2>2. cmd' \in CmdPoint /\ err' \in ErrKind
    BY <1>9 DEF WriteMapping, CmdSend, Goto, FailAt, CmdPoint, BeforeFork,
       InHandshake, InCleanup, Returned, ErrKind
  <2>3. UNCHANGED <<toCmd, files, procs, childVars>>
    BY <1>9 DEF WriteMapping
  <2> QED
    BY <2>1, <2>2, <2>3 DEF childVars
<1>10. CASE RecvPid
  BY <1>10 DEF RecvPid, Goto, FailAt, childVars, CmdPoint, BeforeFork,
     InHandshake, InCleanup, Returned, ErrKind, CmdRecv, CmdEof, ClosedError, MatchInitPid
<1>11. CASE ReapMid
  BY <1>11 DEF ReapMid, Goto, FailAt, childVars, CmdPoint, BeforeFork,
     InHandshake, InCleanup, Returned, ErrKind, MidPoint
<1>12. CASE Attach
  BY <1>12 DEF Attach, Goto, FailAt, childVars, CmdPoint, BeforeFork,
     InHandshake, InCleanup, Returned, ErrKind, Member
<1>13. CASE RunHooks
  BY <1>13 DEF RunHooks, Goto, FailAt, childVars, CmdPoint, BeforeFork,
     InHandshake, InCleanup, Returned, ErrKind
<1>14. CASE ReleaseInit
  BY <1>14 DEF ReleaseInit, Goto, FailAt, childVars, CmdPoint, BeforeFork,
     InHandshake, InCleanup, Returned, ErrKind, CmdSend, Message
<1>15. CASE RecvReady
  BY <1>15 DEF RecvReady, Goto, FailAt, childVars, CmdPoint, BeforeFork,
     InHandshake, InCleanup, Returned, ErrKind, CmdRecv, CmdEof, ClosedError
<1>16. CASE SaveState
  BY <1>16 DEF SaveState, Goto, FailAt, childVars, CmdPoint, BeforeFork,
     InHandshake, InCleanup, Returned, ErrKind, Artefact
<1>17. CASE WritePidFile
  BY <1>17 DEF WritePidFile, Goto, FailAt, childVars, CmdPoint, BeforeFork,
     InHandshake, InCleanup, Returned, ErrKind
<1>18. CASE RemoveFifo
  BY <1>18 DEF RemoveFifo, Goto, FailAt, childVars, CmdPoint, BeforeFork,
     InHandshake, InCleanup, Returned, ErrKind
<1>19. CASE TeardownKill
  BY <1>19 DEF TeardownKill, Goto, FailAt, childVars, CmdPoint, BeforeFork,
     InHandshake, InCleanup, Returned, ErrKind, Member
<1>20. CASE TeardownDrain
  BY <1>20 DEF TeardownDrain, Goto, FailAt, childVars, CmdPoint, BeforeFork,
     InHandshake, InCleanup, Returned, ErrKind, MidPoint
<1>21. CASE DestroyCgroup
  BY <1>21 DEF DestroyCgroup, Goto, FailAt, childVars, CmdPoint, BeforeFork,
     InHandshake, InCleanup, Returned, ErrKind
<1>22. CASE RemoveDir
  BY <1>22 DEF RemoveDir, Goto, FailAt, childVars, CmdPoint, BeforeFork,
     InHandshake, InCleanup, Returned, ErrKind
<1>23. CASE MidJoin
  BY <1>23 DEF MidJoin, MidGoto, cmdVars, killVars, MidPoint
<1>24. CASE MidRequest
  BY <1>24 DEF MidRequest, MidGoto, cmdVars, killVars, MidPoint, ChildSend,
     ChildEpipe, Message
<1>25. CASE MidWaitMap
  <2>1. toCmd' \in Seq(Message) /\ toChild' \in Seq(Message)
    BY <1>25 DEF MidWaitMap, ChildRecv, ChildEof, MidGoto, cmdVars, killVars
  <2>2. mid' \in MidPoint
    BY <1>25 DEF MidWaitMap, ChildRecv, ChildEof, MidGoto, cmdVars, killVars, MidPoint
  <2> QED
    BY <1>25, <2>1, <2>2 DEF MidWaitMap, ChildRecv, ChildEof, MidGoto, cmdVars, killVars
<1>26. CASE MidBecomeRoot
  BY <1>26 DEF MidBecomeRoot, MidGoto, cmdVars, killVars, MidPoint
<1>27. CASE MidFork
  BY <1>27 DEF MidFork, cmdVars, killVars, MidPoint, IniPoint
<1>28. CASE MidReport
  BY <1>28 DEF MidReport, MidGoto, cmdVars, killVars, MidPoint, ChildSend,
     ChildEpipe, Message
<1>29. CASE MidFail
  BY <1>29 DEF MidFail, MidGoto, cmdVars, killVars, MidPoint, ChildSend,
     ChildEpipe, Message
<1>30. CASE MidExit
  BY <1>30 DEF MidExit, MidGoto, cmdVars, killVars, MidPoint
<1>31. CASE IniWaitCgroup
  <2>1. toCmd' \in Seq(Message) /\ toChild' \in Seq(Message)
    BY <1>31 DEF IniWaitCgroup, ChildRecv, ChildEof, IniGoto, cmdVars, killVars
  <2>2. ini' \in IniPoint
    BY <1>31 DEF IniWaitCgroup, ChildRecv, ChildEof, IniGoto, cmdVars, killVars, IniPoint, SetupPoint
  <2> QED
    BY <1>31, <2>1, <2>2 DEF IniWaitCgroup, ChildRecv, ChildEof, IniGoto, cmdVars, killVars
<1>32. CASE IniSetup
  BY <1>32 DEF IniSetup, IniGoto, cmdVars, killVars, IniPoint, SetupPoint,
     AfterSetup
<1>33. CASE IniReport
  <2>1. toCmd' \in Seq(Message) /\ toChild' \in Seq(Message)
    BY <1>33 DEF IniReport, ChildSend, ChildEpipe, IniGoto, cmdVars, killVars, Message
  <2>2. ini' \in IniPoint
    BY <1>33 DEF IniReport, ChildSend, ChildEpipe, IniGoto, cmdVars, killVars, IniPoint
  <2> QED
    BY <1>33, <2>1, <2>2 DEF IniReport, ChildSend, ChildEpipe, IniGoto, cmdVars, killVars
<1>34. CASE IniPark
  BY <1>34 DEF IniPark, IniGoto, cmdVars, killVars, IniPoint
<1>35. CASE IniFail
  BY <1>35 DEF IniFail, IniGoto, cmdVars, killVars, IniPoint, ChildSend,
     ChildEpipe, Message
<1>36. CASE IniExit
  BY <1>36 DEF IniExit, cmdVars, killVars, IniPoint
<1>37. CASE OrphanExit
  BY <1>37 DEF OrphanExit, cmdVars, killVars
<1>38. CASE KillCreate
  BY <1>38 DEF KillCreate, CmdPoint, Processes
<1>39. CASE \E p \in {"mid", "init"} : KillChild(p)
  BY <1>39 DEF KillChild, cmdVars, Processes
<1>40. CASE UNCHANGED vars
  BY <1>40 DEF vars
<1> QED
  BY <1>1, <1>2, <1>3, <1>4, <1>5, <1>6, <1>7, <1>8, <1>9, <1>10, <1>11,
     <1>12, <1>13, <1>14, <1>15, <1>16, <1>17, <1>18, <1>19, <1>20, <1>21,
     <1>22, <1>23, <1>24, <1>25, <1>26, <1>27, <1>28, <1>29, <1>30, <1>31,
     <1>32, <1>33, <1>34, <1>35, <1>36, <1>37, <1>38, <1>39, <1>40 DEF Next,
     CmdNext, MidNext, IniNext, Done

\* TypeOK for every behaviour of create, whoever may be killed.
THEOREM TypeCorrect == Spec => []TypeOK
  BY InitTypeOK, TypeStep, PTL DEF Spec

-----------------------------------------------------------------------------
(***************************************************************************)
(* The inductive invariant.                                                *)
(***************************************************************************)
\* What the socket does to at most two packets.
LEMMA ShortQueues ==
  ASSUME NEW a, NEW b
  PROVE  /\ Append(<<>>, a) = <<a>>
         /\ Tail(<<a>>) = <<>>
         /\ Tail(<<a, b>>) = <<b>>
  OBVIOUS

\* What a create has made once it has written its state file.
LEMMA AllArtefacts ==
  ASSUME NEW F, F \subseteq Artefact, {"dir", "fifo", "cgroup"} \subseteq F
  PROVE  F \cup {"dir", "state"} = Artefact
  BY DEF Artefact

\* The one place where two packets are under way.
LEMMA AppendTwo ==
  ASSUME NEW S, NEW a \in S, NEW b \in S
  PROVE  Append(<<a>>, b) = <<a, b>>
<1>1. <<a>> \in Seq(S) /\ <<a, b>> \in Seq(S)
  OBVIOUS
<1>2. Append(<<a>>, b) \in Seq(S)
  BY <1>1
<1>3. Len(Append(<<a>>, b)) = Len(<<a, b>>)
  BY <1>1
<1>4. \A i \in 1 .. Len(Append(<<a>>, b)) : Append(<<a>>, b)[i] = <<a, b>>[i]
  BY <1>1
<1> QED
  BY <1>1, <1>2, <1>3, <1>4, SeqEqual

\* Every initial state is in the invariant.
LEMMA InitIInv == Init => IInv
<1> SUFFICES ASSUME Init PROVE IInv
  OBVIOUS
<1> USE DEF Init
<1>1. TypeOK
  BY InitTypeOK
<1>2. Packets /\ Conv /\ Quiescent
  BY DEF Packets, Conv, Quiescent, BeforeFork
<1>3. Family /\ Attached
  BY DEF Family, Attached, Released, SetupPoint, IniAlive
<1>4. OnDisk /\ Cleaned
  BY DEF OnDisk, Cleaned, BeforeFork, InHandshake, Artefact
<1>5. NoProtocolError /\ SyncClosedMeansKilled
  BY DEF NoProtocolError, SyncClosedMeansKilled
<1> QED
  BY <1>1, <1>2, <1>3, <1>4, <1>5 DEF IInv

\* Every step keeps the invariant: per step the conversation, the processes,
\* the files, and the errors.
LEMMA NextIInv == IInv /\ [Next]_vars => IInv'
<1> SUFFICES ASSUME IInv, [Next]_vars PROVE IInv'
  OBVIOUS
<1>0. TypeOK' /\ Append(<<"InitReady">>, "Failed") = <<"InitReady", "Failed">>
  <2>1. TypeOK'
    BY TypeStep DEF IInv
  <2>2. "InitReady" \in Message /\ "Failed" \in Message
    BY DEF Message
  <2> QED
    BY <2>1, <2>2, AppendTwo
<1> USE DEF IInv, TypeOK, Packets, Conv, Quiescent, Family, Attached, OnDisk,
     Cleaned, NoProtocolError, SyncClosedMeansKilled, ConvFirst, ConvMap,
     ConvPid, ConvQuiet, ConvReady, ConvDone, MidSilent, IniSilent,
     BeforeFork, InHandshake, InCleanup, Returned, CmdPoint, MidPoint,
     SetupPoint, IniPoint, Artefact, Member, Released, IniAlive, MidAlive,
     Message, childVars, cmdVars, killVars, Goto, FailAt, CmdRecv, CmdEof,
     ClosedError, CmdSend, ChildSend, ChildEpipe, ChildRecv, ChildEof, MidGoto, IniGoto,
     CmdEndOpen, ChildEndOpen
<1>1. CASE CheckExists
  BY <1>1, <1>0 DEF CheckExists
<1>2. CASE MakeDir
  BY <1>2, <1>0 DEF MakeDir
<1>3. CASE PlanBundle
  BY <1>3, <1>0 DEF PlanBundle
<1>4. CASE MakeCgroup
  BY <1>4, <1>0 DEF MakeCgroup
<1>5. CASE ApplyResources
  BY <1>5, <1>0 DEF ApplyResources
<1>6. CASE MakeFifo
  BY <1>6, <1>0 DEF MakeFifo
<1>7. CASE ForkMid
  BY <1>7, <1>0 DEF ForkMid
<1>8. CASE RecvFirst
  BY <1>8, <1>0 DEF RecvFirst, MatchInitPid
<1>9. CASE WriteMapping
  BY <1>9, <1>0 DEF WriteMapping
<1>10. CASE RecvPid
  BY <1>10, <1>0 DEF RecvPid, MatchInitPid
<1>11. CASE ReapMid
  BY <1>11, <1>0 DEF ReapMid
<1>12. CASE Attach
  BY <1>12, <1>0 DEF Attach
<1>13. CASE RunHooks
  BY <1>13, <1>0 DEF RunHooks
<1>14. CASE ReleaseInit
  BY <1>14, <1>0 DEF ReleaseInit
<1>15. CASE RecvReady
  <2>0. toCmd \in {<<>>, <<"InitReady">>, <<"InitReady", "Failed">>, <<"Failed">>}
    BY <1>15 DEF RecvReady
  <2>1. toCmd # <<>> => toCmd' \in {<<>>, <<"Failed">>}
    <3> HIDE DEF IInv
    <3>1. toCmd # <<>> => toCmd' = Tail(toCmd)
      BY <1>15 DEF RecvReady
    <3>2. toCmd # <<>> => Tail(toCmd) \in {<<>>, <<"Failed">>}
      BY <2>0, ShortQueues
    <3> QED
      BY <3>1, <3>2
  <2>2. (Packets /\ Conv /\ Quiescent)'
    BY <1>15, <2>1 DEF RecvReady
  <2>3. (Family /\ Attached)'
    BY <1>15 DEF RecvReady
  <2>4. (OnDisk /\ Cleaned)'
    BY <1>15 DEF RecvReady
  <2>5. (NoProtocolError /\ SyncClosedMeansKilled)'
    BY <1>15 DEF RecvReady
  <2> QED
    BY <1>0, <2>2, <2>3, <2>4, <2>5
<1>16. CASE SaveState
  <2>1. (Packets /\ Conv /\ Quiescent)'
    BY <1>16 DEF SaveState
  <2>2. (Family /\ Attached)'
    BY <1>16 DEF SaveState
  <2>3. (OnDisk /\ Cleaned)'
    <3>1. files \subseteq Artefact /\ {"dir", "fifo", "cgroup"} \subseteq files
      BY <1>16 DEF SaveState
    <3>2. CASE cmd' = "pidfile" /\ files' = files \cup {"dir", "state"}
      <4>1. files' = Artefact
        BY <3>1, <3>2, AllArtefacts
      <4> HIDE DEF IInv
      <4> QED
        BY <3>2, <4>1
    <3>3. CASE cmd' = "rmfifo"
      <4> HIDE DEF IInv
      <4> QED
        BY <3>3
    <3> QED
      BY <1>16, <3>2, <3>3 DEF SaveState
  <2>4. (NoProtocolError /\ SyncClosedMeansKilled)'
    BY <1>16 DEF SaveState
  <2> HIDE DEF TypeOK, Packets, Conv, Quiescent, Family, Attached, OnDisk,
           Cleaned, NoProtocolError, SyncClosedMeansKilled
  <2> QED
    BY <1>0, <2>1, <2>2, <2>3, <2>4
<1>17. CASE WritePidFile
  BY <1>17, <1>0 DEF WritePidFile
<1>18. CASE RemoveFifo
  BY <1>18, <1>0 DEF RemoveFifo
<1>19. CASE TeardownKill
  BY <1>19, <1>0 DEF TeardownKill
<1>20. CASE TeardownDrain
  BY <1>20, <1>0 DEF TeardownDrain
<1>21. CASE DestroyCgroup
  BY <1>21, <1>0 DEF DestroyCgroup
<1>22. CASE RemoveDir
  BY <1>22, <1>0 DEF RemoveDir
<1>23. CASE MidJoin
  BY <1>23, <1>0 DEF MidJoin
<1>24. CASE MidRequest
  <2>1. CmdEndOpen => toCmd = <<>>
    BY <1>24 DEF MidRequest
  <2>2. /\ \/ CmdEndOpen /\ toCmd = <<>> /\ toCmd' = <<"RequestUserMapping">> /\ mid' = "waitMap"
           \/ ~CmdEndOpen /\ toCmd' = toCmd /\ mid' = "fail"
        /\ mid = "request"
        /\ UNCHANGED <<cmd, err, ini, toChild, files, procs, dying, killed, ready, userns, found>>
    <3> HIDE DEF IInv
    <3> QED
      BY SMTT(30), <1>24, <2>1 DEF MidRequest
  <2> QED
    BY <1>0, <2>2
<1>25. CASE MidWaitMap
  BY <1>25, <1>0 DEF MidWaitMap
<1>26. CASE MidBecomeRoot
  BY <1>26, <1>0 DEF MidBecomeRoot
<1>27. CASE MidFork
  BY <1>27, <1>0 DEF MidFork
<1>28. CASE MidReport
  <2>1. CmdEndOpen => toCmd = <<>>
    BY <1>28 DEF MidReport
  <2>2. /\ \/ CmdEndOpen /\ toCmd = <<>> /\ toCmd' = <<"InitPid">> /\ mid' = "exiting"
           \/ ~CmdEndOpen /\ toCmd' = toCmd /\ mid' = "fail"
        /\ mid = "report"
        /\ UNCHANGED <<cmd, err, ini, toChild, files, procs, dying, killed, ready, userns, found>>
    <3> HIDE DEF IInv
    <3> QED
      BY SMTT(30), <1>28, <2>1 DEF MidReport
  <2> QED
    BY <1>0, <2>2
<1>29. CASE MidFail
  <2>1. CmdEndOpen => toCmd = <<>>
    BY <1>29 DEF MidFail
  <2>2. /\ \/ CmdEndOpen /\ toCmd = <<>> /\ toCmd' = <<"Failed">> /\ mid' = "exiting"
           \/ ~CmdEndOpen /\ toCmd' = toCmd /\ mid' = "exiting"
        /\ mid = "fail"
        /\ UNCHANGED <<cmd, err, ini, toChild, files, procs, dying, killed, ready, userns, found>>
    <3> HIDE DEF IInv
    <3>1. CASE CmdEndOpen
      <4>1. toCmd' = Append(toCmd, "Failed")
        BY <1>29, <3>1 DEF MidFail
      <4>2. Append(<<>>, "Failed") = <<"Failed">>
        BY ShortQueues
      <4> QED
        BY <1>29, <2>1, <3>1, <4>1, <4>2 DEF MidFail
    <3>2. CASE ~CmdEndOpen
      BY <1>29, <3>2 DEF MidFail
    <3> QED
      BY <3>1, <3>2
  <2> QED
    BY <1>0, <2>2
<1>30. CASE MidExit
  BY <1>30, <1>0 DEF MidExit
<1>31. CASE IniWaitCgroup
  BY <1>31, <1>0 DEF IniWaitCgroup
<1>32. CASE IniSetup
  BY <1>32, <1>0 DEF IniSetup, AfterSetup
<1>33. CASE IniReport
  <2>1. CmdEndOpen => toCmd = <<>>
    BY <1>33 DEF IniReport
  <2>2. /\ \/ CmdEndOpen /\ toCmd = <<>> /\ toCmd' = <<"InitReady">> /\ ini' = "park" /\ ready' = TRUE
           \/ ~CmdEndOpen /\ toCmd' = toCmd /\ ini' = "fail" /\ ready' = ready
        /\ ini = "report"
        /\ UNCHANGED <<cmd, err, mid, toChild, files, procs, dying, killed, userns, found>>
    <3> HIDE DEF IInv
    <3>1. CASE CmdEndOpen
      <4>1. toCmd' = Append(toCmd, "InitReady")
        BY <1>33, <3>1 DEF IniReport
      <4>2. Append(<<>>, "InitReady") = <<"InitReady">>
        BY ShortQueues
      <4> QED
        BY <1>33, <2>1, <3>1, <4>1, <4>2 DEF IniReport
    <3>2. CASE ~CmdEndOpen
      BY <1>33, <3>2 DEF IniReport
    <3> QED
      BY <3>1, <3>2
  <2> QED
    BY <1>0, <2>2
<1>34. CASE IniPark
  BY <1>34, <1>0 DEF IniPark
<1>35. CASE IniFail
  <2>1. CmdEndOpen => toCmd \in {<<>>, <<"InitReady">>}
    BY <1>35 DEF IniFail
  <2>2. /\ \/ CmdEndOpen /\ toCmd = <<>> /\ toCmd' = <<"Failed">>
           \/ CmdEndOpen /\ toCmd = <<"InitReady">> /\ toCmd' = <<"InitReady", "Failed">>
           \/ ~CmdEndOpen /\ toCmd' = toCmd
        /\ ini = "fail" /\ ini' = "exiting"
        /\ UNCHANGED <<cmd, err, mid, toChild, files, procs, dying, killed, ready, userns, found>>
    <3> HIDE DEF IInv
    <3>1. CASE CmdEndOpen
      <4>1. toCmd' = Append(toCmd, "Failed")
        BY <1>35, <3>1 DEF IniFail
      <4>2. Append(<<>>, "Failed") = <<"Failed">>
        BY ShortQueues
      <4> QED
        BY <1>0, <1>35, <2>1, <3>1, <4>1, <4>2 DEF IniFail
    <3>2. CASE ~CmdEndOpen
      BY <1>35, <3>2 DEF IniFail
    <3> QED
      BY <3>1, <3>2
  <2> QED
    BY <1>0, <2>2
<1>36. CASE IniExit
  BY <1>36, <1>0 DEF IniExit
<1>37. CASE OrphanExit
  BY <1>37, <1>0 DEF OrphanExit
<1>38. CASE KillCreate
  BY <1>38, <1>0 DEF KillCreate
<1>39. CASE \E p \in {"mid", "init"} : KillChild(p)
  BY <1>39, <1>0 DEF KillChild
<1>40. CASE UNCHANGED vars
  BY <1>40, <1>0 DEF vars
<1> QED
  BY <1>1, <1>2, <1>3, <1>4, <1>5, <1>6, <1>7, <1>8, <1>9, <1>10, <1>11,
     <1>12, <1>13, <1>14, <1>15, <1>16, <1>17, <1>18, <1>19, <1>20, <1>21,
     <1>22, <1>23, <1>24, <1>25, <1>26, <1>27, <1>28, <1>29, <1>30, <1>31,
     <1>32, <1>33, <1>34, <1>35, <1>36, <1>37, <1>38, <1>39, <1>40 DEF Next,
     CmdNext, MidNext, IniNext, Done

\* The inductive invariant holds throughout.
LEMMA Invariance == Spec => []IInv
  BY InitIInv, NextIInv, PTL DEF Spec

-----------------------------------------------------------------------------
(***************************************************************************)
(* The properties.                                                         *)
(***************************************************************************)
\* SetupInsideCgroup for every behaviour: handshake attaches before it releases.
THEOREM CgroupFirst == Spec => []SetupInsideCgroup
<1>1. IInv => SetupInsideCgroup
  BY DEF IInv, Attached, Released, SetupInsideCgroup
<1> QED
  BY Invariance, <1>1, PTL

\* OkMeansReady for every behaviour: create succeeds only with a finished init.
THEOREM SuccessIsReady == Spec => []OkMeansReady
<1>1. IInv => OkMeansReady
  BY DEF IInv, Conv, OnDisk, OkMeansReady
<1> QED
  BY Invariance, <1>1, PTL

\* NoProtocolError for every behaviour: the mismatch arms are dead code.
THEOREM ProtocolAgrees == Spec => []NoProtocolError
<1>1. IInv => NoProtocolError
  BY DEF IInv
<1> QED
  BY Invariance, <1>1, PTL

\* SyncClosedMeansKilled for every behaviour.
THEOREM FailureIsExplained == Spec => []SyncClosedMeansKilled
<1>1. IInv => SyncClosedMeansKilled
  BY DEF IInv
<1> QED
  BY Invariance, <1>1, PTL

\* FailedCreateLeavesNothing for every behaviour.
THEOREM FailureIsClean == Spec => []FailedCreateLeavesNothing
<1>1. IInv => FailedCreateLeavesNothing
  BY DEF IInv, Cleaned, Attached, Released, FailedCreateLeavesNothing
<1> QED
  BY Invariance, <1>1, PTL

=============================================================================
