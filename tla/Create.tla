------------------------------- MODULE Create -------------------------------
(***************************************************************************)
(* `mars create`: three processes and the socket between them.             *)
(*                                                                         *)
(*   the command       container/mod.rs: create, build, spawn, handshake   *)
(*   the intermediate  container/init.rs: intermediate, stage_one          *)
(*   the init          container/init.rs: container_init                   *)
(*                                                                         *)
(* The intermediate and the init share one end of a SOCK_SEQPACKET pair,   *)
(* so the command reads end-of-file only when BOTH have closed it.  Every  *)
(* system call that can fail does so nondeterministically, the kernel may  *)
(* SIGKILL any process of Victims at any time, and a SIGKILLed process     *)
(* dies some time later, not at once.                                      *)
(***************************************************************************)
EXTENDS Sequences

CONSTANT Victims   \* the processes that may be SIGKILLed from outside

Processes == {"create", "mid", "init"}

ASSUME VictimsAssumption == Victims \subseteq Processes

VARIABLES
    cmd,        \* control point of the command
    err,        \* the kind of Error the command is returning, or "none"
    mid,        \* control point of the intermediate
    ini,        \* control point of the init
    toCmd,      \* packets on their way to the command
    toChild,    \* packets on their way to the intermediate or the init
    files,      \* what exists on disk: "dir", "fifo", "state", "cgroup"
    procs,      \* cgroup.procs of the container's cgroup
    dying,      \* processes with a pending SIGKILL
    killed,     \* processes the environment has SIGKILLed (history)
    ready,      \* the init has sent InitReady (history)
    userns,     \* the bundle asks for a new user namespace (configuration)
    found       \* what was on disk before the command ran (configuration)

vars == <<cmd, err, mid, ini, toCmd, toChild, files, procs, dying, killed,
          ready, userns, found>>

(***************************************************************************)
(* Messages (sync.rs: Message) and control points.                         *)
(***************************************************************************)
Message == {"RequestUserMapping", "UserMappingDone", "InitPid",
            "CgroupApplied", "InitReady", "Failed"}

\* build and spawn, up to the fork
BeforeFork == {"exists", "mkdir", "plan", "mkcgroup", "apply", "mkfifo", "fork"}
\* handshake
InHandshake == {"recvFirst", "map", "recvPid", "reap", "attach", "hooks",
                "release", "recvReady", "save", "pidfile"}
\* the clean-up that a failed step leads to, innermost function first
InCleanup == {"rmfifo", "kill", "drain", "rmcgroup", "rmdir"}
Returned == {"ok", "err"}
CmdPoint == BeforeFork \cup InHandshake \cup InCleanup \cup Returned \cup {"killed"}

MidPoint == {"none", "join", "request", "waitMap", "becomeRoot", "fork",
             "report", "fail", "exiting", "dead", "reaped"}

\* container_init between CgroupApplied and InitReady, in the order of the code
SetupPoint == {"unshareCgroup", "rootfs", "createContainer", "pivot",
               "identity", "harden", "resolve", "limits", "security"}
IniPoint == {"none", "waitCg"} \cup SetupPoint
            \cup {"report", "park", "parked", "fail", "exiting", "dead"}

ErrKind == {"none", "AlreadyExists", "Io", "InitFailed", "Sync", "SyncClosed"}

\* What a container has on disk: its state directory, the fifo and state.json in
\* it, and its cgroup.
Artefact == {"dir", "fifo", "state", "cgroup"}

\* An init left behind by an earlier create that was SIGKILLed, still in the
\* cgroup of the same name.
Member == {"init", "orphan"}

MidAlive == mid \notin {"none", "dead", "reaped"}
IniAlive == ini \notin {"none", "dead"}

\* Variants with a leaked descriptor: the intermediate without its drop(parent),
\* the command without its drop(child).
CmdEndLeaked   == cmd \in InHandshake \cup {"rmfifo", "kill", "drain"} \/ MidAlive \/ IniAlive
ChildEndLeaked == MidAlive \/ IniAlive \/ cmd \in InHandshake

\* Who still holds an end of the socket pair.
CmdEndOpen   == cmd \in InHandshake \cup {"rmfifo", "kill", "drain"}
ChildEndOpen == MidAlive \/ IniAlive

-----------------------------------------------------------------------------
(***************************************************************************)
(* Init: a fresh id, the remains of an earlier create that was killed or   *)
(* gave up half-way, or a container of this id that exists already.        *)
(***************************************************************************)
Init ==
    /\ cmd = "exists"
    /\ err = "none"
    /\ mid = "none"
    /\ ini = "none"
    /\ toCmd = <<>>
    /\ toChild = <<>>
    /\ files \in SUBSET Artefact
    /\ files \cap {"fifo", "state"} # {} => "dir" \in files
    /\ procs \in SUBSET {"orphan"}
    /\ procs # {} => "cgroup" \in files
    /\ dying = {}
    /\ killed = {}
    /\ ready = FALSE
    /\ userns \in BOOLEAN
    /\ found = files

-----------------------------------------------------------------------------
(***************************************************************************)
(* The command.                                                            *)
(***************************************************************************)
childVars == <<mid, ini, dying, killed, ready, userns, found>>

Goto(point) == cmd' = point /\ err' = err
FailAt(point, kind) == cmd' = point /\ err' = kind

\* create: refuse an id that has a state.json.
CheckExists ==
    /\ cmd = "exists"
    /\ IF "state" \in files THEN FailAt("err", "AlreadyExists") ELSE Goto("mkdir")
    /\ UNCHANGED <<toCmd, toChild, files, procs, childVars>>

\* create_dir_all is content with a directory that is there already.
MakeDir ==
    /\ cmd = "mkdir"
    /\ \/ Goto("plan") /\ files' = files \cup {"dir"}
       \/ "dir" \notin files /\ FailAt("err", "Io") /\ UNCHANGED files
    /\ UNCHANGED <<toCmd, toChild, procs, childVars>>

\* build: console, namespaces, overlay and rootfs checks; an error only has
\* the state directory to undo.
PlanBundle ==
    /\ cmd = "plan"
    /\ Goto("mkcgroup") \/ FailAt("rmdir", "Io")
    /\ UNCHANGED <<toCmd, toChild, files, procs, childVars>>

\* Cgroup::create takes over a directory that is already there.
MakeCgroup ==
    /\ cmd = "mkcgroup"
    /\ \/ Goto("apply") /\ files' = files \cup {"cgroup"}
       \/ FailAt("rmdir", "Io") /\ UNCHANGED files
    /\ UNCHANGED <<toCmd, toChild, procs, childVars>>

ApplyResources ==
    /\ cmd = "apply"
    /\ Goto("mkfifo") \/ FailAt("rmcgroup", "Io")
    /\ UNCHANGED <<toCmd, toChild, files, procs, childVars>>

\* fifo::create removes a stale fifo first.
MakeFifo ==
    /\ cmd = "mkfifo"
    /\ \/ Goto("fork") /\ files' = files \cup {"fifo"}
       \/ FailAt("rmcgroup", "Io") /\ files' = files \ {"fifo"}
    /\ UNCHANGED <<toCmd, toChild, procs, childVars>>

\* spawn: console socket, subreaper, signal mask, socket pair, fork.
ForkMid ==
    /\ cmd = "fork"
    /\ \/ Goto("recvFirst") /\ mid' = "join"
       \/ FailAt("rmcgroup", "Io") /\ UNCHANGED mid
    /\ UNCHANGED <<ini, toCmd, toChild, files, procs, dying, killed, ready, userns, found>>

\* Channel::recv by the command: a packet, or end-of-file.
CmdRecv(m) == toCmd # <<>> /\ Head(toCmd) = m /\ toCmd' = Tail(toCmd)
CmdEof == toCmd = <<>> /\ ~ChildEndOpen /\ UNCHANGED toCmd
\* A peer that dies with unread packets resets the connection instead.
ClosedError == IF toChild = <<>> THEN "SyncClosed" ELSE "Io"
\* Channel::send by the command; EPIPE when nobody holds the other end.
CmdSend(m, next) ==
    IF ChildEndOpen THEN Goto(next) /\ toChild' = Append(toChild, m)
                    ELSE FailAt("rmfifo", "Io") /\ UNCHANGED toChild

\* The match on the message that should be InitPid.
MatchInitPid ==
    \/ CmdRecv("InitPid") /\ Goto("reap")
    \/ CmdRecv("Failed") /\ FailAt("rmfifo", "InitFailed")
    \/ CmdEof /\ FailAt("rmfifo", ClosedError)
    \/ \E m \in Message \ {"InitPid", "Failed"} :
         CmdRecv(m) /\ FailAt("rmfifo", "Sync")

\* Variant: the mapping request is not served.
RecvFirstUnserved ==
    /\ cmd = "recvFirst"
    /\ MatchInitPid
    /\ UNCHANGED <<toChild, files, procs, childVars>>

\* The first receive of handshake: only here is a mapping request served.
RecvFirst ==
    /\ cmd = "recvFirst"
    /\ IF toCmd # <<>> /\ Head(toCmd) = "RequestUserMapping"
         THEN Goto("map") /\ toCmd' = Tail(toCmd)
         ELSE MatchInitPid
    /\ UNCHANGED <<toChild, files, procs, childVars>>

\* userns::write, then UserMappingDone.
WriteMapping ==
    /\ cmd = "map"
    /\ \/ CmdSend("UserMappingDone", "recvPid")
       \/ FailAt("rmfifo", "Io") /\ UNCHANGED toChild
    /\ UNCHANGED <<toCmd, files, procs, childVars>>

RecvPid ==
    /\ cmd = "recvPid"
    /\ MatchInitPid
    /\ UNCHANGED <<toChild, files, procs, childVars>>

\* Variant: the init is released before it is put into the cgroup.
ReapMidReleasing ==
    /\ cmd = "reap"
    /\ mid = "dead"
    /\ mid' = "reaped"
    /\ toChild' = Append(toChild, "CgroupApplied")
    /\ Goto("attach")
    /\ UNCHANGED <<ini, toCmd, files, procs, dying, killed, ready, userns, found>>

\* waitpid(intermediate) blocks until it has exited.
ReapMid ==
    /\ cmd = "reap"
    /\ mid = "dead"
    /\ mid' = "reaped"
    /\ Goto("attach")
    /\ UNCHANGED <<ini, toCmd, toChild, files, procs, dying, killed, ready, userns, found>>

\* cgroup.add_process(init).  A zombie is not moved, whatever the write says.
Attach ==
    /\ cmd = "attach"
    /\ \/ Goto("hooks") /\ procs' = procs \cup (IF IniAlive THEN {"init"} ELSE {})
       \/ FailAt("rmfifo", "Io") /\ UNCHANGED procs
    /\ UNCHANGED <<toCmd, toChild, files, childVars>>

\* The prestart and createRuntime hooks; both phases are fatal.  A hook without
\* a timeout is waited for as long as it takes: Fairness leaves this step out.
RunHooks ==
    /\ cmd = "hooks"
    /\ Goto("release") \/ FailAt("rmfifo", "Io")
    /\ UNCHANGED <<toCmd, toChild, files, procs, childVars>>

\* Variant: the state is saved without waiting for InitReady.
ReleaseInitUnawaited ==
    /\ cmd = "release"
    /\ CmdSend("CgroupApplied", "save")
    /\ UNCHANGED <<toCmd, files, procs, childVars>>

ReleaseInit ==
    /\ cmd = "release"
    /\ CmdSend("CgroupApplied", "recvReady")
    /\ UNCHANGED <<toCmd, files, procs, childVars>>

RecvReady ==
    /\ cmd = "recvReady"
    /\ \/ CmdRecv("InitReady") /\ Goto("save")
       \/ CmdRecv("Failed") /\ FailAt("rmfifo", "InitFailed")
       \/ CmdEof /\ FailAt("rmfifo", ClosedError)
       \/ \E m \in Message \ {"InitReady", "Failed"} :
            CmdRecv(m) /\ FailAt("rmfifo", "Sync")
    /\ UNCHANGED <<toChild, files, procs, childVars>>

\* start_time and Container::save (write a staged file, rename it into place).
SaveState ==
    /\ cmd = "save"
    /\ \/ Goto("pidfile") /\ files' = files \cup {"dir", "state"}
       \/ FailAt("rmfifo", "Io") /\ UNCHANGED files
    /\ UNCHANGED <<toCmd, toChild, procs, childVars>>

WritePidFile ==
    /\ cmd = "pidfile"
    /\ Goto("ok") \/ FailAt("rmfifo", "Io")
    /\ UNCHANGED <<toCmd, toChild, files, procs, childVars>>

-----------------------------------------------------------------------------
(***************************************************************************)
(* The clean-up of a failed create.                                        *)
(***************************************************************************)
RemoveFifo ==
    /\ cmd = "rmfifo"
    /\ files' = files \ {"fifo"}
    /\ Goto("kill")
    /\ UNCHANGED <<toCmd, toChild, procs, childVars>>

\* Variant: a failed create does not kill what is in the cgroup.
TeardownKillNothing ==
    /\ cmd = "kill"
    /\ Goto("drain")
    /\ UNCHANGED <<toCmd, toChild, files, procs, childVars>>

\* teardown: SIGKILL what cgroup.procs lists now.
TeardownKill ==
    /\ cmd = "kill"
    /\ dying' = dying \cup procs
    /\ Goto("drain")
    /\ UNCHANGED <<mid, ini, toCmd, toChild, files, procs, killed, ready, userns, found>>

\* teardown: reap until cgroup.procs is empty, for at most 250 rounds; how far
\* the dying get in that time is up to the kernel.  Returning from spawn then
\* drops the command's end of the socket.
TeardownDrain ==
    /\ cmd = "drain"
    /\ mid' = IF mid = "dead" THEN "reaped" ELSE mid
    /\ Goto("rmcgroup")
    /\ UNCHANGED <<ini, toCmd, toChild, files, procs, dying, killed, ready, userns, found>>

\* Cgroup::destroy: EBUSY while a process is in it, given up after 50 attempts.
DestroyCgroup ==
    /\ cmd = "rmcgroup"
    /\ files' = IF procs = {} THEN files \ {"cgroup"} ELSE files
    /\ Goto("rmdir")
    /\ UNCHANGED <<toCmd, toChild, procs, childVars>>

RemoveDir ==
    /\ cmd = "rmdir"
    /\ files' = files \ {"dir", "fifo", "state"}
    /\ Goto("err")
    /\ UNCHANGED <<toCmd, toChild, procs, childVars>>

-----------------------------------------------------------------------------
(***************************************************************************)
(* The intermediate: stage_one, and the Failed message that intermediate   *)
(* sends for any error of it.                                              *)
(***************************************************************************)
cmdVars == <<cmd, err, files, userns, found>>
killVars == <<dying, killed>>

\* Channel::send and Channel::recv on the children's end.
ChildSend(m) == CmdEndOpen /\ toCmd' = Append(toCmd, m)
ChildEpipe == ~CmdEndOpen /\ UNCHANGED toCmd
ChildRecv(m) == toChild # <<>> /\ Head(toChild) = m /\ toChild' = Tail(toChild)
ChildEof == toChild = <<>> /\ ~CmdEndOpen /\ UNCHANGED toChild

MidGoto(point) == mid' = point /\ UNCHANGED <<ini, procs, ready, cmdVars, killVars>>

\* join_existing, the unshare loop and write_time_offsets.
MidJoin ==
    /\ mid = "join"
    /\ MidGoto(IF userns THEN "request" ELSE "fork") \/ MidGoto("fail")
    /\ UNCHANGED <<toCmd, toChild>>

\* Variant: the intermediate speaks an older protocol.
MidRequestStart ==
    /\ mid = "request"
    /\ \/ ChildSend("Start") /\ MidGoto("waitMap")
       \/ ChildEpipe /\ MidGoto("fail")
    /\ UNCHANGED toChild

MidRequest ==
    /\ mid = "request"
    /\ \/ ChildSend("RequestUserMapping") /\ MidGoto("waitMap")
       \/ ChildEpipe /\ MidGoto("fail")
    /\ UNCHANGED toChild

MidWaitMap ==
    /\ mid = "waitMap"
    /\ \/ ChildRecv("UserMappingDone") /\ MidGoto("becomeRoot")
       \/ ChildEof /\ MidGoto("fail")
       \/ \E m \in Message \ {"UserMappingDone"} : ChildRecv(m) /\ MidGoto("fail")
    /\ UNCHANGED toCmd

MidBecomeRoot ==
    /\ mid = "becomeRoot"
    /\ MidGoto("fork") \/ MidGoto("fail")
    /\ UNCHANGED <<toCmd, toChild>>

\* The init starts out waiting for CgroupApplied on the inherited socket.
MidFork ==
    /\ mid = "fork"
    /\ \/ mid' = "report" /\ ini' = "waitCg"
       \/ mid' = "fail" /\ UNCHANGED ini
    /\ UNCHANGED <<toCmd, toChild, procs, ready, cmdVars, killVars>>

MidReport ==
    /\ mid = "report"
    /\ \/ ChildSend("InitPid") /\ MidGoto("exiting")
       \/ ChildEpipe /\ MidGoto("fail")
    /\ UNCHANGED toChild

MidFail ==
    /\ mid = "fail"
    /\ ChildSend("Failed") \/ ChildEpipe
    /\ MidGoto("exiting")
    /\ UNCHANGED toChild

MidExit ==
    /\ MidAlive
    /\ mid = "exiting" \/ "mid" \in dying
    /\ MidGoto("dead")
    /\ UNCHANGED <<toCmd, toChild>>

-----------------------------------------------------------------------------
(***************************************************************************)
(* The init: container_init up to the exec fifo, and the Failed message    *)
(* that stage_one sends for any error of it.                               *)
(***************************************************************************)
IniGoto(point) == ini' = point /\ UNCHANGED <<mid, procs, ready, cmdVars, killVars>>

IniWaitCgroup ==
    /\ ini = "waitCg"
    /\ \/ ChildRecv("CgroupApplied") /\ IniGoto("unshareCgroup")
       \/ ChildEof /\ IniGoto("fail")
       \/ \E m \in Message \ {"CgroupApplied"} : ChildRecv(m) /\ IniGoto("fail")
    /\ UNCHANGED toCmd

\* What follows each point of the set-up.
AfterSetup ==
    [unshareCgroup |-> "rootfs", rootfs |-> "createContainer",
     createContainer |-> "pivot", pivot |-> "identity", identity |-> "harden",
     harden |-> "resolve", resolve |-> "limits", limits |-> "security",
     security |-> "report"]

\* One step of the set-up; any of them can fail, the createContainer hooks too,
\* and those may also take for ever (see Fairness).
IniSetup ==
    /\ ini \in SetupPoint
    /\ IniGoto(AfterSetup[ini]) \/ IniGoto("fail")
    /\ UNCHANGED <<toCmd, toChild>>

\* Variant: the init ignores that nobody hears its InitReady.
IniReportDeaf ==
    /\ ini = "report"
    /\ \/ /\ ChildSend("InitReady")
          /\ ini' = "park"
          /\ ready' = TRUE
          /\ UNCHANGED <<mid, procs, cmdVars, killVars>>
       \/ ChildEpipe /\ IniGoto("park")
    /\ UNCHANGED toChild

IniReport ==
    /\ ini = "report"
    /\ \/ /\ ChildSend("InitReady")
          /\ ini' = "park"
          /\ ready' = TRUE
          /\ UNCHANGED <<mid, procs, cmdVars, killVars>>
       \/ ChildEpipe /\ IniGoto("fail")
    /\ UNCHANGED toChild

\* fifo::park: blocked opening the fifo, or failing to reopen it at all.
IniPark ==
    /\ ini = "park"
    /\ IniGoto("parked") \/ IniGoto("fail")
    /\ UNCHANGED <<toCmd, toChild>>

\* Variant: the init exits without saying why.
IniFailSilently ==
    /\ ini = "fail"
    /\ IniGoto("exiting")
    /\ UNCHANGED <<toCmd, toChild>>

IniFail ==
    /\ ini = "fail"
    /\ ChildSend("Failed") \/ ChildEpipe
    /\ IniGoto("exiting")
    /\ UNCHANGED toChild

IniExit ==
    /\ IniAlive
    /\ ini = "exiting" \/ "init" \in dying
    /\ ini' = "dead"
    /\ procs' = procs \ {"init"}
    /\ UNCHANGED <<mid, toCmd, toChild, ready, cmdVars, killVars>>

-----------------------------------------------------------------------------
(***************************************************************************)
(* The environment.                                                        *)
(***************************************************************************)
OrphanExit ==
    /\ "orphan" \in procs \cap dying
    /\ procs' = procs \ {"orphan"}
    /\ UNCHANGED <<mid, ini, toCmd, toChild, ready, cmdVars, killVars>>

KillChild(p) ==
    /\ p \in Victims \ killed
    /\ (p = "mid" /\ MidAlive) \/ (p = "init" /\ IniAlive)
    /\ dying' = dying \cup {p}
    /\ killed' = killed \cup {p}
    /\ UNCHANGED <<mid, ini, toCmd, toChild, procs, ready, cmdVars>>

\* The command is gone at once, and its end of the socket with it.
KillCreate ==
    /\ "create" \in Victims
    /\ cmd \notin Returned \cup {"killed"}
    /\ cmd' = "killed"
    /\ killed' = killed \cup {"create"}
    /\ UNCHANGED <<err, mid, ini, toCmd, toChild, files, procs, dying, ready, userns, found>>

CmdNext ==
    \/ CheckExists \/ MakeDir \/ PlanBundle \/ MakeCgroup \/ ApplyResources
    \/ MakeFifo \/ ForkMid \/ RecvFirst \/ WriteMapping \/ RecvPid \/ ReapMid
    \/ Attach \/ RunHooks \/ ReleaseInit \/ RecvReady \/ SaveState \/ WritePidFile
    \/ RemoveFifo \/ TeardownKill \/ TeardownDrain \/ DestroyCgroup \/ RemoveDir

MidNext ==
    \/ MidJoin \/ MidRequest \/ MidWaitMap \/ MidBecomeRoot \/ MidFork
    \/ MidReport \/ MidFail \/ MidExit

IniNext ==
    \/ IniWaitCgroup \/ IniSetup \/ IniReport \/ IniPark \/ IniFail \/ IniExit

\* Every process has returned, is parked or is gone.
Done ==
    /\ cmd \in Returned \cup {"killed"}
    /\ ~MidAlive
    /\ ini \in {"none", "parked", "dead"}
    /\ UNCHANGED vars

Next ==
    \/ CmdNext \/ MidNext \/ IniNext
    \/ OrphanExit \/ KillCreate \/ \E p \in {"mid", "init"} : KillChild(p)
    \/ Done

\* The kernel schedules every process and delivers every SIGKILL.  Nothing
\* makes the environment kill anything, and nothing makes a hook end.
Fairness ==
    /\ WF_vars(cmd # "hooks" /\ CmdNext)
    /\ WF_vars(MidNext)
    /\ WF_vars(ini # "createContainer" /\ IniNext) /\ WF_vars(IniExit)
    /\ WF_vars(OrphanExit)

Spec == Init /\ [][Next]_vars
FairSpec == Spec /\ Fairness

-----------------------------------------------------------------------------
(***************************************************************************)
(* Properties.                                                             *)
(***************************************************************************)

\* Types of the variables.
TypeOK ==
    /\ cmd \in CmdPoint
    /\ err \in ErrKind
    /\ mid \in MidPoint
    /\ ini \in IniPoint
    /\ toCmd \in Seq(Message)
    /\ toChild \in Seq(Message)
    /\ files \subseteq Artefact
    /\ procs \subseteq Member
    /\ dying \subseteq Processes \cup Member
    /\ killed \subseteq Processes
    /\ ready \in BOOLEAN
    /\ userns \in BOOLEAN
    /\ found \subseteq Artefact

\* The init does none of its set-up - above all it does not unshare the cgroup
\* namespace, whose root is the cgroup of the moment, and does not run the
\* createContainer hooks - before handshake has put it into its cgroup.
SetupInsideCgroup ==
    ini \in SetupPoint \cup {"report", "park", "parked"} => "init" \in procs

\* `mars create` returns success only for an init that has finished its whole
\* set-up, and then everything the later commands need is on disk.
OkMeansReady ==
    cmd = "ok" => ready /\ files = Artefact

\* The "other => Error::Sync" arms are dead code: over all interleavings and
\* failures no process ever reads a message it does not expect.
NoProtocolError == err # "Sync"

\* A container failure is reported with its reason.  The reasonless SyncClosed
\* only ever means that somebody SIGKILLed a process of the container.
SyncClosedMeansKilled == err = "SyncClosed" => killed \cap {"mid", "init"} # {}

\* When `create` returns an error it leaves nothing behind: no state directory,
\* and a cgroup only while processes sit in it that are being killed, or that
\* an earlier, killed create left there.  An init that is still there has not
\* been released and never will be.
FailedCreateLeavesNothing ==
    cmd = "err" /\ err # "AlreadyExists" =>
        /\ files \subseteq {"cgroup"}
        /\ "init" \in procs => "init" \in dying
        /\ ini \in SetupPoint \cup {"report", "park", "parked"} => "init" \in dying
        /\ "cgroup" \in files => "cgroup" \in found \/ "init" \in dying

\* No hook of the container runs for ever, in the runtime or in the init: what
\* docs/04 makes the bundle's business (give a hook that can hang a timeout).
HooksReturn == []<>(cmd # "hooks") /\ []<>(ini # "createContainer")

\* Unless a hook hangs, `create` returns, one way or the other, whichever process
\* is SIGKILLed at whichever point - except for the intermediate once it has
\* forked the init.
CreateReturns ==
    HooksReturn =>
        <>(cmd \in Returned \cup {"killed"} \/ ("mid" \in killed /\ ini # "none"))

\* Unless a hook hangs, `create` always returns: what cannot work fails.
CreateAlwaysReturns == HooksReturn => <>(cmd \in Returned \cup {"killed"})

\* Once `create` has failed, its intermediate and its init go away by themselves,
\* out of a hook that hangs as well.
FailureEndsChildren == cmd = "err" ~> (~MidAlive /\ ~IniAlive)

\* When `create` itself is SIGKILLed its children notice, and none of them gets
\* past the handshake: an init survives only if it had reported InitReady, or if
\* it is in a createContainer hook that hangs.
OrphanOnlyIfReady ==
    HooksReturn => (cmd = "killed" ~> (~MidAlive /\ (~IniAlive \/ ready)))

=============================================================================
