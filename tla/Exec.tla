-------------------------------- MODULE Exec --------------------------------
(***************************************************************************)
(* `mars exec`: a further process in a container that may end, be paused   *)
(* or be deleted meanwhile.                                                *)
(*                                                                         *)
(*   the command    container/exec.rs: exec, collect, place;               *)
(*                  container/signal.rs: block_forwardable, supervise      *)
(*   its child      container/exec.rs: the child of exec, enter            *)
(*                                                                         *)
(* The command knows the container by the pid of its init, which it looks  *)
(* at again and again: for the status, and once for each namespace.  An    *)
(* init that is gone has no namespaces, a zombie still has two, and a pid  *)
(* that has been recycled has those of a stranger.                         *)
(***************************************************************************)
EXTENDS Sequences, Naturals

CONSTANT Layouts    \* the sets of namespaces a container may have of its own

\* The order in which the namespaces are collected and joined.
JOIN_ORDER == <<"user", "ipc", "uts", "net", "pid", "cgroup", "mnt">>
Namespace == {JOIN_ORDER[i] : i \in 1 .. 7}

ASSUME ExecAssumption == Layouts \subseteq SUBSET Namespace

VARIABLES
    cmd,        \* control point of the command
    next,       \* index in JOIN_ORDER of the next namespace to collect
    joins,      \* whose namespace the command has a handle on
    child,      \* control point of the child
    packet,     \* CgroupApplied is in the socket, or has been read
    placed,     \* the child has been written to cgroup.procs
    pidFile,    \* the pid file
    blocked,    \* the command has blocked the forwarded signals and SIGCHLD
    pending,    \* signals pending at the command
    init,       \* the process with the init's pid
    cgroup,     \* the container's cgroup exists
    frozen,     \* and is frozen
    intact,     \* the init was alive when the last namespace was collected (history)
    own         \* the container's own namespaces (configuration)

clientVars == <<cmd, next, joins, pidFile, blocked, intact>>
childVars == <<child, packet, placed>>
containerVars == <<init, cgroup, frozen>>
vars == <<clientVars, childVars, pending, containerVars, own>>

Returned == {"ok", "code", "err"}
CmdPoint == {"load", "alive", "paused", "resolve", "collect", "procs", "pidFile", "setns", "block",
             "fork", "place", "send", "writePid", "supervise", "reap", "killed"} \cup Returned
ChildPoint == {"none", "waiting", "entering", "program", "dying", "zombie", "reaped"}

CmdGone == cmd \in Returned \cup {"killed"}
ChildAlive == child \in {"waiting", "entering", "program", "dying"}
InsidePid == joins["pid"] = "container"

Init ==
    /\ cmd = "load"
    /\ next = 1
    /\ joins = [n \in Namespace |-> "none"]
    /\ child = "none" /\ packet = FALSE /\ placed = FALSE
    /\ pidFile = "none"
    /\ blocked = FALSE /\ pending = {}
    /\ init = "running" /\ cgroup = TRUE
    /\ frozen \in BOOLEAN
    /\ intact = FALSE
    /\ own \in Layouts

-----------------------------------------------------------------------------
(***************************************************************************)
(* The command, up to the fork.                                            *)
(***************************************************************************)
\* A step that leads on to the next point or to an error.
Step(from, to) ==
    /\ cmd = from
    /\ cmd' \in {to, "err"}
    /\ UNCHANGED <<next, joins, pidFile, blocked, intact, childVars, pending, containerVars, own>>

Check(from, condition, to) ==
    /\ cmd = from
    /\ cmd' = IF condition THEN to ELSE "err"
    /\ UNCHANGED <<next, joins, pidFile, blocked, intact, childVars, pending, containerVars, own>>

\* Container::load, which fails once delete has removed the directory.
Load == Step("load", "alive")

\* status, first read: a zombie is alive.
CheckAlive == Check("alive", init \in {"running", "ending", "zombie"}, "paused")

\* status, second read; a paused container will do with ignore_paused.  The third
\* read tells created from running: both will do.
CheckPaused ==
    \/ Check("paused", ~(cgroup /\ frozen), "resolve")
    \/ Check("paused", TRUE, "resolve")

\* resolve_target, the console and the count of threads.
Resolve == Step("resolve", "collect")

\* A namespace that can be seen below /proc/<pid>/ns.
Visible(n) ==
    \/ init \in {"running", "stranger"}
    \/ init \in {"ending", "zombie"} /\ n \in {"user", "pid"}

\* The same namespace as the command's own; a stranger may live in any.
MaySkip(n) == ~Visible(n) \/ init = "stranger" \/ n \notin own
MayJoin(n) == Visible(n) /\ (init = "stranger" \/ n \in own)

\* Variant: a namespace that is skipped ends the loop.
CollectBreaking ==
    /\ cmd = "collect"
    /\ LET n == JOIN_ORDER[next] IN
       \/ /\ MaySkip(n)
          /\ cmd' = "procs"
          /\ UNCHANGED joins
       \/ /\ MayJoin(n)
          /\ joins' = [joins EXCEPT ![n] = IF init = "stranger" THEN init ELSE "container"]
          /\ cmd' = IF next = Len(JOIN_ORDER) THEN "procs" ELSE "collect"
       \/ Visible(n) /\ cmd' = "err" /\ UNCHANGED joins
    /\ next' = next + 1
    /\ intact' = (init = "running")
    /\ UNCHANGED <<pidFile, blocked, childVars, pending, containerVars, own>>

\* One round of collect: a namespace that is not there, or is the command's own,
\* is left out; opening it fails when the init goes away at that very moment.
Collect ==
    /\ cmd = "collect"
    /\ LET n == JOIN_ORDER[next] IN
       \/ /\ MaySkip(n)
          /\ cmd' = IF next = Len(JOIN_ORDER) THEN "procs" ELSE "collect"
          /\ UNCHANGED joins
       \/ /\ MayJoin(n)
          /\ joins' = [joins EXCEPT ![n] = IF init = "stranger" THEN init ELSE "container"]
          /\ cmd' = IF next = Len(JOIN_ORDER) THEN "procs" ELSE "collect"
       \/ Visible(n) /\ cmd' = "err" /\ UNCHANGED joins
    /\ next' = next + 1
    /\ intact' = (init = "running")
    /\ UNCHANGED <<pidFile, blocked, childVars, pending, containerVars, own>>

\* The console socket, and cgroup.procs while its path still resolves.
OpenProcs ==
    \/ cgroup /\ Step("procs", "pidFile")
    \/ ~cgroup /\ Check("procs", FALSE, "pidFile")

\* If there is to be one.
CreatePidFile ==
    /\ cmd = "pidFile"
    /\ \/ cmd' = "setns" /\ pidFile' \in {"none", "empty"}
       \/ cmd' = "err" /\ UNCHANGED pidFile
    /\ UNCHANGED <<next, joins, blocked, intact, childVars, pending, containerVars, own>>

SetNs == Step("setns", "block")

\* Variant: the signals are not blocked.
BlockNothing ==
    /\ cmd = "block"
    /\ cmd' = "fork"
    /\ UNCHANGED <<next, joins, pidFile, blocked, intact, childVars, pending, containerVars, own>>

\* block_forwardable, and the socket pair.
Block ==
    /\ cmd = "block"
    /\ blocked' = TRUE
    /\ cmd' \in {"fork", "err"}
    /\ UNCHANGED <<next, joins, pidFile, intact, childVars, pending, containerVars, own>>

\* fork fails in a pid namespace whose init is ending.
Fork ==
    /\ cmd = "fork"
    /\ \/ /\ InsidePid => init = "running"
          /\ child' = "waiting"
          /\ cmd' = "place"
       \/ cmd' = "err" /\ UNCHANGED child
    /\ UNCHANGED <<next, joins, pidFile, blocked, intact, packet, placed, pending, containerVars,
                   own>>

-----------------------------------------------------------------------------
(***************************************************************************)
(* The command, after the fork.                                            *)
(***************************************************************************)
\* Variant: a child that could not be placed is let go all the same.
PlaceAnyway ==
    /\ cmd = "place"
    /\ cmd' = "send"
    /\ placed' \in {cgroup /\ ChildAlive, FALSE}
    /\ UNCHANGED <<next, joins, pidFile, blocked, intact, child, packet, pending, containerVars,
                   own>>

\* Writing the pid to cgroup.procs: an error without the cgroup, and without any
\* effect on a child that has ended.
Place ==
    /\ cmd = "place"
    /\ \/ cgroup /\ cmd' = "send" /\ placed' = ChildAlive
       \/ cmd' = "err" /\ UNCHANGED placed
    /\ UNCHANGED <<next, joins, pidFile, blocked, intact, child, packet, pending, containerVars,
                   own>>

\* EPIPE when the child has ended.
Send ==
    /\ cmd = "send"
    /\ packet' = ChildAlive
    /\ cmd' = IF ChildAlive THEN "writePid" ELSE "err"
    /\ UNCHANGED <<next, joins, pidFile, blocked, intact, child, placed, pending, containerVars,
                   own>>

\* Variant: write instead of write_all.
WritePidShort ==
    /\ cmd = "writePid"
    /\ pidFile' = IF pidFile = "empty" THEN "short" ELSE pidFile
    /\ cmd' \in {"ok", "supervise"}
    /\ UNCHANGED <<next, joins, blocked, intact, childVars, pending, containerVars, own>>

\* The pid file last; a detached exec returns here.
WritePid ==
    /\ cmd = "writePid"
    /\ \/ /\ pidFile' = IF pidFile = "empty" THEN "written" ELSE pidFile
          /\ cmd' \in {"ok", "supervise"}
       \/ pidFile = "empty" /\ cmd' = "err" /\ UNCHANGED pidFile
    /\ UNCHANGED <<next, joins, blocked, intact, childVars, pending, containerVars, own>>

\* blocked.wait(): the lowest signal first, and SIGTERM is forwarded to the child.
Supervise ==
    /\ cmd = "supervise"
    /\ \/ /\ "TERM" \in pending
          /\ pending' = pending \ {"TERM"}
          /\ UNCHANGED cmd
       \/ /\ pending = {"CHLD"}
          /\ pending' = {}
          /\ cmd' = "reap"
    /\ UNCHANGED <<next, joins, pidFile, blocked, intact, childVars, containerVars, own>>

\* waitpid with WNOHANG.
ReapChild ==
    /\ cmd = "reap"
    /\ IF child = "zombie" THEN child' = "reaped" /\ cmd' = "code"
                           ELSE cmd' = "supervise" /\ UNCHANGED child
    /\ UNCHANGED <<next, joins, pidFile, blocked, intact, packet, placed, pending, containerVars,
                   own>>

-----------------------------------------------------------------------------
(***************************************************************************)
(* The child.                                                              *)
(***************************************************************************)
\* A frozen process does not move.
ChildMoves == ~(placed /\ cgroup /\ frozen)

childFrame == <<clientVars, packet, placed, containerVars, own>>

\* The SIGCHLD of a child that ends stays pending only if it is blocked.
ChildEnds ==
    /\ child' = "zombie"
    /\ pending' = IF blocked /\ ~CmdGone THEN pending \cup {"CHLD"} ELSE pending

\* Variant: the child holds the command's end of the socket, too.
ChildExpectLeaking ==
    /\ child = "waiting" /\ ChildMoves
    /\ packet /\ child' = "entering" /\ UNCHANGED pending
    /\ UNCHANGED childFrame

\* Variant: the child does not wait.
ChildExpectNothing ==
    /\ child = "waiting" /\ ChildMoves
    /\ child' = "entering" /\ UNCHANGED pending
    /\ UNCHANGED childFrame

\* expect("CgroupApplied"): end-of-file once the command is gone.
ChildExpect ==
    /\ child = "waiting" /\ ChildMoves
    /\ \/ packet /\ child' = "entering" /\ UNCHANGED pending
       \/ ~packet /\ CmdGone /\ ChildEnds
    /\ UNCHANGED childFrame

\* enter: console, credentials, directory, execve - or exit(126).
ChildEnter ==
    /\ child = "entering" /\ ChildMoves
    /\ \/ child' = "program" /\ UNCHANGED pending
       \/ ChildEnds
    /\ UNCHANGED childFrame

ProgramExits ==
    /\ child = "program" /\ ChildMoves
    /\ ChildEnds
    /\ UNCHANGED childFrame

ChildDies ==
    /\ child = "dying"
    /\ ChildEnds
    /\ UNCHANGED childFrame

\* An orphan is reaped by pid 1.
OrphanReaped ==
    /\ CmdGone /\ child = "zombie"
    /\ child' = "reaped"
    /\ UNCHANGED <<pending, childFrame>>

-----------------------------------------------------------------------------
(***************************************************************************)
(* The container, other commands and the user.                             *)
(***************************************************************************)
containerFrame == <<clientVars, packet, placed, pending, own>>

\* The init exits or is killed; its pid namespace goes with it.
InitEnds ==
    /\ init = "running"
    /\ init' = "ending"
    /\ child' = IF InsidePid /\ ChildAlive THEN "dying" ELSE child
    /\ UNCHANGED <<cgroup, frozen, containerFrame>>

\* It becomes a zombie when its pid namespace is empty, is reaped, and its pid used
\* again.
InitGoes ==
    /\ \/ init = "ending" /\ (InsidePid => child \in {"none", "reaped"}) /\ init' = "zombie"
       \/ init = "zombie" /\ init' = "gone"
    /\ UNCHANGED <<child, cgroup, frozen, containerFrame>>

Recycle ==
    /\ init = "gone"
    /\ init' = "stranger"
    /\ UNCHANGED <<child, cgroup, frozen, containerFrame>>

\* pause, resume and kill --all.
Freezer ==
    /\ cgroup
    /\ frozen' = ~frozen
    /\ UNCHANGED <<child, init, cgroup, containerFrame>>

\* kill --all and delete --force strike what is in cgroup.procs.
KillMember ==
    /\ placed /\ child \in {"waiting", "entering", "program"}
    /\ child' = "dying"
    /\ UNCHANGED <<containerVars, containerFrame>>

\* delete of a stopped container: rmdir, which fails with a process inside.
Delete ==
    /\ init \in {"gone", "stranger"}
    /\ cgroup /\ ~(placed /\ ChildAlive)
    /\ cgroup' = FALSE
    /\ UNCHANGED <<child, init, frozen, containerFrame>>

\* SIGTERM to the command: it ends it before it is blocked.
Terminate ==
    /\ ~CmdGone
    /\ IF blocked THEN pending' = pending \cup {"TERM"} /\ UNCHANGED cmd
                  ELSE cmd' = "killed" /\ UNCHANGED pending
    /\ UNCHANGED <<next, joins, pidFile, blocked, intact, childVars, containerVars, own>>

KillCmd ==
    /\ ~CmdGone
    /\ cmd' = "killed"
    /\ UNCHANGED <<next, joins, pidFile, blocked, intact, childVars, pending, containerVars, own>>

CmdNext ==
    \/ Load \/ CheckAlive \/ CheckPaused \/ Resolve \/ Collect \/ OpenProcs \/ CreatePidFile
    \/ SetNs \/ Block \/ Fork \/ Place \/ Send \/ WritePid \/ Supervise \/ ReapChild

ChildNext == ChildExpect \/ ChildEnter \/ ChildDies

Next ==
    \/ CmdNext \/ ChildNext \/ ProgramExits \/ OrphanReaped
    \/ InitEnds \/ InitGoes \/ Recycle \/ Freezer \/ KillMember \/ Delete
    \/ Terminate \/ KillCmd

\* Both processes are scheduled and the dead are reaped.  No program has to end, no
\* container has to, nobody has to thaw one, and no signal need be sent.
Fairness == WF_vars(CmdNext) /\ WF_vars(ChildNext) /\ WF_vars(OrphanReaped)

Spec == Init /\ [][Next]_vars
FairSpec == Spec /\ Fairness

-----------------------------------------------------------------------------
(***************************************************************************)
(* Properties.                                                             *)
(***************************************************************************)
Inside == child \in {"entering", "program"}

\* Types of the variables.
TypeOK ==
    /\ cmd \in CmdPoint
    /\ next \in 1 .. 8
    /\ joins \in [Namespace -> {"none", "container", "stranger"}]
    /\ child \in ChildPoint
    /\ {packet, placed, blocked, cgroup, frozen, intact} \subseteq BOOLEAN
    /\ pidFile \in {"none", "empty", "written"}
    /\ pending \subseteq {"TERM", "CHLD"}
    /\ init \in {"running", "ending", "zombie", "gone", "stranger"}
    /\ own \in Layouts

\* No program is executed, not even its console and credentials prepared, outside
\* the container's cgroup; and the cgroup is not removed from under it.
PlacedBeforeProgram == Inside => placed /\ cgroup

\* An exec that returns an error has not run the program - unless the error is that
\* of writing the pid file, which comes after the child has been let go.
ErrorMeansNoProgram == cmd = "err" /\ Inside => packet /\ pidFile = "empty"

\* The program runs in exactly the container's own namespaces, if the init was
\* still there when the last of them was collected.
JoinedWhileAlive ==
    Inside /\ intact =>
        \A n \in Namespace : joins[n] = IF n \in own THEN "container" ELSE "none"

\* A supervising exec returns when its child has ended, however early that was: no
\* SIGCHLD is lost between the fork and the first wait, unless signals keep coming.
ExecReturns ==
    <>[]("TERM" \notin pending) => (cmd = "supervise" /\ child = "zombie" ~> CmdGone)

\* An exec that gives up or is killed does not leave its child waiting, except in a
\* frozen container.
OrphanEnds ==
    CmdGone /\ child = "waiting" /\ ~packet ~> child \in {"zombie", "reaped"} \/ (placed /\ frozen)

\* The namespaces of an exec'd program really are the container's.
JoinedAll ==
    Inside => \A n \in own : joins[n] = "container"

=============================================================================
