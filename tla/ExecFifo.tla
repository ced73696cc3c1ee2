------------------------------ MODULE ExecFifo ------------------------------
(***************************************************************************)
(* The exec fifo, between the init that `create` left parked and the       *)
(* commands that start it.                                                 *)
(*                                                                         *)
(*   the init      container/fifo.rs: park, then the rest of               *)
(*                 container_init: startContainer hooks and execve         *)
(*   the starters  container/mod.rs: start (and the tail of run, which     *)
(*                 does not check the status), container/fifo.rs: release  *)
(*                                                                         *)
(* A fifo opens when both sides are there: open(O_WRONLY) counts the       *)
(* caller as a writer and blocks until a reader comes, open(O_RDONLY) the  *)
(* other way round; a blocked open is let go for good as soon as the other *)
(* side has opened, even if that side is gone again when it runs.  read    *)
(* blocks on an empty fifo with a writer and returns 0 bytes without one.  *)
(* What is in the fifo is lost when the last descriptor is closed.         *)
(*                                                                         *)
(* `mars pause` may freeze the container, created or running, and `mars    *)
(* resume` thaws it.  The freezer interrupts an open that blocks; it is    *)
(* made again after the thaw.                                              *)
(***************************************************************************)
EXTENDS Integers, FiniteSets

CONSTANTS
    Starters,       \* commands that start the container
    Runners,        \* those of them that are a `run`, not a `start`
    Killable,       \* the starters that may be killed
    InitMayDie,     \* whether the init may be killed from outside
    MayPause        \* whether the container may be paused

ASSUME FifoAssumption == Runners \subseteq Starters /\ Killable \subseteq Starters
                         /\ InitMayDie \in BOOLEAN /\ MayPause \in BOOLEAN

VARIABLES
    start,          \* control point of every starter
    init,           \* control point of the init
    fifo,           \* the path of the fifo exists
    frozen,         \* the container's cgroup is frozen
    bytes,          \* how many bytes are in the fifo
    opened,         \* starters whose open the fifo has seen (history)
    wrote,          \* the init has written the byte (history)
    got,            \* starters that read the byte (history)
    hookFailed      \* a startContainer hook has failed (history)

vars == <<start, init, fifo, frozen, bytes, opened, wrote, got, hookFailed>>

\* Where a starter's call ends.
Refused  == {"badState", "paused", "alreadyStarted", "noFifo"}
Terminal == Refused \cup {"ok", "initFailed", "killed"}
StarterPoint == {"idle", "alive", "frozen", "created", "exists", "open", "opening", "read",
                 "unlink", "poststart"} \cup Terminal

\* The init before the byte is written, and after.
Parking == {"ready", "opening", "writing"}
Passed  == {"closing", "hooks", "exec", "running"}
InitPoint == Parking \cup Passed \cup {"zombie", "gone"}

\* Who holds a descriptor of the fifo; a blocked open counts.
Readers == {s \in Starters : start[s] \in {"opening", "read", "unlink"}}
Writing == init \in {"opening", "writing", "closing"}

Goto(s, point) == start' = [start EXCEPT ![s] = point]

Init ==
    /\ start = [s \in Starters |-> "idle"]
    /\ init = "ready"
    /\ fifo = TRUE
    /\ frozen = FALSE
    /\ bytes = 0
    /\ opened = {}
    /\ wrote = FALSE
    /\ got = {}
    /\ hookFailed = FALSE

history == <<opened, wrote, got, hookFailed>>

-----------------------------------------------------------------------------
(***************************************************************************)
(* A starter.                                                              *)
(***************************************************************************)
\* start loads state.json and then asks for the status; run has just created
\* the container and goes straight to the fifo.
Call(s) ==
    /\ start[s] = "idle"
    /\ Goto(s, IF s \in Runners THEN "exists" ELSE "alive")
    /\ UNCHANGED <<init, fifo, frozen, bytes, history>>

\* status, first read: alive() finds /proc/<pid>/stat, also that of a zombie.
CheckAlive(s) ==
    /\ start[s] = "alive"
    /\ Goto(s, IF init = "gone" THEN "badState" ELSE "frozen")
    /\ UNCHANGED <<init, fifo, frozen, bytes, history>>

\* status, second read: is_frozen.  A paused container is not a created one.
CheckFrozen(s) ==
    /\ start[s] = "frozen"
    /\ Goto(s, IF frozen THEN "paused" ELSE "created")
    /\ UNCHANGED <<init, fifo, frozen, bytes, history>>

\* status, third read: created while the fifo exists, running without it.
CheckCreated(s) ==
    /\ start[s] = "created"
    /\ Goto(s, IF fifo THEN "exists" ELSE "badState")
    /\ UNCHANGED <<init, fifo, frozen, bytes, history>>

\* release
CheckExists(s) ==
    /\ start[s] = "exists"
    /\ Goto(s, IF fifo THEN "open" ELSE "alreadyStarted")
    /\ UNCHANGED <<init, fifo, frozen, bytes, history>>

Open(s) ==
    /\ start[s] = "open"
    /\ IF ~fifo THEN Goto(s, "noFifo") /\ UNCHANGED <<init, opened>>
       ELSE /\ Goto(s, IF Writing THEN "read" ELSE "opening")
            /\ init' = IF init = "opening" THEN "writing" ELSE init
            /\ opened' = opened \cup {s}
    /\ UNCHANGED <<fifo, frozen, bytes, wrote, got, hookFailed>>

\* Leaving the fifo: what is in it goes with the last descriptor.
BytesWithout(s) == IF Writing \/ Readers # {s} THEN bytes ELSE 0

\* Variant: the number of bytes read is not looked at.
ReadUnchecked(s) ==
    /\ start[s] = "read"
    /\ bytes > 0 \/ ~Writing
    /\ bytes' = 0
    /\ got' = IF bytes > 0 THEN got \cup {s} ELSE got
    /\ Goto(s, "unlink")
    /\ UNCHANGED <<init, fifo, frozen, opened, wrote, hookFailed>>

Read(s) ==
    /\ start[s] = "read"
    /\ \/ /\ bytes > 0
          /\ bytes' = bytes - 1
          /\ got' = got \cup {s}
          /\ Goto(s, "unlink")
       \/ /\ bytes = 0 /\ ~Writing
          /\ Goto(s, "initFailed")
          /\ UNCHANGED <<bytes, got>>
    /\ UNCHANGED <<init, fifo, frozen, opened, wrote, hookFailed>>

\* Variant: the fifo is left where it is.
UnlinkNothing(s) ==
    /\ start[s] = "unlink"
    /\ Goto(s, "poststart")
    /\ bytes' = BytesWithout(s)
    /\ UNCHANGED <<init, fifo, frozen, history>>

\* remove_file, so that start cannot run twice.
Unlink(s) ==
    /\ start[s] = "unlink"
    /\ fifo' = FALSE
    /\ Goto(s, IF fifo THEN "poststart" ELSE "noFifo")
    /\ bytes' = BytesWithout(s)
    /\ UNCHANGED <<init, frozen, history>>

\* The poststart hooks are not fatal, but they may hang (see Fairness).
Poststart(s) ==
    /\ start[s] = "poststart"
    /\ Goto(s, "ok")
    /\ UNCHANGED <<init, fifo, frozen, bytes, history>>

KillStarter(s) ==
    /\ s \in Killable
    /\ start[s] \notin Terminal \cup {"idle"}
    /\ Goto(s, "killed")
    /\ bytes' = IF s \in Readers THEN BytesWithout(s) ELSE bytes
    /\ UNCHANGED <<init, fifo, frozen, history>>

-----------------------------------------------------------------------------
(***************************************************************************)
(* The init.                                                               *)
(***************************************************************************)
\* Variant: O_RDWR instead of O_WRONLY, which does not wait for a reader.
ParkOpenReadWrite ==
    /\ init = "ready"
    /\ init' = "closing"
    /\ bytes' = bytes + 1
    /\ wrote' = TRUE
    /\ start' = [s \in Starters |-> IF start[s] = "opening" THEN "read" ELSE start[s]]
    /\ UNCHANGED <<fifo, frozen, opened, got, hookFailed>>

\* park: open the fifo for writing; the starters that wait in open are let go.
ParkOpen ==
    /\ init = "ready"
    /\ init' = IF Readers = {} THEN "opening" ELSE "writing"
    /\ start' = [s \in Starters |-> IF start[s] = "opening" THEN "read" ELSE start[s]]
    /\ UNCHANGED <<fifo, frozen, bytes, history>>

\* Variant: the writer is closed without writing the handshake byte.
ParkWriteNothing ==
    /\ init = "writing"
    /\ init' = "closing"
    /\ UNCHANGED <<start, fifo, frozen, bytes, history>>

\* Variant: the handshake is a line, "0" and the end of it.
ParkWriteLine ==
    /\ init = "writing"
    /\ IF Readers # {} THEN init' = "closing" /\ bytes' = bytes + 2 /\ wrote' = TRUE
                       ELSE init' = "zombie" /\ UNCHANGED <<bytes, wrote>>
    /\ UNCHANGED <<start, fifo, frozen, opened, got, hookFailed>>

\* EPIPE when the reader that let it through has gone: container_init fails.
ParkWrite ==
    /\ init = "writing"
    /\ IF Readers # {} THEN init' = "closing" /\ bytes' = bytes + 1 /\ wrote' = TRUE
                       ELSE init' = "zombie" /\ UNCHANGED <<bytes, wrote>>
    /\ UNCHANGED <<start, fifo, frozen, opened, got, hookFailed>>

ParkClose ==
    /\ init = "closing"
    /\ init' = "hooks"
    /\ bytes' = IF Readers = {} THEN 0 ELSE bytes
    /\ UNCHANGED <<start, fifo, frozen, history>>

StartContainerHooks ==
    /\ init = "hooks"
    /\ \/ init' = "exec" /\ UNCHANGED hookFailed
       \/ init' = "zombie" /\ hookFailed' = TRUE
    /\ UNCHANGED <<start, fifo, frozen, bytes, opened, wrote, got>>

Execve ==
    /\ init = "exec"
    /\ init' \in {"running", "zombie"}
    /\ UNCHANGED <<start, fifo, frozen, bytes, history>>

\* Killed from outside, at any point; a SIGKILL reaches a frozen process too.
KillInit ==
    /\ InitMayDie
    /\ init \in Parking \cup Passed
    /\ init' = "zombie"
    /\ bytes' = IF Readers = {} THEN 0 ELSE bytes
    /\ UNCHANGED <<start, fifo, frozen, history>>

\* Whoever inherited the init reaps it.
Reap ==
    /\ init = "zombie"
    /\ init' = "gone"
    /\ UNCHANGED <<start, fifo, frozen, bytes, history>>

\* pause and resume, by other commands: the cgroup becomes frozen or thawed.  The
\* init stops wherever it is, an open that blocks is given up until the thaw.
Pause ==
    /\ MayPause
    /\ ~frozen
    /\ frozen' = TRUE
    /\ init' = IF init = "opening" THEN "ready" ELSE init
    /\ UNCHANGED <<start, fifo, bytes, history>>

Resume ==
    /\ frozen
    /\ frozen' = FALSE
    /\ UNCHANGED <<start, init, fifo, bytes, history>>

StarterNext(s) ==
    \/ CheckAlive(s) \/ CheckFrozen(s) \/ CheckCreated(s) \/ CheckExists(s)
    \/ Open(s) \/ Read(s) \/ Unlink(s) \/ Poststart(s)

\* Nothing of the container runs while its cgroup is frozen.
InitNext ==
    /\ ~frozen
    /\ ParkOpen \/ ParkWrite \/ ParkClose \/ StartContainerHooks \/ Execve

Next ==
    \/ \E s \in Starters : Call(s) \/ StarterNext(s) \/ KillStarter(s)
    \/ InitNext \/ KillInit \/ Reap \/ Pause \/ Resume

\* The kernel schedules every process that can run and reaps the dead; nobody
\* has to call start, to be killed, to pause or to resume, and no hook has to end.
Fairness ==
    /\ \A s \in Starters : WF_vars(start[s] # "poststart" /\ StarterNext(s))
    /\ WF_vars(init # "hooks" /\ InitNext) /\ WF_vars(Reap)

Spec == Init /\ [][Next]_vars
FairSpec == Spec /\ Fairness

-----------------------------------------------------------------------------
(***************************************************************************)
(* Properties.                                                             *)
(***************************************************************************)

\* Types of the variables.
TypeOK ==
    /\ start \in [Starters -> StarterPoint]
    /\ init \in InitPoint
    /\ fifo \in BOOLEAN
    /\ frozen \in BOOLEAN
    /\ bytes \in 0..1
    /\ opened \subseteq Starters
    /\ wrote \in BOOLEAN
    /\ got \subseteq Starters
    /\ hookFailed \in BOOLEAN

\* A starter reports success only if it is the one that let the init through:
\* of any number of concurrent starts at most one succeeds.
OkMeansStarted ==
    \A s \in Starters :
        start[s] \in {"unlink", "poststart", "ok"} => wrote /\ got = {s}

\* The status turns from created to running - the fifo is unlinked - only for a
\* container whose init has been let through.
RunningMeansReleased == ~fifo => wrote /\ got # {}

\* The gate: let through at most once, never before somebody asked for it, and
\* one winner at the most.
Gate == INSTANCE StartGate WITH asked <- opened, open <- wrote, winner <- got
ImplementsGate == Gate!GateSpec

\* A start that reports "died between create and start" (nothing to read in the
\* fifo) does so for one of two reasons: the init has indeed died without getting
\* through, or another start has taken its only byte.
DeathExplained ==
    \A s \in Starters : start[s] = "initFailed" =>
        (~wrote /\ init \in {"zombie", "gone"}) \/ got \ {s} # {}

\* Concurrent starts do not talk each other out of success: once one has been
\* called, some start gets as far as its poststart hooks - unless the call was
\* refused because the container was paused, one of them is killed, or the init
\* dies before it is let through.  A pause on the way only delays them, if it is
\* lifted in the end.
SomeoneSucceeds ==
    <>[]~frozen =>
        \A s \in Starters :
            start[s] # "idle" ~>
                \/ start[s] = "paused"
                \/ \E t \in Starters : start[t] \in {"poststart", "ok", "killed"}
                \/ init \in {"zombie", "gone"} /\ ~wrote

\* `start` and `run` return, or come to their poststart hooks, whatever becomes of
\* the init.
StartReturns ==
    \A s \in Starters :
        start[s] = "exists" ~> start[s] \in Terminal \cup {"poststart"}

\* The status created, which is the presence of the fifo, means that the init has
\* not been let through - while no start is on its way, and unless a start has
\* been killed between opening the fifo and removing it.
CreatedMeansUnstarted ==
    fifo /\ wrote => \E s \in Starters :
        start[s] \in {"read", "unlink"} \/ (start[s] = "killed" /\ s \in opened)

\* A startContainer hook that fails makes the start operation fail.
StartContainerAborts ==
    \A s \in Starters : start[s] = "ok" => ~hookFailed

=============================================================================
