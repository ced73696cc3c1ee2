------------------------------ MODULE Lifecycle ------------------------------
(***************************************************************************)
(* The commands on an existing container, each a process of its own, and   *)
(* what they have in common: state.json, the cgroup and the pids.          *)
(*                                                                         *)
(*   kill, kill --all, pause, resume, delete, delete --force               *)
(*                 container/mod.rs: kill, pause, delete                   *)
(*   run, run --keep, once they have started the container                 *)
(*                 container/mod.rs: run; container/signal.rs: supervise   *)
(*   status        state.rs: load, alive, status, require                  *)
(*   cgroup        cgroup/v2.rs: procs, freeze, is_frozen, destroy         *)
(*                                                                         *)
(* No lock is held between any two system calls.  The signal is SIGKILL.   *)
(* A dead process is a zombie until its parent reaps it; after that its    *)
(* pid may belong to a stranger.                                           *)
(***************************************************************************)
EXTENDS FiniteSets

CONSTANTS
    Clients,        \* commands running at the same time
    Operations,     \* what they may be
    Workers         \* processes the init may fork

Foreground == {"run", "runKeep"}
AllOperations == {"kill", "killAll", "pause", "resume", "delete", "deleteForce"} \cup Foreground

ASSUME LifecycleAssumption ==
    /\ Operations \subseteq AllOperations
    /\ "init" \notin Workers

VARIABLES
    op,             \* the operation of each client
    pc,             \* its control point
    late,           \* the init was gone when it was called (history)
    was,            \* killAll: the container was frozen before
    todo,           \* pids it has still to signal
    result,         \* what it returns at the end
    gaveUp,         \* it has waited in vain for something
    process,        \* each process of the container
    dying,          \* processes that are about to end
    struck,         \* clients that have signalled a stranger (history)
    saved,          \* state.json exists
    cgroup,         \* the cgroup exists
    freezing,       \* cgroup.freeze
    frozen,         \* cgroup.events: frozen
    paused,         \* the container was paused in the beginning (configuration)
    pidNamespace    \* it has a pid namespace of its own (configuration)

config == <<paused, pidNamespace>>
clientVars == <<op, pc, late, was, todo, result, gaveUp>>
kernelVars == <<process, dying, cgroup, freezing, frozen>>
vars == <<clientVars, kernelVars, struck, saved, config>>

Process == {"init"} \cup Workers
ProcessState == {"none", "running", "zombie", "gone", "stranger"}
Terminal == {"ok", "err"}
ClientPoint == {"poststart", "supervise", "load", "alive", "checkFrozen", "wasFrozen", "freeze", "awaitFrozen", "procs",
                "signal", "thaw", "awaitThawed", "awaitDead", "destroy", "poststop",
                "remove"} \cup Terminal

Running == {p \in Process : process[p] = "running"}

\* At most one of the commands has created the container and is its parent.
Init ==
    /\ op \in [Clients -> Operations]
    /\ \A c, d \in Clients : op[c] \in Foreground /\ op[d] \in Foreground => c = d
    /\ pc = [c \in Clients |-> IF op[c] \in Foreground THEN "poststart" ELSE "load"]
    /\ late = [c \in Clients |-> FALSE]
    /\ was = [c \in Clients |-> FALSE]
    /\ todo = [c \in Clients |-> {}]
    /\ result = [c \in Clients |-> "ok"]
    /\ gaveUp = [c \in Clients |-> FALSE]
    /\ process = [p \in Process |-> IF p = "init" THEN "running" ELSE "none"]
    /\ dying = {}
    /\ struck = {}
    /\ saved = TRUE
    /\ cgroup = TRUE
    /\ paused \in BOOLEAN
    /\ freezing = paused
    /\ frozen = paused
    /\ pidNamespace \in BOOLEAN

-----------------------------------------------------------------------------
(***************************************************************************)
(* state.rs: what a command reads first.                                   *)
(***************************************************************************)
Goto(c, point) == pc' = [pc EXCEPT ![c] = point]
GiveUp(c) == gaveUp' = [gaveUp EXCEPT ![c] = TRUE]

\* alive: the pid exists with the start time in state.json; a zombie has both.
Alive == process["init"] \in {"running", "zombie"}

\* is_frozen is false when there is no cgroup any more.
IsFrozen == cgroup /\ frozen

\* Container::load; only delete --force takes a missing container for success.
Load(c) ==
    /\ pc[c] = "load"
    /\ Goto(c, IF saved THEN "alive" ELSE IF op[c] = "deleteForce" THEN "ok" ELSE "err")
    /\ late' = [late EXCEPT ![c] = process["init"] \in {"gone", "stranger"}]
    /\ UNCHANGED <<op, was, todo, result, gaveUp, kernelVars, struck, saved, config>>

\* The first of the reads of status, and what each command makes of it.
CheckAlive(c) ==
    /\ pc[c] = "alive"
    /\ Goto(c, IF Alive
                 THEN CASE op[c] = "kill" -> "signal"
                        [] op[c] \in {"killAll", "deleteForce"} -> "wasFrozen"
                        [] op[c] \in {"pause", "resume"} -> "checkFrozen"
                        [] op[c] = "delete" -> "err"
                 ELSE IF op[c] \in {"delete", "deleteForce"} THEN "destroy" ELSE "err")
    /\ UNCHANGED <<op, late, was, todo, result, gaveUp, kernelVars, struck, saved, config>>

\* The second read of status, for pause and resume.
CheckFrozen(c) ==
    /\ pc[c] = "checkFrozen"
    /\ Goto(c, CASE op[c] = "pause" /\ ~IsFrozen -> "freeze"
                 [] op[c] = "resume" /\ IsFrozen -> "thaw"
                 [] OTHER -> "err")
    /\ UNCHANGED <<op, late, was, todo, result, gaveUp, kernelVars, struck, saved, config>>

\* kill --all freezes unless it is frozen already, delete --force thaws if it is.
WasFrozen(c) ==
    /\ pc[c] = "wasFrozen"
    /\ was' = [was EXCEPT ![c] = IsFrozen]
    /\ Goto(c, CASE op[c] = "killAll" /\ ~IsFrozen -> "freeze"
                 [] op[c] = "deleteForce" /\ IsFrozen -> "thaw"
                 [] OTHER -> "procs")
    /\ UNCHANGED <<op, late, todo, result, gaveUp, kernelVars, struck, saved, config>>

-----------------------------------------------------------------------------
(***************************************************************************)
(* cgroup/v2.rs: freeze(true), freeze(false) and procs.                    *)
(***************************************************************************)
\* Writing cgroup.freeze fails only without the cgroup.
WriteFreeze(c) ==
    /\ pc[c] = "freeze"
    /\ IF cgroup THEN Goto(c, "awaitFrozen") /\ freezing' = TRUE
                 ELSE Goto(c, "err") /\ UNCHANGED freezing
    /\ UNCHANGED <<op, late, was, todo, result, gaveUp, process, dying, cgroup, frozen, struck,
                   saved, config>>

\* Variant: the command goes on without waiting for the kernel.
AwaitFrozenNot(c) ==
    /\ pc[c] = "awaitFrozen"
    /\ Goto(c, IF op[c] = "pause" THEN "ok" ELSE "procs")
    /\ UNCHANGED <<op, late, was, todo, result, gaveUp, kernelVars, struck, saved, config>>

\* Up to 5 s of polling; an error leaves cgroup.freeze at 1.
AwaitFrozen(c) ==
    /\ pc[c] = "awaitFrozen"
    /\ IF IsFrozen THEN Goto(c, IF op[c] = "pause" THEN "ok" ELSE "procs") /\ UNCHANGED gaveUp
                   ELSE Goto(c, "err") /\ GiveUp(c)
    /\ UNCHANGED <<op, late, was, todo, result, kernelVars, struck, saved, config>>

\* Variant: a line that is not a pid is kept, as pid 0.
ReadProcsUnfiltered(c) ==
    /\ pc[c] = "procs"
    /\ todo' = [todo EXCEPT ![c] = IF cgroup THEN Running \cup {"0"} ELSE {}]
    /\ result' = [result EXCEPT ![c] = IF cgroup \/ op[c] = "deleteForce" THEN "ok" ELSE "err"]
    /\ Goto(c, "signal")
    /\ UNCHANGED <<op, late, was, gaveUp, kernelVars, struck, saved, config>>

\* cgroup.procs lists the living; delete --force takes an error for an empty list.
ReadProcs(c) ==
    /\ pc[c] = "procs"
    /\ todo' = [todo EXCEPT ![c] = IF cgroup THEN Running ELSE {}]
    /\ result' = [result EXCEPT ![c] = IF cgroup \/ op[c] = "deleteForce" THEN "ok" ELSE "err"]
    /\ Goto(c, "signal")
    /\ UNCHANGED <<op, late, was, gaveUp, kernelVars, struck, saved, config>>

WriteThaw(c) ==
    /\ pc[c] = "thaw"
    /\ IF cgroup THEN Goto(c, "awaitThawed") /\ freezing' = FALSE
                 ELSE Goto(c, "err") /\ UNCHANGED freezing
    /\ UNCHANGED <<op, late, was, todo, result, gaveUp, process, dying, cgroup, frozen, struck,
                   saved, config>>

AwaitThawed(c) ==
    /\ pc[c] = "awaitThawed"
    /\ IF IsFrozen THEN Goto(c, "err") /\ GiveUp(c)
         ELSE /\ Goto(c, CASE op[c] = "resume" -> "ok"
                           [] op[c] = "killAll" -> result[c]
                           [] op[c] = "deleteForce" -> "procs")
              /\ UNCHANGED gaveUp
    /\ UNCHANGED <<op, late, was, todo, result, kernelVars, struck, saved, config>>

-----------------------------------------------------------------------------
(***************************************************************************)
(* container/mod.rs: kill and delete.                                      *)
(***************************************************************************)
\* kill(2) with SIGKILL.  A zombie takes it, a free pid is ESRCH, and a pid that
\* has been recycled is somebody else's.
Strike(c, p) ==
    /\ dying' = IF process[p] = "running" THEN dying \cup {p} ELSE dying
    /\ struck' = IF process[p] = "stranger" THEN struck \cup {c} ELSE struck

SignalInit(c) ==
    /\ pc[c] = "signal" /\ op[c] = "kill"
    /\ Strike(c, "init")
    /\ Goto(c, IF process["init"] = "gone" THEN "err" ELSE "ok")
    /\ UNCHANGED <<op, late, was, todo, result, gaveUp, process, cgroup, freezing, frozen, saved,
                   config>>

\* Variant: the first error of kill --all returns at once, frozen as it is.
SignalNextReturning(c) ==
    /\ pc[c] = "signal" /\ op[c] # "kill"
    /\ \E p \in todo[c] :
         /\ Strike(c, p)
         /\ IF process[p] = "gone" /\ op[c] = "killAll"
              THEN /\ todo' = [todo EXCEPT ![c] = {}]
                   /\ Goto(c, "err")
              ELSE todo' = [todo EXCEPT ![c] = @ \ {p}] /\ UNCHANGED pc
    /\ UNCHANGED <<op, late, was, result, gaveUp, process, cgroup, freezing, frozen, saved,
                   config>>

\* Variant: delete --force only forgets the pids.
SignalNextSparing(c) ==
    /\ pc[c] = "signal" /\ op[c] # "kill"
    /\ todo[c] # {}
    /\ todo' = [todo EXCEPT ![c] = {}]
    /\ UNCHANGED <<op, pc, late, was, result, gaveUp, kernelVars, struck, saved, config>>

\* One pid of the list.  An error ends kill --all, and is nothing to delete.
SignalNext(c) ==
    /\ pc[c] = "signal" /\ op[c] # "kill"
    /\ \E p \in todo[c] :
         /\ Strike(c, p)
         /\ IF process[p] = "gone" /\ op[c] = "killAll"
              THEN /\ todo' = [todo EXCEPT ![c] = {}]
                   /\ result' = [result EXCEPT ![c] = "err"]
              ELSE todo' = [todo EXCEPT ![c] = @ \ {p}] /\ UNCHANGED result
    /\ UNCHANGED <<op, pc, late, was, gaveUp, process, cgroup, freezing, frozen, saved, config>>

\* The end of the list: kill --all undoes its own freezing.
SignalledAll(c) ==
    /\ pc[c] = "signal" /\ op[c] # "kill"
    /\ todo[c] = {}
    /\ Goto(c, CASE op[c] = "deleteForce" -> "awaitDead"
                 [] op[c] = "killAll" /\ ~was[c] -> "thaw"
                 [] op[c] = "killAll" /\ was[c] -> result[c])
    /\ UNCHANGED <<op, late, was, todo, result, gaveUp, kernelVars, struck, saved, config>>

\* Up to 5 s of polling; then it goes on all the same.
AwaitDead(c) ==
    /\ pc[c] = "awaitDead"
    /\ Goto(c, "destroy")
    /\ IF Alive THEN GiveUp(c) ELSE UNCHANGED gaveUp
    /\ UNCHANGED <<op, late, was, todo, result, kernelVars, struck, saved, config>>

\* Cgroup::destroy: EBUSY with a process in it, tried for 1 s, the error ignored.
Destroy(c) ==
    /\ pc[c] = "destroy"
    /\ cgroup' = (cgroup /\ Running # {})
    /\ Goto(c, CASE op[c] = "run" -> "remove"
                 [] op[c] = "runKeep" -> "ok"
                 [] op[c] \in {"delete", "deleteForce"} -> "poststop")
    /\ UNCHANGED <<op, late, was, todo, result, gaveUp, process, dying, freezing, frozen, struck,
                   saved, config>>

\* The poststop hooks, which are not fatal: in run before the cgroup is released,
\* in delete afterwards.
Poststop(c) ==
    /\ pc[c] = "poststop"
    /\ Goto(c, IF op[c] \in Foreground THEN "destroy" ELSE "remove")
    /\ UNCHANGED <<op, late, was, todo, result, gaveUp, kernelVars, struck, saved, config>>

\* Container::remove.  remove_dir_all may fail, before or after state.json is gone;
\* run ignores that and delete reports it.
Remove(c) ==
    /\ pc[c] = "remove"
    /\ \/ saved' = FALSE /\ Goto(c, "ok")
       \/ /\ saved' = FALSE \/ UNCHANGED saved
          /\ Goto(c, IF op[c] = "run" THEN "ok" ELSE "err")
    /\ UNCHANGED <<op, late, was, todo, result, gaveUp, kernelVars, struck, config>>

-----------------------------------------------------------------------------
(***************************************************************************)
(* container/mod.rs: run after the start; container/signal.rs.             *)
(***************************************************************************)
\* The poststart hooks, which are not fatal; SIGCHLD is blocked and stays pending.
Poststart(c) ==
    /\ pc[c] = "poststart"
    /\ Goto(c, "supervise")
    /\ UNCHANGED <<op, late, was, todo, result, gaveUp, kernelVars, struck, saved, config>>

\* Variant: any child that ends, an orphan of the container's too, ends the wait.
SuperviseAnyone(c) ==
    /\ pc[c] = "supervise"
    /\ \E p \in Process : process[p] \in {"gone", "stranger"}
    /\ Goto(c, "poststop")
    /\ UNCHANGED <<op, late, was, todo, result, gaveUp, kernelVars, struck, saved, config>>

\* supervise returns when it has reaped the init (Reap).
\* A signal that it forwards before is one more way for the init to end (Exit).
Supervise(c) ==
    /\ pc[c] = "supervise"
    /\ process["init"] \in {"gone", "stranger"}
    /\ Goto(c, "poststop")
    /\ UNCHANGED <<op, late, was, todo, result, gaveUp, kernelVars, struck, saved, config>>

-----------------------------------------------------------------------------
(***************************************************************************)
(* The container's processes and the kernel.                               *)
(***************************************************************************)
processFrame == <<clientVars, cgroup, freezing, frozen, struck, saved, config>>

\* The init of a pid namespace takes its processes with it, and ends last.
Doomed(p) == p \in dying \/ (pidNamespace /\ "init" \in dying)

\* A frozen process does nothing, and one with a SIGKILL pending nothing more.
Active(p) == p \in Running /\ ~Doomed(p) /\ ~IsFrozen

Fork(p, w) ==
    /\ Active(p)
    /\ process[w] = "none"
    /\ process' = [process EXCEPT ![w] = "running"]
    /\ UNCHANGED <<dying, processFrame>>

Exit(p) ==
    /\ Active(p)
    /\ dying' = dying \cup {p}
    /\ UNCHANGED <<process, processFrame>>

Die(p) ==
    /\ p \in Running /\ Doomed(p)
    /\ p = "init" /\ pidNamespace => Running = {"init"}
    /\ process' = [process EXCEPT ![p] = "zombie"]
    /\ dying' = dying \ {p}
    /\ UNCHANGED processFrame

\* The init of a foreground run waits for supervise.
Reap(p) ==
    /\ process[p] = "zombie"
    /\ p = "init" => \A c \in Clients : pc[c] # "poststart"
    /\ process' = [process EXCEPT ![p] = "gone"]
    /\ UNCHANGED <<dying, processFrame>>

Recycle(p) ==
    /\ process[p] = "gone"
    /\ process' = [process EXCEPT ![p] = "stranger"]
    /\ UNCHANGED <<dying, processFrame>>

\* The kernel freezes and thaws in its own time.
Settle ==
    /\ cgroup /\ frozen # freezing
    /\ frozen' = freezing
    /\ UNCHANGED <<clientVars, process, dying, cgroup, freezing, struck, saved, config>>

ClientNext(c) ==
    \/ Load(c) \/ CheckAlive(c) \/ CheckFrozen(c) \/ WasFrozen(c)
    \/ WriteFreeze(c) \/ AwaitFrozen(c) \/ ReadProcs(c) \/ WriteThaw(c) \/ AwaitThawed(c)
    \/ SignalInit(c) \/ SignalNext(c) \/ SignalledAll(c)
    \/ AwaitDead(c) \/ Destroy(c) \/ Poststop(c) \/ Remove(c)
    \/ Poststart(c) \/ Supervise(c)

Next ==
    \/ \E c \in Clients : ClientNext(c)
    \/ \E p \in Process : Exit(p) \/ Die(p) \/ Reap(p) \/ Recycle(p) \/ \E w \in Workers : Fork(p, w)
    \/ Settle

\* Commands run, the killed die and are reaped; nobody has to exit or to fork, and
\* poststart and poststop hooks may hang.
Fairness ==
    /\ \A c \in Clients : WF_vars(pc[c] \notin {"poststart", "poststop"} /\ ClientNext(c))
    /\ \A p \in Process : WF_vars(Die(p)) /\ WF_vars(Reap(p))
    /\ WF_vars(Settle)

Spec == Init /\ [][Next]_vars
FairSpec == Spec /\ Fairness

-----------------------------------------------------------------------------
(***************************************************************************)
(* Properties.                                                             *)
(***************************************************************************)

\* Types of the variables.
TypeOK ==
    /\ op \in [Clients -> Operations]
    /\ pc \in [Clients -> ClientPoint]
    /\ late \in [Clients -> BOOLEAN]
    /\ was \in [Clients -> BOOLEAN]
    /\ todo \in [Clients -> SUBSET Process]
    /\ result \in [Clients -> Terminal]
    /\ gaveUp \in [Clients -> BOOLEAN]
    /\ process \in [Process -> ProcessState]
    /\ dying \subseteq Process
    /\ struck \subseteq Clients
    /\ saved \in BOOLEAN /\ cgroup \in BOOLEAN /\ freezing \in BOOLEAN /\ frozen \in BOOLEAN
    /\ paused \in BOOLEAN /\ pidNamespace \in BOOLEAN

Returned(c, operations, how) == op[c] \in operations /\ pc[c] = how
Others(c, operations) == \E d \in Clients \ {c} : op[d] \in operations

\* A command called after the init is gone recognises that, whoever has its pid
\* by then: kill and pause are refused and nobody is signalled.
StoppedIsRecognised ==
    \A c \in Clients : late[c] =>
        c \notin struck /\ ~Returned(c, {"kill", "killAll", "pause", "resume"}, "ok")

\* kill --all misses nobody: with no other command thawing the container, each
\* process that is left when it returns success has been struck, those forked
\* while it ran included.
KillAllReachesEveryone ==
    \A c \in Clients :
        Returned(c, {"killAll"}, "ok") /\ ~Others(c, {"killAll", "resume", "deleteForce"})
            => \A p \in Running : Doomed(p)

\* However many kill --all run at once, and fail half-way, they leave the
\* container frozen or not as they found it, unless one has given up waiting.
KillAllRestores ==
    (\A c \in Clients : op[c] \in {"kill", "killAll"} /\ pc[c] \in Terminal /\ ~gaveUp[c])
        => freezing = paused

\* What delete has removed from disk is not running: it waits for the init unless
\* that takes more than 5 s.
DeletedMeansDead ==
    \A c \in Clients :
        Returned(c, {"delete", "deleteForce"}, "ok") /\ (\A d \in Clients : ~gaveUp[d]) => ~Alive

Deleted(c) ==
    Returned(c, {"delete", "deleteForce"}, "ok") /\ \A d \in Clients : ~gaveUp[d]

\* delete releases the cgroup of a container with a pid namespace, unless it has
\* given up waiting for the init; run always does, and then the init is dead.
DeleteFreesCgroup ==
    \A c \in Clients :
        /\ Deleted(c) /\ pidNamespace => ~cgroup
        /\ Returned(c, Foreground, "ok") => ~Alive /\ (pidNamespace => ~cgroup)

\* After delete --force has returned success the processes of a container with a
\* pid namespace end, even if it did not wait for that, and with them a run in
\* the foreground, unless its poststart or its poststop hooks hang.
DeleteForceKills ==
    \A c \in Clients :
        Returned(c, {"deleteForce"}, "ok") /\ pidNamespace ~>
            Running = {} /\ \A d \in Clients :
                op[d] \in Foreground => pc[d] \in {"poststart", "poststop", "ok"}

\* What pause has frozen stays frozen until resume, delete --force or kill --all
\* thaws it.
PauseHolds ==
    \A c \in Clients :
        Returned(c, {"pause"}, "ok") /\ ~Others(c, {"resume", "deleteForce", "killAll"}) /\ cgroup
            => frozen

\* Deleting a stopped container always releases its resources.
DeleteAlwaysFreesCgroup == \A c \in Clients : Deleted(c) => ~cgroup

=============================================================================
