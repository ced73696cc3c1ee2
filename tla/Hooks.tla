-------------------------------- MODULE Hooks --------------------------------
(***************************************************************************)
(* One phase of lifecycle hooks, container/hooks.rs: run and one.          *)
(*                                                                         *)
(* The runner spawns the hooks of the phase one after the other, writes    *)
(* the container state to the stdin of each, closes it, and waits - until  *)
(* the deadline, if the hook has a timeout.  Both ends are separated by    *)
(* pipes of bounded capacity: the runner blocks while stdin is full, the   *)
(* hook blocks while its stdout is, and the runner never reads stdout.     *)
(* Sizes are in pipefuls' fractions, time in ticks.                        *)
(***************************************************************************)
EXTENDS Naturals

CONSTANTS
    HookCount,      \* hooks in the phase
    MaxPayload,     \* the largest container state
    StdinCapacity,  \* what fits in the pipe to a hook
    StdoutCapacity, \* what fits in the pipe from a hook
    MaxOutput,      \* the most a hook prints
    MaxTimeout      \* the longest timeout

ASSUME HooksAssumption ==
    /\ HookCount \in Nat \ {0}
    /\ MaxPayload \in Nat \ {0} /\ StdinCapacity \in Nat \ {0} /\ StdoutCapacity \in Nat \ {0}
    /\ MaxOutput \in Nat /\ MaxTimeout \in Nat

VARIABLES
    pc,         \* control point of the runner
    hook,       \* index of the hook
    outcome,    \* what has become of each hook
    child,      \* the process of the current hook
    verdict,    \* why the runner kills the hook, or "none"
    left,       \* ticks to the deadline
    written,    \* how much of the payload has been written
    eof,        \* the runner has closed the hook's stdin
    stdin,      \* what is in the pipe to the hook
    got,        \* how much the hook has read
    sawEof,     \* the hook has read to the end
    stdout,     \* what is in the pipe from the hook
    output,     \* what the hook has still to print
    reader,     \* the hook reads its stdin to the end before it exits
    success,    \* its exit status is 0
    lived,      \* ticks since the hook was spawned, up to MaxTimeout (history)
    timeout,    \* timeout of each hook, 0 for none (configuration)
    fatal,      \* Phase::is_fatal (configuration)
    payload     \* size of the container state (configuration)

config == <<timeout, fatal, payload>>
runner == <<pc, hook, outcome, verdict, left, written, eof>>
process == <<child, stdin, got, sawEof, stdout, output, reader, success, lived>>
vars == <<runner, process, config>>

Hook == 1 .. HookCount
RunnerPoint == {"spawn", "write", "close", "wait", "poll", "check", "kill", "reap", "done"}
Outcome == {"unspawned", "running", "ok", "failed", "timeout", "io"}

Alive == child \in {"running", "dying"}

Init ==
    /\ pc = "spawn"
    /\ hook = 1
    /\ outcome = [h \in Hook |-> "unspawned"]
    /\ child = "none"
    /\ verdict = "none"
    /\ left = 0 /\ lived = 0
    /\ written = 0 /\ eof = FALSE
    /\ stdin = 0 /\ got = 0 /\ sawEof = FALSE
    /\ stdout = 0 /\ output = 0
    /\ reader = FALSE /\ success = FALSE
    /\ timeout \in [Hook -> 0 .. MaxTimeout]
    /\ fatal \in BOOLEAN
    /\ payload \in 1 .. MaxPayload

-----------------------------------------------------------------------------
(***************************************************************************)
(* The runner.                                                             *)
(***************************************************************************)
\* Variant: the error of a hook is logged in every phase.
EndsLogged(result) ==
    /\ outcome' = [outcome EXCEPT ![hook] = result]
    /\ IF hook < HookCount
         THEN pc' = "spawn" /\ hook' = hook + 1
         ELSE pc' = "done" /\ UNCHANGED hook

\* The match on the outcome of one hook: the error of a fatal phase is returned,
\* that of another is logged, and the next hook comes.
Ends(result) ==
    /\ outcome' = [outcome EXCEPT ![hook] = result]
    /\ IF hook < HookCount /\ (result = "ok" \/ ~fatal)
         THEN pc' = "spawn" /\ hook' = hook + 1
         ELSE pc' = "done" /\ UNCHANGED hook

Spawn ==
    /\ pc = "spawn"
    /\ \/ /\ pc' = "write"
          /\ child' = "running"
          /\ outcome' = [outcome EXCEPT ![hook] = "running"]
          /\ written' = 0 /\ eof' = FALSE /\ stdin' = 0 /\ got' = 0 /\ sawEof' = FALSE
          /\ stdout' = 0 /\ output' \in 0 .. MaxOutput
          /\ reader' \in BOOLEAN
          /\ success' = FALSE /\ lived' = 0
          /\ UNCHANGED hook
       \/ Ends("failed") /\ UNCHANGED <<written, eof, process>>
    /\ verdict' = "none"
    /\ UNCHANGED <<left, config>>

\* Variant: one piece too many.
WritePastEnd ==
    /\ pc = "write"
    /\ \/ /\ Alive /\ stdin < StdinCapacity
          /\ written' = written + 1 /\ stdin' = stdin + 1
          /\ pc' = IF written = payload THEN "close" ELSE "write"
       \/ ~Alive /\ pc' = "close" /\ UNCHANGED <<written, stdin>>
    /\ UNCHANGED <<hook, outcome, verdict, left, eof, child, got, sawEof, stdout, output,
                   reader, success, lived, config>>

\* write_all, one piece at a time: blocked while the pipe is full and the hook
\* there; a broken pipe - the hook is gone - is no error.
Write ==
    /\ pc = "write"
    /\ \/ /\ Alive /\ stdin < StdinCapacity
          /\ written' = written + 1 /\ stdin' = stdin + 1
          /\ pc' = IF written + 1 = payload THEN "close" ELSE "write"
       \/ ~Alive /\ pc' = "close" /\ UNCHANGED <<written, stdin>>
    /\ UNCHANGED <<hook, outcome, verdict, left, eof, child, got, sawEof, stdout, output,
                   reader, success, lived, config>>

\* Any other error of write_all kills the hook.
WriteFails ==
    /\ pc = "write"
    /\ pc' = "kill"
    /\ verdict' = "io"
    /\ UNCHANGED <<hook, outcome, left, written, eof, process, config>>

\* Variant: a timeout of 0 is a deadline too.
CloseAlwaysTimed ==
    /\ pc = "close"
    /\ eof' = TRUE
    /\ left' = timeout[hook]
    /\ pc' = "poll"
    /\ UNCHANGED <<hook, outcome, verdict, written, process, config>>

\* Variant: stdin stays open while the hook is waited for.
CloseNothing ==
    /\ pc = "close"
    /\ left' = timeout[hook]
    /\ pc' = IF timeout[hook] > 0 THEN "poll" ELSE "wait"
    /\ UNCHANGED <<hook, outcome, verdict, written, eof, process, config>>

\* drop(stdin); only then does the time run.
Close ==
    /\ pc = "close"
    /\ eof' = TRUE
    /\ left' = timeout[hook]
    /\ pc' = IF timeout[hook] > 0 THEN "poll" ELSE "wait"
    /\ UNCHANGED <<hook, outcome, verdict, written, process, config>>

\* The hook has exited: its status decides.
Reap ==
    /\ child = "zombie"
    /\ child' = "none"
    /\ Ends(IF success THEN "ok" ELSE "failed")
    /\ UNCHANGED <<verdict, left, written, eof, stdin, got, sawEof, stdout, output, reader,
                   success, lived, config>>

\* child.wait() without a deadline.
Wait == pc = "wait" /\ Reap

\* child.try_wait()
Poll ==
    /\ pc = "poll"
    /\ \/ Reap
       \/ Alive /\ pc' = "check"
          /\ UNCHANGED <<hook, outcome, verdict, left, written, eof, process, config>>

\* Variant: the deadline is computed anew in every round.
CheckRearmed ==
    /\ pc = "check"
    /\ IF left = 0 THEN pc' = "kill" /\ verdict' = "timeout" /\ UNCHANGED left
                   ELSE pc' = "poll" /\ left' = timeout[hook] /\ UNCHANGED verdict
    /\ UNCHANGED <<hook, outcome, written, eof, process, config>>

\* now >= deadline, or a sleep of 10 ms.
Check ==
    /\ pc = "check"
    /\ IF left = 0 THEN pc' = "kill" /\ verdict' = "timeout"
                   ELSE pc' = "poll" /\ UNCHANGED verdict
    /\ UNCHANGED <<hook, outcome, left, written, eof, process, config>>

Kill ==
    /\ pc = "kill"
    /\ child' = IF child = "running" THEN "dying" ELSE child
    /\ pc' = "reap"
    /\ UNCHANGED <<hook, outcome, verdict, left, written, eof, stdin, got, sawEof, stdout,
                   output, reader, success, lived, config>>

\* child.wait() after child.kill(), whatever the status.
ReapKilled ==
    /\ pc = "reap"
    /\ child = "zombie"
    /\ child' = "none"
    /\ Ends(verdict)
    /\ UNCHANGED <<verdict, left, written, eof, stdin, got, sawEof, stdout, output, reader,
                   success, lived, config>>

-----------------------------------------------------------------------------
(***************************************************************************)
(* The hook, and the time.                                                 *)
(***************************************************************************)
ReadStdin ==
    /\ child = "running" /\ reader
    /\ \/ stdin > 0 /\ stdin' = stdin - 1 /\ got' = got + 1 /\ UNCHANGED sawEof
       \/ stdin = 0 /\ eof /\ ~sawEof /\ sawEof' = TRUE /\ UNCHANGED <<stdin, got>>
    /\ UNCHANGED <<runner, child, stdout, output, reader, success, lived, config>>

PrintStdout ==
    /\ child = "running"
    /\ output > 0 /\ stdout < StdoutCapacity
    /\ output' = output - 1 /\ stdout' = stdout + 1
    /\ UNCHANGED <<runner, child, stdin, got, sawEof, reader, success, lived, config>>

\* A hook that reads exits after the end of its stdin, and none in mid-output.
Exit ==
    /\ child = "running"
    /\ output = 0 /\ (reader => sawEof)
    /\ child' = "zombie"
    /\ success' \in BOOLEAN
    /\ UNCHANGED <<runner, stdin, got, sawEof, stdout, output, reader, lived, config>>

Dies ==
    /\ child = "dying"
    /\ child' = "zombie"
    /\ UNCHANGED <<runner, stdin, got, sawEof, stdout, output, reader, success, lived, config>>

Tick ==
    /\ left > 0 \/ lived < MaxTimeout
    /\ left' = IF left > 0 THEN left - 1 ELSE 0
    /\ lived' = IF lived < MaxTimeout THEN lived + 1 ELSE lived
    /\ UNCHANGED <<pc, hook, outcome, verdict, written, eof, child, stdin, got, sawEof, stdout,
                   output, reader, success, config>>

RunnerNext == Spawn \/ Write \/ Close \/ Wait \/ Poll \/ Check \/ Kill \/ ReapKilled

HookNext == ReadStdin \/ PrintStdout \/ Exit

Next == RunnerNext \/ WriteFails \/ HookNext \/ Dies \/ Tick

\* The runner is scheduled, a SIGKILLed hook dies and time passes.  A write that
\* blocks need not fail, and a hook owes nobody anything: it may hang.
Fairness == WF_vars(RunnerNext) /\ WF_vars(Dies) /\ WF_vars(Tick)

Spec == Init /\ [][Next]_vars
FairSpec == Spec /\ Fairness

-----------------------------------------------------------------------------
(***************************************************************************)
(* Properties.                                                             *)
(***************************************************************************)

\* Types of the variables.
TypeOK ==
    /\ pc \in RunnerPoint
    /\ hook \in Hook
    /\ outcome \in [Hook -> Outcome]
    /\ child \in {"none", "running", "dying", "zombie"}
    /\ verdict \in {"none", "timeout", "io"}
    /\ left \in 0 .. MaxTimeout /\ lived \in 0 .. MaxTimeout
    /\ written \in 0 .. payload /\ got \in 0 .. payload
    /\ stdin \in 0 .. StdinCapacity
    /\ stdout \in 0 .. StdoutCapacity
    /\ output \in 0 .. MaxOutput
    /\ eof \in BOOLEAN /\ sawEof \in BOOLEAN
    /\ reader \in BOOLEAN /\ success \in BOOLEAN /\ fatal \in BOOLEAN
    /\ timeout \in [Hook -> 0 .. MaxTimeout]
    /\ payload \in 1 .. MaxPayload

\* A hook that reads its stdin to the end has the whole container state, however
\* small the pipe, and is not cut short by the runner closing its end.
WholeStateDelivered == sawEof => got = payload

\* In a fatal phase the first hook that fails is the last one that ran, and the
\* phase succeeds only if all its hooks have; in any other phase all hooks run.
PhaseStopsAtFailure ==
    /\ fatal => \A h \in Hook : h < hook => outcome[h] = "ok"
    /\ ~fatal /\ pc = "done" => \A h \in Hook : outcome[h] \notin {"unspawned", "running"}

\* No hook of the phase runs, or is left a zombie, beside the next one or after
\* the phase: create goes on to release the init only when its hooks are gone.
OneHookAtATime == pc \in {"spawn", "done"} => child = "none"

\* A hook is killed for its timeout only if it has one and has had that long.
FullTimeGranted ==
    pc \in {"kill", "reap"} /\ verdict = "timeout" => timeout[hook] > 0 /\ lived >= timeout[hook]

AllTimed == \A h \in Hook : timeout[h] > 0

\* With a timeout on every hook the phase ends, even if every hook hangs, as long
\* as the container state fits into the pipe.
TimeoutsAreHonoured == AllTimed /\ payload <= StdinCapacity => <>(pc = "done")

\* With hooks that do not hang of their own accord and print no more than a
\* pipeful the phase ends without any timeout, however large the state: runner
\* and hook never wait for each other.
NoMutualWait ==
    WF_vars(HookNext) /\ [](stdout + output <= StdoutCapacity) => <>(pc = "done")

\* A timeout bounds its hook whatever the state and whatever the hook does.
TimeoutsAlwaysHonoured == AllTimed => <>(pc = "done")

=============================================================================
