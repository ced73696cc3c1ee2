----------------------------- MODULE HooksProof -----------------------------
(***************************************************************************)
(* The safety of a phase of hooks, for any number of hooks, any timeouts,  *)
(* any size of the container state and any capacity of the pipes.          *)
(***************************************************************************)
EXTENDS Hooks, TLAPS

\* What has been written is in the pipe or has been read; what a hook that is still there finds
\* when its stdin ends is all of it.
PipeInv ==
    /\ got + stdin = written
    /\ pc = "write" => written < payload /\ ~eof
    /\ pc = "close" => ~eof /\ (Alive => written = payload)
    /\ eof /\ Alive => written = payload
    /\ sawEof => stdin = 0 /\ eof /\ got = payload

\* The phase: what has become of the hooks before this one, and of this one at the end.
PhaseInv ==
    /\ pc \in {"spawn", "done"} => child = "none"
    /\ pc \in {"kill", "reap"} => verdict \in {"timeout", "io"}
    /\ fatal => \A h \in Hook : h < hook => outcome[h] = "ok"
    /\ ~fatal => \A h \in Hook : h < hook => outcome[h] \notin {"unspawned", "running"}
    /\ ~fatal /\ pc = "done" => hook = HookCount /\ outcome[hook] \notin {"unspawned", "running"}

\* The time that has passed and the time that is left make up the timeout.
TimeInv ==
    /\ pc \in {"poll", "check"} => timeout[hook] > 0 /\ lived + left >= timeout[hook]
    /\ FullTimeGranted

IInv == TypeOK /\ PipeInv /\ PhaseInv /\ TimeInv

-----------------------------------------------------------------------------
\* What a pipe holds, what has been written and the time are natural numbers.
LEMMA Sizes == TypeOK => /\ payload \in Nat \ {0} /\ written \in Nat /\ got \in Nat /\ stdin \in Nat
                         /\ stdout \in Nat /\ output \in Nat /\ left \in Nat /\ lived \in Nat
                         /\ hook \in Nat /\ timeout[hook] \in 0 .. MaxTimeout
  BY HooksAssumption DEF TypeOK, Hook

LEMMA InitIInv == Init => IInv
<1> SUFFICES ASSUME Init PROVE IInv
  OBVIOUS
<1>1. payload \in Nat \ {0} /\ 1 \in Hook
  BY HooksAssumption DEF Init, Hook
<1>2. outcome \in [Hook -> Outcome]
  BY DEF Init, Outcome
<1>3. TypeOK
  <2>1. /\ 0 \in 0 .. MaxTimeout /\ 0 \in 0 .. payload /\ 0 \in 0 .. StdinCapacity
        /\ 0 \in 0 .. StdoutCapacity /\ 0 \in 0 .. MaxOutput
    BY <1>1, HooksAssumption
  <2>2. QED  BY <1>1, <1>2, <2>1 DEF Init, TypeOK, RunnerPoint
<1>4. PipeInv /\ TimeInv
  BY <1>1 DEF Init, PipeInv, TimeInv, FullTimeGranted, Alive
<1>5. PhaseInv
  BY <1>1 DEF Init, PhaseInv, Hook
<1>6. QED  BY <1>3, <1>4, <1>5 DEF IInv

\* One hook has ended: the phase goes on or is over.
LEMMA EndsPhase ==
    ASSUME TypeOK, PhaseInv, NEW result \in {"ok", "failed", "timeout", "io"}, Ends(result),
           UNCHANGED fatal, child' = "none"
    PROVE  /\ PhaseInv' /\ hook' \in Hook /\ outcome' \in [Hook -> Outcome]
           /\ pc' \in {"spawn", "done"}
<1>1. outcome' = [outcome EXCEPT ![hook] = result] /\ pc' \in {"spawn", "done"} /\ hook \in Hook
  BY DEF Ends, TypeOK
<1>2. outcome' \in [Hook -> Outcome]
  BY <1>1 DEF TypeOK, Outcome
<1>3. CASE hook < HookCount /\ (result = "ok" \/ ~fatal)
  <2>1. pc' = "spawn" /\ hook' = hook + 1 /\ hook' \in Hook
    BY <1>1, <1>3, HooksAssumption DEF Ends, Hook
  <2>2. \A h \in Hook : h < hook' => h < hook \/ h = hook
    BY <1>1, <2>1 DEF Hook
  <2>3. QED  BY <1>1, <1>2, <1>3, <2>1, <2>2 DEF PhaseInv, TypeOK
<1>4. CASE ~(hook < HookCount /\ (result = "ok" \/ ~fatal))
  <2>1. pc' = "done" /\ hook' = hook
    BY <1>4 DEF Ends
  <2>2. \A h \in Hook : h < hook => outcome'[h] = outcome[h]
    BY <1>1 DEF TypeOK, Hook
  <2>3. ~fatal => hook = HookCount /\ outcome'[hook] = result
    BY <1>1, <1>4, HooksAssumption DEF TypeOK, Hook
  <2>4. QED  BY <1>1, <1>2, <2>1, <2>2, <2>3 DEF PhaseInv
<1>5. QED  BY <1>3, <1>4

LEMMA SpawnStep == ASSUME IInv, Spawn PROVE IInv'
<1> USE DEF IInv
<1>1. CASE pc' = "write"
  <2>1. /\ pc = "spawn" /\ child' = "running" /\ outcome' = [outcome EXCEPT ![hook] = "running"]
        /\ written' = 0 /\ eof' = FALSE /\ stdin' = 0 /\ got' = 0 /\ sawEof' = FALSE
        /\ stdout' = 0 /\ output' \in 0 .. MaxOutput /\ reader' \in BOOLEAN
        /\ success' = FALSE /\ lived' = 0 /\ verdict' = "none"
        /\ UNCHANGED <<hook, left, config>>
    BY <1>1 DEF Spawn, Ends
  <2>2. TypeOK'
    <3>1. outcome' \in [Hook -> Outcome]
      BY <2>1 DEF TypeOK, Outcome
    <3>2. 0 \in 0 .. payload' /\ 0 \in 0 .. MaxTimeout /\ 0 \in 0 .. StdinCapacity /\ 0 \in 0 .. StdoutCapacity
      BY <2>1, HooksAssumption, Sizes DEF config
    <3>3. QED  BY <1>1, <2>1, <3>1, <3>2 DEF TypeOK, RunnerPoint, config
  <2>3. PipeInv'
    BY <1>1, <2>1 DEF TypeOK, PipeInv, Alive, config
  <2>4. PhaseInv'
    BY <1>1, <2>1 DEF TypeOK, PhaseInv, config, Hook
  <2>5. TimeInv'
    BY <1>1, <2>1 DEF TimeInv, FullTimeGranted
  <2>6. QED  BY <2>2, <2>3, <2>4, <2>5
<1>2. CASE pc' # "write"
  <2>1. Ends("failed") /\ verdict' = "none" /\ UNCHANGED <<left, written, eof, process, config>> /\ pc = "spawn"
    BY <1>2 DEF Spawn
  <2>2. PhaseInv' /\ hook' \in Hook /\ outcome' \in [Hook -> Outcome] /\ pc' \in {"spawn", "done"}
    BY <2>1, EndsPhase DEF PhaseInv, process, config
  <2>3. TypeOK'
    BY <2>1, <2>2 DEF TypeOK, RunnerPoint, process, config
  <2>4. PipeInv'
    BY <2>1, <2>2 DEF PipeInv, Alive, process, config
  <2>5. QED  BY <2>2, <2>3, <2>4 DEF TimeInv, FullTimeGranted
<1>3. QED  BY <1>1, <1>2

\* Reaping ends the hook.
LEMMA ReapStep ==
    ASSUME IInv, NEW result \in {"ok", "failed", "timeout", "io"}, Ends(result), child' = "none",
           UNCHANGED <<verdict, left, written, eof, stdin, got, sawEof, stdout, output, reader,
                       success, lived, config>>
    PROVE  IInv'
<1> USE DEF IInv
<1>1. PhaseInv' /\ hook' \in Hook /\ outcome' \in [Hook -> Outcome] /\ pc' \in {"spawn", "done"}
  BY EndsPhase DEF config
<1>2. TypeOK'
  BY <1>1 DEF TypeOK, RunnerPoint, config
<1>3. PipeInv'
  BY <1>1 DEF PipeInv, Alive, config
<1>4. QED  BY <1>1, <1>2, <1>3 DEF TimeInv, FullTimeGranted

LEMMA WriteStep == ASSUME IInv, Write \/ WriteFails \/ Close PROVE IInv'
<1> USE DEF IInv
<1>1. /\ UNCHANGED <<hook, outcome, child, got, sawEof, stdout, output, reader, success, lived, config>>
      /\ \/ /\ pc = "write" /\ pc' \in {"write", "close"} /\ stdin < StdinCapacity
            /\ written' = written + 1 /\ stdin' = stdin + 1
            /\ pc' = "write" => written + 1 # payload
            /\ pc' = "close" => written + 1 = payload
            /\ UNCHANGED <<eof, left, verdict>>
         \/ /\ pc = "write" /\ pc' = "close" /\ ~Alive
            /\ UNCHANGED <<written, stdin, eof, left, verdict>>
         \/ /\ pc = "write" /\ pc' = "kill" /\ verdict' = "io"
            /\ UNCHANGED <<written, stdin, eof, left>>
         \/ /\ pc = "close" /\ pc' \in {"poll", "wait"} /\ eof' = TRUE /\ left' = timeout[hook]
            /\ pc' = "poll" => timeout[hook] > 0
            /\ UNCHANGED <<written, stdin, verdict>>
  BY DEF Write, WriteFails, Close, process, config
<1> HIDE DEF IInv
<1>2. TypeOK /\ PipeInv /\ PhaseInv /\ TimeInv
  BY DEF IInv
<1>3. TypeOK'
  <2>1. written' \in 0 .. payload' /\ stdin' \in 0 .. StdinCapacity
    BY <1>1, <1>2, Sizes, HooksAssumption DEF TypeOK, PipeInv, config
  <2>2. left' \in 0 .. MaxTimeout /\ lived' \in 0 .. MaxTimeout /\ verdict' \in {"none", "timeout", "io"}
        /\ eof' \in BOOLEAN /\ pc' \in RunnerPoint
    BY <1>1, <1>2, Sizes DEF TypeOK, RunnerPoint
  <2>3. QED  BY <1>1, <1>2, <2>1, <2>2 DEF TypeOK, config
<1>4. PipeInv'
  BY <1>1, <1>2, Sizes DEF PipeInv, TypeOK, Alive, config
<1>5. PhaseInv'
  BY <1>1, <1>2 DEF PhaseInv, config
<1>6. TimeInv'
  BY <1>1, <1>2, Sizes DEF TimeInv, FullTimeGranted, config
<1>7. QED  BY <1>3, <1>4, <1>5, <1>6 DEF IInv

LEMMA WaitStep == ASSUME IInv, Wait \/ Poll \/ Check \/ Kill \/ ReapKilled PROVE IInv'
<1>1. CASE Wait \/ (Poll /\ Reap)
  BY <1>1, ReapStep DEF Wait, Reap
<1>2. CASE ReapKilled
  BY <1>2, ReapStep DEF ReapKilled, IInv, PhaseInv
<1>3. CASE (Poll /\ ~Reap) \/ Check \/ Kill
  <2> USE DEF IInv
  <2>1. UNCHANGED <<hook, outcome, written, left, eof, stdin, got, sawEof, stdout, output, reader, success,
                    lived, config>>
    BY <1>3 DEF Poll, Check, Kill, process, config
  <2>2. /\ child' \in {child, "dying"} /\ (child' # child => child = "running")
        /\ \/ pc = "poll" /\ pc' = "check" /\ verdict' = verdict
           \/ pc = "check" /\ pc' = "poll" /\ verdict' = verdict
           \/ pc = "check" /\ pc' = "kill" /\ verdict' = "timeout" /\ left = 0
           \/ pc = "kill" /\ pc' = "reap" /\ verdict' = verdict
    BY <1>3 DEF Poll, Check, Kill, process
  <2>3. TypeOK'
    BY <2>1, <2>2 DEF TypeOK, RunnerPoint, config
  <2>4. PipeInv'
    BY <2>1, <2>2 DEF PipeInv, Alive, config
  <2>5. PhaseInv'
    BY <2>1, <2>2 DEF PhaseInv, config
  <2>6. TimeInv'
    BY <2>1, <2>2 DEF TypeOK, TimeInv, FullTimeGranted, config, Hook
  <2>7. QED  BY <2>3, <2>4, <2>5, <2>6
<1>4. QED  BY <1>1, <1>2, <1>3

LEMMA HookStep == ASSUME IInv, HookNext \/ Dies PROVE IInv'
<1> USE DEF IInv
<1>1. UNCHANGED <<runner, lived, config>>
  BY DEF HookNext, ReadStdin, PrintStdout, Exit, Dies
<1>2. TypeOK'
  <2>1. CASE ReadStdin
    <3>1. got' \in 0 .. payload' /\ stdin' \in 0 .. StdinCapacity
      BY <1>1, <2>1, Sizes, HooksAssumption DEF TypeOK, PipeInv, ReadStdin, runner, config
    <3>2. QED  BY <1>1, <2>1, <3>1 DEF TypeOK, ReadStdin, runner, config
  <2>2. CASE PrintStdout
    <3>1. output' \in 0 .. MaxOutput /\ stdout' \in 0 .. StdoutCapacity
      BY <2>2, HooksAssumption DEF TypeOK, PrintStdout
    <3>2. QED  BY <1>1, <2>2, <3>1 DEF TypeOK, PrintStdout, runner, config
  <2>3. CASE Exit \/ Dies
    BY <1>1, <2>3 DEF TypeOK, Exit, Dies, runner, config
  <2>4. QED  BY <2>1, <2>2, <2>3 DEF HookNext
<1>3. PipeInv'
  BY <1>1 DEF TypeOK, PipeInv, Alive, HookNext, ReadStdin, PrintStdout, Exit, Dies, runner, config
<1>4. PhaseInv'
  BY <1>1 DEF PhaseInv, HookNext, ReadStdin, PrintStdout, Exit, Dies, runner, config
<1>5. TimeInv'
  BY <1>1 DEF TimeInv, FullTimeGranted, runner, config
<1>6. QED  BY <1>2, <1>3, <1>4, <1>5

LEMMA TickStep == ASSUME IInv, Tick PROVE IInv'
<1> USE DEF IInv
<1>1. TypeOK'
  BY HooksAssumption DEF TypeOK, Tick, config
<1>2. PipeInv' /\ PhaseInv'
  BY DEF PipeInv, PhaseInv, Alive, Tick, config
<1>3. timeout[hook] \in 0 .. MaxTimeout
  BY DEF TypeOK
<1>4. TimeInv'
  BY <1>3, HooksAssumption DEF TypeOK, TimeInv, FullTimeGranted, Tick, config
<1>5. QED  BY <1>1, <1>2, <1>4

LEMMA NextIInv == IInv /\ [Next]_vars => IInv'
<1> SUFFICES ASSUME IInv, [Next]_vars PROVE IInv'
  OBVIOUS
<1>1. CASE UNCHANGED vars
  BY <1>1 DEF vars, runner, process, config, IInv, TypeOK, PipeInv, PhaseInv, TimeInv, FullTimeGranted, Alive
<1>2. CASE Next
  BY <1>2, SpawnStep, WriteStep, WaitStep, HookStep, TickStep DEF Next, RunnerNext
<1>3. QED  BY <1>1, <1>2

LEMMA Invariance == Spec => []IInv
  BY InitIInv, NextIInv, PTL DEF Spec

-----------------------------------------------------------------------------
\* The types of a phase's variables: in particular the pipes never hold more than they can and
\* the runner never writes more than there is (one's write_all).
THEOREM TypeCorrect == Spec => []TypeOK
<1>1. IInv => TypeOK
  BY DEF IInv
<1>2. QED  BY <1>1, Invariance, PTL

\* A hook that reads its stdin to the end has read the whole container state, however large and
\* however small the pipe (one's write_all and drop).
THEOREM StateArrives == Spec => []WholeStateDelivered
<1>1. IInv => WholeStateDelivered
  BY DEF IInv, PipeInv, WholeStateDelivered
<1>2. QED  BY <1>1, Invariance, PTL

\* A fatal phase goes no further than its first failure, any other one to its end (run's match
\* on the outcome).
THEOREM FailureStopsFatal == Spec => []PhaseStopsAtFailure
<1>1. IInv => PhaseStopsAtFailure
  BY DEF IInv, TypeOK, PhaseInv, PhaseStopsAtFailure, Hook
<1>2. QED  BY <1>1, Invariance, PTL

\* Hooks do not overlap, and none is left over (one's wait after every kill).
THEOREM HooksAreSequential == Spec => []OneHookAtATime
<1>1. IInv => OneHookAtATime
  BY DEF IInv, PhaseInv, OneHookAtATime
<1>2. QED  BY <1>1, Invariance, PTL

\* No hook is killed before its time (one's deadline).
THEOREM NoEarlyKill == Spec => []FullTimeGranted
<1>1. IInv => FullTimeGranted
  BY DEF IInv, TimeInv
<1>2. QED  BY <1>1, Invariance, PTL

=============================================================================
