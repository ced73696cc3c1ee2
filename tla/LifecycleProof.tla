--------------------------- MODULE LifecycleProof ---------------------------
(***************************************************************************)
(* The safety of the commands on an existing container, for any number of  *)
(* commands at the same time and any number of processes in the container. *)
(* Types and control are proved first; each property then has a small      *)
(* invariant of its own, which uses them.                                  *)
(***************************************************************************)
EXTENDS Lifecycle, TLAPS

\* Which commands reach a control point.
Control ==
    \A c \in Clients :
        /\ pc[c] = "checkFrozen" => op[c] \in {"pause", "resume"}
        /\ pc[c] \in {"wasFrozen", "procs"} => op[c] \in {"killAll", "deleteForce"}
        /\ pc[c] \in {"freeze", "awaitFrozen"} => op[c] \in {"pause", "killAll"}
        /\ pc[c] \in {"thaw", "awaitThawed"} => op[c] \in {"resume", "killAll", "deleteForce"}
        /\ pc[c] = "signal" => op[c] \in {"kill", "killAll", "deleteForce"}
        /\ pc[c] = "awaitDead" => op[c] = "deleteForce"
        /\ pc[c] \in {"poststart", "supervise"} => op[c] \in Foreground
        /\ pc[c] = "destroy" => op[c] \in {"delete", "deleteForce"} \cup Foreground
        /\ pc[c] = "poststop" => op[c] \in {"delete", "deleteForce"} \cup Foreground
        /\ pc[c] = "remove" => op[c] \in {"delete", "deleteForce", "run"}
        /\ op[c] \in Foreground =>
             pc[c] \in {"poststart", "supervise", "poststop", "destroy", "remove", "ok"}

Base == TypeOK /\ Control

-----------------------------------------------------------------------------
LEMMA InitBase == Init => Base
<1> SUFFICES ASSUME Init PROVE Base
  OBVIOUS
<1>1. process \in [Process -> ProcessState]
  BY DEF Init, ProcessState
<1>2. TypeOK
  BY <1>1 DEF Init, TypeOK, ClientPoint, Terminal
<1>3. Control
  BY DEF Init, Control, Foreground
<1>4. QED  BY <1>2, <1>3 DEF Base

\* A command changes only its own variables, and no process.
LEMMA ClientFrame ==
    ASSUME Base, NEW c \in Clients, ClientNext(c)
    PROVE  /\ UNCHANGED <<op, process, config>>
           /\ (~cgroup => ~cgroup') /\ (gaveUp[c] => gaveUp'[c])
           /\ \A d \in Clients : d # c => /\ pc'[d] = pc[d] /\ late'[d] = late[d] /\ was'[d] = was[d]
                                          /\ todo'[d] = todo[d] /\ result'[d] = result[d]
                                          /\ gaveUp'[d] = gaveUp[d]
<1> USE DEF Base, TypeOK, Goto, GiveUp, kernelVars, config
<1>1. CASE Load(c) \/ CheckAlive(c) \/ CheckFrozen(c) \/ WasFrozen(c)
  BY <1>1 DEF Load, CheckAlive, CheckFrozen, WasFrozen
<1>2. CASE WriteFreeze(c) \/ AwaitFrozen(c) \/ ReadProcs(c) \/ WriteThaw(c) \/ AwaitThawed(c)
  BY <1>2 DEF WriteFreeze, AwaitFrozen, ReadProcs, WriteThaw, AwaitThawed
<1>3. CASE SignalInit(c) \/ SignalNext(c) \/ SignalledAll(c)
  BY <1>3 DEF SignalInit, SignalNext, SignalledAll, Strike
<1>4. CASE AwaitDead(c) \/ Poststart(c) \/ Supervise(c)
  BY <1>4 DEF AwaitDead, Poststart, Supervise
<1>5. CASE Destroy(c) \/ Poststop(c) \/ Remove(c)
  <2>1. PICK point : pc' = [pc EXCEPT ![c] = point]
    BY <1>5 DEF Destroy, Poststop, Remove
  <2>2. UNCHANGED <<op, late, was, todo, result, gaveUp, process, config>> /\ (~cgroup => ~cgroup')
    BY <1>5 DEF Destroy, Poststop, Remove
  <2>3. QED  BY <2>1, <2>2
<1>6. QED  BY <1>1, <1>2, <1>3, <1>4, <1>5 DEF ClientNext

LEMMA ClientBase == ASSUME Base, NEW c \in Clients, ClientNext(c) PROVE Base'
<1> USE DEF Base, TypeOK, Control, Goto, GiveUp, kernelVars, config, ClientPoint, Terminal, Foreground
<1>1. CASE Load(c)
  BY <1>1 DEF Load
<1>2. CASE CheckAlive(c)
  <2>1. op[c] \in AllOperations \ Foreground
    BY <1>2, LifecycleAssumption DEF CheckAlive
  <2>2. PICK point \in {"signal", "wasFrozen", "checkFrozen", "err", "destroy"} :
            /\ pc' = [pc EXCEPT ![c] = point]
            /\ point = "signal" => op[c] = "kill"
            /\ point = "wasFrozen" => op[c] \in {"killAll", "deleteForce"}
            /\ point = "checkFrozen" => op[c] \in {"pause", "resume"}
            /\ point = "destroy" => op[c] \in {"delete", "deleteForce"}
    BY <1>2, <2>1 DEF CheckAlive, AllOperations
  <2>3. UNCHANGED <<op, late, was, todo, result, gaveUp, kernelVars, struck, saved, config>>
    BY <1>2 DEF CheckAlive
  <2>4. TypeOK'
    BY <2>2, <2>3
  <2>5. Control'
    BY <2>1, <2>2, <2>3
  <2>6. QED  BY <2>4, <2>5
<1>3. CASE CheckFrozen(c) \/ WasFrozen(c)
  BY <1>3 DEF CheckFrozen, WasFrozen, IsFrozen
<1>4. CASE WriteFreeze(c)
  <2>1. PICK point \in {"awaitFrozen", "err"} : pc' = [pc EXCEPT ![c] = point]
    BY <1>4 DEF WriteFreeze
  <2>2. pc[c] = "freeze" /\ freezing' \in BOOLEAN
        /\ UNCHANGED <<op, late, was, todo, result, gaveUp, process, dying, cgroup, frozen, struck, saved, config>>
    BY <1>4 DEF WriteFreeze
  <2>3. TypeOK'
    BY <2>1, <2>2
  <2>4. Control'
    BY <2>1, <2>2
  <2>5. QED  BY <2>3, <2>4
<1>5. CASE WriteThaw(c)
  <2>1. PICK point \in {"awaitThawed", "err"} : pc' = [pc EXCEPT ![c] = point]
    BY <1>5 DEF WriteThaw
  <2>2. pc[c] = "thaw" /\ freezing' \in BOOLEAN
        /\ UNCHANGED <<op, late, was, todo, result, gaveUp, process, dying, cgroup, frozen, struck, saved, config>>
    BY <1>5 DEF WriteThaw
  <2>3. TypeOK'
    BY <2>1, <2>2
  <2>4. Control'
    BY <2>1, <2>2
  <2>5. QED  BY <2>3, <2>4
<1>6. CASE AwaitFrozen(c)
  <2>1. PICK point \in {"ok", "procs", "err"} :
            /\ pc' = [pc EXCEPT ![c] = point]
            /\ point = "procs" => op[c] = "killAll"
    BY <1>6 DEF AwaitFrozen
  <2>2. gaveUp' \in [Clients -> BOOLEAN]
    BY <1>6 DEF AwaitFrozen
  <2>3. UNCHANGED <<op, late, was, todo, result, kernelVars, struck, saved, config>>
    BY <1>6 DEF AwaitFrozen
  <2>4. TypeOK'
    BY <2>1, <2>2, <2>3
  <2>5. Control'
    BY <2>1, <2>3, <1>6 DEF AwaitFrozen
  <2>6. QED  BY <2>4, <2>5
<1>7. CASE AwaitThawed(c)
  <2>1. PICK point \in {"ok", "procs", "err"} :
            /\ pc' = [pc EXCEPT ![c] = point]
            /\ point = "procs" => op[c] = "deleteForce"
    <3>1. CASE IsFrozen
      BY <1>7, <3>1 DEF AwaitThawed
    <3>2. CASE ~IsFrozen /\ op[c] = "killAll"
      BY <1>7, <3>2 DEF AwaitThawed
    <3>3. CASE ~IsFrozen /\ op[c] # "killAll"
      BY <1>7, <3>3 DEF AwaitThawed
    <3>4. QED  BY <3>1, <3>2, <3>3
  <2>2. gaveUp' \in [Clients -> BOOLEAN]
    BY <1>7 DEF AwaitThawed
  <2>3. UNCHANGED <<op, late, was, todo, result, kernelVars, struck, saved, config>>
    BY <1>7 DEF AwaitThawed
  <2>4. TypeOK'
    BY <2>1, <2>2, <2>3
  <2>5. Control'
    BY <2>1, <2>3, <1>7 DEF AwaitThawed
  <2>6. QED  BY <2>4, <2>5
<1>8. CASE ReadProcs(c)
  BY <1>8 DEF ReadProcs, Running
<1>9. CASE SignalInit(c)
  BY <1>9 DEF SignalInit, Strike, Process
<1>10. CASE SignalNext(c)
  <2>1. TypeOK'
    BY <1>10 DEF SignalNext, Strike
  <2>2. Control'
    BY <1>10 DEF SignalNext
  <2>3. QED  BY <2>1, <2>2
<1>11. CASE SignalledAll(c)
  BY <1>11 DEF SignalledAll
<1>12. CASE AwaitDead(c) \/ Destroy(c) \/ Poststop(c) \/ Remove(c) \/ Poststart(c) \/ Supervise(c)
  <2>1. PICK point \in {"supervise", "poststop", "destroy", "remove", "ok", "err"} :
            /\ pc' = [pc EXCEPT ![c] = point]
            /\ point = "supervise" => op[c] \in Foreground
            /\ point = "poststop" => op[c] \in {"delete", "deleteForce"} \cup Foreground
            /\ point = "destroy" => op[c] \in {"deleteForce"} \cup Foreground
            /\ point = "err" => op[c] \in {"delete", "deleteForce"}
            /\ point = "remove" => op[c] \in {"delete", "deleteForce", "run"}
    BY <1>12 DEF AwaitDead, Destroy, Poststop, Remove, Poststart, Supervise
  <2>2. UNCHANGED <<op, late, was, todo, result, process, dying, freezing, frozen, struck, config>>
        /\ gaveUp' \in [Clients -> BOOLEAN] /\ saved' \in BOOLEAN /\ cgroup' \in BOOLEAN
    BY <1>12 DEF AwaitDead, Destroy, Poststop, Remove, Poststart, Supervise
  <2>3. TypeOK'
    BY <2>1, <2>2
  <2>4. Control'
    BY <2>1, <2>2
  <2>5. QED  BY <2>3, <2>4
<1>13. QED
  BY <1>1, <1>2, <1>3, <1>4, <1>5, <1>6, <1>7, <1>8, <1>9, <1>10, <1>11, <1>12
     DEF ClientNext

LEMMA ProcessBase ==
    ASSUME Base, NEW p \in Process,
           Exit(p) \/ Die(p) \/ Reap(p) \/ Recycle(p) \/ \E w \in Workers : Fork(p, w)
    PROVE  Base'
<1>1. UNCHANGED processFrame
  BY DEF Exit, Die, Reap, Recycle, Fork
<1>2. process' \in [Process -> ProcessState] /\ dying' \subseteq Process
  BY DEF Base, TypeOK, Exit, Die, Reap, Recycle, Fork, ProcessState, Process
<1>3. QED  BY <1>1, <1>2 DEF Base, TypeOK, Control, processFrame, clientVars, config

LEMMA NextBase == Base /\ [Next]_vars => Base'
<1> SUFFICES ASSUME Base, [Next]_vars PROVE Base'
  OBVIOUS
<1>1. CASE UNCHANGED vars
  BY <1>1 DEF vars, clientVars, kernelVars, config, Base, TypeOK, Control
<1>2. CASE Settle
  BY <1>2 DEF Settle, clientVars, config, Base, TypeOK, Control
<1>3. QED  BY <1>1, <1>2, ClientBase, ProcessBase DEF Next

LEMMA BaseInvariance == Spec => []Base
  BY InitBase, NextBase, PTL DEF Spec

\* The types of the commands' and the kernel's variables: in particular every branch on the kind of
\* command covers the commands that get there (kill, pause and delete in container/mod.rs).
THEOREM TypeCorrect == Spec => []TypeOK
<1>1. Base => TypeOK
  BY DEF Base
<1>2. QED  BY <1>1, BaseInvariance, PTL

-----------------------------------------------------------------------------
(***************************************************************************)
(* Commands called after the end of the init.                              *)
(***************************************************************************)
\* What the processes do, as the commands see it.
LEMMA ProcessFrame ==
    ASSUME Base, NEW p \in Process,
           Exit(p) \/ Die(p) \/ Reap(p) \/ Recycle(p) \/ \E w \in Workers : Fork(p, w)
    PROVE  /\ UNCHANGED processFrame
           /\ process["init"] \in {"gone", "stranger"} => process'["init"] \in {"gone", "stranger"}
           /\ ~Alive => ~Alive'
<1>1. UNCHANGED processFrame
  BY DEF Exit, Die, Reap, Recycle, Fork
<1>2. "init" \in Process
  BY DEF Process
<1>3. CASE Exit(p) \/ Die(p) \/ Reap(p) \/ Recycle(p)
  BY <1>1, <1>2, <1>3 DEF Base, TypeOK, Exit, Die, Reap, Recycle, Running, Alive
<1>4. ASSUME NEW w \in Workers, Fork(p, w) PROVE process'["init"] = process["init"]
  BY <1>2, <1>4, LifecycleAssumption DEF Base, TypeOK, Fork
<1>5. QED  BY <1>1, <1>3, <1>4 DEF Alive

StoppedInv ==
    \A c \in Clients :
        /\ pc[c] = "load" => c \notin struck /\ ~late[c]
        /\ late[c] => /\ process["init"] \in {"gone", "stranger"}
                      /\ c \notin struck
                      /\ pc[c] \in {"alive", "destroy", "poststop", "remove", "ok", "err"}
                      /\ op[c] \in {"kill", "killAll", "pause", "resume"} => pc[c] \in {"alive", "err"}

LEMMA StoppedStep == StoppedInv /\ Base /\ [Next]_vars => StoppedInv'
<1> SUFFICES ASSUME StoppedInv, Base, [Next]_vars PROVE StoppedInv'
  OBVIOUS
<1> USE DEF StoppedInv
<1>1. ASSUME NEW c \in Clients, ClientNext(c) PROVE StoppedInv'
  <2>1. struck' \subseteq struck \cup {c}
    BY <1>1 DEF ClientNext, Load, CheckAlive, CheckFrozen, WasFrozen, WriteFreeze, AwaitFrozen, ReadProcs,
       WriteThaw, AwaitThawed, SignalInit, SignalNext, SignalledAll, AwaitDead, Destroy, Poststop, Remove, Strike,
       Poststart, Supervise
  <2>2. \A d \in Clients : d # c => late'[d] = late[d] /\ pc'[d] = pc[d]
    BY <1>1, ClientFrame
  <2>3. UNCHANGED <<op, process>>
    BY <1>1, ClientFrame
  <2>4. /\ pc'[c] = "load" => c \notin struck' /\ ~late'[c]
        /\ late'[c] => /\ process["init"] \in {"gone", "stranger"}
                       /\ c \notin struck'
                       /\ pc'[c] \in {"alive", "destroy", "poststop", "remove", "ok", "err"}
                       /\ op[c] \in {"kill", "killAll", "pause", "resume"} => pc'[c] \in {"alive", "err"}
    <3> USE DEF Base, TypeOK, Control, Goto
    <3>1. CASE Load(c)
      BY <1>1, <3>1 DEF Load
    <3>2. CASE CheckAlive(c)
      <4>1. late' = late /\ struck' = struck /\ pc[c] = "alive"
        BY <3>2 DEF CheckAlive
      <4>2. pc'[c] # "load"
        BY <3>2, LifecycleAssumption DEF CheckAlive, AllOperations, Foreground
      <4>3. ASSUME late[c]
            PROVE  /\ pc'[c] \in {"destroy", "err"}
                   /\ op[c] \in {"kill", "killAll", "pause", "resume"} => pc'[c] = "err"
        <5>1. ~Alive
          BY <1>1, <4>3 DEF Alive
        <5>2. QED  BY <3>2, <5>1 DEF CheckAlive
      <4>4. pc[c] # "load" /\ (late[c] => process["init"] \in {"gone", "stranger"} /\ c \notin struck)
        BY <1>1, <4>1
      <4>5. QED  BY <4>1, <4>2, <4>3, <4>4
    <3>3. CASE Destroy(c) \/ Poststop(c) \/ Remove(c)
      <4>1. /\ late' = late /\ struck' = struck /\ pc[c] \in {"destroy", "poststop", "remove"}
            /\ pc'[c] \in {"destroy", "poststop", "remove", "ok", "err"}
            /\ op[c] \in {"delete", "deleteForce"} \cup Foreground
        <5>1. CASE Destroy(c)
          BY <5>1 DEF Destroy, Foreground
        <5>2. CASE Poststop(c)
          BY <5>2 DEF Poststop
        <5>3. CASE Remove(c)
          BY <5>3 DEF Remove, Foreground
        <5>4. QED  BY <3>3, <5>1, <5>2, <5>3
      <4>2. QED  BY <1>1, <4>1 DEF Foreground
    <3>4. CASE ~(Load(c) \/ CheckAlive(c) \/ Destroy(c) \/ Poststop(c) \/ Remove(c))
      <4>1. ~late[c] /\ late'[c] = late[c]
        BY <1>1, <3>4 DEF ClientNext, CheckFrozen, WasFrozen, WriteFreeze, AwaitFrozen, ReadProcs,
           WriteThaw, AwaitThawed, SignalInit, SignalNext, SignalledAll, AwaitDead, Poststart, Supervise
      <4>2. pc'[c] # "load"
        BY <1>1, <3>4 DEF ClientNext, CheckFrozen, WasFrozen, WriteFreeze, AwaitFrozen, ReadProcs,
           WriteThaw, AwaitThawed, SignalInit, SignalNext, SignalledAll, AwaitDead, Terminal,
           Poststart, Supervise
      <4>3. QED  BY <4>1, <4>2
    <3>5. QED  BY <3>1, <3>2, <3>3, <3>4
  <2>5. QED  BY <2>1, <2>2, <2>3, <2>4
<1>2. ASSUME NEW p \in Process,
             Exit(p) \/ Die(p) \/ Reap(p) \/ Recycle(p) \/ \E w \in Workers : Fork(p, w)
      PROVE  StoppedInv'
  BY <1>2, ProcessFrame DEF processFrame, clientVars
<1>3. CASE Settle \/ UNCHANGED vars
  BY <1>3 DEF Settle, vars, clientVars, kernelVars
<1>4. QED  BY <1>1, <1>2, <1>3 DEF Next

\* A command called after the init is gone recognises that, whoever has its pid by then, and signals
\* nobody (alive in state.rs compares the start time).
THEOREM StoppedIsKnown == Spec => []StoppedIsRecognised
<1>1. Init => StoppedInv
  BY DEF Init, StoppedInv
<1>2. StoppedInv => StoppedIsRecognised
  BY DEF StoppedInv, StoppedIsRecognised, Returned
<1>3. QED  BY <1>1, <1>2, StoppedStep, BaseInvariance, PTL DEF Spec

-----------------------------------------------------------------------------
(***************************************************************************)
(* delete and delete --force.                                              *)
(***************************************************************************)
\* A pid namespace has no processes without its init.
NamespaceInv == pidNamespace /\ process["init"] # "running" => \A p \in Process : process[p] # "running"

LEMMA NamespaceStep == NamespaceInv /\ Base /\ [Next]_vars => NamespaceInv'
<1> SUFFICES ASSUME NamespaceInv, Base, [Next]_vars PROVE NamespaceInv'
  OBVIOUS
<1> USE DEF NamespaceInv, Base, TypeOK
<1>1. ASSUME NEW c \in Clients, ClientNext(c) PROVE NamespaceInv'
  BY <1>1, ClientFrame DEF config
<1>2. ASSUME NEW p \in Process, Exit(p) \/ Reap(p) \/ Recycle(p) PROVE NamespaceInv'
  BY <1>2 DEF Exit, Reap, Recycle, processFrame, config, Process
<1>3. ASSUME NEW p \in Process, Die(p) PROVE NamespaceInv'
  <2>1. pidNamespace /\ p = "init" => \A q \in Process : process[q] = "running" => q = "init"
    BY <1>3 DEF Die, Running
  <2>2. process' = [process EXCEPT ![p] = "zombie"] /\ UNCHANGED pidNamespace
    BY <1>3 DEF Die, processFrame, config
  <2>3. QED  BY <2>1, <2>2 DEF Process
<1>4. ASSUME NEW p \in Process, NEW w \in Workers, Fork(p, w) PROVE NamespaceInv'
  <2>1. process[p] = "running" /\ process' = [process EXCEPT ![w] = "running"] /\ UNCHANGED pidNamespace
    BY <1>4 DEF Fork, Active, Running, processFrame, config
  <2>2. process'["init"] = process["init"]
    BY <2>1, LifecycleAssumption DEF Process
  <2>3. QED  BY <2>1, <2>2
<1>5. CASE Settle \/ UNCHANGED vars
  BY <1>5 DEF Settle, vars, kernelVars, config
<1>6. QED  BY <1>1, <1>2, <1>3, <1>4, <1>5 DEF Next

Patient == \A d \in Clients : ~gaveUp[d]
Released == ~Alive /\ (pidNamespace => ~cgroup)

\* Before the cgroup is destroyed the init is dead; before state.json goes the cgroup is.
DeleteInv ==
    Patient => \A c \in Clients :
        /\ pc[c] \in {"poststop", "destroy"} => ~Alive
        /\ pc[c] = "poststop" /\ op[c] \in {"delete", "deleteForce"} => Released
        /\ pc[c] = "remove" => Released
        /\ ~saved => Released
        /\ pc[c] = "ok" /\ op[c] \in {"delete", "deleteForce"} => Released

LEMMA DeleteStep == DeleteInv /\ NamespaceInv /\ Base /\ [Next]_vars => DeleteInv'
<1> SUFFICES ASSUME DeleteInv, NamespaceInv, Base, [Next]_vars, Patient' PROVE DeleteInv'
  BY DEF DeleteInv
<1>1. ASSUME NEW c \in Clients, ClientNext(c) PROVE DeleteInv'
  <2>1. /\ UNCHANGED <<op, process, config>> /\ (~cgroup => ~cgroup')
        /\ \A d \in Clients : d # c => pc'[d] = pc[d]
    BY <1>1, ClientFrame
  <2>2. Patient
    BY <1>1, ClientFrame DEF Patient
  <2>3. (~Alive => ~Alive') /\ (Released => Released')
    BY <2>1 DEF Alive, Released, config
  <2>4. saved' = saved \/ pc[c] = "remove"
    BY <1>1 DEF ClientNext, Load, CheckAlive, CheckFrozen, WasFrozen, WriteFreeze, AwaitFrozen, ReadProcs,
       WriteThaw, AwaitThawed, SignalInit, SignalNext, SignalledAll, AwaitDead, Destroy, Poststop, Remove,
       Poststart, Supervise
  <2>5. /\ pc'[c] \in {"poststop", "destroy"} => ~Alive
        /\ pc'[c] = "poststop" /\ op[c] \in {"delete", "deleteForce"} => Released'
        /\ pc'[c] = "remove" => Released'
        /\ pc'[c] = "ok" /\ op[c] \in {"delete", "deleteForce"} => Released
    <3> USE DEF Base, TypeOK, Control, Goto, DeleteInv
    <3>1. CASE Load(c)
      BY <2>2, <3>1 DEF Load
    <3>2. CASE CheckAlive(c)
      BY <3>2, LifecycleAssumption DEF CheckAlive, AllOperations, Foreground
    <3>3. CASE CheckFrozen(c) \/ WasFrozen(c) \/ WriteFreeze(c) \/ ReadProcs(c) \/ WriteThaw(c)
      BY <3>3 DEF CheckFrozen, WasFrozen, WriteFreeze, ReadProcs, WriteThaw
    <3>4. CASE AwaitFrozen(c)
      BY <3>4 DEF AwaitFrozen
    <3>5. CASE AwaitThawed(c)
      <4>1. pc[c] = "awaitThawed" /\ pc'[c] \in {"ok", "err", "procs"}
        BY <3>5 DEF AwaitThawed, Terminal
      <4>2. op[c] \in {"delete", "deleteForce"} => pc'[c] # "ok"
        BY <3>5 DEF AwaitThawed
      <4>3. QED  BY <4>1, <4>2
    <3>6. CASE SignalInit(c) \/ SignalNext(c)
      BY <3>6 DEF SignalInit, SignalNext
    <3>7. CASE SignalledAll(c)
      BY <3>7 DEF SignalledAll, Terminal
    <3>8. CASE AwaitDead(c)
      BY <1>1, <3>8 DEF AwaitDead, GiveUp, Patient
    <3>9. CASE Destroy(c)
      <4>1. /\ ~Alive /\ cgroup' = (cgroup /\ Running # {})
            /\ pc'[c] \in {"poststop", "remove"} \/ (pc'[c] = "ok" /\ op[c] = "runKeep")
        <5>1. pc[c] = "destroy" /\ op[c] \in {"delete", "deleteForce", "run", "runKeep"}
          BY <3>9 DEF Destroy, Foreground
        <5>2. QED  BY <2>2, <3>9, <5>1 DEF Destroy
      <4>2. pidNamespace => Running = {}
        BY <4>1 DEF NamespaceInv, Alive, Running
      <4>3. QED  BY <2>1, <4>1, <4>2 DEF Released, Alive, config
    <3>10. CASE Poststop(c) \/ Remove(c)
      BY <2>2, <2>3, <3>10 DEF Poststop, Remove, Foreground
    <3>11. CASE Poststart(c) \/ Supervise(c)
      BY <3>11 DEF Poststart, Supervise, Alive, Foreground
    <3>12. QED
      BY <1>1, <3>1, <3>2, <3>3, <3>4, <3>5, <3>6, <3>7, <3>8, <3>9, <3>10, <3>11 DEF ClientNext
  <2>6. QED  BY <2>1, <2>2, <2>3, <2>4, <2>5 DEF DeleteInv
<1>2. ASSUME NEW p \in Process,
             Exit(p) \/ Die(p) \/ Reap(p) \/ Recycle(p) \/ \E w \in Workers : Fork(p, w)
      PROVE  DeleteInv'
  <2>1. UNCHANGED <<op, pc, gaveUp, saved, cgroup, pidNamespace>> /\ (~Alive => ~Alive')
    BY <1>2, ProcessFrame DEF processFrame, clientVars, config
  <2>2. QED  BY <2>1 DEF DeleteInv, Patient, Released
<1>3. CASE Settle \/ UNCHANGED vars
  BY <1>3 DEF Settle, vars, clientVars, kernelVars, config, DeleteInv, Patient, Released, Alive
<1>4. QED  BY <1>1, <1>2, <1>3 DEF Next

LEMMA DeleteInvariance == Spec => []DeleteInv
<1>1. Init => NamespaceInv /\ DeleteInv
  BY DEF Init, NamespaceInv, DeleteInv, Process, Foreground
<1>2. QED  BY <1>1, NamespaceStep, DeleteStep, BaseInvariance, PTL DEF Spec

\* run goes on when it has reaped the init, however long that took.
RunInv ==
    \A c \in Clients : op[c] \in Foreground =>
        /\ pc[c] \in {"poststop", "destroy", "remove", "ok"} => ~Alive
        /\ pc[c] \in {"remove", "ok"} => Released

LEMMA RunStep == RunInv /\ NamespaceInv /\ Base /\ [Next]_vars => RunInv'
<1> SUFFICES ASSUME RunInv, NamespaceInv, Base, [Next]_vars PROVE RunInv'
  OBVIOUS
<1>1. ASSUME NEW c \in Clients, ClientNext(c) PROVE RunInv'
  <2>1. /\ UNCHANGED <<op, process, config>> /\ (~cgroup => ~cgroup')
        /\ \A d \in Clients : d # c => pc'[d] = pc[d]
    BY <1>1, ClientFrame
  <2>2. (~Alive => ~Alive') /\ (Released => Released')
    BY <2>1 DEF Alive, Released, config
  <2>3. ASSUME op[c] \in Foreground
        PROVE  /\ pc'[c] \in {"poststop", "destroy", "remove", "ok"} => ~Alive
               /\ pc'[c] \in {"remove", "ok"} => Released'
    <3>1. pc[c] \in {"poststart", "supervise", "poststop", "destroy", "remove", "ok"}
      BY <1>1, <2>3 DEF Base, Control
    <3>2. Poststart(c) \/ Supervise(c) \/ Destroy(c) \/ Poststop(c) \/ Remove(c)
      BY <1>1, <3>1 DEF ClientNext, Load, CheckAlive, CheckFrozen, WasFrozen, WriteFreeze, AwaitFrozen,
         ReadProcs, WriteThaw, AwaitThawed, SignalInit, SignalNext, SignalledAll, AwaitDead
    <3>3. CASE Poststart(c) \/ Supervise(c)
      BY <3>3 DEF Poststart, Supervise, Goto, Alive, Base, TypeOK
    <3>4. CASE Destroy(c)
      <4>1. pc[c] = "destroy" /\ cgroup' = (cgroup /\ Running # {})
        BY <3>4 DEF Destroy
      <4>2. ~Alive
        BY <1>1, <2>3, <4>1 DEF RunInv
      <4>3. pidNamespace => Running = {}
        BY <4>2 DEF NamespaceInv, Alive, Running
      <4>4. QED  BY <2>1, <4>1, <4>2, <4>3 DEF Released, Alive, config
    <3>5. CASE Poststop(c)
      <4>1. pc[c] = "poststop" /\ pc'[c] = "destroy"
        BY <2>3, <3>5 DEF Poststop, Goto, Base, TypeOK
      <4>2. QED  BY <1>1, <2>2, <2>3, <4>1 DEF RunInv
    <3>7. CASE Remove(c)
      <4>1. pc[c] = "remove"
        BY <3>7 DEF Remove
      <4>2. QED  BY <1>1, <2>2, <2>3, <4>1 DEF RunInv
    <3>8. QED  BY <3>2, <3>3, <3>4, <3>5, <3>7
  <2>4. QED  BY <2>1, <2>2, <2>3 DEF RunInv
<1>2. ASSUME NEW p \in Process,
             Exit(p) \/ Die(p) \/ Reap(p) \/ Recycle(p) \/ \E w \in Workers : Fork(p, w)
      PROVE  RunInv'
  <2>1. UNCHANGED <<op, pc, cgroup, pidNamespace>> /\ (~Alive => ~Alive')
    BY <1>2, ProcessFrame DEF processFrame, clientVars, config
  <2>2. QED  BY <2>1 DEF RunInv, Released
<1>3. CASE Settle \/ UNCHANGED vars
  BY <1>3 DEF Settle, vars, clientVars, kernelVars, config, RunInv, Released, Alive
<1>4. QED  BY <1>1, <1>2, <1>3 DEF Next

\* What delete has removed from disk is not running, unless it has given up waiting (delete's wait for
\* the init before destroy and remove).
THEOREM DeletedIsDead == Spec => []DeletedMeansDead
<1>1. DeleteInv => DeletedMeansDead
  BY DEF DeleteInv, DeletedMeansDead, Returned, Patient, Released
<1>2. QED  BY <1>1, DeleteInvariance, PTL

\* delete and run release the cgroup of a container with a pid namespace (destroy in cgroup/v2.rs finds
\* nobody in it), and run never returns before its init is dead (supervise in signal.rs).
THEOREM CgroupIsReleased == Spec => []DeleteFreesCgroup
<1>1. DeleteInv /\ RunInv => DeleteFreesCgroup
  BY DEF DeleteInv, RunInv, DeleteFreesCgroup, Deleted, Returned, Patient, Released
<1>2. Init => NamespaceInv /\ RunInv
  BY DEF Init, NamespaceInv, RunInv, Process
<1>3. QED  BY <1>1, <1>2, DeleteInvariance, RunStep, NamespaceStep, BaseInvariance, PTL DEF Spec

-----------------------------------------------------------------------------
(***************************************************************************)
(* pause and kill --all: who freezes, and who thaws.                       *)
(***************************************************************************)
\* What a command does to the freezer and to the processes.
LEMMA ClientKernel ==
    ASSUME Base, NEW c \in Clients, ClientNext(c)
    PROVE  /\ frozen' = frozen /\ dying \subseteq dying'
           /\ \/ freezing' = freezing
              \/ pc[c] = "freeze" /\ pc'[c] = "awaitFrozen" /\ freezing' = TRUE
              \/ pc[c] = "thaw" /\ pc'[c] = "awaitThawed" /\ freezing' = FALSE
<1> USE DEF Base, TypeOK, kernelVars
<1>1. CASE WriteFreeze(c) \/ WriteThaw(c)
  BY <1>1 DEF WriteFreeze, WriteThaw, Goto
<1>2. CASE SignalInit(c) \/ SignalNext(c)
  BY <1>2 DEF SignalInit, SignalNext, Strike
<1>3. CASE ~(WriteFreeze(c) \/ WriteThaw(c) \/ SignalInit(c) \/ SignalNext(c))
  BY <1>3 DEF ClientNext, Load, CheckAlive, CheckFrozen, WasFrozen, AwaitFrozen, ReadProcs,
     AwaitThawed, SignalledAll, AwaitDead, Destroy, Poststop, Remove, Poststart, Supervise
<1>4. QED  BY <1>1, <1>2, <1>3

PauseInv ==
    \A c \in Clients :
        op[c] = "pause" /\ ~Others(c, {"resume", "deleteForce", "killAll"}) =>
            /\ pc[c] \in {"awaitFrozen", "ok"} => freezing
            /\ pc[c] = "ok" /\ cgroup => frozen

LEMMA PauseStep == PauseInv /\ Base /\ [Next]_vars => PauseInv'
<1> SUFFICES ASSUME PauseInv, Base, [Next]_vars,
                    NEW c \in Clients, op'[c] = "pause", ~Others(c, {"resume", "deleteForce", "killAll"})'
             PROVE  /\ pc'[c] \in {"awaitFrozen", "ok"} => freezing'
                    /\ pc'[c] = "ok" /\ cgroup' => frozen'
  BY DEF PauseInv
<1>1. ASSUME NEW d \in Clients, ClientNext(d)
      PROVE  /\ pc'[c] \in {"awaitFrozen", "ok"} => freezing'
             /\ pc'[c] = "ok" /\ cgroup' => frozen'
  <2>1. op' = op /\ (~cgroup => ~cgroup') /\ (d # c => pc'[c] = pc[c])
    BY <1>1, ClientFrame
  <2>2. op[c] = "pause" /\ ~Others(c, {"resume", "deleteForce", "killAll"})
    BY <2>1 DEF Others
  <2>3. op[d] \notin {"resume", "deleteForce", "killAll"}
    BY <2>2 DEF Others
  <2>4. frozen' = frozen /\ (freezing => freezing')
    BY <1>1, <2>3, ClientKernel DEF Base, Control
  <2>5. CASE d # c
    BY <2>1, <2>2, <2>4, <2>5 DEF PauseInv, Base, TypeOK
  <2>6. CASE d = c
    <3> USE DEF Base, TypeOK, Control, Goto
    <3>1. CASE Load(c) \/ CheckAlive(c) \/ CheckFrozen(c)
      BY <2>2, <3>1 DEF Load, CheckAlive, CheckFrozen
    <3>2. CASE WriteFreeze(c)
      BY <3>2 DEF WriteFreeze
    <3>3. CASE AwaitFrozen(c)
      BY <2>2, <3>3 DEF AwaitFrozen, PauseInv, IsFrozen, kernelVars
    <3>4. CASE WasFrozen(c) \/ ReadProcs(c) \/ WriteThaw(c) \/ AwaitThawed(c) \/ SignalInit(c) \/ SignalNext(c)
               \/ SignalledAll(c) \/ AwaitDead(c) \/ Destroy(c) \/ Poststop(c) \/ Remove(c) \/ Poststart(c) \/ Supervise(c)
      BY <2>2, <3>4 DEF WasFrozen, ReadProcs, WriteThaw, AwaitThawed, SignalInit, SignalNext, SignalledAll,
         AwaitDead, Destroy, Poststop, Remove, Poststart, Supervise, Foreground
    <3>5. QED  BY <1>1, <2>6, <3>1, <3>2, <3>3, <3>4 DEF ClientNext
  <2>7. QED  BY <2>5, <2>6
<1>2. CASE Next /\ ~\E d \in Clients : ClientNext(d)
  <2>1. UNCHANGED <<op, pc, cgroup, freezing>> /\ (frozen' = frozen \/ frozen' = freezing)
    BY <1>2, ProcessFrame DEF Next, Settle, processFrame, clientVars
  <2>2. QED  BY <2>1 DEF PauseInv, Others
<1>3. CASE UNCHANGED vars
  BY <1>3 DEF vars, clientVars, kernelVars, PauseInv, Others
<1>4. QED  BY <1>1, <1>2, <1>3 DEF Next

\* What pause has frozen stays frozen until somebody thaws it (pause waits for the kernel, and freeze
\* is the only writer of cgroup.freeze).
THEOREM PauseIsKept == Spec => []PauseHolds
<1>1. Init => PauseInv
  BY DEF Init, PauseInv
<1>2. PauseInv => PauseHolds
  BY DEF PauseInv, PauseHolds, Returned
<1>3. QED  BY <1>1, <1>2, PauseStep, BaseInvariance, PTL DEF Spec

OnlyKills == \A d \in Clients : op[d] \in {"kill", "killAll"}

\* A container that was paused is left alone; one that was not is frozen only while a kill --all
\* that has still to thaw it is under way.
RestoreInv ==
    OnlyKills /\ Patient =>
        /\ cgroup
        /\ \A c \in Clients : pc[c] = "freeze" => ~was[c]
        /\ paused => /\ freezing /\ frozen
                     /\ \A c \in Clients :
                          /\ pc[c] \notin {"freeze", "awaitFrozen", "thaw", "awaitThawed"}
                          /\ op[c] = "killAll" /\ pc[c] \in {"procs", "signal"} => was[c]
        /\ ~paused /\ freezing =>
             \E c \in Clients : op[c] = "killAll" /\ ~was[c] /\ pc[c] \in {"awaitFrozen", "procs", "signal", "thaw"}

\* A step of kill or kill --all.
LEMMA KillMoves ==
    ASSUME Base, NEW c \in Clients, ClientNext(c), op[c] \in {"kill", "killAll"}, cgroup, ~gaveUp'[c]
    PROVE  /\ cgroup'
           /\ was'[c] = IF pc[c] = "wasFrozen" THEN frozen ELSE was[c]
           /\ pc[c] = "load" => pc'[c] \in {"alive", "err"}
           /\ pc[c] = "alive" => pc'[c] \in {"signal", "wasFrozen", "err"}
           /\ pc[c] = "alive" /\ op[c] = "killAll" => pc'[c] # "signal"
           /\ pc[c] = "wasFrozen" => pc'[c] = (IF frozen THEN "procs" ELSE "freeze")
           /\ pc[c] = "freeze" => pc'[c] = "awaitFrozen"
           /\ pc[c] = "awaitFrozen" => pc'[c] = "procs"
           /\ pc[c] = "procs" => pc'[c] = "signal"
           /\ pc[c] = "signal" => \/ pc'[c] \in {"signal", "ok", "err"} /\ (op[c] = "killAll" /\ pc'[c] # "signal" => was[c])
                                  \/ pc'[c] = "thaw" /\ ~was[c] /\ op[c] = "killAll"
           /\ pc[c] = "thaw" => pc'[c] = "awaitThawed" /\ freezing' = FALSE
           /\ pc[c] = "awaitThawed" => pc'[c] \in {"ok", "err"}
           /\ pc[c] \in {"load", "alive", "wasFrozen", "freeze", "awaitFrozen", "procs", "signal", "thaw",
                         "awaitThawed"}
<1> USE DEF Base, TypeOK, Control, Goto, GiveUp, kernelVars
<1>1. CASE Load(c)
  BY <1>1 DEF Load
<1>2. CASE CheckAlive(c)
  BY <1>2 DEF CheckAlive
<1>3. CASE WasFrozen(c)
  BY <1>3 DEF WasFrozen, IsFrozen
<1>4. CASE WriteFreeze(c)
  BY <1>4 DEF WriteFreeze
<1>5. CASE AwaitFrozen(c)
  BY <1>5 DEF AwaitFrozen
<1>6. CASE ReadProcs(c)
  BY <1>6 DEF ReadProcs
<1>7. CASE WriteThaw(c)
  BY <1>7 DEF WriteThaw
<1>8. CASE AwaitThawed(c)
  BY <1>8 DEF AwaitThawed, Terminal
<1>9. CASE SignalInit(c) \/ SignalNext(c)
  BY <1>9 DEF SignalInit, SignalNext
<1>10. CASE SignalledAll(c)
  BY <1>10 DEF SignalledAll, Terminal
<1>11. CASE CheckFrozen(c) \/ AwaitDead(c) \/ Destroy(c) \/ Poststop(c) \/ Remove(c) \/ Poststart(c) \/ Supervise(c)
  BY <1>11 DEF CheckFrozen, AwaitDead, Destroy, Poststop, Remove, Poststart, Supervise, Foreground
<1>12. QED
  BY <1>1, <1>2, <1>3, <1>4, <1>5, <1>6, <1>7, <1>8, <1>9, <1>10, <1>11 DEF ClientNext

LEMMA RestoreStep == RestoreInv /\ Base /\ [Next]_vars => RestoreInv'
<1> SUFFICES ASSUME RestoreInv, Base, [Next]_vars, OnlyKills', Patient' PROVE RestoreInv'
  BY DEF RestoreInv
<1>1. ASSUME NEW c \in Clients, ClientNext(c) PROVE RestoreInv'
  <2>1. /\ op' = op /\ UNCHANGED config
        /\ \A d \in Clients : d # c => pc'[d] = pc[d] /\ was'[d] = was[d] /\ gaveUp'[d] = gaveUp[d]
        /\ gaveUp[c] => gaveUp'[c]
    BY <1>1, ClientFrame
  <2>2. OnlyKills /\ Patient
    BY <2>1 DEF OnlyKills, Patient
  <2>3. /\ cgroup
        /\ \A d \in Clients : pc[d] = "freeze" => ~was[d]
        /\ paused => /\ freezing /\ frozen
                     /\ \A d \in Clients :
                          /\ pc[d] \notin {"freeze", "awaitFrozen", "thaw", "awaitThawed"}
                          /\ op[d] = "killAll" /\ pc[d] \in {"procs", "signal"} => was[d]
        /\ ~paused /\ freezing =>
             \E d \in Clients : op[d] = "killAll" /\ ~was[d] /\ pc[d] \in {"awaitFrozen", "procs", "signal", "thaw"}
    BY <2>2 DEF RestoreInv
  <2>4. op[c] \in {"kill", "killAll"} /\ ~gaveUp'[c]
    BY <2>2 DEF OnlyKills, Patient
  <2>5. \A d \in Clients : pc'[d] = "freeze" => ~was'[d]
    <3>1. pc'[c] = "freeze" => ~was'[c]
      BY <1>1, <2>3, <2>4, KillMoves
    <3>2. QED  BY <2>1, <2>3, <3>1
  <2>6. CASE paused
    BY <1>1, <2>1, <2>3, <2>4, <2>6, <2>5, KillMoves, ClientKernel DEF RestoreInv, config
  <2>7. CASE ~paused
    <3>1. cgroup' /\ ~paused'
      BY <1>1, <2>1, <2>3, <2>4, <2>7, KillMoves DEF config
    <3>2. ASSUME freezing', ~freezing
          PROVE  op[c] = "killAll" /\ ~was'[c] /\ pc'[c] = "awaitFrozen"
      BY <1>1, <2>3, <2>4, <3>2, KillMoves, ClientKernel DEF Base, Control
    <3>3. ASSUME freezing', freezing
          PROVE  \E d \in Clients : op'[d] = "killAll" /\ ~was'[d]
                                    /\ pc'[d] \in {"awaitFrozen", "procs", "signal", "thaw"}
      <4>1. PICK d \in Clients : op[d] = "killAll" /\ ~was[d] /\ pc[d] \in {"awaitFrozen", "procs", "signal", "thaw"}
        BY <2>3, <2>7, <3>3
      <4>2. ~was'[d] /\ pc'[d] \in {"awaitFrozen", "procs", "signal", "thaw"}
        BY <1>1, <2>1, <2>3, <2>4, <3>3, <4>1, KillMoves
      <4>3. QED  BY <2>1, <4>1, <4>2
    <3>4. QED  BY <2>1, <2>5, <3>1, <3>2, <3>3 DEF RestoreInv
  <2>8. QED  BY <2>6, <2>7
<1>2. CASE Next /\ ~\E d \in Clients : ClientNext(d)
  <2>1. UNCHANGED <<op, pc, was, gaveUp, cgroup, freezing, config>> /\ (frozen' = frozen \/ frozen' = freezing)
    BY <1>2, ProcessFrame DEF Next, Settle, processFrame, clientVars
  <2>2. QED  BY <2>1 DEF RestoreInv, OnlyKills, Patient, config
<1>3. CASE UNCHANGED vars
  BY <1>3 DEF vars, clientVars, kernelVars, config, RestoreInv, OnlyKills, Patient
<1>4. QED  BY <1>1, <1>2, <1>3 DEF Next

\* However many kill --all run at once, and fail half-way, they leave the container frozen or not as
\* they found it (kill in container/mod.rs thaws what it froze, after the loop and whatever the loop's
\* result).
THEOREM KillsRestore == Spec => []KillAllRestores
<1>1. Init => RestoreInv
  BY DEF Init, RestoreInv, OnlyKills
<1>2. RestoreInv /\ Base => KillAllRestores
  <2> SUFFICES ASSUME RestoreInv, Base,
                      \A c \in Clients : op[c] \in {"kill", "killAll"} /\ pc[c] \in Terminal /\ ~gaveUp[c]
               PROVE  freezing = paused
    BY DEF KillAllRestores
  <2>1. (paused => freezing) /\ (~paused => ~freezing)
    BY DEF RestoreInv, OnlyKills, Patient, Terminal
  <2>2. QED  BY <2>1 DEF Base, TypeOK
<1>3. QED  BY <1>1, <1>2, RestoreStep, BaseInvariance, PTL DEF Spec

-----------------------------------------------------------------------------
(***************************************************************************)
(* kill --all reaches everybody.                                           *)
(***************************************************************************)
\* A cgroup is destroyed when nobody is in it.
EmptyInv == ~cgroup => \A p \in Process : process[p] # "running"

LEMMA EmptyStep == EmptyInv /\ Base /\ [Next]_vars => EmptyInv'
<1> SUFFICES ASSUME EmptyInv, Base, [Next]_vars PROVE EmptyInv'
  OBVIOUS
<1> USE DEF EmptyInv, Base, TypeOK
<1>1. ASSUME NEW c \in Clients, ClientNext(c) PROVE EmptyInv'
  <2>1. process' = process
    BY <1>1, ClientFrame
  <2>2. CASE Destroy(c)
    BY <2>1, <2>2 DEF Destroy, Running
  <2>3. CASE ~Destroy(c)
    BY <1>1, <2>1, <2>3 DEF ClientNext, Load, CheckAlive, CheckFrozen, WasFrozen, WriteFreeze, AwaitFrozen,
       ReadProcs, WriteThaw, AwaitThawed, SignalInit, SignalNext, SignalledAll, AwaitDead, Poststop, Remove, Poststart,
       Supervise, kernelVars
  <2>4. QED  BY <2>2, <2>3
<1>2. ASSUME NEW p \in Process, Exit(p) \/ Die(p) \/ Reap(p) \/ Recycle(p) PROVE EmptyInv'
  BY <1>2 DEF Exit, Die, Reap, Recycle, processFrame
<1>3. ASSUME NEW p \in Process, NEW w \in Workers, Fork(p, w) PROVE EmptyInv'
  BY <1>3 DEF Fork, Active, Running, processFrame
<1>4. CASE Settle \/ UNCHANGED vars
  BY <1>4 DEF Settle, vars, kernelVars
<1>5. QED  BY <1>1, <1>2, <1>3, <1>4 DEF Next

\* The kill --all c is the only command that thaws.
Alone(c) == op[c] = "killAll" /\ ~Others(c, {"killAll", "resume", "deleteForce"})

\* It has been through the list without an error, or is on its way.
Counting(c) == (pc[c] \in {"signal", "thaw", "awaitThawed"} /\ result[c] = "ok") \/ pc[c] = "ok"

\* Who is left has been struck or is still on the list; while there is a list nobody forks.
ReachInv ==
    \A c \in Clients : Alone(c) =>
        /\ pc[c] \in {"load", "alive", "wasFrozen", "freeze"} => (frozen => freezing)
        /\ pc[c] = "awaitFrozen" => freezing
        /\ pc[c] \in {"procs", "signal"} => freezing /\ frozen
        /\ Counting(c) => \A p \in Process :
             process[p] = "running" => Doomed(p) \/ (pc[c] = "signal" /\ p \in todo[c])

\* A step of the command itself.
LEMMA ReachMoves ==
    ASSUME Base, ReachInv, NEW c \in Clients, Alone(c), ClientNext(c)
    PROVE  /\ pc'[c] \in {"load", "alive", "wasFrozen", "freeze"} => (frozen' => freezing')
           /\ pc'[c] = "awaitFrozen" => freezing'
           /\ pc'[c] \in {"procs", "signal"} => freezing' /\ frozen'
           /\ Counting(c)' => \A p \in Process :
                process[p] = "running" => Doomed(p)' \/ (pc'[c] = "signal" /\ p \in todo'[c])
<1> USE DEF Base, TypeOK, Control, Goto, GiveUp, kernelVars, ReachInv, Alone, Counting
<1>1. CASE Load(c) \/ CheckAlive(c)
  BY <1>1 DEF Load, CheckAlive
<1>2. CASE WasFrozen(c) \/ WriteFreeze(c)
  BY <1>2 DEF WasFrozen, WriteFreeze, IsFrozen
<1>3. CASE AwaitFrozen(c)
  BY <1>3 DEF AwaitFrozen, IsFrozen
<1>4. CASE ReadProcs(c)
  BY <1>4 DEF ReadProcs, Running
<1>5. CASE WriteThaw(c)
  BY <1>5 DEF WriteThaw, Doomed, config
<1>6. CASE AwaitThawed(c)
  <2>1. /\ UNCHANGED <<freezing, frozen, pidNamespace, dying, result>> /\ pc[c] = "awaitThawed"
        /\ pc'[c] = IF IsFrozen THEN "err" ELSE result[c]
    BY <1>6 DEF AwaitThawed, config
  <2>2. Counting(c)' => result[c] = "ok"
    BY <2>1 DEF Terminal
  <2>3. pc'[c] \in {"ok", "err"}
    BY <2>1 DEF Terminal
  <2>4. QED  BY <2>1, <2>2, <2>3 DEF Doomed
<1>7. CASE SignalNext(c)
  <2>1. UNCHANGED <<pc, freezing, frozen, pidNamespace>> /\ pc[c] = "signal" /\ dying \subseteq dying'
    BY <1>7 DEF SignalNext, Strike, config
  <2>2. PICK q \in todo[c] :
            /\ Strike(c, q)
            /\ IF process[q] = "gone" /\ op[c] = "killAll"
                 THEN /\ todo' = [todo EXCEPT ![c] = {}]
                      /\ result' = [result EXCEPT ![c] = "err"]
                 ELSE todo' = [todo EXCEPT ![c] = @ \ {q}] /\ UNCHANGED result
    BY <1>7 DEF SignalNext
  <2>3. process[q] = "running" => q \in dying'
    BY <2>2 DEF Strike
  <2>4. ASSUME result'[c] = "ok", NEW p \in Process, process[p] = "running"
        PROVE  Doomed(p)' \/ p \in todo'[c]
    <3>1. result[c] = "ok" /\ todo'[c] = todo[c] \ {q}
      BY <2>2, <2>4
    <3>2. Doomed(p) \/ p \in todo[c]
      BY <2>1, <2>4, <3>1
    <3>3. QED  BY <2>1, <2>3, <2>4, <3>1, <3>2 DEF Doomed
  <2>5. QED  BY <2>1, <2>4
<1>8. CASE SignalledAll(c)
  <2>1. UNCHANGED <<freezing, frozen, pidNamespace, dying, result>> /\ pc[c] = "signal" /\ todo[c] = {}
        /\ pc'[c] \in {"thaw", result[c]}
    BY <1>8 DEF SignalledAll, config, Terminal
  <2>2. Counting(c)' => result[c] = "ok"
    BY <2>1 DEF Terminal
  <2>3. QED  BY <2>1, <2>2 DEF Doomed, Terminal
<1>9. CASE CheckFrozen(c) \/ SignalInit(c) \/ AwaitDead(c) \/ Destroy(c) \/ Poststop(c) \/ Remove(c) \/ Poststart(c) \/ Supervise(c)
  BY <1>9 DEF CheckFrozen, SignalInit, AwaitDead, Destroy, Poststop, Remove, Poststart, Supervise, Foreground
<1>10. QED
  BY <1>1, <1>2, <1>3, <1>4, <1>5, <1>6, <1>7, <1>8, <1>9 DEF ClientNext

LEMMA ReachStep == ReachInv /\ EmptyInv /\ Base /\ [Next]_vars => ReachInv'
<1> SUFFICES ASSUME ReachInv, EmptyInv, Base, [Next]_vars, NEW c \in Clients, Alone(c)'
             PROVE  /\ pc'[c] \in {"load", "alive", "wasFrozen", "freeze"} => (frozen' => freezing')
                    /\ pc'[c] = "awaitFrozen" => freezing'
                    /\ pc'[c] \in {"procs", "signal"} => freezing' /\ frozen'
                    /\ Counting(c)' => \A p \in Process :
                         process'[p] = "running" => Doomed(p)' \/ (pc'[c] = "signal" /\ p \in todo'[c])
  BY DEF ReachInv
<1> DEFINE Goal == /\ pc'[c] \in {"load", "alive", "wasFrozen", "freeze"} => (frozen' => freezing')
                   /\ pc'[c] = "awaitFrozen" => freezing'
                   /\ pc'[c] \in {"procs", "signal"} => freezing' /\ frozen'
                   /\ Counting(c)' => \A p \in Process :
                        process'[p] = "running" => Doomed(p)' \/ (pc'[c] = "signal" /\ p \in todo'[c])
<1>1. op' = op
  BY ClientFrame, ProcessFrame DEF Next, Settle, processFrame, clientVars, vars
<1>2. Alone(c)
  BY <1>1 DEF Alone, Others
<1>3. /\ pc[c] \in {"load", "alive", "wasFrozen", "freeze"} => (frozen => freezing)
      /\ pc[c] = "awaitFrozen" => freezing
      /\ pc[c] \in {"procs", "signal"} => freezing /\ frozen
      /\ Counting(c) => \A p \in Process :
           process[p] = "running" => Doomed(p) \/ (pc[c] = "signal" /\ p \in todo[c])
  BY <1>2 DEF ReachInv
<1>4. CASE ClientNext(c)
  BY <1>2, <1>4, ReachMoves, ClientFrame
<1>5. ASSUME NEW d \in Clients, d # c, ClientNext(d) PROVE Goal
  <2>1. pc'[c] = pc[c] /\ todo'[c] = todo[c] /\ result'[c] = result[c] /\ UNCHANGED <<process, config>>
    BY <1>5, ClientFrame
  <2>2. op[d] \notin {"killAll", "resume", "deleteForce"}
    BY <1>2, <1>5 DEF Alone, Others
  <2>3. frozen' = frozen /\ (freezing => freezing') /\ dying \subseteq dying'
    BY <1>5, <2>2, ClientKernel DEF Base, Control
  <2>4. \A p \in Process : Doomed(p) => Doomed(p)'
    BY <2>1, <2>3 DEF Doomed, config
  <2>5. Counting(c)' <=> Counting(c)
    BY <2>1 DEF Counting
  <2>6. QED  BY <1>3, <2>1, <2>3, <2>4, <2>5
<1>6. ASSUME NEW p \in Process, Exit(p) \/ Reap(p) \/ Recycle(p) PROVE Goal
  <2>1. UNCHANGED <<pc, todo, result, freezing, frozen, pidNamespace>> /\ dying \subseteq dying'
        /\ \A q \in Process : process'[q] = "running" => process[q] = "running"
    BY <1>6 DEF Exit, Reap, Recycle, processFrame, clientVars, config, Base, TypeOK
  <2>2. QED  BY <1>3, <2>1 DEF Doomed, Counting
<1>7. ASSUME NEW p \in Process, Die(p) PROVE Goal
  <2>1. UNCHANGED <<pc, todo, result, freezing, frozen, pidNamespace>>
    BY <1>7 DEF Die, processFrame, clientVars, config
  <2>2. ASSUME NEW q \in Process, process'[q] = "running"
        PROVE  process[q] = "running" /\ (Doomed(q) => Doomed(q)')
    <3>1. process[q] = "running" /\ q # p /\ dying' = dying \ {p}
      BY <1>7, <2>2 DEF Die, Base, TypeOK
    <3>2. ~(p = "init" /\ pidNamespace)
      BY <1>7, <3>1 DEF Die, Running
    <3>3. QED  BY <2>1, <3>1, <3>2 DEF Doomed
  <2>3. Counting(c)' <=> Counting(c)
    BY <2>1 DEF Counting
  <2>4. QED  BY <1>3, <2>1, <2>2, <2>3
<1>8. ASSUME NEW p \in Process, NEW w \in Workers, Fork(p, w) PROVE Goal
  <2>1. UNCHANGED <<pc, todo, result, freezing, frozen, pidNamespace, dying>>
    BY <1>8 DEF Fork, processFrame, clientVars, config
  <2>2. process[p] = "running" /\ ~Doomed(p) /\ ~IsFrozen
    BY <1>8 DEF Fork, Active, Running
  <2>3. ~frozen
    BY <2>2 DEF EmptyInv, IsFrozen
  <2>4. ~Counting(c)
    BY <1>3, <2>2, <2>3
  <2>5. QED  BY <1>3, <2>1, <2>4 DEF Counting
<1>9. CASE Settle
  <2>1. UNCHANGED <<pc, todo, result, freezing, process, pidNamespace, dying>> /\ frozen' = freezing
    BY <1>9 DEF Settle, clientVars, config
  <2>2. QED  BY <1>3, <2>1 DEF Counting, Doomed
<1>10. CASE UNCHANGED vars
  BY <1>3, <1>10 DEF vars, clientVars, kernelVars, config, Counting, Doomed
<1>11. QED  BY <1>4, <1>5, <1>6, <1>7, <1>8, <1>9, <1>10 DEF Next

\* kill --all misses nobody, those forked while it ran included, as long as nobody else thaws the
\* container (kill freezes before it reads cgroup.procs, and thaws after the last signal).
THEOREM EverybodyIsReached == Spec => []KillAllReachesEveryone
<1>1. Init => ReachInv /\ EmptyInv
  BY DEF Init, ReachInv, Counting, EmptyInv
<1>2. ReachInv => KillAllReachesEveryone
  BY DEF ReachInv, KillAllReachesEveryone, Alone, Counting, Returned, Running
<1>3. QED  BY <1>1, <1>2, ReachStep, EmptyStep, BaseInvariance, PTL DEF Spec

=============================================================================
