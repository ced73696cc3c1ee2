---------------------------- MODULE ExecFifoProof ----------------------------
(***************************************************************************)
(* The safety of the exec fifo for any number of starters, whoever is      *)
(* killed, and that it implements the start gate.                          *)
(*                                                                         *)
(* The invariant says where the one byte can be: it is written by an init  *)
(* that somebody's open has let through, and then it is in the fifo, or    *)
(* one starter has it, or it is lost because no descriptor was left.       *)
(***************************************************************************)
EXTENDS ExecFifo, TLAPS

\* A starter that has opened the fifo and is not done with it.
PastOpen == {"opening", "read", "unlink", "poststart", "ok", "initFailed"}
\* A starter that has read the byte.
PastRead == {"unlink", "poststart", "ok"}

\* The byte and the init that wrote it.
ByteInv ==
    /\ bytes > 0 => wrote /\ got = {}
    /\ init \in Passed => wrote
    /\ wrote => init \notin Parking /\ opened # {}
    /\ init = "writing" => opened # {}
    /\ init = "closing" => bytes > 0 \/ got # {}

\* The starters and the byte.
StarterInv ==
    /\ got # {} => wrote
    /\ \A s \in got : got = {s}
    /\ got \subseteq opened
    /\ ~fifo => got # {}
    /\ \A s \in Starters :
         /\ start[s] \in PastOpen => s \in opened
         /\ start[s] \in PastRead => s \in got
         /\ s \in got => start[s] \in PastRead \cup {"noFifo", "killed"}
         /\ start[s] = "read" /\ ~wrote => init \in {"writing", "zombie", "gone"}
         /\ start[s] = "read" /\ wrote => bytes > 0 \/ got # {}

IInv == TypeOK /\ ByteInv /\ StarterInv /\ DeathExplained

-----------------------------------------------------------------------------
\* The types hold initially.
LEMMA InitTypeOK == Init => TypeOK
<1> SUFFICES ASSUME Init PROVE TypeOK
  OBVIOUS
<1>1. bytes \in 0..1
  BY DEF Init
<1>2. start \in [Starters -> StarterPoint] /\ init \in InitPoint
  BY DEF Init, StarterPoint, InitPoint, Parking
<1>3. QED  BY <1>1, <1>2 DEF Init, TypeOK

\* One step of a starter or of the init keeps the types; that there is never more
\* than one byte in the fifo is because the init writes it before it is let through.
LEMMA TypeStep == IInv /\ [Next]_vars => TypeOK'
<1> SUFFICES ASSUME IInv, [Next]_vars PROVE TypeOK'
  OBVIOUS
<1> DEFINE Others == /\ start' \in [Starters -> StarterPoint] /\ init' \in InitPoint /\ fifo' \in BOOLEAN
                     /\ frozen' \in BOOLEAN /\ opened' \subseteq Starters /\ wrote' \in BOOLEAN
                     /\ got' \subseteq Starters /\ hookFailed' \in BOOLEAN
<1> USE DEF IInv, TypeOK, StarterPoint, Terminal, Refused, Goto, history
<1>1. ASSUME NEW s \in Starters, Call(s) \/ CheckAlive(s) \/ CheckFrozen(s) \/ CheckCreated(s) \/ CheckExists(s)
      PROVE  TypeOK'
  BY <1>1 DEF Call, CheckAlive, CheckFrozen, CheckCreated, CheckExists
<1>2. ASSUME NEW s \in Starters, Open(s) PROVE TypeOK'
  BY <1>2 DEF Open, InitPoint, Parking
<1>3. ASSUME NEW s \in Starters, Read(s) PROVE TypeOK'
  <2>1. Others
    BY <1>3 DEF Read
  <2>2. bytes' \in 0..1
    BY <1>3 DEF Read
  <2>3. QED  BY <2>1, <2>2
<1>4. ASSUME NEW s \in Starters, Unlink(s) \/ Poststart(s) \/ KillStarter(s) PROVE TypeOK'
  <2>1. Others
    BY <1>4 DEF Unlink, Poststart, KillStarter
  <2>2. bytes' \in {bytes, 0}
    BY <1>4 DEF Unlink, Poststart, KillStarter, BytesWithout
  <2>3. QED  BY <2>1, <2>2
<1>5. CASE InitNext
  <2>1. Others
    BY <1>5 DEF InitNext, ParkOpen, ParkWrite, ParkClose, StartContainerHooks, Execve,
       InitPoint, Parking, Passed
  <2>2. bytes' \in 0..1
    <3>1. CASE ParkWrite
      <4>1. ~wrote
        BY <3>1 DEF ParkWrite, ByteInv, Parking
      <4>2. bytes = 0
        BY <4>1 DEF ByteInv
      <4>3. QED  BY <3>1, <4>2 DEF ParkWrite
    <3>2. CASE ParkOpen \/ ParkClose \/ StartContainerHooks \/ Execve
      BY <3>2 DEF ParkOpen, ParkClose, StartContainerHooks, Execve
    <3>3. QED  BY <1>5, <3>1, <3>2 DEF InitNext
  <2>3. QED  BY <2>1, <2>2
<1>6. CASE KillInit \/ Reap \/ Pause \/ Resume
  <2>1. Others
    BY <1>6 DEF KillInit, Reap, Pause, Resume, InitPoint, Parking
  <2>2. bytes' \in {bytes, 0}
    BY <1>6 DEF KillInit, Reap, Pause, Resume
  <2>3. QED  BY <2>1, <2>2
<1>7. CASE UNCHANGED vars
  BY <1>7 DEF vars
<1> QED
  BY <1>1, <1>2, <1>3, <1>4, <1>5, <1>6, <1>7 DEF Next, StarterNext

-----------------------------------------------------------------------------
\* The invariant holds initially.
LEMMA InitIInv == Init => IInv
  BY InitTypeOK DEF Init, IInv, ByteInv, StarterInv, DeathExplained, PastOpen, PastRead,
     Passed, Parking

\* One step of a starter or of the init keeps the invariant.
LEMMA NextIInv == IInv /\ [Next]_vars => IInv'
<1> SUFFICES ASSUME IInv, [Next]_vars PROVE IInv'
  OBVIOUS
<1>0. TypeOK'
  BY TypeStep DEF IInv
<1> USE DEF IInv, TypeOK, ByteInv, StarterInv, DeathExplained, PastOpen, PastRead, Passed,
     Parking, Goto, history, Readers, Writing, BytesWithout
<1>1. ASSUME NEW s \in Starters, Call(s) \/ CheckAlive(s) \/ CheckFrozen(s) \/ CheckCreated(s) \/ CheckExists(s)
      PROVE  IInv'
  BY <1>0, <1>1 DEF Call, CheckAlive, CheckFrozen, CheckCreated, CheckExists
<1>2. ASSUME NEW s \in Starters, Open(s) PROVE IInv'
  <2>1. CASE ~fifo
    BY <1>0, <1>2, <2>1 DEF Open
  <2>2. CASE fifo /\ init = "opening"
    BY <1>0, <1>2, <2>2 DEF Open
  <2>3. CASE fifo /\ init # "opening"
    <3>1. ByteInv'
      BY <1>2, <2>3 DEF Open
    <3>2. StarterInv'
      BY <1>2, <2>3 DEF Open
    <3>3. DeathExplained'
      BY <1>2, <2>3 DEF Open
    <3> QED
      BY <1>0, <3>1, <3>2, <3>3
  <2> QED
    BY <2>1, <2>2, <2>3
<1>3. ASSUME NEW s \in Starters, Read(s) PROVE IInv'
  BY <1>0, <1>3 DEF Read
<1>4. ASSUME NEW s \in Starters, Unlink(s) PROVE IInv'
  BY <1>0, <1>4 DEF Unlink
<1>5. ASSUME NEW s \in Starters, Poststart(s) PROVE IInv'
  BY <1>0, <1>5 DEF Poststart
<1>6. ASSUME NEW s \in Starters, KillStarter(s) PROVE IInv'
  BY <1>0, <1>6 DEF KillStarter, Terminal, Refused
<1>7. CASE ParkOpen
  BY <1>0, <1>7 DEF ParkOpen
<1>8. CASE ParkWrite
  BY <1>0, <1>8 DEF ParkWrite
<1>9. CASE ParkClose
  BY <1>0, <1>9 DEF ParkClose
<1>10. CASE StartContainerHooks \/ Execve
  BY <1>0, <1>10 DEF StartContainerHooks, Execve
<1>11. CASE KillInit
  BY <1>0, <1>11 DEF KillInit
<1>12. CASE Reap \/ Pause \/ Resume
  BY <1>0, <1>12 DEF Reap, Pause, Resume
<1>13. CASE UNCHANGED vars
  BY <1>0, <1>13 DEF vars
<1> QED
  BY <1>1, <1>2, <1>3, <1>4, <1>5, <1>6, <1>7, <1>8, <1>9, <1>10, <1>11, <1>12, <1>13
     DEF Next, StarterNext, InitNext

\* The invariant holds throughout.
LEMMA Invariance == Spec => []IInv
  BY InitIInv, NextIInv, PTL DEF Spec

-----------------------------------------------------------------------------
\* TypeOK for any set of starters; above all there is never more than one byte in
\* the fifo (park writes one, once).
THEOREM TypeCorrect == Spec => []TypeOK
<1>1. IInv => TypeOK
  BY DEF IInv
<1> QED
  BY Invariance, <1>1, PTL

\* Of any number of concurrent starts at most one reports success, and only for
\* an init that has been let through.
THEOREM OneWinner == Spec => []OkMeansStarted
<1>1. IInv => OkMeansStarted
  BY DEF IInv, StarterInv, PastRead, OkMeansStarted
<1> QED
  BY Invariance, <1>1, PTL

\* The fifo is unlinked only once the init has been let through.
THEOREM UnlinkAfterRelease == Spec => []RunningMeansReleased
<1>1. IInv => RunningMeansReleased
  BY DEF IInv, StarterInv, RunningMeansReleased
<1> QED
  BY Invariance, <1>1, PTL

\* An empty read of the fifo always has one of the two explanations.
THEOREM EmptyReadExplained == Spec => []DeathExplained
<1>1. IInv => DeathExplained
  BY DEF IInv
<1> QED
  BY Invariance, <1>1, PTL

-----------------------------------------------------------------------------
\* What the status created rests on: nobody is left waiting in open once the init
\* has its end open, and the winner that goes on has removed the fifo.
StatusInv ==
    /\ Writing => \A s \in Starters : start[s] # "opening"
    /\ \A s \in got : start[s] \in {"poststart", "ok", "noFifo"} => ~fifo
    /\ CreatedMeansUnstarted

\* One step keeps it, given the invariant.
LEMMA NextStatusInv == IInv /\ StatusInv /\ [Next]_vars => StatusInv'
<1> SUFFICES ASSUME IInv, StatusInv, [Next]_vars PROVE StatusInv'
  OBVIOUS
<1> USE DEF IInv, TypeOK, StatusInv, CreatedMeansUnstarted, ByteInv, StarterInv, PastOpen,
     PastRead, Passed, Parking, Goto, history, Readers, Writing
<1>1. ASSUME NEW s \in Starters, Call(s) \/ CheckAlive(s) \/ CheckFrozen(s) \/ CheckCreated(s) \/ CheckExists(s)
                 \/ Poststart(s)
      PROVE  StatusInv'
  BY <1>1 DEF Call, CheckAlive, CheckFrozen, CheckCreated, CheckExists, Poststart
<1>2. ASSUME NEW s \in Starters, Open(s) PROVE StatusInv'
  BY <1>2 DEF Open
<1>3. ASSUME NEW s \in Starters, Read(s) PROVE StatusInv'
  BY <1>3 DEF Read
<1>4. ASSUME NEW s \in Starters, Unlink(s) PROVE StatusInv'
  BY <1>4 DEF Unlink
<1>5. ASSUME NEW s \in Starters, KillStarter(s) PROVE StatusInv'
  BY <1>5 DEF KillStarter, Terminal, Refused
<1>6. CASE ParkOpen
  BY <1>6 DEF ParkOpen
<1>7. CASE ParkWrite
  BY <1>7 DEF ParkWrite
<1>8. CASE ParkClose \/ StartContainerHooks \/ Execve \/ KillInit \/ Reap \/ Pause \/ Resume
  BY <1>8 DEF ParkClose, StartContainerHooks, Execve, KillInit, Reap, Pause, Resume
<1>9. CASE UNCHANGED vars
  BY <1>9 DEF vars
<1> QED
  BY <1>1, <1>2, <1>3, <1>4, <1>5, <1>6, <1>7, <1>8, <1>9 DEF Next, StarterNext, InitNext

\* A container that has been started keeps the status created only while a start
\* is on its way, or after one has been killed on its way.
THEOREM CreatedIsExplained == Spec => []CreatedMeansUnstarted
<1>1. Init => StatusInv
  BY DEF Init, StatusInv, CreatedMeansUnstarted, Writing
<1>2. StatusInv => CreatedMeansUnstarted
  BY DEF StatusInv
<1> QED
  BY Invariance, NextStatusInv, <1>1, <1>2, PTL DEF Spec

-----------------------------------------------------------------------------
\* The fifo implements the start gate: opening it asks, writing the byte passes
\* the gate, reading the byte wins, and every other step stutters.
THEOREM FifoImplementsGate == Spec => ImplementsGate
<1>1. Init => Gate!GateInit
  BY DEF Init, Gate!GateInit
<1>2. IInv /\ [Next]_vars => [Gate!GateNext]_(Gate!gateVars)
  <2> SUFFICES ASSUME IInv, [Next]_vars PROVE [Gate!GateNext]_(Gate!gateVars)
    OBVIOUS
  <2> USE DEF Gate!GateNext, Gate!gateVars, history
  <2>1. ASSUME NEW s \in Starters, Call(s) \/ CheckAlive(s) \/ CheckFrozen(s) \/ CheckCreated(s) \/ CheckExists(s)
                 \/ Unlink(s) \/ Poststart(s) \/ KillStarter(s)
        PROVE  UNCHANGED Gate!gateVars
    BY <2>1 DEF Call, CheckAlive, CheckFrozen, CheckCreated, CheckExists, Unlink, Poststart, KillStarter
  <2>2. ASSUME NEW s \in Starters, Open(s) PROVE Gate!Ask(s) \/ UNCHANGED Gate!gateVars
    BY <2>2 DEF Open, Gate!Ask
  <2>3. ASSUME NEW s \in Starters, Read(s) PROVE Gate!Win(s) \/ UNCHANGED Gate!gateVars
    BY <2>3 DEF Read, Gate!Win, IInv, ByteInv, StarterInv, PastOpen
  <2>4. CASE ParkWrite
    BY <2>4 DEF ParkWrite, Gate!Pass, IInv, ByteInv
  <2>5. CASE ParkOpen \/ ParkClose \/ StartContainerHooks \/ Execve \/ KillInit \/ Reap \/ Pause \/ Resume
    BY <2>5 DEF ParkOpen, ParkClose, StartContainerHooks, Execve, KillInit, Reap, Pause, Resume
  <2>6. CASE UNCHANGED vars
    BY <2>6 DEF vars
  <2> QED
    BY <2>1, <2>2, <2>3, <2>4, <2>5, <2>6 DEF Next, StarterNext, InitNext
<1> QED
  BY Invariance, <1>1, <1>2, PTL DEF Spec, ImplementsGate, Gate!GateSpec

=============================================================================
