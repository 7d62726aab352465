-------------------------- MODULE Stopwatch_proofs --------------------------
(***************************************************************************)
(* What the hw3 driver guarantees for every number of processes and every  *)
(* period of the display.                                                  *)
(***************************************************************************)
EXTENDS Stopwatch, TLAPS

USE PeriodAssumption
USE DEF TimerState

------------------------------------------------------------------------------
(***************************************************************************)
(* The inductive invariant                                                 *)
(***************************************************************************)

\* Wherever the countdown is, data2.seconds and the seconds held add up to 2.
QuitInv ==
    quit_timer # "idle" =>
        /\ quit_left + held = 2
        /\ quit_timer = "pending" => quit_left \in {1, 2}
        /\ quit_timer = "running" => quit_left \in {0, 1}

\* A countdown without interrupts began before they were given up; with the
\* button up and no edge waiting it is one of those as well.
CarryInv ==
    quit_timer # "idle" =>
        /\ ~irqs => carried
        /\ ~down => edge \/ ~irqs \/ carried

\* The interrupts belong to a process that will still free them.
HolderInv == irqs => \E a \in Apps : app[a] \in {"open", "asleep", "awake", "freeing"}

\* Without a race the process in the driver is alone, until it has given
\* dev_usage back and others may look.
SessionInv ==
    ~raced =>
        \A a \in Apps :
            /\ app[a] \in {"claimed", "open", "asleep", "awake"} =>
                  dev_usage = 1 /\ \A b \in Apps \ {a} : app[b] = "none"
            /\ app[a] \in {"open", "asleep", "awake"} => irqs
            /\ app[a] \in {"freeing", "zeroing"} =>
                  \A b \in Apps \ {a} : app[b] \in {"none", "checked"}

\* stopwatch_exit runs with nobody in the driver, and deletes the timers one
\* after the other.
ExitInv ==
    /\ module # "in" => \A a \in Apps : app[a] = "none"
    /\ module \in {"stopped", "out"} => timer = "idle"
    /\ module = "out" => quit_timer = "idle"

IInv ==
    /\ TypeOK
    /\ StaysStopped
    /\ CountsUp
    /\ QuitInv
    /\ CarryInv
    /\ HolderInv
    /\ SessionInv
    /\ ExitInv

LEMMA InitInv == Init => IInv
<1> SUFFICES ASSUME Init PROVE IInv
  OBVIOUS
<1> USE DEF Init
<1>1. TypeOK
  <2>1. 0 \in 0 .. Period - 1 /\ 0 \in 0 .. 2
    OBVIOUS
  <2> QED BY <2>1 DEF TypeOK
<1>2. StaysStopped /\ CountsUp /\ QuitInv /\ CarryInv
  BY DEF StaysStopped, CountsUp, QuitInv, CarryInv
<1>3. HolderInv /\ SessionInv /\ ExitInv
  BY DEF HolderInv, SessionInv, ExitInv
<1> QED BY <1>1, <1>2, <1>3 DEF IInv

------------------------------------------------------------------------------
(***************************************************************************)
(* Each part is preserved by every step                                    *)
(***************************************************************************)

LEMMA TypeStep == IInv /\ [Next]_vars => TypeOK'
<1> SUFFICES ASSUME TypeOK, QuitInv, [Next]_vars PROVE TypeOK'
  BY DEF IInv
<1> USE DEF TypeOK, driver, button, device, ghosts
<1>0. 0 \in 0 .. Period - 1 /\ 1 \in 0 .. Period - 1 /\ 0 \in 0 .. 2 /\ 2 \in 0 .. 2
  OBVIOUS
<1>1. CASE inter_start
  BY <1>1 DEF inter_start, Handler
<1>2. CASE inter_pause
  BY <1>2 DEF inter_pause, Handler
<1>3. CASE inter_reset
  BY <1>0, <1>3 DEF inter_reset, Handler, ResetSeconds
<1>4. CASE inter_quit
  BY <1>0, <1>4 DEF inter_quit, Handler, QuitSeconds, LetGo
<1>5. CASE HandlerSpins
  BY <1>5 DEF HandlerSpins
<1>6. CASE QuitButton
  BY <1>6 DEF QuitButton
<1>7. CASE TickDisplay
  BY <1>7 DEF TickDisplay
<1>8. CASE TickRearm
  BY <1>8 DEF TickRearm, Advance
<1>9. CASE QuitCount
  <2>1. quit_left' \in 0 .. 2 /\ held' \in 0 .. 2
    BY <1>9 DEF QuitCount, QuitInv
  <2>2. seconds' \in 0 .. Period - 1 /\ fnd' \in 0 .. Period - 1
    BY <1>0, <1>9 DEF QuitCount
  <2>3. timer' \in TimerState /\ quit_timer' \in TimerState
        /\ stopped' \in BOOLEAN /\ skewed' \in BOOLEAN
    BY <1>9 DEF QuitCount
  <2> QED BY <1>9, <2>1, <2>2, <2>3 DEF QuitCount
<1>10. CASE QuitFinish
  BY <1>10 DEF QuitFinish, WakeUp
<1>11. CASE WriteUnmapped
  BY <1>11 DEF WriteUnmapped
<1>12. CASE ExitUnmap
  BY <1>12 DEF ExitUnmap
<1>13. CASE ExitTimer
  BY <1>13 DEF ExitTimer
<1>14. CASE ExitQuitTimer
  BY <1>14 DEF ExitQuitTimer
<1>15. CASE ModuleInit
  BY <1>0, <1>15 DEF ModuleInit
<1>16. ASSUME NEW a \in Apps, Process(a) PROVE TypeOK'
  <2>1. CASE OpenCheck(a)
    BY <2>1 DEF OpenCheck, Goto
  <2>2. CASE OpenClaim(a)
    BY <2>2 DEF OpenClaim, Goto
  <2>3. CASE OpenRequest(a)
    BY <2>3 DEF OpenRequest, Goto
  <2>4. CASE Write(a)
    BY <2>4 DEF Write, Goto
  <2>5. CASE Signal(a)
    BY <2>5 DEF Signal, Goto
  <2>6. CASE ReleaseUsage(a)
    BY <2>6 DEF ReleaseUsage, Goto
  <2>7. CASE ReleaseIrqs(a)
    BY <2>7 DEF ReleaseIrqs, Goto
  <2>8. CASE ReleaseSeconds(a)
    BY <2>8 DEF ReleaseSeconds, Goto
  <2> QED BY <1>16, <2>1, <2>2, <2>3, <2>4, <2>5, <2>6, <2>7, <2>8 DEF Process, Leave
<1>17. CASE UNCHANGED vars
  BY <1>17 DEF vars
<1> QED BY <1>1, <1>2, <1>3, <1>4, <1>5, <1>6, <1>7, <1>8, <1>9,
          <1>10, <1>11, <1>12, <1>13, <1>14, <1>15, <1>16, <1>17 DEF Next, Irq

\* Only inter_start puts the timer back once it is deleted.
LEMMA StoppedStep == IInv /\ [Next]_vars => StaysStopped'
<1> SUFFICES ASSUME IInv, [Next]_vars PROVE StaysStopped'
  OBVIOUS
<1> USE DEF TypeOK, StaysStopped, IInv, driver, button, device, ghosts
<1>1. ASSUME Irq \/ QuitButton PROVE StaysStopped'
  BY <1>1 DEF Irq, inter_start, inter_pause, inter_reset, inter_quit, HandlerSpins,
              QuitButton, Handler
<1>2. ASSUME TickDisplay \/ TickRearm \/ WriteUnmapped PROVE StaysStopped'
  BY <1>2 DEF TickDisplay, TickRearm, WriteUnmapped, SoftIrqFree
<1>3. ASSUME QuitCount \/ QuitFinish PROVE StaysStopped'
  BY <1>3 DEF QuitCount, QuitFinish, SoftIrqFree
<1>4. ASSUME NEW a \in Apps, Process(a) PROVE StaysStopped'
  BY <1>4 DEF Process, OpenCheck, OpenClaim, OpenRequest, Write, Signal, Leave,
              ReleaseUsage, ReleaseIrqs, ReleaseSeconds
<1>5. ASSUME ExitUnmap \/ ExitTimer \/ ExitQuitTimer \/ ModuleInit PROVE StaysStopped'
  BY <1>5 DEF ExitUnmap, ExitTimer, ExitQuitTimer, ModuleInit
<1>6. CASE UNCHANGED vars
  BY <1>6 DEF vars
<1> QED BY <1>1, <1>2, <1>3, <1>4, <1>5, <1>6 DEF Next

\* data.seconds stays one ahead of the display, in both halves of a tick.
LEMMA CountsStep == IInv /\ [Next]_vars => CountsUp'
<1> SUFFICES ASSUME IInv, [Next]_vars PROVE CountsUp'
  OBVIOUS
<1> USE DEF TypeOK, CountsUp, IInv, driver, button, device, ghosts
<1>1. ASSUME Irq \/ QuitButton PROVE CountsUp'
  BY <1>1 DEF Irq, inter_start, inter_pause, inter_reset, inter_quit, HandlerSpins,
              QuitButton, Handler, ResetSeconds
<1>2. ASSUME TickDisplay \/ WriteUnmapped PROVE CountsUp'
  BY <1>2 DEF TickDisplay, WriteUnmapped
<1>3. ASSUME TickRearm PROVE CountsUp'
  BY <1>3 DEF TickRearm, Advance
<1>4. ASSUME QuitCount \/ QuitFinish PROVE CountsUp'
  BY <1>4 DEF QuitCount, QuitFinish
<1>5. ASSUME NEW a \in Apps, Process(a) PROVE CountsUp'
  BY <1>5 DEF Process, OpenCheck, OpenClaim, OpenRequest, Write, Signal, Leave,
              ReleaseUsage, ReleaseIrqs, ReleaseSeconds
<1>6. ASSUME ExitUnmap \/ ExitTimer \/ ExitQuitTimer \/ ModuleInit PROVE CountsUp'
  BY <1>6 DEF ExitUnmap, ExitTimer, ExitQuitTimer, ModuleInit
<1>7. CASE UNCHANGED vars
  BY <1>7 DEF vars
<1> QED BY <1>1, <1>2, <1>3, <1>4, <1>5, <1>6, <1>7 DEF Next

\* The countdown and the interrupts it depends on.
LEMMA QuitStep == IInv /\ [Next]_vars => QuitInv' /\ CarryInv'
<1> SUFFICES ASSUME IInv, [Next]_vars PROVE QuitInv' /\ CarryInv'
  OBVIOUS
<1> USE DEF TypeOK, QuitInv, CarryInv, IInv, driver, button, device, ghosts
<1>1. ASSUME inter_start \/ inter_pause \/ inter_reset \/ HandlerSpins \/ QuitButton
      PROVE  QuitInv' /\ CarryInv'
  BY <1>1 DEF inter_start, inter_pause, inter_reset, HandlerSpins, QuitButton
<1>2. ASSUME inter_quit PROVE QuitInv' /\ CarryInv'
  BY <1>2 DEF inter_quit, Handler, QuitSeconds, LetGo
<1>3. ASSUME TickDisplay \/ TickRearm \/ WriteUnmapped PROVE QuitInv' /\ CarryInv'
  BY <1>3 DEF TickDisplay, TickRearm, WriteUnmapped
<1>4. ASSUME QuitCount PROVE QuitInv' /\ CarryInv'
  BY <1>4 DEF QuitCount, SoftIrqFree
<1>5. ASSUME QuitFinish PROVE QuitInv' /\ CarryInv'
  BY <1>5 DEF QuitFinish
<1>6. ASSUME NEW a \in Apps, Process(a) PROVE QuitInv' /\ CarryInv'
  BY <1>6 DEF Process, OpenCheck, OpenClaim, OpenRequest, Write, Signal, Leave,
              ReleaseUsage, ReleaseIrqs, ReleaseSeconds
<1>7. ASSUME ExitUnmap \/ ExitTimer \/ ExitQuitTimer \/ ModuleInit
      PROVE  QuitInv' /\ CarryInv'
  BY <1>7 DEF ExitUnmap, ExitTimer, ExitQuitTimer, ModuleInit
<1>8. CASE UNCHANGED vars
  BY <1>8 DEF vars
<1> QED BY <1>1, <1>2, <1>3, <1>4, <1>5, <1>6, <1>7, <1>8 DEF Next, Irq

\* Who holds the interrupts.
LEMMA HolderStep == IInv /\ [Next]_vars => HolderInv'
<1> SUFFICES ASSUME IInv, [Next]_vars PROVE HolderInv'
  OBVIOUS
<1> USE DEF TypeOK, HolderInv, IInv, driver, button, device, ghosts
<1>1. ASSUME irqs' = irqs,
             \A a \in Apps : app[a] \in {"open", "asleep", "awake", "freeing"}
                             => app'[a] \in {"open", "asleep", "awake", "freeing"}
      PROVE  HolderInv'
  BY <1>1
<1>2. ASSUME Irq \/ QuitButton \/ TickDisplay \/ TickRearm \/ QuitCount \/ WriteUnmapped
      PROVE  HolderInv'
  BY <1>2 DEF Irq, inter_start, inter_pause, inter_reset, inter_quit, HandlerSpins,
              QuitButton, TickDisplay, TickRearm, QuitCount, WriteUnmapped
<1>3. ASSUME QuitFinish PROVE HolderInv'
  BY <1>1, <1>3 DEF QuitFinish, WakeUp
<1>4. ASSUME NEW a \in Apps, Process(a) PROVE HolderInv'
  <2>1. ASSUME OpenCheck(a) \/ OpenClaim(a) \/ Write(a) \/ Signal(a) \/ ReleaseUsage(a)
               \/ ReleaseSeconds(a)
        PROVE  HolderInv'
    BY <1>1, <2>1 DEF OpenCheck, OpenClaim, Write, Signal, ReleaseUsage, ReleaseSeconds, Goto
  <2>2. ASSUME OpenRequest(a) \/ ReleaseIrqs(a) PROVE HolderInv'
    BY <2>2 DEF OpenRequest, ReleaseIrqs, Goto
  <2> QED BY <1>4, <2>1, <2>2 DEF Process, Leave
<1>5. ASSUME ExitUnmap \/ ExitTimer \/ ExitQuitTimer \/ ModuleInit PROVE HolderInv'
  BY <1>5 DEF ExitUnmap, ExitTimer, ExitQuitTimer, ModuleInit
<1>6. CASE UNCHANGED vars
  BY <1>6 DEF vars
<1> QED BY <1>2, <1>3, <1>4, <1>5, <1>6 DEF Next
\* A claim without a race is made while everybody else is outside, and a
\* release lets others in only after it has given dev_usage back.
LEMMA SessionStep == IInv /\ [Next]_vars => SessionInv'
<1> SUFFICES ASSUME IInv, [Next]_vars PROVE SessionInv'
  OBVIOUS
<1> USE DEF TypeOK, SessionInv, IInv, driver, button, device, ghosts
<1>1. ASSUME Irq \/ QuitButton \/ TickDisplay \/ TickRearm \/ QuitCount \/ WriteUnmapped
      PROVE  SessionInv'
  BY <1>1 DEF Irq, inter_start, inter_pause, inter_reset, inter_quit, HandlerSpins,
              QuitButton, TickDisplay, TickRearm, QuitCount, WriteUnmapped
<1>2. ASSUME QuitFinish PROVE SessionInv'
  BY <1>2 DEF QuitFinish, WakeUp
<1>3. ASSUME NEW a \in Apps, Process(a) PROVE SessionInv'
  <2>1. CASE OpenCheck(a)
    BY <2>1 DEF OpenCheck, Goto, Unused
  <2>2. CASE OpenClaim(a)
    <3>1. app[a] = "checked" /\ app' = [app EXCEPT ![a] = "claimed"] /\ dev_usage' = 1
      BY <2>2 DEF OpenClaim, Goto
    <3>2. SUFFICES ASSUME ~raced' PROVE SessionInv'
      OBVIOUS
    <3>3. ~raced /\ \A b \in Apps \ {a} : app[b] \notin {"checked", "freeing", "zeroing"}
      BY <2>2, <3>2 DEF OpenClaim
    <3>4. ASSUME NEW b \in Apps \ {a} PROVE app[b] = "none"
      BY <3>1, <3>3
    <3> QED BY <3>1, <3>4
  <2>3. CASE OpenRequest(a)
    BY <2>3 DEF OpenRequest, Goto
  <2>4. CASE Write(a)
    BY <2>4 DEF Write, Goto
  <2>5. CASE Signal(a)
    BY <2>5 DEF Signal, Goto
  <2>6. CASE ReleaseUsage(a)
    BY <2>6 DEF ReleaseUsage, Goto
  <2>7. CASE ReleaseIrqs(a)
    BY <2>7 DEF ReleaseIrqs, Goto
  <2>8. CASE ReleaseSeconds(a)
    BY <2>8 DEF ReleaseSeconds, Goto
  <2> QED BY <1>3, <2>1, <2>2, <2>3, <2>4, <2>5, <2>6, <2>7, <2>8 DEF Process, Leave
<1>4. ASSUME ExitUnmap \/ ExitTimer \/ ExitQuitTimer \/ ModuleInit PROVE SessionInv'
  BY <1>4 DEF ExitUnmap, ExitTimer, ExitQuitTimer, ModuleInit, ExitInv
<1>5. CASE UNCHANGED vars
  BY <1>5 DEF vars
<1> QED BY <1>1, <1>2, <1>3, <1>4, <1>5 DEF Next

\* With no session there are no interrupts, so nothing adds a timer again once
\* stopwatch_exit has deleted it.
LEMMA ExitStep == IInv /\ [Next]_vars => ExitInv'
<1> SUFFICES ASSUME IInv, [Next]_vars PROVE ExitInv'
  OBVIOUS
<1> USE DEF TypeOK, ExitInv, HolderInv, IInv, driver, button, device, ghosts
<1>1. ASSUME Irq \/ QuitButton PROVE ExitInv'
  BY <1>1 DEF Irq, inter_start, inter_pause, inter_reset, inter_quit, HandlerSpins,
              QuitButton, Handler
<1>2. ASSUME TickDisplay \/ TickRearm \/ WriteUnmapped PROVE ExitInv'
  BY <1>2 DEF TickDisplay, TickRearm, WriteUnmapped
<1>3. ASSUME QuitCount \/ QuitFinish PROVE ExitInv'
  BY <1>3 DEF QuitCount, QuitFinish, WakeUp
<1>4. ASSUME NEW a \in Apps, Process(a) PROVE ExitInv'
  <2>1. module = "in" /\ module' = "in"
    BY <1>4 DEF Process, OpenCheck, OpenClaim, OpenRequest, Write, Signal, Leave,
                ReleaseUsage, ReleaseIrqs, ReleaseSeconds, Goto
  <2> QED BY <2>1
<1>5. ASSUME ExitUnmap \/ ExitTimer \/ ExitQuitTimer \/ ModuleInit PROVE ExitInv'
  BY <1>5 DEF ExitUnmap, ExitTimer, ExitQuitTimer, ModuleInit
<1>6. CASE UNCHANGED vars
  BY <1>6 DEF vars
<1> QED BY <1>1, <1>2, <1>3, <1>4, <1>5, <1>6 DEF Next

LEMMA Invariance == Spec => []IInv
<1>1. IInv /\ [Next]_vars => IInv'
  BY TypeStep, StoppedStep, CountsStep, QuitStep, HolderStep, SessionStep, ExitStep
     DEF IInv
<1> QED BY <1>1, InitInv, PTL DEF Spec

------------------------------------------------------------------------------
(***************************************************************************)
(* Theorems                                                                *)
(***************************************************************************)

\* The type invariant, for any number of processes and any period.
THEOREM TypeCorrect == Spec => []TypeOK
<1>1. IInv => TypeOK
  BY DEF IInv
<1> QED BY <1>1, Invariance, PTL

\* No second is skipped or shown twice.
THEOREM EverySecondShown == Spec => []CountsUp
<1>1. IInv => CountsUp
  BY DEF IInv
<1> QED BY <1>1, Invariance, PTL

\* A quit counts the seconds of one press.
THEOREM OnePressCounts == Spec => []QuitCountsThisPress
<1>1. IInv => QuitCountsThisPress
  BY DEF IInv, QuitInv, QuitCountsThisPress
<1> QED BY <1>1, Invariance, PTL

\* Letting the button go cancels the quit.
THEOREM LettingGoCancels == Spec => []LetGoCancels
<1>1. IInv => LetGoCancels
  BY DEF IInv, CarryInv, LetGoCancels
<1> QED BY <1>1, Invariance, PTL

------------------------------------------------------------------------------
(***************************************************************************)
(* How the handlers' processor is lost                                     *)
(***************************************************************************)

\* A fault needs a timer that nobody stopped, and the free_irq of a release waits
\* for the handler that spins.
LostInv ==
    /\ cpu = "oops" => Unmapped /\ (~stopped \/ carried)
    /\ cpu = "spin" => irqs

LEMMA LostStep == IInv /\ LostInv /\ [Next]_vars => LostInv'
<1> SUFFICES ASSUME IInv, LostInv, [Next]_vars PROVE LostInv'
  OBVIOUS
<1> USE DEF LostInv, Unmapped, driver, button, device, ghosts
<1>1. ASSUME Irq \/ QuitButton PROVE LostInv'
  BY <1>1 DEF Irq, inter_start, inter_pause, inter_reset, inter_quit, HandlerSpins,
              QuitButton, Handler
<1>2. ASSUME TickDisplay \/ TickRearm \/ QuitCount \/ QuitFinish PROVE LostInv'
  BY <1>2 DEF TickDisplay, TickRearm, QuitCount, QuitFinish, SoftIrqFree
<1>3. CASE WriteUnmapped
  <2>1. ~irqs
    BY <1>3 DEF IInv, HolderInv, ExitInv, WriteUnmapped
  <2>2. timer = "pending" => ~stopped
    BY DEF IInv, StaysStopped
  <2>3. quit_timer = "pending" => carried
    BY <2>1 DEF IInv, CarryInv
  <2> QED BY <1>3, <2>2, <2>3 DEF WriteUnmapped
<1>4. ASSUME NEW a \in Apps, Process(a) PROVE LostInv'
  BY <1>4 DEF Process, OpenCheck, OpenClaim, OpenRequest, Write, Signal, Leave,
              ReleaseUsage, ReleaseIrqs, ReleaseSeconds, Goto
<1>5. ASSUME ExitUnmap \/ ExitTimer \/ ExitQuitTimer \/ ModuleInit PROVE LostInv'
  BY <1>5 DEF ExitUnmap, ExitTimer, ExitQuitTimer, ModuleInit, IInv, ExitInv
<1>6. CASE UNCHANGED vars
  BY <1>6 DEF vars
<1> QED BY <1>1, <1>2, <1>3, <1>4, <1>5, <1>6 DEF Next

LEMMA LostInvariance == Spec => [](IInv /\ LostInv)
<1>1. Init => LostInv
  BY DEF Init, LostInv
<1> QED BY <1>1, LostStep, Invariance, PTL DEF Spec

\* Paused, reset or quit, the stopwatch stands still until Start; a removed
\* module leaves no timer behind, although release deletes none; and the iounmap
\* of stopwatch_exit before its del_timer_sync harms only what was left going.
THEOREM TimersDoStop == Spec => []TimersStop
<1>1. IInv => StaysStopped /\ UnloadedQuiet
  BY DEF IInv, ExitInv, UnloadedQuiet
<1>2. LostInv => SafeToRemove
  BY DEF LostInv, SafeToRemove
<1> QED BY <1>1, <1>2, LostInvariance, PTL DEF TimersStop

\* dev_usage keeps the driver to one process as long as no open races, and the
\* interrupts are never left to a driver nobody has open, nor given back once
\* del_timer_sync waits for its own processor.
THEOREM SessionsAreHeld == Spec => []SessionsHold
<1>1. IInv => Exclusive
  BY DEF IInv, SessionInv, Exclusive
<1>2. IInv => IrqsHaveSession
  BY DEF IInv, HolderInv, IrqsHaveSession
<1>3. IInv /\ LostInv => StuckStaysOpen
  BY DEF LostInv, IInv, HolderInv, ExitInv, StuckStaysOpen
<1> QED BY <1>1, <1>2, <1>3, LostInvariance, PTL DEF SessionsHold
==============================================================================
