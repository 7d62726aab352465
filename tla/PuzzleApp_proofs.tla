-------------------------- MODULE PuzzleApp_proofs ---------------------------
(***************************************************************************)
(* What the hw4 driver guarantees to the application for every number of   *)
(* games and every length of the countdown.                                *)
(***************************************************************************)
EXTENDS PuzzleApp, TLAPS

USE PuzzleAssumption
USE DEF Games, INIT_MODE, COUNT_MODE, TIMER_MODE

------------------------------------------------------------------------------
(***************************************************************************)
(* The inductive invariant                                                 *)
(***************************************************************************)

Held == {"ready", "asleep", "woken", "closing"}
Gone == {"none", "closed", "done"}
Playing == {"ready", "asleep", "woken"}

\* A slide that is being counted has room for one more; the owner of the
\* countdown is a game that has begun.
RangeInv ==
    /\ ui = "counting" => count < MaxCount
    /\ ui = "adding" => old < MaxCount
    /\ owner <= cur

\* A countdown about to lose a second has one, or began with none.
SecondsInv ==
    /\ seconds < 0 => low
    /\ timer = "pending" => seconds > 0 \/ low

\* The game being opened has no thread yet.
OpeningInv ==
    /\ \A g \in Games : g > cur => reader[g] = "none"
    /\ ui = "opening" => cur \in Games /\ reader[cur] = "none"

\* Without a race the device is with the game being opened, with one thread, or
\* with one release, and with nobody else.
HolderInv ==
    ~raced =>
        /\ ui = "opening" => dev_usage = 1 /\ \A g \in Games : reader[g] \in Gone
        /\ \A g \in Games :
              /\ reader[g] \in Held => irqs /\ dev_usage = 1
              /\ reader[g] \notin Gone =>
                    ui # "opening" /\ \A h \in Games \ {g} : reader[h] \in Gone

\* What count++ has loaded, and what it adds to, are the slides of this game.
CountInv ==
    mode # INIT_MODE /\ (ui = "opening" \/ \E g \in Games : g = cur /\ reader[g] \in Playing) =>
        /\ count = slides
        /\ ui = "adding" => old = slides

\* The module is removed with nobody in the driver.
ExitInv == module # "in" => ui # "opening" /\ \A g \in Games : reader[g] \in Gone

\* A thread on its way to sleep, or asleep, finds the driver playing.
PlayInv ==
    ~missed /\ ~raced =>
        /\ ui = "opening" => mode # INIT_MODE
        /\ \A g \in Games : reader[g] \in {"ready", "asleep"} => mode # INIT_MODE

IInv ==
    /\ TypeOK
    /\ RangeInv
    /\ SecondsInv
    /\ ModeTellsTimer
    /\ OpeningInv
    /\ CountInv
    /\ HolderInv
    /\ ExitInv
    /\ PlayInv

LEMMA InitInv == Init => IInv
<1> SUFFICES ASSUME Init PROVE IInv
  OBVIOUS
<1> USE DEF Init
<1>1. TypeOK
  <2>1. 0 \in 0 .. MaxCount /\ 0 \in -Below .. MaxSeconds /\ 0 \in 0 .. MaxGames
    OBVIOUS
  <2> QED BY <2>1 DEF TypeOK
<1>2. RangeInv /\ SecondsInv /\ ModeTellsTimer /\ OpeningInv /\ CountInv
  BY DEF RangeInv, SecondsInv, ModeTellsTimer, OpeningInv, CountInv
<1>3. HolderInv /\ ExitInv /\ PlayInv
  BY DEF HolderInv, ExitInv, PlayInv, Held, Gone
<1> QED BY <1>1, <1>2, <1>3 DEF IInv

------------------------------------------------------------------------------
(***************************************************************************)
(* Each part is preserved by every step                                    *)
(***************************************************************************)

ReaderStates == {"none", "ready", "asleep", "woken", "closing",
                 "freeing", "disabling", "closed", "done"}
WhyStates == {"nothing", "solved", "own", "stale"}

LEMMA WakeType ==
    ASSUME NEW cause \in [Games -> WhyStates], TypeOK, WakeUp(cause)
    PROVE  /\ reader' \in [Games -> ReaderStates]
           /\ why' \in [Games -> WhyStates]
           /\ missed' \in BOOLEAN
<1>1. reader' \in [Games -> ReaderStates]
  BY DEF WakeUp, TypeOK, ReaderStates
<1>2. why' \in [Games -> WhyStates]
  BY DEF WakeUp, TypeOK, WhyStates
<1>3. missed' \in BOOLEAN
  BY DEF WakeUp, TypeOK
<1> QED BY <1>1, <1>2, <1>3

LEMMA TypeStep == IInv /\ [Next]_vars => TypeOK'
<1> SUFFICES ASSUME TypeOK, RangeInv, [Next]_vars PROVE TypeOK'
  BY DEF IInv
<1> USE DEF TypeOK, driver, device, app, tally, ghosts
<1>0. /\ 0 \in 0 .. MaxCount /\ 0 \in -Below .. MaxSeconds
      /\ cur \in 0 .. MaxGames
  OBVIOUS
<1>1. CASE inter_mode_chg
  <2>1. mode' \in {COUNT_MODE, TIMER_MODE} /\ timer' = "idle" /\ seconds' = 0
    BY <1>1 DEF inter_mode_chg, TimerOnChange
  <2>2. low' \in BOOLEAN
    BY <1>1 DEF inter_mode_chg
  <2>3. UNCHANGED <<tally, count, device, cpu, app, owner, why, missed, raced>>
    BY <1>1 DEF inter_mode_chg, Handler
  <2> QED BY <1>0, <2>1, <2>2, <2>3
<1>2. CASE inter_timer_up
  BY <1>2 DEF inter_timer_up, Handler, OneMore
<1>3. CASE inter_timer_start
  BY <1>3 DEF inter_timer_start, Handler
<1>4. CASE HandlerSpins
  BY <1>4 DEF HandlerSpins
<1>5. CASE TickShow
  BY <1>5 DEF TickShow, OneLess
<1>6. CASE TickEnd
  <2> DEFINE cause == [g \in Games |-> IF g = owner THEN "own" ELSE "stale"]
  <2>1. cause \in [Games -> WhyStates]
    BY DEF WhyStates
  <2>2. CASE Expired
    <3>1. WakeUp(cause)
      BY <1>6, <2>2 DEF TickEnd
    <3>2. /\ reader' \in [Games -> ReaderStates]
          /\ why' \in [Games -> WhyStates]
          /\ missed' \in BOOLEAN
      BY <2>1, <3>1, WakeType
    <3> QED BY <1>0, <1>6, <2>2, <3>2 DEF TickEnd, ReaderStates, WhyStates
  <2>3. CASE ~Expired
    BY <1>6, <2>3 DEF TickEnd
  <2> QED BY <2>2, <2>3
<1>7. CASE WriteUnmapped
  BY <1>7 DEF WriteUnmapped
<1>8. CASE Start
  <2>1. /\ mode' = COUNT_MODE /\ count' = 0 /\ dev_usage' = 1
        /\ ui' = "opening" /\ cur' \in 0 .. MaxGames
    BY <1>8 DEF Start
  <2>2. missed' \in BOOLEAN /\ raced' \in BOOLEAN /\ slides' = 0
    BY <1>8 DEF Start
  <2>3. UNCHANGED <<old, seconds, timer, irqs, module, cpu, reader, orphans, owner, low, why>>
    BY <1>8 DEF Start, Runs
  <2> QED BY <1>0, <2>1, <2>2, <2>3
<1>9. CASE OpenRequest
  BY <1>9 DEF OpenRequest, Runs
<1>10. CASE StartFails
  <2>1. reader' \in [Games -> ReaderStates] /\ orphans' \subseteq Games
    BY <1>10 DEF StartFails, ReaderStates
  <2> QED BY <1>10, <2>1 DEF StartFails, Runs, ReaderStates
<1>11. CASE Slide
  BY <1>11 DEF Slide, Runs
<1>12. CASE CountSlide
  <2>1. count' \in 0 .. MaxCount /\ old' = 0 /\ slides' \in Nat
    BY <1>12 DEF CountSlide, RangeInv
  <2> QED BY <1>0, <1>12, <2>1 DEF CountSlide, Runs
<1>13. CASE Win
  <2> DEFINE cause == [g \in Games |-> "solved"]
  <2>1. cause \in [Games -> WhyStates]
    BY DEF WhyStates
  <2>2. WakeUp(cause) \/ UNCHANGED <<reader, why, missed>>
    BY <1>13 DEF Win
  <2>3. /\ reader' \in [Games -> ReaderStates]
        /\ why' \in [Games -> WhyStates]
        /\ missed' \in BOOLEAN
    BY <2>1, <2>2, WakeType DEF ReaderStates, WhyStates
  <2> QED BY <1>13, <2>3 DEF Win, Runs, ReaderStates, WhyStates
<1>14. CASE Leave
  BY <1>14 DEF Leave, Runs
<1>15. ASSUME NEW g \in Games, Sleep(g) \/ Ends(g) \/ Return(g) PROVE TypeOK'
  <2>1. CASE Sleep(g)
    BY <2>1 DEF Sleep, ReaderGoto, Runs
  <2>2. CASE Close(g)
    BY <2>2 DEF Close, ReaderGoto, Runs
  <2>3. CASE ReleaseUsage(g)
    BY <2>3 DEF ReleaseUsage, ReaderGoto, Runs
  <2>4. CASE ReleaseMode(g)
    BY <2>4 DEF ReleaseMode, ReaderGoto, Runs
  <2>5. CASE ReleaseIrqs(g)
    BY <2>5 DEF ReleaseIrqs, ReaderGoto, Runs
  <2>6. CASE Return(g)
    BY <2>6 DEF Return, ReaderGoto, Runs
  <2> QED BY <1>15, <2>1, <2>2, <2>3, <2>4, <2>5, <2>6 DEF Ends
<1>16. CASE ExitUnmap
  BY <1>16 DEF ExitUnmap, Runs
<1>17. CASE ExitTimer
  BY <1>17 DEF ExitTimer, Runs
<1>18. CASE ModuleInit
  BY <1>0, <1>18 DEF ModuleInit, Runs
<1>19. CASE UNCHANGED vars
  BY <1>19 DEF vars
<1>20. CASE CountLoad
  BY <1>20 DEF CountLoad, Runs
<1> QED BY <1>1, <1>2, <1>3, <1>4, <1>5, <1>6, <1>7, <1>8, <1>9, <1>10, <1>11,
          <1>12, <1>13, <1>14, <1>15, <1>16, <1>17, <1>18, <1>19, <1>20
       DEF Next, Irq, Tick, UI

\* Only a slide adds to the count, and only Start and the start button move cur
\* and the owner.
LEMMA RangeStep == IInv /\ [Next]_vars => RangeInv'
<1> SUFFICES ASSUME TypeOK, RangeInv, [Next]_vars PROVE RangeInv'
  BY DEF IInv
<1> USE DEF TypeOK, RangeInv, driver, device, app, tally, ghosts
<1>1. CASE Irq
  BY <1>1 DEF Irq, inter_mode_chg, inter_timer_up, inter_timer_start, HandlerSpins
<1>2. CASE Tick
  BY <1>2 DEF Tick, TickShow, TickEnd, WriteUnmapped
<1>3. CASE UI
  BY <1>3 DEF UI, OpenRequest, CountLoad, CountSlide, Win
<1>4. ASSUME Start \/ StartFails \/ Slide \/ Leave PROVE RangeInv'
  BY <1>4 DEF Start, StartFails, Slide, Leave
<1>5. ASSUME NEW g \in Games, Sleep(g) \/ Ends(g) \/ Return(g) PROVE RangeInv'
  BY <1>5 DEF Sleep, Ends, Close, ReleaseUsage, ReleaseMode, ReleaseIrqs, Return
<1>6. ASSUME ExitUnmap \/ ExitTimer \/ ModuleInit PROVE RangeInv'
  BY <1>6 DEF ExitUnmap, ExitTimer, ModuleInit
<1>7. CASE UNCHANGED vars
  BY <1>7 DEF vars
<1> QED BY <1>1, <1>2, <1>3, <1>4, <1>5, <1>6, <1>7 DEF Next

\* The countdown: its seconds, and whose it is.
LEMMA CountdownStep == IInv /\ [Next]_vars => SecondsInv' /\ ModeTellsTimer'
<1> SUFFICES ASSUME TypeOK, RangeInv, SecondsInv, ModeTellsTimer, [Next]_vars
             PROVE  SecondsInv' /\ ModeTellsTimer'
  BY DEF IInv
<1> USE DEF TypeOK, SecondsInv, ModeTellsTimer, driver, device, app, tally, ghosts
<1>1. CASE inter_mode_chg
  BY <1>1 DEF inter_mode_chg, TimerOnChange
<1>2. CASE inter_timer_up
  BY <1>2 DEF inter_timer_up, OneMore
<1>3. CASE inter_timer_start
  <2>1. low' <=> seconds <= 0
    BY <1>3 DEF inter_timer_start
  <2>2. SecondsInv'
    BY <1>3, <2>1 DEF inter_timer_start
  <2>3. ModeTellsTimer'
    BY <1>3 DEF inter_timer_start
  <2> QED BY <2>2, <2>3
<1>4. CASE HandlerSpins
  BY <1>4 DEF HandlerSpins
<1>5. CASE TickShow
  BY <1>5 DEF TickShow, OneLess
<1>6. CASE TickEnd
  BY <1>6 DEF TickEnd, Expired
<1>7. CASE WriteUnmapped
  BY <1>7 DEF WriteUnmapped
<1>8. CASE UI
  BY <1>8 DEF UI, OpenRequest, CountLoad, CountSlide, Win, Runs
<1>9. CASE Start
  BY <1>9 DEF Start, Runs, RangeInv
<1>10. ASSUME StartFails \/ Slide \/ Leave PROVE SecondsInv' /\ ModeTellsTimer'
  BY <1>10 DEF StartFails, Slide, Leave, Runs
<1>11. ASSUME NEW g \in Games, Sleep(g) \/ Ends(g) \/ Return(g)
       PROVE  SecondsInv' /\ ModeTellsTimer'
  BY <1>11 DEF Sleep, Ends, Close, ReleaseUsage, ReleaseMode, ReleaseIrqs, Return,
               ReaderGoto, Runs
<1>12. ASSUME ExitUnmap \/ ExitTimer \/ ModuleInit PROVE SecondsInv' /\ ModeTellsTimer'
  BY <1>12 DEF ExitUnmap, ExitTimer, ModuleInit, Runs
<1>13. CASE UNCHANGED vars
  BY <1>13 DEF vars
<1> QED BY <1>1, <1>2, <1>3, <1>4, <1>5, <1>6, <1>7, <1>8, <1>9, <1>10, <1>11,
          <1>12, <1>13 DEF Next, Irq, Tick

------------------------------------------------------------------------------
(***************************************************************************)
(* Who is in the driver                                                    *)
(***************************************************************************)

SessionInv == OpeningInv /\ HolderInv /\ ExitInv /\ PlayInv

LEMMA SessionStep == IInv /\ [Next]_vars => SessionInv'
<1> SUFFICES ASSUME TypeOK, SessionInv, [Next]_vars PROVE SessionInv'
  BY DEF IInv, SessionInv
<1> USE DEF TypeOK, SessionInv, OpeningInv, HolderInv, ExitInv, PlayInv, Held, Gone,
            driver, device, app, ghosts
<1>1. CASE Irq
  BY <1>1 DEF Irq, inter_mode_chg, inter_timer_up, inter_timer_start, HandlerSpins
<1>2. ASSUME TickShow \/ WriteUnmapped PROVE SessionInv'
  BY <1>2 DEF TickShow, WriteUnmapped
<1>3. CASE TickEnd
  <2>1. CASE Expired
    <3>1. \A g \in Games : reader'[g] = IF reader[g] = "asleep" THEN "woken" ELSE reader[g]
      BY <1>3, <2>1 DEF TickEnd, WakeUp
    <3>2. missed' = (missed \/ ui = "opening" \/ \E g \in Games : reader[g] = "ready")
      BY <1>3, <2>1 DEF TickEnd, WakeUp
    <3>3. UNCHANGED <<device, ui, cur, raced>>
      BY <1>3 DEF TickEnd
    <3>4. OpeningInv'
      BY <3>1, <3>3
    <3>5. HolderInv' /\ ExitInv'
      BY <3>1, <3>3
    <3>6. PlayInv'
      BY <3>1, <3>2, <3>3
    <3> QED BY <3>4, <3>5, <3>6
  <2>2. CASE ~Expired
    BY <1>3, <2>2 DEF TickEnd
  <2> QED BY <2>1, <2>2
<1>4. CASE OpenRequest
  BY <1>4 DEF OpenRequest
<1>5. ASSUME CountLoad \/ CountSlide PROVE SessionInv'
  BY <1>5 DEF CountLoad, CountSlide
<1>6. CASE Win
  <2>1. ui = "won" /\ ui' = "game" /\ UNCHANGED <<mode, device, cur, raced>>
    BY <1>6 DEF Win
  <2>2. CASE WakeUp([g \in Games |-> "solved"])
    <3>1. \A g \in Games : reader'[g] = IF reader[g] = "asleep" THEN "woken" ELSE reader[g]
      BY <2>2 DEF WakeUp
    <3>2. missed => missed'
      BY <2>2 DEF WakeUp
    <3> QED BY <2>1, <3>1, <3>2
  <2>3. CASE UNCHANGED <<reader, why, missed>>
    BY <2>1, <2>3
  <2> QED BY <1>6, <2>2, <2>3 DEF Win
<1>7. CASE Start
  <2>1. /\ dev_usage = 0 /\ module = "in" /\ module' = module /\ reader' = reader
        /\ ui' = "opening" /\ dev_usage' = 1 /\ mode' = COUNT_MODE
        /\ cur < MaxGames /\ cur' = cur + 1
    BY <1>7 DEF Start, CanOpen
  <2>2. raced' = (raced \/ \E g \in Games : reader[g] \in {"freeing", "disabling"})
    BY <1>7 DEF Start
  <2>3. OpeningInv'
    BY <2>1
  <2>4. ASSUME ~raced', NEW g \in Games PROVE reader[g] \in Gone
    <3>1. ~raced /\ reader[g] \notin {"freeing", "disabling"}
      BY <2>2, <2>4
    <3>2. reader[g] \notin Held
      BY <2>1, <3>1
    <3> QED BY <3>1, <3>2
  <2>5. HolderInv' /\ ExitInv' /\ PlayInv'
    BY <2>1, <2>4
  <2> QED BY <2>3, <2>5
<1>8. CASE StartFails
  BY <1>8 DEF StartFails
<1>9. ASSUME Slide \/ Leave PROVE SessionInv'
  BY <1>9 DEF Slide, Leave
<1>10. ASSUME NEW g \in Games, Sleep(g) \/ Close(g) PROVE SessionInv'
  BY <1>10 DEF Sleep, Close, ReaderGoto
<1>11. ASSUME NEW g \in Games, ReleaseUsage(g) \/ ReleaseMode(g) PROVE SessionInv'
  BY <1>11 DEF ReleaseUsage, ReleaseMode, ReaderGoto
<1>14. ASSUME NEW g \in Games, ReleaseIrqs(g) \/ Return(g) PROVE SessionInv'
  BY <1>14 DEF ReleaseIrqs, Return, ReaderGoto
<1>12. ASSUME ExitUnmap \/ ExitTimer \/ ModuleInit PROVE SessionInv'
  BY <1>12 DEF ExitUnmap, ExitTimer, ModuleInit
<1>13. CASE UNCHANGED vars
  BY <1>13 DEF vars
<1> QED BY <1>1, <1>2, <1>3, <1>4, <1>5, <1>6, <1>7, <1>8, <1>9, <1>10, <1>11,
          <1>12, <1>13, <1>14 DEF Next, Tick, UI, Ends

\* Only Start, a slide and the end of the playing modes set the count, and the
\* module is not removed under a game.
LEMMA CountStep == IInv /\ [Next]_vars => CountInv'
<1> SUFFICES ASSUME TypeOK, OpeningInv, ExitInv, CountInv, [Next]_vars PROVE CountInv'
  BY DEF IInv
<1> USE DEF CountInv, Playing, driver, device, app, tally, ghosts
<1>0. cur \in 0 .. MaxGames /\ reader \in [Games -> ReaderStates]
  BY DEF TypeOK, ReaderStates
<1>1. ASSUME inter_mode_chg \/ inter_timer_up \/ inter_timer_start \/ HandlerSpins
      PROVE  CountInv'
  BY <1>1 DEF inter_mode_chg, inter_timer_up, inter_timer_start, HandlerSpins
<1>2. ASSUME TickShow \/ WriteUnmapped PROVE CountInv'
  BY <1>2 DEF TickShow, WriteUnmapped
<1>3. CASE TickEnd
  <2>1. CASE Expired
    BY <1>3, <2>1 DEF TickEnd
  <2>2. CASE ~Expired
    BY <1>3, <2>2 DEF TickEnd
  <2> QED BY <2>1, <2>2
<1>4. CASE Start
  BY <1>4 DEF Start
<1>5. CASE OpenRequest
  BY <1>5 DEF OpenRequest
<1>6. CASE StartFails
  <2>1. \A g \in Games : reader'[g] \notin Playing
    BY <1>0, <1>6 DEF StartFails, ReaderStates
  <2> QED BY <1>6, <2>1 DEF StartFails
<1>7. ASSUME Slide \/ CountLoad \/ Leave PROVE CountInv'
  BY <1>7 DEF Slide, CountLoad, Leave
<1>8. CASE CountSlide
  BY <1>8 DEF CountSlide
<1>9. CASE Win
  <2>1. \A g \in Games : reader'[g] \in Playing => reader[g] \in Playing
    BY <1>0, <1>9 DEF Win, WakeUp
  <2> QED BY <1>9, <2>1 DEF Win
<1>10. ASSUME NEW g \in Games, Sleep(g) \/ Close(g) \/ ReleaseUsage(g) PROVE CountInv'
  BY <1>0, <1>10 DEF Sleep, Close, ReleaseUsage, ReaderGoto
<1>11. ASSUME NEW g \in Games, ReleaseMode(g) \/ ReleaseIrqs(g) \/ Return(g)
       PROVE  CountInv'
  BY <1>0, <1>11 DEF ReleaseMode, ReleaseIrqs, Return, ReaderGoto
<1>12. ASSUME ExitUnmap \/ ExitTimer PROVE CountInv'
  BY <1>12 DEF ExitUnmap, ExitTimer
<1>13. CASE ModuleInit
  BY <1>13 DEF ModuleInit, ExitInv, Gone
<1>14. CASE UNCHANGED vars
  BY <1>14 DEF vars
<1> QED BY <1>1, <1>2, <1>3, <1>4, <1>5, <1>6, <1>7, <1>8, <1>9, <1>10, <1>11,
          <1>12, <1>13, <1>14 DEF Next, Irq, Tick, UI, Ends

LEMMA InvStep == IInv /\ [Next]_vars => IInv'
BY TypeStep, RangeStep, CountdownStep, SessionStep, CountStep DEF IInv, SessionInv

LEMMA Invariant == Spec => []IInv
BY InitInv, InvStep, PTL DEF Spec

------------------------------------------------------------------------------
(***************************************************************************)
(* The theorems                                                            *)
(***************************************************************************)

\* Every variable keeps its type; volume-up never takes the countdown over 60.
THEOREM TypeCorrect == Spec => []TypeOK
<1>1. IInv => TypeOK
  BY DEF IInv
<1> QED BY <1>1, Invariant, PTL

\* However many games left their countdown behind, one that is under way in the
\* timer mode was started in the last game, and inter_mode_chg removes the rest;
\* timer_handler stops at zero unless inter_timer_start began with no second.
THEOREM CountdownIsHeld == Spec => []CountdownHolds
<1>1. IInv => CountdownHolds
  BY DEF IInv, SecondsInv, CountdownHolds, NegativeOnlyFromZero
<1> QED BY <1>1, Invariant, PTL

\* The count++ of driver_write loses no slide of a game that is under way, and
\* starts from none, though driver_write and timer_handler share it without a lock.
THEOREM CountIsOfTheGame == Spec => []CountIsTheGames
<1>1. IInv => CountIsTheGames
  BY DEF IInv, CountInv, CountIsTheGames, Playing
<1> QED BY <1>1, Invariant, PTL

\* A ReadThread does not sleep on in a driver that timer_handler or
\* driver_release has put into INIT_MODE, but for a wake-up before its sleep or a
\* race of driver_open with driver_release.
THEOREM OverIsNoticed == Spec => []OverIsOver
<1>1. IInv => OverIsOver
  BY DEF IInv, PlayInv, OverIsOver, TypeOK
<1> QED BY <1>1, Invariant, PTL

\* dev_usage of device_driver.c keeps the games apart as long as no open
\* overlaps a release.
THEOREM ExclusiveUnlessRaced == Spec => []Exclusive
<1>1. IInv => Exclusive
  BY DEF IInv, HolderInv, Exclusive, Held, Gone, TypeOK
<1> QED BY <1>1, Invariant, PTL

------------------------------------------------------------------------------
(***************************************************************************)
(* How the handlers' processor is lost                                     *)
(***************************************************************************)

\* A game that has begun has had its thread, the interrupts are somebody's, and
\* a countdown is that of a game.
BegunInv ==
    /\ \A g \in Games : g <= cur => reader[g] # "none" \/ (g = cur /\ ui = "opening")
    /\ irqs => \E g \in Games : reader[g] \notin Gone
    /\ timer # "idle" => owner # 0

\* A fault is a countdown of a game that is over, and the free_irq of a release
\* waits for the handler that spins.
LostInv ==
    /\ cpu = "oops" => module = "unmapped" /\ timer = "pending"
    /\ cpu = "spin" => irqs

LEMMA BegunStep == IInv /\ BegunInv /\ [Next]_vars => BegunInv'
<1> SUFFICES ASSUME IInv, BegunInv, [Next]_vars PROVE BegunInv'
  OBVIOUS
<1> USE DEF BegunInv, Gone, driver, device, app, tally, ghosts
<1>0. /\ cur \in 0 .. MaxGames
      /\ reader \in [Games -> ReaderStates]
      /\ ui = "opening" => cur \in Games /\ reader[cur] = "none"
      /\ \A g \in Games : g > cur => reader[g] = "none"
  BY DEF IInv, TypeOK, ReaderStates, OpeningInv
<1>1. ASSUME inter_mode_chg \/ inter_timer_up \/ HandlerSpins PROVE BegunInv'
  BY <1>1 DEF inter_mode_chg, inter_timer_up, HandlerSpins, Handler, TimerOnChange
<1>2. CASE inter_timer_start
  <2>1. PICK g \in Games : reader[g] \notin Gone
    BY <1>2 DEF inter_timer_start, Handler
  <2>2. cur # 0
    BY <1>0, <2>1
  <2> QED BY <1>2, <2>2 DEF inter_timer_start
<1>3. ASSUME TickShow \/ WriteUnmapped PROVE BegunInv'
  BY <1>3 DEF TickShow, WriteUnmapped
<1>4. ASSUME NEW cause, WakeUp(cause), ui = "opening" => ui' = "opening",
             timer' # "idle" => timer # "idle", UNCHANGED <<cur, irqs, owner>>
      PROVE  BegunInv'
  <2>1. \A g \in Games : /\ reader'[g] = "none" <=> reader[g] = "none"
                         /\ reader'[g] \in Gone <=> reader[g] \in Gone
    BY <1>0, <1>4 DEF WakeUp
  <2> QED BY <1>4, <2>1
<1>5. CASE TickEnd
  <2>1. CASE Expired
    BY <1>4, <1>5, <2>1 DEF TickEnd
  <2>2. CASE ~Expired
    BY <1>5, <2>2 DEF TickEnd
  <2> QED BY <2>1, <2>2
<1>6. CASE Win
  <2>1. CASE FileOpen
    BY <1>4, <1>6, <2>1 DEF Win
  <2>2. CASE ~FileOpen
    BY <1>6, <2>2 DEF Win
  <2> QED BY <2>1, <2>2
<1>7. CASE Start
  BY <1>0, <1>7 DEF Start
<1>8. CASE OpenRequest
  <2>1. cur \in Games /\ reader' = [reader EXCEPT ![cur] = "ready"]
    BY <1>0, <1>8 DEF OpenRequest
  <2>2. reader'[cur] = "ready"
    BY <1>0, <2>1
  <2>3. \A g \in Games : g # cur => reader'[g] = reader[g]
    BY <1>0, <2>1
  <2> QED BY <1>8, <2>1, <2>2, <2>3 DEF OpenRequest
<1>9. CASE StartFails
  <2>1. \A g \in Games : /\ reader'[g] = "none" <=> reader[g] = "none"
                         /\ reader'[g] \in Gone <=> reader[g] \in Gone
    BY <1>0, <1>9 DEF StartFails
  <2> QED BY <1>9, <2>1 DEF StartFails
<1>10. ASSUME Slide \/ CountLoad \/ CountSlide \/ Leave PROVE BegunInv'
  BY <1>10 DEF Slide, CountLoad, CountSlide, Leave
<1>11. ASSUME NEW g \in Games, Sleep(g) \/ Close(g) \/ ReleaseUsage(g) \/ ReleaseMode(g)
       PROVE  BegunInv'
  BY <1>0, <1>11 DEF Sleep, Close, ReleaseUsage, ReleaseMode, ReaderGoto
<1>12. ASSUME NEW g \in Games, ReleaseIrqs(g) \/ Return(g) PROVE BegunInv'
  BY <1>0, <1>12 DEF ReleaseIrqs, Return, ReaderGoto
<1>13. ASSUME ExitUnmap \/ ExitTimer \/ ModuleInit PROVE BegunInv'
  BY <1>13 DEF ExitUnmap, ExitTimer, ModuleInit
<1>14. CASE UNCHANGED vars
  BY <1>14 DEF vars
<1> QED BY <1>1, <1>2, <1>3, <1>5, <1>6, <1>7, <1>8, <1>9, <1>10, <1>11, <1>12,
          <1>13, <1>14 DEF Next, Irq, Tick, UI, Ends

LEMMA LostStep == IInv /\ BegunInv /\ LostInv /\ [Next]_vars => LostInv'
<1> SUFFICES ASSUME LostInv, [Next]_vars PROVE LostInv'
  OBVIOUS
<1> USE DEF LostInv, driver, device, app, tally, ghosts
<1>1. CASE Irq
  BY <1>1 DEF Irq, inter_mode_chg, inter_timer_up, inter_timer_start, HandlerSpins, Handler
<1>2. CASE Tick
  BY <1>2 DEF Tick, TickShow, TickEnd, WriteUnmapped
<1>3. ASSUME UI \/ Start \/ StartFails \/ Slide \/ Leave PROVE LostInv'
  BY <1>3 DEF UI, OpenRequest, CountLoad, CountSlide, Win, Start, StartFails, Slide, Leave, Runs
<1>4. ASSUME NEW g \in Games, Sleep(g) \/ Ends(g) \/ Return(g) PROVE LostInv'
  BY <1>4 DEF Sleep, Ends, Close, ReleaseUsage, ReleaseMode, ReleaseIrqs, Return,
              ReaderGoto, Runs
<1>5. ASSUME ExitUnmap \/ ExitTimer \/ ModuleInit PROVE LostInv'
  BY <1>5 DEF ExitUnmap, ExitTimer, ModuleInit, Runs
<1>6. CASE UNCHANGED vars
  BY <1>6 DEF vars
<1> QED BY <1>1, <1>2, <1>3, <1>4, <1>5, <1>6 DEF Next

LEMMA LostInvariant == Spec => [](IInv /\ BegunInv /\ LostInv)
<1>1. Init => BegunInv /\ LostInv
  <2>1. Init => BegunInv
    BY DEF Init, BegunInv
  <2> QED BY <2>1 DEF Init, LostInv
<1> QED BY <1>1, BegunStep, LostStep, Invariant, PTL DEF Spec

\* The iounmap of dev_driver_exit before its del_timer_sync is harmless but to
\* the countdown of a game that is over, which driver_release has not deleted.  A
\* button that caught timer_handler half way is for good: no release gives the
\* interrupts back, so a game stays in the driver and the module cannot be removed.
THEOREM LostIsOfAGame == Spec => []LostIsKnown
<1>1. ASSUME IInv, BegunInv, LostInv, cpu = "oops"
      PROVE  /\ module = "unmapped"
             /\ owner \in Games /\ reader[owner] \in {"closed", "done"}
  <2>1. module = "unmapped" /\ timer = "pending" /\ owner # 0
    BY <1>1 DEF LostInv, BegunInv
  <2>2. owner \in Games /\ owner <= cur
    BY <1>1, <2>1 DEF IInv, TypeOK, RangeInv
  <2>3. ui # "opening" /\ reader[owner] \in Gone
    BY <1>1, <2>1, <2>2 DEF IInv, ExitInv
  <2> QED BY <1>1, <2>1, <2>2, <2>3 DEF BegunInv, Gone
<1>2. ASSUME IInv, BegunInv, LostInv, cpu = "spin"
      PROVE  module = "in" /\ \E g \in Games : reader[g] \notin Gone
  BY <1>2 DEF LostInv, BegunInv, IInv, ExitInv
<1>3. IInv /\ BegunInv /\ LostInv => LostIsKnown
  BY <1>1, <1>2 DEF LostIsKnown, Gone
<1> QED BY <1>3, LostInvariant, PTL
==============================================================================
