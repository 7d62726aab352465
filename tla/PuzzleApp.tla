------------------------------ MODULE PuzzleApp ------------------------------
(***************************************************************************)
(* The hw4 driver (module/device_driver.c) with the Android application    *)
(* that plays on it: MainActivity, MainActivity2 with its ReadThread, and  *)
(* the native calls of jni/driver.c.  The board itself is the module       *)
(* SlidingPuzzle; here a slide either solves it or does not.  As in hw3    *)
(* the timer handler and the button handlers share a processor, and the    *)
(* threads of the application interleave with everything.                  *)
(***************************************************************************)
EXTENDS Integers

CONSTANTS
    MaxGames,     \* bound on the games played
    MaxCount,     \* bound on the slides counted in a game
    MaxSeconds,   \* 60
    Below         \* bound on how far a countdown from zero is followed

ASSUME PuzzleAssumption ==
    MaxGames \in Nat /\ MaxCount \in Nat /\ MaxSeconds \in Nat \ {0} /\ Below \in Nat \ {0}

VARIABLES
    mode,        \* mode
    count,       \* count
    seconds,     \* data.seconds
    timer,       \* data.timer: idle, pending in the wheel, or its handler running
    dev_usage,   \* dev_usage
    irqs,        \* the three interrupts are requested
    module,      \* in | unmapped | out
    cpu,         \* ok | spin | oops: the processor of the handlers
    ui,          \* menu | opening | game | counting | adding | won: the UI thread
    cur,         \* the games begun; the last of them is on the screen
    reader,      \* the ReadThread of every game, with its open file
    orphans,     \* the games whose process has exited
    old,         \* the value of count that count++ has loaded
    \* History, read by the properties only:
    owner,       \* the game in which the countdown was started
    low,         \* it was started with no seconds on it
    why,         \* what ended each game
    slides,      \* the slides of this game that driver_write has counted
    missed,      \* a wake-up came before the thread was asleep
    raced        \* an open overlapped the release of another game

driver == <<mode, count, seconds, timer>>
device == <<dev_usage, irqs, module>>
app == <<ui, cur, reader, orphans>>
tally == <<old, slides>>
ghosts == <<owner, low, why, missed, raced>>
vars == <<driver, device, cpu, app, tally, ghosts>>

INIT_MODE == 0
COUNT_MODE == 1
TIMER_MODE == 2

Games == 1 .. MaxGames

Init ==
    /\ mode = COUNT_MODE /\ count = 0 /\ seconds = 0 /\ timer = "idle"
    /\ dev_usage = 0 /\ irqs = FALSE /\ module = "in" /\ cpu = "ok"
    /\ ui = "menu" /\ cur = 0 /\ reader = [g \in Games |-> "none"] /\ orphans = {}
    /\ old = 0 /\ slides = 0
    /\ owner = 0 /\ low = FALSE /\ why = [g \in Games |-> "nothing"]
    /\ missed = FALSE /\ raced = FALSE

------------------------------------------------------------------------------
(***************************************************************************)
(* Button handlers                                                         *)
(***************************************************************************)

\* A handler runs to its end: its del_timer_sync does not find the handler of
\* the timer executing.
Handler == irqs /\ cpu = "ok" /\ timer # "running" /\ UNCHANGED cpu

\* Mutant: the mode changes and the countdown goes on.
ChangeKeepsTimer == timer
TimerOnChange == "idle"

\* The home button; nothing happens in INIT_MODE.
inter_mode_chg ==
    /\ Handler /\ mode # INIT_MODE
    /\ mode' = 3 - mode
    /\ timer' = TimerOnChange
    /\ seconds' = 0 /\ low' = FALSE
    /\ UNCHANGED <<tally, count, device, app, owner, why, missed, raced>>

\* Mutant: no cap.
NoCap(s) == s + 1
OneMore(s) == IF s + 1 > MaxSeconds THEN MaxSeconds ELSE s + 1

\* The volume-up button: a running countdown is stopped and a second is added.
inter_timer_up ==
    /\ Handler /\ mode = TIMER_MODE
    /\ timer' = "idle"
    /\ seconds' = OneMore(seconds)
    /\ UNCHANGED <<tally, mode, count, device, app, ghosts>>

\* The volume-down button, whatever data.seconds is.
inter_timer_start ==
    /\ Handler /\ mode = TIMER_MODE
    /\ timer' = "pending"
    /\ owner' = cur /\ low' = (seconds <= 0)
    /\ UNCHANGED <<tally, mode, count, seconds, device, app, why, missed, raced>>

\* A button in the middle of timer_handler: del_timer_sync never returns.  The
\* home button has changed the mode by then.
HandlerSpins ==
    /\ irqs /\ cpu = "ok" /\ timer = "running" /\ mode # INIT_MODE
    /\ cpu' = "spin"
    /\ \/ mode' = 3 - mode
       \/ mode = TIMER_MODE /\ UNCHANGED mode
    /\ UNCHANGED <<tally, count, seconds, timer, device, app, ghosts>>

Irq == inter_mode_chg \/ inter_timer_up \/ inter_timer_start \/ HandlerSpins

------------------------------------------------------------------------------
(***************************************************************************)
(* timer_handler                                                           *)
(***************************************************************************)

\* Mutant: the second is not counted.
SameSecond(s) == s
OneLess(s) == s - 1

\* Up to its write of the FND.
TickShow ==
    /\ cpu = "ok" /\ module = "in" /\ timer = "pending" /\ seconds > -Below
    /\ timer' = "running"
    /\ seconds' = OneLess(seconds)
    /\ UNCHANGED <<tally, mode, count, device, cpu, app, ghosts>>

\* Mutant: nobody is woken.
WakeNobody(cause) == UNCHANGED <<reader, why, missed>>

\* __wake_up(&wq_write, 1, 1, NULL): a thread that is not there yet, or not
\* asleep yet, does not see it.
WakeUp(cause) ==
    /\ reader' = [g \in Games |-> IF reader[g] = "asleep" THEN "woken" ELSE reader[g]]
    /\ why' = [g \in Games |-> IF reader[g] = "asleep" THEN cause[g] ELSE why[g]]
    /\ missed' = (missed \/ ui = "opening" \/ \E g \in Games : reader[g] = "ready")

Expired == seconds = 0

\* From there to its end: the countdown is over, or the timer set again.
TickEnd ==
    /\ cpu = "ok" /\ timer = "running"
    /\ IF Expired
       THEN /\ mode' = INIT_MODE /\ count' = 0
            /\ timer' = "idle"
            /\ WakeUp([g \in Games |-> IF g = owner THEN "own" ELSE "stale"])
       ELSE /\ timer' = "pending"
            /\ UNCHANGED <<mode, count, reader, why, missed>>
    /\ UNCHANGED <<tally, seconds, device, cpu, ui, cur, orphans, owner, low, raced>>

\* A countdown that outlived its game writes to the FND after the iounmap.
WriteUnmapped ==
    /\ cpu = "ok" /\ module = "unmapped" /\ timer = "pending"
    /\ cpu' = "oops"
    /\ UNCHANGED <<tally, driver, device, app, ghosts>>

------------------------------------------------------------------------------
(***************************************************************************)
(* The UI thread                                                           *)
(***************************************************************************)

\* The threads go on until a fault in an interrupt halts the system.
Runs == cpu # "oops" /\ UNCHANGED cpu

\* Mutant: driver_open does not look at dev_usage.
NotBusy == module = "in"
CanOpen == module = "in" /\ dev_usage = 0

\* Mutant: the count goes on from the game before.
StartKeepsCount ==
    /\ Runs
    /\ ui = "menu" /\ CanOpen /\ cur < MaxGames
    /\ ui' = "opening" /\ cur' = cur + 1
    /\ dev_usage' = 1 /\ count' = count /\ mode' = COUNT_MODE
    /\ raced' = (raced \/ \E g \in Games : reader[g] \in {"freeing", "disabling"})
    /\ missed' = FALSE /\ slides' = 0
    /\ UNCHANGED <<old, seconds, timer, irqs, module, reader, orphans, owner, low, why>>

\* The start button, MainActivity2 and driver_open up to its request_irq.
Start ==
    /\ Runs
    /\ ui = "menu" /\ CanOpen /\ cur < MaxGames
    /\ ui' = "opening" /\ cur' = cur + 1
    /\ dev_usage' = 1 /\ count' = 0 /\ mode' = COUNT_MODE
    /\ raced' = (raced \/ \E g \in Games : reader[g] \in {"freeing", "disabling"})
    /\ missed' = FALSE /\ slides' = 0
    /\ UNCHANGED <<old, seconds, timer, irqs, module, reader, orphans, owner, low, why>>

\* The request_irq, whose results are ignored; then the ReadThread is started.
OpenRequest ==
    /\ Runs
    /\ ui = "opening" /\ ui' = "game"
    /\ irqs' = TRUE
    /\ reader' = [reader EXCEPT ![cur] = "ready"]
    /\ UNCHANGED <<tally, driver, dev_usage, module, cur, orphans, ghosts>>

\* The open fails and openDriver calls exit(-1): the process is gone with every
\* thread, its file is closed, and the player launches the application again.
StartFails ==
    /\ Runs
    /\ ui = "menu" /\ ~CanOpen
    /\ reader' = [g \in Games |->
                     IF reader[g] \in {"ready", "asleep", "woken"} THEN "closing"
                     ELSE IF reader[g] = "closed" THEN "done" ELSE reader[g]]
    /\ orphans' = 1 .. cur
    /\ UNCHANGED <<tally, driver, device, ui, cur, ghosts>>

\* The file behind the fd of the game on the screen.
FileOpen == reader[cur] \in {"ready", "asleep", "woken"}

\* The player slides a tile: driver_write(0) and its test of the mode.
Slide ==
    /\ Runs
    /\ ui = "game" /\ count < MaxCount
    /\ IF FileOpen /\ mode = COUNT_MODE THEN ui' = "counting" ELSE ui' \in {"game", "won"}
    /\ UNCHANGED <<tally, driver, device, cur, reader, orphans, ghosts>>

\* count++ loads the count ...
CountLoad ==
    /\ Runs
    /\ ui = "counting" /\ ui' = "adding"
    /\ old' = count
    /\ UNCHANGED <<driver, device, cur, reader, orphans, slides, ghosts>>

\* ... and stores it, whatever timer_handler has set it to meanwhile; the rest of
\* driver_write(0), and back to btn_change.
CountSlide ==
    /\ Runs
    /\ ui = "adding" /\ ui' \in {"game", "won"}
    /\ count' = old + 1 /\ slides' = slides + 1 /\ old' = 0
    /\ UNCHANGED <<mode, seconds, timer, device, cur, reader, orphans, ghosts>>

\* The board is solved: driver_write(1).
Win ==
    /\ Runs
    /\ ui = "won" /\ ui' = "game"
    /\ IF FileOpen THEN WakeUp([g \in Games |-> "solved"])
       ELSE UNCHANGED <<reader, why, missed>>
    /\ UNCHANGED <<tally, driver, device, cur, orphans, owner, low, raced>>

\* The activity is left (the back key) or made anew (a rotation): MainActivity2
\* has no onDestroy, so its thread stays in the driver.
Leave ==
    /\ Runs
    /\ ui = "game" /\ ui' = "menu"
    /\ UNCHANGED <<tally, driver, device, cur, reader, orphans, ghosts>>

------------------------------------------------------------------------------
(***************************************************************************)
(* The ReadThread                                                          *)
(***************************************************************************)

ReaderGoto(g, from, to) == Runs /\ reader[g] = from /\ reader' = [reader EXCEPT ![g] = to]

\* driver_read: interruptible_sleep_on queues the caller whatever has happened
\* since the open.
Sleep(g) ==
    /\ ReaderGoto(g, "ready", "asleep")
    /\ UNCHANGED <<tally, driver, device, ui, cur, orphans, ghosts>>

\* closeDriver: the fd is gone ...
Close(g) ==
    /\ ReaderGoto(g, "woken", "closing")
    /\ UNCHANGED <<tally, driver, device, ui, cur, orphans, ghosts>>

\* ... and driver_release follows when no write is inside the driver: dev_usage,
ReleaseUsage(g) ==
    /\ ReaderGoto(g, "closing", "freeing")
    /\ ~(g = cur /\ ui \in {"counting", "adding"})
    /\ dev_usage' = 0
    /\ UNCHANGED <<tally, driver, irqs, module, ui, cur, orphans, ghosts>>

\* the mode,
ReleaseMode(g) ==
    /\ ReaderGoto(g, "freeing", "disabling")
    /\ mode' = INIT_MODE
    /\ UNCHANGED <<tally, count, seconds, timer, device, ui, cur, orphans, ghosts>>

\* Mutant: free_irq does not wait for the handler.
ReleaseDoesNotWait(g) ==
    /\ ReaderGoto(g, "disabling", IF g \in orphans THEN "done" ELSE "closed")
    /\ irqs' = FALSE
    /\ UNCHANGED <<tally, driver, dev_usage, module, ui, cur, orphans, ghosts>>

\* and the interrupts, which waits for a handler that is running.  The timer is
\* not deleted.
ReleaseIrqs(g) ==
    /\ cpu = "ok"
    /\ ReaderGoto(g, "disabling", IF g \in orphans THEN "done" ELSE "closed")
    /\ irqs' = FALSE
    /\ UNCHANGED <<tally, driver, dev_usage, module, ui, cur, orphans, ghosts>>

\* startActivity(MainActivity) and finish(), carried out by the UI thread.
Return(g) ==
    /\ ReaderGoto(g, "closed", "done")
    /\ ui \in {"menu", "game"} /\ ui' = "menu"
    /\ UNCHANGED <<tally, driver, device, cur, orphans, ghosts>>

------------------------------------------------------------------------------
(***************************************************************************)
(* The module                                                              *)
(***************************************************************************)

\* dev_driver_exit, with no file open: the FND is unmapped ...
ExitUnmap ==
    /\ Runs
    /\ module = "in" /\ ui # "opening"
    /\ \A g \in Games : reader[g] \in {"none", "closed", "done"}
    /\ module' = "unmapped" /\ dev_usage' = 0
    /\ UNCHANGED <<tally, driver, irqs, app, ghosts>>

\* ... before the timer is deleted.
ExitTimer ==
    /\ Runs
    /\ module = "unmapped" /\ timer # "running"
    /\ module' = "out" /\ timer' = "idle"
    /\ UNCHANGED <<tally, mode, count, seconds, dev_usage, irqs, app, ghosts>>

\* dev_driver_init on fresh static data.
ModuleInit ==
    /\ Runs
    /\ module = "out" /\ module' = "in"
    /\ mode' = COUNT_MODE /\ count' = 0 /\ seconds' = 0 /\ timer' = "idle"
    /\ dev_usage' = 0
    /\ low' = FALSE
    /\ UNCHANGED <<tally, irqs, app, owner, why, missed, raced>>

------------------------------------------------------------------------------

Tick == TickShow \/ TickEnd \/ WriteUnmapped
UI == OpenRequest \/ CountLoad \/ CountSlide \/ Win
Ends(g) == Close(g) \/ ReleaseUsage(g) \/ ReleaseMode(g) \/ ReleaseIrqs(g)

Next ==
    \/ Irq
    \/ Tick
    \/ UI \/ Start \/ StartFails \/ Slide \/ Leave
    \/ \E g \in Games : Sleep(g) \/ Ends(g) \/ Return(g)
    \/ ExitUnmap \/ ExitTimer \/ ModuleInit

\* An expired timer is run, a click is carried through, and a thread that was
\* woken is scheduled.  Nobody has to play, press a button or remove the module.
Fairness ==
    /\ WF_vars(Tick) /\ WF_vars(UI)
    /\ \A g \in Games : WF_vars(Ends(g))

Spec == Init /\ [][Next]_vars /\ Fairness

------------------------------------------------------------------------------
(***************************************************************************)
(* Properties                                                              *)
(***************************************************************************)

\* Every variable has its type; the countdown never shows more than MaxSeconds.
TypeOK ==
    /\ mode \in {INIT_MODE, COUNT_MODE, TIMER_MODE} /\ count \in 0 .. MaxCount
    /\ seconds \in -Below .. MaxSeconds /\ timer \in {"idle", "pending", "running"}
    /\ dev_usage \in {0, 1} /\ irqs \in BOOLEAN
    /\ module \in {"in", "unmapped", "out"} /\ cpu \in {"ok", "spin", "oops"}
    /\ ui \in {"menu", "opening", "game", "counting", "adding", "won"}
    /\ cur \in 0 .. MaxGames
    /\ reader \in [Games -> {"none", "ready", "asleep", "woken", "closing",
                             "freeing", "disabling", "closed", "done"}]
    /\ orphans \subseteq Games
    /\ old \in 0 .. MaxCount /\ slides \in Nat
    /\ owner \in 0 .. MaxGames /\ low \in BOOLEAN
    /\ why \in [Games -> {"nothing", "solved", "own", "stale"}]
    /\ missed \in BOOLEAN /\ raced \in BOOLEAN

\* A countdown under way in the timer mode is the one of the last game; in the
\* counting mode it can only be one that an earlier game left behind, and the
\* next change of mode gets rid of that.
ModeTellsTimer ==
    timer # "idle" /\ cpu = "ok" =>
        /\ mode = TIMER_MODE => owner = cur
        /\ mode = COUNT_MODE => owner # cur

\* When the driver has left its playing modes no thread sleeps on: the game has
\* been told that it is over, unless the wake-up came before its thread slept,
\* or its open overlapped another release.
OverIsOver ==
    (\E g \in Games : reader[g] = "asleep") /\ mode = INIT_MODE => missed \/ raced

\* As long as no open overlapped a release, one game at a time holds the driver,
\* dev_usage says so, and its buttons work.
Exclusive ==
    ~raced =>
        \A g \in Games :
            reader[g] \in {"ready", "asleep", "woken", "closing"} =>
                /\ irqs /\ dev_usage = 1
                /\ ui # "opening"
                /\ \A h \in Games \ {g} : reader[h] \in {"none", "closed", "done"}

\* The countdown stops at zero: it is below only after the start button was
\* pressed with no second on it, and then nothing ends it but a button.
NegativeOnlyFromZero == seconds < 0 => low

\* Whose the countdown is, and that it ends at zero: see the two above.
CountdownHolds == ModeTellsTimer /\ NegativeOnlyFromZero

\* Whatever timer_handler, the release of an earlier game or a reload of the
\* module does between the test of the mode, the load and the store of count++:
\* as long as the driver plays, its count is the number of slides of this game.
CountIsTheGames ==
    \A g \in Games :
        g = cur /\ reader[g] \in {"ready", "asleep", "woken"} /\ mode # INIT_MODE
            => count = slides

\* How the processor of the handlers is lost.  The iounmap of dev_driver_exit
\* before its del_timer_sync hits only the countdown of a game that is over; a
\* button that caught timer_handler half way leaves a game in the driver for good.
LostIsKnown ==
    /\ cpu = "oops" => /\ module = "unmapped"
                       /\ owner \in Games /\ reader[owner] \in {"closed", "done"}
    /\ cpu = "spin" => /\ module = "in"
                       /\ \E g \in Games : reader[g] \notin {"none", "closed", "done"}

\* A board that is solved with the thread asleep gives the driver back.
SolvedEnds ==
    \A g \in Games :
        (ui = "won" /\ cur = g /\ reader[g] = "asleep")
            ~> (reader[g] \in {"closed", "done"} \/ cpu # "ok")

\* A countdown runs out, also across the end of its game, if the buttons are
\* left alone.
CountdownRunsOut ==
    \/ []<><<Irq>>_vars
    \/ (timer = "pending" /\ seconds > 0) ~> (timer = "idle" \/ cpu # "ok")

\* The two messages of the application about the end of a game, "tile matched!"
\* and "Timer ended!": the board was solved, or this game's countdown is over.
EndedByThisGame == \A g \in Games : why[g] # "stale"
==============================================================================
