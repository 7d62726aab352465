------------------------------ MODULE Stopwatch ------------------------------
(***************************************************************************)
(* The hw3 stopwatch driver (module/stopwatch.c) with the processes that   *)
(* use it (app/test_device.c), the four buttons and the module's life      *)
(* cycle.  Timer handlers (soft interrupts) and button handlers (hard      *)
(* interrupts) share one processor: a button handler may run in the middle *)
(* of a timer handler, never the other way round, and a timer handler      *)
(* never in the middle of another.  Processes run on the other processors  *)
(* and interleave with everything.                                         *)
(***************************************************************************)
EXTENDS Integers

CONSTANTS
    Period,   \* 3600: the display wraps after 59:59
    Apps      \* the test_device processes

ASSUME PeriodAssumption == Period \in Nat /\ Period > 1

VARIABLES
    seconds,     \* data.seconds, the value the next tick displays
    timer,       \* data.timer
    fnd,         \* what the four digits of the FND show, in seconds
    quit_left,   \* data2.seconds
    quit_timer,  \* data2.timer
    down,        \* the quit button is held (the GPIO reads 0)
    edge,        \* an edge of the quit button waits for its interrupt
    irqs,        \* the four interrupts are requested
    dev_usage,   \* dev_usage
    app,         \* where each process is in open, write and release
    module,      \* out | in | unmapped | stopped: stopwatch_init and _exit
    cpu,         \* ok | spin | oops: the processor of the handlers
    \* History, read by the properties only:
    stopped,     \* a Pause or a quit came after the last Start
    skewed,      \* data.seconds was set apart from the display
    held,        \* whole seconds timer_quit has seen the button held
    carried,     \* a quit countdown outlived the interrupts that began it
    raced        \* an open overlapped another process's open or release

driver == <<seconds, timer, fnd, quit_left, quit_timer>>
button == <<down, edge>>
device == <<irqs, dev_usage, module>>
ghosts == <<stopped, skewed, held, carried, raced>>
vars == <<driver, button, device, app, cpu, ghosts>>

\* A timer_list: out of the kernel's wheel, in it, or taken out of it because its
\* handler is executing.
TimerState == {"idle", "pending", "running"}

Init ==
    /\ seconds = 0 /\ timer = "idle" /\ fnd = 0
    /\ quit_left = 0 /\ quit_timer = "idle"
    /\ down = FALSE /\ edge = FALSE
    /\ irqs = FALSE /\ dev_usage = 0
    /\ app = [a \in Apps |-> "none"]
    /\ module = "in"
    /\ cpu = "ok"
    /\ stopped = TRUE /\ skewed = TRUE /\ held = 0
    /\ carried = FALSE /\ raced = FALSE

------------------------------------------------------------------------------
(***************************************************************************)
(* Buttons and their interrupt handlers                                    *)
(***************************************************************************)

\* A handler may run now, and its del_timer_sync(t) returns.  A falling edge
\* of home, back or volume-up may come at any time.
Handler(t) == irqs /\ cpu = "ok" /\ t # "running" /\ UNCHANGED cpu

\* The first statement of each handler is del_timer_sync.  When the handler of
\* that very timer is what the button has interrupted, it never returns and
\* takes the processor with it.
HandlerSpins ==
    /\ irqs /\ cpu = "ok"
    /\ timer = "running" \/ (edge /\ quit_timer = "running")
    /\ cpu' = "spin"
    /\ UNCHANGED <<driver, button, device, app, ghosts>>

\* The home button.
inter_start ==
    /\ Handler(timer)
    /\ timer' = "pending"
    /\ stopped' = FALSE
    /\ UNCHANGED <<seconds, fnd, quit_left, quit_timer, button, device, app,
                   skewed, held, carried, raced>>

\* Mutant: the pause only reports itself.
PauseKeepsTimer ==
    /\ Handler(timer)
    /\ stopped' = TRUE
    /\ UNCHANGED <<driver, button, device, app, skewed, held, carried, raced>>

\* The back button.
inter_pause ==
    /\ Handler(timer)
    /\ timer' = "idle"
    /\ stopped' = TRUE
    /\ UNCHANGED <<seconds, fnd, quit_left, quit_timer, button, device, app,
                   skewed, held, carried, raced>>

\* What a reset sets data.seconds to; mutant: the value it displays.
ResetToShown == 0
ResetSeconds == 1

\* The volume-up button.
inter_reset ==
    /\ Handler(timer)
    /\ timer' = "idle"
    /\ seconds' = ResetSeconds /\ fnd' = 0
    /\ stopped' = TRUE /\ skewed' = FALSE
    /\ UNCHANGED <<quit_left, quit_timer, button, device, app, held, carried, raced>>

\* The volume-down button goes down or up; the edge waits for its interrupt.
QuitButton ==
    /\ cpu # "oops"
    /\ down' = ~down
    /\ edge' = (edge \/ irqs)
    /\ UNCHANGED <<driver, device, app, cpu, ghosts>>

\* What a press sets data2.seconds to; mutant: goes on with an earlier press.
QuitSecondsLeft == IF quit_left > 0 THEN quit_left ELSE 2
QuitSeconds == 2

\* The quit timer once the button is let go; mutant: left to run.
LetGoIgnored == quit_timer
LetGo == "idle"

\* Either edge of the volume-down button; the handler reads the level.
inter_quit ==
    /\ Handler(quit_timer)
    /\ edge /\ edge' = FALSE
    /\ IF down
       THEN /\ quit_left' = QuitSeconds /\ held' = 0
            /\ quit_timer' = "pending"
       ELSE quit_timer' = LetGo /\ UNCHANGED <<quit_left, held>>
    /\ carried' = FALSE
    /\ UNCHANGED <<seconds, timer, fnd, down, device, app, stopped, skewed, raced>>

------------------------------------------------------------------------------
(***************************************************************************)
(* Timer handlers                                                          *)
(***************************************************************************)

\* Both timers run from one soft interrupt, one handler at a time.
SoftIrqFree == cpu = "ok" /\ timer # "running" /\ quit_timer # "running"

\* The iounmap of stopwatch_exit has been done: a write to the FND faults.
Unmapped == module \in {"unmapped", "stopped"}

\* timer_iterator up to its write of the FND ...
TickDisplay ==
    /\ SoftIrqFree /\ timer = "pending" /\ ~Unmapped
    /\ timer' = "running"
    /\ fnd' = seconds
    /\ skewed' = FALSE
    /\ UNCHANGED <<seconds, quit_left, quit_timer, button, device, app, cpu,
                   stopped, held, carried, raced>>

\* Mutant: 59:59 is followed by 60:00.
NoWrap(s) == s + 1
Advance(s) == (s + 1) % Period

\* ... and from there to its end.
TickRearm ==
    /\ cpu = "ok" /\ timer = "running"
    /\ seconds' = Advance(seconds)
    /\ timer' = "pending"
    /\ UNCHANGED <<fnd, quit_left, quit_timer, button, device, app, cpu, ghosts>>

\* timer_quit up to del_timer_sync(&data.timer): with the button up it does
\* nothing, on the last second it clears and stops the stopwatch.
QuitCount ==
    /\ SoftIrqFree /\ quit_timer = "pending"
    /\ ~(Unmapped /\ down /\ quit_left = 1)
    /\ IF down
       THEN /\ quit_timer' = "running"
            /\ quit_left' = quit_left - 1
            /\ held' = held + 1
       ELSE /\ quit_timer' = "idle"
            /\ UNCHANGED <<quit_left, held>>
    /\ IF down /\ quit_left = 1
       THEN /\ fnd' = 0 /\ seconds' = 0
            /\ timer' = "idle"
            /\ stopped' = TRUE /\ skewed' = TRUE
       ELSE UNCHANGED <<fnd, seconds, timer, stopped, skewed>>
    /\ UNCHANGED <<button, device, app, cpu, carried, raced>>

\* Mutant: the sleepers are not woken.
WakeNobody == app

\* __wake_up(&wq_write, 1, 1, NULL): sleepers of interruptible_sleep_on are not
\* exclusive, so all of them wake; with nobody asleep the call is lost.
WakeUp == [a \in Apps |-> IF app[a] = "asleep" THEN "awake" ELSE app[a]]

\* timer_quit from there to its end: another second, or the quit itself.
QuitFinish ==
    /\ cpu = "ok" /\ quit_timer = "running"
    /\ IF quit_left = 0
       THEN quit_timer' = "idle" /\ app' = WakeUp
       ELSE quit_timer' = "pending" /\ UNCHANGED app
    /\ UNCHANGED <<seconds, timer, fnd, quit_left, button, device, cpu, ghosts>>

\* A timer that outlived its session writes to the FND after the iounmap.
WriteUnmapped ==
    /\ SoftIrqFree /\ Unmapped
    /\ timer = "pending" \/ (quit_timer = "pending" /\ down /\ quit_left = 1)
    /\ cpu' = "oops"
    /\ UNCHANGED <<driver, button, device, app, ghosts>>

------------------------------------------------------------------------------
(***************************************************************************)
(* Processes: test_device opens, writes, closes and exits                  *)
(***************************************************************************)

\* Process a goes from one place to the next; a fault in an interrupt halts
\* the system and nothing moves any more.
Goto(a, from, to) ==
    cpu # "oops" /\ app[a] = from /\ app' = [app EXCEPT ![a] = to]

\* Mutant: the usage is not looked at.
NotBusy == TRUE
Unused == dev_usage = 0

\* stopwatch_open up to its test of dev_usage; a busy device fails the open and
\* the process exits, which leaves it where it was.
OpenCheck(a) ==
    /\ module = "in" /\ Unused
    /\ Goto(a, "none", "checked")
    /\ UNCHANGED <<driver, button, device, cpu, ghosts>>

\* The assignments that follow; nothing keeps them together with the test.
OpenClaim(a) ==
    /\ Goto(a, "checked", "claimed")
    /\ dev_usage' = 1
    /\ seconds' = 1
    /\ skewed' = TRUE
    /\ raced' = (raced \/ \E b \in Apps \ {a} : app[b] \in {"checked", "freeing", "zeroing"})
    /\ UNCHANGED <<timer, fnd, quit_left, quit_timer, button, irqs, module, cpu,
                   stopped, held, carried>>

\* The four request_irq, whose results are ignored: when another session still
\* holds the interrupts they change nothing.
OpenRequest(a) ==
    /\ Goto(a, "claimed", "open")
    /\ irqs' = TRUE
    /\ UNCHANGED <<driver, button, dev_usage, module, cpu, ghosts>>

\* stopwatch_write: interruptible_sleep_on queues the caller whatever has
\* happened since the open.
Write(a) ==
    /\ Goto(a, "open", "asleep")
    /\ UNCHANGED <<driver, button, device, cpu, ghosts>>

\* A signal ends the process, before or in its sleep; exit closes the file.
Signal(a) ==
    /\ Goto(a, "open", "awake") \/ Goto(a, "asleep", "awake")
    /\ UNCHANGED <<driver, button, device, cpu, ghosts>>

\* stopwatch_release in three steps: the usage is given back ...
ReleaseUsage(a) ==
    /\ Goto(a, "awake", "freeing")
    /\ dev_usage' = 0
    /\ UNCHANGED <<driver, button, irqs, module, cpu, ghosts>>

\* ... the interrupts are freed, which waits for a handler that is running ...
ReleaseIrqs(a) ==
    /\ Goto(a, "freeing", "zeroing")
    /\ cpu = "ok"
    /\ irqs' = FALSE /\ edge' = FALSE
    /\ carried' = (quit_timer # "idle")
    /\ UNCHANGED <<driver, down, dev_usage, module, cpu, stopped, skewed, held, raced>>

\* ... and data.seconds is cleared.  Neither timer is deleted.
ReleaseSeconds(a) ==
    /\ Goto(a, "zeroing", "none")
    /\ seconds' = 0
    /\ skewed' = TRUE
    /\ UNCHANGED <<timer, fnd, quit_left, quit_timer, button, device, cpu,
                   stopped, held, carried, raced>>

------------------------------------------------------------------------------
(***************************************************************************)
(* The module                                                              *)
(***************************************************************************)

\* stopwatch_exit in three steps; the kernel runs it with no file open and
\* lets nobody open meanwhile.  The FND is unmapped ...
ExitUnmap ==
    /\ cpu # "oops"
    /\ module = "in" /\ \A a \in Apps : app[a] = "none"
    /\ module' = "unmapped"
    /\ dev_usage' = 0
    /\ UNCHANGED <<driver, button, irqs, app, cpu, ghosts>>

\* ... data.timer is deleted ...
ExitTimer ==
    /\ cpu # "oops"
    /\ module = "unmapped" /\ timer # "running"
    /\ module' = "stopped"
    /\ timer' = "idle"
    /\ UNCHANGED <<seconds, fnd, quit_left, quit_timer, button, irqs, dev_usage,
                   app, cpu, ghosts>>

\* ... and data2.timer, and the device is unregistered.
ExitQuitTimer ==
    /\ cpu # "oops"
    /\ module = "stopped" /\ quit_timer # "running"
    /\ module' = "out"
    /\ quit_timer' = "idle"
    /\ UNCHANGED <<seconds, timer, fnd, quit_left, button, irqs, dev_usage, app,
                   cpu, ghosts>>

\* stopwatch_init on fresh static data.
ModuleInit ==
    /\ cpu # "oops"
    /\ module = "out"
    /\ module' = "in"
    /\ seconds' = 0 /\ timer' = "idle"
    /\ quit_left' = 0 /\ quit_timer' = "idle"
    /\ dev_usage' = 0
    /\ stopped' = TRUE /\ skewed' = TRUE /\ held' = 0
    /\ carried' = FALSE /\ raced' = FALSE
    /\ UNCHANGED <<fnd, button, irqs, app, cpu>>

------------------------------------------------------------------------------

Irq == inter_start \/ inter_pause \/ inter_reset \/ inter_quit \/ HandlerSpins
Leave(a) == ReleaseUsage(a) \/ ReleaseIrqs(a) \/ ReleaseSeconds(a)
Process(a) ==
    \/ OpenCheck(a) \/ OpenClaim(a) \/ OpenRequest(a)
    \/ Write(a) \/ Signal(a) \/ Leave(a)

Next ==
    \/ Irq \/ QuitButton
    \/ TickDisplay \/ TickRearm \/ QuitCount \/ QuitFinish \/ WriteUnmapped
    \/ \E a \in Apps : Process(a)
    \/ ExitUnmap \/ ExitTimer \/ ExitQuitTimer \/ ModuleInit

\* The soft interrupt gets to an expired quit timer, also when the stopwatch's
\* timer is re-armed again and again; a handler that has begun is carried on; a
\* process that is leaving is scheduled.  Nobody has to press a button, open the
\* device or remove the module.
Fairness ==
    /\ SF_vars(QuitCount)
    /\ WF_vars(TickRearm) /\ WF_vars(QuitFinish)
    /\ \A a \in Apps : WF_vars(Leave(a))

Spec == Init /\ [][Next]_vars /\ Fairness

------------------------------------------------------------------------------
(***************************************************************************)
(* Properties                                                              *)
(***************************************************************************)

\* Every variable has its type.
TypeOK ==
    /\ seconds \in 0 .. Period - 1 /\ fnd \in 0 .. Period - 1
    /\ timer \in TimerState /\ quit_timer \in TimerState
    /\ quit_left \in 0 .. 2 /\ held \in 0 .. 2
    /\ down \in BOOLEAN /\ edge \in BOOLEAN /\ irqs \in BOOLEAN
    /\ dev_usage \in {0, 1}
    /\ app \in [Apps -> {"none", "checked", "claimed", "open", "asleep", "awake",
                         "freeing", "zeroing"}]
    /\ module \in {"in", "unmapped", "stopped", "out"}
    /\ cpu \in {"ok", "spin", "oops"}
    /\ stopped \in BOOLEAN /\ skewed \in BOOLEAN
    /\ carried \in BOOLEAN /\ raced \in BOOLEAN

\* After a pause, a reset or a quit the stopwatch stands still until Start is
\* pressed again: its self-rearming timer is nowhere, not in the wheel and not
\* in a handler that is about to re-arm it.
StaysStopped == stopped => timer = "idle"

\* Apart from an open, a release or a quit, which set data.seconds without the
\* display, the next tick shows the successor of what is shown: no second is
\* skipped or shown twice, over the wrap and across pauses and resets.
CountsUp ==
    ~skewed => seconds = IF timer = "running" THEN fnd ELSE (fnd + 1) % Period

\* The quit countdown is about the present press alone: as long as it runs,
\* data2.seconds and the seconds already held add up to 2, so seconds of an
\* earlier, interrupted press never count.
QuitCountsThisPress ==
    quit_timer = "pending" => quit_left \in {1, 2} /\ quit_left + held = 2

\* With the button up and its release handled no countdown is left, unless the
\* interrupts were given up while it ran.
LetGoCancels ==
    quit_timer # "idle" /\ ~down => edge \/ ~irqs \/ carried

\* As long as no open overlapped another process's open or release (the test
\* and the set of dev_usage are not atomic), one process at a time is in the
\* driver, dev_usage says so, and it has the interrupts while it sleeps.
Exclusive ==
    ~raced => /\ \A a, b \in Apps :
                    /\ app[a] \in {"claimed", "open", "asleep", "awake"}
                    /\ app[b] \notin {"none", "checked"}
                    => a = b
              /\ \A a \in Apps :
                    app[a] \in {"open", "asleep", "awake"} => irqs /\ dev_usage = 1

\* The interrupts are requested only while some process is in the driver, also
\* when opens raced: the module cannot be removed under a handler.
IrqsHaveSession ==
    irqs => \E a \in Apps : app[a] \notin {"none", "checked"}

\* Once the module is gone no timer of it is left behind.
UnloadedQuiet == module = "out" => timer = "idle" /\ quit_timer = "idle"

\* The iounmap of stopwatch_exit before its del_timer_sync is harmless to a
\* stopwatch that was paused, reset or quit: the system goes down only if it was
\* left going, or a quit countdown outlived its session.
SafeToRemove == cpu = "oops" => Unmapped /\ (~stopped \/ carried)

\* The timers stop when they should: see the three above.
TimersStop == StaysStopped /\ UnloadedQuiet /\ SafeToRemove

\* A button that caught a timer handler half way is for good: no release gives
\* the interrupts back, so their process stays in the driver and the module
\* cannot be removed.
StuckStaysOpen ==
    cpu = "spin" =>
        module = "in" /\ \E a \in Apps : app[a] \in {"open", "asleep", "awake", "freeing"}

\* The driver is held by one process, and its interrupts by somebody, also when
\* no handler runs any more: see the three above.
SessionsHold == Exclusive /\ IrqsHaveSession /\ StuckStaysOpen

\* The line the driver prints when it quits: the button was pressed 3 seconds.
QuitAfterThreeSeconds == quit_timer = "running" /\ quit_left = 0 => held >= 3

\* Holding the button gets a sleeping process out of the driver.
QuitCloses ==
    \A a \in Apps :
        app[a] = "asleep" /\ down /\ quit_timer = "pending"
            ~> ~down \/ app[a] = "none" \/ cpu # "ok"
==============================================================================
