------------------------------ MODULE LedDriver ------------------------------
(***************************************************************************)
(* The hw2 driver (module/device_driver.c) with the processes that use it  *)
(* (app/test_device.c) and the module's life cycle.  A write starts an     *)
(* animation on the FND, LED, dot matrix and LCD that a timer carries on,  *)
(* also after the process has closed the device.  The timer's handler and  *)
(* the processes run on several processors and interleave.  Nothing owns   *)
(* the module: it can be removed while the device is open.                 *)
(***************************************************************************)
EXTENDS Integers, LedOption

CONSTANTS
    Apps,        \* the test_device processes
    Options,     \* options they are called with
    Times,       \* numbers of frames they are called with
    Patterns,    \* 8: patterns of the LED and the dot matrix
    Positions,   \* 4: digits of the FND
    NumGap,      \* 8: blanks the LCD leaves beside stu_num
    NameGap      \* 4: blanks the LCD leaves beside stu_name

ASSUME LedAssumption ==
    /\ Options \subseteq Int /\ Times \subseteq Int
    /\ Patterns \in 1 .. 255 /\ Positions \in 1 .. 32
    /\ NumGap \in Nat \ {0} /\ NameGap \in Nat \ {0}

VARIABLES
    \* data:
    timer,       \* timer is in the wheel of the kernel
    handler,     \* timer_iterator is executing
    start,       \* start
    cur,         \* cur
    pos,         \* pos
    remain,      \* remain
    num,         \* first_lcd_gap and first_lcd_move
    name,        \* second_lcd_gap and second_lcd_move
    \* The rest of the driver and its users:
    dev_usage,   \* dev_usage
    display,     \* FND position and pattern of the frame, or Dark
    app,         \* where each process is
    arg,         \* the option and the times it was called with
    module,      \* in | blanked | unmapped | stopped | out: dev_driver_init and _exit
    cpu,         \* ok | oops
    \* History, read by the properties only:
    plan,        \* option and times of the write that started the timer
    frames,      \* frames shown since (neither is kept once opens have raced)
    raced,       \* an open ended inside another process's session
    late         \* a frame came between the last blanking and the removal

data == <<start, cur, pos, remain, num, name>>
ghosts == <<plan, frames, raced, late>>
vars == <<timer, handler, data, dev_usage, display, app, arg, module, cpu, ghosts>>

Dark == <<-1, -1>>

\* What a process that is not there has for arguments.
NoArg == [option |-> 0, times |-> 0]

Init ==
    /\ timer = FALSE /\ handler = FALSE /\ start = 0 /\ cur = 0 /\ pos = 0 /\ remain = 0
    /\ num = [gap |-> 0, move |-> 0] /\ name = [gap |-> 0, move |-> 0]
    /\ dev_usage = 0 /\ display = Dark
    /\ app = [a \in Apps |-> "none"]
    /\ arg = [a \in Apps |-> NoArg]
    /\ module = "in" /\ cpu = "ok"
    /\ plan = NoArg /\ frames = 0
    /\ raced = FALSE /\ late = FALSE

------------------------------------------------------------------------------
(***************************************************************************)
(* The timer                                                               *)
(***************************************************************************)

Mapped == module \in {"in", "blanked"}

\* The timer has expired and its handler can be called; it stays with one
\* processor, so the handler is not called while it is executing.
Expired == cpu = "ok" /\ timer /\ ~handler

\* timer_iterator with no frame remaining; mutant: the last frame stays.
EndLeavesFrame ==
    /\ Expired /\ Mapped /\ remain <= 0
    /\ timer' = FALSE
    /\ plan' = NoArg /\ frames' = 0
    /\ UNCHANGED <<handler, data, dev_usage, display, app, arg, module, cpu, raced, late>>
TickEnd ==
    /\ Expired /\ Mapped /\ remain <= 0
    /\ timer' = FALSE
    /\ display' = Dark /\ late' = FALSE
    /\ plan' = NoArg /\ frames' = 0
    /\ UNCHANGED <<handler, data, dev_usage, app, arg, module, cpu, raced>>

\* The position moves on after a round of patterns; mutant: when they wrap.
PosAtWrap == IF cur' = 0 THEN (pos + 1) % Positions ELSE pos
NextPos == IF cur' = start THEN (pos + 1) % Positions ELSE pos

\* timer_iterator up to the LCD: the frame is shown and the pattern advanced.
\* (A position that is not on the FND is a write outside fnd.)
TickFrame ==
    /\ Expired /\ Mapped /\ remain > 0
    /\ timer' = FALSE /\ handler' = TRUE
    /\ display' = <<pos, cur>>
    /\ frames' = IF raced THEN frames ELSE frames + 1
    /\ late' = (module = "blanked")
    /\ cur' = (cur + 1) % Patterns
    /\ pos' = NextPos
    /\ UNCHANGED <<start, remain, num, name, dev_usage, app, arg, module, cpu, plan, raced>>

WildWrite ==
    /\ Expired /\ Mapped /\ remain > 0
    /\ pos >= Positions
    /\ cpu' = "oops"
    /\ UNCHANGED <<timer, handler, data, dev_usage, display, app, arg, module, ghosts>>

\* A line of the LCD moves by one and turns at its ends; mutant: one too late.
BounceLate(line, max) ==
    LET gap == line.gap + line.move
    IN  [gap |-> gap,
         move |-> IF gap = 0 THEN 1 ELSE IF gap > max THEN -1 ELSE line.move]
Bounce(line, max) ==
    LET gap == line.gap + line.move
    IN  [gap |-> gap,
         move |-> IF gap = 0 THEN 1 ELSE IF gap = max THEN -1 ELSE line.move]

\* Mutant: the frames are not counted.
KeepRemain == remain
LessRemain == remain - 1

\* add_timer of a timer that is in the wheel already is a BUG.
AddTimer == timer' = TRUE /\ cpu' = IF timer THEN "oops" ELSE cpu

\* ... and to its end.
TickRearm ==
    /\ cpu = "ok" /\ handler
    /\ num' = Bounce(num, NumGap) /\ name' = Bounce(name, NameGap)
    /\ remain' = LessRemain
    /\ handler' = FALSE /\ AddTimer
    /\ UNCHANGED <<start, cur, pos, dev_usage, display, app, arg, module, ghosts>>

\* A line off the display on the side of the other one is still in lcd_str;
\* further off the write is outside of it, and may or may not be noticed.
TextFits == num.gap \in 0 .. NumGap + 16 /\ name.gap \in -16 .. NameGap
WildText ==
    /\ cpu = "ok" /\ handler
    /\ ~TextFits
    /\ cpu' = "oops"
    /\ UNCHANGED <<timer, handler, data, dev_usage, display, app, arg, module, ghosts>>

\* A frame after the iounmap, or the LCD of one that it has overtaken.
TickUnmapped ==
    /\ Expired \/ (cpu = "ok" /\ handler)
    /\ ~Mapped
    /\ cpu' = "oops"
    /\ UNCHANGED <<timer, handler, data, dev_usage, display, app, arg, module, ghosts>>

------------------------------------------------------------------------------
(***************************************************************************)
(* Processes: test_device packs its arguments, opens, writes and closes    *)
(***************************************************************************)

Goto(a, from, to) ==
    cpu = "ok" /\ app[a] = from /\ app' = [app EXCEPT ![a] = to]

\* main of test_device up to the open: arguments out of range end it.
Launch(a) ==
    /\ Goto(a, "none", "opening")
    /\ \E o \in Options, t \in Times :
          Accepts(o, t) /\ arg' = [arg EXCEPT ![a] = [option |-> o, times |-> t]]
    /\ UNCHANGED <<timer, handler, data, dev_usage, display, module, ghosts, cpu>>

\* device_open begins with init_devices, whoever uses the device.
OpenBlank(a) ==
    /\ Mapped
    /\ Goto(a, "opening", "blanked")
    /\ display' = Dark /\ late' = FALSE
    /\ UNCHANGED <<timer, handler, data, dev_usage, arg, module, cpu, plan, frames, raced>>

\* Where a process has the device, so that another open should be refused.
InSession == {"open", "filling", "moving", "adding", "written"}

\* The test of dev_usage; a refused process has nothing to write to or close.
OpenCheck(a) ==
    /\ module # "out"
    /\ Goto(a, "blanked", IF dev_usage = 0 THEN "claiming" ELSE "none")
    /\ arg' = IF dev_usage = 0 THEN arg ELSE [arg EXCEPT ![a] = NoArg]
    /\ UNCHANGED <<timer, handler, data, dev_usage, display, module, cpu, ghosts>>

OpenClaim(a) ==
    /\ module # "out"
    /\ Goto(a, "claiming", "open")
    /\ dev_usage' = 1
    /\ raced' = (raced \/ \E b \in Apps \ {a} : app[b] \in InSession)
    /\ plan' = IF raced' THEN NoArg ELSE plan
    /\ frames' = IF raced' THEN 0 ELSE frames
    /\ UNCHANGED <<timer, handler, data, display, arg, module, cpu, late>>

\* The device is not registered any more.
OpenFails(a) ==
    /\ module = "out"
    /\ Goto(a, "opening", "none")
    /\ arg' = [arg EXCEPT ![a] = NoArg]
    /\ UNCHANGED <<timer, handler, data, dev_usage, display, module, cpu, ghosts>>

\* device_write up to del_timer_sync, which waits for the handler; mutant: the
\* timer is only looked at.
KeepTimer(a) ==
    /\ module # "out"
    /\ Goto(a, "open", "filling")
    /\ plan' = NoArg /\ frames' = 0
    /\ UNCHANGED <<timer, handler, data, dev_usage, display, arg, module, cpu, raced, late>>
WriteDelete(a) ==
    /\ module # "out" /\ ~handler
    /\ Goto(a, "open", "filling")
    /\ timer' = FALSE
    /\ plan' = NoArg /\ frames' = 0
    /\ UNCHANGED <<handler, data, dev_usage, display, arg, module, cpu, raced, late>>

\* The fields are set one after the other, here in two parts ...
WriteStart(a) ==
    /\ module # "out"
    /\ Goto(a, "filling", "moving")
    /\ start' = Pattern(arg[a].option) - 1 /\ cur' = start'
    /\ pos' = Position(arg[a].option)
    /\ remain' = arg[a].times
    /\ num' = [num EXCEPT !.gap = 0] /\ name' = [name EXCEPT !.gap = 0]
    /\ UNCHANGED <<timer, handler, dev_usage, display, arg, module, cpu, ghosts>>

WriteMoves(a) ==
    /\ module # "out"
    /\ Goto(a, "moving", "adding")
    /\ num' = [num EXCEPT !.move = 1] /\ name' = [name EXCEPT !.move = 1]
    /\ UNCHANGED <<timer, handler, start, cur, pos, remain, dev_usage, display, arg, module,
                   cpu, ghosts>>

\* ... and the timer is added.
WriteAdd(a) ==
    /\ module # "out"
    /\ Goto(a, "adding", "written")
    /\ AddTimer
    /\ plan' = IF raced THEN NoArg ELSE arg[a]
    /\ arg' = [arg EXCEPT ![a] = NoArg]
    /\ UNCHANGED <<handler, data, dev_usage, display, module, frames, raced, late>>

\* device_release leaves the animation alone.
Release(a) ==
    /\ module # "out"
    /\ Goto(a, "written", "none")
    /\ dev_usage' = 0
    /\ UNCHANGED <<timer, handler, data, display, arg, module, cpu, ghosts>>

\* An open after the iounmap, or any call into a module that is gone.
Fault(a) ==
    /\ cpu = "ok"
    /\ \/ ~Mapped /\ module # "out" /\ app[a] = "opening"
       \/ module = "out" /\ app[a] \notin {"none", "opening"}
    /\ cpu' = "oops"
    /\ UNCHANGED <<timer, handler, data, dev_usage, display, app, arg, module, ghosts>>

------------------------------------------------------------------------------
(***************************************************************************)
(* The module.  dev_driver_exit in four steps: the devices are blanked and *)
(* unmapped, the timer is deleted, and the device is unregistered.  The    *)
(* processes go on in between.                                             *)
(***************************************************************************)

ExitBlank ==
    /\ cpu = "ok" /\ module = "in"
    /\ module' = "blanked"
    /\ display' = Dark /\ late' = FALSE
    /\ UNCHANGED <<timer, handler, data, dev_usage, app, arg, cpu, plan, frames, raced>>

ExitUnmap ==
    /\ cpu = "ok" /\ module = "blanked"
    /\ module' = "unmapped"
    /\ UNCHANGED <<timer, handler, data, dev_usage, display, app, arg, cpu, ghosts>>

ExitTimer ==
    /\ cpu = "ok" /\ module = "unmapped" /\ ~handler
    /\ module' = "stopped"
    /\ dev_usage' = 0 /\ timer' = FALSE
    /\ plan' = NoArg /\ frames' = 0
    /\ UNCHANGED <<handler, data, display, app, arg, cpu, raced, late>>

\* The module is gone, with the timer of a write that came after del_timer_sync.
ExitUnregister ==
    /\ cpu = "ok" /\ module = "stopped"
    /\ module' = "out"
    /\ UNCHANGED <<timer, handler, data, dev_usage, display, app, arg, cpu, ghosts>>

\* dev_driver_init on fresh static data.  (Bounds: no process is left in the
\* old module and no timer of it, both of which fault first.)
ModuleInit ==
    /\ cpu = "ok" /\ module = "out" /\ ~timer
    /\ \A a \in Apps : app[a] \in {"none", "opening"}
    /\ module' = "in" /\ dev_usage' = 0
    /\ start' = 0 /\ cur' = 0 /\ pos' = 0 /\ remain' = 0
    /\ num' = [gap |-> 0, move |-> 0] /\ name' = [gap |-> 0, move |-> 0]
    /\ raced' = FALSE
    /\ UNCHANGED <<timer, handler, display, app, arg, cpu, plan, frames, late>>

------------------------------------------------------------------------------

Tick == TickEnd \/ TickFrame \/ WildWrite \/ WildText \/ TickRearm \/ TickUnmapped

Process(a) ==
    \/ Launch(a) \/ OpenBlank(a) \/ OpenCheck(a) \/ OpenClaim(a) \/ OpenFails(a)
    \/ WriteDelete(a) \/ WriteStart(a) \/ WriteMoves(a) \/ WriteAdd(a) \/ Release(a)
    \/ Fault(a)

Next ==
    \/ Tick
    \/ \E a \in Apps : Process(a)
    \/ ExitBlank \/ ExitUnmap \/ ExitTimer \/ ExitUnregister \/ ModuleInit

\* The kernel calls the handler of an expired timer and finishes it.
Fairness == WF_vars(TickEnd \/ TickFrame \/ TickUnmapped) /\ WF_vars(TickRearm)

Spec == Init /\ [][Next]_vars /\ Fairness

------------------------------------------------------------------------------
(***************************************************************************)
(* Properties                                                              *)
(***************************************************************************)

\* Every variable has its type; unless opens raced, neither line of the LCD
\* leaves the display.
Line == [gap : Int, move : {-1, 0, 1}]
Args == [option : 0 .. MaxOption, times : 0 .. 100]
TypeOK ==
    /\ timer \in BOOLEAN /\ handler \in BOOLEAN
    /\ start \in -1 .. 254 /\ cur \in -1 .. 254 /\ pos \in 0 .. 31 /\ remain \in -1 .. 100
    /\ num \in Line /\ name \in Line
    /\ ~raced => num.gap \in 0 .. NumGap /\ name.gap \in 0 .. NameGap
    /\ dev_usage \in {0, 1}
    /\ display[1] \in -1 .. 31 /\ display[2] \in -1 .. 254
    /\ app \in [Apps -> {"none", "opening", "blanked", "claiming"} \cup InSession]
    /\ module \in {"in", "blanked", "unmapped", "stopped", "out"} /\ cpu \in {"ok", "oops"}
    /\ arg \in [Apps -> Args] /\ plan \in Args
    /\ frames \in Nat /\ raced \in BOOLEAN /\ late \in BOOLEAN

\* With a legal option, frame k of an animation shows the pattern k - 1 after
\* the first one, one position further after every round of them: the packing,
\* the unpacking and the driver's cur, pos and remain together, through
\* restarts, refused opens that blank it, and releases.
Places == 0 .. Positions - 1
FrameIsPlanned ==
    ~raced /\ frames > 0 /\ display # Dark =>
        /\ frames <= plan.times
        /\ \A p \in Places, d \in 1 .. Patterns :
              Meaning(plan.option, p, d) =>
                  display = <<(p + (frames - 1) \div Patterns) % Positions,
                              (d - 1 + (frames - 1)) % Patterns>>

\* No frame is left on the devices without a timer that will replace it, but
\* for one that comes while the module is being removed; and an animation goes
\* on, whoever blanks the devices by an open or is refused: what has shown a
\* frame and was not ended or deleted has its timer.
Writing == \E a \in Apps : app[a] \in {"filling", "moving", "adding"}
FrameHasTimer ==
    /\ display # Dark /\ cpu = "ok" => timer \/ handler \/ Writing \/ late
    /\ frames > 0 => timer \/ handler

\* The system goes down only after two opens at once, after the iounmap with a
\* timer or a process still there, or with an option that is not legal: no
\* sequence of opens, writes and ticks adds a timer twice or leaves the LCD.
Legal(option) == \E p \in Places, d \in 1 .. Patterns : Meaning(option, p, d)
LeftBehind == ~Mapped /\ (timer \/ handler \/ \E a \in Apps : app[a] # "none")
OnlyKnownFaults ==
    cpu = "oops" => raced \/ LeftBehind \/ (plan # NoArg /\ ~Legal(plan.option))

\* An animation ends, without another call of anybody.
AnimationEnds == timer ~> ((~timer /\ ~handler) \/ cpu = "oops")

\* The range test_device promises to check ("Invalid option range.") is one the
\* driver can show: every frame has one of eight patterns at one of four places.
OptionInRange ==
    Expired /\ remain > 0 => pos \in Places /\ cur \in 0 .. Patterns - 1
==============================================================================
