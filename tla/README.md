# Verification of embedded_sw

The repository holds four programs for one board (an i.MX6 with an FPGA that
drives LEDs, a four-digit FND, a dot matrix and a text LCD):

| | program | code | concurrency |
|---|---|---|---|
| hw1 | a clock, counter, text editor, draw board and binary game in user space | `src/hw1` | three processes, two shared memories, two signals |
| hw2 | a driver that plays an animation, and a syscall that packs its options | `src/hw2` | one kernel timer against `open`, `ioctl`, `write`, module exit |
| hw3 | a stopwatch driver with four buttons | `src/hw3` | two kernel timers, four interrupts, sleeping processes |
| hw4 | a sliding puzzle on Android, with a driver that counts slides and time | `src/hw4` | one timer, three interrupts, a UI thread and a reading thread |

This directory models them in TLA+, checks the models with TLC and proves what
matters most with TLAPS. `PROJECT.json` lists the runs, the mutants that show
each property can fail, and the lines of code every definition stands for.

## 1. Inventory

State, operations and difficulty of every component, and what makes it correct.

### hw1: the board program

* **main process** (`main.c`). State: `signal_send`, `mod`, `time_cnt`, the
  attached shared memories. It polls the flag that its SIGUSR1 handler sets,
  reads the input message, lets `processing()` compute a job and sends that with
  SIGUSR2; every twentieth nap of 50 ms it gives the mode a tick. Correct when
  no input is forgotten, none is acted on without bound, `mod` stays a mode, and
  the end of the program reaches all three processes.
* **input process** (`in_proc.c`). State: the previous push buttons and the last
  key. It writes `key n`, `push n m ...` or `end` into the shared memory and
  signals main. Nothing tells it whether main has read the message before.
* **output process** (`out_proc.c`). It waits in `sigsuspend`, copies the job,
  writes the devices, and ends on `end`. Correct when it shows the last job.
* **dispatch** (`mod_proc.c`) and **button parsing** (`push_helper.c`).
* **clock** (`clock.c`): time, a second counter, and an editing mode with a
  copy of the time. **counter** (`counter.c`): one number in four bases.
  **editor** (`editor.c`): up to 32 letters, multi-tap letters, shifting.
  **draw board** (`draw.c`): 70 dots, a blinking cursor that overwrites the dot
  below it, so the true dot is kept aside. **binary game** (`binary_game.c`): a
  state machine of question, answer, countdown and score. Each keeps its state
  in static variables and is called by main alone, so each is sequential; what
  is hard is long sequences of legal presses.
* **devices** (`device_helper.c`): I/O; any failure is `exit(1)` of the process
  that called, the output process.

### hw2: the LED driver

* **driver** (`module/device_driver.c`): `dev_usage`, one timer and the eight
  fields of an animation. `open` clears the devices before it looks whether the
  driver is in use; `ioctl`/`write` restart the animation; the animation runs on
  after `close`. Hard: the write's field-by-field refill, the timer, and
  overlapping opens.
* **option syscall** (`kernel/kernel/get_input.c`) and **application**
  (`app/test_device.c`): range checks and the packing of four numbers into bytes.
* **board I/O** (`module/io_driver.c`) and four files of the Linux kernel with
  an entry added for the syscall.

### hw3: the stopwatch

* **driver** (`module/stopwatch.c`): `data` (the ticking timer and the next value
  to show), `data2` (the quit countdown), `dev_usage`, a wait queue. Four button
  interrupts, two timer handlers, `open`, `write` (sleeps), `release`, init and
  exit. Hard: handlers against handlers, the quit button's two edges against
  the countdown, sessions against each other, timers against module removal.
* **application** (`app/test_device.c`): open, write, close.

### hw4: the puzzle

* **puzzle rules** (`Puzzle.java`) and the **board in MainActivity2**: the array,
  the shuffle, the clicks. Hard: whether the dealt board can be solved, whether
  the shuffle ends, whether `isMatched` means ordered.
* **driver** (`module/device_driver.c`): `mode`, `count`, the countdown, a wait
  queue for the reading thread. Three interrupts and one timer handler.
* **activities, native calls** (`MainActivity*.java`, `jni/driver.c`): a game opens
  the driver, a thread sleeps in it until the game is over and then closes it;
  a busy device ends the process. Hard: games that overlap, a countdown that
  outlives its game, a wake-up before the sleep.

How they interact: hw1 by shared memory and signals as above; hw2 and hw3 by
system calls and interrupts; hw4's UI thread writes to the driver (0 for a
slide, 1 for a win), its reading thread blocks in the driver, and buttons reach
the driver as interrupts.

The hazards of each part are listed with their lines in `PROJECT.json`.

## 2. Plan

Built so far, in this order:

1. `SlidingPuzzle`: the puzzle's rules and shuffle, with `SlidingPuzzle_proofs`.
2. `Stopwatch`: the hw3 driver and its processes, with `Stopwatch_proofs`.
3. `BoardProcs`: the three processes of hw1, with `BoardProcs_proofs`.
4. `PuzzleApp`: the hw4 driver and the application, with `PuzzleApp_proofs`.
5. `PictureEditor` (abstract: a picture and a place in it) and `Draw` (`draw.c`),
   which implements it, with `Draw_proofs`.

6. `TextPad` (abstract: a line of characters) and `Editor` (`editor.c`), which
   implements it, with `Editor_proofs`.
7. `LedOption` (how an option is packed and taken apart) and `LedDriver`: the hw2
   driver and its processes, with `LedDriver_proofs`.
8. `Panel` (what the devices show), `Clock`, `Counter` and `BinaryGame`, composed in
   `Modes`: main's switch and the dispatch, with `Modes_proofs`.

What the plan has left: the edge detection of `in_proc.c`, and the modes under
`BoardProcs`, main with a mode's own state in the place of the choice of a job.

## 3. The modules

### SlidingPuzzle

`puzzle` is the array as a function on its cells, `0` the blank; `cur` and `cnt`
are the locals of `shuffle()`, `pc` says whether a listener is in the loop of
`shuffle()` and `writes` what the last click passed to `writeDriver`. `Make` is
the listener of the Make button up to the loop, `ShuffleStep` one round of it
with the random direction as a choice, `Click` the listener of the tiles.
`ShuffleStuck`, the `crashed` outcome of `Make` and `MakeFails` are the uncaught
exceptions of a 1x1 and an empty board, and of words that are no numbers or
negative ones. `FindIndex` and `CanMove` are defined by what the
loops of `Puzzle.java` return.

The run `sliding` uses the code's own bound of 50 on boards of one, three, four
and six cells (1x1, 1x3, 2x2, 2x3, 3x2) and a size with no row: an empty list of
directions, a board with one way to go, and boards on which a tile can go round.
A board solved before, a second Make and clicks anywhere are among the states.
The proofs cover every size and every even bound.

* `Solvable`: the parity invariant; no deal and no play leaves the boards that can be
  solved. That no tile is lost (`TilesKept`) and that the board changes only by
  slides are theorems (`TilesAreKept`, `SlidesOnly`).
* `ShuffleExact`: the loop `isMatched || cnt <= 50` makes 51 slides, no more.
* `WinExact`: `isMatched` is true of the ordered board alone.
* `ShuffleEnds`: under fairness of the UI thread the loop ends, and in a board to
  play: only the 1x1 board, which crashes in the loop, is excepted.

### Stopwatch

`seconds`/`timer` are `data`, `quit_left`/`quit_timer` are `data2`. A kernel timer
is `idle`, `pending` or `running`: the kernel takes it out of its wheel before it
calls the handler. Timer handlers are split where a button interrupt can be
seen to come between (`TickDisplay`/`TickRearm`, `QuitCount`/`QuitFinish`). The
handlers of buttons and of timers are taken to share the processor that serves
the board's interrupts, so a button handler can interrupt a timer handler
and `del_timer_sync` then never returns (`HandlerSpins`, `cpu = "spin"`: no handler
runs any more, while processes go on). `cpu = "oops"` is the fault of a write
through the unmapped FND; it halts the system, and therefore the run does
not check for deadlock. `open` is three steps and `release` three, because
nothing makes them atomic. `request_irq` ignores failure, so a second request
changes nothing, and the four lines are one flag: they are requested and freed
together, and a mixture after a race is not told apart. `stopwatch_init` is one
step; the window in which the device is registered but not set up is not
modelled.

The run `stopwatch` has two processes, which is enough for every overlap of an
open with an open or a release, and a display that wraps after three seconds.

* `TimersStop`, `CountsUp`: the self-rearming timer against the buttons; after a pause,
  a reset, a quit or the removal of the module it is nowhere. And the unmapping
  before the deletion of the timers (`SafeToRemove`) brings the system down only if
  the stopwatch was left going or a quit countdown outlived its session.
* `QuitCountsThisPress`, `LetGoCancels`: the countdown against the button's edges.
  `carried` excuses a countdown that outlived its session's interrupts.
* `SessionsHold`: one process at a time, and interrupts for it alone; `raced` excuses
  overlapping opens, in which the code does let two processes in. When a button's
  handler spins over a timer's (`StuckStaysOpen`), a process is left in the driver and
  the module can never be removed.
* `QuitCloses`: a held button gets a sleeping process out. It assumes strong
  fairness of the quit timer's handler, since the stopwatch's own timer can be
  re-armed in front of it for ever in the model although the kernel runs
  expired timers in turn, and weak fairness of a process that leaves.

The run `stopwatch_quit` shows that the message "Quit button pressed 3 seconds"
(`stopwatch.c:141`) is printed after two.

### BoardProcs

`shm_in` holds the message and, while a copy is under way, the one being
overwritten: a reader then gets either, a mixture (`other`, a key code nobody
pressed) or nothing main recognises. `shm_out` is `torn` during main's copy.
`pend1` and `pend2` are the pending signals; a signal that is pending is not
queued again. What `processing()` computes is the choice between a job and none.
`OutIgnore` is the empty handler of `out_proc.c` anywhere but in `sigsuspend`.
The ghosts `processed`, `reads`, `fresh` and `lost` say what has been read.
A device failure ends the output process (`OutFails`).

The run `board` sends four messages, which is what it takes for one message to be
read four times (its own copy, its own signal, the flag and a read under way),
with two modes and a tick of two naps. The processes end, so deadlock is not
checked.

* `InputNotMissed`: clearing the flag before the read loses nothing.
* `ReadsBounded`: at most four reads of one message.
* `EndsInOrder`: input, main, output. Main is killed by a signal only before it has
  installed its handler, and then it has acted on nothing.
* `OutputNotMissed`: a job is only missed through a signal taken while busy.
* `EndTravels`: the end reaches main, unless a key killed it before its first pass,
  and the output process unless a signal was lost. Liveness,
  under weak fairness of each process and of signal delivery; keys need not be
  pressed.

The run `board_end` shows that main's last job can be lost: the output process
has not blocked SIGUSR2 between `sigset` and `sigsuspend`.

### PuzzleApp

The hw4 driver as in `Stopwatch` (same timers, same processor), with the UI
thread (`ui`), one reading thread per game (`reader`), the open file of each game
tied to its thread, and the death of the process (`StartFails`, `orphans`: the
kernel closes the files of all its threads, while a new process may start).
`driver_write` is split at its test of the mode and inside `count++` (`CountLoad`,
`CountSlide`), which the timer handler may interrupt, and `driver_release` at each of
its three effects; the release waits for a write that is inside the driver. Whether
a slide solves the board is a choice; `SlidingPuzzle` says when it does. Leaving
the activity or turning the device is Android's doing and modelled as such
(external). The three interrupts are one flag, as in `Stopwatch`.

The run `puzzle_app` plays two games, enough for one to disturb the other, with
two counted slides, a cap of two seconds in the place of 60 and two seconds below
zero. A fault halts the system, so deadlock is not checked.

* `CountdownHolds`: in the timer mode the countdown is this game's, in the counting mode
  it can only be one that an earlier game left behind; and it ends at zero, unless the
  start button was pressed with no second on it.
* `CountIsTheGames`: as long as the driver plays, `count` is the number of slides of this
  game, whatever an old countdown, a release or a reload does inside `count++`. (A
  countdown that ends there leaves a wrong count, which is of no game: the next open
  clears it.)
* `LostIsKnown`: a fault is the write of a countdown whose game is over, between the
  unmapping and the deletion of the timer; a handler that spins leaves a game's thread
  in the driver and the module loaded.
* `OverIsOver`: no thread sleeps on in a dead driver, except after a wake-up that
  came before its sleep, or a race.
* `Exclusive`: one game at a time, with its buttons.
* `SolvedEnds`, `CountdownRunsOut`: liveness under weak fairness of the expired
  timer, the UI thread's call and the woken thread; the second one if the buttons
  are left alone.

The run `puzzle_stale` shows a game ended by the countdown of the one before.

### Draw and PictureEditor

`draw.c` as one module: the statics of `mod_draw` are the variables, each button
is an action that ends in `Finish` (the count and the last two lines), a call
with `is_time` is `Tick`. A dot is 0 or 1 for the characters '0' and '1', and the
job's text is left out. A key that is neither a button nor a volume key reaches
the mode as an unknown button and is counted (`OtherKey`). Two buttons at once
change nothing, and because `is_multi` is not initialised one button may be
taken for two: both are stuttering steps. `PictureEditor` says what the user is
promised: a picture and a place, no cursor and no time. The mapping puts
`data_at_cursor` into `map` at the cursor.

The run `draw` is a board of three by three (a middle dot, every edge and corner,
a first and a last row apart) and a count that wraps after two keys.

* `DrawsPicture`: the refinement. (That a cursor that does not blink shows the true dot,
  `StillIsTrue`, is a theorem.) Ticks, blinking, moves over the blinking dot,
  `Clear` and `Invert` keep `map` and `data_at_cursor` together.

### Editor and TextPad

The statics of `mod_editor` are the variables; `text` is a function on its cells in
which `Nul` is a zero byte, so that a line may end early in the array. A character
is the button that typed it with one of its three letters or its digit; blanks and
the characters no button types are values of their own. `Put` is the assignment
to `text[++text_idx]` with the shift of a full line before it, and `Shifted` is
`strcpy(text, text + 1)`: it stops at the first terminator. main passes every key
but the volume keys on as if it were a button (home is 102), and `alphas` has no such
row: what is read behind it may be any character, and also no character
(`KeyAsLetter`). Two buttons that mean nothing, and a tick, change nothing.
`TextPad` has a line, a letter that can still be turned, and no index; once a
key was typed as a letter it promises nothing until the line is cleared.

The run `editor` has a line of three, so that it fills, shifts and is turned when
full; three buttons, two of which are needed to tell a turn from a new letter; a key;
and a count that wraps at once.

* `TypesText`: the refinement. `prev` is set in one place and taken back in four; if
  one were missing, a letter would be turned that is not the last one, or a blank
  typed over.
* `TypeOK` includes that there is a letter to turn whenever `prev` names one.

### LedDriver and LedOption

`LedOption` follows an option from the range check of `test_device.c` through
`sys_get_input`, which lets the pattern run into the byte of the position, to the
two bytes `device_write` takes out (the bitwise or is written out for the two bits a
position has). `LedDriver` splits `timer_iterator` where it has advanced the pattern
(`TickFrame`, `TickRearm`), because another processor may be in `device_write`
meanwhile: `del_timer_sync` waits for the handler (`~handler`), and the fields that
are refilled after it are two steps and the `add_timer` a third. `device_open` is
three steps: it blanks the devices, tests `dev_usage` and sets it. `device_read` only
refuses, and `ioctl` is `device_write`. The gap only delays the timer and is left out.

Two kinds of fault are part of the model, as `cpu = "oops"`: a timer that is added
twice (a BUG of the kernel) and a write outside an array, `fnd[5]` (`WildWrite` beside
`TickFrame`) or, after raced writes, `lcd_str[33]` (`WildText` beside `TickRearm`), which
may or may not be noticed. The file operations name no owner, so the module can be
removed while the device is open. `dev_driver_exit` is four steps, between which the
processes go on: it unmaps before it deletes the timer, and a write between the
deletion and the unregistering adds the timer again. `TickUnmapped` (a frame, or the
LCD of one under way) and `Fault` are what that comes to. `ModuleInit` has two bounds:
the kernel would load the module again with a process or a timer of the old one left,
but either faults first.
`late` marks a frame between its blanking and its unmapping. A fault halts the
system, so the run does not check for deadlock.

The run `led` has two processes, two patterns and four positions, an animation of
five frames (both patterns at two positions and one more), a legal option (20), one
that is accepted but not legal (1234) and one that is refused (9000), LCD lines that
turn after two steps and one, and any number of loads and removals of the module.

* `FrameIsPlanned`: with a legal option frame k shows what its number asks for, from the
  check of the arguments to the FND, whatever open, close and refused open come between.
  The ghosts `plan` and `frames` are given up once two opens raced.
* `FrameHasTimer`: no frame is left on the devices for good, and an animation keeps its
  timer when somebody's open, refused or not, blanks it.
* `OnlyKnownFaults`: the system goes down only after raced opens, after the unmapping
  with a timer or a process left behind, or with an option that is not legal.
* `AnimationEnds`: under weak fairness of the expired timer's handler and of its end,
  which is what the kernel's timer does; no process has to do anything.

The run `led_option` shows that 1234 is within the range `test_device` promises to check
("Invalid option range.", `test_device.c:47`) and reaches the driver as position 7 and
pattern 210.

### Panel, Clock, Counter, BinaryGame and Modes

`Panel` is what the devices show: four digits, a set of lit LEDs, a digit on the
dot matrix, a text with a number. A job changes the parts it names, and one that
begins with `init 0` starts from a blank panel, so a mode that forgets a part shows
what was there before. Each mode is a module without a specification of its own:
its statics are variables, the first call with `chg` is `Enter`, a call with
`is_time` is `Tick`, a push of one button is `Press` and of two `Chord`. `Modes`
instantiates the three over one `board` and one `mod`; the volume keys go to the
next mode and enter it. The variables of a mode stay as they are while others run:
an edit of the time, a question and a game that is over are all left half done.

In the clock and the counter `is_multi` is not initialised, so that a push may be
taken for a chord and ignored: that is a stuttering step. The board's time is any
time of the day. In the game the question is any answer, ints wrap at `HalfRange`
(2^31), and `MaxScore` bounds the score. The editor and the draw board only take
the devices, since their modules are their own. A message may name any button in
any order, more than the edge detection of `in_proc.c` produces. Every job is
taken to reach the devices; `BoardProcs` is about those that do not.

The run `modes` has a day of three minutes in hours of two (so that hour and day wrap
apart), bases 3 and 2 with a limit the second cannot show in four digits, two
answers, questions of two ticks, ints of three bits (so that the input overflows),
two points and a key taken for a button. Deadlock is checked.

* `DisplayFollowsMode`: the devices show the state of the present mode. The exception
  is the code's: a game begun again before the question that is due does not name
  the FND in its job, and shows the old score until the next input or tick.
* `ClockKeepsTime`: the time changes by a minute or to what is on the FND; an edit
  begun and ended without a change leaves it.
* `CounterAdds`: a press adds one unit of a digit in the present base and leaves the
  digits right of it.
* `GameIsFair`: a point only for the number on the LCD being that on the LEDs; a
  question unasked only after a right answer.

## 4. What is proved

All theorems hold for every value of the constants under the named assumptions
of the modules. Each rests on one inductive invariant, with a lemma per part.

* `SlidingPuzzle_proofs`: `TypeCorrect`, `TilesAreKept`, `ShuffleIsExact`,
  `WinIsExact`, `SlidesOnly`, for boards of every size. `TilesKept` needs the
  stronger fact that the board is a bijection between cells and numbers. The
  shuffle's length needs that `cnt` plus the coordinates of the blank keep their
  parity, so that a matched board has an even count. `WinExact` is an induction
  along the cells, done through the least cell that breaks the chain, since the
  library's induction theorems cannot be instantiated.
  `BoardIsSolvable` is the parity argument in full: exchanging two values of a
  permutation flips the parity of its inversions (the pairs are split into the
  exchanged one, those that meet it, which the exchange maps onto each other, and
  the rest; `ExchangeFlipsParity`), a slide exchanges the blank with a tile one cell
  away, and so the inversions plus the distance of the blank from the last cell keep
  their parity (`SlideKeepsEven`). What is invariant (`Dealt`) is that this number is
  even from the first deal on.
* `Stopwatch_proofs`: all six invariants of the run. The strengthening says what
  the countdown is in each state of its timer (`QuitInv`, `CarryInv`), that the
  interrupts have a holder that will still free them (`HolderInv`), and what each
  place in open and release excludes elsewhere (`SessionInv`). When the processor of
  the handlers is lost, and what is left then, are parts of `TimersStop` and
  `SessionsHold`.
* `BoardProcs_proofs`: all five invariants. `InputNotMissed` is inductive with the
  types; `ReadsBounded` needs that the reads done and those still to come add up
  to four at most; `EndsInOrder` needs where the end can be on its way, and
  that main has acted on nothing before its handler is installed.
* `PuzzleApp_proofs`: all six invariants of the run. The strengthening says whose the
  countdown can be in each state of its timer, what the load of `count++` can hold, and
  what each place in open and release excludes elsewhere.
* `Draw_proofs`: the type invariant, `StillIsTrue` and `ImplementsPicture`, the refinement, on boards
  of every size. The invariant adds that the board is untouched before the first
  call. That left and right stay in their row needs the uniqueness of row and
  column, proved from the axioms of division.

* `Editor_proofs`: the invariant and `ImplementsTextPad`, the refinement, for lines of
  every length. The strengthening is that the characters up to `text_idx` are none of
  them the terminator and all after it are (unless garbled), which makes the LCD's
  text the line; and that `alpha_idx` is the turn of the letter `prev` typed.
* `LedDriver_proofs`: all four invariants, for every set of processes and options. The
  strengthening says which processes can be where without a race (`Sessions`,
  `Writers`), what the fields hold once they are filled (`Fields`), that `remain`
  and the frames shown add up to the times asked for (`Counted`), and that the
  frame shown is the one before `cur` and `pos` (`Drawn`).
  About the options themselves: `OffTheFND` says which of those the range test lets
  through are drawn outside `fnd` (a number of 1024 or more up to the last digit that
  is not zero), `LegalByDigits` which mean one pattern on one digit. With legal options
  alone (`OnlyLegal`, an assumption on the constant `Options` that the set {20}
  satisfies) every frame is on the FND however opens and writes race
  (`LegalOptionsInRange`), and only races and what the removal leaves bring the system down
  (`LegalOptionsFaults`): a test for them is all that `led_option` shows to be missing.
* `Modes_proofs`: the type invariant, `DisplayFollowsMode`, `ClockKeepsTime`,
  `CounterAdds` and `GameIsFair`, for every length of day, list of bases and number of answers. The
  invariant adds that `nums_char` is `num` in every base (`DigitsKept`) and that the
  mode being shown has been entered (`Begun`). `CounterAdds` is the carry of an
  addition in any base, from the uniqueness of quotient and remainder (`ValueOfDigits`,
  `RightOfDigit`). It needs that the greatest unit a press adds, the square of a base,
  is at most `Limit` (100 and 1000 in the code): otherwise a press could pass the limit
  and still leave `num` greater than before.

Model-checked only: the liveness properties (`ShuffleEnds`, `QuitCloses`, `EndTravels`,
`SolvedEnds`, `CountdownRunsOut`, `AnimationEnds`), which rest on fairness and ENABLED
and are out of the prover's reach, and the violations. Every invariant, action
property and refinement of the passing runs is a theorem.

## 5. What is not modelled

Register writes, fonts and the layout code (I/O); the files of the Linux kernel
in hw2; the layouts and the manifest in hw4; set-up failures of `shmget` and `fork`
in hw1; the loading window of the drivers.

The edge detection of `in_proc.c` is not modelled: which buttons a message names is a
choice, in `BoardProcs` as in `Modes`, so that the modes are checked for more messages
than the scan sends. Nor is the text of a job and its parsing in `out_proc.c`: a job
is what it changes on the devices. What the hw2 driver writes to LED and dot matrix
for a pattern outside its tables is not followed further than its write to `fnd`.
