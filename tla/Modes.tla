-------------------------------- MODULE Modes -------------------------------
(***************************************************************************)
(* The modes of hw1 behind one set of devices: main's switch by the volume *)
(* keys (main.c) and the dispatch of messages and ticks (mod_proc.c) to    *)
(* the clock, the counter and the game, whose variables outlive a change   *)
(* of mode.  The editor and the draw board have modules of their own       *)
(* (Editor, Draw); here they only take the devices.  Every job reaches     *)
(* them (BoardProcs is about those that do not).                           *)
(***************************************************************************)
EXTENDS Integers, Sequences, Panel

CONSTANTS
    Day, Hour, Minute,                          \* of Clock
    Bases, Limit,                               \* of Counter
    Answers, TimeLimit, HalfRange, MaxScore,    \* of BinaryGame
    Singles,     \* buttons pressed alone, and keys passed on like buttons
    Chords       \* pairs of buttons pressed together

VARIABLES
    mod,         \* mod
    board,       \* what the devices show
    clk_timer, mod_changing, cur_time, modified_time, clk_led,
    numeric, nums_char, num, cnt_led,
    answer, game_timer, score, input, game_start, new_question

Clk == INSTANCE Clock WITH timer <- clk_timer, led <- clk_led
Cnt == INSTANCE Counter WITH led <- cnt_led
Game == INSTANCE BinaryGame WITH timer <- game_timer

clock == <<clk_timer, mod_changing, cur_time, modified_time, clk_led>>
counter == <<numeric, nums_char, num, cnt_led>>
game == <<answer, game_timer, score, input, game_start, new_question>>
vars == <<mod, board, clock, counter, game>>

ASSUME ModesAssumption ==
    /\ Clk!ClockAssumption /\ Cnt!CounterAssumption /\ Game!GameAssumption
    /\ Singles \subseteq Nat \ {0}
    /\ Chords \subseteq (Nat \ {0}) \X (Nat \ {0})

ModeNames == <<"CLOCK", "COUNTER", "EDITOR", "DRAW", "GAME">>
ModNum == 5

Init == mod = 0 /\ Clk!Init /\ Cnt!Init /\ Game!Init

In(name) == ModeNames[mod + 1] = name

\* The first call of a mode after a change.  What the editor and the draw board
\* show is stood for by their name.
Enter(name) ==
    \/ name = "CLOCK" /\ Clk!Enter /\ UNCHANGED <<counter, game>>
    \/ name = "COUNTER" /\ Cnt!Enter /\ UNCHANGED <<clock, game>>
    \/ name = "GAME" /\ Game!Enter /\ UNCHANGED <<clock, counter>>
    \/ /\ name \in {"EDITOR", "DRAW"}
       /\ board' = [Blank EXCEPT !.lcd = Text(name, None)]
       /\ UNCHANGED <<clock, counter, game>>

VolUp == mod' = (mod + 1) % ModNum /\ Enter(ModeNames[mod' + 1])
VolDown == mod' = (mod + ModNum - 1) % ModNum /\ Enter(ModeNames[mod' + 1])

\* Twenty naps of main.
Tick ==
    /\ UNCHANGED <<mod, counter>>
    /\ \/ In("CLOCK") /\ Clk!Tick /\ UNCHANGED game
       \/ In("GAME") /\ Game!Tick /\ UNCHANGED clock

\* A message about one button.  The clock and the counter may take it for a
\* chord, is_multi being uninitialised: then nothing happens.
Press(button) ==
    /\ UNCHANGED mod
    /\ \/ In("CLOCK") /\ Clk!Press(button) /\ UNCHANGED <<counter, game>>
       \/ In("COUNTER") /\ Cnt!Press(button) /\ UNCHANGED <<clock, game>>
       \/ In("GAME") /\ Game!Press(button) /\ UNCHANGED <<clock, counter>>

\* A message about several buttons, of which the first two count.
Chord(a, b) ==
    /\ UNCHANGED <<mod, clock, counter>>
    /\ In("GAME") /\ Game!Chord(a, b)

Next ==
    \/ VolUp \/ VolDown \/ Tick
    \/ \E button \in Singles : Press(button)
    \/ \E chord \in Chords : Chord(chord[1], chord[2])

Spec == Init /\ [][Next]_vars

------------------------------------------------------------------------------
(***************************************************************************)
(* Properties                                                              *)
(***************************************************************************)

\* Every variable has its type: an edit never leaves the day, and the number of
\* the counter and the input of the game stay in their ranges.
ClockTypes ==
    /\ clk_timer \in 0 .. Minute - 1 /\ mod_changing \in BOOLEAN
    /\ cur_time \in 0 .. Day - 1 /\ modified_time \in None .. Day - 1
    /\ mod_changing => modified_time # None
    /\ clk_led \in {{7}, {5}, {4}}
CounterTypes ==
    /\ numeric \in None .. Cnt!NumBases - 1 /\ num \in 0 .. Limit - 1
    /\ cnt_led \subseteq 0 .. 7
GameTypes ==
    /\ answer \in 0 .. Answers - 1 /\ game_timer \in 0 .. TimeLimit
    /\ score \in None .. MaxScore /\ input \in -HalfRange .. HalfRange - 1
    /\ game_start \in 0 .. 2 /\ new_question \in BOOLEAN
    /\ game_start = 1 => game_timer > 0
TypeOK == mod \in 0 .. ModNum - 1 /\ ClockTypes /\ CounterTypes /\ GameTypes

\* The FND, the LED and the LCD always show the state of the present mode,
\* whatever was left half done in the modes before it and however long ago: the
\* clock its time, or the one being edited; the counter its number in the
\* present base; the game its score, its question and the input.
ClockShown ==
    board = [Blank EXCEPT !.led = clk_led,
                          !.fnd = Clk!TimeDigits(IF mod_changing THEN modified_time ELSE cur_time)]
CounterShown ==
    board = [Blank EXCEPT !.led = cnt_led, !.fnd = FourDigits(num, Bases[numeric + 1])]

\* (A game begun again before the question that is due does not show its score
\* before the first input or tick.)
Restarted == new_question /\ input = None /\ game_timer = TimeLimit
QuestionShown ==
    /\ board.led = Shift4(answer) /\ board.dot = game_timer
    /\ board.lcd = Text("Answer: ", input)
    /\ board.fnd = FourDigits(score, 10) \/ Restarted
ScoreShown ==
    board = [Blank EXCEPT !.fnd = FourDigits(score, 10), !.lcd = Text("Correct!", None)]
OfferShown == board = [Blank EXCEPT !.lcd = Text("Start game?", None)]
GameShown ==
    /\ game_start = 0 => IF new_question THEN ScoreShown ELSE OfferShown
    /\ game_start = 1 => QuestionShown
    /\ game_start = 2 => board = [Blank EXCEPT !.lcd = Text("Game over! Press any one key.", None)]

DisplayFollowsMode ==
    /\ In("CLOCK") => ClockShown
    /\ In("COUNTER") => CounterShown
    /\ In("GAME") => GameShown

\* The clock's time changes by a minute passing in its mode, or to a time that
\* the FND is showing; to begin or end an edit never changes what it shows, so
\* that two presses of button 1 leave the time alone.
ClockKeepsTime ==
    [][/\ cur_time' # cur_time =>
             /\ In("CLOCK")
             /\ \/ ~mod_changing /\ cur_time' = (cur_time + 1) % Day
                \/ mod_changing /\ Clk!TimeDigits(cur_time') = board.fnd
       /\ In("CLOCK") /\ UNCHANGED mod /\ mod_changing' # mod_changing => board'.fnd = board.fnd]_vars

\* A press adds to the number the FND shows in the present base one unit of a
\* digit and leaves the digits right of it alone, until the number passes Limit.
Value(digits, base) ==
    ((digits[1] * base + digits[2]) * base + digits[3]) * base + digits[4]
CounterAdds ==
    [][In("COUNTER") /\ num' > num =>
          LET base == Bases[numeric + 1]
          IN  \E digit \in 1 .. 3 :
                /\ Value(board'.fnd, base) =
                      (Value(board.fnd, base) + <<1, base, base * base>>[digit])
                          % (base * base * base * base)
                /\ \A i \in 6 - digit .. 4 : board'.fnd[i] = board.fnd[i]]_vars

\* A point is given only for the number on the LCD being the one on the LEDs,
\* and a question comes unasked only after a right answer.
GameIsFair ==
    [][In("GAME") /\ UNCHANGED mod =>
          /\ score' > score =>
                game_start = 1 /\ board.led = Shift4(answer) /\ board.lcd = Text("Answer: ", answer)
          /\ new_question /\ ~new_question' /\ game_start' = 1 =>
                board.lcd.words = "Correct!" /\ UNCHANGED score]_vars
==============================================================================
