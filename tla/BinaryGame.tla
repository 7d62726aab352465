----------------------------- MODULE BinaryGame -----------------------------
(***************************************************************************)
(* The game of hw1 (binary_game.c): a number is shown on the LEDs in       *)
(* binary and has to be typed in decimal before the time is over.  Chord   *)
(* 2+3 starts and submits, 5+6 types a zero, 8+9 deletes a digit.          *)
(***************************************************************************)
EXTENDS Integers, Panel

CONSTANTS
    Answers,     \* 16
    TimeLimit,   \* 9 ticks
    HalfRange,   \* 2^31: an int is at least -HalfRange and less than HalfRange
    MaxScore     \* bound on the score, that the FND has the digits for

\* What Modes assumes of them.
GameAssumption ==
    /\ Answers \in 1 .. 16 /\ TimeLimit \in Nat \ {0}
    /\ HalfRange \in Nat \ {0} /\ MaxScore \in 0 .. 9999

VARIABLES
    answer,        \* answer
    timer,         \* timer
    score,         \* score, -1 before the first call
    input,         \* input, -1 for none
    game_start,    \* game_start: 0 not started, 1 started, 2 game over
    new_question,  \* new_question
    board          \* what the jobs of main have made the devices show

Init ==
    /\ answer = 0 /\ timer = 0 /\ score = -1 /\ input = 0
    /\ game_start = 0 /\ new_question = FALSE

Enter ==
    /\ score' = 0 /\ timer' = 0 /\ answer' = 0
    /\ new_question' = FALSE /\ game_start' = 0
    /\ board' = [Blank EXCEPT !.lcd = Text("Start game?", None)]
    /\ UNCHANGED input

\* A question is drawn and its time begins.
Ask ==
    /\ game_start' = 1
    /\ timer' = TimeLimit /\ input' = None
    /\ answer' \in 0 .. Answers - 1

\* The devices during a question; a number of -1 is not shown.
Asked(fnd, number) ==
    [fnd |-> fnd, led |-> Shift4(answer'), dot |-> timer', lcd |-> Text("Answer: ", number)]

\* The tick after a right answer.
NextQuestion ==
    /\ game_start = 0 /\ new_question
    /\ Ask
    /\ new_question' = FALSE
    /\ board' = Asked(FourDigits(score, 10), None)
    /\ UNCHANGED score

\* Chord 2+3.  The job does not name the FND: after a right answer it shows the
\* old score, and new_question stays.
StartGame ==
    /\ game_start = 0
    /\ Ask
    /\ score' = 0
    /\ board' = Asked(board.fnd, None)
    /\ UNCHANGED new_question

GameOver ==
    /\ game_start = 1
    /\ timer - 1 = 0
    /\ timer' = 0 /\ game_start' = 2
    /\ board' = [Blank EXCEPT !.lcd = Text("Game over! Press any one key.", None)]
    /\ UNCHANGED <<answer, score, input, new_question>>

\* The end of mod_game during a question.
ShowQuestion ==
    /\ UNCHANGED <<answer, score, game_start, new_question>>
    /\ board' = Asked(FourDigits(score, 10), input')

CountDown ==
    /\ game_start = 1
    /\ timer - 1 # 0
    /\ timer' = timer - 1
    /\ UNCHANGED input
    /\ ShowQuestion

Typed(value) ==
    /\ game_start = 1
    /\ input' = value
    /\ UNCHANGED timer
    /\ ShowQuestion

Number == IF input = None THEN 0 ELSE input
TypeDigit(button) == Typed(Wrap(Number * 10 + button, HalfRange))
TypeZero == Typed(Wrap(Number * 10, HalfRange))
Delete == Typed(Quotient(Number, 10))

\* Chord 2+3 during a question.
Right ==
    /\ game_start = 1 /\ answer = input
    /\ score < MaxScore
    /\ score' = score + 1
    /\ game_start' = 0 /\ new_question' = TRUE
    /\ board' = [Blank EXCEPT !.fnd = FourDigits(score', 10), !.lcd = Text("Correct!", None)]
    /\ UNCHANGED <<answer, timer, input>>
Wrong == answer # input /\ Typed(input)

\* Any one button after the end of a game; mutant: a right answer is still due
\* its question.
AgainKeepsQuestion ==
    /\ game_start = 2
    /\ game_start' = 0 /\ answer' = 0
    /\ board' = [Blank EXCEPT !.lcd = Text("Start game?", None)]
    /\ UNCHANGED <<timer, score, input, new_question>>
Again ==
    /\ game_start = 2
    /\ game_start' = 0 /\ new_question' = FALSE /\ answer' = 0
    /\ board' = [Blank EXCEPT !.lcd = Text("Start game?", None)]
    /\ UNCHANGED <<timer, score, input>>

Tick == NextQuestion \/ GameOver \/ CountDown
Press(button) == TypeDigit(button) \/ Again
Chord(a, b) ==
    \/ a = 2 /\ b = 3 /\ (StartGame \/ Right \/ Wrong)
    \/ a = 5 /\ b = 6 /\ TypeZero
    \/ a = 8 /\ b = 9 /\ Delete
==============================================================================
