------------------------------- MODULE Clock --------------------------------
(***************************************************************************)
(* The clock of hw1 (clock.c).  Button 1 begins and ends an edit of the    *)
(* time; buttons 2, 3 and 4 change the time being edited.  Times are       *)
(* minutes since midnight.                                                 *)
(***************************************************************************)
EXTENDS Integers, Panel

CONSTANTS
    Day,         \* 1440 minutes
    Hour,        \* 60 minutes
    Minute       \* 60 ticks

\* What Modes assumes of them.
ClockAssumption ==
    Day \in Nat \ {0} /\ Hour \in Nat \ {0} /\ Minute \in Nat \ {0}

VARIABLES
    timer,           \* timer
    mod_changing,    \* mod_changing
    cur_time,        \* cur_time
    modified_time,   \* modified_time
    led,             \* led
    board            \* what the jobs of main have made the devices show

\* %02d%02d
TimeDigits(t) ==
    <<(t \div Hour) \div 10, (t \div Hour) % 10, (t % Hour) \div 10, (t % Hour) % 10>>

ModeLed == {7}
EditLed == {5}

\* The first call, from main before its loop: the time is the board's.
Init ==
    /\ timer = 0 /\ mod_changing = FALSE /\ modified_time = None /\ led = ModeLed
    /\ cur_time \in 0 .. Day - 1
    /\ board = [Blank EXCEPT !.led = ModeLed, !.fnd = TimeDigits(cur_time)]

\* The mode is entered: an edit is given up; mutant: it goes on.
EnterEditing ==
    /\ led' = ModeLed
    /\ board' = [Blank EXCEPT !.led = ModeLed, !.fnd = TimeDigits(cur_time)]
    /\ UNCHANGED <<timer, mod_changing, cur_time, modified_time>>
Enter ==
    /\ led' = ModeLed /\ mod_changing' = FALSE
    /\ board' = [Blank EXCEPT !.led = ModeLed, !.fnd = TimeDigits(cur_time)]
    /\ UNCHANGED <<timer, cur_time, modified_time>>

\* Bits 4 and 5 of the LED in turn.
Blink ==
    /\ mod_changing
    /\ LET from == IF led = ModeLed THEN {4} ELSE led
       IN  led' = (from \ {4, 5}) \cup ({4, 5} \ from)
    /\ board' = [board EXCEPT !.led = led']
    /\ UNCHANGED <<timer, mod_changing, cur_time, modified_time>>

Second ==
    /\ ~mod_changing
    /\ timer + 1 # Minute
    /\ timer' = timer + 1
    /\ UNCHANGED <<mod_changing, cur_time, modified_time, led, board>>

NewMinute ==
    /\ ~mod_changing
    /\ timer + 1 = Minute
    /\ timer' = 0
    /\ cur_time' = (cur_time + 1) % Day
    /\ board' = [board EXCEPT !.fnd = TimeDigits(cur_time')]
    /\ UNCHANGED <<mod_changing, modified_time, led>>

\* Button 1; mutant of the first: the edit begins where the last one ended.
KeepEdit ==
    /\ ~mod_changing
    /\ mod_changing' = TRUE /\ timer' = 0
    /\ led' = EditLed
    /\ board' = [board EXCEPT !.led = led', !.fnd = TimeDigits(modified_time)]
    /\ UNCHANGED <<cur_time, modified_time>>
BeginEdit ==
    /\ ~mod_changing
    /\ mod_changing' = TRUE /\ timer' = 0
    /\ modified_time' = cur_time /\ led' = EditLed
    /\ board' = [board EXCEPT !.led = led', !.fnd = TimeDigits(modified_time')]
    /\ UNCHANGED cur_time

EndEdit ==
    /\ mod_changing
    /\ mod_changing' = FALSE /\ timer' = 0
    /\ cur_time' = modified_time /\ led' = ModeLed
    /\ board' = [board EXCEPT !.led = led', !.fnd = TimeDigits(cur_time')]
    /\ UNCHANGED modified_time

\* Buttons 2 to 4: the time of the board, an hour more, a minute more.  They
\* set modified_time even where it is not shown.
Modify(button) ==
    /\ \/ button = 2 /\ modified_time' \in 0 .. Day - 1
       \/ button = 3 /\ modified_time' = (modified_time + Hour) % Day
       \/ button = 4 /\ modified_time' = (modified_time + 1) % Day
    /\ board' = [board EXCEPT !.led = led,
                              !.fnd = TimeDigits(IF mod_changing THEN modified_time' ELSE cur_time)]
    /\ UNCHANGED <<timer, mod_changing, cur_time, led>>

\* A tick, and a message about one button that is taken for one.
Tick == Blink \/ Second \/ NewMinute
Press(button) == (button = 1 /\ (BeginEdit \/ EndEdit)) \/ Modify(button)
==============================================================================
