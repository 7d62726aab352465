-------------------------------- MODULE Draw ---------------------------------
(***************************************************************************)
(* The draw board of hw1 as it is (draw.c).  The cursor blinks by          *)
(* overwriting the dot below it in map, and the dot's true value is kept   *)
(* in data_at_cursor; every button has to keep the two together.  It       *)
(* implements PictureEditor, which has neither.                            *)
(***************************************************************************)
EXTENDS Integers

CONSTANTS
    Rows, Cols,   \* 10 and 7
    MaxCnt        \* 10000

ASSUME DrawAssumption == Rows \in Nat \ {0} /\ Cols \in Nat \ {0} /\ MaxCnt \in Nat \ {0}

VARIABLES
    cursor,          \* cursor, -1 before the first call
    map,             \* map, 0 and 1 for '0' and '1'
    flicking,        \* flicking
    cnt,             \* cnt
    data_at_cursor   \* data_at_cursor

vars == <<cursor, map, flicking, cnt, data_at_cursor>>

Dots == 0 .. Rows * Cols - 1
Zeros == [d \in Dots |-> 0]

Init ==
    /\ cursor = -1 /\ map = Zeros
    /\ flicking = TRUE /\ cnt = 0 /\ data_at_cursor = 0

\* The first call, whatever it is for.
FirstCall ==
    /\ cursor = -1
    /\ cursor' = 0 /\ map' = Zeros
    /\ UNCHANGED <<flicking, cnt, data_at_cursor>>

\* A tick: the cursor is toggled, or else its dot is put right.
Tick ==
    /\ cursor # -1
    /\ map' = [map EXCEPT ![cursor] = IF flicking THEN 1 - @ ELSE data_at_cursor]
    /\ UNCHANGED <<cursor, flicking, cnt, data_at_cursor>>

\* The count of keys, shown with four digits; mutant: it does not wrap.
CountOn == cnt + 1
NextCnt == (cnt + 1) % MaxCnt

\* What every button ends with: the count, and the true dot unless it blinks.
Finish(newmap) ==
    /\ cursor # -1
    /\ cnt' = NextCnt
    /\ map' = IF flicking' THEN newmap ELSE [newmap EXCEPT ![cursor'] = data_at_cursor']

\* Button 1.  The count starts again: cnt is set to -1 before it is increased.
Reset ==
    /\ cursor # -1
    /\ cursor' = 0 /\ data_at_cursor' = 0 /\ flicking' = TRUE
    /\ cnt' = 0 /\ map' = Zeros

\* The map as a cursor leaves it; mutant: the blinking dot stays.
LeaveDotBlinking == map
LeaveDot == [map EXCEPT ![cursor] = data_at_cursor]

\* The cursor moves to dot d.
MoveTo(d) ==
    /\ cursor' = d
    /\ data_at_cursor' = LeaveDot[d]
    /\ UNCHANGED flicking
    /\ Finish(LeaveDot)

\* A button towards an edge the cursor is at.
MoveNowhere ==
    /\ UNCHANGED <<cursor, data_at_cursor, flicking>>
    /\ Finish(map)

\* Buttons 2, 4, 6 and 8.
Up == IF cursor > Cols - 1 THEN MoveTo(cursor - Cols) ELSE MoveNowhere
Left == IF cursor % Cols > 0 THEN MoveTo(cursor - 1) ELSE MoveNowhere
Right == IF cursor % Cols < Cols - 1 THEN MoveTo(cursor + 1) ELSE MoveNowhere
Down == IF cursor < Cols * (Rows - 1) THEN MoveTo(cursor + Cols) ELSE MoveNowhere

\* Button 5: only the kept dot; the map shows it when the cursor leaves.
Select ==
    /\ data_at_cursor' = 1 - data_at_cursor
    /\ UNCHANGED <<cursor, flicking>>
    /\ Finish(map)

\* Button 7.
Clear ==
    /\ data_at_cursor' = 0
    /\ UNCHANGED <<cursor, flicking>>
    /\ Finish(Zeros)

\* Button 9.
Invert ==
    /\ data_at_cursor' = 1 - data_at_cursor
    /\ UNCHANGED <<cursor, flicking>>
    /\ Finish([d \in Dots |-> 1 - map[d]])

\* Button 3.
Blink ==
    /\ flicking' = ~flicking
    /\ UNCHANGED <<cursor, data_at_cursor>>
    /\ Finish(map)

\* A key that is neither a button nor a volume key is counted and does nothing
\* else.  (Two buttons at once return early, and so may one: is_multi is not
\* initialised, and get_push_id never clears it.  Neither changes the state, and
\* nor does entering the mode again.)
OtherKey ==
    /\ UNCHANGED <<cursor, data_at_cursor, flicking>>
    /\ Finish(map)

Button == cursor # -1 /\ (Up \/ Left \/ Right \/ Down \/ Select \/ Clear \/ Invert \/ Blink)

Next == FirstCall \/ Tick \/ Reset \/ Button \/ OtherKey

Spec == Init /\ [][Next]_vars

------------------------------------------------------------------------------
(***************************************************************************)
(* Properties                                                              *)
(***************************************************************************)

\* Every variable has its type; the cursor is on the board.
TypeOK ==
    /\ cursor \in Dots \cup {-1}
    /\ map \in [Dots -> {0, 1}]
    /\ flicking \in BOOLEAN
    /\ cnt \in 0 .. MaxCnt - 1
    /\ data_at_cursor \in {0, 1}

\* When the cursor does not blink the display shows the true picture, after
\* any sequence of buttons.
StillIsTrue == ~flicking => map[cursor] = data_at_cursor

\* The picture is the map with the kept dot in its place.
TruePic == IF cursor = -1 THEN Zeros ELSE [map EXCEPT ![cursor] = data_at_cursor]
TruePlace == IF cursor = -1 THEN 0 ELSE cursor

Picture == INSTANCE PictureEditor WITH pic <- TruePic, place <- TruePlace

\* However ticks and buttons alternate, the board behaves as a picture that only
\* the drawing buttons change: blinking and moving leave no trace in it.
DrawsPicture == Picture!Spec
==============================================================================
