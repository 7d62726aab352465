---------------------------- MODULE PictureEditor ----------------------------
(***************************************************************************)
(* What the draw board of hw1 promises its user (draw.c): a picture of     *)
(* dots and a place in it.  Moving changes only the place; the dot under   *)
(* the place is flipped, the picture cleared or inverted, only when asked. *)
(* There is no cursor in the picture and no time.                          *)
(***************************************************************************)
EXTENDS Integers

CONSTANTS Rows, Cols   \* 10 and 7

VARIABLES
    pic,    \* the dots, 0 or 1, row by row
    place   \* where the next dot is drawn

vars == <<pic, place>>

Dots == 0 .. Rows * Cols - 1
Blank == [d \in Dots |-> 0]

Init == pic = Blank /\ place = 0

\* One dot up, left, right or down, never over an edge.
Move ==
    /\ place' \in Dots
    /\ \/ place' = place - Cols \/ place' = place + Cols
       \/ place' = place - 1 /\ place' \div Cols = place \div Cols
       \/ place' = place + 1 /\ place' \div Cols = place \div Cols
    /\ UNCHANGED pic

Flip == pic' = [pic EXCEPT ![place] = 1 - @] /\ UNCHANGED place
Clear == pic' = Blank /\ UNCHANGED place
Invert == pic' = [d \in Dots |-> 1 - pic[d]] /\ UNCHANGED place
Reset == pic' = Blank /\ place' = 0

Next == Move \/ Flip \/ Clear \/ Invert \/ Reset

Spec == Init /\ [][Next]_vars
==============================================================================
