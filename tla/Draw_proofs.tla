----------------------------- MODULE Draw_proofs -----------------------------
(***************************************************************************)
(* Proofs about the draw board: its types, the display of a still cursor,  *)
(* and that it implements PictureEditor on a board of any size.            *)
(***************************************************************************)
EXTENDS Draw, TLAPS

------------------------------------------------------------------------------
(***************************************************************************)
(* The rows of the board                                                   *)
(***************************************************************************)

\* A number is given by its row and column.
LEMMA RowAndColumn ==
    ASSUME NEW n \in Nat, NEW c \in Nat \ {0}
    PROVE  /\ n \div c \in Nat /\ n % c \in 0 .. c - 1
           /\ n = c * (n \div c) + (n % c)
  OBVIOUS

\* Two multiples of c less than c apart are the same.
LEMMA MultiplesApart ==
    ASSUME NEW c \in Nat \ {0}, NEW p \in Int, NEW q \in Int, p < q
    PROVE  c * q >= c * p + c
<1>1. q >= p + 1
  OBVIOUS
<1>2. c * (q - p) >= c
  BY <1>1
<1>3. c * (q - p) = c * q - c * p
  OBVIOUS
<1> QED
  BY <1>2, <1>3

\* Row and column are unique (draw.c tests the column before it moves).
LEMMA RowUnique ==
    ASSUME NEW n \in Nat, NEW c \in Nat \ {0}, NEW q \in Int, NEW r \in 0 .. c - 1,
           n = c * q + r
    PROVE  n \div c = q
<1> DEFINE p == n \div c
<1>1. p \in Int /\ (n % c) \in 0 .. c - 1 /\ n = c * p + (n % c)
  BY RowAndColumn
<1>2. c * p \in Int /\ c * q \in Int
  BY <1>1
<1> HIDE DEF p
<1>3. ~(p < q)
  <2>1. SUFFICES ASSUME p < q PROVE FALSE
    OBVIOUS
  <2>2. c * q >= c * p + c
    BY <1>1, <2>1, MultiplesApart
  <2> QED
    BY <1>1, <1>2, <2>2
<1>4. ~(q < p)
  <2>1. SUFFICES ASSUME q < p PROVE FALSE
    OBVIOUS
  <2>2. c * p >= c * q + c
    BY <1>1, <2>1, MultiplesApart
  <2> QED
    BY <1>1, <1>2, <2>2
<1>5. p = q
  BY <1>1, <1>3, <1>4
<1> QED
  BY <1>5 DEF p

\* Left and right stay in the row.
LEMMA SameRow ==
    ASSUME NEW n \in Nat, NEW c \in Nat \ {0}
    PROVE  /\ (n % c) > 0 => n - 1 \in Nat /\ (n - 1) \div c = n \div c
           /\ (n % c) < c - 1 => (n + 1) \div c = n \div c
<1> DEFINE q == n \div c
           r == n % c
<1>1. q \in Nat /\ r \in 0 .. c - 1 /\ n = c * q + r
  BY RowAndColumn
<1>2. c * q \in Nat
  BY <1>1
<1> HIDE DEF q, r
<1>3. ASSUME r > 0 PROVE n - 1 \in Nat /\ (n - 1) \div c = q
  <2>1. n - 1 \in Nat /\ r - 1 \in 0 .. c - 1 /\ n - 1 = c * q + (r - 1)
    BY <1>1, <1>2, <1>3
  <2> QED
    BY <1>1, <2>1, RowUnique
<1>4. ASSUME r < c - 1 PROVE (n + 1) \div c = q
  <2>1. n + 1 \in Nat /\ r + 1 \in 0 .. c - 1 /\ n + 1 = c * q + (r + 1)
    BY <1>1, <1>2, <1>4
  <2> QED
    BY <1>1, <2>1, RowUnique
<1> QED
  BY <1>3, <1>4 DEF q, r

\* The four moves stay on the board.
LEMMA OnBoard ==
    ASSUME NEW n \in Dots
    PROVE  /\ n > Cols - 1 => n - Cols \in Dots
           /\ (n % Cols) > 0 => n - 1 \in Dots
           /\ (n % Cols) < Cols - 1 => n + 1 \in Dots
           /\ n < Cols * (Rows - 1) => n + Cols \in Dots
<1>1. /\ Rows \in Nat \ {0} /\ Cols \in Nat \ {0} /\ n \in Nat
      /\ Rows * Cols \in Nat /\ n < Rows * Cols
  BY DrawAssumption DEF Dots
<1>2. n > Cols - 1 => n - Cols \in Dots
  BY <1>1 DEF Dots
<1>3. (n % Cols) > 0 => n - 1 \in Dots
  <2>1. (n % Cols) > 0 => n - 1 \in Nat
    BY <1>1, SameRow
  <2>2. n - 1 < Rows * Cols
    BY <1>1
  <2> QED
    BY <1>1, <2>1, <2>2 DEF Dots
<1>4. (n % Cols) < Cols - 1 => n + 1 \in Dots
  <2> DEFINE q == n \div Cols
             r == n % Cols
  <2>a. q \in Nat /\ r \in 0 .. Cols - 1 /\ n = Cols * q + r
    BY <1>1, RowAndColumn
  <2> HIDE DEF q, r
  <2>1. q \in Nat /\ r \in 0 .. Cols - 1 /\ n = Cols * q + r /\ Cols * q \in Nat
    BY <1>1, <2>a
  <2>2. q < Rows
    <3>1. SUFFICES ASSUME q >= Rows PROVE FALSE
      BY <1>1, <2>1
    <3>2. Cols * q >= Cols * Rows
      BY <1>1, <2>1, <3>1, MultiplesApart
    <3> QED
      BY <1>1, <2>1, <3>2
  <2>3. Cols * Rows >= Cols * q + Cols
    BY <1>1, <2>1, <2>2, MultiplesApart
  <2>4. ASSUME r < Cols - 1 PROVE n + 1 \in Dots
    BY <1>1, <2>1, <2>3, <2>4 DEF Dots
  <2> QED
    BY <2>4 DEF r
<1>5. n < Cols * (Rows - 1) => n + Cols \in Dots
  <2>1. Cols * (Rows - 1) = Rows * Cols - Cols
    BY <1>1
  <2> QED
    BY <1>1, <2>1 DEF Dots
<1> QED
  BY <1>2, <1>3, <1>4, <1>5

------------------------------------------------------------------------------
(***************************************************************************)
(* The inductive invariant.  Before the first call the board is untouched; *)
(* without that the first call could show a dot nobody drew.               *)
(***************************************************************************)

Pictures == [Dots -> {0, 1}]

Untouched == cursor = -1 => flicking /\ data_at_cursor = 0

IInv == TypeOK /\ StillIsTrue /\ Untouched

LEMMA FirstDot == 0 \in Dots /\ -1 \notin Dots /\ Zeros \in Pictures
<1>1. Rows \in Nat \ {0} /\ Cols \in Nat \ {0}
  BY DrawAssumption
<1>2. Rows * Cols >= 1
  BY <1>1
<1> QED
  BY <1>1, <1>2 DEF Dots, Zeros, Pictures

\* The count is one of four digits.
LEMMA CountInRange ==
    ASSUME cnt \in 0 .. MaxCnt - 1
    PROVE  NextCnt \in 0 .. MaxCnt - 1
<1>1. MaxCnt \in Nat \ {0} /\ cnt + 1 \in Nat
  BY DrawAssumption
<1>2. ((cnt + 1) % MaxCnt) \in 0 .. MaxCnt - 1
  BY <1>1, RowAndColumn
<1> QED
  BY <1>2 DEF NextCnt

\* What the end of mod_draw does for every button: the picture is the new map
\* with the kept dot in its place, whether the cursor blinks or not.
LEMMA FinishShows ==
    ASSUME NEW m \in Pictures, Finish(m), cnt \in 0 .. MaxCnt - 1,
           cursor' \in Dots, data_at_cursor' \in {0, 1}, flicking' \in BOOLEAN
    PROVE  /\ IInv'
           /\ TruePic' = [m EXCEPT ![cursor'] = data_at_cursor']
           /\ TruePlace' = cursor'
<1>1. cnt' = NextCnt /\ map' = IF flicking' THEN m ELSE [m EXCEPT ![cursor'] = data_at_cursor']
  BY DEF Finish
<1>2. cursor' # -1
  BY FirstDot
<1>3. map' \in [Dots -> {0, 1}]
  BY <1>1 DEF Pictures
<1>4. cnt' \in 0 .. MaxCnt - 1
  BY <1>1, CountInRange
<1>5. TypeOK'
  <2>1. cursor' \in Dots \cup {-1}
    OBVIOUS
  <2>2. Dots' = Dots
    BY DEF Dots
  <2> QED
    BY <1>3, <1>4, <2>1 DEF TypeOK, Dots
<1>6. StillIsTrue'
  BY <1>1 DEF StillIsTrue, Pictures
<1>7. Untouched'
  BY <1>2 DEF Untouched
<1>8. TruePic' = [map' EXCEPT ![cursor'] = data_at_cursor'] /\ TruePlace' = cursor'
  BY <1>2 DEF TruePic, TruePlace
<1>9. TruePic' = [m EXCEPT ![cursor'] = data_at_cursor']
  BY <1>1, <1>3, <1>8 DEF Pictures
<1> QED
  BY <1>5, <1>6, <1>7, <1>8, <1>9 DEF IInv

\* Once the board is touched its picture and place are those of the map.
LEMMA Touched ==
    ASSUME TypeOK, cursor # -1
    PROVE  /\ cursor \in Dots /\ map \in Pictures /\ data_at_cursor \in {0, 1}
           /\ flicking \in BOOLEAN /\ cnt \in 0 .. MaxCnt - 1
           /\ TruePic = [map EXCEPT ![cursor] = data_at_cursor] /\ TruePlace = cursor
           /\ TruePic \in Pictures
<1>1. cursor \in Dots /\ map \in Pictures /\ data_at_cursor \in {0, 1}
  BY DEF TypeOK, Pictures
<1>2. flicking \in BOOLEAN /\ cnt \in 0 .. MaxCnt - 1
  BY DEF TypeOK
<1>3. TruePic = [map EXCEPT ![cursor] = data_at_cursor] /\ TruePlace = cursor
  BY DEF TruePic, TruePlace
<1> QED
  BY <1>1, <1>2, <1>3 DEF Pictures

------------------------------------------------------------------------------
(***************************************************************************)
(* Every step keeps the invariant and is a step of the picture or none.    *)
(***************************************************************************)

SameOrStep == Picture!Next \/ (TruePic' = TruePic /\ TruePlace' = TruePlace)

\* A move leaves the true dot behind and picks up the one it comes to.
LEMMA MoveKeepsPicture ==
    ASSUME IInv, cursor # -1, NEW d \in Dots, MoveTo(d)
    PROVE  IInv' /\ TruePic' = TruePic /\ TruePlace = cursor /\ TruePlace' = d
<1>1. TypeOK
  BY DEF IInv
<1>2. /\ LeaveDot \in Pictures /\ LeaveDot = TruePic
  BY <1>1, Touched DEF LeaveDot
<1>3. cursor' = d /\ data_at_cursor' = LeaveDot[d] /\ flicking' = flicking /\ Finish(LeaveDot)
  BY DEF MoveTo
<1>4. data_at_cursor' \in {0, 1} /\ flicking' \in BOOLEAN /\ cnt \in 0 .. MaxCnt - 1
  BY <1>1, <1>2, <1>3, Touched DEF Pictures
<1>5. /\ IInv' /\ TruePlace' = cursor'
      /\ TruePic' = [LeaveDot EXCEPT ![cursor'] = data_at_cursor']
  BY <1>2, <1>3, <1>4, FinishShows
<1>6. [LeaveDot EXCEPT ![d] = LeaveDot[d]] = LeaveDot
  BY <1>2 DEF Pictures
<1> QED
  BY <1>1, <1>2, <1>3, <1>5, <1>6, Touched

LEMMA NowhereKeepsPicture ==
    ASSUME IInv, cursor # -1, Finish(map),
           UNCHANGED <<cursor, data_at_cursor, flicking>>
    PROVE  IInv' /\ TruePic' = TruePic /\ TruePlace' = TruePlace
<1>1. TypeOK
  BY DEF IInv
<1>2. /\ IInv' /\ TruePlace' = cursor'
      /\ TruePic' = [map EXCEPT ![cursor'] = data_at_cursor']
  BY <1>1, Touched, FinishShows
<1> QED
  BY <1>1, <1>2, Touched

\* The four directions.
LEMMA Moves ==
    ASSUME IInv, cursor # -1, Up \/ Left \/ Right \/ Down
    PROVE  IInv' /\ SameOrStep
<1>1. TypeOK /\ cursor \in Dots
  BY Touched DEF IInv
<1>2. /\ cursor \in Nat /\ Cols \in Nat \ {0}
  BY <1>1, DrawAssumption DEF Dots
<1>3. /\ (cursor % Cols) > 0 => (cursor - 1) \div Cols = cursor \div Cols
      /\ (cursor % Cols) < Cols - 1 => (cursor + 1) \div Cols = cursor \div Cols
  BY <1>2, SameRow
<1>4. ASSUME NEW d \in Dots, MoveTo(d),
             \/ d = cursor - Cols \/ d = cursor + Cols
             \/ d = cursor - 1 /\ d \div Cols = cursor \div Cols
             \/ d = cursor + 1 /\ d \div Cols = cursor \div Cols
      PROVE  IInv' /\ SameOrStep
  <2>1. IInv' /\ TruePic' = TruePic /\ TruePlace = cursor /\ TruePlace' = d
    BY <1>4, MoveKeepsPicture
  <2>2. Picture!Move
    BY <1>4, <2>1 DEF Picture!Move, Picture!Dots, Dots
  <2> QED
    BY <2>1, <2>2 DEF SameOrStep, Picture!Next
<1>5. CASE MoveNowhere
  BY <1>5, NowhereKeepsPicture DEF MoveNowhere, SameOrStep
<1>6. CASE Up /\ cursor > Cols - 1
  <2>1. cursor - Cols \in Dots /\ MoveTo(cursor - Cols)
    BY <1>1, <1>6, OnBoard DEF Up
  <2> QED
    BY <1>4, <2>1
<1>7. CASE Left /\ (cursor % Cols) > 0
  <2>1. cursor - 1 \in Dots /\ MoveTo(cursor - 1)
    BY <1>1, <1>7, OnBoard DEF Left
  <2> QED
    BY <1>3, <1>4, <1>7, <2>1
<1>8. CASE Right /\ (cursor % Cols) < Cols - 1
  <2>1. cursor + 1 \in Dots /\ MoveTo(cursor + 1)
    BY <1>1, <1>8, OnBoard DEF Right
  <2> QED
    BY <1>3, <1>4, <1>8, <2>1
<1>9. CASE Down /\ cursor < Cols * (Rows - 1)
  <2>1. cursor + Cols \in Dots /\ MoveTo(cursor + Cols)
    BY <1>1, <1>9, OnBoard DEF Down
  <2> QED
    BY <1>4, <2>1
<1> QED
  BY <1>5, <1>6, <1>7, <1>8, <1>9 DEF Up, Left, Right, Down

\* Buttons 5, 7, 9 and 3, and a key that is no button.
LEMMA DrawingButtons ==
    ASSUME IInv, cursor # -1, Select \/ Clear \/ Invert \/ Blink \/ OtherKey
    PROVE  IInv' /\ SameOrStep
<1>1. TypeOK
  BY DEF IInv
<1> DEFINE dac == data_at_cursor
<1>2. /\ cursor \in Dots /\ map \in Pictures /\ dac \in {0, 1} /\ 1 - dac \in {0, 1}
      /\ flicking \in BOOLEAN /\ cnt \in 0 .. MaxCnt - 1
      /\ TruePic = [map EXCEPT ![cursor] = dac] /\ TruePlace = cursor
  BY <1>1, Touched
<1>3. CASE Select
  <2>1. IInv' /\ TruePic' = [map EXCEPT ![cursor] = 1 - dac] /\ TruePlace' = cursor
    BY <1>2, <1>3, FinishShows DEF Select
  <2>2. TruePic[cursor] = dac
    BY <1>2 DEF Pictures
  <2>3. TruePic' = [TruePic EXCEPT ![cursor] = 1 - TruePic[cursor]]
    BY <1>2, <2>1, <2>2 DEF Pictures
  <2>4. Picture!Flip
    BY <1>2, <2>1, <2>3 DEF Picture!Flip
  <2> QED
    BY <2>1, <2>4 DEF SameOrStep, Picture!Next
<1>4. CASE Clear
  <2>1. /\ IInv' /\ TruePlace' = cursor
        /\ TruePic' = [Zeros EXCEPT ![cursor] = 0]
    BY <1>2, <1>4, FinishShows, FirstDot DEF Clear
  <2>2. TruePic' = Zeros
    BY <2>1 DEF Zeros
  <2>3. Picture!Clear
    BY <1>2, <2>1, <2>2 DEF Picture!Clear, Picture!Blank, Picture!Dots, Zeros, Dots
  <2> QED
    BY <2>1, <2>3 DEF SameOrStep, Picture!Next
<1>5. CASE Invert
  <2> DEFINE m == [d \in Dots |-> 1 - map[d]]
  <2>1. m \in Pictures
    BY <1>2 DEF Pictures
  <2>2. data_at_cursor' = 1 - dac /\ cursor' = cursor /\ flicking' = flicking /\ Finish(m)
    BY <1>5 DEF Invert
  <2> HIDE DEF m
  <2>3. /\ IInv' /\ TruePlace' = cursor
        /\ TruePic' = [m EXCEPT ![cursor] = 1 - dac]
    BY <1>2, <2>1, <2>2, FinishShows
  <2>4. TruePic' = [d \in Dots |-> 1 - TruePic[d]]
    BY <1>2, <2>3 DEF m, Pictures
  <2>5. Picture!Invert
    BY <1>2, <2>3, <2>4 DEF Picture!Invert, Picture!Dots, Dots
  <2> QED
    BY <2>3, <2>5 DEF SameOrStep, Picture!Next
<1>6. CASE Blink
  <2>1. flicking' \in BOOLEAN
    BY <1>6 DEF Blink
  <2>2. /\ IInv' /\ TruePlace' = cursor /\ TruePic' = [map EXCEPT ![cursor] = dac]
    BY <1>2, <1>6, <2>1, FinishShows DEF Blink
  <2> QED
    BY <1>2, <2>2 DEF SameOrStep
<1>7. CASE OtherKey
  BY <1>7, NowhereKeepsPicture DEF OtherKey, SameOrStep
<1> QED
  BY <1>3, <1>4, <1>5, <1>6, <1>7

\* The start, the tick and button 1.
LEMMA OtherSteps ==
    ASSUME IInv, FirstCall \/ Tick \/ Reset
    PROVE  IInv' /\ SameOrStep
<1>1. TypeOK /\ MaxCnt \in Nat \ {0} /\ 0 \in 0 .. MaxCnt - 1
  BY DrawAssumption DEF IInv
<1>2. 0 \in Dots /\ 0 # -1 /\ Zeros \in Pictures
  BY FirstDot
<1>3. [Zeros EXCEPT ![0] = 0] = Zeros
  BY <1>2 DEF Zeros
<1>4. CASE FirstCall
  <2>1. flicking /\ data_at_cursor = 0
    BY <1>4 DEF IInv, Untouched, FirstCall
  <2>2. /\ cursor = -1 /\ cursor' = 0 /\ map' = Zeros /\ flicking' /\ data_at_cursor' = 0
        /\ flicking' = flicking /\ cnt' = cnt
    BY <1>4, <2>1 DEF FirstCall
  <2>3. TypeOK'
    BY <1>1, <1>2, <2>2 DEF TypeOK, Pictures, Dots
  <2>4. TruePic' = TruePic /\ TruePlace' = TruePlace
    BY <1>2, <1>3, <2>2 DEF TruePic, TruePlace, Zeros, Dots
  <2> QED
    BY <1>2, <2>2, <2>3, <2>4 DEF IInv, StillIsTrue, Untouched, SameOrStep
<1>5. CASE Tick
  <2>1. /\ cursor \in Dots /\ map \in Pictures /\ data_at_cursor \in {0, 1}
        /\ TruePic = [map EXCEPT ![cursor] = data_at_cursor] /\ TruePlace = cursor
    BY <1>1, <1>5, Touched DEF Tick
  <2> DEFINE dot == IF flicking THEN 1 - map[cursor] ELSE data_at_cursor
  <2>2. /\ map' = [map EXCEPT ![cursor] = dot] /\ cursor # -1
        /\ cursor' = cursor /\ flicking' = flicking
        /\ data_at_cursor' = data_at_cursor /\ cnt' = cnt
    BY <1>5, <2>1 DEF Tick, Pictures
  <2>3. dot \in {0, 1} /\ (~flicking => dot = data_at_cursor)
    BY <2>1 DEF Pictures
  <2> HIDE DEF dot
  <2>4. map' \in Pictures
    BY <2>1, <2>2, <2>3 DEF Pictures
  <2>5. TypeOK'
    BY <1>1, <2>2, <2>4 DEF TypeOK, Pictures, Dots
  <2>6. StillIsTrue' /\ Untouched'
    BY <2>1, <2>2, <2>3 DEF StillIsTrue, Untouched, Pictures
  <2>7. TruePic' = [map' EXCEPT ![cursor] = data_at_cursor] /\ TruePlace' = cursor
    BY <2>2 DEF TruePic, TruePlace
  <2>8. TruePic' = TruePic
    BY <2>1, <2>2, <2>3, <2>7 DEF Pictures
  <2> QED
    BY <2>1, <2>5, <2>6, <2>7, <2>8 DEF IInv, SameOrStep
<1>6. CASE Reset
  <2>1. /\ cursor' = 0 /\ data_at_cursor' = 0 /\ flicking' = TRUE
        /\ cnt' = 0 /\ map' = Zeros
    BY <1>6 DEF Reset
  <2>2. TypeOK'
    BY <1>1, <1>2, <2>1 DEF TypeOK, Pictures, Dots
  <2>3. TruePic' = Zeros /\ TruePlace' = 0
    BY <1>2, <1>3, <2>1 DEF TruePic, TruePlace, Zeros, Dots
  <2>4. Picture!Reset
    BY <2>3 DEF Picture!Reset, Picture!Blank, Picture!Dots, Zeros, Dots
  <2> QED
    BY <2>1, <2>2, <2>4 DEF IInv, StillIsTrue, Untouched, SameOrStep, Picture!Next
<1> QED
  BY <1>4, <1>5, <1>6

LEMMA Step ==
    ASSUME IInv, [Next]_vars
    PROVE  IInv' /\ SameOrStep
<1>1. CASE UNCHANGED vars
  BY <1>1 DEF IInv, TypeOK, StillIsTrue, Untouched, SameOrStep, TruePic, TruePlace,
              vars, Dots, Zeros
<1>2. CASE FirstCall \/ Tick \/ Reset
  BY <1>2, OtherSteps
<1>3. CASE Button
  BY <1>3, Moves, DrawingButtons DEF Button
<1>4. CASE OtherKey
  BY <1>4, DrawingButtons DEF OtherKey, Finish
<1> QED
  BY <1>1, <1>2, <1>3, <1>4 DEF Next

LEMMA Initial == Init => IInv /\ Picture!Init
<1> SUFFICES ASSUME Init PROVE IInv /\ Picture!Init
  OBVIOUS
<1>1. MaxCnt \in Nat \ {0} /\ 0 \in 0 .. MaxCnt - 1
  BY DrawAssumption
<1>2. IInv
  BY <1>1, FirstDot DEF Init, IInv, TypeOK, StillIsTrue, Untouched, Pictures
<1>3. Picture!Init
  BY DEF Init, Picture!Init, Picture!Blank, Picture!Dots, TruePic, TruePlace, Zeros, Dots
<1> QED
  BY <1>2, <1>3

------------------------------------------------------------------------------
(***************************************************************************)
(* The theorems                                                            *)
(***************************************************************************)

\* Every variable keeps its type on a board of any size; the cursor never
\* leaves it, whatever the buttons.
THEOREM TypeCorrect == Spec => []TypeOK
<1>1. Init => IInv
  BY Initial
<1>2. IInv /\ [Next]_vars => IInv'
  BY Step
<1>3. IInv => TypeOK
  BY DEF IInv
<1> QED
  BY <1>1, <1>2, <1>3, PTL DEF Spec

\* A cursor that does not blink shows its true dot (draw.c:102).
THEOREM StillDotIsTrue == Spec => []StillIsTrue
<1>1. Init => IInv
  BY Initial
<1>2. IInv /\ [Next]_vars => IInv'
  BY Step
<1>3. IInv => StillIsTrue
  BY DEF IInv
<1> QED
  BY <1>1, <1>2, <1>3, PTL DEF Spec

\* On a board of any size draw.c implements the picture: no sequence of ticks
\* and buttons draws, loses or moves a dot by itself.
THEOREM ImplementsPicture == Spec => DrawsPicture
<1>1. Init => IInv /\ Picture!Init
  BY Initial
<1>2. IInv /\ [Next]_vars => IInv' /\ [Picture!Next]_(Picture!vars)
  BY Step DEF SameOrStep, Picture!vars
<1> QED
  BY <1>1, <1>2, PTL DEF Spec, DrawsPicture, Picture!Spec

==============================================================================
