---------------------------- MODULE SlidingPuzzle ----------------------------
(***************************************************************************)
(* The board of the hw4 puzzle: Puzzle.java (isMatched, canMove,           *)
(* findIndex) and the two click listeners and shuffle() of                 *)
(* MainActivity2.java.  Everything here runs on the UI thread, one         *)
(* listener at a time; the steps of the shuffle loop are steps of their    *)
(* own so that its length can be spoken about.                             *)
(***************************************************************************)
EXTENDS Integers, Sequences, FiniteSets

CONSTANTS
    Sizes,     \* the <<rows, columns>> a player may type in the text field
    MinMoves   \* 50: the loop of shuffle() goes on while cnt <= MinMoves

ASSUME SizesAssumption == Sizes \subseteq (Nat \X Nat)
ASSUME MinMovesAssumption == MinMoves \in Nat /\ MinMoves % 2 = 0

VARIABLES
    row, col,  \* dimensions of the array puzzle[row][col]
    puzzle,    \* the array, a function on the cells <<i, j>>; 0 is the blank
    cur,       \* <<cur_row, cur_col>> of shuffle()
    cnt,       \* cnt of shuffle(), kept until the next shuffle
    pc,        \* idle | shuffle | play | crashed (uncaught Java exception)
    writes     \* the values the last click passed to writeDriver

vars == <<row, col, puzzle, cur, cnt, pc, writes>>

Cells(r, c) == (0 .. r - 1) \X (0 .. c - 1)
Board == Cells(row, col)
Last == <<row - 1, col - 1>>

\* The array as the Make listener fills it: 1, 2, 3, ... with the blank last.
Ordered(r, c) ==
    [x \in Cells(r, c) |-> IF x = <<r - 1, c - 1>> THEN 0 ELSE x[1] * c + x[2] + 1]

(***************************************************************************)
(* Puzzle.java                                                             *)
(***************************************************************************)

\* `cur` of isMatched when it looks at cell x: the value of the cell before
\* x in row-major order, 0 at the first cell.
Before(p, x) ==
    IF x[2] > 0 THEN p[<<x[1], x[2] - 1>>]
    ELSE IF x[1] > 0 THEN p[<<x[1] - 1, col - 1>>] ELSE 0

\* Mutant: forgets that only the last cell may hold the blank.
BlankAnywhere(p) == \A x \in Board : p[x] = Before(p, x) + 1 \/ p[x] = 0

IsMatched(p) ==
    \A x \in Board : p[x] = Before(p, x) + 1 \/ (x = Last /\ p[x] = 0)

Directions == {<<-1, 0>>, <<1, 0>>, <<0, -1>>, <<0, 1>>}

\* Mutant: no bound on the column, a tile wraps round to the next row.
Wrapping(x) ==
    {y \in Board : \/ \E d \in Directions : y = <<x[1] + d[1], x[2] + d[2]>>
                   \/ x[2] = col - 1 /\ y = <<x[1] + 1, 0>>}

\* The cells beside x that lie on the board: canMove and shuffle() each test
\* the four bounds before they use a neighbour.
Neighbours(x) ==
    {y \in Board : \E d \in Directions : y = <<x[1] + d[1], x[2] + d[2]>>}

\* canMove: where the tile of cell x may go, at most one cell.
CanMove(p, x) == {y \in Neighbours(x) : p[y] = 0}

RowMajorBefore(x, y) == x[1] < y[1] \/ (x[1] = y[1] /\ x[2] < y[2])

\* findIndex: the first cell, row by row, that holds v.
FindIndex(p, v) ==
    CHOOSE x \in Board : p[x] = v /\ \A y \in Board : RowMajorBefore(y, x) => p[y] # v

Swap(p, x, y) == [p EXCEPT ![x] = p[y], ![y] = p[x]]

(***************************************************************************)
(* MainActivity2.java                                                      *)
(***************************************************************************)

Init ==
    /\ row = 0 /\ col = 0
    /\ puzzle = Ordered(0, 0)
    /\ cur = <<0, 0>>
    /\ cnt = 0
    /\ pc = "idle"
    /\ writes = <<>>

\* Mutant: shuffle() starts one cell outside the array.
MakeOutside(r, c) ==
    /\ pc \in {"idle", "play"}
    /\ row' = r /\ col' = c
    /\ puzzle' = Ordered(r, c)
    /\ cur' = <<r - 1, c>>
    /\ cnt' = 0
    /\ pc' = IF r = 0 \/ c = 0 THEN "crashed" ELSE "shuffle"
    /\ writes' = <<>>

\* The Make button: a new array, filled and handed to shuffle().  With no row
\* or no column, puzzle[row-1][col-1] is out of bounds.
Make(r, c) ==
    /\ pc \in {"idle", "play"}
    /\ row' = r /\ col' = c
    /\ puzzle' = Ordered(r, c)
    /\ cur' = <<r - 1, c - 1>>
    /\ cnt' = 0
    /\ pc' = IF r = 0 \/ c = 0 THEN "crashed" ELSE "shuffle"
    /\ writes' = <<>>

\* The Make button with two words that are not two numbers, or with a negative
\* one: parseInt or the allocation of the array throws.
MakeFails ==
    /\ pc \in {"idle", "play"} /\ pc' = "crashed"
    /\ writes' = <<>>
    /\ UNCHANGED <<row, col, puzzle, cur, cnt>>

\* Mutant: `<` for `<=`, so that the count ends on an even number of slides.
ShufflingOneLess == IsMatched(puzzle) \/ cnt < MinMoves

\* The condition of the loop of shuffle().
Shuffling == IsMatched(puzzle) \/ cnt <= MinMoves

\* Mutant: the slides are not counted.
ShuffleForgetsCnt ==
    /\ pc = "shuffle" /\ Shuffling
    /\ \E next \in Neighbours(cur) :
          /\ puzzle' = Swap(puzzle, cur, next)
          /\ cur' = next
    /\ UNCHANGED <<row, col, cnt, pc, writes>>

ShuffleStep ==
    /\ pc = "shuffle" /\ Shuffling
    /\ \E next \in Neighbours(cur) :
          /\ puzzle' = Swap(puzzle, cur, next)
          /\ cur' = next
    /\ cnt' = cnt + 1
    /\ UNCHANGED <<row, col, pc, writes>>

\* On a board of one cell the list of directions is empty: nextInt(0) throws.
ShuffleStuck ==
    /\ pc = "shuffle" /\ Shuffling
    /\ Neighbours(cur) = {}
    /\ pc' = "crashed"
    /\ UNCHANGED <<row, col, puzzle, cur, cnt, writes>>

ShuffleDone ==
    /\ pc = "shuffle" /\ ~Shuffling
    /\ pc' = "play"
    /\ UNCHANGED <<row, col, puzzle, cur, cnt, writes>>

\* btn_change.onClick for the button of cell x: the blank's button does
\* nothing, a tile beside the blank slides and is reported to the driver, and
\* a solved board is reported as well.
Click(x) ==
    /\ pc = "play"
    /\ LET from == FindIndex(puzzle, puzzle[x])
           to   == CanMove(puzzle, from)
       IN IF puzzle[x] # 0 /\ to # {}
          THEN /\ \E y \in to : puzzle' = Swap(puzzle, from, y)
               /\ writes' = IF IsMatched(puzzle') THEN <<0, 1>> ELSE <<0>>
          ELSE writes' = <<>> /\ UNCHANGED puzzle
    /\ UNCHANGED <<row, col, cur, cnt, pc>>

Next ==
    \/ \E s \in Sizes : Make(s[1], s[2])
    \/ MakeFails
    \/ ShuffleStep \/ ShuffleStuck \/ ShuffleDone
    \/ \E x \in Board : Click(x)

\* The loop of shuffle() runs on the UI thread until it ends; nobody has to
\* click.
Fairness == WF_vars(ShuffleStep) /\ WF_vars(ShuffleStuck) /\ WF_vars(ShuffleDone)

Spec == Init /\ [][Next]_vars /\ Fairness

------------------------------------------------------------------------------
(***************************************************************************)
(* Properties                                                              *)
(***************************************************************************)

\* Every variable has its type; cur is a cell of the board while shuffle() runs.
TypeOK ==
    /\ row \in Nat /\ col \in Nat
    /\ puzzle \in [Board -> Nat]
    /\ cnt \in Nat
    /\ pc \in {"idle", "shuffle", "play", "crashed"}
    /\ pc \in {"shuffle", "play"} => row > 0 /\ col > 0 /\ cur \in Board
    /\ writes \in {<<>>, <<0>>, <<0, 1>>}

\* No sequence of slides, of the shuffle or of the player, loses or doubles a
\* tile: each of 0 .. row*col-1 is on the board exactly once (the swaps of
\* shuffle() and btn_change, and findIndex finding the tile that was clicked).
TilesKept ==
    pc \in {"shuffle", "play"} =>
        \A v \in 0 .. row * col - 1 : Cardinality({x \in Board : puzzle[x] = v}) = 1

\* Pairs of cells out of order, the blank counted as the greatest tile.
Rank(x) == IF puzzle[x] = 0 THEN row * col ELSE puzzle[x]
Inversions ==
    Cardinality({q \in Board \X Board : RowMajorBefore(q[1], q[2]) /\ Rank(q[1]) > Rank(q[2])})
BlankAt == CHOOSE x \in Board : puzzle[x] = 0

\* The player is never dealt, and never reaches, a board that cannot be
\* solved: the parity of the permutation agrees with the blank's distance from
\* its place, which every real slide preserves and a stray swap does not.
Solvable ==
    pc \in {"shuffle", "play"} =>
        (Inversions + (row - 1 - BlankAt[1]) + (col - 1 - BlankAt[2])) % 2 = 0

\* The loop condition `isMatched || cnt <= 50` looks unbounded, but with an even
\* bound it stops after exactly MinMoves + 1 slides: an odd number of slides
\* cannot bring the blank home, so isMatched never prolongs it.
ShuffleExact ==
    /\ pc = "shuffle" => cnt <= MinMoves + 1
    /\ pc = "play" => cnt = MinMoves + 1

\* isMatched, which only compares each cell with the one before it, is true of
\* the ordered board alone: the driver is told of a win exactly when the
\* slide just made puts every tile in its place.
WinExact ==
    writes # <<>> => (writes = <<0, 1>> <=> puzzle = Ordered(row, col))

\* Once a board is made it only ever changes by sliding one tile into the
\* blank beside it.
OneSlide(p, q) ==
    \E x, y \in Board :
        /\ p[y] = 0
        /\ (x[1] - y[1]) * (x[1] - y[1]) + (x[2] - y[2]) * (x[2] - y[2]) = 1
        /\ q = [p EXCEPT ![y] = p[x], ![x] = 0]

\* See OneSlide: a step that is not a Make changes the board by one slide.
OnlySlides ==
    [][cnt' # 0 /\ puzzle' # puzzle => OneSlide(puzzle, puzzle')]_vars

\* Whatever the random choices, the shuffle of a board with more than one cell
\* ends, and it ends with a board to play, never with an exception.
ShuffleEnds == (pc = "shuffle" /\ Board # {<<0, 0>>}) ~> (pc = "play")
==============================================================================
