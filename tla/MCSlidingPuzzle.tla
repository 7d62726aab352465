--------------------------- MODULE MCSlidingPuzzle ---------------------------
(* Small boards for SlidingPuzzle, with the code's own bound of 50.          *)
EXTENDS SlidingPuzzle

\* No board, one cell, one row, and the smallest real boards.
MCSizes == {<<0, 2>>, <<1, 1>>, <<1, 3>>, <<2, 2>>, <<2, 3>>, <<3, 2>>}
==============================================================================
