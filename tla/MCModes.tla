------------------------------ MODULE MCModes -------------------------------
(* A day of three minutes of two hours, two bases, two answers and ints of   *)
(* three bits; button 1 to 4 and the home key, and the chords of the game.   *)
EXTENDS Modes

MCBases == <<3, 2>>
MCSingles == {1, 2, 3, 4, 102}
MCChords == {<<2, 3>>, <<5, 6>>, <<8, 9>>}
==============================================================================
