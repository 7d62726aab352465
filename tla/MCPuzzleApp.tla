---------------------------- MODULE MCPuzzleApp ------------------------------
(* Constants small enough for TLC are given in the configuration.            *)
EXTENDS PuzzleApp
==============================================================================
