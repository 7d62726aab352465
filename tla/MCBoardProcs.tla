---------------------------- MODULE MCBoardProcs ----------------------------
(* Constants small enough for TLC are given in the configuration.            *)
EXTENDS BoardProcs
==============================================================================
