----------------------------- MODULE MCLedDriver -----------------------------
(* Two processes; a legal option, one that runs into the byte of the         *)
(* position and one that is refused.                                         *)
EXTENDS LedDriver

CONSTANTS a1, a2
MCApps == {a1, a2}
MCOptions == {20, 1234, 9000}
MCTimes == {5}
==============================================================================
