----------------------------- MODULE MCStopwatch -----------------------------
(* Two processes and a display that wraps after three seconds.               *)
EXTENDS Stopwatch

CONSTANTS a1, a2
MCApps == {a1, a2}
==============================================================================
