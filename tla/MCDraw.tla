------------------------------- MODULE MCDraw --------------------------------
(* A board of three rows and three columns: a middle dot and every edge.     *)
EXTENDS Draw
==============================================================================
