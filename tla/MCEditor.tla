------------------------------ MODULE MCEditor -------------------------------
(* A line of three characters, three buttons and one key.                    *)
EXTENDS Editor

MCButtons == 1 .. 3
MCOtherKeys == {102}
==============================================================================
