------------------------------ MODULE Counter -------------------------------
(***************************************************************************)
(* The counter of hw1 (counter.c): one number, kept also as four digits in *)
(* each of its bases.  Button 1 goes to the next base, buttons 2, 3 and 4  *)
(* increase a digit.                                                       *)
(***************************************************************************)
EXTENDS Integers, Sequences, Panel

CONSTANTS
    Bases,       \* base, <<10, 8, 4, 2>>
    Limit        \* 1000

\* What Modes assumes of them.
CounterAssumption ==
    /\ Bases \in Seq(2 .. 10) /\ Len(Bases) \in 1 .. 8      \* one LED each
    /\ Limit \in Nat \ {0}
    /\ \A i \in 1 .. Len(Bases) : Bases[i] * Bases[i] <= Limit   \* the greatest unit

VARIABLES
    numeric,     \* numeric, -1 before the first call
    nums_char,   \* nums_char
    num,         \* num
    led,         \* led
    board        \* what the jobs of main have made the devices show

NumBases == Len(Bases)

Init ==
    /\ numeric = None /\ num = 0 /\ led = {6}
    /\ nums_char = [i \in 1 .. NumBases |-> <<>>]

Enter ==
    /\ numeric' = IF numeric = None THEN 0 ELSE numeric
    /\ nums_char' = IF numeric = None THEN [i \in 1 .. NumBases |-> <<0, 0, 0, 0>>] ELSE nums_char
    /\ board' = [Blank EXCEPT !.led = led, !.fnd = nums_char'[numeric' + 1]]
    /\ UNCHANGED <<num, led>>

Running == numeric # None

\* Button 1.
NextBase ==
    /\ Running
    /\ numeric' = (numeric + 1) % NumBases
    /\ led' = {7 - ((numeric' + 1) % NumBases)}
    /\ board' = [board EXCEPT !.led = led', !.fnd = nums_char[numeric' + 1]]
    /\ UNCHANGED <<nums_char, num>>

\* digit_increase: a unit of the digit in the present base; mutant: of the
\* digit left of it.
UnitOneMore(digit) ==
    LET base == Bases[numeric + 1]
    IN  IF digit = 1 THEN base ELSE IF digit = 2 THEN base * base ELSE base * base * base
Unit(digit) ==
    LET base == Bases[numeric + 1]
    IN  IF digit = 1 THEN 1 ELSE IF digit = 2 THEN base ELSE base * base

\* Buttons 2 to 4 increase digits 3 to 1.
Increase(button) ==
    /\ Running
    /\ num' = (num + Unit(5 - button)) % Limit
    /\ nums_char' = [i \in 1 .. NumBases |-> FourDigits(num', Bases[i])]
    /\ board' = [board EXCEPT !.led = led, !.fnd = nums_char'[numeric + 1]]
    /\ UNCHANGED <<numeric, led>>

Press(button) == (button = 1 /\ NextBase) \/ (button \in 2 .. 4 /\ Increase(button))
==============================================================================
