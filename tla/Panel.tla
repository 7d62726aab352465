------------------------------- MODULE Panel --------------------------------
(***************************************************************************)
(* What the devices of the hw1 board show: the FND four digits, the LED a  *)
(* set of lit bits, the dot matrix a digit, the LCD a text with a number   *)
(* behind it.  A job changes the parts it names; one that begins with      *)
(* "init 0" starts from Blank.                                             *)
(***************************************************************************)
EXTENDS Integers

None == -1

Text(words, number) == [words |-> words, number |-> number]

\* init_device.
Blank == [fnd |-> <<0, 0, 0, 0>>, led |-> {}, dot |-> None, lcd |-> Text("", None)]

\* The low four digits of n in a base.
FourDigits(n, base) ==
    <<(n \div (base * base * base)) % base, (n \div (base * base)) % base,
      (n \div base) % base, n % base>>

\* answer << 4: the LEDs of the low half stay dark.
Shift4(n) ==
    {bit \in 4 .. 7 :
        (n \div (IF bit = 4 THEN 1 ELSE IF bit = 5 THEN 2 ELSE IF bit = 6 THEN 4 ELSE 8)) % 2 = 1}

\* Numbers of HalfRange * 2 values: 32 bits in the program.
Wrap(n, HalfRange) == ((n + HalfRange) % (2 * HalfRange)) - HalfRange

\* Division as C does it, towards zero.
Quotient(n, d) == IF n >= 0 THEN n \div d ELSE -((-n) \div d)
==============================================================================
