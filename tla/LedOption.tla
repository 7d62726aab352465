------------------------------ MODULE LedOption ------------------------------
(***************************************************************************)
(* How an option travels in hw2: test_device.c checks its range, the       *)
(* system call packs it into an int (get_input.c), the driver takes the    *)
(* int apart again (device_write).  The option 0700 means pattern 7,       *)
(* beginning at the second position.                                       *)
(***************************************************************************)
EXTENDS Integers

\* test_device goes on with these arguments.  (The time gap is checked like
\* the times; it only delays the timer and is left out.)
MaxOption == 8000
Accepts(option, times) == times \in 0 .. 100 /\ option > 0 /\ option <= MaxOption

\* Bitwise or of a position, two bits, with the high byte of a pattern.
Bit1(n) == (n \div 2) % 2
OrPos(p, n) ==
    (n \div 4) * 4
    + (IF Bit1(p) = 1 \/ Bit1(n) = 1 THEN 2 ELSE 0)
    + (IF p % 2 = 1 \/ n % 2 = 1 THEN 1 ELSE 0)

\* sys_get_input: the last digit that is not zero decides the position, and the
\* digits up to it are the pattern.  The gap and the times fill the low bytes.
StartPos(option) ==
    IF option % 10 # 0 THEN 3
    ELSE IF option % 100 # 0 THEN 2
    ELSE IF option % 1000 # 0 THEN 1
    ELSE 0
Digits(option) ==
    IF option % 10 # 0 THEN option
    ELSE IF option % 100 # 0 THEN option \div 10
    ELSE IF option % 1000 # 0 THEN option \div 100
    ELSE option \div 1000

\* device_write reads the two high bytes: the pattern has run into the position.
Position(option) == OrPos(StartPos(option), Digits(option) \div 256)
Pattern(option) == Digits(option) % 256

\* What the option is meant to be: one digit, 1 to 8, in one of four places.
Meaning(option, p, d) ==
    /\ p \in 0 .. 3 /\ d \in 1 .. 8
    /\ option = d * (IF p = 0 THEN 1000 ELSE IF p = 1 THEN 100 ELSE IF p = 2 THEN 10 ELSE 1)
==============================================================================
