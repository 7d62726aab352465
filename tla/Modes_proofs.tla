----------------------------- MODULE Modes_proofs ----------------------------
(***************************************************************************)
(* Proofs about the modes of hw1: the types, that the devices always show  *)
(* the state of the present mode, that the clock keeps its time and that   *)
(* the game is fair, for any sizes, buttons and chords.                    *)
(***************************************************************************)
EXTENDS Modes, TLAPS

------------------------------------------------------------------------------
(***************************************************************************)
(* Arithmetic and the panel                                                *)
(***************************************************************************)

LEMMA Constants ==
    /\ Day \in Nat \ {0} /\ Hour \in Nat \ {0} /\ Minute \in Nat \ {0}
    /\ Bases \in Seq(2 .. 10) /\ Cnt!NumBases \in 1 .. 8 /\ Limit \in Nat \ {0}
    /\ Answers \in 1 .. 16 /\ TimeLimit \in Nat \ {0} /\ HalfRange \in Nat \ {0} /\ MaxScore \in Nat
  BY ModesAssumption DEF Clk!ClockAssumption, Cnt!CounterAssumption, Game!GameAssumption, Cnt!NumBases

LEMMA Remainder ==
    ASSUME NEW n \in Int, NEW c \in Nat \ {0}
    PROVE  n % c \in 0 .. c - 1
  OBVIOUS

LEMMA ZeroDigits ==
    ASSUME NEW base \in 2 .. 10
    PROVE  FourDigits(0, base) = <<0, 0, 0, 0>>
<1>1. ASSUME NEW c \in Nat \ {0} PROVE 0 \div c = 0 /\ 0 % c = 0
  OBVIOUS
<1>2. base \in Nat \ {0} /\ base * base \in Nat \ {0} /\ base * base * base \in Nat \ {0}
  OBVIOUS
<1> QED
  BY <1>1, <1>2 DEF FourDigits

\* The modes by their numbers.
LEMMA Numbers ==
    ASSUME mod \in 0 .. ModNum - 1
    PROVE  /\ In("CLOCK") <=> mod = 0
           /\ In("COUNTER") <=> mod = 1
           /\ In("GAME") <=> mod = 4
  BY DEF In, ModeNames, ModNum

LEMMA Turned ==
    ASSUME mod \in 0 .. ModNum - 1
    PROVE  /\ (mod + 1) % ModNum \in 0 .. ModNum - 1 /\ (mod + 1) % ModNum # mod
           /\ (mod + ModNum - 1) % ModNum \in 0 .. ModNum - 1 /\ (mod + ModNum - 1) % ModNum # mod
<1>1. mod = 0 \/ mod = 1 \/ mod = 2 \/ mod = 3 \/ mod = 4
  BY DEF ModNum
<1> QED
  BY <1>1 DEF ModNum

------------------------------------------------------------------------------
(***************************************************************************)
(* The digits of the counter                                               *)
(***************************************************************************)

\* A number is given by its quotient and remainder ...
LEMMA Division ==
    ASSUME NEW n \in Nat, NEW c \in Nat \ {0}
    PROVE  n \div c \in Nat /\ n % c \in 0 .. c - 1 /\ n = c * (n \div c) + (n % c)
  OBVIOUS

\* ... which are unique.
LEMMA DivisionUnique ==
    ASSUME NEW n \in Nat, NEW c \in Nat \ {0}, NEW q \in Int, NEW r \in 0 .. c - 1,
           n = c * q + r
    PROVE  n \div c = q /\ n % c = r
<1> DEFINE a == n \div c
           b == n % c
<1>1. a \in Int /\ b \in 0 .. c - 1 /\ n = c * a + b
  BY Division
<1> HIDE DEF a, b
<1>2. ASSUME NEW k \in Int, NEW m \in Int, k < m
      PROVE  c * k + c <= c * m
  <2>1. c * (m - k) >= c
    BY <1>2
  <2>2. c * (m - k) = c * m - c * k
    OBVIOUS
  <2> QED
    BY <2>1, <2>2
<1>3. c * a \in Int /\ c * q \in Int
  BY <1>1
<1>4. ~(a < q) /\ ~(q < a)
  BY <1>1, <1>2, <1>3
<1>5. a = q
  BY <1>1, <1>4
<1> QED
  BY <1>1, <1>3, <1>5 DEF a, b

\* What is added in multiples of c leaves the remainder alone.
LEMMA MultipleAdded ==
    ASSUME NEW n \in Nat, NEW c \in Nat \ {0}, NEW k \in Nat
    PROVE  (n + c * k) % c = n % c /\ (n + c * k) \div c = (n \div c) + k
<1> DEFINE q == n \div c
           r == n % c
<1>1. q \in Nat /\ r \in 0 .. c - 1 /\ n = c * q + r
  BY Division
<1> HIDE DEF q, r
<1>2. n + c * k \in Nat /\ n + c * k = c * (q + k) + r /\ q + k \in Int
  <2>1. c * (q + k) = c * q + c * k /\ c * q \in Nat /\ c * k \in Nat
    BY <1>1
  <2> QED
    BY <1>1, <2>1
<1> QED
  BY <1>1, <1>2, DivisionUnique DEF q, r

\* A digit more of the number.
LEMMA DigitMore ==
    ASSUME NEW n \in Nat, NEW c \in Nat \ {0}, NEW base \in Nat \ {0}
    PROVE  c * ((n \div c) % base) + (n % c) = n % (c * base)
<1> DEFINE q == n \div c
           r == n % c
           s == q \div base
           t == q % base
<1>1. q \in Nat /\ r \in 0 .. c - 1 /\ n = c * q + r
  BY Division
<1>2. s \in Nat /\ t \in 0 .. base - 1 /\ q = base * s + t
  BY <1>1, Division
<1> HIDE DEF q, r, s, t
<1>3. c * q = (c * base) * s + c * t
  <2>1. c * (base * s + t) = (c * base) * s + c * t
    BY <1>2
  <2> QED
    BY <1>2, <2>1
<1>4. c * t + r \in 0 .. c * base - 1
  <2>1. c * t >= 0 /\ c * t \in Int
    BY <1>2
  <2>2. c * (base - 1 - t) >= 0
    BY <1>2
  <2>3. c * (base - 1 - t) = c * base - c - c * t
    BY <1>2
  <2> QED
    BY <1>1, <2>1, <2>2, <2>3
<1>5. c * base \in Nat \ {0} /\ n = (c * base) * s + (c * t + r)
  <2>1. (c * base) * s \in Int /\ c * t \in Int /\ c * base \in Nat \ {0}
    BY <1>2
  <2> QED
    BY <1>1, <1>3, <2>1
<1>6. s \in Int
  BY <1>2
<1>7. n % (c * base) = c * t + r
  BY <1>4, <1>5, <1>6, DivisionUnique
<1> QED
  BY <1>7 DEF q, r, t

\* The four digits of a number have its value, as far as four digits go.
LEMMA ValueOfDigits ==
    ASSUME NEW n \in Nat, NEW base \in Nat \ {0}
    PROVE  Value(FourDigits(n, base), base) = n % (base * base * base * base)
<1> DEFINE c2 == base * base
           c3 == base * base * base
           d0 == n % base
           d1 == (n \div base) % base
           d2 == (n \div c2) % base
           d3 == (n \div c3) % base
<1>1. c2 \in Nat \ {0} /\ c3 \in Nat \ {0}
  <2>1. c2 \in Nat \ {0}
    OBVIOUS
  <2>2. c3 = c2 * base
    OBVIOUS
  <2> HIDE DEF c2, c3
  <2> QED
    BY <2>1, <2>2
<1>2. base * d1 + d0 = n % c2
  BY DigitMore
<1>3. c2 * d2 + (n % c2) = n % c3
  BY <1>1, DigitMore
<1>4. c3 * d3 + (n % c3) = n % (base * base * base * base)
  BY <1>1, DigitMore
<1>5. d0 \in Nat /\ d1 \in Nat /\ d2 \in Nat /\ d3 \in Nat
  <2>1. n \div base \in Nat /\ n \div c2 \in Nat /\ n \div c3 \in Nat
    BY <1>1, Division
  <2> QED
    BY <2>1, Division
<1>6. FourDigits(n, base) = <<d3, d2, d1, d0>>
  BY DEF FourDigits
<1> HIDE DEF d0, d1, d2, d3
<1>7. Value(<<d3, d2, d1, d0>>, base) = ((d3 * base + d2) * base + d1) * base + d0
  BY DEF Value
<1>8. ((d3 * base + d2) * base + d1) * base + d0 = c3 * d3 + (c2 * d2 + (base * d1 + d0))
  BY <1>5
<1> QED
  BY <1>2, <1>3, <1>4, <1>6, <1>7, <1>8

\* A unit of a digit leaves the digits right of it alone ...
LEMMA RightOfDigit ==
    ASSUME NEW n \in Nat, NEW base \in Nat \ {0}
    PROVE  /\ (n + base) % base = n % base
           /\ (n + base * base) % base = n % base
           /\ ((n + base * base) \div base) % base = (n \div base) % base
<1>1. n + base = n + base * 1 /\ base \in Nat /\ n \div base \in Nat
  BY Division
<1>2. (n + base) % base = n % base
  <2>1. (n + base * 1) % base = n % base
    BY MultipleAdded
  <2> QED
    BY <1>1, <2>1
<1>3. (n + base * base) % base = n % base /\ (n + base * base) \div base = (n \div base) + base
  BY <1>1, MultipleAdded
<1>4. ((n \div base) + base * 1) % base = (n \div base) % base
  BY <1>1, MultipleAdded
<1>5. (n \div base) + base * 1 = (n \div base) + base
  BY <1>1
<1> QED
  BY <1>2, <1>3, <1>4, <1>5

\* ... and is added to the value.
LEMMA RemainderOfSum ==
    ASSUME NEW n \in Nat, NEW u \in Nat, NEW c \in Nat \ {0}
    PROVE  (n + u) % c = ((n % c) + u) % c
<1> DEFINE q == n \div c
           r == n % c
<1>1. q \in Nat /\ r \in Nat /\ n = c * q + r
  BY Division
<1> HIDE DEF q, r
<1>2. n + u = (r + u) + c * q
  <2>1. c * q \in Int
    BY <1>1
  <2> QED
    BY <1>1, <2>1
<1>3. ((r + u) + c * q) % c = (r + u) % c
  <2>1. r + u \in Nat
    BY <1>1
  <2> QED
    BY <1>1, <2>1, MultipleAdded
<1> QED
  BY <1>2, <1>3 DEF r

------------------------------------------------------------------------------
(***************************************************************************)
(* The inductive invariant                                                 *)
(***************************************************************************)

\* The devices have an FND, an LED, a dot matrix and an LCD.
BoardIsPanel ==
    board = [fnd |-> board.fnd, led |-> board.led, dot |-> board.dot, lcd |-> board.lcd]

\* The digits the counter keeps for each base are those of its number.
DigitsKept ==
    /\ numeric = None => num = 0
    /\ numeric # None =>
          nums_char = [i \in 1 .. Cnt!NumBases |-> FourDigits(num, Bases[i])]

\* A mode that is entered has begun.
Begun == (In("COUNTER") => numeric # None) /\ (In("GAME") => score >= 0)

IInv == TypeOK /\ BoardIsPanel /\ DigitsKept /\ Begun /\ DisplayFollowsMode

LEMMA InitInv == Init => IInv
<1> SUFFICES ASSUME Init PROVE IInv
  OBVIOUS
<1>1. TypeOK
  <2>1. mod \in 0 .. ModNum - 1
    BY DEF Init, ModNum
  <2>2. ClockTypes
    <3>1. clk_timer \in 0 .. Minute - 1 /\ cur_time \in 0 .. Day - 1 /\ modified_time \in None .. Day - 1
      BY Constants DEF Init, Clk!Init, Clk!None, None
    <3>2. mod_changing = FALSE /\ clk_led \in {{7}, {5}, {4}}
      BY DEF Init, Clk!Init, Clk!ModeLed
    <3> QED
      BY <3>1, <3>2 DEF ClockTypes
  <2>3. CounterTypes
    BY Constants DEF Init, Cnt!Init, Cnt!None, None, CounterTypes
  <2>4. GameTypes
    <3>1. /\ answer \in 0 .. Answers - 1 /\ game_timer \in 0 .. TimeLimit
          /\ score \in None .. MaxScore /\ input \in -HalfRange .. HalfRange - 1
      BY Constants DEF Init, Game!Init, None
    <3>2. game_start = 0 /\ new_question = FALSE
      BY DEF Init, Game!Init
    <3>3. 0 \in 0 .. 2 /\ 0 # 1
      OBVIOUS
    <3> QED
      BY <3>1, <3>2, <3>3, Zenon DEF GameTypes
  <2> QED
    BY <2>1, <2>2, <2>3, <2>4 DEF TypeOK
<1>2. In("CLOCK") /\ ~In("COUNTER") /\ ~In("GAME")
  BY Numbers DEF Init, ModNum
<1>3. board = [Blank EXCEPT !.led = clk_led, !.fnd = Clk!TimeDigits(cur_time)]
  BY DEF Init, Clk!Init, Clk!Blank, Clk!Text, Clk!None, Blank, Text, None
<1>4. BoardIsPanel
  BY <1>3 DEF BoardIsPanel, Blank
<1>5. DigitsKept /\ Begun
  BY <1>2 DEF Init, Cnt!Init, Cnt!None, None, DigitsKept, Begun
<1>6. DisplayFollowsMode
  BY <1>2, <1>3 DEF Init, Clk!Init, DisplayFollowsMode, ClockShown
<1> QED
  BY <1>1, <1>4, <1>5, <1>6 DEF IInv
------------------------------------------------------------------------------
(***************************************************************************)
(* The steps of a mode                                                     *)
(***************************************************************************)

\* A job on a board that shows an FND and an LED only.
LEMMA Redrawn ==
    ASSUME NEW f, NEW l, NEW b, b = [Blank EXCEPT !.led = l, !.fnd = f], NEW f2, NEW l2
    PROVE  /\ b.fnd = f /\ b.led = l
           /\ [b EXCEPT !.led = l2] = [Blank EXCEPT !.led = l2, !.fnd = f]
           /\ [b EXCEPT !.fnd = f2] = [Blank EXCEPT !.led = l, !.fnd = f2]
           /\ [b EXCEPT !.led = l2, !.fnd = f2] = [Blank EXCEPT !.led = l2, !.fnd = f2]
           /\ b = [fnd |-> b.fnd, led |-> b.led, dot |-> b.dot, lcd |-> b.lcd]
  BY DEF Blank

LEMMA Shows ==
    ASSUME NEW f, NEW l, NEW b, b = [Blank EXCEPT !.led = l, !.fnd = f]
    PROVE  b.fnd = f
  BY DEF Blank

LEMMA ClockStep ==
    ASSUME IInv, In("CLOCK"), UNCHANGED <<mod, counter, game>>,
           Clk!Tick \/ \E button \in Singles : Clk!Press(button)
    PROVE  IInv'
<1>1. TypeOK /\ ClockTypes /\ ClockShown /\ mod = 0 /\ mod' = 0
  BY Numbers DEF IInv, TypeOK, DisplayFollowsMode
<1>2. ClockTypes'
  <2>1. CASE Clk!Blink
    <3>1. clk_led' \in {{7}, {5}, {4}}
      <4>1. CASE clk_led = {7}
        BY <2>1, <4>1 DEF Clk!Blink, Clk!ModeLed
      <4>2. CASE clk_led = {5}
        BY <2>1, <4>2 DEF Clk!Blink, Clk!ModeLed
      <4>3. CASE clk_led = {4}
        BY <2>1, <4>3 DEF Clk!Blink, Clk!ModeLed
      <4> QED
        BY <1>1, <4>1, <4>2, <4>3 DEF ClockTypes
    <3> QED
      BY <1>1, <2>1, <3>1 DEF Clk!Blink, ClockTypes
  <2>2. CASE Clk!Second
    BY <1>1, <2>2, Constants DEF Clk!Second, ClockTypes
  <2>3. CASE Clk!NewMinute
    <3>1. cur_time' \in 0 .. Day - 1
      <4>1. cur_time + 1 \in Int /\ Day \in Nat \ {0}
        BY <1>1, Constants DEF ClockTypes
      <4>2. (cur_time + 1) % Day \in 0 .. Day - 1
        BY <4>1, Remainder
      <4> QED
        BY <2>3, <4>2 DEF Clk!NewMinute
    <3> QED
      BY <1>1, <2>3, <3>1, Constants DEF Clk!NewMinute, ClockTypes
  <2>4. CASE Clk!BeginEdit
    <3>1. modified_time' \in None .. Day - 1 /\ modified_time' # None
      BY <1>1, <2>4, Constants DEF Clk!BeginEdit, ClockTypes, None
    <3>2. clk_led' \in {{7}, {5}, {4}} /\ clk_timer' \in 0 .. Minute - 1
      BY <2>4, Constants DEF Clk!BeginEdit, Clk!EditLed
    <3> QED
      BY <1>1, <2>4, <3>1, <3>2 DEF Clk!BeginEdit, ClockTypes
  <2>5. CASE Clk!EndEdit
    <3>1. cur_time' \in 0 .. Day - 1
      BY <1>1, <2>5, Constants DEF Clk!EndEdit, ClockTypes, None
    <3>2. clk_led' \in {{7}, {5}, {4}} /\ clk_timer' \in 0 .. Minute - 1
      BY <2>5, Constants DEF Clk!EndEdit, Clk!ModeLed
    <3> QED
      BY <1>1, <2>5, <3>1, <3>2 DEF Clk!EndEdit, ClockTypes
  <2>6. ASSUME NEW button \in Singles, Clk!Modify(button) PROVE ClockTypes'
    <3>1. modified_time' \in 0 .. Day - 1
      <4>1. modified_time + Hour \in Int /\ modified_time + 1 \in Int /\ Day \in Nat \ {0}
        BY <1>1, Constants DEF ClockTypes, None
      <4>2. (modified_time + Hour) % Day \in 0 .. Day - 1 /\ (modified_time + 1) % Day \in 0 .. Day - 1
        BY <4>1, Remainder
      <4> QED
        BY <2>6, <4>2 DEF Clk!Modify
    <3>2. modified_time' \in None .. Day - 1 /\ modified_time' # None
      BY <3>1, Constants DEF None
    <3> QED
      BY <1>1, <2>6, <3>2 DEF Clk!Modify, ClockTypes
  <2> QED
    BY <2>1, <2>2, <2>3, <2>4, <2>5, <2>6 DEF Clk!Tick, Clk!Press
<1>3. ClockShown' /\ BoardIsPanel'
  <2> DEFINE now == Clk!TimeDigits(IF mod_changing THEN modified_time ELSE cur_time)
  <2>1. board = [Blank EXCEPT !.led = clk_led, !.fnd = now]
    BY <1>1 DEF ClockShown
  <2>2. board' = [Blank EXCEPT !.led = clk_led',
                               !.fnd = Clk!TimeDigits(IF mod_changing' THEN modified_time' ELSE cur_time')]
    <3>1. CASE Clk!Blink
      BY <2>1, <3>1, Redrawn DEF Clk!Blink
    <3>2. CASE Clk!Second
      BY <2>1, <3>2 DEF Clk!Second
    <3>3. CASE Clk!NewMinute
      BY <2>1, <3>3, Redrawn DEF Clk!NewMinute
    <3>4. CASE Clk!BeginEdit \/ Clk!EndEdit
      BY <2>1, <3>4, Redrawn DEF Clk!BeginEdit, Clk!EndEdit
    <3>5. ASSUME NEW button \in Singles, Clk!Modify(button)
          PROVE  board' = [Blank EXCEPT !.led = clk_led',
                     !.fnd = Clk!TimeDigits(IF mod_changing' THEN modified_time' ELSE cur_time')]
      BY <2>1, <3>5, Redrawn DEF Clk!Modify
    <3> QED
      BY <3>1, <3>2, <3>3, <3>4, <3>5 DEF Clk!Tick, Clk!Press
  <2> QED
    BY <2>2, Redrawn DEF ClockShown, BoardIsPanel, Clk!TimeDigits
<1>4. TypeOK'
  BY <1>1, <1>2 DEF TypeOK, CounterTypes, GameTypes, counter, game
<1>5. In("CLOCK")' /\ ~In("COUNTER")' /\ ~In("GAME")'
  BY <1>1 DEF In, ModeNames
<1>6. DigitsKept'
  BY DEF IInv, DigitsKept, counter
<1> QED
  BY <1>3, <1>4, <1>5, <1>6 DEF IInv, DisplayFollowsMode, Begun
LEMMA CounterStep ==
    ASSUME IInv, In("COUNTER"), UNCHANGED <<mod, clock, game>>,
           \E button \in Singles : Cnt!Press(button)
    PROVE  IInv'
<1>1. /\ TypeOK /\ CounterTypes /\ CounterShown /\ DigitsKept /\ mod = 1 /\ mod' = 1
      /\ numeric \in 0 .. Cnt!NumBases - 1 /\ numeric # None
  BY Numbers DEF IInv, TypeOK, CounterTypes, DisplayFollowsMode, Begun, None
<1> DEFINE kept(n) == [i \in 1 .. Cnt!NumBases |-> FourDigits(n, Bases[i])]
<1>2. /\ board = [Blank EXCEPT !.led = cnt_led, !.fnd = FourDigits(num, Bases[numeric + 1])]
      /\ nums_char = kept(num)
  BY <1>1 DEF CounterShown, DigitsKept
<1>3. numeric' \in 0 .. Cnt!NumBases - 1 /\ num' \in 0 .. Limit - 1 /\ cnt_led' \subseteq 0 .. 7
  <2>1. CASE Cnt!NextBase
    <3>1. numeric + 1 \in Int /\ Cnt!NumBases \in Nat \ {0}
      BY <1>1, Constants
    <3>2. numeric' \in 0 .. Cnt!NumBases - 1
      BY <2>1, <3>1, Remainder DEF Cnt!NextBase
    <3>3. numeric' + 1 \in Int
      BY <3>2, Constants
    <3>4. (numeric' + 1) % Cnt!NumBases \in 0 .. Cnt!NumBases - 1
      BY <3>1, <3>3, Remainder
    <3>5. 7 - ((numeric' + 1) % Cnt!NumBases) \in 0 .. 7
      BY <3>4, Constants
    <3> QED
      BY <1>1, <2>1, <3>2, <3>5 DEF Cnt!NextBase, CounterTypes
  <2>2. ASSUME NEW button \in Singles, button \in 2 .. 4, Cnt!Increase(button)
        PROVE  numeric' \in 0 .. Cnt!NumBases - 1 /\ num' \in 0 .. Limit - 1 /\ cnt_led' \subseteq 0 .. 7
    <3>1. Bases[numeric + 1] \in 2 .. 10
      BY <1>1, Constants DEF Cnt!NumBases
    <3>2. ASSUME NEW b \in 2 .. 10 PROVE b * b \in Int
      OBVIOUS
    <3>3. Cnt!Unit(5 - button) \in Int
      BY <3>1, <3>2 DEF Cnt!Unit
    <3>4. num + Cnt!Unit(5 - button) \in Int /\ Limit \in Nat \ {0}
      BY <1>1, <3>3, Constants DEF CounterTypes
    <3>5. (num + Cnt!Unit(5 - button)) % Limit \in 0 .. Limit - 1
      BY <3>4, Remainder
    <3> QED
      BY <1>1, <2>2, <3>5 DEF Cnt!Increase, CounterTypes
  <2> QED
    BY <2>1, <2>2 DEF Cnt!Press
<1>4. /\ board' = [Blank EXCEPT !.led = cnt_led', !.fnd = FourDigits(num', Bases[numeric' + 1])]
      /\ nums_char' = kept(num')
  <2>1. numeric' + 1 \in 1 .. Cnt!NumBases /\ numeric + 1 \in 1 .. Cnt!NumBases
    <3>1. Cnt!NumBases \in Int
      BY Constants
    <3>2. ASSUME NEW c \in Int, NEW n \in 0 .. c - 1 PROVE n + 1 \in 1 .. c
      OBVIOUS
    <3> QED
      BY <1>1, <1>3, <3>1, <3>2
  <2>2. CASE Cnt!NextBase
    <3>1. nums_char' = kept(num')
      BY <1>2, <2>2 DEF Cnt!NextBase
    <3>2. nums_char[numeric' + 1] = FourDigits(num', Bases[numeric' + 1])
      BY <1>2, <2>1, <2>2 DEF Cnt!NextBase
    <3>3. board' = [board EXCEPT !.led = cnt_led', !.fnd = FourDigits(num', Bases[numeric' + 1])]
      BY <2>2, <3>2 DEF Cnt!NextBase
    <3>4. board' = [Blank EXCEPT !.led = cnt_led', !.fnd = FourDigits(num', Bases[numeric' + 1])]
      BY <1>2, <3>3, Redrawn
    <3> QED
      BY <3>1, <3>4
  <2>3. ASSUME NEW button \in Singles, Cnt!Increase(button)
        PROVE  /\ board' = [Blank EXCEPT !.led = cnt_led', !.fnd = FourDigits(num', Bases[numeric' + 1])]
               /\ nums_char' = kept(num')
    <3>1. nums_char' = kept(num') /\ UNCHANGED <<numeric, cnt_led>>
      BY <2>3 DEF Cnt!Increase, Cnt!FourDigits, FourDigits
    <3>2. nums_char'[numeric + 1] = FourDigits(num', Bases[numeric + 1])
      BY <2>1, <3>1
    <3>3. board' = [board EXCEPT !.led = cnt_led', !.fnd = FourDigits(num', Bases[numeric' + 1])]
      BY <2>3, <3>1, <3>2 DEF Cnt!Increase
    <3>4. board' = [Blank EXCEPT !.led = cnt_led', !.fnd = FourDigits(num', Bases[numeric' + 1])]
      BY <1>2, <3>3, Redrawn
    <3> QED
      BY <3>1, <3>4
  <2> QED
    BY <2>2, <2>3 DEF Cnt!Press
<1>5. CounterTypes' /\ numeric' # None
  <2>1. numeric' \in None .. Cnt!NumBases - 1 /\ numeric' # None
    BY <1>3, Constants DEF None
  <2> QED
    BY <1>3, <2>1 DEF CounterTypes
<1>6. TypeOK'
  BY <1>1, <1>5 DEF TypeOK, ClockTypes, GameTypes, clock, game
<1>7. In("COUNTER")' /\ ~In("CLOCK")' /\ ~In("GAME")'
  BY <1>1 DEF In, ModeNames
<1>8. CounterShown' /\ BoardIsPanel' /\ DigitsKept'
  <2>1. BoardIsPanel'
    BY <1>4, Redrawn DEF BoardIsPanel
  <2> QED
    BY <1>4, <1>5, <2>1 DEF CounterShown, DigitsKept
<1> QED
  BY <1>5, <1>6, <1>7, <1>8 DEF IInv, DisplayFollowsMode, Begun
\* What is typed stays an int.
LEMMA Wraps ==
    ASSUME NEW n \in Int
    PROVE  Game!Wrap(n, HalfRange) \in -HalfRange .. HalfRange - 1
<1>1. n + HalfRange \in Int /\ 2 * HalfRange \in Nat \ {0}
  BY Constants
<1>2. (n + HalfRange) % (2 * HalfRange) \in 0 .. 2 * HalfRange - 1
  BY <1>1, Remainder
<1> QED
  BY <1>2, Constants DEF Game!Wrap

LEMMA Deletes ==
    ASSUME NEW n \in -HalfRange .. HalfRange - 1
    PROVE  Game!Quotient(n, 10) \in -HalfRange .. HalfRange - 1
<1>1. ASSUME NEW m \in Nat PROVE m \div 10 \in 0 .. m
  OBVIOUS
<1>2. CASE n >= 0
  <2>1. n \div 10 \in 0 .. n
    BY <1>1, <1>2, Constants
  <2> QED
    BY <1>2, <2>1, Constants DEF Game!Quotient
<1>3. CASE n < 0
  <2>1. -n \in Nat
    BY <1>3, Constants
  <2>2. (-n) \div 10 \in 0 .. -n
    BY <1>1, <2>1
  <2> QED
    BY <1>3, <2>2, Constants DEF Game!Quotient
<1> QED
  BY <1>2, <1>3, Constants

\* The game's panel is the panel.
LEMMA SamePanel ==
    /\ Game!Blank = Blank /\ Game!None = None
    /\ \A words, number : Game!Text(words, number) = Text(words, number)
    /\ \A n, base : Game!FourDigits(n, base) = FourDigits(n, base)
    /\ \A n : Game!Shift4(n) = Shift4(n)
<1>1. Game!Blank = Blank /\ Game!None = None
  BY DEF Game!Blank, Blank, Game!Text, Text, Game!None, None
<1>2. \A words, number : Game!Text(words, number) = Text(words, number)
  BY DEF Game!Text, Text
<1>3. \A n, base : Game!FourDigits(n, base) = FourDigits(n, base)
  BY DEF Game!FourDigits, FourDigits
<1>4. \A n : Game!Shift4(n) = Shift4(n)
  BY DEF Game!Shift4, Shift4
<1> QED
  BY <1>1, <1>2, <1>3, <1>4

\* What may be typed.
Ints == -HalfRange .. HalfRange - 1

LEMMA GameKeepsTypes ==
    ASSUME GameTypes,
           \/ Game!Tick
           \/ \E button \in Singles : Game!Press(button)
           \/ \E chord \in Chords : Game!Chord(chord[1], chord[2])
    PROVE  GameTypes'
<1>1. ASSUME Game!Ask PROVE /\ answer' \in 0 .. Answers - 1 /\ game_timer' \in 0 .. TimeLimit
                            /\ input' \in Ints /\ game_start' \in 0 .. 2 /\ game_timer' > 0
  BY <1>1, Constants DEF Game!Ask, Game!None, Ints
<1>2. CASE Game!NextQuestion
  BY <1>1, <1>2 DEF Game!NextQuestion, GameTypes, Ints
<1>3. CASE Game!StartGame
  <2>1. score' \in None .. MaxScore
    BY <1>3, Constants DEF Game!StartGame, None
  <2> QED
    BY <1>1, <1>3, <2>1 DEF Game!StartGame, GameTypes, Ints
<1>4. CASE Game!GameOver
  <2>1. 0 \in 0 .. TimeLimit /\ 2 \in 0 .. 2 /\ 2 # 1
    BY Constants
  <2> QED
    BY <1>4, <2>1, Zenon DEF Game!GameOver, GameTypes
<1>5. CASE Game!CountDown
  <2>1. game_timer' \in 0 .. TimeLimit /\ game_timer' > 0
    BY <1>5, Constants DEF Game!CountDown, GameTypes
  <2> QED
    BY <1>5, <2>1 DEF Game!CountDown, Game!ShowQuestion, GameTypes
<1>6. ASSUME NEW value \in Ints, Game!Typed(value) PROVE GameTypes'
  BY <1>6 DEF Game!Typed, Game!ShowQuestion, GameTypes, Ints
<1>7. Game!Number \in Ints /\ Ints \subseteq Int
  BY Constants DEF GameTypes, Game!Number, Game!None, Ints
<1>8. ASSUME NEW button \in Singles, Game!TypeDigit(button) PROVE GameTypes'
  <2>1. Game!Number * 10 + button \in Int
    BY <1>7, ModesAssumption
  <2>2. Game!Wrap(Game!Number * 10 + button, HalfRange) \in Ints
    BY <2>1, Wraps DEF Ints
  <2> QED
    BY <1>6, <1>8, <2>2 DEF Game!TypeDigit
<1>9. CASE Game!TypeZero
  <2>1. Game!Number * 10 \in Int
    BY <1>7
  <2>2. Game!Wrap(Game!Number * 10, HalfRange) \in Ints
    BY <2>1, Wraps DEF Ints
  <2> QED
    BY <1>6, <1>9, <2>2 DEF Game!TypeZero
<1>10. CASE Game!Delete
  <2>1. Game!Quotient(Game!Number, 10) \in Ints
    BY <1>7, Deletes DEF Ints
  <2> QED
    BY <1>6, <1>10, <2>1 DEF Game!Delete
<1>11. CASE Game!Wrong
  <2>1. input \in Ints
    BY DEF GameTypes, Ints
  <2> QED
    BY <1>6, <1>11, <2>1 DEF Game!Wrong
<1>12. CASE Game!Right
  <2>1. score' \in None .. MaxScore
    BY <1>12, Constants DEF Game!Right, GameTypes, None
  <2> QED
    BY <1>12, <2>1 DEF Game!Right, GameTypes
<1>13. CASE Game!Again
  <2>1. 0 \in 0 .. Answers - 1 /\ 0 \in 0 .. 2 /\ 0 # 1
    BY Constants
  <2> QED
    BY <1>13, <2>1, Zenon DEF Game!Again, GameTypes
<1> QED
  BY <1>2, <1>3, <1>4, <1>5, <1>8, <1>9, <1>10, <1>11, <1>12, <1>13
     DEF Game!Tick, Game!Press, Game!Chord
LEMMA Numerals == 0 # 1 /\ 1 # 0 /\ 0 # 2 /\ 2 # 0 /\ 1 # 2 /\ 2 # 1
  OBVIOUS

\* The parts of a panel, and words on a blank one.
LEMMA Parts ==
    ASSUME NEW f, NEW l, NEW d, NEW t, NEW b, b = [fnd |-> f, led |-> l, dot |-> d, lcd |-> t]
    PROVE  b.fnd = f /\ b.led = l /\ b.dot = d /\ b.lcd = t
  OBVIOUS

LEMMA Words ==
    ASSUME NEW f, NEW t
    PROVE  /\ [Blank EXCEPT !.fnd = f, !.lcd = t] = [fnd |-> f, led |-> {}, dot |-> None, lcd |-> t]
           /\ [Blank EXCEPT !.lcd = t] = [fnd |-> <<0, 0, 0, 0>>, led |-> {}, dot |-> None, lcd |-> t]
<1>1. ASSUME NEW z, NEW e, NEW m, NEW u, NEW b, b = [fnd |-> z, led |-> e, dot |-> m, lcd |-> u]
      PROVE  /\ [b EXCEPT !.fnd = f] = [fnd |-> f, led |-> e, dot |-> m, lcd |-> u]
             /\ [b EXCEPT !.lcd = t] = [fnd |-> z, led |-> e, dot |-> m, lcd |-> t]
  BY <1>1
<1> DEFINE z == <<0, 0, 0, 0>>
           e == {}
           u == Text("", None)
           b == [Blank EXCEPT !.fnd = f]
<1>2. Blank = [fnd |-> z, led |-> e, dot |-> None, lcd |-> u]
  BY Zenon DEF Blank
<1> HIDE DEF z, e, u
<1>3. b = [fnd |-> f, led |-> e, dot |-> None, lcd |-> u]
  BY <1>1, <1>2
<1>4. [Blank EXCEPT !.lcd = t] = [fnd |-> z, led |-> e, dot |-> None, lcd |-> t]
  BY <1>1, <1>2
<1>5. [Blank EXCEPT !.fnd = f, !.lcd = t] = [b EXCEPT !.lcd = t]
  OBVIOUS
<1> HIDE DEF b
<1>6. [b EXCEPT !.lcd = t] = [fnd |-> f, led |-> e, dot |-> None, lcd |-> t]
  BY <1>1, <1>3
<1> QED
  BY <1>4, <1>5, <1>6, Zenon DEF z, e

\* What the four jobs of the game leave on the devices.
LEMMA ShowsQuestion ==
    ASSUME NEW f, game_start' = 1, f = FourDigits(score', 10) \/ Restarted',
           board' = [fnd |-> f, led |-> Shift4(answer'), dot |-> game_timer',
                     lcd |-> Text("Answer: ", input')]
    PROVE  GameShown' /\ BoardIsPanel'
<1>1. /\ board'.fnd = f /\ board'.led = Shift4(answer') /\ board'.dot = game_timer'
      /\ board'.lcd = Text("Answer: ", input')
  BY Parts, Zenon
<1>2. 1 # 0 /\ 1 # 2
  BY Numerals, Zenon
<1> QED
  BY <1>1, <1>2, Zenon DEF GameShown, QuestionShown, BoardIsPanel

LEMMA ShowsWords ==
    ASSUME NEW f, NEW t, board' = [fnd |-> f, led |-> {}, dot |-> None, lcd |-> t]
    PROVE  BoardIsPanel'
<1>1. board'.fnd = f /\ board'.led = {} /\ board'.dot = None /\ board'.lcd = t
  BY Parts, Zenon
<1> QED
  BY <1>1, Zenon DEF BoardIsPanel

LEMMA ShowsOffer ==
    ASSUME game_start' = 0, new_question' = FALSE,
           board' = [Blank EXCEPT !.lcd = Text("Start game?", None)]
    PROVE  GameShown' /\ BoardIsPanel'
<1>1. 0 # 1 /\ 0 # 2
  BY Numerals, Zenon
<1>2. BoardIsPanel'
  BY Words, ShowsWords, Zenon
<1> QED
  BY <1>1, <1>2, Zenon DEF GameShown, OfferShown

LEMMA ShowsScore ==
    ASSUME game_start' = 0, new_question' = TRUE,
           board' = [Blank EXCEPT !.fnd = FourDigits(score', 10), !.lcd = Text("Correct!", None)]
    PROVE  GameShown' /\ BoardIsPanel'
<1>1. 0 # 1 /\ 0 # 2
  BY Numerals, Zenon
<1>2. BoardIsPanel'
  BY Words, ShowsWords, Zenon
<1> QED
  BY <1>1, <1>2, Zenon DEF GameShown, ScoreShown

LEMMA ShowsEnd ==
    ASSUME game_start' = 2,
           board' = [Blank EXCEPT !.lcd = Text("Game over! Press any one key.", None)]
    PROVE  GameShown' /\ BoardIsPanel'
<1>1. 2 # 0 /\ 2 # 1
  BY Numerals, Zenon
<1>2. BoardIsPanel'
  BY Words, ShowsWords, Zenon
<1> QED
  BY <1>1, <1>2, Zenon DEF GameShown

LEMMA GameShows ==
    ASSUME GameTypes, BoardIsPanel, GameShown, score >= 0,
           \/ Game!Tick
           \/ \E button \in Singles : Game!Press(button)
           \/ \E chord \in Chords : Game!Chord(chord[1], chord[2])
    PROVE  GameShown' /\ BoardIsPanel' /\ score' >= 0
<1>1. CASE Game!NextQuestion
  <2>1. board' = [fnd |-> FourDigits(score, 10), led |-> Shift4(answer'), dot |-> game_timer',
                  lcd |-> Text("Answer: ", None)]
    BY <1>1, SamePanel DEF Game!NextQuestion, Game!Asked
  <2>2. game_start' = 1 /\ input' = None /\ score' = score
    BY <1>1, SamePanel DEF Game!NextQuestion, Game!Ask
  <2> QED
    BY <2>1, <2>2, ShowsQuestion
<1>2. CASE Game!StartGame
  <2>1. board' = [fnd |-> board.fnd, led |-> Shift4(answer'), dot |-> game_timer',
                  lcd |-> Text("Answer: ", None)]
    BY <1>2, SamePanel DEF Game!StartGame, Game!Asked
  <2>2. /\ game_start = 0 /\ game_start' = 1 /\ input' = None /\ score' = 0
        /\ game_timer' = TimeLimit /\ new_question' = new_question
    BY <1>2, SamePanel DEF Game!StartGame, Game!Ask
  <2>3. board.fnd = FourDigits(score', 10) \/ Restarted'
    <3>1. ~new_question => board = [Blank EXCEPT !.lcd = Text("Start game?", None)]
      BY <2>2 DEF GameShown, OfferShown
    <3>2. ~new_question => board.fnd = <<0, 0, 0, 0>>
      BY <3>1 DEF Blank
    <3>3. FourDigits(0, 10) = <<0, 0, 0, 0>>
      BY ZeroDigits
    <3>4. new_question => Restarted'
      BY <2>2 DEF Restarted
    <3> QED
      BY <2>2, <3>2, <3>3, <3>4
  <2>4. GameShown' /\ BoardIsPanel'
    BY <2>1, <2>2, <2>3, ShowsQuestion, Zenon
  <2> QED
    BY <2>2, <2>4
<1>3. CASE Game!GameOver
  <2>1. board' = [Blank EXCEPT !.lcd = Text("Game over! Press any one key.", None)]
    BY <1>3, SamePanel DEF Game!GameOver
  <2>2. game_start' = 2 /\ score' = score
    BY <1>3 DEF Game!GameOver
  <2> QED
    BY <2>1, <2>2, ShowsEnd
<1>4. ASSUME Game!ShowQuestion, game_start = 1 PROVE GameShown' /\ BoardIsPanel' /\ score' >= 0
  <2>1. board' = [fnd |-> FourDigits(score, 10), led |-> Shift4(answer'), dot |-> game_timer',
                  lcd |-> Text("Answer: ", input')]
    BY <1>4, SamePanel DEF Game!ShowQuestion, Game!Asked
  <2>2. game_start' = 1 /\ score' = score
    BY <1>4 DEF Game!ShowQuestion
  <2> QED
    BY <2>1, <2>2, ShowsQuestion
<1>5. CASE Game!CountDown
  BY <1>4, <1>5 DEF Game!CountDown
<1>6. ASSUME NEW value, Game!Typed(value) PROVE GameShown' /\ BoardIsPanel' /\ score' >= 0
  BY <1>4, <1>6 DEF Game!Typed
<1>7. CASE Game!Right
  <2>1. board' = [Blank EXCEPT !.fnd = FourDigits(score', 10), !.lcd = Text("Correct!", None)]
    BY <1>7, SamePanel DEF Game!Right
  <2>2. game_start' = 0 /\ new_question' = TRUE /\ score' = score + 1 /\ score \in Int
    BY <1>7, Constants DEF Game!Right, GameTypes, None
  <2> QED
    BY <2>1, <2>2, ShowsScore
<1>8. CASE Game!Again
  <2>1. board' = [Blank EXCEPT !.lcd = Text("Start game?", None)]
    BY <1>8, SamePanel DEF Game!Again
  <2>2. game_start' = 0 /\ new_question' = FALSE /\ score' = score
    BY <1>8 DEF Game!Again
  <2> QED
    BY <2>1, <2>2, ShowsOffer
<1>9. ASSUME NEW button \in Singles, Game!Press(button)
      PROVE  GameShown' /\ BoardIsPanel' /\ score' >= 0
  BY <1>6, <1>8, <1>9 DEF Game!Press, Game!TypeDigit
<1>10. ASSUME NEW chord \in Chords, Game!Chord(chord[1], chord[2])
       PROVE  GameShown' /\ BoardIsPanel' /\ score' >= 0
  BY <1>2, <1>6, <1>7, <1>10 DEF Game!Chord, Game!Wrong, Game!TypeZero, Game!Delete
<1> QED
  BY <1>1, <1>3, <1>5, <1>9, <1>10 DEF Game!Tick

LEMMA GameStep ==
    ASSUME IInv, In("GAME"), UNCHANGED <<mod, clock, counter>>,
           \/ Game!Tick
           \/ \E button \in Singles : Game!Press(button)
           \/ \E chord \in Chords : Game!Chord(chord[1], chord[2])
    PROVE  IInv'
<1>1. TypeOK /\ GameTypes /\ GameShown /\ BoardIsPanel /\ score >= 0 /\ mod = 4 /\ mod' = 4
  BY Numbers DEF IInv, TypeOK, DisplayFollowsMode, Begun
<1>2. GameTypes' /\ GameShown' /\ BoardIsPanel' /\ score' >= 0
  BY <1>1, GameKeepsTypes, GameShows
<1>3. TypeOK'
  BY <1>1, <1>2 DEF TypeOK, ClockTypes, CounterTypes, clock, counter
<1>4. In("GAME")' /\ ~In("CLOCK")' /\ ~In("COUNTER")'
  BY <1>1 DEF In, ModeNames
<1>5. DigitsKept'
  BY DEF IInv, DigitsKept, counter
<1> QED
  BY <1>2, <1>3, <1>4, <1>5 DEF IInv, DisplayFollowsMode, Begun

\* A change of mode, from any state of any mode.
LEMMA Changed ==
    ASSUME IInv, mod' \in 0 .. ModNum - 1, Enter(ModeNames[mod' + 1])
    PROVE  IInv'
<1>1. TypeOK /\ ClockTypes /\ CounterTypes /\ GameTypes /\ DigitsKept
  BY DEF IInv, TypeOK
<1>2. CASE mod' = 0
  <2>1. Clk!Enter /\ UNCHANGED <<counter, game>>
    BY <1>2 DEF Enter, ModeNames
  <2>2. In("CLOCK")' /\ ~In("COUNTER")' /\ ~In("GAME")'
    BY <1>2 DEF In, ModeNames
  <2>3. ClockTypes'
    BY <1>1, <2>1 DEF Clk!Enter, Clk!ModeLed, ClockTypes
  <2>4. board' = [Blank EXCEPT !.led = clk_led', !.fnd = Clk!TimeDigits(cur_time)]
    BY <2>1 DEF Clk!Enter, Clk!Blank, Blank, Clk!Text, Text, Clk!None, None
  <2>5. mod_changing' = FALSE /\ cur_time' = cur_time
    BY <2>1 DEF Clk!Enter
  <2>6. ClockShown' /\ BoardIsPanel'
    BY <2>4, <2>5, Redrawn DEF ClockShown, BoardIsPanel, Clk!TimeDigits
  <2>7. TypeOK' /\ DigitsKept'
    BY <1>1, <2>1, <2>3 DEF TypeOK, CounterTypes, GameTypes, DigitsKept, counter, game
  <2> QED
    BY <2>2, <2>6, <2>7 DEF IInv, DisplayFollowsMode, Begun
<1>3. CASE mod' = 1
  <2>1. Cnt!Enter /\ UNCHANGED <<clock, game>>
    BY <1>3 DEF Enter, ModeNames
  <2>2. In("COUNTER")' /\ ~In("CLOCK")' /\ ~In("GAME")'
    BY <1>3 DEF In, ModeNames
  <2>3. numeric' \in 0 .. Cnt!NumBases - 1 /\ UNCHANGED <<num, cnt_led>>
    BY <1>1, <2>1, Constants DEF Cnt!Enter, CounterTypes, Cnt!None, None
  <2>4. numeric' \in None .. Cnt!NumBases - 1 /\ numeric' # None
    BY <2>3, Constants DEF None
  <2>5. nums_char' = [i \in 1 .. Cnt!NumBases |-> FourDigits(num, Bases[i])]
    <3>1. CASE numeric = None
      <4>1. \A i \in 1 .. Cnt!NumBases : FourDigits(num, Bases[i]) = <<0, 0, 0, 0>>
        <5>1. \A i \in 1 .. Cnt!NumBases : Bases[i] \in 2 .. 10
          BY Constants DEF Cnt!NumBases
        <5>2. num = 0
          BY <1>1, <3>1 DEF DigitsKept
        <5> QED
          BY <5>1, <5>2, ZeroDigits
      <4>2. nums_char' = [i \in 1 .. Cnt!NumBases |-> <<0, 0, 0, 0>>]
        BY <2>1, <3>1 DEF Cnt!Enter, Cnt!None, None
      <4> QED
        BY <4>1, <4>2
    <3>2. CASE numeric # None
      BY <1>1, <2>1, <3>2 DEF Cnt!Enter, Cnt!None, None, DigitsKept
    <3> QED
      BY <3>1, <3>2
  <2>6. numeric' + 1 \in 1 .. Cnt!NumBases
    <3>1. Cnt!NumBases \in Int
      BY Constants
    <3>2. ASSUME NEW c \in Int, NEW n \in 0 .. c - 1 PROVE n + 1 \in 1 .. c
      OBVIOUS
    <3> QED
      BY <2>3, <3>1, <3>2
  <2>7. board' = [Blank EXCEPT !.led = cnt_led, !.fnd = nums_char'[numeric' + 1]]
    BY <2>1 DEF Cnt!Enter, Cnt!Blank, Blank, Cnt!Text, Text, Cnt!None, None
  <2>8. nums_char'[numeric' + 1] = FourDigits(num, Bases[numeric' + 1])
    BY <2>5, <2>6
  <2>9. CounterShown' /\ BoardIsPanel'
    BY <2>3, <2>7, <2>8, Redrawn DEF CounterShown, BoardIsPanel, FourDigits
  <2>10. DigitsKept'
    BY <2>3, <2>4, <2>5 DEF DigitsKept, FourDigits
  <2>11. TypeOK'
    BY <1>1, <2>1, <2>3, <2>4 DEF TypeOK, ClockTypes, CounterTypes, GameTypes, clock, game
  <2> QED
    BY <2>2, <2>4, <2>9, <2>10, <2>11 DEF IInv, DisplayFollowsMode, Begun
<1>4. CASE mod' = 4
  <2>1. Game!Enter /\ UNCHANGED <<clock, counter>>
    BY <1>4 DEF Enter, ModeNames
  <2>2. In("GAME")' /\ ~In("CLOCK")' /\ ~In("COUNTER")'
    BY <1>4 DEF In, ModeNames
  <2>3. /\ score' = 0 /\ game_timer' = 0 /\ answer' = 0 /\ new_question' = FALSE /\ game_start' = 0
        /\ input' = input
    BY <2>1 DEF Game!Enter
  <2>4. GameTypes'
    <3>1. /\ 0 \in None .. MaxScore /\ 0 \in 0 .. TimeLimit /\ 0 \in 0 .. Answers - 1 /\ 0 \in 0 .. 2
          /\ 0 # 1
      BY Constants DEF None
    <3> QED
      BY <1>1, <2>3, <3>1, Zenon DEF GameTypes
  <2>5. board' = [Blank EXCEPT !.lcd = Text("Start game?", None)]
    BY <2>1, SamePanel DEF Game!Enter
  <2>6. GameShown' /\ BoardIsPanel'
    BY <2>3, <2>5, ShowsOffer
  <2>7. TypeOK' /\ DigitsKept'
    BY <1>1, <2>1, <2>4 DEF TypeOK, ClockTypes, CounterTypes, DigitsKept, clock, counter
  <2> QED
    BY <2>2, <2>3, <2>6, <2>7 DEF IInv, DisplayFollowsMode, Begun
<1>5. CASE mod' = 2 \/ mod' = 3
  <2>1. /\ UNCHANGED <<clock, counter, game>>
        /\ \E name : board' = [Blank EXCEPT !.lcd = Text(name, None)]
    BY <1>5 DEF Enter, ModeNames
  <2>2. ~In("CLOCK")' /\ ~In("COUNTER")' /\ ~In("GAME")'
    <3>1. CASE mod' = 2
      BY <3>1 DEF In, ModeNames
    <3>2. CASE mod' = 3
      BY <3>2 DEF In, ModeNames
    <3> QED
      BY <1>5, <3>1, <3>2
  <2>3. BoardIsPanel'
    BY <2>1 DEF BoardIsPanel, Blank
  <2>4. TypeOK' /\ DigitsKept'
    BY <1>1, <2>1 DEF TypeOK, ClockTypes, CounterTypes, GameTypes, DigitsKept, clock, counter, game
  <2> QED
    BY <2>2, <2>3, <2>4 DEF IInv, DisplayFollowsMode, Begun
<1> QED
  BY <1>2, <1>3, <1>4, <1>5 DEF ModNum
------------------------------------------------------------------------------
(***************************************************************************)
(* The theorems                                                            *)
(***************************************************************************)

\* A step turns to another mode, or is one of the present mode.
LEMMA Steps ==
    ASSUME IInv, Next
    PROVE  \/ /\ mod' \in 0 .. ModNum - 1 /\ mod' # mod
              /\ Enter(ModeNames[mod' + 1])
           \/ /\ In("CLOCK") /\ UNCHANGED <<mod, counter, game>>
              /\ Clk!Tick \/ \E button \in Singles : Clk!Press(button)
           \/ /\ In("COUNTER") /\ UNCHANGED <<mod, clock, game>>
              /\ \E button \in Singles : Cnt!Press(button)
           \/ /\ In("GAME") /\ UNCHANGED <<mod, clock, counter>>
              /\ \/ Game!Tick
                 \/ \E button \in Singles : Game!Press(button)
                 \/ \E chord \in Chords : Game!Chord(chord[1], chord[2])
<1>1. CASE VolUp \/ VolDown
  BY <1>1, Turned DEF VolUp, VolDown, IInv, TypeOK
<1>2. CASE Tick
  BY <1>2 DEF Tick
<1>3. ASSUME NEW button \in Singles, Press(button)
      PROVE  \/ In("CLOCK") /\ UNCHANGED <<mod, counter, game>> /\ Clk!Press(button)
             \/ In("COUNTER") /\ UNCHANGED <<mod, clock, game>> /\ Cnt!Press(button)
             \/ In("GAME") /\ UNCHANGED <<mod, clock, counter>> /\ Game!Press(button)
  BY <1>3 DEF Press
<1>4. ASSUME NEW chord \in Chords, Chord(chord[1], chord[2])
      PROVE  In("GAME") /\ UNCHANGED <<mod, clock, counter>> /\ Game!Chord(chord[1], chord[2])
  BY <1>4 DEF Chord
<1> QED
  BY <1>1, <1>2, <1>3, <1>4 DEF Next

LEMMA Inductive == Spec => []IInv
<1>1. ASSUME IInv, [Next]_vars PROVE IInv'
  <2>1. CASE UNCHANGED vars
    BY <1>1, <2>1 DEF vars, clock, counter, game, IInv, TypeOK, ClockTypes, CounterTypes, GameTypes,
                      BoardIsPanel, DigitsKept, Begun, DisplayFollowsMode, In, ClockShown,
                      CounterShown, GameShown, QuestionShown, ScoreShown, OfferShown, Restarted
  <2>2. CASE Next
    BY <1>1, <2>2, Steps, Changed, ClockStep, CounterStep, GameStep
  <2> QED
    BY <1>1, <2>1, <2>2
<1> QED
  BY <1>1, InitInv, PTL DEF Spec

\* Every variable of the modes keeps its type: whatever is typed stays an int,
\* and an edit of the time stays in the day.
THEOREM TypeCorrect == Spec => []TypeOK
<1>1. IInv => TypeOK
  BY DEF IInv
<1> QED
  BY <1>1, Inductive, PTL

\* Whatever was left half done in which mode, the devices show the state of the
\* present one.
THEOREM DisplayFollows == Spec => []DisplayFollowsMode
<1>1. IInv => DisplayFollowsMode
  BY DEF IInv
<1> QED
  BY <1>1, Inductive, PTL

\* The clock's time changes only by a minute or to the time that is shown.
THEOREM ClockIsKept == Spec => ClockKeepsTime
<1> DEFINE Kept ==
      /\ cur_time' # cur_time =>
             /\ In("CLOCK")
             /\ \/ ~mod_changing /\ cur_time' = (cur_time + 1) % Day
                \/ mod_changing /\ Clk!TimeDigits(cur_time') = board.fnd
      /\ In("CLOCK") /\ UNCHANGED mod /\ mod_changing' # mod_changing => board'.fnd = board.fnd
<1>1. ASSUME IInv, Next PROVE Kept
  <2>1. CASE mod' # mod /\ mod' \in 0 .. ModNum - 1 /\ Enter(ModeNames[mod' + 1])
    <3>1. mod' = 0 \/ mod' = 1 \/ mod' = 2 \/ mod' = 3 \/ mod' = 4
      BY <2>1 DEF ModNum
    <3>2. UNCHANGED cur_time
      BY <2>1 DEF Enter, Clk!Enter, clock
    <3> QED
      BY <2>1, <3>2
  <2>2. CASE UNCHANGED clock
    BY <2>2 DEF clock
  <2>3. CASE /\ In("CLOCK") /\ UNCHANGED <<mod, counter, game>>
             /\ Clk!Tick \/ \E button \in Singles : Clk!Press(button)
    <3>1. board = [Blank EXCEPT !.led = clk_led,
                     !.fnd = Clk!TimeDigits(IF mod_changing THEN modified_time ELSE cur_time)]
      BY <1>1, <2>3 DEF IInv, DisplayFollowsMode, ClockShown
    <3>2. board.fnd = Clk!TimeDigits(IF mod_changing THEN modified_time ELSE cur_time)
      BY <3>1, Shows, Zenon
    <3>3. CASE Clk!Blink \/ Clk!Second
      BY <3>3 DEF Clk!Blink, Clk!Second
    <3>4. CASE Clk!NewMinute
      BY <2>3, <3>4 DEF Clk!NewMinute
    <3>5. CASE Clk!BeginEdit
      <4>1. board' = [board EXCEPT !.led = clk_led', !.fnd = Clk!TimeDigits(modified_time')]
        BY <3>5 DEF Clk!BeginEdit
      <4>2. board' = [Blank EXCEPT !.led = clk_led', !.fnd = Clk!TimeDigits(modified_time')]
        BY <3>1, <4>1, Redrawn
      <4>3. board'.fnd = Clk!TimeDigits(modified_time')
        BY <4>2, Shows, Zenon
      <4> QED
        BY <3>2, <3>5, <4>3 DEF Clk!BeginEdit
    <3>6. CASE Clk!EndEdit
      <4>1. board' = [board EXCEPT !.led = clk_led', !.fnd = Clk!TimeDigits(cur_time')]
        BY <3>6 DEF Clk!EndEdit
      <4>2. board' = [Blank EXCEPT !.led = clk_led', !.fnd = Clk!TimeDigits(cur_time')]
        BY <3>1, <4>1, Redrawn
      <4>3. board'.fnd = Clk!TimeDigits(cur_time')
        BY <4>2, Shows, Zenon
      <4> QED
        BY <2>3, <3>2, <3>6, <4>3 DEF Clk!EndEdit
    <3>7. ASSUME NEW button \in Singles, Clk!Modify(button) PROVE Kept
      BY <3>7 DEF Clk!Modify
    <3> QED
      BY <2>3, <3>3, <3>4, <3>5, <3>6, <3>7 DEF Clk!Tick, Clk!Press
  <2> QED
    BY <1>1, <2>1, <2>2, <2>3, Steps
<1>2. IInv /\ [Next]_vars => [Kept]_vars
  BY <1>1
<1> QED
  BY <1>2, Inductive, PTL DEF Spec, ClockKeepsTime

\* A press adds one unit of a digit to the number that is shown and leaves the
\* digits right of it alone, in every base and until the number passes Limit.
THEOREM CounterKeepsAdding == Spec => CounterAdds
<1> DEFINE Adds ==
      In("COUNTER") /\ num' > num =>
          LET base == Bases[numeric + 1]
          IN  \E digit \in 1 .. 3 :
                /\ Value(board'.fnd, base) =
                      (Value(board.fnd, base) + <<1, base, base * base>>[digit])
                          % (base * base * base * base)
                /\ \A i \in 6 - digit .. 4 : board'.fnd[i] = board.fnd[i]
<1>1. ASSUME IInv, Next PROVE Adds
  <2>1. SUFFICES ASSUME In("COUNTER"), num' > num PROVE Adds
    OBVIOUS
  <2>2. /\ CounterTypes /\ CounterShown /\ mod = 1 /\ ~In("CLOCK") /\ ~In("GAME")
        /\ numeric \in 0 .. Cnt!NumBases - 1 /\ num \in Nat /\ num < Limit
    BY <1>1, <2>1, Numbers, Constants DEF IInv, TypeOK, CounterTypes, DisplayFollowsMode, Begun, None
  <2>3. IInv'
    BY <1>1, Steps, Changed, ClockStep, CounterStep, GameStep
  <2>4. ~(UNCHANGED num)
    BY <2>1, <2>2
  <2>5. PICK button \in 2 .. 4 : Cnt!Increase(button) /\ UNCHANGED mod
    BY <1>1, <2>2, <2>4, Steps DEF Cnt!Press, Cnt!NextBase, Enter, Cnt!Enter, counter
  <2> DEFINE base == Bases[numeric + 1]
             digit == 5 - button
             u == <<1, base, base * base>>[digit]
  <2>6. base \in 2 .. 10 /\ base * base <= Limit /\ Limit \in Nat \ {0}
    <3>1. numeric + 1 \in 1 .. Len(Bases) /\ Bases \in Seq(2 .. 10)
      BY <2>2, Constants DEF Cnt!NumBases
    <3> QED
      BY <3>1, ModesAssumption DEF Cnt!CounterAssumption
  <2>7. digit \in 1 .. 3 /\ Cnt!Unit(digit) = u
    BY <2>5 DEF Cnt!Unit
  <2> HIDE DEF base
  <2>8. u \in Nat /\ u <= Limit
    <3>1. base <= base * base /\ base * base \in Nat
      BY <2>6
    <3> QED
      BY <2>6, <2>7, <3>1
  <2> HIDE DEF u
  <2>9. num' = num + u
    <3>1. num' = (num + u) % Limit
      BY <2>5, <2>7 DEF Cnt!Increase
    <3>2. ASSUME num + u >= Limit PROVE FALSE
      <4> DEFINE r == num + u - Limit
      <4>1. r \in 0 .. Limit - 1 /\ num + u = Limit * 1 + r /\ num + u \in Nat
        BY <2>2, <2>6, <2>8, <3>2
      <4> HIDE DEF r
      <4>2. (num + u) % Limit = r
        <5>1. 1 \in Int
          OBVIOUS
        <5> QED
          BY <2>6, <4>1, <5>1, DivisionUnique
      <4> QED
        BY <2>1, <2>2, <2>6, <2>8, <3>1, <4>2 DEF r
    <3>3. num + u \in 0 .. Limit - 1 /\ num + u = Limit * 0 + (num + u)
      BY <2>2, <2>6, <2>8, <3>2
    <3> QED
      BY <2>6, <3>1, <3>3, DivisionUnique
  <2>10. board.fnd = FourDigits(num, base) /\ board'.fnd = FourDigits(num', base)
    <3>1. In("COUNTER")'
      BY <2>1, <2>5 DEF In
    <3>2. CounterShown' /\ numeric' = numeric
      BY <2>3, <2>5, <3>1 DEF IInv, DisplayFollowsMode, Cnt!Increase
    <3>3. board = [Blank EXCEPT !.led = cnt_led, !.fnd = FourDigits(num, base)]
      BY <2>2 DEF CounterShown, base
    <3>4. board' = [Blank EXCEPT !.led = cnt_led', !.fnd = FourDigits(num', base)]
      BY <3>2 DEF CounterShown, base
    <3> QED
      BY <3>3, <3>4, Shows, Zenon
  <2>11. Value(board'.fnd, base) = (Value(board.fnd, base) + u) % (base * base * base * base)
    <3>1. base \in Nat \ {0} /\ base * base * base * base \in Nat \ {0}
      <4>1. ASSUME NEW m \in Nat \ {0}, NEW n \in Nat \ {0} PROVE m * n \in Nat \ {0}
        OBVIOUS
      <4> QED
        BY <2>6, <4>1
    <3>2. num + u \in Nat
      BY <2>2, <2>8
    <3> QED
      BY <2>2, <2>8, <2>9, <2>10, <3>1, <3>2, ValueOfDigits, RemainderOfSum
  <2>12. ASSUME NEW i \in 6 - digit .. 4 PROVE board'.fnd[i] = board.fnd[i]
    <3>1. base \in Nat \ {0}
      BY <2>6
    <3>2. /\ (num + base) % base = num % base /\ (num + base * base) % base = num % base
          /\ ((num + base * base) \div base) % base = (num \div base) % base
      BY <2>2, <3>1, RightOfDigit
    <3>3. CASE digit = 2
      <4>1. i = 4 /\ u = base
        BY <2>12, <3>3 DEF u
      <4> QED
        BY <2>9, <2>10, <3>2, <4>1 DEF FourDigits
    <3>4. CASE digit = 3
      <4>1. (i = 3 \/ i = 4) /\ u = base * base
        BY <2>12, <3>4 DEF u
      <4> QED
        BY <2>9, <2>10, <3>2, <4>1 DEF FourDigits
    <3> QED
      BY <2>7, <2>12, <3>3, <3>4
  <2> QED
    BY <2>7, <2>11, <2>12 DEF u, base
<1>2. IInv /\ [Next]_vars => [Adds]_vars
  BY <1>1
<1> QED
  BY <1>2, Inductive, PTL DEF Spec, CounterAdds

\* A point is given for the number that is asked, and a question after a right
\* answer only.
THEOREM GameKeepsFair == Spec => GameIsFair
<1> DEFINE Fair ==
      In("GAME") /\ UNCHANGED mod =>
          /\ score' > score =>
                game_start = 1 /\ board.led = Shift4(answer) /\ board.lcd = Text("Answer: ", answer)
          /\ new_question /\ ~new_question' /\ game_start' = 1 =>
                board.lcd.words = "Correct!" /\ UNCHANGED score
<1>1. ASSUME IInv, Next PROVE Fair
  <2>1. SUFFICES ASSUME In("GAME"), UNCHANGED mod PROVE Fair
    OBVIOUS
  <2>2. /\ GameTypes /\ GameShown /\ score \in Int /\ score >= 0
        /\ \/ Game!Tick
           \/ \E button \in Singles : Game!Press(button)
           \/ \E chord \in Chords : Game!Chord(chord[1], chord[2])
    <3>1. GameTypes /\ GameShown /\ score \in Int /\ score >= 0
      BY <1>1, <2>1, Constants DEF IInv, TypeOK, GameTypes, DisplayFollowsMode, Begun, None
    <3>2. mod = 4 /\ ~In("CLOCK") /\ ~In("COUNTER")
      BY <1>1, <2>1, Numbers DEF IInv, TypeOK
    <3> QED
      BY <1>1, <2>1, <3>1, <3>2, Steps
  <2>3. CASE Game!NextQuestion
    <3>1. board = [Blank EXCEPT !.fnd = FourDigits(score, 10), !.lcd = Text("Correct!", None)]
      BY <2>2, <2>3 DEF Game!NextQuestion, GameShown, ScoreShown
    <3>2. board.lcd = Text("Correct!", None)
      BY <3>1, Words
    <3>3. board.lcd.words = "Correct!"
      BY <3>2 DEF Text
    <3> QED
      BY <2>2, <2>3, <3>3 DEF Game!NextQuestion
  <2>4. CASE Game!StartGame
    BY <2>2, <2>4 DEF Game!StartGame
  <2>5. CASE Game!GameOver \/ Game!Again
    <3>1. UNCHANGED score /\ game_start' # 1
      BY <2>5, Numerals DEF Game!GameOver, Game!Again
    <3>2. ~(score' > score)
      BY <2>2, <3>1
    <3> QED
      BY <3>1, <3>2, Zenon
  <2>6. CASE Game!ShowQuestion
    <3>1. UNCHANGED <<score, new_question>>
      BY <2>6 DEF Game!ShowQuestion
    <3>2. ~(score' > score)
      BY <2>2, <3>1
    <3> QED
      BY <3>1, <3>2, Zenon
  <2>7. CASE Game!Right
    <3>1. game_start = 1 /\ answer = input /\ new_question' = TRUE
      BY <2>7 DEF Game!Right
    <3>2. board.led = Shift4(answer) /\ board.lcd = Text("Answer: ", answer)
      BY <2>2, <3>1 DEF GameShown, QuestionShown
    <3> QED
      BY <3>1, <3>2
  <2> QED
    BY <2>2, <2>3, <2>4, <2>5, <2>6, <2>7
       DEF Game!Tick, Game!Press, Game!Chord, Game!CountDown, Game!TypeDigit, Game!TypeZero,
           Game!Delete, Game!Wrong, Game!Typed
<1>2. IInv /\ [Next]_vars => [Fair]_vars
  BY <1>1
<1> QED
  BY <1>2, Inductive, PTL DEF Spec, GameIsFair
==============================================================================
