--------------------------- MODULE LedDriver_proofs --------------------------
(***************************************************************************)
(* Proofs about the hw2 driver: its types, that frames are the planned     *)
(* ones, that a frame is replaced, and that the system goes down only in   *)
(* the ways that are known, for any processes, options and sizes.          *)
(***************************************************************************)
EXTENDS LedDriver, TLAPS

------------------------------------------------------------------------------
(***************************************************************************)
(* Remainders                                                              *)
(***************************************************************************)

\* A number is given by its quotient and remainder ...
LEMMA Division ==
    ASSUME NEW n \in Nat, NEW c \in Nat \ {0}
    PROVE  /\ n \div c \in Nat /\ n % c \in 0 .. c - 1
           /\ n = c * (n \div c) + (n % c)
  OBVIOUS

LEMMA Multiples ==
    ASSUME NEW c \in Nat \ {0}, NEW p \in Int, NEW q \in Int, p < q
    PROVE  c * q >= c * p + c
<1>1. c * (q - p) >= c
  <2>1. q - p >= 1
    OBVIOUS
  <2> QED
    BY <2>1
<1>2. c * (q - p) = c * q - c * p
  OBVIOUS
<1> QED
  BY <1>1, <1>2

\* ... which are unique.
LEMMA DivisionUnique ==
    ASSUME NEW n \in Nat, NEW c \in Nat \ {0}, NEW q \in Int, NEW r \in 0 .. c - 1,
           n = c * q + r
    PROVE  n \div c = q /\ n % c = r
<1> DEFINE a == n \div c
           b == n % c
<1>1. a \in Int /\ b \in 0 .. c - 1 /\ n = c * a + b /\ c * a \in Int /\ c * q \in Int
  BY Division
<1> HIDE DEF a, b
<1>2. ~(a < q)
  <2>1. a < q => c * q >= c * a + c
    BY <1>1, Multiples
  <2> QED
    BY <1>1, <2>1
<1>3. ~(q < a)
  <2>1. q < a => c * a >= c * q + c
    BY <1>1, Multiples
  <2> QED
    BY <1>1, <2>1
<1>4. a = q
  BY <1>1, <1>2, <1>3
<1>5. b = r
  BY <1>1, <1>4
<1> QED
  BY <1>4, <1>5 DEF a, b

\* The driver takes the remainder again at every step.
LEMMA NextRemainder ==
    ASSUME NEW n \in Nat, NEW c \in Nat \ {0}
    PROVE  ((n % c) + 1) % c = (n + 1) % c
<1> DEFINE q == n \div c
           r == n % c
<1>1. q \in Nat /\ r \in 0 .. c - 1 /\ n = c * q + r /\ c * q \in Nat
  <2>1. q \in Nat /\ r \in 0 .. c - 1 /\ n = c * q + r
    BY Division
  <2> QED
    BY <2>1
<1> HIDE DEF q, r
<1>2. CASE r < c - 1
  <2>1. r + 1 \in 0 .. c - 1 /\ n + 1 \in Nat /\ n + 1 = c * q + (r + 1)
    BY <1>1, <1>2
  <2>2. (n + 1) % c = r + 1
    BY <1>1, <2>1, DivisionUnique
  <2>3. r + 1 \in Nat /\ r + 1 = c * 0 + (r + 1)
    BY <1>1
  <2>4. (r + 1) % c = r + 1
    BY <2>1, <2>3, DivisionUnique
  <2> QED
    BY <2>2, <2>4 DEF r
<1>3. CASE r = c - 1
  <2>1. c * (q + 1) = c * q + c /\ 0 \in 0 .. c - 1
    BY <1>1
  <2>2. n + 1 \in Nat /\ n + 1 = c * (q + 1) + 0 /\ q + 1 \in Int
    BY <1>1, <1>3, <2>1
  <2>3. (n + 1) % c = 0
    BY <2>1, <2>2, DivisionUnique
  <2>4. r + 1 \in Nat /\ r + 1 = c * 1 + 0
    BY <1>1, <1>3
  <2>5. (r + 1) % c = 0
    BY <2>1, <2>4, DivisionUnique
  <2> QED
    BY <2>3, <2>5 DEF r
<1> QED
  BY <1>1, <1>2, <1>3

\* After k + 1 steps the pattern is the first one again exactly when another
\* round is complete.
LEMMA Rounds ==
    ASSUME NEW k \in Nat, NEW c \in Nat \ {0}, NEW s \in 0 .. c - 1
    PROVE  (k + 1) \div c = IF (s + k + 1) % c = s THEN (k \div c) + 1 ELSE k \div c
<1> DEFINE a == k \div c
           b == k % c
<1>1. a \in Nat /\ b \in 0 .. c - 1 /\ k = c * a + b /\ c * a \in Nat
  <2>1. a \in Nat /\ b \in 0 .. c - 1 /\ k = c * a + b
    BY Division
  <2> QED
    BY <2>1
<1> HIDE DEF a, b
<1>2. c * (a + 1) = c * a + c /\ 0 \in 0 .. c - 1 /\ a + 1 \in Int
  BY <1>1
<1>3. CASE b = c - 1
  <2>1. k + 1 \in Nat /\ k + 1 = c * (a + 1) + 0
    BY <1>1, <1>2, <1>3
  <2>2. (k + 1) \div c = a + 1
    BY <1>2, <2>1, DivisionUnique
  <2>3. s + k + 1 \in Nat /\ s + k + 1 = c * (a + 1) + s
    BY <1>1, <1>2, <1>3
  <2>4. (s + k + 1) % c = s
    BY <1>2, <2>3, DivisionUnique
  <2> QED
    BY <2>2, <2>4 DEF a
<1>4. CASE b < c - 1
  <2>1. b + 1 \in 0 .. c - 1 /\ k + 1 \in Nat /\ k + 1 = c * a + (b + 1)
    BY <1>1, <1>4
  <2>2. (k + 1) \div c = a
    BY <1>1, <2>1, DivisionUnique
  <2>3. (s + k + 1) % c # s
    <3>1. CASE s + b + 1 < c
      <4>1. s + b + 1 \in 0 .. c - 1 /\ s + k + 1 \in Nat /\ s + k + 1 = c * a + (s + b + 1)
        BY <1>1, <3>1
      <4>2. (s + k + 1) % c = s + b + 1
        BY <1>1, <4>1, DivisionUnique
      <4> QED
        BY <1>1, <4>2
    <3>2. CASE s + b + 1 >= c
      <4>1. /\ s + b + 1 - c \in 0 .. c - 1 /\ s + k + 1 \in Nat
            /\ s + k + 1 = c * (a + 1) + (s + b + 1 - c)
        BY <1>1, <1>2, <1>4, <3>2
      <4>2. (s + k + 1) % c = s + b + 1 - c
        BY <1>2, <4>1, DivisionUnique
      <4> QED
        BY <1>1, <1>4, <4>2
    <3> QED
      BY <1>1, <3>1, <3>2
  <2> QED
    BY <2>2, <2>3 DEF a
<1> QED
  BY <1>1, <1>3, <1>4

------------------------------------------------------------------------------
(***************************************************************************)
(* The codec                                                               *)
(***************************************************************************)

\* Four digits up to 8000 take two bytes.
LEMMA TwoBytes ==
    ASSUME NEW n \in 0 .. MaxOption
    PROVE  n % 256 \in 0 .. 255 /\ n \div 256 \in 0 .. 31
<1> DEFINE q == n \div 256
           r == n % 256
<1>1. n \in Nat /\ n <= 8000
  BY DEF MaxOption
<1>2. q \in Nat /\ r \in 0 .. 255 /\ n = 256 * q + r
  <2>1. 256 \in Nat \ {0} /\ 256 - 1 = 255
    OBVIOUS
  <2>2. q \in Nat /\ r \in 0 .. 256 - 1 /\ n = 256 * q + r
    BY <1>1, <2>1, Division
  <2> QED
    BY <2>1, <2>2
<1>3. 256 * q \in Nat
  BY <1>2
<1> HIDE DEF q, r
<1>4. ~(31 < q)
  <2>1. 256 \in Nat \ {0} /\ 31 \in Int /\ q \in Int
    BY <1>2
  <2>2. 31 < q => 256 * q >= 256 * 31 + 256
    BY <2>1, Multiples
  <2> QED
    BY <1>1, <1>2, <1>3, <2>2
<1>5. q \in 0 .. 31
  BY <1>2, <1>4
<1> QED
  BY <1>2, <1>5 DEF q, r

\* Whatever the option, the fields that reach the driver fit their bytes.
LEMMA FieldsFit ==
    ASSUME NEW option \in 0 .. MaxOption
    PROVE  Pattern(option) \in 0 .. 255 /\ Position(option) \in 0 .. 31
<1>1. Digits(option) \in 0 .. MaxOption
  <2>1. MaxOption \in Nat
    BY DEF MaxOption
  <2> QED
    BY <2>1 DEF Digits
<1>2. Pattern(option) \in 0 .. 255 /\ Digits(option) \div 256 \in 0 .. 31
  BY <1>1, TwoBytes DEF Pattern
<1>3. StartPos(option) \in 0 .. 3
  BY DEF StartPos
<1>4. ASSUME NEW n \in 0 .. 31, NEW p \in 0 .. 3
      PROVE  OrPos(p, n) \in 0 .. 31
  <2>1. n \div 4 \in 0 .. 7
    OBVIOUS
  <2> QED
    BY <2>1 DEF OrPos
<1> QED
  BY <1>2, <1>3, <1>4 DEF Position

\* A legal option comes out of the packing and unpacking as it was meant
\* (get_input.c:18 and device_driver.c:159).
LEMMA Unpacked ==
    ASSUME NEW option, NEW p, NEW d, Meaning(option, p, d)
    PROVE  Pattern(option) = d /\ Position(option) = p
<1>1. p \in 0 .. 3 /\ d \in 1 .. 8
  BY DEF Meaning
<1>2. StartPos(option) = p /\ Digits(option) = d
  <2>1. CASE p = 0
    BY <1>1, <2>1 DEF Meaning, StartPos, Digits
  <2>2. CASE p = 1
    BY <1>1, <2>2 DEF Meaning, StartPos, Digits
  <2>3. CASE p = 2
    BY <1>1, <2>3 DEF Meaning, StartPos, Digits
  <2>4. CASE p = 3
    BY <1>1, <2>4 DEF Meaning, StartPos, Digits
  <2> QED
    BY <1>1, <2>1, <2>2, <2>3, <2>4
<1>3. d % 256 = d /\ d \div 256 = 0
  BY <1>1
<1>4. OrPos(p, 0) = p
  <2>1. p = 0 \/ p = 1 \/ p = 2 \/ p = 3
    BY <1>1
  <2> QED
    BY <2>1 DEF OrPos, Bit1
<1> QED
  BY <1>2, <1>3, <1>4 DEF Pattern, Position
------------------------------------------------------------------------------
(***************************************************************************)
(* The inductive invariant.  What it says of the animation holds until     *)
(* two opens race: then two processes can write at once.                   *)
(***************************************************************************)

\* A process that will write was called with an option in range.
Called == {"opening", "blanked", "claiming", "open", "filling", "moving", "adding"}
ArgsAccepted == \A a \in Apps : app[a] \in Called => arg[a].option > 0

\* One process at a time has the device,
Sessions ==
    ~raced => \A a, b \in Apps : app[a] \in InSession /\ app[b] \in InSession => a = b

\* and while it writes there is no timer: the fields are its own.
Writes == {"filling", "moving", "adding"}
Writers ==
    ~raced => \A a \in Apps : app[a] \in Writes =>
        ~timer /\ ~handler /\ plan = NoArg /\ frames = 0
FieldsOf(args) ==
    /\ start = Pattern(args.option) - 1 /\ cur = start
    /\ pos = Position(args.option) /\ remain = args.times
    /\ num.gap = 0 /\ name.gap = 0
Fields ==
    ~raced => \A a \in Apps :
        /\ app[a] \in {"moving", "adding"} => FieldsOf(arg[a])
        /\ app[a] = "adding" => num.move = 1 /\ name.move = 1

\* The timer and its handler.
Timers ==
    /\ module \in {"stopped", "out"} => ~handler
    /\ handler => remain >= 0
    /\ ~raced /\ handler => ~timer

\* A line of the LCD is about to turn when it is at an end.
Turns(line, max) ==
    /\ line.move \in {-1, 1}
    /\ line.gap = 0 => line.move = 1
    /\ line.gap = max => line.move = -1
Lines == ~raced /\ (timer \/ handler) => Turns(num, NumGap) /\ Turns(name, NameGap)

\* The frames that were shown and those that remain are the ones of the call.
Counted ==
    ~raced =>
        /\ timer => remain >= 0 /\ frames + remain = plan.times
        /\ handler => remain >= 1 /\ frames + remain = plan.times + 1

\* Where frame k + 1 of a legal option is, and where the driver is after k.
PosAt(p, k) == (p + k \div Patterns) % Positions
CurAt(d, k) == ((d - 1) + k) % Patterns
Drawn ==
    ~raced /\ (timer \/ handler) =>
        /\ plan # NoArg
        /\ \A p \in Places, d \in 1 .. Patterns :
              Meaning(plan.option, p, d) =>
                  start = d - 1 /\ cur = CurAt(d, frames) /\ pos = PosAt(p, frames)

\* A frame found after the last blanking is a late one.
Lates == module # "in" /\ display # Dark => late

IInv ==
    /\ TypeOK /\ ArgsAccepted /\ Sessions /\ Writers /\ Fields /\ Timers /\ Lines
    /\ Counted /\ Drawn /\ Lates
    /\ FrameIsPlanned /\ FrameHasTimer /\ OnlyKnownFaults

\* A process moves on and the others stay where they are.
LEMMA Moved ==
    ASSUME TypeOK, NEW a \in Apps, NEW from, NEW to, Goto(a, from, to)
    PROVE  /\ cpu = "ok" /\ app[a] = from
           /\ \A b \in Apps : app'[b] = IF b = a THEN to ELSE app[b]
  BY DEF Goto, TypeOK

LEMMA InitInv == Init => IInv
<1> SUFFICES ASSUME Init PROVE IInv
  OBVIOUS
<1>1. TypeOK
  <2>1. NoArg \in Args /\ MaxOption \in Nat
    BY DEF NoArg, Args, MaxOption
  <2>2. num \in Line /\ name \in Line /\ num.gap \in 0 .. NumGap /\ name.gap \in 0 .. NameGap
    BY LedAssumption DEF Init, Line
  <2>3. /\ start \in -1 .. 254 /\ cur \in -1 .. 254 /\ pos \in 0 .. 31 /\ remain \in -1 .. 100
        /\ display[1] \in -1 .. 31 /\ display[2] \in -1 .. 254 /\ dev_usage \in {0, 1}
    BY DEF Init, Dark
  <2>4. arg \in [Apps -> Args] /\ plan \in Args
    BY <2>1 DEF Init
  <2> QED
    BY <2>2, <2>3, <2>4 DEF Init, TypeOK
<1>2. ArgsAccepted /\ Sessions /\ Writers /\ Fields /\ Timers /\ Lines /\ Counted /\ Drawn /\ Lates
  BY DEF Init, ArgsAccepted, Called, Sessions, InSession, Writers, Writes, Fields, Timers, Lines,
         Counted, Drawn, Lates
<1>3. FrameIsPlanned /\ FrameHasTimer /\ OnlyKnownFaults
  BY DEF Init, FrameIsPlanned, FrameHasTimer, OnlyKnownFaults, Dark
<1> QED
  BY <1>1, <1>2, <1>3 DEF IInv

\* A line moves inside the display.
LEMMA Bounces ==
    ASSUME NEW max \in Nat \ {0}, NEW line \in Line
    PROVE  /\ Bounce(line, max) \in Line
           /\ line.gap \in 0 .. max /\ Turns(line, max) =>
                  Bounce(line, max).gap \in 0 .. max /\ Turns(Bounce(line, max), max)
  BY DEF Bounce, Line, Turns

\* The remainders the driver takes are places and patterns.
LEMMA Wrapped ==
    ASSUME TypeOK
    PROVE  (pos + 1) % Positions \in 0 .. 31 /\ (cur + 1) % Patterns \in -1 .. 254
<1>1. pos + 1 \in Nat /\ cur + 1 \in Nat
  BY DEF TypeOK
<1>2. Patterns \in Nat \ {0} /\ Patterns <= 255 /\ Positions \in Nat \ {0} /\ Positions <= 32
  BY LedAssumption
<1>3. (pos + 1) % Positions \in 0 .. Positions - 1 /\ (cur + 1) % Patterns \in 0 .. Patterns - 1
  BY <1>1, <1>2, Division
<1> QED
  BY <1>2, <1>3
------------------------------------------------------------------------------
(***************************************************************************)
(* Every step preserves each part                                          *)
(***************************************************************************)

LEMMA KeepsTypes ==
    ASSUME IInv, [Next]_vars
    PROVE  TypeOK'
<1>1. TypeOK /\ Lines /\ Timers
  BY DEF IInv
<1>2. CASE UNCHANGED vars
  BY <1>1, <1>2 DEF TypeOK, vars, data, ghosts
<1>3. CASE TickEnd
  <2>1. NoArg \in Args /\ Dark[1] = -1 /\ Dark[2] = -1
    BY DEF NoArg, Args, MaxOption, Dark
  <2>2. display'[1] \in -1 .. 31 /\ display'[2] \in -1 .. 254 /\ plan' \in Args /\ frames' \in Nat
    BY <1>3, <2>1 DEF TickEnd
  <2>3. timer' \in BOOLEAN /\ late' \in BOOLEAN
    BY <1>3 DEF TickEnd
  <2> QED
    BY <1>1, <1>3, <2>2, <2>3 DEF TypeOK, TickEnd, data
<1>4. CASE TickFrame
  <2>1. cur' \in -1 .. 254 /\ pos' \in 0 .. 31
    BY <1>1, <1>4, Wrapped DEF TickFrame, NextPos, TypeOK
  <2>2. display'[1] \in -1 .. 31 /\ display'[2] \in -1 .. 254
    BY <1>1, <1>4 DEF TickFrame, TypeOK
  <2>3. frames' \in Nat
    BY <1>1, <1>4 DEF TickFrame, TypeOK
  <2>4. timer' \in BOOLEAN /\ handler' \in BOOLEAN /\ late' \in BOOLEAN
    BY <1>4 DEF TickFrame
  <2> QED
    BY <1>1, <1>4, <2>1, <2>2, <2>3, <2>4 DEF TypeOK, TickFrame
<1>5. CASE TickRearm
  <2>1. num' \in Line /\ name' \in Line
    BY <1>1, <1>5, Bounces, LedAssumption DEF TypeOK, TickRearm
  <2>2. ~raced => num'.gap \in 0 .. NumGap /\ name'.gap \in 0 .. NameGap
    BY <1>1, <1>5, Bounces, LedAssumption DEF TypeOK, TickRearm, Lines
  <2>3. remain' \in -1 .. 100
    BY <1>1, <1>5 DEF TypeOK, TickRearm, LessRemain, Timers
  <2>4. timer' \in BOOLEAN /\ handler' \in BOOLEAN /\ cpu' \in {"ok", "oops"}
    BY <1>1, <1>5 DEF TypeOK, TickRearm, AddTimer
  <2>5. UNCHANGED <<start, cur, pos, dev_usage, display, app, arg, module, plan, frames, raced, late>>
    BY <1>5 DEF TickRearm, ghosts
  <2> QED
    BY <1>1, <2>1, <2>2, <2>3, <2>4, <2>5 DEF TypeOK
<1>6. CASE WildWrite \/ WildText \/ TickUnmapped
  BY <1>1, <1>6 DEF TypeOK, WildWrite, WildText, TickUnmapped, data, ghosts
<1>7. ASSUME NEW a \in Apps, Launch(a) PROVE TypeOK'
  <2>1. arg' \in [Apps -> Args]
    BY <1>1, <1>7, LedAssumption DEF TypeOK, Launch, Args, Accepts, MaxOption
  <2>2. app' \in [Apps -> {"none", "opening", "blanked", "claiming"} \cup InSession]
    BY <1>1, <1>7 DEF TypeOK, Launch, Goto
  <2> QED
    BY <1>1, <1>7, <2>1, <2>2 DEF TypeOK, Launch, data, ghosts
<1>8. ASSUME NEW a \in Apps, OpenBlank(a) PROVE TypeOK'
  <2>1. app' \in [Apps -> {"none", "opening", "blanked", "claiming"} \cup InSession]
    BY <1>1, <1>8 DEF TypeOK, OpenBlank, Goto
  <2>2. Dark[1] = -1 /\ Dark[2] = -1
    BY DEF Dark
  <2>3. display'[1] \in -1 .. 31 /\ display'[2] \in -1 .. 254
    BY <1>8, <2>2 DEF OpenBlank
  <2>4. late' \in BOOLEAN
    BY <1>8 DEF OpenBlank
  <2> QED
    BY <1>1, <1>8, <2>1, <2>3, <2>4 DEF TypeOK, OpenBlank, data
<1>9. ASSUME NEW a \in Apps, OpenCheck(a) \/ OpenFails(a) PROVE TypeOK'
  <2>1. app' \in [Apps -> {"none", "opening", "blanked", "claiming"} \cup InSession]
    BY <1>1, <1>9 DEF TypeOK, OpenCheck, OpenFails, Goto
  <2>2. NoArg \in Args
    BY DEF NoArg, Args, MaxOption
  <2>3. arg' \in [Apps -> Args]
    BY <1>1, <1>9, <2>2 DEF TypeOK, OpenCheck, OpenFails
  <2> QED
    BY <1>1, <1>9, <2>1, <2>3 DEF TypeOK, OpenCheck, OpenFails, data, ghosts
<1>10. ASSUME NEW a \in Apps, OpenClaim(a) PROVE TypeOK'
  <2>1. app' \in [Apps -> {"none", "opening", "blanked", "claiming"} \cup InSession]
    BY <1>1, <1>10 DEF TypeOK, OpenClaim, Goto, InSession
  <2>2. NoArg \in Args
    BY DEF NoArg, Args, MaxOption
  <2>3. plan' \in Args /\ frames' \in Nat /\ raced' \in BOOLEAN /\ (~raced' => ~raced)
    BY <1>1, <1>10, <2>2 DEF TypeOK, OpenClaim
  <2> QED
    BY <1>1, <1>10, <2>1, <2>3 DEF TypeOK, OpenClaim, data
<1>11. ASSUME NEW a \in Apps, WriteDelete(a) PROVE TypeOK'
  <2>1. app' \in [Apps -> {"none", "opening", "blanked", "claiming"} \cup InSession]
    BY <1>1, <1>11 DEF TypeOK, WriteDelete, Goto, InSession
  <2>2. NoArg \in Args
    BY DEF NoArg, Args, MaxOption
  <2> QED
    BY <1>1, <1>11, <2>1, <2>2 DEF TypeOK, WriteDelete, data
<1>12. ASSUME NEW a \in Apps, WriteStart(a) PROVE TypeOK'
  <2>1. app' \in [Apps -> {"none", "opening", "blanked", "claiming"} \cup InSession]
    BY <1>1, <1>12 DEF TypeOK, WriteStart, Goto, InSession
  <2>2. arg[a].option \in 0 .. MaxOption /\ arg[a].times \in 0 .. 100
    BY <1>1 DEF TypeOK, Args
  <2>3. start' \in -1 .. 254 /\ cur' \in -1 .. 254 /\ pos' \in 0 .. 31 /\ remain' \in -1 .. 100
    BY <1>12, <2>2, FieldsFit DEF WriteStart
  <2>4. /\ num' \in Line /\ name' \in Line
        /\ num'.gap \in 0 .. NumGap /\ name'.gap \in 0 .. NameGap
    BY <1>1, <1>12, LedAssumption DEF TypeOK, WriteStart, Line
  <2> QED
    BY <1>1, <1>12, <2>1, <2>3, <2>4 DEF TypeOK, WriteStart, ghosts
<1>13. ASSUME NEW a \in Apps, WriteMoves(a) PROVE TypeOK'
  <2>1. app' \in [Apps -> {"none", "opening", "blanked", "claiming"} \cup InSession]
    BY <1>1, <1>13 DEF TypeOK, WriteMoves, Goto, InSession
  <2>2. /\ num' \in Line /\ name' \in Line
        /\ num'.gap = num.gap /\ name'.gap = name.gap
    BY <1>1, <1>13 DEF TypeOK, WriteMoves, Line
  <2> QED
    BY <1>1, <1>13, <2>1, <2>2 DEF TypeOK, WriteMoves, ghosts
<1>14. ASSUME NEW a \in Apps, WriteAdd(a) PROVE TypeOK'
  <2>1. app' \in [Apps -> {"none", "opening", "blanked", "claiming"} \cup InSession]
    BY <1>1, <1>14 DEF TypeOK, WriteAdd, Goto, InSession
  <2>2. NoArg \in Args
    BY DEF NoArg, Args, MaxOption
  <2>3. plan' \in Args /\ arg' \in [Apps -> Args]
    BY <1>1, <1>14, <2>2 DEF TypeOK, WriteAdd
  <2> QED
    BY <1>1, <1>14, <2>1, <2>3 DEF TypeOK, WriteAdd, AddTimer, data
<1>15. ASSUME NEW a \in Apps, Release(a) \/ Fault(a) PROVE TypeOK'
  <2>1. app' \in [Apps -> {"none", "opening", "blanked", "claiming"} \cup InSession]
    BY <1>1, <1>15 DEF TypeOK, Release, Fault, Goto
  <2> QED
    BY <1>1, <1>15, <2>1 DEF TypeOK, Release, Fault, data, ghosts
<1>16. CASE ExitBlank
  <2>1. Dark[1] = -1 /\ Dark[2] = -1
    BY DEF Dark
  <2>2. display'[1] \in -1 .. 31 /\ display'[2] \in -1 .. 254
    BY <1>16, <2>1 DEF ExitBlank
  <2>3. late' \in BOOLEAN /\ module' \in {"in", "blanked", "unmapped", "stopped", "out"}
    BY <1>16 DEF ExitBlank
  <2> QED
    BY <1>1, <1>16, <2>2, <2>3 DEF TypeOK, ExitBlank, data
<1>17. CASE ExitUnmap \/ ExitUnregister
  BY <1>1, <1>17 DEF TypeOK, ExitUnmap, ExitUnregister, data, ghosts
<1>18. CASE ExitTimer
  <2>1. NoArg \in Args
    BY DEF NoArg, Args, MaxOption
  <2>2. plan' \in Args /\ frames' \in Nat /\ dev_usage' \in {0, 1}
    BY <1>18, <2>1 DEF ExitTimer
  <2> QED
    BY <1>1, <1>18, <2>2 DEF TypeOK, ExitTimer, data
<1>19. CASE ModuleInit
  <2>1. num' \in Line /\ name' \in Line /\ num'.gap \in 0 .. NumGap /\ name'.gap \in 0 .. NameGap
    BY <1>19, LedAssumption DEF ModuleInit, Line
  <2>2. dev_usage' \in {0, 1} /\ raced' \in BOOLEAN
    BY <1>19 DEF ModuleInit
  <2> QED
    BY <1>1, <1>19, <2>1, <2>2 DEF TypeOK, ModuleInit
<1> QED
  BY <1>2, <1>3, <1>4, <1>5, <1>6, <1>7, <1>8, <1>9, <1>10, <1>11, <1>12, <1>13, <1>14, <1>15,
     <1>16, <1>17, <1>18, <1>19 DEF Next, Tick, Process
LEMMA KeepsArgs ==
    ASSUME IInv, [Next]_vars
    PROVE  ArgsAccepted'
<1>1. TypeOK /\ ArgsAccepted
  BY DEF IInv
<1>2. CASE UNCHANGED vars \/ Tick \/ ExitBlank \/ ExitUnmap \/ ExitTimer \/ ExitUnregister
           \/ ModuleInit
  <2>1. UNCHANGED <<app, arg>>
    BY <1>2 DEF vars, Tick, TickEnd, TickFrame, WildWrite, WildText, TickRearm, TickUnmapped,
                ExitBlank, ExitUnmap, ExitTimer, ExitUnregister, ModuleInit
  <2> QED
    BY <1>1, <2>1 DEF ArgsAccepted
<1>3. ASSUME NEW a \in Apps, Launch(a) PROVE ArgsAccepted'
  <2>1. PICK o \in Options, t \in Times :
            Accepts(o, t) /\ arg' = [arg EXCEPT ![a] = [option |-> o, times |-> t]]
    BY <1>3 DEF Launch
  <2>2. arg'[a].option > 0 /\ \A b \in Apps \ {a} : arg'[b] = arg[b]
    BY <1>1, <2>1 DEF TypeOK, Accepts
  <2>3. \A b \in Apps \ {a} : app'[b] = app[b]
    BY <1>1, <1>3, Moved DEF Launch
  <2> QED
    BY <1>1, <2>2, <2>3 DEF ArgsAccepted
<1>4. ASSUME NEW a \in Apps,
             OpenBlank(a) \/ OpenClaim(a) \/ WriteDelete(a) \/ WriteStart(a) \/ WriteMoves(a)
      PROVE  ArgsAccepted'
  <2>1. UNCHANGED arg /\ app[a] \in Called
    BY <1>4 DEF OpenBlank, OpenClaim, WriteDelete, WriteStart, WriteMoves, Goto, Called
  <2>2. \A b \in Apps \ {a} : app'[b] = app[b]
    BY <1>1, <1>4, Moved DEF OpenBlank, OpenClaim, WriteDelete, WriteStart, WriteMoves
  <2> QED
    BY <1>1, <2>1, <2>2 DEF ArgsAccepted
<1>5. ASSUME NEW a \in Apps, OpenCheck(a) PROVE ArgsAccepted'
  <2>1. app[a] \in Called /\ \A b \in Apps \ {a} : app'[b] = app[b] /\ arg'[b] = arg[b]
    BY <1>1, <1>5 DEF OpenCheck, Goto, Called, TypeOK
  <2>2. app'[a] \in Called => arg'[a] = arg[a]
    BY <1>1, <1>5 DEF OpenCheck, Goto, Called, TypeOK
  <2> QED
    BY <1>1, <2>1, <2>2 DEF ArgsAccepted
<1>6. ASSUME NEW a \in Apps, OpenFails(a) \/ WriteAdd(a) \/ Release(a) \/ Fault(a)
      PROVE  ArgsAccepted'
  <2>1. app'[a] \in Called => app'[a] = app[a] /\ arg'[a] = arg[a]
    BY <1>1, <1>6 DEF OpenFails, WriteAdd, Release, Fault, Goto, Called, TypeOK
  <2>2. \A b \in Apps \ {a} : app'[b] = app[b] /\ arg'[b] = arg[b]
    BY <1>1, <1>6 DEF OpenFails, WriteAdd, Release, Fault, Goto, TypeOK
  <2> QED
    BY <1>1, <2>1, <2>2 DEF ArgsAccepted
<1> QED
  BY <1>2, <1>3, <1>4, <1>5, <1>6 DEF Next, Process

\* A new module finds nobody in it, no timer and no animation.
LEMMA NewModule ==
    ASSUME IInv, ModuleInit
    PROVE  /\ ~timer' /\ ~handler' /\ frames' = 0 /\ frames = 0 /\ cpu' = "ok"
           /\ \A a \in Apps : app'[a] \notin InSession
<1>1. \A a \in Apps : app'[a] \notin InSession
  BY DEF ModuleInit, InSession
<1>2. ~timer /\ ~handler
  BY DEF ModuleInit, IInv, Timers
<1>3. frames = 0
  BY <1>2 DEF IInv, TypeOK, FrameHasTimer
<1> QED
  BY <1>1, <1>2, <1>3 DEF ModuleInit

LEMMA KeepsSessions ==
    ASSUME IInv, [Next]_vars
    PROVE  Sessions'
<1>1. TypeOK /\ Sessions
  BY DEF IInv
<1>2. CASE UNCHANGED vars \/ Tick \/ ExitBlank \/ ExitUnmap \/ ExitTimer \/ ExitUnregister
  <2>1. UNCHANGED <<app, raced>>
    BY <1>2 DEF vars, Tick, TickEnd, TickFrame, WildWrite, WildText, TickRearm, TickUnmapped,
                ExitBlank, ExitUnmap, ExitTimer, ExitUnregister, ghosts
  <2> QED
    BY <1>1, <2>1 DEF Sessions
<1>3. ASSUME NEW a \in Apps, Process(a), ~OpenClaim(a) PROVE Sessions'
  <2>1. UNCHANGED raced
    BY <1>3 DEF Process, Launch, OpenBlank, OpenCheck, OpenFails, WriteDelete, WriteStart,
                WriteMoves, WriteAdd, Release, Fault, ghosts
  <2>2. \A b \in Apps \ {a} : app'[b] = app[b]
    BY <1>1, <1>3 DEF Process, Launch, OpenBlank, OpenCheck, OpenFails, WriteDelete, WriteStart,
                      WriteMoves, WriteAdd, Release, Fault, Goto, TypeOK
  <2>3. app'[a] \in InSession => app[a] \in InSession
    BY <1>1, <1>3 DEF Process, Launch, OpenBlank, OpenCheck, OpenFails, WriteDelete, WriteStart,
                      WriteMoves, WriteAdd, Release, Fault, Goto, TypeOK, InSession
  <2> QED
    BY <1>1, <2>1, <2>2, <2>3 DEF Sessions
<1>4. ASSUME NEW a \in Apps, OpenClaim(a) PROVE Sessions'
  <2>1. \A b \in Apps \ {a} : app'[b] = app[b]
    BY <1>1, <1>4 DEF OpenClaim, Goto, TypeOK
  <2>2. ~raced' => ~raced /\ \A b \in Apps \ {a} : app[b] \notin InSession
    BY <1>4 DEF OpenClaim
  <2> QED
    BY <1>1, <2>1, <2>2 DEF Sessions
<1>5. CASE ModuleInit
  <2>1. \A a \in Apps : app'[a] \notin InSession
    BY <1>5, NewModule
  <2> QED
    BY <2>1 DEF Sessions
<1> QED
  BY <1>2, <1>3, <1>4, <1>5 DEF Next

\* Where the others are while one of them writes.
LEMMA Alone ==
    ASSUME IInv, ~raced, NEW a \in Apps, NEW b \in Apps \ {a}, app[a] \in InSession
    PROVE  app[b] \notin InSession
  BY DEF IInv, Sessions

LEMMA KeepsWriters ==
    ASSUME IInv, [Next]_vars
    PROVE  Writers'
<1>1. TypeOK /\ Writers
  BY DEF IInv
<1>2. CASE Tick
  <2>1. /\ UNCHANGED <<app, raced>>
        /\ timer \/ handler \/ UNCHANGED <<timer, handler, plan, frames>>
    BY <1>2 DEF Tick, TickEnd, TickFrame, WildWrite, WildText, TickRearm, TickUnmapped, Expired,
                ghosts
  <2> QED
    BY <1>1, <2>1 DEF Writers
<1>3. CASE UNCHANGED vars \/ ExitBlank \/ ExitUnmap \/ ExitTimer \/ ExitUnregister
  <2>1. /\ UNCHANGED <<app, raced, handler>> /\ (timer' => timer)
        /\ (plan' = NoArg /\ frames' = 0) \/ UNCHANGED <<plan, frames>>
    BY <1>3 DEF vars, ExitBlank, ExitUnmap, ExitTimer, ExitUnregister, ghosts
  <2> QED
    BY <1>1, <2>1 DEF Writers
<1>4. ASSUME NEW a \in Apps,
             \/ Launch(a) \/ OpenBlank(a) \/ OpenCheck(a) \/ OpenFails(a)
             \/ WriteStart(a) \/ WriteMoves(a) \/ Release(a) \/ Fault(a)
      PROVE  Writers'
  <2>1. UNCHANGED <<timer, handler, plan, frames, raced>>
    BY <1>4 DEF Launch, OpenBlank, OpenCheck, OpenFails, WriteStart, WriteMoves, Release, Fault,
                ghosts
  <2>2. \A b \in Apps \ {a} : app'[b] = app[b]
    BY <1>1, <1>4 DEF Launch, OpenBlank, OpenCheck, OpenFails, WriteStart, WriteMoves, Release,
                      Fault, Goto, TypeOK
  <2>3. app'[a] \in Writes => app[a] \in Writes
    BY <1>1, <1>4 DEF Launch, OpenBlank, OpenCheck, OpenFails, WriteStart, WriteMoves, Release,
                      Fault, Goto, TypeOK, Writes
  <2> QED
    BY <1>1, <2>1, <2>2, <2>3 DEF Writers
<1>5. ASSUME NEW a \in Apps, OpenClaim(a) PROVE Writers'
  <2>1. UNCHANGED <<timer, handler>> /\ (~raced' => ~raced /\ UNCHANGED <<plan, frames>>)
    BY <1>5 DEF OpenClaim
  <2>2. app'[a] \notin Writes /\ \A b \in Apps \ {a} : app'[b] = app[b]
    BY <1>1, <1>5 DEF OpenClaim, Goto, TypeOK, Writes
  <2> QED
    BY <1>1, <2>1, <2>2 DEF Writers
<1>6. ASSUME NEW a \in Apps, WriteDelete(a) PROVE Writers'
  BY <1>6 DEF WriteDelete, Writers
<1>7. ASSUME NEW a \in Apps, WriteAdd(a) PROVE Writers'
  <2>1. app'[a] \notin Writes /\ \A b \in Apps \ {a} : app'[b] = app[b]
    BY <1>1, <1>7 DEF WriteAdd, Goto, TypeOK, Writes
  <2>2. ~raced => \A b \in Apps \ {a} : app[b] \notin Writes
    BY <1>7, Alone DEF WriteAdd, Goto, InSession, Writes
  <2>3. UNCHANGED raced
    BY <1>7 DEF WriteAdd
  <2> QED
    BY <2>1, <2>2, <2>3 DEF Writers
<1>8. CASE ModuleInit
  BY <1>8, NewModule DEF Writers, Writes, InSession
<1> QED
  BY <1>2, <1>3, <1>4, <1>5, <1>6, <1>7, <1>8 DEF Next, Process

\* Nobody writes while there is a timer, or before the module is back.
LEMMA NoWriter ==
    ASSUME IInv, ~raced, timer \/ handler, NEW a \in Apps
    PROVE  app[a] \notin Writes
  BY DEF IInv, Writers

LEMMA KeepsFields ==
    ASSUME IInv, [Next]_vars
    PROVE  Fields'
<1>1. TypeOK /\ Fields
  BY DEF IInv
<1>2. CASE Tick
  <2>1. UNCHANGED <<app, arg, raced>>
    BY <1>2 DEF Tick, TickEnd, TickFrame, WildWrite, WildText, TickRearm, TickUnmapped, ghosts
  <2>2. ~raced => \/ \A a \in Apps : app[a] \notin Writes
                  \/ UNCHANGED data
    BY <1>2, NoWriter DEF Tick, TickEnd, TickFrame, WildWrite, WildText, TickRearm, TickUnmapped,
                          Expired, Writes
  <2> QED
    BY <1>1, <2>1, <2>2 DEF Fields, FieldsOf, Writes, data
<1>3. CASE UNCHANGED vars \/ ExitBlank \/ ExitUnmap \/ ExitTimer \/ ExitUnregister
  <2>1. UNCHANGED <<app, arg, raced, data>>
    BY <1>3 DEF vars, ExitBlank, ExitUnmap, ExitTimer, ExitUnregister, ghosts
  <2> QED
    BY <1>1, <2>1 DEF Fields, FieldsOf, data
<1>4. ASSUME NEW a \in Apps,
             \/ Launch(a) \/ OpenBlank(a) \/ OpenCheck(a) \/ OpenClaim(a) \/ OpenFails(a)
             \/ WriteDelete(a) \/ WriteAdd(a) \/ Release(a) \/ Fault(a)
      PROVE  Fields'
  <2>1. UNCHANGED data /\ (~raced' => ~raced)
    BY <1>1, <1>4 DEF Launch, OpenBlank, OpenCheck, OpenClaim, OpenFails, WriteDelete, WriteAdd,
                      Release, Fault, ghosts, TypeOK
  <2>2. \A b \in Apps \ {a} : app'[b] = app[b] /\ arg'[b] = arg[b]
    BY <1>1, <1>4 DEF Launch, OpenBlank, OpenCheck, OpenClaim, OpenFails, WriteDelete, WriteAdd,
                      Release, Fault, Goto, TypeOK
  <2>3. app'[a] \in {"moving", "adding"} => app'[a] = app[a] /\ arg'[a] = arg[a]
    BY <1>1, <1>4 DEF Launch, OpenBlank, OpenCheck, OpenClaim, OpenFails, WriteDelete, WriteAdd,
                      Release, Fault, Goto, TypeOK
  <2> QED
    BY <1>1, <2>1, <2>2, <2>3 DEF Fields, FieldsOf, data
<1>5. ASSUME NEW a \in Apps, WriteStart(a) PROVE Fields'
  <2>1. app'[a] = "moving" /\ \A b \in Apps \ {a} : app'[b] = app[b]
    BY <1>1, <1>5 DEF WriteStart, Goto, TypeOK
  <2>2. ~raced => \A b \in Apps \ {a} : app[b] \notin Writes
    BY <1>5, Alone DEF WriteStart, Goto, InSession, Writes
  <2>3. UNCHANGED <<raced, arg>> /\ FieldsOf(arg[a])'
    BY <1>1, <1>5 DEF WriteStart, ghosts, FieldsOf, TypeOK, Line
  <2> QED
    BY <2>1, <2>2, <2>3 DEF Fields, Writes
<1>6. ASSUME NEW a \in Apps, WriteMoves(a) PROVE Fields'
  <2>1. app[a] = "moving" /\ app'[a] = "adding" /\ \A b \in Apps \ {a} : app'[b] = app[b]
    BY <1>1, <1>6 DEF WriteMoves, Goto, TypeOK
  <2>2. ~raced => \A b \in Apps \ {a} : app[b] \notin Writes
    BY <1>6, Alone DEF WriteMoves, Goto, InSession, Writes
  <2>3. UNCHANGED <<raced, arg, start, cur, pos, remain>>
    BY <1>6 DEF WriteMoves, ghosts
  <2>4. /\ num'.gap = num.gap /\ name'.gap = name.gap
        /\ num'.move = 1 /\ name'.move = 1
    BY <1>1, <1>6 DEF WriteMoves, TypeOK, Line
  <2>5. ~raced => FieldsOf(arg[a])'
    BY <1>1, <2>1, <2>3, <2>4 DEF Fields, FieldsOf
  <2> QED
    BY <2>1, <2>2, <2>3, <2>4, <2>5 DEF Fields, Writes
<1>7. CASE ModuleInit
  BY <1>7, NewModule DEF Fields, InSession
<1> QED
  BY <1>2, <1>3, <1>4, <1>5, <1>6, <1>7 DEF Next, Process

LEMMA KeepsTimers ==
    ASSUME IInv, [Next]_vars
    PROVE  Timers'
<1>1. TypeOK /\ Timers
  BY DEF IInv
<1>2. CASE UNCHANGED vars
  BY <1>1, <1>2 DEF vars, data, ghosts, Timers
<1>3. CASE Tick
  <2>1. CASE TickEnd \/ WildWrite \/ WildText \/ TickUnmapped
    BY <1>1, <2>1 DEF TickEnd, WildWrite, WildText, TickUnmapped, Expired, data, ghosts, Timers
  <2>2. CASE TickFrame
    BY <1>1, <2>2 DEF TickFrame, Mapped, Timers, TypeOK
  <2>3. CASE TickRearm
    <3>1. ~handler'
      BY <2>3 DEF TickRearm
    <3> QED
      BY <3>1 DEF Timers
  <2> QED
    BY <1>3, <2>1, <2>2, <2>3 DEF Tick
<1>4. CASE ExitBlank \/ ExitUnmap \/ ExitTimer \/ ExitUnregister \/ ModuleInit
  BY <1>1, <1>4 DEF ExitBlank, ExitUnmap, ExitTimer, ExitUnregister, ModuleInit, data, ghosts,
                    Timers
<1>5. ASSUME NEW a \in Apps,
             \/ Launch(a) \/ OpenBlank(a) \/ OpenCheck(a) \/ OpenClaim(a) \/ OpenFails(a)
             \/ WriteDelete(a) \/ WriteMoves(a) \/ Release(a) \/ Fault(a)
      PROVE  Timers'
  <2>1. /\ UNCHANGED <<handler, module, remain>> /\ (~raced' => ~raced)
        /\ timer' => timer
    BY <1>1, <1>5 DEF Launch, OpenBlank, OpenCheck, OpenClaim, OpenFails, WriteDelete, WriteMoves,
                      Release, Fault, data, ghosts, TypeOK
  <2> QED
    BY <1>1, <2>1 DEF Timers
<1>6. ASSUME NEW a \in Apps, WriteStart(a) PROVE Timers'
  <2>1. remain' >= 0
    BY <1>1, <1>6 DEF WriteStart, TypeOK, Args
  <2> QED
    BY <1>1, <1>6, <2>1 DEF WriteStart, ghosts, Timers
<1>7. ASSUME NEW a \in Apps, WriteAdd(a) PROVE Timers'
  <2>1. UNCHANGED <<module, handler, remain, raced>>
    BY <1>7 DEF WriteAdd, data
  <2>2. ~raced => ~handler
    BY <1>7 DEF WriteAdd, Goto, IInv, Writers, Writes
  <2> QED
    BY <1>1, <2>1, <2>2 DEF Timers
<1> QED
  BY <1>2, <1>3, <1>4, <1>5, <1>6, <1>7 DEF Next, Process

LEMMA KeepsLines ==
    ASSUME IInv, [Next]_vars
    PROVE  Lines'
<1>1. TypeOK /\ Lines
  BY DEF IInv
<1>2. CASE UNCHANGED vars \/ TickEnd \/ TickFrame \/ WildWrite \/ WildText \/ TickUnmapped
           \/ ExitBlank \/ ExitUnmap \/ ExitTimer \/ ExitUnregister
  <2>1. /\ UNCHANGED <<num, name, raced>>
        /\ timer' \/ handler' => timer \/ handler
    BY <1>2 DEF vars, TickEnd, TickFrame, WildWrite, WildText, TickUnmapped, ExitBlank, ExitUnmap,
                ExitTimer, ExitUnregister, Expired, data, ghosts
  <2> QED
    BY <1>1, <2>1 DEF Lines
<1>3. CASE TickRearm
  <2>1. ~raced => num.gap \in 0 .. NumGap /\ name.gap \in 0 .. NameGap
    BY <1>1 DEF TypeOK
  <2>2. ~raced => Turns(num, NumGap) /\ Turns(name, NameGap)
    BY <1>1, <1>3 DEF Lines, TickRearm
  <2>3. ~raced => Turns(num', NumGap) /\ Turns(name', NameGap)
    BY <1>1, <1>3, <2>1, <2>2, Bounces, LedAssumption DEF TickRearm, TypeOK
  <2>4. UNCHANGED raced
    BY <1>3 DEF TickRearm, ghosts
  <2> QED
    BY <2>3, <2>4 DEF Lines
<1>4. CASE ModuleInit
  BY <1>4, NewModule DEF Lines
<1>5. ASSUME NEW a \in Apps,
             \/ Launch(a) \/ OpenBlank(a) \/ OpenCheck(a) \/ OpenClaim(a) \/ OpenFails(a)
             \/ WriteDelete(a) \/ Release(a) \/ Fault(a)
      PROVE  Lines'
  <2>1. /\ UNCHANGED <<num, name>> /\ (~raced' => ~raced)
        /\ timer' \/ handler' => timer \/ handler
    BY <1>1, <1>5 DEF Launch, OpenBlank, OpenCheck, OpenClaim, OpenFails, WriteDelete, Release,
                      Fault, data, ghosts, TypeOK
  <2> QED
    BY <1>1, <2>1 DEF Lines
<1>6. ASSUME NEW a \in Apps, WriteStart(a) \/ WriteMoves(a) PROVE Lines'
  <2>1. UNCHANGED <<timer, handler, raced>> /\ app[a] \in Writes
    BY <1>6 DEF WriteStart, WriteMoves, Goto, Writes, ghosts
  <2> QED
    BY <2>1, NoWriter DEF Lines
<1>7. ASSUME NEW a \in Apps, WriteAdd(a) PROVE Lines'
  <2>1. UNCHANGED <<num, name, raced>>
    BY <1>7 DEF WriteAdd, data
  <2>2. ~raced => num.gap = 0 /\ name.gap = 0 /\ num.move = 1 /\ name.move = 1
    BY <1>7 DEF WriteAdd, Goto, IInv, Fields, FieldsOf
  <2>3. ~raced => Turns(num, NumGap) /\ Turns(name, NameGap)
    BY <2>2, LedAssumption DEF Turns
  <2> QED
    BY <2>1, <2>3 DEF Lines
<1> QED
  BY <1>2, <1>3, <1>4, <1>5, <1>6, <1>7 DEF Next, Tick, Process
\* The steps that leave the animation as it is, or stop it.
LEMMA Undisturbed ==
    ASSUME IInv, [Next]_vars, ~TickFrame, ~TickRearm, ~ModuleInit, ~raced',
           \A a \in Apps : ~WriteAdd(a)
    PROVE  /\ ~raced /\ (timer' => timer) /\ (handler' => handler)
           /\ timer' \/ handler' =>
                  UNCHANGED <<start, cur, pos, remain, num, name, plan, frames>>
           /\ UNCHANGED <<plan, frames>> \/ (plan' = NoArg /\ frames' = 0)
           /\ display' = display \/ display' = Dark
<1>1. TypeOK /\ Timers
  BY DEF IInv
<1>2. CASE UNCHANGED vars \/ TickEnd \/ WildWrite \/ WildText \/ TickUnmapped
  BY <1>2 DEF vars, TickEnd, WildWrite, WildText, TickUnmapped, Expired, data, ghosts
<1>3. CASE ExitBlank \/ ExitUnmap \/ ExitTimer \/ ExitUnregister
  BY <1>3 DEF ExitBlank, ExitUnmap, ExitTimer, ExitUnregister, data, ghosts
<1>4. ASSUME NEW a \in Apps, Launch(a) \/ OpenBlank(a) \/ OpenCheck(a) \/ OpenFails(a)
                              \/ WriteDelete(a) \/ Release(a) \/ Fault(a)
      PROVE  /\ ~raced /\ (timer' => timer) /\ (handler' => handler)
             /\ UNCHANGED <<start, cur, pos, remain, num, name>>
             /\ UNCHANGED <<plan, frames>> \/ (~timer' /\ ~handler' /\ plan' = NoArg /\ frames' = 0)
             /\ display' = display \/ display' = Dark
  BY <1>4 DEF Launch, OpenBlank, OpenCheck, OpenFails, WriteDelete, Release, Fault, data, ghosts
<1>5. ASSUME NEW a \in Apps, OpenClaim(a)
      PROVE  ~raced /\ UNCHANGED <<timer, handler, start, cur, pos, remain, num, name, plan, frames,
                                   display>>
  BY <1>1, <1>5 DEF OpenClaim, data, TypeOK
<1>6. ASSUME NEW a \in Apps, WriteStart(a) \/ WriteMoves(a)
      PROVE  /\ ~raced /\ UNCHANGED <<timer, handler, plan, frames, display>>
             /\ ~timer /\ ~handler
  <2>1. UNCHANGED <<timer, handler, plan, frames, raced, display>> /\ app[a] \in Writes
    BY <1>6 DEF WriteStart, WriteMoves, Goto, Writes, ghosts
  <2> QED
    BY <2>1, NoWriter
<1> QED
  BY <1>2, <1>3, <1>4, <1>5, <1>6 DEF Next, Tick, Process

\* A write that adds the timer finds none, and the fields as it set them.
LEMMA Adds ==
    ASSUME IInv, ~raced, NEW a \in Apps, WriteAdd(a)
    PROVE  /\ ~timer /\ ~handler /\ timer' /\ ~handler' /\ frames = 0 /\ cpu' = "ok"
           /\ FieldsOf(arg[a]) /\ arg[a] \in Args /\ arg[a].option > 0
           /\ plan' = arg[a]
           /\ UNCHANGED <<start, cur, pos, remain, frames, display, module, raced, late>>
<1>1. ~timer /\ ~handler /\ frames = 0
  BY DEF IInv, Writers, Writes, WriteAdd, Goto
<1>2. FieldsOf(arg[a]) /\ arg[a] \in Args /\ arg[a].option > 0
  BY DEF IInv, Fields, ArgsAccepted, Called, TypeOK, WriteAdd, Goto
<1> QED
  BY <1>1, <1>2 DEF WriteAdd, AddTimer, Goto, data

LEMMA KeepsCounted ==
    ASSUME IInv, [Next]_vars
    PROVE  Counted'
<1>1. TypeOK /\ Counted /\ Timers
  BY DEF IInv
<1>2. SUFFICES ASSUME ~raced' PROVE Counted'
  BY DEF Counted
<1>3. CASE ~TickFrame /\ ~TickRearm /\ ~ModuleInit /\ \A a \in Apps : ~WriteAdd(a)
  BY <1>1, <1>2, <1>3, Undisturbed DEF Counted
<1>4. CASE TickFrame
  BY <1>1, <1>2, <1>4 DEF TickFrame, Expired, Counted, TypeOK
<1>5. CASE TickRearm
  <2>1. ~raced /\ handler /\ ~handler' /\ remain' = remain - 1 /\ UNCHANGED <<plan, frames>>
    BY <1>2, <1>5 DEF TickRearm, LessRemain, ghosts
  <2>2. remain >= 1 /\ frames + remain = plan.times + 1
    BY <1>1, <2>1 DEF Counted
  <2>3. plan.times \in Int /\ remain \in Int /\ frames \in Int
    BY <1>1 DEF TypeOK, Args
  <2> QED
    BY <2>1, <2>2, <2>3 DEF Counted
<1>6. ASSUME NEW a \in Apps, WriteAdd(a) PROVE Counted'
  <2>1. ~raced
    BY <1>2, <1>6 DEF WriteAdd
  <2> QED
    BY <1>1, <1>2, <1>6, <2>1, Adds DEF Counted, FieldsOf, Args, TypeOK
<1>7. CASE ModuleInit
  BY <1>7, NewModule DEF Counted
<1> QED
  BY <1>3, <1>4, <1>5, <1>6, <1>7

LEMMA KeepsLates ==
    ASSUME IInv, [Next]_vars
    PROVE  Lates'
<1>1. TypeOK /\ Lates
  BY DEF IInv
<1>2. CASE UNCHANGED vars \/ WildWrite \/ WildText \/ TickRearm \/ TickUnmapped \/ ExitUnmap
           \/ ExitTimer \/ ExitUnregister \/ ModuleInit
  BY <1>1, <1>2 DEF vars, WildWrite, WildText, TickRearm, TickUnmapped, ExitUnmap, ExitTimer,
                    ExitUnregister, ModuleInit, ghosts, Lates
<1>3. CASE TickEnd \/ TickFrame \/ ExitBlank
  BY <1>1, <1>3 DEF TickEnd, TickFrame, Mapped, ExitBlank, Lates
<1>4. ASSUME NEW a \in Apps, Process(a) PROVE Lates'
  <2>1. UNCHANGED module /\ (display' = Dark \/ UNCHANGED <<display, late>>)
    BY <1>4 DEF Process, Launch, OpenBlank, OpenCheck, OpenClaim, OpenFails, WriteDelete, WriteStart,
                WriteMoves, WriteAdd, Release, Fault, ghosts
  <2> QED
    BY <1>1, <2>1 DEF Lates
<1> QED
  BY <1>2, <1>3, <1>4 DEF Next, Tick

LEMMA KeepsHasTimer ==
    ASSUME IInv, [Next]_vars
    PROVE  FrameHasTimer'
<1>1. TypeOK /\ FrameHasTimer /\ Lates
  BY DEF IInv
<1>2. CASE UNCHANGED vars
  BY <1>1, <1>2 DEF FrameHasTimer, Writing, vars, ghosts
<1>3. CASE Tick
  BY <1>1, <1>3 DEF Tick, TickEnd, TickFrame, WildWrite, WildText, TickRearm, TickUnmapped, Expired,
                    AddTimer, FrameHasTimer, ghosts
<1>4. CASE ExitBlank
  BY <1>1, <1>4 DEF ExitBlank, FrameHasTimer
<1>5. CASE ExitUnmap \/ ExitUnregister \/ ModuleInit
  BY <1>1, <1>5 DEF ExitUnmap, ExitUnregister, ModuleInit, FrameHasTimer, Writing, ghosts
<1>6. CASE ExitTimer
  BY <1>1, <1>6 DEF ExitTimer, FrameHasTimer, Lates
<1>7. ASSUME NEW a \in Apps, WriteDelete(a) \/ WriteStart(a) \/ WriteMoves(a)
      PROVE  FrameHasTimer'
  <2>1. app'[a] \in {"filling", "moving", "adding"}
    BY <1>1, <1>7 DEF WriteDelete, WriteStart, WriteMoves, Goto, TypeOK
  <2>2. frames' > 0 => timer' \/ handler'
    BY <1>1, <1>7 DEF WriteDelete, WriteStart, WriteMoves, FrameHasTimer, ghosts
  <2> QED
    BY <2>1, <2>2 DEF FrameHasTimer, Writing
<1>8. ASSUME NEW a \in Apps, WriteAdd(a) \/ OpenBlank(a) PROVE FrameHasTimer'
  BY <1>1, <1>8 DEF WriteAdd, AddTimer, OpenBlank, FrameHasTimer
<1>9. ASSUME NEW a \in Apps, Launch(a) \/ OpenCheck(a) \/ OpenClaim(a) \/ OpenFails(a)
                              \/ Release(a) \/ Fault(a)
      PROVE  FrameHasTimer'
  <2>1. \/ cpu' = "oops"
        \/ cpu = "ok" /\ UNCHANGED <<display, late>>
    BY <1>9 DEF Launch, OpenCheck, OpenClaim, OpenFails, Release, Fault, Goto, ghosts
  <2>2. \A b \in Apps \ {a} : app'[b] = app[b]
    BY <1>1, <1>9 DEF Launch, OpenCheck, OpenClaim, OpenFails, Release, Fault, Goto, TypeOK
  <2>3. app[a] \in {"filling", "moving", "adding"} => cpu' = "oops"
    BY <1>9 DEF Launch, OpenCheck, OpenClaim, OpenFails, Release, Fault, Goto
  <2>4. Writing /\ cpu' # "oops" => Writing'
    BY <2>2, <2>3 DEF Writing
  <2>5. UNCHANGED <<timer, handler>> /\ (frames' = frames \/ frames' = 0)
    BY <1>9 DEF Launch, OpenCheck, OpenClaim, OpenFails, Release, Fault, data, ghosts
  <2> QED
    BY <1>1, <2>1, <2>4, <2>5 DEF FrameHasTimer
<1> QED
  BY <1>2, <1>3, <1>4, <1>5, <1>6, <1>7, <1>8, <1>9 DEF Next, Process

\* A legal option keeps the driver on the FND.
LEMMA OnTheFND ==
    ASSUME IInv, ~raced, timer \/ handler
    PROVE  plan # NoArg /\ (Legal(plan.option) => pos < Positions)
<1>1. plan # NoArg
  BY DEF IInv, Drawn
<1>2. ASSUME NEW p \in Places, NEW d \in 1 .. Patterns, Meaning(plan.option, p, d)
      PROVE  pos < Positions
  <2>1. pos = PosAt(p, frames)
    BY <1>2 DEF IInv, Drawn
  <2>2. Patterns \in Nat \ {0} /\ Positions \in Nat \ {0} /\ frames \in Nat /\ p \in Nat
    BY LedAssumption DEF IInv, TypeOK, Places
  <2>3. frames \div Patterns \in Nat
    BY <2>2, Division
  <2>4. p + frames \div Patterns \in Nat
    BY <2>2, <2>3
  <2>5. PosAt(p, frames) \in 0 .. Positions - 1
    BY <2>2, <2>4, Division DEF PosAt
  <2> QED
    BY <2>1, <2>2, <2>5
<1> QED
  BY <1>1, <1>2 DEF Legal

LEMMA KeepsFaults ==
    ASSUME IInv, [Next]_vars
    PROVE  OnlyKnownFaults'
<1>1. TypeOK /\ OnlyKnownFaults /\ Timers
  BY DEF IInv
<1>2. CASE UNCHANGED vars
  BY <1>1, <1>2 DEF OnlyKnownFaults, LeftBehind, Mapped, vars, ghosts
<1>3. CASE WildWrite
  <2>1. timer /\ pos \in Int /\ Positions \in Int /\ pos >= Positions
    BY <1>1, <1>3, LedAssumption DEF WildWrite, Expired, TypeOK
  <2>2. ~raced => plan # NoArg /\ ~Legal(plan.option)
    BY <2>1, OnTheFND
  <2> QED
    BY <1>3, <2>2 DEF WildWrite, ghosts, OnlyKnownFaults
<1>4. CASE TickEnd \/ TickFrame
  BY <1>4 DEF TickEnd, TickFrame, Expired, OnlyKnownFaults
<1>5. CASE TickRearm
  BY <1>1, <1>5 DEF TickRearm, AddTimer, Timers, OnlyKnownFaults, ghosts
<1>6. CASE ExitBlank \/ ExitUnmap \/ ExitTimer \/ ExitUnregister \/ ModuleInit
  BY <1>6 DEF ExitBlank, ExitUnmap, ExitTimer, ExitUnregister, ModuleInit, OnlyKnownFaults
<1>7. ASSUME NEW a \in Apps,
             \/ Launch(a) \/ OpenBlank(a) \/ OpenCheck(a) \/ OpenClaim(a) \/ OpenFails(a)
             \/ WriteDelete(a) \/ WriteStart(a) \/ WriteMoves(a) \/ Release(a)
      PROVE  OnlyKnownFaults'
  <2>1. cpu' = "ok"
    BY <1>7 DEF Launch, OpenBlank, OpenCheck, OpenClaim, OpenFails, WriteDelete, WriteStart,
                WriteMoves, Release, Goto
  <2> QED
    BY <2>1 DEF OnlyKnownFaults
<1>8. ASSUME NEW a \in Apps, WriteAdd(a) PROVE OnlyKnownFaults'
  <2>1. ~raced => cpu' = "ok"
    BY <1>8, Adds
  <2> QED
    BY <1>8, <2>1 DEF WriteAdd, OnlyKnownFaults
<1>9. ASSUME NEW a \in Apps, Fault(a) PROVE OnlyKnownFaults'
  <2>1. ~Mapped' /\ app'[a] # "none"
    BY <1>9 DEF Fault, Mapped
  <2> QED
    BY <2>1 DEF OnlyKnownFaults, LeftBehind
<1>10. CASE TickUnmapped
  BY <1>10 DEF TickUnmapped, Expired, Mapped, OnlyKnownFaults, LeftBehind
<1>11. CASE WildText
  <2>1. handler /\ ~TextFits /\ raced' = raced
    BY <1>11 DEF WildText, ghosts
  <2>2. ~raced => TextFits
    BY <1>1, LedAssumption DEF TypeOK, TextFits
  <2> QED
    BY <2>1, <2>2 DEF OnlyKnownFaults
<1> QED
  BY <1>2, <1>3, <1>4, <1>5, <1>6, <1>7, <1>8, <1>9, <1>10, <1>11 DEF Next, Tick, Process

\* The driver's step from one frame to the next.
LEMMA Advances ==
    ASSUME TypeOK, NEW p \in Places, NEW d \in 1 .. Patterns, TickFrame,
           start = d - 1, cur = CurAt(d, frames), pos = PosAt(p, frames)
    PROVE  cur' = CurAt(d, frames + 1) /\ pos' = PosAt(p, frames + 1)
<1>1. /\ Patterns \in Nat \ {0} /\ Positions \in Nat \ {0}
      /\ frames \in Nat /\ p \in Nat /\ d - 1 \in 0 .. Patterns - 1 /\ d - 1 \in Nat
  BY LedAssumption DEF TypeOK, Places
<1>2. cur' = CurAt(d, frames + 1)
  <2>1. (d - 1) + frames \in Nat
    BY <1>1
  <2>2. (CurAt(d, frames) + 1) % Patterns = ((d - 1) + frames + 1) % Patterns
    BY <1>1, <2>1, NextRemainder DEF CurAt
  <2>3. (d - 1) + frames + 1 = (d - 1) + (frames + 1)
    BY <1>1
  <2> QED
    BY <2>2, <2>3 DEF TickFrame, CurAt
<1> DEFINE q == frames \div Patterns
<1>3. q \in Nat /\ p + q \in Nat
  <2>1. q \in Nat
    BY <1>1, Division
  <2> QED
    BY <1>1, <2>1
<1>4. (frames + 1) \div Patterns = IF cur' = start THEN q + 1 ELSE q
  <2>1. (d - 1) + frames + 1 = (d - 1) + (frames + 1)
    BY <1>1
  <2> QED
    BY <1>1, <1>2, <2>1, Rounds DEF CurAt
<1>5. PosAt(p, frames) = (p + q) % Positions
  BY DEF PosAt
<1>6. PosAt(p, frames + 1) = IF cur' = start THEN (p + (q + 1)) % Positions ELSE (p + q) % Positions
  BY <1>4 DEF PosAt
<1> HIDE DEF q
<1>7. (((p + q) % Positions) + 1) % Positions = (p + (q + 1)) % Positions
  <2>1. (((p + q) % Positions) + 1) % Positions = ((p + q) + 1) % Positions
    BY <1>1, <1>3, NextRemainder
  <2>2. (p + q) + 1 = p + (q + 1)
    BY <1>1, <1>3
  <2> QED
    BY <2>1, <2>2
<1>8. pos' = PosAt(p, frames + 1)
  BY <1>5, <1>6, <1>7 DEF TickFrame, NextPos
<1> QED
  BY <1>2, <1>8
\* Where it begins.
LEMMA Begins ==
    ASSUME TypeOK, NEW args \in Args, FieldsOf(args), frames = 0,
           NEW p \in Places, NEW d \in 1 .. Patterns, Meaning(args.option, p, d)
    PROVE  start = d - 1 /\ cur = CurAt(d, frames) /\ pos = PosAt(p, frames)
<1>1. start = d - 1 /\ cur = d - 1 /\ pos = p
  BY Unpacked DEF FieldsOf
<1>2. /\ Patterns \in Nat \ {0} /\ Positions \in Nat \ {0}
      /\ p \in 0 .. Positions - 1 /\ p \in Nat /\ d - 1 \in 0 .. Patterns - 1 /\ d - 1 \in Nat
  BY LedAssumption DEF Places
<1>3. (d - 1) + frames = d - 1 /\ d - 1 = Patterns * 0 + (d - 1) /\ p = Positions * 0 + p
  BY <1>2
<1>4. (d - 1) % Patterns = d - 1 /\ p % Positions = p
  BY <1>2, <1>3, DivisionUnique
<1>5. frames \div Patterns = 0
  <2>1. 0 = Patterns * 0 + 0 /\ 0 \in 0 .. Patterns - 1 /\ 0 \in Nat /\ 0 \in Int
    BY <1>2
  <2>2. 0 \div Patterns = 0
    BY <1>2, <2>1, DivisionUnique
  <2> QED
    BY <2>2
<1>6. p + frames \div Patterns = p
  BY <1>2, <1>5
<1> QED
  BY <1>1, <1>3, <1>4, <1>6 DEF CurAt, PosAt

LEMMA KeepsDrawn ==
    ASSUME IInv, [Next]_vars
    PROVE  Drawn'
<1>1. TypeOK /\ Drawn
  BY DEF IInv
<1>2. SUFFICES ASSUME ~raced', timer' \/ handler'
      PROVE  /\ plan' # NoArg
             /\ \A p \in Places, d \in 1 .. Patterns :
                   Meaning(plan'.option, p, d) =>
                       start' = d - 1 /\ cur' = CurAt(d, frames') /\ pos' = PosAt(p, frames')
  BY DEF Drawn, CurAt, PosAt, Meaning, Places
<1>3. CASE ~TickFrame /\ ~TickRearm /\ ~ModuleInit /\ \A a \in Apps : ~WriteAdd(a)
  <2>1. UNCHANGED <<start, cur, pos, plan, frames>> /\ ~raced /\ (timer \/ handler)
    BY <1>2, <1>3, Undisturbed
  <2> QED
    BY <1>1, <2>1 DEF Drawn
<1>4. CASE TickFrame
  <2>1. ~raced /\ timer /\ frames' = frames + 1 /\ UNCHANGED <<start, plan>>
    BY <1>2, <1>4 DEF TickFrame, Expired
  <2>2. ASSUME NEW p \in Places, NEW d \in 1 .. Patterns, Meaning(plan.option, p, d)
        PROVE  start' = d - 1 /\ cur' = CurAt(d, frames') /\ pos' = PosAt(p, frames')
    <3>1. start = d - 1 /\ cur = CurAt(d, frames) /\ pos = PosAt(p, frames)
      BY <1>1, <2>1, <2>2 DEF Drawn
    <3> QED
      BY <1>1, <1>4, <2>1, <3>1, Advances
  <2> QED
    BY <1>1, <2>1, <2>2 DEF Drawn
<1>5. CASE TickRearm
  <2>1. UNCHANGED <<start, cur, pos, plan, frames, raced>> /\ handler
    BY <1>5 DEF TickRearm, ghosts
  <2> QED
    BY <1>1, <1>2, <2>1 DEF Drawn
<1>6. ASSUME NEW a \in Apps, WriteAdd(a)
      PROVE  /\ plan' # NoArg
             /\ \A p \in Places, d \in 1 .. Patterns :
                   Meaning(plan'.option, p, d) =>
                       start' = d - 1 /\ cur' = CurAt(d, frames') /\ pos' = PosAt(p, frames')
  <2>1. ~raced
    BY <1>2, <1>6 DEF WriteAdd
  <2>2. /\ FieldsOf(arg[a]) /\ arg[a] \in Args /\ arg[a].option > 0 /\ plan' = arg[a]
        /\ frames = 0 /\ UNCHANGED <<start, cur, pos, frames>>
    BY <1>6, <2>1, Adds
  <2>3. plan' # NoArg
    BY <2>2 DEF NoArg
  <2> QED
    BY <1>1, <2>2, <2>3, Begins
<1>7. ~ModuleInit
  BY <1>2, NewModule
<1> QED
  BY <1>3, <1>4, <1>5, <1>6, <1>7

LEMMA KeepsFrames ==
    ASSUME IInv, [Next]_vars
    PROVE  FrameIsPlanned'
<1>1. TypeOK /\ FrameIsPlanned /\ Counted /\ Drawn
  BY DEF IInv
<1>2. SUFFICES ASSUME ~raced', frames' > 0, display' # Dark
      PROVE  /\ frames' <= plan'.times
             /\ \A p \in Places, d \in 1 .. Patterns :
                   Meaning(plan'.option, p, d) =>
                       display' = <<PosAt(p, frames' - 1), CurAt(d, frames' - 1)>>
  BY DEF FrameIsPlanned, CurAt, PosAt, Meaning, Places, Dark
<1>3. FrameIsPlanned <=>
         (~raced /\ frames > 0 /\ display # Dark =>
            /\ frames <= plan.times
            /\ \A p \in Places, d \in 1 .. Patterns :
                  Meaning(plan.option, p, d) =>
                      display = <<PosAt(p, frames - 1), CurAt(d, frames - 1)>>)
  BY DEF FrameIsPlanned, CurAt, PosAt
<1>4. CASE ~TickFrame /\ ~TickRearm /\ ~ModuleInit /\ \A a \in Apps : ~WriteAdd(a)
  <2>1. ~raced /\ UNCHANGED <<plan, frames, display>>
    BY <1>2, <1>4, Undisturbed
  <2> QED
    BY <1>1, <1>2, <1>3, <2>1
<1>5. CASE TickFrame
  <2>1. /\ ~raced /\ timer /\ frames' = frames + 1 /\ plan' = plan /\ remain > 0
        /\ display' = <<pos, cur>>
    BY <1>2, <1>5 DEF TickFrame, Expired
  <2>2. plan.times \in Int /\ frames \in Int /\ remain \in Int /\ frames' - 1 = frames
    BY <1>1, <2>1 DEF TypeOK, Args
  <2>3. frames' <= plan'.times
    BY <1>1, <2>1, <2>2 DEF Counted
  <2> QED
    BY <1>1, <2>1, <2>2, <2>3 DEF Drawn
<1>6. CASE TickRearm
  <2>1. UNCHANGED <<plan, frames, raced, display>>
    BY <1>6 DEF TickRearm, ghosts
  <2> QED
    BY <1>1, <1>2, <1>3, <2>1
<1>7. ASSUME NEW a \in Apps, WriteAdd(a) PROVE FALSE
  <2>1. ~raced
    BY <1>2, <1>7 DEF WriteAdd
  <2> QED
    BY <1>2, <1>7, <2>1, Adds
<1>8. ~ModuleInit
  BY <1>2, NewModule
<1> QED
  BY <1>4, <1>5, <1>6, <1>7, <1>8

------------------------------------------------------------------------------
(***************************************************************************)
(* The theorems                                                            *)
(***************************************************************************)

LEMMA Inductive == Spec => []IInv
<1>1. ASSUME IInv, [Next]_vars PROVE IInv'
  BY <1>1, KeepsTypes, KeepsArgs, KeepsSessions, KeepsWriters, KeepsFields, KeepsTimers, KeepsLines,
     KeepsCounted, KeepsDrawn, KeepsLates, KeepsFrames, KeepsHasTimer, KeepsFaults DEF IInv
<1> QED
  BY <1>1, InitInv, PTL DEF Spec

\* Every variable of the driver, its users and the module's life cycle keeps its
\* type, and the lines of the LCD stay on the display unless two opens race.
THEOREM TypeCorrect == Spec => []TypeOK
<1>1. IInv => TypeOK
  BY DEF IInv
<1> QED
  BY <1>1, Inductive, PTL

\* Whatever the sizes, the arguments and the interleaving, every frame of a legal
\* option's animation is the one the option asks for, and there are no more than
\* the number of times: from the packing in the system call to the FND.
THEOREM FramesArePlanned == Spec => []FrameIsPlanned
<1>1. IInv => FrameIsPlanned
  BY DEF IInv
<1> QED
  BY <1>1, Inductive, PTL

\* A frame always has a timer that will take it away, a write under way that
\* will start one, or came while the module was being removed; and an animation
\* keeps its timer when an open blanks it.
THEOREM FramesHaveTimers == Spec => []FrameHasTimer
<1>1. IInv => FrameHasTimer
  BY DEF IInv
<1> QED
  BY <1>1, Inductive, PTL

\* A fault of the kernel has one of three causes: two opens at once, a timer or
\* a process that the removal of the module left behind, or an option that is not
\* legal.
THEOREM FaultsAreKnown == Spec => []OnlyKnownFaults
<1>1. IInv => OnlyKnownFaults
  BY DEF IInv
<1> QED
  BY <1>1, Inductive, PTL

------------------------------------------------------------------------------
(***************************************************************************)
(* The options                                                             *)
(***************************************************************************)

\* What the range test of test_device lets through and the driver then draws
\* outside fnd: the options whose digits, up to the last that is not zero, are
\* 1024 or more (get_input.c packs them into a byte and the position above it).
THEOREM OffTheFND ==
    ASSUME NEW option \in 1 .. MaxOption
    PROVE  Position(option) \in 0 .. 3 <=> Digits(option) < 1024
<1> DEFINE n == Digits(option)
           h == n \div 256
<1>1. n \in 0 .. MaxOption /\ StartPos(option) \in 0 .. 3
  <2>1. MaxOption \in Nat
    BY DEF MaxOption
  <2>2. n \in 0 .. MaxOption
    BY <2>1 DEF Digits
  <2> QED
    BY <2>2 DEF StartPos
<1>2. h \in 0 .. 31
  BY <1>1, TwoBytes
<1>3. n < 1024 <=> h < 4
  <2>1. \A m \in Nat : m < 1024 <=> m \div 256 < 4
    OBVIOUS
  <2>2. \A m \in 0 .. MaxOption : m \in Nat
    BY DEF MaxOption
  <2> HIDE DEF n
  <2> QED
    BY <1>1, <2>1, <2>2
<1> HIDE DEF n, h
<1>4. ASSUME NEW p \in 0 .. 3 PROVE OrPos(p, h) \in 0 .. 3 <=> h < 4
  BY <1>2 DEF OrPos
<1> QED
  BY <1>1, <1>3, <1>4 DEF Position, n, h

\* The legal options are those whose digits, up to the last that is not zero,
\* are one digit from 1 to 8: everything else the range test lets through is
\* drawn as something else.
THEOREM LegalByDigits ==
    ASSUME NEW option \in 1 .. MaxOption
    PROVE  (\E p \in 0 .. 3, d \in 1 .. 8 : Meaning(option, p, d)) <=> Digits(option) \in 1 .. 8
<1>1. ASSUME NEW p \in 0 .. 3, NEW d \in 1 .. 8, Meaning(option, p, d)
      PROVE  Digits(option) \in 1 .. 8
  <2>1. p = 0 \/ p = 1 \/ p = 2 \/ p = 3
    OBVIOUS
  <2>2. Digits(option) = d
    BY <1>1, <2>1 DEF Meaning, Digits
  <2> QED
    BY <2>2
<1>2. ASSUME Digits(option) \in 1 .. 8
      PROVE  \E p \in 0 .. 3, d \in 1 .. 8 : Meaning(option, p, d)
  <2>1. CASE option % 10 # 0
    <3>1. Meaning(option, 3, option) /\ option \in 1 .. 8
      BY <1>2, <2>1 DEF Digits, Meaning
    <3> QED
      BY <3>1
  <2>2. CASE option % 10 = 0 /\ option % 100 # 0
    <3>1. Meaning(option, 2, option \div 10) /\ option \div 10 \in 1 .. 8
      BY <1>2, <2>2 DEF Digits, Meaning
    <3> QED
      BY <3>1
  <2>3. CASE option % 10 = 0 /\ option % 100 = 0 /\ option % 1000 # 0
    <3>1. Meaning(option, 1, option \div 100) /\ option \div 100 \in 1 .. 8
      BY <1>2, <2>3 DEF Digits, Meaning
    <3> QED
      BY <3>1
  <2>4. CASE option % 10 = 0 /\ option % 100 = 0 /\ option % 1000 = 0
    <3>1. Meaning(option, 0, option \div 1000) /\ option \div 1000 \in 1 .. 8
      BY <1>2, <2>4 DEF Digits, Meaning
    <3> QED
      BY <3>1
  <2> QED
    BY <2>1, <2>2, <2>3, <2>4
<1> QED
  BY <1>1, <1>2

\* Called with legal options only: none is in a process's hands that is not,
\* and the frame that is due is on the FND.
OnlyLegal == \A o \in Options : (\E t \in Times : Accepts(o, t)) => Legal(o)
LegalArgs == \A a \in Apps : app[a] \in Called => Legal(arg[a].option)
LegalPlan == plan # NoArg => Legal(plan.option)
NextInRange == pos \in Places /\ cur \in 0 .. Patterns - 1

LEMMA InRangeInit == Init => LegalArgs /\ LegalPlan /\ NextInRange
  BY LedAssumption DEF Init, LegalArgs, Called, LegalPlan, NextInRange, Places

LEMMA InRangeNext ==
    ASSUME OnlyLegal, IInv, LegalArgs, LegalPlan, NextInRange, [Next]_vars
    PROVE  (LegalArgs /\ LegalPlan /\ NextInRange)'
<1>1. TypeOK
  BY DEF IInv
<1>2. NextInRange'
  <2>1. CASE UNCHANGED <<pos, cur>>
    BY <2>1 DEF NextInRange, Places
  <2>2. CASE TickFrame
    <3>1. Patterns \in Nat \ {0} /\ Positions \in Nat \ {0} /\ pos + 1 \in Nat /\ cur + 1 \in Nat
      BY LedAssumption DEF NextInRange, Places
    <3>2. (cur + 1) % Patterns \in 0 .. Patterns - 1 /\ (pos + 1) % Positions \in 0 .. Positions - 1
      BY <3>1, Division
    <3> QED
      BY <2>2, <3>2 DEF TickFrame, NextPos, NextInRange, Places
  <2>3. ASSUME NEW a \in Apps, WriteStart(a) PROVE NextInRange'
    <3>1. Legal(arg[a].option)
      BY <2>3 DEF WriteStart, Goto, LegalArgs, Called
    <3>2. PICK p \in Places, d \in 1 .. Patterns : Meaning(arg[a].option, p, d)
      BY <3>1 DEF Legal
    <3>3. Pattern(arg[a].option) = d /\ Position(arg[a].option) = p
      BY <3>2, Unpacked
    <3>4. d - 1 \in 0 .. Patterns - 1
      BY LedAssumption
    <3> QED
      BY <2>3, <3>3, <3>4 DEF WriteStart, NextInRange, Places
  <2>4. CASE ModuleInit
    BY <2>4, LedAssumption DEF ModuleInit, NextInRange, Places
  <2> QED
    BY <2>1, <2>2, <2>3, <2>4
       DEF vars, data, Next, Tick, TickEnd, WildWrite, WildText, TickRearm, TickUnmapped, Process,
           Launch, OpenBlank, OpenCheck, OpenClaim, OpenFails, WriteDelete, WriteMoves, WriteAdd,
           Release, Fault, ExitBlank, ExitUnmap, ExitTimer, ExitUnregister
<1>3. LegalArgs'
  <2>1. CASE UNCHANGED <<app, arg>>
    BY <2>1 DEF LegalArgs, Legal, Meaning, Places
  <2>2. ASSUME NEW a \in Apps, Launch(a) PROVE LegalArgs'
    <3>1. Legal(arg'[a].option) /\ \A b \in Apps \ {a} : arg'[b] = arg[b] /\ app'[b] = app[b]
      BY <1>1, <2>2 DEF Launch, Goto, OnlyLegal, TypeOK
    <3> QED
      BY <3>1 DEF LegalArgs, Legal, Meaning, Places
  <2>3. ASSUME NEW a \in Apps, NEW from, NEW to, Goto(a, from, to),
               \/ from \in Called /\ to \in Called /\ UNCHANGED arg
               \/ to \notin Called /\ \A b \in Apps \ {a} : arg'[b] = arg[b]
        PROVE  LegalArgs'
    BY <1>1, <2>3, Moved DEF LegalArgs, Legal, Meaning, Places
  <2>4. ASSUME NEW a \in Apps, Process(a) PROVE LegalArgs'
    <3>1. CASE OpenBlank(a)
      BY <2>3, <3>1 DEF OpenBlank, Called
    <3>2. CASE OpenCheck(a)
      BY <1>1, <2>3, <3>2 DEF OpenCheck, Called, TypeOK
    <3>3. CASE OpenClaim(a)
      BY <2>3, <3>3 DEF OpenClaim, Called
    <3>4. CASE OpenFails(a)
      BY <1>1, <2>3, <3>4 DEF OpenFails, Called, TypeOK
    <3>5. CASE WriteDelete(a)
      BY <2>3, <3>5 DEF WriteDelete, Called
    <3>6. CASE WriteStart(a)
      BY <2>3, <3>6 DEF WriteStart, Called
    <3>7. CASE WriteMoves(a)
      BY <2>3, <3>7 DEF WriteMoves, Called
    <3>8. CASE WriteAdd(a)
      BY <1>1, <2>3, <3>8 DEF WriteAdd, Called, TypeOK
    <3>9. CASE Release(a)
      BY <2>3, <3>9 DEF Release, Called
    <3> QED
      BY <2>1, <2>2, <2>4, <3>1, <3>2, <3>3, <3>4, <3>5, <3>6, <3>7, <3>8, <3>9 DEF Process, Fault
  <2> QED
    BY <2>1, <2>4
       DEF vars, Next, Tick, TickEnd, TickFrame, WildWrite, WildText, TickRearm, TickUnmapped,
           ExitBlank, ExitUnmap, ExitTimer, ExitUnregister, ModuleInit
<1>4. LegalPlan'
  <2>1. CASE UNCHANGED plan \/ plan' = NoArg
    BY <2>1 DEF LegalPlan, Legal, Meaning, Places
  <2>2. ASSUME NEW a \in Apps, WriteAdd(a) PROVE LegalPlan'
    <3>1. Legal(arg[a].option) /\ (plan' = NoArg \/ plan' = arg[a])
      BY <2>2 DEF WriteAdd, Goto, LegalArgs, Called
    <3> QED
      BY <3>1 DEF LegalPlan, Legal, Meaning, Places
  <2>3. ASSUME NEW a \in Apps, Process(a), ~WriteAdd(a) PROVE UNCHANGED plan \/ plan' = NoArg
    BY <2>3 DEF Process, Launch, OpenBlank, OpenCheck, OpenClaim, OpenFails, WriteDelete, WriteStart,
                WriteMoves, Release, Fault, ghosts
  <2> QED
    BY <2>1, <2>2, <2>3
       DEF vars, ghosts, Next, Tick, TickEnd, TickFrame, WildWrite, WildText, TickRearm,
           TickUnmapped, ExitBlank, ExitUnmap, ExitTimer, ExitUnregister, ModuleInit
<1> QED
  BY <1>2, <1>3, <1>4

LEMMA LegalStaysInRange ==
    ASSUME OnlyLegal
    PROVE  Spec => [](IInv /\ LegalArgs /\ LegalPlan /\ NextInRange)
<1>1. ASSUME IInv /\ LegalArgs /\ LegalPlan /\ NextInRange, [Next]_vars
      PROVE  (IInv /\ LegalArgs /\ LegalPlan /\ NextInRange)'
  BY <1>1, InRangeNext, KeepsTypes, KeepsArgs, KeepsSessions, KeepsWriters, KeepsFields, KeepsTimers,
     KeepsLines, KeepsCounted, KeepsDrawn, KeepsLates, KeepsFrames, KeepsHasTimer, KeepsFaults DEF IInv
<1>2. Init => IInv /\ LegalArgs /\ LegalPlan /\ NextInRange
  BY InitInv, InRangeInit
<1> QED
  BY <1>1, <1>2, PTL DEF Spec

\* With legal options every frame is on the FND, whatever opens, writes and
\* removals race: all that is missing is the test that an option is legal.
THEOREM LegalOptionsInRange ==
    ASSUME OnlyLegal
    PROVE  Spec => []OptionInRange
<1>1. NextInRange => OptionInRange
  BY DEF NextInRange, OptionInRange
<1> QED
  BY <1>1, LegalStaysInRange, PTL

\* ... and the system goes down only after two opens at once or with something
\* that the removal of the module left behind.
THEOREM LegalOptionsFaults ==
    ASSUME OnlyLegal
    PROVE  Spec => [](cpu = "oops" => raced \/ LeftBehind)
<1>1. IInv /\ LegalPlan => (cpu = "oops" => raced \/ LeftBehind)
  BY DEF IInv, OnlyKnownFaults, LegalPlan
<1> QED
  BY <1>1, LegalStaysInRange, PTL
==============================================================================
