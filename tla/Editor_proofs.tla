---------------------------- MODULE Editor_proofs ----------------------------
(***************************************************************************)
(* Proofs about the text editor: its types (the index stays in the text)   *)
(* and that it implements TextPad, for lines of any length.                *)
(***************************************************************************)
EXTENDS Editor, SequenceTheorems, TLAPS

CharSet == Buttons \X (0 .. 3) \cup {Nul, Blank, Junk}

\* As long as no key was taken for a letter, the text has no hole, and a button
\* that can turn its letter is the one that typed the last.
Filled == ~garbled => \A i \in Cells : text[i] # Nul <=> i <= text_idx
Turning ==
    prev # -1 /\ ~garbled =>
        prev \in Buttons /\ input_mod = "A" /\ text[text_idx] = Letter(prev, alpha_idx)

IInv == TypeOK /\ Filled /\ Turning

\* The first n + 1 characters as a sequence.
Line(t, n) == [i \in 1 .. n + 1 |-> t[i - 1]]

\* No character a button types is the terminator.
LEMMA Characters ==
    /\ \A b \in Buttons, turn \in 0 .. 3 : <<b, turn>> \in CharSet /\ <<b, turn>> # Nul
    /\ {Nul, Blank, Junk} \subseteq CharSet /\ Blank # Nul /\ Junk # Nul
    /\ -1 \notin Buttons \cup OtherKeys
  BY EditorAssumption DEF CharSet, Nul, Blank, Junk

LEMMA LineIsSeq ==
    ASSUME NEW t \in [Cells -> CharSet], NEW n \in -1 .. MaxText - 1
    PROVE  /\ Line(t, n) \in Seq(CharSet) /\ Len(Line(t, n)) = n + 1
           /\ \A i \in 1 .. n + 1 : Line(t, n)[i] = t[i - 1]
<1>1. n + 1 \in Nat /\ \A i \in 1 .. n + 1 : i - 1 \in Cells
  BY EditorAssumption DEF Cells
<1>2. Line(t, n) \in [1 .. n + 1 -> CharSet]
  BY <1>1 DEF Line
<1>3. Line(t, n) \in Seq(CharSet)
  BY <1>1, <1>2, SeqDef
<1>4. Len(Line(t, n)) = n + 1
  BY <1>1, <1>2, <1>3, LenProperties
<1> QED
  BY <1>3, <1>4 DEF Line

\* A text without a hole ends where the index says, and nowhere else.
EndOf(t) ==
    CHOOSE m \in 0 .. MaxText :
        /\ \A i \in Cells : i < m => t[i] # Nul
        /\ m < MaxText => t[m] = Nul
LEMMA EndIsUnique ==
    ASSUME NEW t \in [Cells -> CharSet], NEW n \in -1 .. MaxText - 1,
           \A i \in Cells : t[i] # Nul <=> i <= n
    PROVE  EndOf(t) = n + 1
<1> DEFINE P(m) == /\ \A i \in Cells : i < m => t[i] # Nul
                   /\ m < MaxText => t[m] = Nul
<1>1. MaxText \in Nat /\ n + 1 \in 0 .. MaxText /\ P(n + 1)
  BY EditorAssumption DEF Cells
<1>2. ASSUME NEW m \in 0 .. MaxText, P(m)
      PROVE  m = n + 1
  <2>1. ~(m < n + 1) /\ ~(n + 1 < m)
    BY <1>1, <1>2 DEF Cells
  <2> QED
    BY <1>1, <2>1
<1>3. EndOf(t) \in 0 .. MaxText /\ P(EndOf(t))
  BY <1>1 DEF EndOf
<1> QED
  BY <1>2, <1>3

\* What the LCD is sent, before and after a step.
LEMMA ShownIsLine ==
    /\ TypeOK /\ Filled /\ ~garbled => Shown = Line(text, text_idx)
    /\ TypeOK' /\ Filled' /\ ~garbled' => Shown' = Line(text', text_idx')
<1>1. ASSUME TypeOK, Filled, ~garbled
      PROVE  Shown = Line(text, text_idx)
  <2>1. EndOf(text) = text_idx + 1
    BY <1>1, EndIsUnique DEF TypeOK, Filled, CharSet
  <2>2. ShownLen = text_idx + 1
    BY <2>1 DEF ShownLen, EndOf
  <2> QED
    BY <1>1, <2>2 DEF Shown, Line
<1>2. ASSUME TypeOK', Filled', ~garbled'
      PROVE  Shown' = Line(text', text_idx')
  <2>1. EndOf(text') = text_idx' + 1
    BY <1>2, EndIsUnique DEF TypeOK, Filled, CharSet
  <2>2. ShownLen' = text_idx' + 1
    BY <2>1 DEF ShownLen, EndOf
  <2> QED
    BY <1>2, <2>2 DEF Shown, Line
<1> QED
  BY <1>1, <1>2

------------------------------------------------------------------------------
(***************************************************************************)
(* Putting a character at the end                                          *)
(***************************************************************************)

LEMMA PutTypes ==
    ASSUME TypeOK, NEW c \in CharSet, Put(c)
    PROVE  /\ text' \in [Cells -> CharSet] /\ text_idx' \in 0 .. MaxText - 1
           /\ text'[text_idx'] = c
<1>1. /\ text \in [Cells -> CharSet] /\ text_idx \in -1 .. MaxText - 1
      /\ MaxText \in Nat \ {0} /\ Nul \in CharSet
  BY EditorAssumption DEF TypeOK, CharSet
<1>2. CASE Full
  <2>1. Shifted \in [Cells -> CharSet]
    BY <1>1 DEF Shifted, Cells
  <2> QED
    BY <1>1, <1>2, <2>1 DEF Put, Full, Cells
<1>3. CASE ~Full
  BY <1>1, <1>3 DEF Put, Full, Cells
<1> QED
  BY <1>2, <1>3

\* Without a hole in the text, Put is TextPad's Typed.
LEMMA PutTypesOne ==
    ASSUME TypeOK, Filled, ~garbled, NEW c \in CharSet, c # Nul, Put(c)
    PROVE  /\ \A i \in Cells : text'[i] # Nul <=> i <= text_idx'
           /\ Line(text', text_idx') = Pad!Typed(c)
<1>1. /\ text \in [Cells -> CharSet] /\ text_idx \in -1 .. MaxText - 1
      /\ MaxText \in Nat \ {0}
  BY EditorAssumption DEF TypeOK, CharSet
<1>2. /\ Shown = Line(text, text_idx) /\ Shown \in Seq(CharSet)
      /\ Len(Shown) = text_idx + 1 /\ \A i \in 1 .. text_idx + 1 : Shown[i] = text[i - 1]
  BY <1>1, ShownIsLine, LineIsSeq
<1>3. /\ text' \in [Cells -> CharSet] /\ text_idx' \in 0 .. MaxText - 1
      /\ text'[text_idx'] = c
  BY PutTypes
<1>4. /\ Line(text', text_idx') \in Seq(CharSet) /\ Len(Line(text', text_idx')) = text_idx' + 1
      /\ \A i \in 1 .. text_idx' + 1 : Line(text', text_idx')[i] = text'[i - 1]
  <2>1. text_idx' \in -1 .. MaxText - 1
    BY <1>1, <1>3
  <2> QED
    BY <1>3, <2>1, LineIsSeq
<1>5. CASE Full
  <2>1. text_idx = MaxText - 1 /\ text_idx' = text_idx
    BY <1>5 DEF Full, Put
  <2>2. \A i \in Cells : ~CopyEnds(i)
    BY <1>1, <2>1 DEF CopyEnds, Filled, Cells
  <2>3. \A i \in Cells : text'[i] = IF i = MaxText - 1 THEN c ELSE text[i + 1]
    BY <1>1, <1>5, <2>1, <2>2 DEF Put, Shifted, Cells
  <2>4. \A i \in Cells : text'[i] # Nul <=> i <= text_idx'
    BY <1>1, <2>1, <2>3 DEF Filled, Cells
  <2>5. Len(Shown) = MaxText /\ Shown # <<>>
    BY <1>1, <1>2, <2>1, EmptySeq
  <2>6. /\ Tail(Shown) \in Seq(CharSet) /\ Len(Tail(Shown)) = MaxText - 1
        /\ \A i \in 1 .. MaxText - 1 : Tail(Shown)[i] = text[i]
    BY <1>1, <1>2, <2>1, <2>5, HeadTailProperties
  <2>7. /\ Append(Tail(Shown), c) \in Seq(CharSet) /\ Len(Append(Tail(Shown), c)) = MaxText
        /\ \A i \in 1 .. MaxText - 1 : Append(Tail(Shown), c)[i] = text[i]
        /\ Append(Tail(Shown), c)[MaxText] = c
    BY <1>1, <2>6, AppendProperties
  <2>8. \A i \in 1 .. MaxText : Line(text', text_idx')[i] = Append(Tail(Shown), c)[i]
    <3>1. SUFFICES ASSUME NEW i \in 1 .. MaxText
                   PROVE  Line(text', text_idx')[i] = Append(Tail(Shown), c)[i]
      OBVIOUS
    <3>2. i - 1 \in Cells /\ Line(text', text_idx')[i] = text'[i - 1]
      BY <1>1, <1>4, <2>1 DEF Cells
    <3>3. CASE i = MaxText
      BY <1>1, <2>3, <2>7, <3>2, <3>3
    <3>4. CASE i # MaxText
      <4>1. i \in 1 .. MaxText - 1 /\ i - 1 # MaxText - 1 /\ (i - 1) + 1 = i
        BY <1>1, <3>4
      <4> QED
        BY <2>3, <2>7, <3>2, <4>1
    <3> QED
      BY <3>3, <3>4
  <2>9. Line(text', text_idx') = Append(Tail(Shown), c)
    BY <1>1, <1>4, <2>1, <2>7, <2>8, SeqEqual
  <2> QED
    BY <2>4, <2>5, <2>9 DEF Pad!Typed
<1>6. CASE ~Full
  <2>1. /\ text_idx' = text_idx + 1 /\ text_idx + 1 \in Cells
        /\ \A i \in Cells : text'[i] = IF i = text_idx + 1 THEN c ELSE text[i]
    BY <1>1, <1>6 DEF Full, Put, Cells
  <2>2. \A i \in Cells : text'[i] # Nul <=> i <= text_idx'
    BY <1>1, <2>1 DEF Filled, Cells
  <2>3. Len(Shown) # MaxText
    BY <1>1, <1>2, <1>6 DEF Full
  <2>4. /\ Append(Shown, c) \in Seq(CharSet) /\ Len(Append(Shown, c)) = text_idx' + 1
        /\ \A i \in 1 .. text_idx' : Append(Shown, c)[i] = text[i - 1]
        /\ Append(Shown, c)[text_idx' + 1] = c
    BY <1>1, <1>2, <2>1, AppendProperties
  <2>5. \A i \in 1 .. text_idx' + 1 : Line(text', text_idx')[i] = Append(Shown, c)[i]
    BY <1>1, <1>4, <2>1, <2>4 DEF Cells
  <2>6. Line(text', text_idx') = Append(Shown, c)
    BY <1>4, <2>4, <2>5, SeqEqual
  <2> QED
    BY <2>2, <2>3, <2>6 DEF Pad!Typed
<1> QED
  BY <1>5, <1>6

------------------------------------------------------------------------------
(***************************************************************************)
(* The steps                                                               *)
(***************************************************************************)

SameOrStep == Pad!Next \/ UNCHANGED Pad!vars

\* The mode is entered, buttons change their meaning, and the text is cleared.
LEMMA QuietSteps ==
    ASSUME IInv, Enter \/ Toggle \/ Clear
    PROVE  IInv' /\ SameOrStep
<1>1. TypeOK /\ Filled /\ Turning
  BY DEF IInv
<1>2. CASE Enter \/ Toggle
  <2>1. TypeOK'
    BY <1>1, <1>2, EditorAssumption, Characters DEF TypeOK, Enter, Toggle, NextCnt, Running
  <2>2. Filled' /\ Turning'
    BY <1>1, <1>2 DEF Filled, Turning, Enter, Toggle
  <2>3. Shown' = Shown
    <3>1. text' = text /\ garbled' = garbled
      BY <1>2 DEF Enter, Toggle
    <3> QED
      BY <3>1 DEF Shown, ShownLen
  <2>4. Pad!Rest
    BY <1>2, <2>3 DEF Enter, Toggle, Pad!Rest
  <2> QED
    BY <2>1, <2>2, <2>4 DEF IInv, SameOrStep, Pad!Next
<1>3. CASE Clear
  <2>1. TypeOK'
    <3>1. text' = Empty /\ text_idx' = -1 /\ UNCHANGED input_mod
          /\ alpha_idx' = 0 /\ prev' = -1 /\ cnt' = 0 /\ garbled' = FALSE
      BY <1>3 DEF Clear
    <3>2. Empty \in [Cells -> Buttons \X (0 .. 3) \cup {Nul, Blank, Junk}]
      BY DEF Empty
    <3>3. 0 \in 0 .. MaxCnt - 1 /\ 0 \in 0 .. 2 /\ -1 \in -1 .. MaxText - 1
      BY EditorAssumption
    <3> QED
      BY <1>1, <3>1, <3>2, <3>3 DEF TypeOK
  <2>2. Filled' /\ Turning'
    BY <1>3 DEF Filled, Turning, Clear, Empty, Cells
  <2>3. Shown' = Line(text', text_idx') /\ text_idx' = -1 /\ ~garbled'
    BY <1>3, <2>1, <2>2, ShownIsLine DEF Clear
  <2>4. Shown' = <<>>
    <3>1. text' \in [Cells -> CharSet] /\ -1 \in -1 .. MaxText - 1
      BY <2>1, EditorAssumption DEF TypeOK, CharSet
    <3>2. Line(text', -1) \in Seq(CharSet) /\ Len(Line(text', -1)) = 0
      BY <3>1, LineIsSeq
    <3> QED
      BY <2>3, <3>2, EmptySeq
  <2>5. Pad!Clear
    BY <1>3, <2>4 DEF Clear, Pad!Clear
  <2> QED
    BY <2>1, <2>2, <2>5 DEF IInv, SameOrStep, Pad!Next
<1> QED
  BY <1>2, <1>3

\* What every typed character does, to a text that is not garbled.
LEMMA Typing ==
    ASSUME IInv, NEW c \in CharSet, c # Nul, Put(c), garbled' = garbled
    PROVE  /\ Filled'
           /\ ~garbled /\ TypeOK' => Shown' = Pad!Typed(c)
           /\ garbled => Shown' = Shown
<1>1. CASE garbled
  BY <1>1 DEF Filled, Shown
<1>2. CASE ~garbled
  <2>1. Filled' /\ Line(text', text_idx') = Pad!Typed(c)
    BY <1>2, PutTypesOne DEF IInv, Filled
  <2> QED
    BY <1>2, <2>1, ShownIsLine
<1> QED
  BY <1>1, <1>2

\* A blank, a digit, and a key taken for a digit.
LEMMA OtherCharacters ==
    ASSUME IInv, Space \/ KeyAsDigit \/ \E b \in Buttons : NumberKey(b)
    PROVE  IInv' /\ SameOrStep
<1>1. PICK c \in CharSet :
        /\ c # Nul /\ c \in Pad!Chars /\ Put(c) /\ (c[2] = 3 => input_mod = "1")
        /\ garbled' = garbled /\ input_mod' = input_mod /\ alpha_idx' = alpha_idx
        /\ prev' \in {prev, -1} /\ (input_mod # "1" => prev' = -1) /\ cnt' = NextCnt
  <2>1. CASE Space
    BY <2>1, Characters DEF Space, Blank, Pad!Chars, Pad!Blank
  <2>2. CASE KeyAsDigit
    BY <2>2, Characters DEF KeyAsDigit, Junk, Pad!Chars, Pad!Junk
  <2>3. CASE \E b \in Buttons : NumberKey(b)
    <3>1. PICK b \in Buttons : NumberKey(b)
      BY <2>3
    <3>2. Digit(b) \in CharSet /\ Digit(b) # Nul /\ Digit(b) \in Pad!Chars
      <4>1. 3 \in 0 .. 3
        OBVIOUS
      <4> QED
        BY <4>1, Characters DEF Digit, Pad!Chars
    <3> QED
      BY <3>1, <3>2 DEF NumberKey
  <2> QED
    BY <2>1, <2>2, <2>3
<1>2. TypeOK'
  BY <1>1, PutTypes, EditorAssumption, Characters DEF IInv, TypeOK, CharSet, NextCnt
<1>3. /\ Filled' /\ (~garbled => Shown' = Pad!Typed(c)) /\ (garbled => Shown' = Shown)
  BY <1>1, <1>2, Typing
<1>4. prev' = -1 \/ garbled
  BY <1>1 DEF IInv, Turning
<1>5. Turning'
  BY <1>1, <1>4 DEF Turning
<1>6. CASE garbled
  BY <1>1, <1>2, <1>3, <1>5, <1>6 DEF IInv, SameOrStep, Pad!vars
<1>7. CASE ~garbled
  <2>1. Pad!TypeOther(c) /\ (c[2] = 3 => ~(input_mod # "1"))
    BY <1>1, <1>3, <1>4, <1>7 DEF Pad!TypeOther, Pad!Add
  <2> QED
    BY <1>1, <1>2, <1>3, <1>5, <2>1 DEF IInv, SameOrStep, Pad!Next
<1> QED
  BY <1>6, <1>7

\* A button types its first letter ...
LEMMA NewLetters ==
    ASSUME IInv, NEW b \in Buttons, NewLetter(b)
    PROVE  IInv' /\ SameOrStep
<1>1. Letter(b, 0) \in CharSet /\ Letter(b, 0) # Nul /\ Put(Letter(b, 0))
  <2>1. Put(Letter(b, 0))
    BY DEF NewLetter
  <2>2. 0 \in 0 .. 3
    OBVIOUS
  <2> QED
    BY <2>1, <2>2, Characters DEF Letter
<1>2. TypeOK' /\ text'[text_idx'] = Letter(b, 0)
  BY <1>1, PutTypes, EditorAssumption, Characters DEF IInv, TypeOK, CharSet, NextCnt, NewLetter
<1>3. /\ Filled' /\ (~garbled => Shown' = Pad!Typed(Letter(b, 0)))
      /\ (garbled => Shown' = Shown)
  BY <1>1, <1>2, Typing DEF NewLetter
<1>4. Turning'
  BY <1>2 DEF Turning, NewLetter
<1>5. CASE garbled
  BY <1>2, <1>3, <1>4, <1>5 DEF IInv, SameOrStep, Pad!vars, NewLetter
<1>6. CASE ~garbled
  <2>1. ~Pad!CanTurn(b)
    <3>1. SUFFICES ASSUME prev # -1 PROVE Shown[Len(Shown)][1] # b
      BY <1>6 DEF Pad!CanTurn
    <3>2. text_idx \in 0 .. MaxText - 1 /\ text[text_idx] = Letter(prev, alpha_idx)
      BY <1>6, <3>1 DEF IInv, TypeOK, Turning
    <3>3. Shown = Line(text, text_idx) /\ text \in [Cells -> CharSet]
      BY <1>6, ShownIsLine DEF IInv, TypeOK, CharSet
    <3>4. Len(Shown) = text_idx + 1 /\ Shown[text_idx + 1] = text[(text_idx + 1) - 1]
      BY <3>2, <3>3, LineIsSeq
    <3> QED
      BY <3>2, <3>4 DEF NewLetter, Letter
  <2>2. Pad!Type(b)
    BY <1>2, <1>3, <1>6, <2>1, Characters
       DEF NewLetter, Pad!Type, Pad!Add, Pad!Letter, Letter
  <2> QED
    BY <1>2, <1>3, <1>4, <2>2 DEF IInv, SameOrStep, Pad!Next
<1> QED
  BY <1>5, <1>6

\* ... and turns it.
LEMMA TurnedLetters ==
    ASSUME IInv, NEW b \in Buttons, TurnLetter(b)
    PROVE  IInv' /\ SameOrStep
<1>1. /\ b # -1 /\ prev = b /\ text_idx \in Cells /\ text \in [Cells -> CharSet]
      /\ alpha_idx \in 0 .. 2 /\ alpha_idx' \in 0 .. 2 /\ alpha_idx' = (alpha_idx + 1) % 3
      /\ text' = [text EXCEPT ![text_idx] = Letter(b, alpha_idx')]
      /\ Letter(b, alpha_idx') \in CharSet /\ Letter(b, alpha_idx') # Nul
  <2>1. /\ prev = b /\ alpha_idx' = (alpha_idx + 1) % 3
        /\ text' = [text EXCEPT ![text_idx] = Letter(b, alpha_idx')]
    BY DEF TurnLetter
  <2>2. /\ b # -1 /\ text_idx \in Cells /\ text \in [Cells -> CharSet]
        /\ alpha_idx \in 0 .. 2 /\ alpha_idx' \in 0 .. 2 /\ alpha_idx' \in 0 .. 3
    BY <2>1, Characters, EditorAssumption DEF IInv, TypeOK, Cells, CharSet
  <2>3. Letter(b, alpha_idx') \in CharSet /\ Letter(b, alpha_idx') # Nul
    BY <2>2, Characters DEF Letter
  <2> QED
    BY <2>1, <2>2, <2>3
<1>2. TypeOK'
  BY <1>1, EditorAssumption DEF IInv, TypeOK, CharSet, NextCnt, TurnLetter
<1>3. Filled' /\ Turning'
  <2>1. text_idx' = text_idx /\ prev' = prev /\ garbled' = garbled
        /\ input_mod = "A" /\ input_mod' = "A"
    BY DEF TurnLetter
  <2>2. text[text_idx] # Nul \/ garbled
    BY <1>1, Characters DEF IInv, Filled, Cells
  <2>3. \A i \in Cells : text'[i] = IF i = text_idx THEN Letter(b, alpha_idx') ELSE text[i]
    BY <1>1
  <2>4. Filled'
    BY <1>1, <2>1, <2>2, <2>3 DEF IInv, Filled, Cells
  <2> QED
    BY <1>1, <2>1, <2>3, <2>4 DEF Turning
<1>4. CASE garbled
  <2>1. Shown' = Shown
    BY <1>4 DEF Shown, TurnLetter
  <2> QED
    BY <1>2, <1>3, <1>4, <2>1 DEF IInv, SameOrStep, Pad!vars, TurnLetter
<1>5. CASE ~garbled
  <2>1. text_idx \in -1 .. MaxText - 1 /\ text_idx' = text_idx /\ text' \in [Cells -> CharSet]
    BY <1>1 DEF IInv, TypeOK, TurnLetter
  <2>2. /\ Shown \in Seq(CharSet) /\ Len(Shown) = text_idx + 1
        /\ \A i \in 1 .. text_idx + 1 : Shown[i] = text[i - 1]
    BY <1>1, <1>5, <2>1, ShownIsLine, LineIsSeq DEF IInv
  <2>3. /\ Shown' \in Seq(CharSet) /\ Len(Shown') = text_idx + 1
        /\ \A i \in 1 .. text_idx + 1 : Shown'[i] = text'[i - 1]
    <3>1. garbled' = garbled
      BY DEF TurnLetter
    <3>2. Shown' = Line(text', text_idx)
      BY <1>2, <1>3, <1>5, <2>1, <3>1, ShownIsLine
    <3> QED
      BY <2>1, <3>2, LineIsSeq
  <2>4. text_idx + 1 \in 1 .. Len(Shown) /\ (text_idx + 1) - 1 = text_idx
    BY <1>1, <2>2 DEF Cells
  <2>5. Shown[Len(Shown)] = Letter(b, alpha_idx)
    BY <1>1, <1>5, <2>2, <2>4 DEF IInv, Turning
  <2> DEFINE turned == [Shown EXCEPT ![Len(Shown)] = Letter(b, alpha_idx')]
  <2>6. /\ turned \in Seq(CharSet) /\ Len(turned) = text_idx + 1
        /\ \A i \in 1 .. text_idx + 1 :
              turned[i] = IF i = text_idx + 1 THEN Letter(b, alpha_idx') ELSE Shown[i]
    BY <1>1, <2>2, <2>4, ExceptSeq
  <2>7. ASSUME NEW i \in 1 .. text_idx + 1 PROVE Shown'[i] = turned[i]
    <3>1. i - 1 \in Cells /\ (i - 1 = text_idx <=> i = text_idx + 1)
      BY <1>1, EditorAssumption DEF Cells
    <3> QED
      BY <1>1, <2>2, <2>3, <2>6, <3>1
  <2> HIDE DEF turned
  <2>8. Shown' = turned
    BY <2>3, <2>6, <2>7, SeqEqual
  <2>9. Pad!Turn(b)
    BY <1>1, <1>5, <2>5, <2>8 DEF TurnLetter, Pad!Turn, Pad!CanTurn, Pad!Letter, Letter, turned
  <2> QED
    BY <1>2, <1>3, <2>9 DEF IInv, SameOrStep, Pad!Next
<1> QED
  BY <1>4, <1>5

\* A key that is not a button, taken for a letter.
LEMMA KeysAsLetters ==
    ASSUME IInv, NEW k \in OtherKeys, KeyAsLetter(k)
    PROVE  IInv' /\ SameOrStep
<1>1. /\ text' \in [Cells -> CharSet] /\ text_idx' \in 0 .. MaxText - 1
      /\ alpha_idx' \in 0 .. 2
  <2>1. PICK c \in {Nul, Junk} :
          IF prev = k
          THEN /\ alpha_idx' = (alpha_idx + 1) % 3
               /\ text' = [text EXCEPT ![text_idx] = c]
               /\ UNCHANGED text_idx
          ELSE alpha_idx' = 0 /\ Put(c)
    BY DEF KeyAsLetter
  <2>2. c \in CharSet
    BY Characters
  <2>3. CASE prev = k
    <3>1. text_idx \in 0 .. MaxText - 1
      BY <2>3, Characters DEF IInv, TypeOK
    <3> QED
      BY <2>1, <2>2, <2>3, <3>1 DEF IInv, TypeOK, CharSet, Cells
  <2>4. CASE prev # k
    BY <2>1, <2>2, <2>4, PutTypes DEF IInv
  <2> QED
    BY <2>3, <2>4
<1>2. TypeOK'
  BY <1>1, EditorAssumption DEF IInv, TypeOK, CharSet, NextCnt, KeyAsLetter
<1>3. Filled' /\ Turning'
  BY DEF Filled, Turning, KeyAsLetter
<1>4. Pad!Garble
  BY DEF KeyAsLetter, Pad!Garble, Shown
<1> QED
  BY <1>2, <1>3, <1>4 DEF IInv, SameOrStep, Pad!Next

LEMMA Step ==
    ASSUME IInv, [Next]_vars
    PROVE  IInv' /\ SameOrStep
<1>1. CASE UNCHANGED vars
  BY <1>1 DEF IInv, TypeOK, Filled, Turning, SameOrStep, Pad!vars, Shown, ShownLen, vars
<1>2. CASE Next
  BY <1>2, QuietSteps, OtherCharacters, NewLetters, TurnedLetters, KeysAsLetters
     DEF Next, Single
<1> QED
  BY <1>1, <1>2

LEMMA Initial == Init => IInv /\ Pad!Init
<1> SUFFICES ASSUME Init PROVE IInv /\ Pad!Init
  OBVIOUS
<1>1. TypeOK
  <2>1. Empty \in [Cells -> Buttons \X (0 .. 3) \cup {Nul, Blank, Junk}]
    BY DEF Empty
  <2>2. 0 \in 0 .. MaxCnt - 1 /\ 0 \in 0 .. 2 /\ -1 \in -1 .. MaxText - 1
    BY EditorAssumption
  <2> QED
    BY <2>1, <2>2 DEF Init, TypeOK
<1>2. Filled /\ Turning
  BY DEF Init, Filled, Turning, Empty, Cells
<1>3. Shown = Line(text, -1) /\ text \in [Cells -> CharSet] /\ -1 \in -1 .. MaxText - 1
  BY <1>1, <1>2, ShownIsLine, EditorAssumption DEF Init, TypeOK, CharSet
<1>4. Shown = <<>>
  BY <1>3, LineIsSeq, EmptySeq
<1> QED
  BY <1>1, <1>2, <1>4 DEF IInv, Init, Pad!Init

------------------------------------------------------------------------------
(***************************************************************************)
(* The theorems                                                            *)
(***************************************************************************)

\* Every variable keeps its type for every length of the text: no order of
\* buttons writes in front of it or behind it (editor.c:63).
THEOREM TypeCorrect == Spec => []TypeOK
<1>1. Init => IInv
  BY Initial
<1>2. IInv /\ [Next]_vars => IInv'
  BY Step
<1>3. IInv => TypeOK
  BY DEF IInv
<1> QED
  BY <1>1, <1>2, <1>3, PTL DEF Spec

\* editor.c implements TextPad for every length of the text and every set of
\* buttons and keys.
THEOREM ImplementsTextPad == Spec => TypesText
<1>1. Init => IInv /\ Pad!Init
  BY Initial
<1>2. IInv /\ [Next]_vars => IInv' /\ [Pad!Next]_(Pad!vars)
  BY Step DEF SameOrStep
<1> QED
  BY <1>1, <1>2, PTL DEF Spec, TypesText, Pad!Spec
==============================================================================
