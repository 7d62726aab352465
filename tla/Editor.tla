------------------------------- MODULE Editor --------------------------------
(***************************************************************************)
(* The text editor of hw1 as it is (editor.c): an array of characters with *)
(* an index, the button pressed before and the turn of its letter.  It     *)
(* implements TextPad.                                                     *)
(***************************************************************************)
EXTENDS Integers, Sequences

CONSTANTS
    MaxText,       \* MAX_TEXT, 32
    MaxCnt,        \* 10000
    Buttons,       \* 1 .. 9
    OtherKeys      \* key codes main passes on like buttons: home 102, prog 116

ASSUME EditorAssumption ==
    /\ MaxText \in Nat \ {0} /\ MaxCnt \in Nat \ {0}
    /\ Buttons \subseteq Nat \ {0} /\ OtherKeys \subseteq Nat \ {0}
    /\ Buttons \cap OtherKeys = {}

VARIABLES
    text,        \* text, without the terminator that is never written
    text_idx,    \* text_idx
    input_mod,   \* input_mod: "none" before the first call, then "A" or "1"
    alpha_idx,   \* alpha_idx
    prev,        \* prev, -1 for none
    cnt,         \* cnt
    \* History, read by the refinement only:
    garbled      \* a key was typed as a letter since the last clear

vars == <<text, text_idx, input_mod, alpha_idx, prev, cnt, garbled>>

\* The characters of TextPad, and the terminator.
Letter(b, turn) == <<b, turn>>
Digit(b) == <<b, 3>>
Nul == <<0, 0>>
Blank == <<0, 1>>
Junk == <<0, 2>>

Cells == 0 .. MaxText - 1
Empty == [i \in Cells |-> Nul]

Init ==
    /\ text = Empty /\ text_idx = -1
    /\ input_mod = "none" /\ alpha_idx = 0 /\ prev = -1 /\ cnt = 0
    /\ garbled = FALSE

Running == input_mod # "none"

NextCnt == (cnt + 1) % MaxCnt

\* The mode is entered, for the first time or again.
Enter ==
    /\ input_mod' = IF Running THEN input_mod ELSE "A"
    /\ prev' = -1
    /\ UNCHANGED <<text, text_idx, alpha_idx, cnt, garbled>>

\* Buttons 5 and 6.
Toggle ==
    /\ Running
    /\ input_mod' = IF input_mod = "A" THEN "1" ELSE "A"
    /\ cnt' = NextCnt
    /\ prev' = -1 /\ alpha_idx' = 0
    /\ UNCHANGED <<text, text_idx, garbled>>

\* Buttons 2 and 3.
Clear ==
    /\ Running
    /\ text' = Empty /\ text_idx' = -1
    /\ alpha_idx' = 0 /\ prev' = -1 /\ cnt' = 0
    /\ garbled' = FALSE
    /\ UNCHANGED input_mod

\* strcpy(text, text + 1): everything up to the next terminator moves, and the
\* terminator with it.
CopyEnds(i) == \E j \in Cells : 1 <= j /\ j <= i /\ text[j] = Nul
Shifted ==
    [i \in Cells |->
        IF CopyEnds(i) THEN text[i] ELSE IF i = MaxText - 1 THEN Nul ELSE text[i + 1]]

\* text[++text_idx] = c, on a full line after a shift; mutant: one too late.
FullLate == text_idx = MaxText
Full == text_idx = MaxText - 1
Put(c) ==
    IF Full
    THEN text' = [Shifted EXCEPT ![text_idx] = c] /\ UNCHANGED text_idx
    ELSE text' = [text EXCEPT ![text_idx + 1] = c] /\ text_idx' = text_idx + 1

\* Mutant: the last letter can still be turned.
SpaceKeepsPrev ==
    /\ Running
    /\ Put(Blank)
    /\ cnt' = NextCnt
    /\ UNCHANGED <<input_mod, alpha_idx, prev, garbled>>

\* Buttons 8 and 9.
Space ==
    /\ Running
    /\ Put(Blank)
    /\ cnt' = NextCnt /\ prev' = -1
    /\ UNCHANGED <<input_mod, alpha_idx, garbled>>

\* Button b in the letter mode: the same button turns its letter.
TurnLetter(b) ==
    /\ input_mod = "A" /\ prev = b
    /\ alpha_idx' = (alpha_idx + 1) % 3
    /\ text' = [text EXCEPT ![text_idx] = Letter(b, alpha_idx')]
    /\ cnt' = NextCnt
    /\ UNCHANGED <<text_idx, input_mod, prev, garbled>>

NewLetter(b) ==
    /\ input_mod = "A" /\ prev # b
    /\ alpha_idx' = 0
    /\ Put(Letter(b, 0))
    /\ prev' = b /\ cnt' = NextCnt
    /\ UNCHANGED <<input_mod, garbled>>

NumberKey(b) ==
    /\ input_mod = "1"
    /\ Put(Digit(b))
    /\ cnt' = NextCnt
    /\ UNCHANGED <<input_mod, alpha_idx, prev, garbled>>

\* Key k, taken for a button: alphas has no such row, and what is read behind
\* it may be any character and no character.
KeyAsLetter(k) ==
    /\ input_mod = "A"
    /\ \E c \in {Nul, Junk} :
        IF prev = k
        THEN /\ alpha_idx' = (alpha_idx + 1) % 3
             /\ text' = [text EXCEPT ![text_idx] = c]
             /\ UNCHANGED text_idx
        ELSE alpha_idx' = 0 /\ Put(c)
    /\ prev' = k /\ cnt' = NextCnt
    /\ garbled' = TRUE
    /\ UNCHANGED input_mod

\* '0' + k is not a digit, but it is a character.
KeyAsDigit ==
    /\ input_mod = "1"
    /\ Put(Junk)
    /\ cnt' = NextCnt
    /\ UNCHANGED <<input_mod, alpha_idx, prev, garbled>>

\* A message about one button; about two others than those above it changes
\* nothing, and nor does a tick.
Single(b) == TurnLetter(b) \/ NewLetter(b) \/ NumberKey(b)

Next ==
    \/ Enter
    \/ Toggle \/ Clear \/ Space
    \/ \E b \in Buttons : Single(b)
    \/ \E k \in OtherKeys : KeyAsLetter(k) \/ KeyAsDigit

Spec == Init /\ [][Next]_vars

------------------------------------------------------------------------------
(***************************************************************************)
(* Properties                                                              *)
(***************************************************************************)

\* Every variable has its type; the index stays in the text, also when the
\* same button is pressed again.
TypeOK ==
    /\ text \in [Cells -> Buttons \X (0 .. 3) \cup {Nul, Blank, Junk}]
    /\ text_idx \in -1 .. MaxText - 1
    /\ input_mod \in {"none", "A", "1"}
    /\ alpha_idx \in 0 .. 2
    /\ prev \in Buttons \cup OtherKeys \cup {-1}
    /\ prev # -1 => text_idx >= 0
    /\ cnt \in 0 .. MaxCnt - 1
    /\ garbled \in BOOLEAN

\* What the LCD is sent: the text up to its first terminator.
ShownLen ==
    CHOOSE n \in 0 .. MaxText :
        /\ \A i \in Cells : i < n => text[i] # Nul
        /\ n < MaxText => text[n] = Nul
Shown == IF garbled THEN <<>> ELSE [i \in 1 .. ShownLen |-> text[i - 1]]

Pad == INSTANCE TextPad WITH
           line <- Shown, open <- (prev # -1 /\ ~garbled), letters <- (input_mod # "1")

\* However buttons, chords and changes of mode alternate, the line on the LCD
\* is the one TextPad promises: no letter is lost, turned or typed over but the
\* last one, whose turn alpha_idx knows, and the line never ends early.
TypesText == Pad!Spec
==============================================================================
