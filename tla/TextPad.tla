------------------------------- MODULE TextPad -------------------------------
(***************************************************************************)
(* What the text editor of hw1 promises its user (editor.c): a line of at  *)
(* most MaxText characters.  A button types its first letter, and turns    *)
(* that letter as long as nothing else is done; a full line loses its      *)
(* first character.  There is no index and no count of turns.  A key that  *)
(* is not a button may garble the line, until it is cleared.               *)
(***************************************************************************)
EXTENDS Integers, Sequences

CONSTANTS
    MaxText,   \* 32
    Buttons    \* 1 .. 9

VARIABLES
    line,      \* the characters, first to last
    open,      \* the last letter can still be turned
    letters,   \* buttons type letters, not digits
    garbled    \* nothing is known of the line

vars == <<line, open, letters, garbled>>

\* A character is a button and what it stands for: one of its three letters, its
\* digit (3), or, with 0 for the button, a blank or what no button types.
Letter(b, turn) == <<b, turn>>
Digit(b) == <<b, 3>>
Nul == <<0, 0>>
Blank == <<0, 1>>
Junk == <<0, 2>>
Chars == Buttons \X (0 .. 3) \cup {Blank, Junk}

Init == line = <<>> /\ open = FALSE /\ letters = TRUE /\ garbled = FALSE

\* Character c at the end of the line.
Typed(c) == Append(IF Len(line) = MaxText THEN Tail(line) ELSE line, c)
Add(c) == line' = Typed(c)

CanTurn(b) == open /\ line[Len(line)][1] = b

Type(b) ==
    /\ ~garbled /\ letters /\ ~CanTurn(b)
    /\ Add(Letter(b, 0)) /\ open' = TRUE
    /\ UNCHANGED <<letters, garbled>>

Turn(b) ==
    /\ ~garbled /\ letters /\ CanTurn(b)
    /\ line' = [line EXCEPT ![Len(line)] = Letter(b, (@[2] + 1) % 3)]
    /\ UNCHANGED <<open, letters, garbled>>

\* A digit, a blank, or a key taken for a digit.
TypeOther(c) ==
    /\ ~garbled /\ Add(c) /\ open' = FALSE
    /\ UNCHANGED <<letters, garbled>>

\* The last letter is done with, and the buttons may change their meaning.
Rest ==
    /\ open' = FALSE /\ letters' \in BOOLEAN
    /\ UNCHANGED <<line, garbled>>

Clear ==
    /\ line' = <<>> /\ open' = FALSE /\ garbled' = FALSE
    /\ UNCHANGED letters

\* A key that is not a button, typed as a letter.
Garble ==
    /\ letters
    /\ line' = <<>> /\ open' = FALSE /\ garbled' = TRUE
    /\ UNCHANGED letters

Next ==
    \/ \E b \in Buttons : Type(b) \/ Turn(b)
    \/ \E c \in Chars : (c[2] = 3 => ~letters) /\ TypeOther(c)
    \/ Rest \/ Clear \/ Garble

Spec == Init /\ [][Next]_vars
==============================================================================
