-------------------------------- MODULE Text --------------------------------
(***************************************************************************)
(* What a text editor promises: a text and a caret.  What is typed goes in *)
(* at the caret, which moves behind it; erasing takes the character in     *)
(* front of the caret; everything else moves the caret and no more, or     *)
(* starts over with an empty text or with the one of a window just opened. *)
(***************************************************************************)
EXTENDS Naturals, SequencesExt

CONSTANT Char

VARIABLES
  open,     \* whether there is a window
  text,     \* a sequence of characters
  caret     \* how many of them are in front of the caret

Init == ~open /\ text = <<>> /\ caret = 0

Open == ~open /\ open' /\ text' \in Seq(Char) /\ caret' = 0

Close == open /\ ~open' /\ text' = <<>> /\ caret' = 0

Type ==
  /\ open /\ UNCHANGED open
  /\ \E c \in Char : text' = InsertAt(text, caret + 1, c)
  /\ caret' = caret + 1

Erase ==
  /\ open /\ UNCHANGED open
  /\ caret > 0
  /\ text' = RemoveAt(text, caret)
  /\ caret' = caret - 1

Clear == open /\ UNCHANGED open /\ text' = <<>> /\ caret' = 0

Move == open /\ UNCHANGED <<open, text>> /\ caret' \in 0..Len(text)

Next == Open \/ Close \/ Type \/ Erase \/ Clear \/ Move

Spec == Init /\ [][Next]_<<open, text, caret>>
=============================================================================
