----------------------------- MODULE LineEditor -----------------------------
(***************************************************************************)
(* What terminal_read promises its caller on one terminal: a line that is  *)
(* typed, corrected with backspaces and ended with Enter.                  *)
(***************************************************************************)
EXTENDS Naturals, Sequences

CONSTANTS Max, Chars, Sizes

VARIABLES state, line

vars == <<state, line>>

Init == state = "idle" /\ line = <<>>

Open == state = "idle" /\ state' = "open" /\ line' = <<>>

Type ==
  /\ state = "open" /\ Len(line) < Max
  /\ \E c \in Chars : line' = Append(line, c)
  /\ UNCHANGED state

(* A backspace takes the last character, from a full line the last two:    *)
(* the blank it draws is refused by the limit.                             *)
Erase ==
  /\ state = "open" /\ line # <<>>
  /\ line' = SubSeq(line, 1, IF Len(line) = Max THEN Max - 2 ELSE Len(line) - 1)
  /\ UNCHANGED state

Enter == state = "open" /\ state' = "ended" /\ UNCHANGED line

(* The caller gets the line, cut to the bytes it asked for and to one less *)
(* than the limit.                                                         *)
Deliver ==
  /\ state = "ended" /\ state' = "idle"
  /\ \E n \in Sizes : line' = SubSeq(line, 1, IF n < Len(line) /\ n < Max THEN n
                                              ELSE IF Len(line) < Max THEN Len(line)
                                              ELSE Max - 1)

Forget == state' = "idle" /\ line' = <<>>

Next == Open \/ Type \/ Erase \/ Enter \/ Deliver \/ Forget

Spec == Init /\ [][Next]_vars
=============================================================================
