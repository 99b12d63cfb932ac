----------------------------- MODULE BlinkList ------------------------------
(***************************************************************************)
(* What the blinking characters of fish promise, without slots, pointers   *)
(* and words: a sequence of blinks, the newest first.  A location names    *)
(* the newest blink there.                                                 *)
(***************************************************************************)
EXTENDS Integers, Sequences

CONSTANTS Adds,       \* what can be added: loc, on and off character, lengths
          Valid,      \* locations on the screen
          Wanted,     \* locations asked for
          MaxBlinks,
          Ticks(_)    \* ticks a length stands for

VARIABLES blinks,     \* loc, chars and lens of the phases, phase (1 on, 2 off), left
          shown,      \* what was last drawn at each location
          ret

vars == <<blinks, shown, ret>>

At(loc)  == {i \in 1 .. Len(blinks) : blinks[i].loc = loc}
First(loc) == CHOOSE i \in At(loc) : \A j \in At(loc) : i <= j
Fail == ret' = -1 /\ UNCHANGED <<blinks, shown>>

Init == blinks = <<>> /\ shown = [l \in Valid |-> " "] /\ ret = 0

Add(a) ==
  IF a.loc \notin Valid \/ Len(blinks) = MaxBlinks THEN Fail
  ELSE /\ blinks' = <<[loc |-> a.loc, chars |-> a.chars, lens |-> a.lens, phase |-> 1,
                       left |-> Ticks(a.lens[1])]>> \o blinks
       /\ shown' = [shown EXCEPT ![a.loc] = a.chars[1]]
       /\ ret' = 0

Without(s, i) == [j \in 1 .. Len(s) - 1 |-> IF j < i THEN s[j] ELSE s[j + 1]]
Remove(loc) ==
  IF At(loc) = {} THEN Fail
  ELSE blinks' = Without(blinks, First(loc)) /\ ret' = 0 /\ UNCHANGED shown

Find(loc) == ret' = (IF At(loc) = {} THEN -1 ELSE 0) /\ UNCHANGED <<blinks, shown>>

(* The blink at d takes over the rhythm of the one at s and draws its off  *)
(* character.                                                              *)
Sync(s, d) ==
  IF At(s) = {} \/ At(d) = {} THEN Fail
  ELSE LET a == blinks[First(s)]
           b == blinks[First(d)]
       IN  /\ blinks' = [blinks EXCEPT ![First(d)] =
                           [b EXCEPT !.lens = a.lens, !.phase = a.phase, !.left = a.left]]
           /\ shown' = [shown EXCEPT ![d] = b.chars[2]]
           /\ ret' = 0

(* One tick: each blink changes when its time is over.  The oldest blink   *)
(* at a location draws last.                                               *)
Turned(b) == [b EXCEPT !.phase = 3 - @, !.left = Ticks(b.lens[3 - b.phase])]
Tick ==
  /\ blinks' = [i \in 1 .. Len(blinks) |->
                  IF blinks[i].left = 1 THEN Turned(blinks[i])
                  ELSE [blinks[i] EXCEPT !.left = @ - 1]]
  /\ shown' = [l \in Valid |->
                 LET now == {i \in At(l) : blinks[i].left = 1}
                     b   == blinks'[CHOOSE i \in now : \A j \in now : j <= i]
                 IN  IF now = {} THEN shown[l] ELSE b.chars[b.phase]]
  /\ UNCHANGED ret

Next ==
  \/ \E a \in Adds : Add(a)
  \/ \E l \in Wanted : Remove(l) \/ Find(l)
  \/ \E s, d \in Wanted : Sync(s, d)
  \/ Tick

Spec == Init /\ [][Next]_vars
=============================================================================
