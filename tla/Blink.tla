------------------------------- MODULE Blink --------------------------------
(***************************************************************************)
(* The blinking characters of fish (fish/blink.S, fish/fish.c): structures *)
(* of an array linked into a list, 16-bit lengths and countdowns compared  *)
(* as signed words.  fish is one thread: each call is one step.            *)
(***************************************************************************)
EXTENDS Integers, Sequences, FiniteSets

CONSTANTS
  SignBit,  \* of a word (2^15)
  NSlots,   \* length of blink_array (80*25)
  NLoc,     \* locations on the screen (80*25)
  Asked,    \* locations the program uses
  Chars,    \* on and off characters
  Lens      \* on and off lengths

(* fish uses no location 0, which mp1_malloc takes for a free structure.   *)
ASSUME BlinkAssumption ==
  /\ SignBit \in Nat \ {0} /\ NSlots \in Nat /\ NLoc \in Nat
  /\ Asked \subseteq Nat \ {0}
  /\ \A l \in Lens : l[1] \in 0 .. 2 * SignBit - 1 /\ l[2] \in 0 .. 2 * SignBit - 1

VARIABLES heap, head, video, ret   \* 0 is NULL

vars == <<heap, head, video, ret>>

Slots == 1 .. NSlots
Words == 0 .. 2 * SignBit - 1
Zero  == [loc |-> 0, chars |-> <<"", "">>, lens |-> <<0, 0>>, countdown |-> 0,
          status |-> 0, next |-> 0]

TypeOK ==
  /\ heap \in [Slots -> [loc : {0} \cup Asked, chars : {<<"", "">>} \cup Chars,
                         lens : {<<0, 0>>} \cup Lens, countdown : Words,
                         status : {0, 1}, next : 0 .. NSlots]]
  /\ head \in 0 .. NSlots
  /\ ret \in {0, -1}

(* main() clears the array.                                                *)
Init == heap = [s \in Slots |-> Zero] /\ head = 0
        /\ video = [l \in 0 .. NLoc - 1 |-> " "] /\ ret = 0

(* Following NEXT from the head; After[k] is 0 behind the end.             *)
After[k \in 0 .. NSlots] ==
  IF k = 0 THEN head ELSE IF After[k - 1] = 0 THEN 0 ELSE heap[After[k - 1]].next
Linked == {k \in 0 .. NSlots - 1 : After[k] # 0}
InList == {After[k] : k \in Linked}

(* mp1_find_helper(): the first with that location.                        *)
Matches(loc) == {k \in Linked : heap[After[k]].loc = loc}
mp1_find_helper(loc) ==
  IF Matches(loc) = {} THEN 0
  ELSE After[CHOOSE k \in Matches(loc) : \A j \in Matches(loc) : k <= j]

(* mp1_malloc(): the first structure without a location.                   *)
FreeSlots == {s \in Slots : heap[s].loc = 0}
mp1_malloc == IF FreeSlots = {} THEN 0 ELSE CHOOSE s \in FreeSlots : \A t \in FreeSlots : s <= t

mp1_poke(loc, c) == video' = [video EXCEPT ![loc] = c]
Fail == ret' = -1 /\ UNCHANGED <<heap, head, video>>

mp1_ioctl_add(loc, chars, lens) ==
  IF loc >= NLoc \/ mp1_malloc = 0 THEN Fail
  ELSE /\ heap' = [heap EXCEPT ![mp1_malloc] =
                     [loc |-> loc, chars |-> chars, lens |-> lens, countdown |-> lens[1],
                      status |-> 1, next |-> head]]
       /\ head' = mp1_malloc
       /\ mp1_poke(loc, chars[1])
       /\ ret' = 0

(* The pointer to the structure, in the head or a NEXT, passes it by;      *)
(* mp1_free() clears it.                                                   *)
UnlinkedAtHead(h, p) == h
Unlinked(h, p) == [s \in Slots |-> IF s \in InList /\ h[s].next = p
                                   THEN [h[s] EXCEPT !.next = h[p].next] ELSE h[s]]
mp1_ioctl_remove(loc) ==
  LET p == mp1_find_helper(loc) IN
  IF p = 0 THEN Fail
  ELSE /\ heap' = [Unlinked(heap, p) EXCEPT ![p] = Zero]
       /\ head' = IF head = p THEN heap[p].next ELSE head
       /\ ret' = 0 /\ UNCHANGED video

(* cmovl after testb never moves: the off character is drawn.              *)
mp1_ioctl_sync(s, d) ==
  LET a == mp1_find_helper(s)
      b == mp1_find_helper(d)
  IN  IF a = 0 \/ b = 0 THEN Fail
      ELSE /\ heap' = [heap EXCEPT ![b] = [@ EXCEPT !.lens = heap[a].lens,
                         !.countdown = heap[a].countdown, !.status = heap[a].status]]
           /\ mp1_poke(d, heap[b].chars[2])
           /\ ret' = 0 /\ UNCHANGED head

mp1_ioctl_find(loc) ==
  ret' = (IF mp1_find_helper(loc) = 0 THEN -1 ELSE 0) /\ UNCHANGED <<heap, head, video>>

(* One structure in mp1_rtc_tasklet(): the countdown, and the change when  *)
(* it is no more positive as a signed word.                                *)
Toggled(s) == 1 - s
Decremented(c) == (c - 1) % (2 * SignBit)
PositiveUnsigned(c) == c > 0
Positive(c) == c \in 1 .. SignBit - 1
Over(s) == ~Positive(Decremented(heap[s].countdown))
Ticked(s) ==
  IF ~Over(s) THEN [heap[s] EXCEPT !.countdown = Decremented(@)]
  ELSE [heap[s] EXCEPT !.countdown = heap[s].lens[IF heap[s].status = 1 THEN 2 ELSE 1],
                       !.status = Toggled(@)]
Drawn(s) == heap[s].chars[IF heap[s].status = 1 THEN 2 ELSE 1]
mp1_rtc_tasklet ==
  /\ heap' = [s \in Slots |-> IF s \in InList THEN Ticked(s) ELSE heap[s]]
  /\ video' = [l \in DOMAIN video |->
                 LET now == {k \in Matches(l) : Over(After[k])}
                 IN  IF now = {} THEN video[l]
                     ELSE Drawn(After[CHOOSE k \in now : \A j \in now : j <= k])]
  /\ UNCHANGED <<head, ret>>

Next ==
  \/ \E l \in Asked, c \in Chars, n \in Lens : mp1_ioctl_add(l, c, n)
  \/ \E l \in Asked : mp1_ioctl_remove(l) \/ mp1_ioctl_find(l)
  \/ \E s, d \in Asked : mp1_ioctl_sync(s, d)
  \/ mp1_rtc_tasklet

Spec == Init /\ [][Next]_vars
-----------------------------------------------------------------------------
(* The list ends, and the structures in it are just those that are not     *)
(* free: none is lost and none is handed out twice (blink.S:105-237,       *)
(* fish.c:161-176).                                                        *)
ListSound ==
  /\ NSlots = 0 \/ After[NSlots] = 0
  /\ InList = Slots \ FreeSlots

(* The list, the slots and the signed words implement the sequence of      *)
(* blinks, in which a length of 1 to 2^15 lasts that many ticks and any    *)
(* other one (blink.S:43-379).                                             *)
TicksOf(n) == IF n \in 1 .. SignBit THEN n ELSE 1
Seen(b) == [loc |-> b.loc, chars |-> b.chars, lens |-> b.lens,
            phase |-> IF b.status = 1 THEN 1 ELSE 2, left |-> TicksOf(b.countdown)]
Abstraction == [k \in 1 .. Cardinality(Linked) |-> Seen(heap[After[k - 1]])]
List == INSTANCE BlinkList WITH
  Adds <- [loc : Asked, chars : Chars, lens : Lens], Valid <- 0 .. NLoc - 1, Wanted <- Asked,
  MaxBlinks <- NSlots, Ticks <- TicksOf, blinks <- Abstraction, shown <- video
ImplementsList == List!Spec
=============================================================================
