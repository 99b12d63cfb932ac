------------------------------ MODULE Keyboard ------------------------------
(***************************************************************************)
(* The keyboard (keyboard.c): scan codes of keys that are pressed, held    *)
(* and released, the modifier flags, and what the handler does with a key. *)
(***************************************************************************)
EXTENDS Integers, Sequences, FiniteSets

CONSTANTS
  Keys,     \* scan codes of the keys that are used
  MaxHeld   \* BOUND: keys held at a time

VARIABLES
  flags,    \* shift_flag, ctrl_flag, alt_flag, caps_lock
  held,     \* the keys that are down
  code,     \* the scan code in the controller's buffer, 0 if none
  out       \* what the last handled key did

kbdvars == <<flags, held, code, out>>

NoFlags == [shift |-> 0, ctrl |-> 0, alt |-> 0, caps |-> 0]
KeyboardInit == flags = NoFlags /\ held = {} /\ code = 0 /\ out = <<"none", 0>>

(* The two tables, for codes 0 to 58; 74 and 78 are '-' and '+', the rest  *)
(* is 0.                                                                   *)
Plain ==
  <<0, 27, 49, 50, 51, 52, 53, 54, 55, 56, 57, 48, 45, 61, 8, 9,
    113, 119, 101, 114, 116, 121, 117, 105, 111, 112, 91, 93, 10, 0,
    97, 115, 100, 102, 103, 104, 106, 107, 108, 59, 39, 96, 0, 92,
    122, 120, 99, 118, 98, 110, 109, 44, 46, 47, 0, 42, 0, 32, 0>>
Shifted ==
  <<0, 27, 33, 64, 35, 36, 37, 94, 38, 42, 40, 41, 95, 43, 8, 9,
    81, 87, 69, 82, 84, 89, 85, 73, 79, 80, 123, 125, 10, 0,
    65, 83, 68, 70, 71, 72, 74, 75, 76, 58, 39, 126, 0, 92,
    90, 88, 67, 86, 66, 78, 77, 60, 62, 63, 0, 42, 0, 32, 0>>
Look(table, z) == IF z < 59 THEN table[z + 1] ELSE IF z = 74 THEN 45 ELSE IF z = 78 THEN 43 ELSE 0
array_of_char(z) == Look(Plain, z)
shift_char(z) == Look(Shifted, z)

(* Which codes the handler looks at, and which of them caps lock changes.  *)
(* The right shift key, 54, is not among them.                             *)
Handled == 2 .. 53 \cup 55 .. 62 \cup {74, 78}
CapsKeys == 16 .. 25 \cup 30 .. 38 \cup 44 .. 50

(* Codes of keys that go up are 128 higher.                                *)
AfterUpAlt(f, z) ==
  [f EXCEPT !.shift = IF z \in {42, 54} THEN 0 ELSE @,
            !.ctrl  = IF z = 29 THEN 0 ELSE @]
AfterUp(f, z) ==
  [f EXCEPT !.shift = IF z \in {42, 54} THEN 0 ELSE @,
            !.ctrl  = IF z = 29 THEN 0 ELSE @,
            !.alt   = IF z = 56 THEN 0 ELSE @]
AfterDown(f, z) ==
  IF z \notin Handled THEN f
  ELSE [f EXCEPT !.shift = IF z \in {42, 54} THEN 1 ELSE @,
                 !.ctrl  = IF z = 29 THEN 1 ELSE @,
                 !.alt   = IF z = 56 THEN 1 ELSE @,
                 !.caps  = IF z = 58 THEN 1 - @ ELSE @]

UpperCapsOnly(f, z) == f.caps = 1 /\ z \in CapsKeys
Upper(f, z) == (f.caps = 1 /\ z \in CapsKeys) \/ (f.shift = 1 /\ z \in 2 .. 53)

(* What a key that is no modifier does: Ctrl-L, Ctrl-C, Alt-Fn, or a       *)
(* character for putc.  F1 to F3 alone do nothing.                         *)
Effect(f, z) ==
  IF z \notin Handled \/ z \in {42, 54, 29, 56, 58} THEN <<"none", 0>>
  ELSE IF f.ctrl = 1 /\ z = 38 THEN <<"reset_screen", 0>>
  ELSE IF f.ctrl = 1 /\ z = 46 THEN <<"halt", 0>>
  ELSE IF z \in 59 .. 61 THEN (IF f.alt = 1 THEN <<"screen", z - 58>> ELSE <<"none", 0>>)
  ELSE <<"putc", IF Upper(f, z) THEN shift_char(z) ELSE array_of_char(z)>>

(* keyboard_handler() after the end of interrupt is sent.                  *)
KeyboardHandler ==
  /\ IF code >= 128
     THEN flags' = AfterUp(flags, code - 128) /\ out' = <<"none", 0>>
     ELSE flags' = AfterDown(flags, code) /\ out' = Effect(flags, code)
  /\ code' = 0
  /\ UNCHANGED held

(* The hardware: a key goes down, or repeats while it is held, or goes up. *)
Press(z) ==
  /\ code = 0 /\ (z \in held \/ Cardinality(held) < MaxHeld)
  /\ code' = z /\ held' = held \cup {z} /\ UNCHANGED <<flags, out>>
Release(z) ==
  /\ code = 0 /\ z \in held
  /\ code' = z + 128 /\ held' = held \ {z} /\ UNCHANGED <<flags, out>>
=============================================================================
