-------------------------------- MODULE Pic ---------------------------------
(***************************************************************************)
(* The two interrupt controllers as i8259.c programs them: lines 0..7 on   *)
(* the master, 8..15 on the slave, which is connected to line 2.           *)
(***************************************************************************)
EXTENDS Integers

Lines == 0 .. 15

(* mask: lines that are masked; irr: requests; isr: interrupts in service. *)
Pics == [mask : SUBSET Lines, irr : SUBSET Lines, isr : SUBSET Lines]

(* The mask bit is toggled: the line must be masked before.                *)
Toggle(S, n) == IF n \in S THEN S \ {n} ELSE S \cup {n}
enable_irqTwice(p, n) == p
enable_irq(p, n) == [p EXCEPT !.mask = Toggle(p.mask, n)]

(* The four control words forget requests and services; then everything is *)
(* masked and line 2 is let through.                                       *)
i8259_init == enable_irq([mask |-> Lines, irr |-> {}, isr |-> {}], 2)

(* Vectors from ICW2.                                                      *)
Vector(n) == IF n < 8 THEN 32 + n ELSE 40 + n - 8

(* Priorities: 0, 1, then the slave's lines in place of 2, then 3 to 7.    *)
Rank(n) == IF n >= 8 THEN 20 + n ELSE 10 * n
Request(p, n) == [p EXCEPT !.irr = @ \cup {n}]
CanDeliver(p, n) ==
  /\ n \in p.irr \ p.mask
  /\ n >= 8 => 2 \notin p.mask
  /\ \A k \in p.isr : Rank(n) < Rank(k)
  /\ \A k \in p.irr \ p.mask : Rank(n) <= Rank(k)
Acknowledge(p, n) ==
  [p EXCEPT !.irr = @ \ {n}, !.isr = @ \cup IF n < 8 THEN {n} ELSE {n, 2}]

(* The end of one named interrupt; of a line of the slave, at both.        *)
send_eoi(p, n) == [p EXCEPT !.isr = @ \ IF n < 8 THEN {n} ELSE {n, 2}]
=============================================================================
