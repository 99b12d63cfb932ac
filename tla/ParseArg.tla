------------------------------ MODULE ParseArg ------------------------------
(***************************************************************************)
(* parse_arg (syscall.c): the command is cut at its spaces into the two    *)
(* global buffers filename and arg.  They keep what an earlier execute     *)
(* left in them, and memory goes on behind them.                           *)
(***************************************************************************)
EXTENDS Strings

CONSTANT NameSize   \* length of filename and of arg (32)
ASSUME NameSizeAssumption == NameSize \in Nat \ {0}

Space == 32
Buffers == {"filename", "arg"}

(* The inner while: up to the next space or 0.                             *)
WordEnd(buf, c) ==
  CHOOSE e \in c .. Len(buf) - 1 : /\ Dec(buf, e) \in {NUL, Space}
                                   /\ \A j \in c .. e - 1 : Dec(buf, j) \notin {NUL, Space}
(* curr gets the characters from c up to e, from i on, and a 0.            *)
Word(curr, i, buf, c, e) ==
  [x \in DOMAIN curr |-> IF i <= x /\ x < i + (e - c) THEN Dec(buf, c + (x - i))
                         ELSE IF x = i + (e - c) THEN NUL ELSE curr[x]]

(* A turn of the for: after a space arg starts again; the end of the       *)
(* command ends the loop in filename, in arg it goes on behind it.         *)
TurnNoReset(p, buf) ==
  LET e   == WordEnd(buf, p.c)
      mem == [p.mem EXCEPT ![p.curr] = Word(@, p.i, buf, p.c, e)]
  IN  IF Dec(buf, e) # Space /\ p.curr = "filename"
      THEN [p EXCEPT !.mem = [mem EXCEPT !["arg"] = [@ EXCEPT ![0] = NUL]], !.left = TRUE]
      ELSE [p EXCEPT !.mem = mem, !.curr = "arg", !.i = @ + (e - p.c) + 1, !.c = e + 1]
Turn(p, buf) ==
  LET e   == WordEnd(buf, p.c)
      mem == [p.mem EXCEPT ![p.curr] = Word(@, p.i, buf, p.c, e)]
  IN  IF Dec(buf, e) = Space
      THEN [p EXCEPT !.mem = mem, !.curr = "arg", !.i = 0, !.c = e + 1]
      ELSE IF p.curr = "filename"
      THEN [p EXCEPT !.mem = [mem EXCEPT !["arg"] = [@ EXCEPT ![0] = NUL]], !.left = TRUE]
      ELSE [p EXCEPT !.mem = mem, !.i = @ + (e - p.c) + 1, !.c = e + 1]
Done(p) == p.left \/ p.i >= NameSize

(* Every turn uses up a character, so the loop has ended after Len(buf).   *)
parse_arg(mem, buf) ==
  LET f[k \in 0 .. Len(buf)] ==
        IF k = 0 THEN [mem |-> mem, curr |-> "filename", i |-> 0, c |-> 0, left |-> FALSE]
        ELSE LET p == f[k - 1] IN IF Done(p) THEN p ELSE Turn(p, buf)
  IN  f[Len(buf)].mem
-----------------------------------------------------------------------------
Commands == [kind : {"command"}, t : UNION {[1 .. n -> {97, Space}] : n \in 0 .. 3 * NameSize}]
OldBuffers == [b \in Buffers |-> [x \in 0 .. 2 * NameSize - 1 |-> 99]]

(* The command as execute gets it from the shell: zeros follow it, for     *)
(* terminal_read clears 129 bytes first (terminal.c:25-27).  A command of  *)
(* about a hundred characters or more has fewer zeros behind it than are   *)
(* read here when it has an argument; that case is left out.               *)
Given(t) == t \o [i \in 1 .. 2 * NameSize |-> NUL]
Spells(b, w) == b[Len(w)] = NUL /\ \A j \in 1 .. Len(w) : b[j - 1] = w[j]
Short(t) == \A a \in 0 .. Len(t) - NameSize : \E j \in a + 1 .. a + NameSize : t[j] = Space
FirstSpace(t) == CHOOSE e \in 1 .. Len(t) + 1 : (e = Len(t) + 1 \/ t[e] = Space)
                                                /\ \A j \in 1 .. e - 1 : t[j] # Space
LastSpace(t) == CHOOSE e \in 0 .. Len(t) : (e = 0 \/ t[e] = Space) /\ \A j \in e + 1 .. Len(t) : t[j] # Space

(* parse_arg gives the program the first field of the command and as its   *)
(* argument the last one, or nothing when there is no space, and writes    *)
(* nothing behind its two buffers, when the fields are shorter than these  *)
(* (syscall.c:140-163).                                                    *)
ParseRight ==
  input.kind = "command" /\ Short(input.t) =>
    LET t == input.t
        r == parse_arg(OldBuffers, Given(t))
    IN  /\ Spells(r["filename"], SubSeq(t, 1, FirstSpace(t) - 1))
        /\ Spells(r["arg"], IF FirstSpace(t) = Len(t) + 1 THEN <<>> ELSE SubSeq(t, LastSpace(t) + 1, Len(t)))
        /\ \A b \in Buffers, x \in NameSize .. 2 * NameSize - 1 : r[b][x] = OldBuffers[b][x]
=============================================================================
