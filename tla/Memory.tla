------------------------------- MODULE Memory -------------------------------
(***************************************************************************)
(* The memory functions of the kernel (lib.c): bytes up to a boundary of   *)
(* 4, double words, the rest.  A double word moves as a whole.  A loop is  *)
(* the memory after each of its turns.                                     *)
(***************************************************************************)
EXTENDS Integers, Sequences

CONSTANT Cells      \* BOUND: bytes of memory
ASSUME CellsAssumption == Cells \in Nat

Low8(c) == c % 256
Put(m, a, bytes) == [x \in DOMAIN m |-> IF x \in a .. a + Len(bytes) - 1 THEN bytes[x - a + 1] ELSE m[x]]
Unit(m, s, k) == [j \in 1 .. k |-> m[s + j - 1]]

(* rep stos: n units from s on.                                            *)
Store(m, s, unit, n) ==
  LET f[j \in 0 .. n] == IF j = 0 THEN m ELSE Put(f[j - 1], s + Len(unit) * (j - 1), unit)
  IN  f[n]

(* rep movs: n units of k bytes, up or down as the direction flag says.    *)
Move(m, d, s, k, step, n) ==
  LET f[j \in 0 .. n] ==
        IF j = 0 THEN m
        ELSE LET p == f[j - 1] IN Put(p, d + step * (j - 1), Unit(p, s + step * (j - 1), k))
  IN  f[n]

(* The turns of the first loop of memset and memcpy: until no byte is left *)
(* or the address is on a boundary.                                        *)
ToBoundary(a, n) ==
  CHOOSE k \in 0 .. n : (k = n \/ (a + k) % 4 = 0) /\ \A j \in 0 .. k - 1 : (a + j) % 4 # 0

memset(m, s, c, n) ==
  LET b == Low8(c)
      h == ToBoundary(s, n)
      q == (n - h) \div 4
      dwords == Store(Store(m, s, <<b>>, h), s + h, <<b, b, b, b>>, q)
  IN  Store(dwords, s + h + 4 * q, <<b>>, (n - h) % 4)
memset_word(m, s, c, n) == Store(m, s, <<Low8(c), Low8(c \div 256)>>, n)
memset_dword(m, s, c, n) ==
  Store(m, s, <<Low8(c), Low8(c \div 256), Low8(c \div 65536), Low8(c \div 16777216)>>, n)

memcpyNoRest(m, d, s, n) ==
  LET h == ToBoundary(d, n)
  IN  Move(Move(m, d, s, 1, 1, h), d + h, s + h, 4, 4, (n - h) \div 4)
memcpy(m, d, s, n) ==
  LET h == ToBoundary(d, n)
      q == (n - h) \div 4
      dwords == Move(Move(m, d, s, 1, 1, h), d + h, s + h, 4, 4, q)
  IN  Move(dwords, d + h + 4 * q, s + h + 4 * q, 1, 1, (n - h) % 4)

(* Downwards it leaves the direction flag set.  That is not part of the    *)
(* memory: all functions here clear the flag first, and no code calls it.  *)
memmove(m, d, s, n) ==
  IF s >= d THEN Move(m, d, s, 1, 1, n) ELSE Move(m, d + n - 1, s + n - 1, 1, -1, n)
-----------------------------------------------------------------------------
(* The memory with the values w from d on.                                 *)
With(m, d, w) == [a \in DOMAIN m |-> IF a - d \in DOMAIN w THEN w[a - d] ELSE m[a]]
Areas == [kind : {"area"}, d : 0 .. Cells, s : 0 .. Cells, n : 0 .. Cells]

VARIABLE input   \* what is tried

(* The memory functions change just the bytes they are told to, whatever   *)
(* the alignment; memmove also when the areas overlap, memcpy when the     *)
(* destination is the lower one or they do not (lib.c:456-630).            *)
Mem == [a \in 0 .. Cells - 1 |-> 100 + a]
MemoryRight ==
  input.kind = "area" =>
    LET d == input.d
        s == input.s
        n == input.n
        moved == With(Mem, d, [i \in 0 .. n - 1 |-> Mem[s + i]])
    IN  /\ d + n <= Cells => memset(Mem, d, 300, n) = With(Mem, d, [i \in 0 .. n - 1 |-> 44])
        /\ d + 2 * n <= Cells =>
             memset_word(Mem, d, 770, n) = With(Mem, d, [i \in 0 .. 2 * n - 1 |-> 2 + (i % 2)])
        /\ d + 4 * n <= Cells =>
             memset_dword(Mem, d, 67305985, n) = With(Mem, d, [i \in 0 .. 4 * n - 1 |-> 1 + (i % 4)])
        /\ d + n <= Cells /\ s + n <= Cells =>
             /\ memmove(Mem, d, s, n) = moved
             /\ d <= s \/ s + n <= d => memcpy(Mem, d, s, n) = moved
=============================================================================
